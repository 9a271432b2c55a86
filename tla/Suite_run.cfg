SPECIFICATION Spec
CONSTANTS Name = {"a", "b"}
          Pod = {"pod1", "pod2"}
          Installer = {"apex", "fuel"}
          MaxCases = 3
          Programs <- ProgramsUnderTest
INVARIANTS TypeOK RunsAsConfigured FileTellsTheEnd
