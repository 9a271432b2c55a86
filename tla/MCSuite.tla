------------------------------- MODULE MCSuite ------------------------------
(* Instances of Suite: suites of two entries with every kind of entry in     *)
(* every environment, test cases with every kind of parsing and condition,   *)
(* and every configuration of the output.                                    *)
EXTENDS Suite

TheArgs(names) == [valid |-> TRUE, names |-> names]
BadArgs == [valid |-> FALSE, names |-> {}]
Anywhere == [installers |-> {}, pods |-> {}]
NoMap == [p \in {} |-> NoArgs]

PlainEntry == [named |-> TRUE, constrained |-> FALSE, constraint |-> Anywhere,
               args |-> NoMap, fnames |-> NoMap]
PlainTest == [parses |-> "well", needs |-> {}, precondition |-> Anywhere, gives |-> {}]
Nothing == [dispatchers |-> <<>>, target |-> None]
PlainProgram ==
  [suite |-> TRUE, suiteParses |-> "well", entries |-> <<PlainEntry>>, tests |-> <<PlainTest>>,
   argsFile |-> NoArgs, global |-> NoArgs, parseOnly |-> FALSE, confReadable |-> FALSE, conf |-> Nothing,
   env |-> Nothing, NODE_NAME |-> None, INSTALLER_TYPE |-> None, INSTALL_TYPE |-> None]

ArgMaps == {NoMap, [p \in {"pod1"} |-> TheArgs({"a"})],
            [p \in {"pod1", "default"} |-> IF p = "pod1" THEN TheArgs({"a", "b"}) ELSE TheArgs({"b"})]}
FileMaps == {NoMap, [p \in {"pod1"} |-> TheArgs({"a"})]}
Entries ==
  {[PlainEntry EXCEPT !.named = FALSE, !.args = [p \in {"default"} |-> TheArgs({"b"})]]}
  \cup {[PlainEntry EXCEPT !.constrained = TRUE, !.args = m,
                           !.constraint = [installers |-> s, pods |-> p]] :
          m \in ArgMaps, s \in {{}, {"apex"}}, p \in {{}, {"pod1"}}}
  \cup {[PlainEntry EXCEPT !.args = m, !.fnames = f] : m \in ArgMaps, f \in FileMaps}

(* the parser: pairs of entries, of which the first test case gives "a"      *)
Giving == [PlainTest EXCEPT !.gives = {"a"}]
SuitePrograms ==
  {[PlainProgram EXCEPT !.entries = <<d, e>>, !.tests = <<Giving, PlainTest>>, !.global = g,
                        !.NODE_NAME = n, !.INSTALLER_TYPE = t] :
     d, e \in Entries, g \in {NoArgs, TheArgs({"a"})}, n \in {None, "pod1"}, t \in {None, "apex"}}

(* the test cases: one alone with its arguments, and three in a row          *)
Tests == {[PlainTest EXCEPT !.parses = p, !.needs = d, !.precondition = [installers |-> s, pods |-> q],
                            !.gives = {"a", "b"}] :
            p \in {"well", "raises", "exits", "unreadable"}, d \in {{}, {"a"}},
            s \in {{}, {"apex"}}, q \in {{}, {"pod1"}}}
TestPrograms ==
  {[PlainProgram EXCEPT !.suite = FALSE, !.tests = <<t>>, !.argsFile = f, !.global = g,
                        !.NODE_NAME = n, !.INSTALL_TYPE = c] :
     t \in Tests, f, g \in {NoArgs, BadArgs, TheArgs({"a"})},
     n \in {None, "pod1", "pod2"}, c \in {None, "apex"}}
  \cup {[PlainProgram EXCEPT !.entries = <<PlainEntry, PlainEntry, PlainEntry>>,
                             !.tests = <<Giving, t, [PlainTest EXCEPT !.needs = {"b"}]>>] :
          t \in Tests}
  \cup {[PlainProgram EXCEPT !.entries = <<[PlainEntry EXCEPT !.args = [p \in {"default"} |-> BadArgs]]>>]}

(* the output                                                                *)
DispatcherLists == UNION {[1 .. n -> Dispatcher] : n \in 0 .. 2}
OutputPrograms ==
  {[PlainProgram EXCEPT !.env = [dispatchers |-> d, target |-> t],
                        !.suiteParses = s, !.parseOnly = o] :
     d \in DispatcherLists, t \in Target, s \in {"well", "raises", "exits"}, o \in BOOLEAN}
  \cup
  {[PlainProgram EXCEPT !.env = [dispatchers |-> d, target |-> t], !.confReadable = r,
                        !.conf = [dispatchers |-> e, target |-> u]] :
     d \in {<<>>, <<"http">>}, e \in DispatcherLists, t, u \in Target, r \in BOOLEAN}

ProgramsUnderTest == SuitePrograms \cup TestPrograms \cup OutputPrograms
=============================================================================
