SPECIFICATION FairSpec
CONSTANTS MaxRetries = 2
          Steps <- StepsUnderTest
INVARIANTS TypeOK VerdictIsDeserved RequestIsGiven
PROPERTY StepEnds
