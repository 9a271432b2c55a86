SPECIFICATION FairSpec
CONSTANTS
  c1 = c1
  c2 = c2
  Contexts = {c1, c2}
  Names = {"stack", "other"}
  Old = Old
  None = None
  Cases <- TogetherOrApart
INVARIANTS
  TypeOK
  NoStackLeaks
  TrackedIsLive
  ForeignStackIsLeft
PROPERTIES
  ProgramEnds
