SPECIFICATION Spec
CONSTANT
  Programs <- AllPrograms
  NoName = NoName
INVARIANTS
  TypeOK
  PairsAreHinted
  TemplateIsClosed
  FlavorIsAwaited
  OutputsAreDefined
