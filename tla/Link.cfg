SPECIFICATION Spec
CONSTANTS
  Own = own
  Ephemeral = {e1, e2}
  NoPort = none
  Backlog = 2
  RequestSize = 2
  AnswerSize = 2
  MaxStrangers = 1
INVARIANTS
  TypeOK
  DescriptorsOwned
  SeenWhereItIs
PROPERTIES
  KeepsPromise
  BothReturn
CHECK_DEADLOCK FALSE
