SPECIFICATION ServerSpec
CONSTANTS
  Producers = {p1}
  Consumers = {c1}
  StoreTypes = {"memory", "redis", "postgres"}
  MaxStarts = 2
  MaxSent = 2
  MaxCopies = 2
INVARIANTS
  ServerTypeOK
  PanicContained
  ExitCodeTruthful
  NobodyWaitsForNothing
  NeverEOF
PROPERTIES
  DeadStreamStaysDead
CHECK_DEADLOCK FALSE
