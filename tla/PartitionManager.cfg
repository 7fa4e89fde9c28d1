SPECIFICATION PMSpec
CONSTANTS
  t1 = t1
  ka = ka
  Topics <- MCTopics
  Sizes = {1, 2}
  Publishers = {p1, p2}
  MsgKeys = {ka}
  NoKey = NoKey
  Hash <- MCHash
  Hints <- MCHints
  MaxPartitions = 2
  Durable = TRUE
  MaxLog = 2
  MaxPicks = 3
INVARIANTS
  PMTypeOK
  MutexIsCurrent
  SerializedAppends
  StoredIsReachable
  RoundRobinEven
PROPERTIES
  OffsetsAreIndexes
SYMMETRY Sym
