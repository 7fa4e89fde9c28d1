SPECIFICATION RestartSpec
CONSTANTS
  t1 = t1
  g1 = g1
  PartitionCount = 1
  Topics <- MCTopics
  Groups <- MCGroups
  Partitions <- MCPartitions
  Members = {1, 2}
  Publishers = {p1, p2}
  NoGroup = NoGroup
  NoMsg = NoMsg
  Requests <- GroupResume
  ChanCap = 1
  CentralCap = 1
  StoreFails = FALSE
  MaxLog = 2
  MaxCrashes = 1
INVARIANTS
  SkipsAccounted
  CommitsWereReceived
  AssignmentServedUntilRebalance
CONSTRAINT Bounds
CHECK_DEADLOCK FALSE
