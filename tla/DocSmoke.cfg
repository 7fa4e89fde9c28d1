SPECIFICATION Spec
CONSTANTS
  t1 = t1
  g1 = g1
  PartitionCount = 1
  Topics <- MCTopics
  Groups <- MCGroups
  Partitions <- MCPartitions
  Members = {1}
  Publishers = {p1}
  NoGroup = NoGroup
  NoMsg = NoMsg
  Requests <- GroupResume
  ChanCap = 4
  CentralCap = 4
  StoreFails = FALSE
  MaxLog = 2
INVARIANTS
  NothingMissed
CHECK_DEADLOCK FALSE
