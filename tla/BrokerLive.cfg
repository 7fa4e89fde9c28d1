SPECIFICATION FairSpec
CONSTANTS
  t1 = t1
  g1 = g1
  PartitionCount = 1
  Topics <- MCTopics
  Groups <- MCGroups
  Partitions <- MCPartitions
  Members = {1}
  Publishers = {p1}
  NoGroup = NoGroup
  NoMsg = NoMsg
  Requests <- GroupResume
  ChanCap = 1
  CentralCap = 1
  StoreFails = FALSE
  MaxLog = 3
PROPERTIES
  CancelReturns
  EnqueuedIsDelivered
CHECK_DEADLOCK FALSE
