SPECIFICATION Spec
CONSTANTS
  t1 = t1
  g1 = g1
  PartitionCount = 2
  Topics <- MCTopics
  Groups <- MCGroups
  Partitions <- MCPartitions
  Members = {1}
  Publishers = {p1}
  NoGroup = NoGroup
  NoMsg = NoMsg
  Requests <- GroupResume
  ChanCap = 1
  CentralCap = 1
  StoreFails = TRUE
  MaxLog = 2
INVARIANTS
  TypeOK
  CleanExit
  NoSendOnClosedCentral
  DeliveryAccounted
  DuplicatesOnlyAtHandover
CHECK_DEADLOCK FALSE
