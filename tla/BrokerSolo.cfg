SPECIFICATION Spec
CONSTANTS
  t1 = t1
  g1 = g1
  PartitionCount = 1
  Topics <- MCTopics
  Groups <- MCGroups
  Partitions <- MCPartitions
  Members = {1, 2}
  Publishers = {p1, p2}
  NoGroup = NoGroup
  NoMsg = NoMsg
  Requests <- SoloAny
  ChanCap = 1
  CentralCap = 1
  StoreFails = TRUE
  MaxLog = 2
INVARIANTS
  NoSendOnClosedChannel
  DeliveryAccounted
  PublisherOrder
  DuplicatesOnlyAtHandover
SYMMETRY Sym
CHECK_DEADLOCK FALSE
