SPECIFICATION GMSpec
CONSTANTS
  g1 = g1
  g2 = g2
  t1 = t1
  t2 = t2
  Groups <- MCGroups
  Topics <- MCTopics
  Members <- MCMembers
  Partitions <- MCPartitions
INVARIANTS
  GMTypeOK
  TableIsCurrent
  DisjointOwners
  NoOrphanPartition
  Balanced
  EmptyGroupForgotten
