SPECIFICATION TMSpec
CONSTANTS
  t1 = t1
  t2 = t2
  ka = ka
  Topics <- MCTopics
  DefaultTopic = t1
  Sizes = {1, 2}
  Publishers = {p1}
  Creators = {c1, c2}
  MsgKeys = {ka}
  NoKey = NoKey
  Hash <- MCHash
  Hints <- MCHints
  MaxPartitions = 2
  Durable = TRUE
  MaxLog = 1
  MaxPicks = 1
INVARIANTS
  CatalogConsistent
SYMMETRY Sym
