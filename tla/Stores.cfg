SPECIFICATION StoresSpec
CONSTANTS
  a = a
  b = b
  c = c
  Callers = {w1, w2}
  Groups <- MCGroups
  Topics <- MCTopics
  Parts = {0}
  AckOffsets = {0, 1}
  MaxLog <- MCMaxLog
  MaxCommitted = 2
  StoreTypes = {"memory", "file", "redis", "postgres", "other"}
INVARIANTS
  StoresTypeOK
  TablesAgree
  ReadsAgree
  LastCommitIsRead
PROPERTIES
  AppendsAreAtomic
SYMMETRY Sym
