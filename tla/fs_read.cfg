\* Every change takes a new timestamp.
SPECIFICATION MCSpec
CONSTANTS
  root = root
  d1 = d1
  d2 = d2
  f1 = f1
  f2 = f2
  ln = ln
  Absent = Absent
  Inode <- MCInode
  Root = root
  Kind <- MCKind
  Fits <- MCFits
  Depth = 2
  ServiceFrom = 2
  Limit = 2
  Chunk = 1
  Byte = {0, 1}
  Contents <- MCContents
  Tick = {1}
  MaxNow = 2
INVARIANTS
  TypeOK
  ReadIsAtomic
  NoFalseAlarm
  NoDescriptorLeak
