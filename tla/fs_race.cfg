\* The clock stands still: all changes share one timestamp, and nothing bounds their number.
SPECIFICATION Spec
CONSTANTS
  root = root
  d1 = d1
  d2 = d2
  f1 = f1
  f2 = f2
  ln = ln
  Absent = Absent
  Inode <- OneInode
  Root = root
  Kind <- OneKind
  Fits <- OneFits
  Depth = 1
  ServiceFrom = 2
  Limit = 2
  Chunk = 2
  Byte = {0, 1}
  Contents <- MCContents
  Tick = {0}
  MaxNow = 0
INVARIANTS
  ReadIsBounded
PROPERTY
  CallReturns
