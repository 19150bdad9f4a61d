SPECIFICATION Spec
CONSTANTS
  Timeout = 3
  Grace = 1
  MaxReply = 4
  Chunk = 2
  Capacity = 3
INVARIANTS TypeOK Bounded OkIsWhole NothingLeft
PROPERTIES Returns
