SPECIFICATION Spec
CONSTANTS
  Writer <- MCWriter
  RecordId <- MCRecordId
  MaxFaults = 2
  t1 = t1
  t2 = t2
  r1 = r1
  r2 = r2
  r3 = r3
SYMMETRY Symmetry
INVARIANTS TypeOK SavedIsKept SavedOnce
