SPECIFICATION Spec
CONSTANTS
  Pid <- MCPid
  MaxChanges = 2
INVARIANTS TypeOK OneInstance SnapshotUnlessReversed NoFalseAlarm
