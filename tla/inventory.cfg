SPECIFICATION Spec
CONSTANTS
  Kinds <- MCKinds
  Id <- MCId
  PageSize = 1
  MaxItems = 2
  MaxRequests = 17
  MaxChanges = 3
  Initially <- MCInitially
INVARIANTS TypeOK InventoryIsSnapshot SecretsOnlyToPinned LimitIsEnough
PROPERTIES Ends
