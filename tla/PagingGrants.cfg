\* The two lists whose cursors are rounded to milliseconds.
SPECIFICATION PageSpec
CONSTANTS
  ListNames = {"mcpGrants", "conversations"}
  MaxRow = 2
  LastPlace = 1
  MaxLimit = 1
  MaxChanges = 0
INVARIANT WalksListEachRowOnce
CHECK_DEADLOCK FALSE
