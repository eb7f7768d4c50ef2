SPECIFICATION Spec
CHECK_DEADLOCK FALSE
CONSTANTS
  Unit = 2
  ModelFiles <- MCModelFiles
  Entries = {"given", "csv", "other", "unreadable"}
  Headers <- MCHeaders
  Rows <- MCRows
  MaxRows = 3
INVARIANTS
  SameDump
  EveryRowCounted
