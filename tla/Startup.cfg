SPECIFICATION Spec
CHECK_DEADLOCK FALSE
CONSTANTS
  Lines <- MCLines
  HostName <- MCHostName
  MaxLines = 2
  Unit = 100
  Base = 8
  ModelFiles <- MCModelFiles
  Lacking <- MCLacking
  Confidences = {11111, 59996, 100000}
INVARIANTS
  LoadedAsWritten
  StartsIffSound
  VectorInPlace
  ConnectUnderstood
  EventUnderstood
