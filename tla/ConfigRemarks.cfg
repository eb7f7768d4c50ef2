SPECIFICATION LoadSpec
CHECK_DEADLOCK FALSE
CONSTANTS
  Lines <- MCLines
  HostName <- MCHostName
  MaxLines = 1
INVARIANT
  RemarksAreIgnored
