SPECIFICATION FairSpec
CHECK_DEADLOCK FALSE
CONSTANTS
  Classes = {0, 1}
  Normal = 0
  Confidences = {60}
  MinConf = 60
  Required = 1
  Sockets = {1, 2}
  NAddr = 1
  SndBuf = 2
  MaxFaults = 1
  PublishEveryWindow = TRUE
  WindowSec = 30
  Keepalive = 20
  DialSec = 127
  AckSec = 0
  MaxWindows = 2
  MaxLives = 1
INVARIANTS
  SpanAtLeastWindow
  
PROPERTIES
  WindowCompletes
  StopLeadsToExit
