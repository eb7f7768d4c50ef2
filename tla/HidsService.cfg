SPECIFICATION Spec
CHECK_DEADLOCK FALSE
CONSTANTS
  Classes = {0, 1}
  Normal = 0
  Confidences = {60}
  MinConf = 60
  Required = 2
  Sockets = {1, 2}
  NAddr = 1
  SndBuf = 3
  MaxFaults = 1
  PublishEveryWindow = TRUE
  WindowSec = 30
  Keepalive = 30
  DialSec = 0
  AckSec = 0
  MaxWindows = 2
  MaxLives = 2
INVARIANTS
  TypeOK
  DeliveredInOrder
  AlertsJustified
