SPECIFICATION Spec
CHECK_DEADLOCK FALSE
CONSTANTS
  Classes = {0, 1}
  Normal = 0
  Confidences = {60}
  MinConf = 60
  Required = 2
  Sockets = {1, 2}
  NAddr = 1
  SndBuf = 3
  MaxFaults = 0
  PublishEveryWindow = FALSE
  WindowSec = 30
  Keepalive = 60
  DialSec = 0
  AckSec = 0
  MaxWindows = 4
  MaxLives = 1
INVARIANT
  AlertDelivered
