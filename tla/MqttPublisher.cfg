SPECIFICATION FairSpec
CONSTANTS
  Sockets = {1, 2}
  Messages = {m1}
  NoMsg = NoMsg
  NAddr = 2
  SndBuf = 3
  MaxFaults = 2
INVARIANTS
  TypeOK
  StreamWellFormed
  NoFdLeak
  VerdictMatchesSession
PROPERTIES
  CallReturns
  Recovery
