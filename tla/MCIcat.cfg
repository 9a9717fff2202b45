SPECIFICATION Spec
CONSTANTS
  Settings <- MCSettings
  Free = 1
  Hbeat = 1
  LineDelay = 1
  WaitQuit = 1
  CfWait = 1
  SslCap = 1
  MaxLines = 2
  MaxIn = 1
INVARIANTS EachLineOnce AllSaid
PROPERTIES HeartbeatJust QueueMoves QuitEnds
CHECK_DEADLOCK FALSE
