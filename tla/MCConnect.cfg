SPECIFICATION Spec
CONSTANTS
  Confs <- MCConfs
  MaxFd = 2
  MaxAddr = 3
  HttpBuf = 3
  HttpLens = {2, 3, 4}
  Socks4Len = 3
  GreetLen = 2
  HeadLen = 2
  AddrLens = {2, 3, 5}
  RespBuf = 3
INVARIANTS OwnDescriptors HardKept StreamStarts TlsKept
PROPERTIES AllTried
CHECK_DEADLOCK FALSE
