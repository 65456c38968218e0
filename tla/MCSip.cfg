SPECIFICATION SipSpec
CONSTANTS
  Parts = {"trans", "request", "reg", "sub", "not"}
  Method <- MCMethod
  Final <- MCFinal
  MaxSrv = 2
  MaxAddr = 2
  Transports = 2
  Family <- MCFamily
  Expires <- MCExpires
  Granted <- MCGranted
  MaxRegFailc = 8
  Word = 4194304
  MaxSubFailc = 3
  MaxVersion = 3
  MaxLoop = 3
CHECK_DEADLOCK FALSE
INVARIANTS
  TransSafe
  RequestSafe
  EventSafe
PROPERTIES
  Implements
  Concluded
  RequestEnds
  EventFreed
