SPECIFICATION Spec
CONSTANTS
  Parts = {"agent", "loop", "lists"}
  Account = {"a", "b"}
  Regc <- MCRegc
  Silent = {"b"}
  UaCall = {"c"}
  UaMaxCalls = 1
  Addr = {"x", "y"}
  MaxStack = 2
  MaxEpoch = 3
  MaxPending = 2
  ResumeEarly = FALSE
  MaxFd = 2
  Timer = {t1, t2}
  Delays = {0, 1}
  MaxTime = 2
  MaxOwner = 2
  PipeSize = 2
  Elem = {"a", "b", "c", "d"}
  Bsize = 2
  Key <- MCKey
  Prio <- MCPrio
  Threshold = 3
CHECK_DEADLOCK FALSE
INVARIANTS
  AgentSound
  TimersOrdered
  ListsSound
PROPERTIES
  AgentQuits
  QueueServed
