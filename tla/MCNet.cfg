SPECIFICATION Spec
CONSTANTS
  Parts = {"tcp", "transp", "dns", "bfcp", "ice", "natbd"}
  Chunk = {1, 2, 3}
  TxqMax = 4
  MaxStream = 8
  Conn = {c1, c2}
  Peer = {p1}
  Tx = {t1, t2}
  Ka = {k1}
  MaxHeld = 2
  Query = {q1, q2, q3}
  TcpConn = {d1, d2}
  Servers = 2
  NtxMax = 3
  Breq = {"r1", "r2"}
  TidMod = 3
  MaxNotes = 2
  MaxConns = 2
  Component = {1, 2}
  Cp = {"o1", "o2", "o3", "o4"}
  Nomination = {"regular", "aggressive"}
  MaxReq = 3
  Lifetime = 4
  Interval = 3
  MaxCur = 12
  Watch <- MCWatch
CHECK_DEADLOCK FALSE
INVARIANTS
  StreamIntact
  TransportSound
  DnsSound
  BfcpSound
  PathSound
PROPERTIES
  NetEnds
