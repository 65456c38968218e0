SPECIFICATION Spec
CONSTANTS
  Parts = {"mnat"}
  Ct = {a, b, c}
  Rc = 3
  Map = {m1, m2}
  FlowKa = {k1, k2}
  TurnPeer = {p1, p2}
  PermPeer = {p1}
  FailcMax = 2
  ChanMax = 2
  Media = {au, vi}
  Modes = {"ice", "stun", "turn"}
  Ifaces <- MCIfaces
  Kinds <- MCKinds
  Offers <- MCOffers
  MaxOffers = 2
  MaxCand = 6
  MaxPairs = 3
CHECK_DEADLOCK FALSE
INVARIANTS
  GatherHandlerSafe
