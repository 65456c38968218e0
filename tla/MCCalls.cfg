SPECIFICATION CallsSpec
CONSTANTS
  Parts = {"calls", "sdp", "dialog", "presence"}
  c1 = c1
  c2 = c2
  c3 = c3
  Call <- MCCall
  MaxCalls = 2
  AnswerMode <- MCAnswerMode
  Medianat <- MCMedianat
  Static <- MCStatic
  Codecs <- MCCodecs
  MaxOffers = 4
  MaxLocal = 2
  Refusals = TRUE
  Uas = {"f1", "f2"}
  Path <- MCPath
  MaxCseq = 2
  MaxUasCseq = 1
  Contact = {"c1", "c2"}
  Watcher = {"w1", "w2"}
  PresUa = {"u1", "u2"}
  MaxChanges = 2
  RetryAfter = {0, 600}
SYMMETRY Symmetric
CHECK_DEADLOCK FALSE
INVARIANTS
  CallsSafe
  SdpSound
  DialogSound
  PresenceSound
