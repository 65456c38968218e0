--------------------------- MODULE SipEventProofs ---------------------------
(* The registration client, the subscriptions and the notifiers: EventSafe *)
(* holds for all intervals, limits of failures and of loops, and versions  *)
(* of the state that is notified.  And the requests they all use, at the   *)
(* end: RequestSafe, for all numbers of servers, addresses and transports, *)
(* by ReqInv, which ties the user's pointer to the life of the request.    *)
(*                                                                         *)
(* EventSafe is not inductive.  RegInv, SubInv and NotInv add what the     *)
(* handlers rely on: which request or timer is under way, who holds the    *)
(* references, that a request under way is below the limit of loops, and   *)
(* what the other side knows.  Each is a predicate of the object, so that  *)
(* a lemma about a helper (request, terminate, mem_deref, the end of       *)
(* response_handler) speaks of the object the helper is given, half-way    *)
(* through a handler.                                                      *)
EXTENDS MCSip, TLAPS, FiniteSetTheorems

(* One for a reference that is held *)
N(h) == IF h THEN 1 ELSE 0

(* The count of a set that holds its element on a condition *)
LEMMA Counted ==
  ASSUME NEW P \in BOOLEAN, NEW e
  PROVE  /\ Sub!Cardinality({x \in {e} : P}) = N(P)
         /\ Not!Cardinality({x \in {e} : P}) = N(P)
<1>3. /\ Sub!Cardinality({x \in {e} : P}) = Cardinality({x \in {e} : P})
      /\ Not!Cardinality({x \in {e} : P}) = Cardinality({x \in {e} : P})
  BY Zenon DEF Sub!Cardinality, Not!Cardinality, Cardinality
<1>1. CASE P
  <2>1. {x \in {e} : P} = {e} BY <1>1
  <2> QED BY <1>1, <1>3, <2>1, FS_Singleton DEF N
<1>2. CASE ~P
  <2>1. {x \in {e} : P} = {} BY <1>2
  <2> QED BY <1>2, <1>3, <2>1, FS_EmptySet DEF N
<1> QED BY <1>1, <1>2

-----------------------------------------------------------------------------
(* sipreg: the registration client *)

(* The invariant of a registration r, of the holder u and of the binding b
   that the registrar keeps: a request or the timer is always under way, a
   registration that asks for nothing is being removed, and one that was
   removed in order left no binding. *)
RegGood(r, u, b) ==
  /\ r \in Reg!SipRegistration /\ b \in BOOLEAN
  /\ u \in {"none", "holds", "released", "removed", "dropped"}
  /\ u \in {"holds", "released"} =>
       /\ r.req # "none" <=> ~r.tmr
       /\ r.expires = 0 => r.terminated
       /\ r.req = "2xx" /\ b => r.asks # 0
       /\ r.tmr /\ r.granted # 0 => r.wait < r.granted * 1000
  /\ r.terminated <=> u = "released"
  /\ r.terminated => r.req # "none"
  /\ r.req # "none" => r.asks = r.expires /\ r.ls.failc < MaxLoop
  /\ u = "removed" => ~b

RegInv == RegGood(reg, regUser, bound)

(* What response_handler leaves to its end *)
RegReady(r, u) ==
  /\ r \in Reg!SipRegistration /\ u \in {"holds", "released"}
  /\ r.req = "none" /\ r.tmr = FALSE
  /\ r.expires = 0 => r.terminated
  /\ r.terminated <=> u = "released"

(* What the assumptions say of the numbers that sipreg uses *)
LEMMA RegConstants ==
  /\ Expires \subseteq Nat \ {0} /\ Granted \subseteq Nat \ {0}
  /\ MaxRegFailc \in Nat /\ Word \in Nat /\ Word > 0
  /\ MaxLoop \in Nat \ {0}
  BY SipLoopAssumption, MCSipAssumption DEF Reg!SipRegAssumption

(* The lesser of two numbers *)
LEMMA RegMin ==
  ASSUME NEW a \in Nat, NEW b \in Nat
  PROVE  Reg!Min({a, b}) = IF a <= b THEN a ELSE b
<1> DEFINE m == IF a <= b THEN a ELSE b
<1>1. m \in {a, b} /\ \A y \in {a, b} : m <= y OBVIOUS
<1>2. \A x \in {a, b} : (\A y \in {a, b} : x <= y) => x = m OBVIOUS
<1> HIDE DEF m
<1>3. Reg!Min({a, b}) = CHOOSE x \in {a, b} : \A y \in {a, b} : x <= y BY DEF Reg!Min
<1>4. (CHOOSE x \in {a, b} : \A y \in {a, b} : x <= y) = m BY <1>1, <1>2
<1> QED BY <1>3, <1>4 DEF m

(* reg.c failwait: the count of failures and the times it leads to are
   numbers of their range. *)
LEMMA RegWaitTypes ==
  ASSUME NEW c \in Nat
  PROVE  /\ Reg!Count(c) \in 0 .. MaxRegFailc
         /\ \A w \in Reg!failwait(c) : w \in Nat
<1>1. Reg!Count(c) \in 0 .. MaxRegFailc
  <2>1. c + 1 \in Nat OBVIOUS
  <2>2. Reg!Count(c) = IF c + 1 <= MaxRegFailc THEN c + 1 ELSE MaxRegFailc
    BY <2>1, RegConstants, RegMin DEF Reg!Count
  <2> QED BY <2>2, RegConstants
<1> DEFINE k == Reg!Min({c, 6})
           q == 2^k
           m == Reg!Min({1800, 30 * q})
<1>2. k \in 0 .. 6 BY RegMin
<1>3. q \in Nat
  <2> HIDE DEF k
  <2>1. k = 0 \/ k = 1 \/ k = 2 \/ k = 3 \/ k = 4 \/ k = 5 \/ k = 6 BY <1>2
  <2>2. 2^0 \in Nat /\ 2^1 \in Nat /\ 2^2 \in Nat /\ 2^3 \in Nat /\ 2^4 \in Nat /\ 2^5 \in Nat /\ 2^6 \in Nat
    OBVIOUS
  <2> QED BY <2>1, <2>2
<1>4. Reg!failwait(c) = {m * n : n \in {500, 1000}} BY DEF Reg!failwait
<1> HIDE DEF q
<1>5. m \in Nat
  <2>1. 30 * q \in Nat BY <1>3
  <2> QED BY <2>1, RegMin
<1> HIDE DEF m
<1>6. \A w \in {m * n : n \in {500, 1000}} : w \in Nat BY <1>5
<1> QED BY <1>1, <1>4, <1>6

(* The time of a refresh is below the time that was granted. *)
LEMMA RefreshSoon ==
  ASSUME NEW g \in Nat
  PROVE  Reg!Refresh(g) \in Nat /\ (g # 0 => Reg!Refresh(g) < g * 1000)
  BY RegConstants DEF Reg!Refresh

(* reg.c request: a registration that was let go asks for its removal. *)
LEMMA RegRequestFields ==
  ASSUME NEW r \in Reg!SipRegistration, NEW b \in BOOLEAN, NEW s, s = Reg!request(r, b)
  PROVE  /\ s \in Reg!SipRegistration
         /\ r.terminated => s.expires = 0
         /\ ~r.terminated => s.expires = r.expires
         /\ s.asks = s.expires /\ s.req = "sent"
         /\ s.tmr = r.tmr /\ s.terminated = r.terminated
         /\ s.ls.failc = IF b THEN 0 ELSE r.ls.failc
<1> DEFINE e == IF r.terminated THEN 0 ELSE r.expires
           l == IF b THEN Reg!NoLoop ELSE r.ls
<1>1. s = [r EXCEPT !.expires = e, !.asks = e, !.req = "sent", !.ls = l] BY DEF Reg!request
<1>2. e \in Expires \cup {0} BY DEF Reg!SipRegistration
<1>3. /\ l \in [last : {"none"} \cup Reg!Code, failc : 0 .. MaxLoop]
      /\ l.failc = IF b THEN 0 ELSE r.ls.failc
  BY RegConstants DEF Reg!SipRegistration, Reg!NoLoop
<1>4. (r.terminated => e = 0) /\ (~r.terminated => e = r.expires) OBVIOUS
<1> HIDE DEF e, l
<1>5. s \in Reg!SipRegistration BY <1>1, <1>2, <1>3 DEF Reg!SipRegistration
<1> QED BY <1>1, <1>3, <1>4, <1>5 DEF Reg!SipRegistration

(* What tmr_start writes, and what it leaves alone *)
LEMMA RegTmrFields ==
  ASSUME NEW r \in Reg!SipRegistration, NEW w \in Nat, NEW g \in Granted \cup Expires \cup {0},
         NEW s, s = Reg!tmr_start(r, w, g)
  PROVE  /\ s \in Reg!SipRegistration
         /\ s.tmr /\ s.wait = w /\ s.granted = g /\ s.expires = r.expires
         /\ s.asks = r.asks /\ s.req = r.req /\ s.terminated = r.terminated /\ s.ls = r.ls
<1>1. s = [r EXCEPT !.tmr = TRUE, !.wait = w, !.granted = g] BY DEF Reg!tmr_start
<1>2. s \in Reg!SipRegistration BY <1>1 DEF Reg!SipRegistration
<1> QED BY <1>1, <1>2 DEF Reg!SipRegistration

(* A registration that is freed is good; if it was removed in order, the
   registrar holds no binding. *)
LEMMA RegFreed ==
  ASSUME NEW u \in {"none", "removed", "dropped"}, NEW b \in BOOLEAN, u = "removed" => ~b
  PROVE  RegGood(Reg!NoReg, u, b)
<1> DEFINE z == Reg!NoReg
<1>1. NoLoop \in [last : {"none"} \cup Reg!Code, failc : 0 .. MaxLoop] BY RegConstants DEF NoLoop
<1>2. Reg!NoLoop = NoLoop BY DEF Reg!NoLoop, NoLoop
<1>3. 0 \in 0 .. MaxRegFailc BY RegConstants
<1>4. z \in Reg!SipRegistration BY <1>1, <1>2, <1>3 DEF Reg!NoReg, Reg!SipRegistration
<1>5. z.req = "none" /\ ~z.terminated BY DEF Reg!NoReg
<1> HIDE DEF z
<1>6. RegGood(z, u, b) BY <1>4, <1>5 DEF RegGood
<1> QED BY <1>6 DEF z

(* The end of response_handler *)
LEMMA RegFinish ==
  ASSUME NEW r, NEW w \in Nat, NEW g \in Granted \cup Expires \cup {0},
         NEW how \in {"removed", "dropped"}, bound \in BOOLEAN,
         RegReady(r, regUser),
         g # 0 => w < g * 1000,
         how = "removed" /\ r.expires = 0 => ~bound,
         Reg!Finish(r, w, g, how)
  PROVE  RegGood(reg', regUser', bound')
<1>0. r \in Reg!SipRegistration /\ regUser \in {"holds", "released"} BY DEF RegReady
<1>1. CASE r.expires = 0
  <2>1. reg' = Reg!NoReg /\ regUser' = how /\ bound' = bound BY <1>1 DEF Reg!Finish, Reg!Free
  <2>2. RegGood(Reg!NoReg, how, bound) BY <1>1, RegFreed
  <2> QED BY <2>1, <2>2
<1>2. CASE r.expires # 0 /\ r.terminated /\ Reg!Free("dropped")
  <2>1. reg' = Reg!NoReg /\ regUser' = "dropped" /\ bound' = bound BY <1>2 DEF Reg!Free
  <2>2. RegGood(Reg!NoReg, "dropped", bound) BY RegFreed
  <2> QED BY <2>1, <2>2
<1>3. CASE r.expires # 0 /\ r.terminated /\ Reg!Goes(Reg!request(r, TRUE))
  <2>1. reg' = Reg!request(r, TRUE) /\ regUser' = regUser /\ bound' = bound BY <1>3 DEF Reg!Goes
  <2>2. /\ reg' \in Reg!SipRegistration /\ reg'.expires = 0 /\ reg'.asks = 0
        /\ reg'.req = "sent" /\ ~reg'.tmr /\ reg'.terminated /\ reg'.ls.failc = 0
    <3> DEFINE s == Reg!request(r, TRUE)
    <3>1. s = Reg!request(r, TRUE) OBVIOUS
    <3> HIDE DEF s
    <3>2. /\ s \in Reg!SipRegistration /\ (r.terminated => s.expires = 0)
          /\ s.asks = s.expires /\ s.req = "sent" /\ s.tmr = r.tmr
          /\ s.terminated = r.terminated /\ s.ls.failc = 0
      BY <1>0, <3>1, RegRequestFields
    <3>3. reg' = s BY <2>1, <3>1
    <3>4. r.terminated /\ ~r.tmr BY <1>3 DEF RegReady
    <3> QED BY <3>2, <3>3, <3>4
  <2>3. regUser = "released" /\ 0 < MaxLoop BY <1>3, RegConstants DEF RegReady
  <2> QED BY <2>1, <2>2, <2>3 DEF RegGood
<1>4. CASE r.expires # 0 /\ ~r.terminated
  <2>1. reg' = Reg!tmr_start(r, w, g) /\ regUser' = regUser /\ bound' = bound
    BY <1>4 DEF Reg!Finish, Reg!Goes
  <2>2. /\ reg' \in Reg!SipRegistration
        /\ reg'.tmr /\ reg'.wait = w /\ reg'.granted = g /\ reg'.expires = r.expires
        /\ reg'.req = "none" /\ ~reg'.terminated
    <3>1. r.req = "none" /\ ~r.terminated BY <1>4 DEF RegReady
    <3> DEFINE s == Reg!tmr_start(r, w, g)
    <3>2. s = Reg!tmr_start(r, w, g) OBVIOUS
    <3> HIDE DEF s
    <3>3. /\ s \in Reg!SipRegistration
          /\ s.tmr /\ s.wait = w /\ s.granted = g /\ s.expires = r.expires
          /\ s.req = r.req /\ s.terminated = r.terminated
      <4>1. r \in Reg!SipRegistration /\ w \in Nat /\ g \in Granted \cup Expires \cup {0} BY <1>0
      <4> QED BY <4>1, <3>2, RegTmrFields
    <3> QED BY <2>1, <3>1, <3>2, <3>3
  <2> QED BY <1>4, <2>1, <2>2 DEF RegGood, RegReady
<1> QED BY <1>1, <1>2, <1>3, <1>4 DEF Reg!Finish

(* A request or a timer goes on. *)
LEMMA RegAgain ==
  ASSUME NEW r \in Reg!SipRegistration, NEW b \in BOOLEAN, bound \in BOOLEAN,
         regUser \in {"holds", "released"}, r.tmr = FALSE,
         r.expires = 0 => r.terminated, r.terminated <=> regUser = "released",
         ~b => r.ls.failc < MaxLoop, Reg!Goes(Reg!request(r, b))
  PROVE  RegGood(reg', regUser', bound')
<1> DEFINE s == Reg!request(r, b)
<1>1. s = Reg!request(r, b) OBVIOUS
<1>2. reg' = s /\ regUser' = regUser /\ bound' = bound BY DEF Reg!Goes
<1> HIDE DEF s
<1>3. /\ s \in Reg!SipRegistration
      /\ r.terminated => s.expires = 0
      /\ ~r.terminated => s.expires = r.expires
      /\ s.asks = s.expires /\ s.req = "sent"
      /\ s.tmr = r.tmr /\ s.terminated = r.terminated
      /\ s.ls.failc = IF b THEN 0 ELSE r.ls.failc
  BY <1>1, RegRequestFields
<1>4. s.ls.failc < MaxLoop BY <1>3, RegConstants
<1>5. RegGood(s, regUser, bound) BY <1>3, <1>4 DEF RegGood
<1> QED BY <1>2, <1>5

(* A failed request is tried again after a while. *)
LEMMA RegRetry ==
  ASSUME NEW r \in Reg!SipRegistration, NEW w \in Nat, bound \in BOOLEAN,
         regUser = "holds", r.req = "none", ~r.terminated, r.expires # 0,
         Reg!Goes(Reg!tmr_start(r, w, 0))
  PROVE  RegGood(reg', regUser', bound')
<1> DEFINE s == Reg!tmr_start(r, w, 0)
<1>1. s = Reg!tmr_start(r, w, 0) OBVIOUS
<1>2. reg' = s /\ regUser' = regUser /\ bound' = bound BY DEF Reg!Goes
<1> HIDE DEF s
<1>3. /\ s \in Reg!SipRegistration
      /\ s.tmr /\ s.granted = 0 /\ s.expires = r.expires
      /\ s.req = r.req /\ s.terminated = r.terminated
  <2>1. 0 \in Granted \cup Expires \cup {0} OBVIOUS
  <2> QED BY <1>1, <2>1, RegTmrFields
<1>4. RegGood(s, regUser, bound) BY <1>3 DEF RegGood
<1> QED BY <1>2, <1>4

(* A request that failed, for a registration in use or let go *)
LEMMA RegFailed ==
  ASSUME NEW r, bound \in BOOLEAN, RegReady(r, regUser), Reg!Failed(r)
  PROVE  RegGood(reg', regUser', bound')
<1>0. r \in Reg!SipRegistration /\ r.failc \in Nat BY DEF RegReady, Reg!SipRegistration
<1> DEFINE c == Reg!Count(r.failc)
           s == [r EXCEPT !.failc = c]
<1>1. PICK w \in Reg!failwait(r.failc + 1) : Reg!Finish(s, w, 0, "dropped") BY DEF Reg!Failed
<1>2. c \in 0 .. MaxRegFailc /\ w \in Nat
  <2>1. r.failc + 1 \in Nat BY <1>0
  <2> QED BY <1>0, <1>1, <2>1, RegWaitTypes
<1> HIDE DEF c
<1>3. /\ s \in Reg!SipRegistration /\ s.req = r.req /\ s.tmr = r.tmr /\ s.expires = r.expires
      /\ s.terminated = r.terminated
  BY <1>0, <1>2 DEF Reg!SipRegistration
<1> HIDE DEF s
<1>4. RegReady(s, regUser) BY <1>3 DEF RegReady
<1> QED BY <1>1, <1>2, <1>4, RegFinish

(* A 2xx: the refresh is before the end of what was granted. *)
LEMMA RegAccepted ==
  ASSUME NEW r, bound \in BOOLEAN, RegReady(r, regUser), r.asks = r.expires,
         bound => r.asks # 0, Reg!Accepted(r)
  PROVE  RegGood(reg', regUser', bound')
<1>0. r \in Reg!SipRegistration /\ r.asks \in Expires \cup {0} BY DEF RegReady, Reg!SipRegistration
<1>1. PICK g \in Granted \cup {r.asks}, ka \in BOOLEAN :
        Reg!Finish([r EXCEPT !.registered = TRUE, !.failc = 0, !.ka = @ \/ (ka /\ ~r.terminated)],
                   Reg!Refresh(g), g, "removed")
  BY DEF Reg!Accepted
<1> DEFINE k == r.ka \/ (ka /\ ~r.terminated)
           s == [r EXCEPT !.registered = TRUE, !.failc = 0, !.ka = k]
<1>2. k \in BOOLEAN OBVIOUS
<1>3. Reg!Finish(s, Reg!Refresh(g), g, "removed") BY <1>1
<1> HIDE DEF k
<1>4. /\ s \in Reg!SipRegistration /\ s.req = r.req /\ s.tmr = r.tmr /\ s.expires = r.expires
      /\ s.terminated = r.terminated
  <2>1. 0 \in 0 .. MaxRegFailc BY RegConstants
  <2> QED BY <1>0, <1>2, <2>1 DEF Reg!SipRegistration
<1> HIDE DEF s
<1>5. RegReady(s, regUser) BY <1>4 DEF RegReady
<1>6. g \in Nat /\ g \in Granted \cup Expires \cup {0} BY <1>0, <1>1, RegConstants
<1>7. Reg!Refresh(g) \in Nat /\ (g # 0 => Reg!Refresh(g) < g * 1000) BY <1>6, RefreshSoon
<1>8. s.expires = 0 => ~bound BY <1>4
<1> QED BY <1>3, <1>5, <1>6, <1>7, <1>8, RegFinish

(* A 401, a 423 or another answer *)
LEMMA RegRefused ==
  ASSUME NEW r, NEW code, bound \in BOOLEAN, RegReady(r, regUser), r.ls.failc < MaxLoop,
         Reg!Refused(r, code)
  PROVE  RegGood(reg', regUser', bound')
<1>0. r \in Reg!SipRegistration /\ r.failc + 1 \in Nat BY DEF RegReady, Reg!SipRegistration
<1>1. CASE r.terminated /\ ~r.registered
  <2>1. PICK w \in Reg!failwait(r.failc + 1) : Reg!Finish(r, w, 0, "dropped")
    BY <1>1 DEF Reg!Refused
  <2>2. w \in Nat BY <1>0, <2>1, RegWaitTypes
  <2> QED BY <2>1, <2>2, RegFinish
<1>2. CASE \E p \in {r} \cup {[r EXCEPT !.expires = e] : e \in Expires} : Reg!Goes(Reg!request(p, FALSE))
  <2>1. PICK p : /\ p = r \/ \E e \in Expires : p = [r EXCEPT !.expires = e]
                 /\ Reg!Goes(Reg!request(p, FALSE))
    BY <1>2
  <2>2. /\ p \in Reg!SipRegistration /\ p.tmr = r.tmr /\ p.ls = r.ls /\ p.terminated = r.terminated
        /\ p.expires = 0 => r.expires = 0
    <3>1. CASE p = r BY <1>0, <3>1
    <3>2. ASSUME NEW e \in Expires, p = [r EXCEPT !.expires = e]
          PROVE  /\ p \in Reg!SipRegistration /\ p.tmr = r.tmr /\ p.ls = r.ls /\ p.terminated = r.terminated
                 /\ p.expires = e
      BY <1>0, <3>2 DEF Reg!SipRegistration
    <3> QED BY <2>1, <3>1, <3>2, RegConstants
  <2> QED BY <2>1, <2>2, RegAgain DEF RegReady
<1>3. CASE Reg!Failed(r) BY <1>3, RegFailed
<1> QED BY <1>1, <1>2, <1>3 DEF Reg!Refused

(* Each action of sipreg preserves its invariant. *)
LEMMA RegNextInv == RegInv /\ [Reg!Next]_regVars => RegInv'
<1> SUFFICES ASSUME RegInv, [Reg!Next]_regVars PROVE RegGood(reg', regUser', bound')
  BY DEF RegInv
<1>0. /\ reg \in Reg!SipRegistration /\ bound \in BOOLEAN
      /\ regUser \in {"none", "holds", "released", "removed", "dropped"}
      /\ reg.failc \in Nat /\ reg.terminated \in BOOLEAN /\ reg.req \in {"none", "sent"} \cup Reg!Code
      /\ reg.ls \in [last : {"none"} \cup Reg!Code, failc : 0 .. MaxLoop]
  BY DEF RegInv, RegGood, Reg!SipRegistration
<1>1. CASE UNCHANGED regVars
  BY <1>1 DEF regVars, RegInv
<1>2. CASE Reg!Register
  <2>1. regUser = "none" /\ bound' = bound BY <1>2 DEF Reg!Register
  <2>2. CASE regUser' = "dropped" /\ UNCHANGED reg
    BY <1>0, <2>1, <2>2 DEF RegInv, RegGood
  <2>3. ASSUME NEW e \in Expires, reg' = Reg!request([Reg!NoReg EXCEPT !.expires = e], TRUE),
               regUser' = "holds"
        PROVE  RegGood(reg', regUser', bound')
    <3> DEFINE z == Reg!NoReg
               r == [z EXCEPT !.expires = e]
    <3>1. z \in Reg!SipRegistration BY <1>0, RegFreed DEF RegGood
    <3>2. ~z.tmr /\ ~z.terminated BY DEF Reg!NoReg
    <3>3. reg' = Reg!request(r, TRUE) BY <2>3
    <3> HIDE DEF z
    <3>4. r \in Reg!SipRegistration /\ r.expires = e /\ ~r.tmr /\ ~r.terminated
      BY <3>1, <3>2 DEF Reg!SipRegistration
    <3> HIDE DEF r
    <3>5. /\ reg' \in Reg!SipRegistration /\ reg'.expires = r.expires /\ reg'.asks = reg'.expires
          /\ reg'.req = "sent" /\ reg'.tmr = r.tmr /\ reg'.terminated = r.terminated
          /\ reg'.ls.failc = 0
      BY <3>3, <3>4, RegRequestFields
    <3>6. reg'.expires # 0 /\ 0 < MaxLoop BY <3>4, <3>5, RegConstants
    <3> QED BY <1>0, <2>1, <2>3, <3>4, <3>5, <3>6 DEF RegGood
  <2> QED BY <1>2, <2>2, <2>3 DEF Reg!Register
<1>3. CASE Reg!Release
  <2> DEFINE r == [reg EXCEPT !.tmr = FALSE, !.terminated = TRUE]
  <2>1. regUser = "holds" BY <1>3 DEF Reg!Release
  <2>2. /\ r \in Reg!SipRegistration /\ ~r.tmr /\ r.terminated /\ r.req = reg.req
        /\ r.expires = reg.expires /\ r.asks = reg.asks /\ r.ls = reg.ls
    BY <1>0 DEF Reg!SipRegistration
  <2>3. \/ reg.req # "none" /\ reg' = r /\ regUser' = "released" /\ bound' = bound
        \/ reg.req = "none" /\ reg' = Reg!request(r, TRUE) /\ regUser' = "released" /\ bound' = bound
        \/ Reg!Free("dropped")
    BY <1>3, <2>2 DEF Reg!Release
  <2> HIDE DEF r
  <2>4. CASE reg.req # "none" /\ reg' = r /\ regUser' = "released" /\ bound' = bound
    <3>1. RegGood(r, "released", bound) BY <2>1, <2>2, <2>4 DEF RegInv, RegGood
    <3> QED BY <2>4, <3>1
  <2>5. CASE reg' = Reg!request(r, TRUE) /\ regUser' = "released" /\ bound' = bound
    <3>1. /\ reg' \in Reg!SipRegistration /\ (r.terminated => reg'.expires = 0)
          /\ reg'.asks = reg'.expires
          /\ reg'.req = "sent" /\ reg'.tmr = r.tmr /\ reg'.terminated = r.terminated
          /\ reg'.ls.failc = 0
      BY <2>2, <2>5, RegRequestFields
    <3>2. 0 < MaxLoop BY RegConstants
    <3> QED BY <1>0, <2>2, <2>5, <3>1, <3>2 DEF RegGood
  <2>6. CASE Reg!Free("dropped")
    BY <1>0, <2>6, RegFreed DEF Reg!Free
  <2> QED BY <2>3, <2>4, <2>5, <2>6
<1> DEFINE cc == Reg!Count(reg.failc)
<1>4. cc \in 0 .. MaxRegFailc /\ (\A w \in Reg!failwait(cc) : w \in Nat)
  BY <1>0, RegWaitTypes, RegConstants
<1> HIDE DEF cc
<1>5. CASE Reg!Timer
  <2> DEFINE r == [reg EXCEPT !.tmr = FALSE]
             s == [r EXCEPT !.failc = cc]
  <2>1. regUser = "holds" /\ reg.req = "none" /\ ~reg.terminated /\ reg.expires # 0
    BY <1>5 DEF Reg!Timer, Reg!Alive, RegInv, RegGood
  <2>2. /\ r \in Reg!SipRegistration /\ ~r.tmr /\ r.terminated = reg.terminated /\ r.req = reg.req
        /\ r.expires = reg.expires /\ r.failc = reg.failc
    BY <1>0 DEF Reg!SipRegistration
  <2>3. \/ Reg!Goes(Reg!request(r, TRUE))
        \/ \E w \in Reg!failwait(cc) : Reg!Goes(Reg!tmr_start(s, w, 0))
    BY <1>5, <2>2 DEF Reg!Timer, cc
  <2> HIDE DEF r
  <2>4. /\ s \in Reg!SipRegistration /\ s.terminated = r.terminated /\ s.req = r.req
        /\ s.expires = r.expires
    BY <1>4, <2>2 DEF Reg!SipRegistration
  <2> HIDE DEF s
  <2>5. CASE Reg!Goes(Reg!request(r, TRUE))
    <3>1. r.tmr = FALSE BY <2>2 DEF Reg!SipRegistration
    <3> QED BY <1>0, <2>1, <2>2, <2>5, <3>1, RegAgain
  <2>6. CASE \E w \in Reg!failwait(cc) : Reg!Goes(Reg!tmr_start(s, w, 0))
    BY <1>0, <1>4, <2>1, <2>2, <2>4, <2>6, RegRetry
  <2> QED BY <2>3, <2>5, <2>6
<1>6. CASE Reg!Keepalive
  <2> DEFINE r == [reg EXCEPT !.ka = FALSE]
             s == [r EXCEPT !.failc = cc]
  <2>1. IF reg.req # "none" \/ reg.terminated THEN Reg!Goes(r)
        ELSE \E w \in Reg!failwait(cc) : Reg!Goes(Reg!tmr_start(s, w, 0))
    BY <1>6 DEF Reg!Keepalive, cc
  <2>2. regUser \in {"holds", "released"} BY <1>6 DEF Reg!Keepalive, Reg!Alive
  <2>3. /\ r \in Reg!SipRegistration /\ r.tmr = reg.tmr /\ r.terminated = reg.terminated /\ r.req = reg.req
        /\ r.expires = reg.expires /\ r.asks = reg.asks /\ r.ls = reg.ls
        /\ r.wait = reg.wait /\ r.granted = reg.granted
    BY <1>0 DEF Reg!SipRegistration
  <2> HIDE DEF r
  <2>4. /\ s \in Reg!SipRegistration /\ s.terminated = r.terminated /\ s.req = r.req
        /\ s.expires = r.expires
    BY <1>4, <2>3 DEF Reg!SipRegistration
  <2> HIDE DEF s
  <2>5. CASE reg.req # "none" \/ reg.terminated
    <3>1. reg' = r /\ regUser' = regUser /\ bound' = bound BY <2>1, <2>5 DEF Reg!Goes
    <3>2. RegGood(r, regUser, bound) BY <2>3 DEF RegInv, RegGood
    <3> QED BY <3>1, <3>2
  <2>6. CASE ~(reg.req # "none" \/ reg.terminated)
    <3>1. regUser = "holds" /\ reg.expires # 0 BY <2>2, <2>6 DEF RegInv, RegGood
    <3> QED BY <1>0, <1>4, <2>1, <2>3, <2>4, <2>6, <3>1, RegRetry
  <2> QED BY <2>5, <2>6
<1>7. CASE Reg!ResponseError
  <2> DEFINE r == [reg EXCEPT !.req = "none"]
  <2>1. Reg!Failed(r) /\ regUser \in {"holds", "released"} /\ reg.req # "none"
    BY <1>7 DEF Reg!ResponseError, Reg!Alive
  <2>2. /\ r \in Reg!SipRegistration /\ r.tmr = reg.tmr /\ r.terminated = reg.terminated /\ r.req = "none"
        /\ r.expires = reg.expires
    BY <1>0 DEF Reg!SipRegistration
  <2> HIDE DEF r
  <2>3. reg.tmr = FALSE BY <2>1 DEF RegInv, RegGood, Reg!SipRegistration
  <2>4. RegReady(r, regUser) BY <2>1, <2>2, <2>3 DEF RegReady, RegInv, RegGood
  <2> QED BY <1>0, <2>1, <2>4, RegFailed
<1>8. ASSUME NEW code \in Reg!Code, Reg!Response(code)
      PROVE  RegGood(reg', regUser', bound')
  <2> DEFINE L == Reg!LoopState(reg.ls, code)
             r == [reg EXCEPT !.req = "none", !.ls = L]
  <2>1. /\ \/ Reg!Failed(r)
           \/ code = "2xx" /\ Reg!Accepted(r)
           \/ ~Reg!sip_request_loops(reg.ls, code) /\ code # "2xx" /\ Reg!Refused(r, code)
        /\ regUser \in {"holds", "released"} /\ reg.req = code
    BY <1>8 DEF Reg!Response, Reg!Alive
  <2>2. reg.req # "none" BY <2>1 DEF Reg!Code
  <2>3. reg.ls.failc < MaxLoop /\ reg.ls.failc \in Nat BY <1>0, <2>2 DEF RegInv, RegGood
  <2>4. /\ L \in [last : {"none"} \cup Reg!Code, failc : 0 .. MaxLoop]
        /\ code # "2xx" /\ ~Reg!sip_request_loops(reg.ls, code) => L.failc < MaxLoop
    <3>1. L = [last |-> code, failc |-> IF code = "2xx" THEN 0 ELSE reg.ls.failc + 1]
      BY DEF Reg!LoopState
    <3>2. (IF code = "2xx" THEN 0 ELSE reg.ls.failc + 1) \in 0 .. MaxLoop
      BY <2>3, RegConstants
    <3>3. L.failc = IF code = "2xx" THEN 0 ELSE reg.ls.failc + 1 BY <3>1
    <3>4. code # "2xx" /\ ~Reg!sip_request_loops(reg.ls, code) => L.failc < MaxLoop
      BY <2>3, <3>3, RegConstants DEF Reg!sip_request_loops
    <3> QED BY <3>1, <3>2, <3>4
  <2> HIDE DEF L
  <2>5. /\ r \in Reg!SipRegistration /\ r.tmr = reg.tmr /\ r.terminated = reg.terminated /\ r.req = "none"
        /\ r.expires = reg.expires /\ r.asks = reg.asks /\ r.ls = L
    <3>1. r \in Reg!SipRegistration BY <1>0, <2>4 DEF Reg!SipRegistration
    <3> QED BY <1>0, <3>1 DEF Reg!SipRegistration
  <2> HIDE DEF r
  <2>6. reg.tmr = FALSE BY <2>1, <2>2 DEF RegInv, RegGood, Reg!SipRegistration
  <2>7. RegReady(r, regUser) BY <2>1, <2>5, <2>6 DEF RegReady, RegInv, RegGood
  <2>8. CASE Reg!Failed(r) BY <1>0, <2>7, <2>8, RegFailed
  <2>9. CASE code = "2xx" /\ Reg!Accepted(r)
    <3>1. r.asks = r.expires /\ (bound => r.asks # 0)
      BY <2>1, <2>2, <2>5, <2>9 DEF RegInv, RegGood
    <3> QED BY <1>0, <2>7, <2>9, <3>1, RegAccepted
  <2>10. CASE ~Reg!sip_request_loops(reg.ls, code) /\ code # "2xx" /\ Reg!Refused(r, code)
    <3>1. r.ls.failc < MaxLoop BY <2>4, <2>5, <2>10
    <3> QED BY <1>0, <2>7, <2>10, <3>1, RegRefused
  <2> QED BY <2>1, <2>8, <2>9, <2>10
<1>9. ASSUME NEW code \in Reg!Code, Reg!Registrar(code)
      PROVE  RegGood(reg', regUser', bound')
  <2>1. /\ regUser \in {"holds", "released"} /\ reg.req = "sent" /\ reg' = [reg EXCEPT !.req = code]
        /\ regUser' = regUser
        /\ code = "2xx" => bound' = (reg.asks # 0)
        /\ code # "2xx" => bound' = bound
    BY <1>9 DEF Reg!Registrar, Reg!Alive
  <2>2. /\ reg' \in Reg!SipRegistration /\ reg'.tmr = reg.tmr /\ reg'.terminated = reg.terminated
        /\ reg'.req = code /\ reg'.expires = reg.expires /\ reg'.asks = reg.asks /\ reg'.ls = reg.ls
    BY <1>0, <2>1 DEF Reg!SipRegistration
  <2>3. code # "none" BY DEF Reg!Code
  <2>4. bound' \in BOOLEAN /\ (code = "2xx" /\ bound' => reg.asks # 0) BY <1>0, <2>1
  <2>5. ~reg.tmr /\ reg.asks = reg.expires /\ reg.ls.failc < MaxLoop BY <2>1 DEF RegInv, RegGood
  <2>6. (reg.expires = 0 => reg.terminated) /\ (reg.terminated <=> regUser = "released")
    BY <2>1 DEF RegInv, RegGood
  <2> QED BY <2>1, <2>2, <2>3, <2>4, <2>5, <2>6 DEF RegGood
<1> QED BY <1>1, <1>2, <1>3, <1>5, <1>6, <1>7, <1>8, <1>9 DEF Reg!Next

(* There is no registration at first. *)
LEMMA RegInitInv == Reg!Init => RegInv
  BY RegFreed DEF Reg!Init, RegInv

(* The invariant implies what RegSafe says. *)
LEMMA RegInvSafe == RegInv => Reg!RegSafe
  BY DEF RegInv, RegGood, Reg!RegSafe, Reg!KeepsGoing, Reg!TypeOK, Reg!LeavesNothing,
         Reg!RefreshInTime, Reg!Alive

-----------------------------------------------------------------------------
(* sipsub: subscriptions *)

(* The object holds a reference to itself while it unsubscribes, and for good
   if the answer was ignored. *)
SubOwn(s) == s.terminated /\ (s.req # "none" \/ s.termwait \/ s.ignored)

(* How the request, the timer and the flags of a subscription agree *)
SubCore(s, a, p) ==
  /\ s.termwait => s.tmr = "notify" /\ s.req = "none" /\ ~s.expires
  /\ s.terminated /\ ~s.termwait => s.tmr = "off"
  /\ a # "none" => s.req # "none"
  /\ s.req # "none" => s.ls.failc < MaxLoop
  /\ s.termconf => p = "gone"
  /\ s.req = "REFER" => s.refer
  /\ s.refer => s.req \in {"none", "REFER"} /\ s.by = "REFER" /\ s.expires
  /\ s.ignored => s.req = "none" /\ ~s.termwait
  /\ s.req \in {"REFER", "SUBSCRIBE"} => s.expires
  /\ s.req = "unsubscribe" => s.terminated
  /\ s.req \in {"fetch", "unsubscribe"} => ~s.expires
  /\ a = "481" => p \in {"final", "gone"}
  /\ a = "2xx" => p # "none"
  /\ s.established => p # "none" /\ (p = "active" => s.subscribed)
  /\ s.tmr = "refresh" /\ s.granted # 0 => s.wait < s.granted * 1000

(* While the notifier keeps the subscription, the subscriber knows of it. *)
SubKnown(s, a, p) ==
  p = "active" /\ ~s.broken =>
    /\ s.subscribed \/ (s.req \in {"REFER", "SUBSCRIBE"} /\ a \in {"2xx", "err"})
    /\ ~s.expires => s.req = "unsubscribe" /\ a # "2xx"
    /\ s.terminated => s.req # "none" \/ s.ignored

(* A subscription in use has a request or a timer under way. *)
SubGoing(s) ==
  ~s.terminated =>
    /\ s.failc < MaxSubFailc
    /\ s.tmr = "notify" => s.termwait
    /\ s.by = "SUBSCRIBE" => s.req # "none" \/ s.tmr # "off" \/ s.ignored

(* The references are the one of the application and the own one; the close
   handler was called once at most, and ends the subscription. *)
SubHeld(s, h, c) ==
  /\ s.refs = N(h) + N(SubOwn(s))
  /\ ~h => s.terminated
  /\ h => (s.terminated <=> c = 1)

SubGood(s, a, p, h, c) ==
  /\ s \in Sub!Subscription
  /\ h \in BOOLEAN /\ c \in 0 .. 1
  /\ SubCore(s, a, p) /\ SubKnown(s, a, p) /\ SubGoing(s) /\ SubHeld(s, h, c)

(* The invariant of sipsub *)
SubInv ==
  /\ subAns \in Sub!Answer \cup {"none"}
  /\ subPeer \in {"none", "active", "final", "gone"}
  /\ SubGood(sub, subAns, subPeer, subApp, subClosed)

(* What response_handler leaves to its end *)
SubReady(r, p, h, c) ==
  /\ r \in Sub!Subscription
  /\ h \in BOOLEAN /\ c \in 0 .. 1
  /\ r.req = "none" /\ ~r.termwait /\ r.tmr # "notify" /\ ~r.ignored
  /\ r.tmr = "refresh" /\ r.granted # 0 => r.wait < r.granted * 1000
  /\ r.established => p # "none" /\ (p = "active" => r.subscribed)
  /\ r.refer => r.expires /\ r.by = "REFER"
  /\ r.terminated => r.tmr = "off"
  /\ r.termconf => p = "gone"
  /\ p = "active" /\ ~r.broken => r.subscribed /\ r.expires
  /\ ~r.terminated => r.failc < MaxSubFailc
  /\ r.refs = N(h) + N(r.terminated)
  /\ ~h => r.terminated
  /\ h => (r.terminated <=> c = 1)

(* What the assumptions say of the numbers that sipsub uses *)
LEMMA SubConstants ==
  /\ MaxLoop \in Nat \ {0} /\ MaxSubFailc \in Nat \ {0}
  /\ Expires \subseteq Nat \ {0} /\ Word \in Nat \ {0}
  BY SipLoopAssumption, MCSipAssumption DEF Sub!SipSubAssumption

(* A refresh is due before the interval is over. *)
LEMMA SubSoon ==
  ASSUME NEW g \in Expires
  PROVE  Sub!Soon(g) \in Nat /\ Sub!Soon(g) < g * 1000
<1>1. g * 900 \in Nat /\ g * 900 < g * 1000 /\ Word \in Nat \ {0} BY SubConstants
<1> DEFINE d == g * 900
<1>2. \A n \in Nat : n % Word \in Nat /\ n % Word <= n BY <1>1
<1>3. d \in Nat /\ d < g * 1000 BY <1>1
<1> HIDE DEF d
<1>4. d % Word \in Nat /\ d % Word <= d BY <1>2, <1>3
<1>5. g * 1000 \in Nat BY SubConstants
<1> QED BY <1>3, <1>4, <1>5 DEF Sub!Soon, d

(* sipsub_reschedule *)
LEMMA SubScheduled ==
  ASSUME NEW s \in Sub!Subscription, NEW wait \in Nat, NEW g \in Expires \cup {0}
  PROVE  LET t == Sub!reschedule(s, wait, g)
         IN /\ t \in Sub!Subscription
            /\ t.refs = s.refs /\ t.by = s.by /\ t.req = s.req /\ t.tmr = "refresh"
            /\ t.wait = wait /\ t.granted = g /\ t.expires = s.expires
            /\ t.subscribed = s.subscribed /\ t.terminated = s.terminated
            /\ t.termconf = s.termconf /\ t.termwait = s.termwait
            /\ t.refer = s.refer /\ t.failc = s.failc /\ t.established = s.established
            /\ t.ignored = s.ignored /\ t.broken = s.broken /\ t.ls = s.ls
  BY DEF Sub!Subscription, Sub!reschedule

(* The types of the fields that are written to *)
LEMMA SubFields ==
  ASSUME NEW s \in Sub!Subscription
  PROVE  /\ s.subscribed \in BOOLEAN /\ s.termconf \in BOOLEAN /\ s.terminated \in BOOLEAN
         /\ s.expires \in BOOLEAN /\ s.broken \in BOOLEAN /\ s.termwait \in BOOLEAN
         /\ s.refer \in BOOLEAN /\ s.refs \in 0 .. 2 /\ s.established \in BOOLEAN
         /\ s.ls \in [last : Sub!Answer \cup {"none"}, failc : 0 .. MaxLoop]
         /\ s.failc \in 0 .. MaxSubFailc
  BY DEF Sub!Subscription

(* A request that cannot be sent: what is written all the same *)
LEMMA SubUnsentFields ==
  ASSUME NEW s \in Sub!Subscription, NEW b \in BOOLEAN
  PROVE  LET u == Sub!Unsent(s, b)
         IN /\ u \in Sub!Subscription
            /\ u.refs = s.refs /\ u.by = s.by /\ u.req = s.req /\ u.tmr = s.tmr
            /\ u.expires <=> s.expires /\ (s.refer \/ ~s.terminated)
            /\ u.subscribed = s.subscribed /\ u.terminated = s.terminated
            /\ u.termconf = s.termconf /\ u.termwait = s.termwait
            /\ u.refer = s.refer /\ u.failc = s.failc
            /\ u.wait = s.wait /\ u.granted = s.granted
            /\ u.established = s.established /\ u.ignored = s.ignored
            /\ u.broken
            /\ u.ls.failc = IF b THEN 0 ELSE s.ls.failc
<1> DEFINE e == s.expires /\ (s.refer \/ ~s.terminated)
           l == IF b THEN Sub!NoLoop ELSE s.ls
<1>1. e \in BOOLEAN OBVIOUS
<1>2. l \in [last : Sub!Answer \cup {"none"}, failc : 0 .. MaxLoop] /\ l.failc = IF b THEN 0 ELSE s.ls.failc
  BY SubConstants DEF Sub!Subscription, Sub!NoLoop
<1>3. Sub!Unsent(s, b) = [s EXCEPT !.expires = e, !.ls = l, !.broken = TRUE]
  BY DEF Sub!Unsent
<1> HIDE DEF l
<1>4. [s EXCEPT !.expires = e, !.ls = l, !.broken = TRUE] \in Sub!Subscription
  <2> HIDE DEF e
  <2> QED BY <1>1, <1>2 DEF Sub!Subscription
<1> QED BY <1>1, <1>2, <1>3, <1>4 DEF Sub!Subscription

(* What request writes: the method follows from the state of the
   subscription. *)
LEMMA SubSentFields ==
  ASSUME NEW s \in Sub!Subscription, NEW b \in BOOLEAN
  PROVE  LET u == Sub!Sent(s, b)
         IN /\ u \in Sub!Subscription
            /\ u.refs = s.refs /\ u.by = s.by /\ u.tmr = s.tmr
            /\ u.req \in {"REFER", "SUBSCRIBE", "fetch", "unsubscribe"}
            /\ u.req = "REFER" <=> s.refer
            /\ u.req = "unsubscribe" <=> ~s.refer /\ s.terminated
            /\ u.req = "SUBSCRIBE" <=> ~s.refer /\ ~s.terminated /\ s.expires
            /\ u.expires <=> s.expires /\ (s.refer \/ ~s.terminated)
            /\ u.subscribed = s.subscribed /\ u.terminated = s.terminated
            /\ u.termconf = s.termconf /\ u.termwait = s.termwait
            /\ u.refer = s.refer /\ u.failc = s.failc
            /\ u.wait = s.wait /\ u.granted = s.granted
            /\ u.established = s.established /\ ~u.ignored
            /\ u.broken = s.broken
            /\ u.ls.failc = IF b THEN 0 ELSE s.ls.failc
<1> DEFINE v == Sub!Unsent(s, b)
           q == CASE s.refer -> "REFER"
               [] ~s.refer /\ s.terminated -> "unsubscribe"
               [] ~s.refer /\ ~s.terminated /\ s.expires -> "SUBSCRIBE"
               [] OTHER -> "fetch"
<1>0. s.refer \in BOOLEAN /\ s.terminated \in BOOLEAN /\ s.expires \in BOOLEAN /\ s.broken \in BOOLEAN
  BY DEF Sub!Subscription
<1>1. /\ q \in {"REFER", "SUBSCRIBE", "fetch", "unsubscribe"}
      /\ q = "REFER" <=> s.refer
      /\ q = "unsubscribe" <=> ~s.refer /\ s.terminated
      /\ q = "SUBSCRIBE" <=> ~s.refer /\ ~s.terminated /\ s.expires
  BY <1>0
<1>2. Sub!Sent(s, b) = [v EXCEPT !.broken = s.broken, !.ignored = FALSE, !.req = q]
  BY DEF Sub!Sent
<1> HIDE DEF q, v
<1>3. v \in Sub!Subscription BY SubUnsentFields DEF v
<1>4. [v EXCEPT !.broken = s.broken, !.ignored = FALSE, !.req = q] \in Sub!Subscription
  BY <1>0, <1>1, <1>3 DEF Sub!Subscription, Sub!SubMethod
<1>5. LET u == [v EXCEPT !.broken = s.broken, !.ignored = FALSE, !.req = q]
      IN /\ u.refs = v.refs /\ u.by = v.by /\ u.tmr = v.tmr /\ u.req = q
         /\ u.expires = v.expires
            /\ u.subscribed = v.subscribed /\ u.terminated = v.terminated
            /\ u.termconf = v.termconf /\ u.termwait = v.termwait
            /\ u.refer = v.refer /\ u.failc = v.failc
            /\ u.wait = v.wait /\ u.granted = v.granted
            /\ u.established = v.established /\ ~u.ignored
            /\ u.broken = s.broken /\ u.ls = v.ls
  BY <1>3 DEF Sub!Subscription
<1>6. /\ v.refs = s.refs /\ v.by = s.by /\ v.tmr = s.tmr
      /\ v.expires <=> s.expires /\ (s.refer \/ ~s.terminated)
      /\ v.subscribed = s.subscribed /\ v.terminated = s.terminated
      /\ v.termconf = s.termconf /\ v.termwait = s.termwait
      /\ v.refer = s.refer /\ v.failc = s.failc
      /\ v.wait = s.wait /\ v.granted = s.granted /\ v.established = s.established
      /\ v.ls.failc = IF b THEN 0 ELSE s.ls.failc
  BY SubUnsentFields DEF v
<1> QED BY <1>1, <1>2, <1>4, <1>5, <1>6

(* A REFER is not over while a subscription has the flag. *)
LEMMA SubRefer == ASSUME NEW s \in Sub!Subscription PROVE s.refer \in BOOLEAN
  BY DEF Sub!Subscription

(* The agreement of a subscription without a request and without a timer *)
LEMMA SubCoreIdle ==
  ASSUME NEW t, NEW a, NEW p, t.tmr = "off", ~t.termwait, t.req = "none", a = "none",
         t.termconf => p = "gone", t.refer => t.by = "REFER" /\ t.expires,
         t.established => p # "none" /\ (p = "active" => t.subscribed)
  PROVE  SubCore(t, a, p)
  BY DEF SubCore

(* The references of the results of terminate, and their shape *)
LEMMA SubTerminateGood ==
  ASSUME NEW s \in Sub!Subscription, NEW a, NEW p, NEW h \in BOOLEAN,
         ~s.terminated, SubCore(s, a, p), SubKnown(s, a, p), s.refs = N(h),
         NEW t \in Sub!terminate(s)
  PROVE  /\ t \in Sub!Subscription /\ t.terminated
         /\ SubCore(t, a, p) /\ SubKnown(t, a, p) /\ t.refs = N(h) + N(SubOwn(t))
<1> DEFINE t0 == [s EXCEPT !.terminated = TRUE, !.ignored = FALSE]
           u0 == [t0 EXCEPT !.tmr = "off"]
<1>1. /\ t0 \in Sub!Subscription /\ t0.terminated /\ t0.refs = s.refs /\ t0.by = s.by
      /\ t0.req = s.req /\ t0.tmr = s.tmr /\ t0.expires = s.expires /\ t0.subscribed = s.subscribed
      /\ t0.termconf = s.termconf /\ t0.termwait = s.termwait /\ t0.refer = s.refer
      /\ t0.failc = s.failc /\ t0.broken = s.broken /\ t0.ls = s.ls
      /\ t0.wait = s.wait /\ t0.granted = s.granted
      /\ t0.established = s.established /\ ~t0.ignored
  BY DEF Sub!Subscription
<1>2. /\ u0 \in Sub!Subscription /\ u0.terminated /\ u0.refs = s.refs /\ u0.by = s.by
      /\ u0.req = s.req /\ u0.tmr = "off" /\ u0.expires = s.expires /\ u0.subscribed = s.subscribed
      /\ u0.termconf = s.termconf /\ u0.termwait = s.termwait /\ u0.refer = s.refer
      /\ u0.failc = s.failc /\ u0.broken = s.broken /\ u0.ls = s.ls
      /\ u0.wait = s.wait /\ u0.granted = s.granted
      /\ u0.established = s.established /\ ~u0.ignored
  <2> HIDE DEF t0
  <2> QED BY <1>1 DEF Sub!Subscription
<1>3. \/ s.termwait /\ t = Sub!Ref(t0)
      \/ ~s.termwait /\ s.req # "none" /\ t = Sub!Ref(u0)
      \/ /\ ~s.termwait /\ s.req = "none" /\ s.expires /\ s.subscribed
         /\ t = Sub!Ref(Sub!Sent(u0, TRUE)) \/ t = Sub!Unsent(u0, TRUE)
      \/ ~s.termwait /\ s.req = "none" /\ ~(s.expires /\ s.subscribed) /\ t = u0
  <2> HIDE DEF u0
  <2>1. Sub!terminate(s) =
          CASE t0.termwait -> {Sub!Ref(t0)}
            [] ~t0.termwait /\ t0.req # "none" -> {Sub!Ref(u0)}
            [] ~t0.termwait /\ t0.req = "none" /\ t0.expires /\ t0.subscribed ->
               {Sub!Ref(Sub!Sent(u0, TRUE)), Sub!Unsent(u0, TRUE)}
            [] OTHER -> {u0}
    BY DEF Sub!terminate, u0
  <2> HIDE DEF t0
  <2>2. s.termwait \in BOOLEAN /\ s.expires \in BOOLEAN /\ s.subscribed \in BOOLEAN
    BY DEF Sub!Subscription
  <2> QED BY <1>1, <2>1, <2>2
<1> HIDE DEF t0, u0
<1>4. \A r \in Sub!Subscription : r.refs < 2 =>
        /\ Sub!Ref(r) \in Sub!Subscription /\ Sub!Ref(r).refs = r.refs + 1
        /\ Sub!Ref(r).by = r.by /\ Sub!Ref(r).terminated = r.terminated
        /\ Sub!Ref(r).req = r.req /\ Sub!Ref(r).tmr = r.tmr /\ Sub!Ref(r).expires = r.expires
        /\ Sub!Ref(r).subscribed = r.subscribed /\ Sub!Ref(r).termconf = r.termconf
        /\ Sub!Ref(r).termwait = r.termwait /\ Sub!Ref(r).refer = r.refer
        /\ Sub!Ref(r).broken = r.broken /\ Sub!Ref(r).ls = r.ls
        /\ Sub!Ref(r).wait = r.wait /\ Sub!Ref(r).granted = r.granted
        /\ Sub!Ref(r).established = r.established /\ Sub!Ref(r).ignored = r.ignored
  BY DEF Sub!Subscription, Sub!Ref
<1>5. s.refs \in {0, 1} BY DEF N
<1>6. CASE s.termwait /\ t = Sub!Ref(t0)
  <2>1. /\ t \in Sub!Subscription /\ t.refs = s.refs + 1 /\ t.terminated /\ t.by = s.by
        /\ t.req = s.req /\ t.tmr = s.tmr /\ t.expires = s.expires /\ t.subscribed = s.subscribed
        /\ t.termconf = s.termconf /\ t.termwait = s.termwait /\ t.refer = s.refer
        /\ t.broken = s.broken /\ t.ls = s.ls
        /\ t.wait = s.wait /\ t.granted = s.granted
        /\ t.established = s.established /\ ~t.ignored
    <3>1. t0 \in Sub!Subscription /\ t0.refs < 2 /\ t = Sub!Ref(t0)
      BY <1>1, <1>5, <1>6
    <3> QED BY <1>1, <1>4, <3>1
  <2>2. SubCore(t, a, p)
    BY <1>6, <2>1 DEF SubCore
  <2>3. SubKnown(t, a, p)
    BY <1>6, <2>1 DEF SubCore, SubKnown
  <2>4. t.refs = N(h) + N(SubOwn(t))
    BY <1>6, <2>1 DEF SubOwn, N
  <2> QED BY <2>1, <2>2, <2>3, <2>4
<1>7. CASE ~s.termwait /\ s.req # "none" /\ t = Sub!Ref(u0)
  BY <1>2, <1>4, <1>5, <1>7 DEF SubCore, SubKnown, SubOwn, N
<1>8. CASE ~s.termwait /\ s.req = "none" /\ s.expires /\ s.subscribed /\ t = Sub!Ref(Sub!Sent(u0, TRUE))
  <2> DEFINE w == Sub!Sent(u0, TRUE)
  <2>1. /\ w \in Sub!Subscription /\ w.refs = s.refs /\ w.tmr = "off" /\ w.by = s.by
        /\ w.req \in {"REFER", "unsubscribe"} /\ (w.req = "REFER" <=> s.refer)
        /\ w.subscribed /\ w.terminated /\ (w.expires <=> s.refer)
        /\ w.termconf = s.termconf /\ w.termwait = s.termwait /\ w.refer = s.refer
        /\ w.broken = s.broken /\ w.ls.failc = 0
        /\ w.wait = s.wait /\ w.granted = s.granted
        /\ w.established = s.established /\ ~w.ignored
    <3>1. u0 \in Sub!Subscription BY <1>2
    <3>2. PICK b \in BOOLEAN : b = TRUE OBVIOUS
    <3>3. w = Sub!Sent(u0, b) BY <3>2
    <3> HIDE DEF w
    <3>4. /\ w \in Sub!Subscription
          /\ w.refs = u0.refs /\ w.by = u0.by /\ w.tmr = u0.tmr
          /\ w.req \in {"REFER", "SUBSCRIBE", "fetch", "unsubscribe"}
          /\ w.req = "REFER" <=> u0.refer
          /\ w.req = "unsubscribe" <=> ~u0.refer /\ u0.terminated
          /\ w.expires <=> u0.expires /\ (u0.refer \/ ~u0.terminated)
          /\ w.subscribed = u0.subscribed /\ w.terminated = u0.terminated
          /\ w.termconf = u0.termconf /\ w.termwait = u0.termwait
          /\ w.refer = u0.refer /\ w.wait = u0.wait /\ w.granted = u0.granted
          /\ w.established = u0.established /\ ~w.ignored /\ w.broken = u0.broken
          /\ w.ls.failc = 0
      BY <3>1, <3>2, <3>3, SubSentFields
    <3>5. u0.refer \in BOOLEAN BY <3>1, SubRefer
    <3> QED BY <1>2, <1>8, <3>4, <3>5
  <2> HIDE DEF w
  <2>2. t = Sub!Ref(w) BY <1>8 DEF w
  <2>3. /\ t \in Sub!Subscription /\ t.refs = s.refs + 1 /\ t.terminated /\ t.by = s.by
        /\ t.req \in {"REFER", "unsubscribe"} /\ (t.req = "REFER" <=> s.refer)
        /\ t.tmr = "off" /\ (t.expires <=> s.refer) /\ t.subscribed
        /\ t.termconf = s.termconf /\ t.termwait = s.termwait /\ t.refer = s.refer
        /\ t.broken = s.broken /\ t.ls.failc = 0
        /\ t.wait = s.wait /\ t.granted = s.granted
        /\ t.established = s.established /\ ~t.ignored
    BY <1>4, <1>5, <2>1, <2>2
  <2>4. SubCore(t, a, p)
    <3>1. 0 < MaxLoop BY SubConstants
    <3>2. /\ (s.refer => s.by = "REFER") /\ (s.termconf => p = "gone")
          /\ (a # "none" => s.req # "none")
          /\ (a = "481" => p \in {"final", "gone"}) /\ (a = "2xx" => p # "none")
      BY DEF SubCore
    <3>3. t.refer \in BOOLEAN BY <2>3, SubRefer
    <3>4. /\ (t.refer => t.by = "REFER") /\ (t.termconf => p = "gone") /\ ~t.termwait
          /\ a = "none"
      BY <1>8, <2>3, <3>2
    <3> QED BY <2>3, <3>1, <3>2, <3>3, <3>4 DEF SubCore
  <2>5. SubKnown(t, a, p)
    BY <1>8, <2>3 DEF SubCore, SubKnown
  <2>6. t.refs = N(h) + N(SubOwn(t))
    BY <1>8, <2>3 DEF SubOwn, N
  <2> QED BY <2>3, <2>4, <2>5, <2>6
<1>9. CASE ~s.termwait /\ s.req = "none" /\ s.expires /\ s.subscribed /\ t = Sub!Unsent(u0, TRUE)
  <2>1. /\ t \in Sub!Subscription /\ t.refs = s.refs /\ t.terminated /\ t.by = s.by
        /\ t.req = s.req /\ t.tmr = "off" /\ t.subscribed
        /\ t.termconf = s.termconf /\ t.termwait = s.termwait /\ t.refer = s.refer
        /\ t.broken /\ t.established = s.established /\ ~t.ignored
        /\ t.refer => t.expires
    <3>1. u0 \in Sub!Subscription BY <1>2
    <3>2. PICK b \in BOOLEAN : b = TRUE OBVIOUS
    <3>3. t = Sub!Unsent(u0, b) BY <1>9, <3>2
    <3>4. /\ t \in Sub!Subscription
          /\ t.refs = u0.refs /\ t.by = u0.by /\ t.req = u0.req /\ t.tmr = u0.tmr
          /\ t.subscribed = u0.subscribed /\ t.terminated = u0.terminated
          /\ t.termconf = u0.termconf /\ t.termwait = u0.termwait
          /\ t.refer = u0.refer /\ t.broken
          /\ t.established = u0.established /\ t.ignored = u0.ignored
          /\ t.expires <=> u0.expires /\ (u0.refer \/ ~u0.terminated)
      BY <3>1, <3>2, <3>3, SubUnsentFields
    <3> QED BY <1>2, <1>9, <3>4
  <2>2. SubCore(t, a, p)
    <3>1. /\ (s.refer => s.by = "REFER") /\ (s.termconf => p = "gone")
          /\ (a # "none" => s.req # "none")
          /\ (a = "481" => p \in {"final", "gone"}) /\ (a = "2xx" => p # "none")
          /\ s.established => p # "none"
      BY DEF SubCore
    <3>2. t.refer \in BOOLEAN BY <2>1, SubRefer
    <3>3. (t.refer => t.by = "REFER" /\ t.expires) /\ (t.termconf => p = "gone")
      BY <2>1, <3>1, <3>2
    <3>4. ~t.termwait /\ a = "none" /\ t.req = "none" /\ t.tmr = "off"
      BY <1>9, <2>1, <3>1
    <3>5. t.established => p # "none" /\ (p = "active" => t.subscribed)
      BY <2>1, <3>1
    <3> QED BY <3>3, <3>4, <3>5, SubCoreIdle
  <2>3. SubKnown(t, a, p) BY <2>1 DEF SubKnown
  <2>4. ~SubOwn(t) BY <1>9, <2>1 DEF SubOwn
  <2>5. t.refs = N(h) + N(SubOwn(t))
    BY <2>1, <2>4 DEF N
  <2> QED BY <2>1, <2>2, <2>3, <2>5
<1>10. CASE ~s.termwait /\ s.req = "none" /\ ~(s.expires /\ s.subscribed) /\ t = u0
  BY <1>2, <1>10 DEF SubCore, SubKnown, SubOwn, N
<1> QED BY <1>3, <1>6, <1>7, <1>8, <1>9, <1>10

(* A subscription that is freed *)
LEMMA SubFreedFields ==
  /\ Sub!Freed \in Sub!Subscription
  /\ Sub!Freed.refs = 0 /\ Sub!Freed.by = "SUBSCRIBE" /\ Sub!Freed.req = "none"
  /\ Sub!Freed.tmr = "off" /\ ~Sub!Freed.expires /\ ~Sub!Freed.subscribed
  /\ Sub!Freed.terminated /\ ~Sub!Freed.termconf /\ ~Sub!Freed.termwait
  /\ ~Sub!Freed.refer /\ Sub!Freed.failc = 0 /\ ~Sub!Freed.broken
  /\ ~Sub!Freed.established /\ ~Sub!Freed.ignored
<1>1. NoLoop \in [last : Sub!Answer \cup {"none"}, failc : 0 .. MaxLoop]
  BY SubConstants DEF NoLoop
<1>2. 0 \in 0 .. MaxSubFailc BY SubConstants
<1>3. Sub!NoLoop = NoLoop BY DEF Sub!NoLoop, NoLoop
<1>4. Sub!Freed \in Sub!Subscription
  BY <1>1, <1>2, <1>3 DEF Sub!Freed, Sub!Subscription, Sub!SubMethod
<1> QED BY <1>4 DEF Sub!Freed

(* A subscription that is freed is good. *)
LEMMA SubFreedGood ==
  ASSUME NEW b \in BOOLEAN, NEW p, NEW c \in 0 .. 1, p = "active" => b
  PROVE  SubGood([Sub!Freed EXCEPT !.broken = b], "none", p, FALSE, c)
<1> DEFINE f == [Sub!Freed EXCEPT !.broken = b]
<1>1. /\ f \in Sub!Subscription /\ f.refs = 0 /\ f.by = "SUBSCRIBE"
      /\ f.req = "none" /\ f.tmr = "off" /\ ~f.expires /\ ~f.subscribed /\ f.terminated
      /\ ~f.termconf /\ ~f.termwait /\ ~f.refer /\ f.broken = b
      /\ ~f.established /\ ~f.ignored
  BY SubFreedFields DEF Sub!Subscription
<1> HIDE DEF f
<1>2. SubCore(f, "none", p) /\ SubKnown(f, "none", p) /\ SubGoing(f) /\ SubHeld(f, FALSE, c)
  BY <1>1 DEF SubCore, SubKnown, SubGoing, SubHeld, SubOwn, N
<1> QED BY <1>1, <1>2 DEF SubGood, f

(* The own reference of the object is given back. *)
LEMMA SubDerefOwn ==
  ASSUME NEW s \in Sub!Subscription, NEW p, NEW h \in BOOLEAN, NEW c \in 0 .. 1,
         s.terminated, s.req = "none", ~s.termwait, ~s.ignored,
         SubCore(s, "none", p), SubKnown(s, "none", p),
         s.refs = 1 + N(h), h => c = 1,
         NEW t \in Sub!mem_deref(s)
  PROVE  SubGood(t, "none", p, h, c)
<1>1. CASE h
  <2> DEFINE d == [s EXCEPT !.refs = @ - 1]
  <2>1. /\ d \in Sub!Subscription /\ d.refs = 1 /\ d.by = s.by
      /\ d.req = s.req /\ d.tmr = s.tmr /\ d.expires = s.expires /\ d.subscribed = s.subscribed
      /\ d.termconf = s.termconf /\ d.termwait = s.termwait /\ d.refer = s.refer
      /\ d.terminated = s.terminated /\ d.broken = s.broken /\ d.ls = s.ls
      /\ d.wait = s.wait /\ d.granted = s.granted
      /\ d.established = s.established /\ d.ignored = s.ignored
    <3>1. s.refs = 2 BY <1>1 DEF N
    <3>2. d = [s EXCEPT !.refs = 1] BY <3>1 DEF Sub!Subscription
    <3>3. d \in Sub!Subscription BY <3>2 DEF Sub!Subscription
    <3> HIDE DEF d
    <3> QED BY <3>2, <3>3 DEF Sub!Subscription
  <2>2. t = d BY <1>1 DEF Sub!mem_deref, N
  <2> HIDE DEF d
  <2>3. SubCore(d, "none", p) /\ SubKnown(d, "none", p) /\ SubGoing(d) /\ SubHeld(d, h, c)
    BY <1>1, <2>1 DEF SubCore, SubKnown, SubGoing, SubHeld, SubOwn, N
  <2> QED BY <2>1, <2>2, <2>3 DEF SubGood
<1>2. CASE ~h
  <2> DEFINE d == [s EXCEPT !.refs = 0]
  <2>1. d.refs = 0 /\ d.broken = s.broken /\ s.refs = 1 /\ s.broken \in BOOLEAN
    BY <1>2 DEF Sub!Subscription, N
  <2>2. t = [Sub!Freed EXCEPT !.broken = s.broken]
    <3>1. PICK v \in (IF s.terminated THEN {d} ELSE Sub!terminate(d)) :
             t = IF v.refs = 0 THEN [Sub!Freed EXCEPT !.broken = v.broken] ELSE v
      BY <2>1 DEF Sub!mem_deref
    <3> HIDE DEF d
    <3> QED BY <2>1, <3>1
  <2>3. p = "active" => s.broken BY DEF SubKnown
  <2> QED BY <1>2, <2>1, <2>2, <2>3, SubFreedGood
<1> QED BY <1>1, <1>2

(* The application releases the subscription. *)
LEMMA SubDerefApp ==
  ASSUME NEW s, NEW a, NEW p, NEW c, SubGood(s, a, p, TRUE, c),
         NEW t \in Sub!mem_deref(s)
  PROVE  SubGood(t, a, p, FALSE, c)
<1> USE DEF SubGood
<1>1. CASE s.refs > 1
  <2> DEFINE d == [s EXCEPT !.refs = @ - 1]
  <2>1. /\ d \in Sub!Subscription /\ d.refs = s.refs - 1 /\ d.by = s.by
      /\ d.req = s.req /\ d.tmr = s.tmr /\ d.expires = s.expires /\ d.subscribed = s.subscribed
      /\ d.termconf = s.termconf /\ d.termwait = s.termwait /\ d.refer = s.refer
      /\ d.terminated = s.terminated /\ d.broken = s.broken /\ d.ls = s.ls
      /\ d.wait = s.wait /\ d.granted = s.granted
      /\ d.established = s.established /\ d.ignored = s.ignored
    BY <1>1 DEF Sub!Subscription
  <2>2. t = d BY <1>1 DEF Sub!mem_deref
  <2> HIDE DEF d
  <2>3. SubCore(d, a, p) /\ SubKnown(d, a, p) /\ SubGoing(d) /\ SubHeld(d, FALSE, c)
    BY <1>1, <2>1 DEF SubCore, SubKnown, SubGoing, SubHeld, SubOwn, N
  <2> QED BY <2>1, <2>2, <2>3
<1>2. CASE ~(s.refs > 1)
  <2> DEFINE d == [s EXCEPT !.refs = 0]
  <2>0. s.refs = 1 /\ (s.terminated => s.req = "none" /\ ~s.termwait /\ ~s.ignored)
    BY <1>2 DEF SubHeld, SubOwn, N
  <2>1. /\ d \in Sub!Subscription /\ d.refs = 0 /\ d.by = s.by
      /\ d.req = s.req /\ d.tmr = s.tmr /\ d.expires = s.expires /\ d.subscribed = s.subscribed
      /\ d.termconf = s.termconf /\ d.termwait = s.termwait /\ d.refer = s.refer
      /\ d.terminated = s.terminated /\ d.broken = s.broken /\ d.ls = s.ls
      /\ d.wait = s.wait /\ d.granted = s.granted
      /\ d.established = s.established /\ d.ignored = s.ignored
    BY DEF Sub!Subscription
  <2>2. PICK v \in (IF s.terminated THEN {d} ELSE Sub!terminate(d)) :
           t = IF v.refs = 0 THEN [Sub!Freed EXCEPT !.broken = v.broken] ELSE v
    BY <1>2 DEF Sub!mem_deref
  <2> HIDE DEF d
  <2>3. SubCore(d, a, p) /\ SubKnown(d, a, p)
    BY <2>1 DEF SubCore, SubKnown
  <2>4. /\ v \in Sub!Subscription /\ v.terminated /\ SubCore(v, a, p) /\ SubKnown(v, a, p)
        /\ v.refs = N(SubOwn(v))
    <3>1. CASE s.terminated
      BY <2>0, <2>1, <2>2, <2>3, <3>1 DEF SubOwn, N
    <3>2. CASE ~s.terminated
      <4>1. d.refs = N(FALSE) /\ ~d.terminated /\ v \in Sub!terminate(d)
        BY <2>1, <2>2, <3>2 DEF N
      <4>2. v.refs = N(FALSE) + N(SubOwn(v)) /\ v \in Sub!Subscription /\ v.terminated /\ SubCore(v, a, p) /\ SubKnown(v, a, p)
        BY <4>1, <2>1, <2>3, SubTerminateGood
      <4> QED BY <4>2 DEF N
    <3> QED BY <3>1, <3>2
  <2>5. CASE v.refs = 0
    <3>1. v.req = "none" /\ ~v.ignored /\ v.broken \in BOOLEAN
      BY <2>4, <2>5 DEF SubOwn, N, Sub!Subscription
    <3>2. a = "none" /\ (p = "active" => v.broken)
      BY <2>4, <3>1 DEF SubCore, SubKnown
    <3> QED BY <2>2, <2>5, <3>1, <3>2, SubFreedGood
  <2>6. CASE v.refs # 0
    BY <2>2, <2>4, <2>6 DEF SubGoing, SubHeld, SubOwn, N
  <2> QED BY <2>5, <2>6
<1> QED BY <1>1, <1>2

(* sipsub_terminate *)
LEMMA SubTerminated ==
  ASSUME NEW s \in Sub!Subscription, NEW a, NEW p,
         ~s.terminated, SubCore(s, a, p), SubKnown(s, a, p), s.refs = 1,
         subApp = TRUE, subClosed = 0, Sub!sipsub_terminate(s)
  PROVE  SubGood(sub', a, p, subApp', subClosed')
<1>1. PICK t \in Sub!terminate(s) : subClosed' = subClosed + 1 /\ Sub!MayRelease(t)
  BY DEF Sub!sipsub_terminate
<1>2. /\ t \in Sub!Subscription /\ t.terminated
      /\ SubCore(t, a, p) /\ SubKnown(t, a, p) /\ t.refs = N(TRUE) + N(SubOwn(t))
  BY SubTerminateGood DEF N
<1>3. SubGood(t, a, p, TRUE, 1)
  BY <1>2 DEF SubGood, SubGoing, SubHeld
<1>4. \A v \in Sub!mem_deref(t) : SubGood(v, a, p, FALSE, 1)
  BY <1>3, SubDerefApp
<1>5. CASE sub' = t /\ UNCHANGED subApp
  <2>1. sub' = t /\ subApp' = TRUE /\ subClosed' = 1 BY <1>1, <1>5
  <2> QED BY <1>3, <2>1, Zenon
<1>6. CASE subApp' = FALSE /\ sub' \in Sub!mem_deref(t)
  <2>1. sub' \in Sub!mem_deref(t) /\ subApp' = FALSE /\ subClosed' = 1 BY <1>1, <1>6
  <2> QED BY <1>4, <2>1, Zenon
<1> QED BY <1>1, <1>5, <1>6 DEF Sub!MayRelease

(* One more failure *)
LEMMA SubFailureGood ==
  ASSUME NEW s \in Sub!Subscription, NEW p,
         ~s.terminated, SubCore(s, "none", p), SubKnown(s, "none", p), s.refs = 1,
         s.req = "none", ~s.termwait, s.failc < MaxSubFailc,
         subApp = TRUE, subClosed = 0, Sub!Failure(s)
  PROVE  SubGood(sub', "none", p, subApp', subClosed')
<1> DEFINE f == [s EXCEPT !.failc = @ + 1]
           r == Sub!reschedule(f, Sub!FailWait, 0)
<1>1. /\ f \in Sub!Subscription /\ f.refs = 1 /\ f.failc = s.failc + 1 /\ f.by = s.by
      /\ f.req = s.req /\ f.tmr = s.tmr /\ f.expires = s.expires /\ f.subscribed = s.subscribed
      /\ f.termconf = s.termconf /\ f.termwait = s.termwait /\ f.refer = s.refer
      /\ f.terminated = s.terminated /\ f.broken = s.broken /\ f.ls = s.ls
      /\ f.wait = s.wait /\ f.granted = s.granted
      /\ f.established = s.established /\ f.ignored = s.ignored
  <2>1. s.failc + 1 \in 0 .. MaxSubFailc BY SubConstants DEF Sub!Subscription
  <2> QED BY <2>1 DEF Sub!Subscription
<1> HIDE DEF f
<1>2. CASE s.failc + 1 < MaxSubFailc
  <2>1. /\ r \in Sub!Subscription /\ r.refs = 1 /\ r.failc = s.failc + 1 /\ r.by = s.by
      /\ r.req = s.req /\ r.tmr = "refresh" /\ r.expires = s.expires /\ r.subscribed = s.subscribed
      /\ r.termconf = s.termconf /\ r.termwait = s.termwait /\ r.refer = s.refer
      /\ r.terminated = s.terminated /\ r.broken = s.broken /\ r.ls = s.ls
      /\ r.granted = 0
      /\ r.established = s.established /\ r.ignored = s.ignored
    <3>1. Sub!FailWait \in Nat BY DEF Sub!FailWait
    <3> QED BY <1>1, <3>1, SubScheduled
  <2>2. sub' = r /\ subApp' = TRUE /\ subClosed' = 0
    BY <1>2 DEF Sub!Failure, Sub!Set, f
  <2> HIDE DEF r
  <2>3. SubCore(r, "none", p) BY <2>1 DEF SubCore
  <2>4. SubKnown(r, "none", p) BY <2>1 DEF SubKnown
  <2>5. SubGoing(r) BY <1>2, <2>1 DEF SubGoing
  <2>6. SubHeld(r, TRUE, 0) BY <2>1 DEF SubHeld, SubOwn, N
  <2>7. 0 \in 0 .. 1 OBVIOUS
  <2>8. SubGood(r, "none", p, TRUE, 0) BY <2>1, <2>3, <2>4, <2>5, <2>6, <2>7, Zenon DEF SubGood
  <2> QED BY <2>2, <2>8, Zenon
<1>3. CASE ~(s.failc + 1 < MaxSubFailc)
  <2>1. Sub!sipsub_terminate(f) BY <1>3 DEF Sub!Failure, f
  <2>2. SubCore(f, "none", p) BY <1>1 DEF SubCore
  <2>3. SubKnown(f, "none", p) BY <1>1 DEF SubKnown
  <2> QED BY <1>1, <2>1, <2>2, <2>3, SubTerminated
<1> QED BY <1>2, <1>3

(* A request is sent again. *)
LEMMA SubSentGood ==
  ASSUME NEW s, NEW p, NEW b \in BOOLEAN, NEW h, NEW c,
         s \in Sub!Subscription, h \in BOOLEAN, c \in 0 .. 1,
         ~s.termwait, s.tmr # "notify",
         s.terminated => s.tmr = "off",
         s.termconf => p = "gone",
         s.tmr = "refresh" /\ s.granted # 0 => s.wait < s.granted * 1000,
         s.established => p # "none" /\ (p = "active" => s.subscribed),
         s.refer => s.expires /\ s.by = "REFER",
         p = "active" /\ ~s.broken => s.subscribed /\ s.expires,
         ~s.terminated => s.failc < MaxSubFailc,
         ~b => s.ls.failc < MaxLoop,
         s.refs = N(h) + N(s.terminated),
         ~h => s.terminated,
         h => (s.terminated <=> c = 1)
  PROVE  SubGood(Sub!Sent(s, b), "none", p, h, c)
<1> DEFINE w == Sub!Sent(s, b)
<1>1. /\ w \in Sub!Subscription
      /\ w.refs = s.refs /\ w.by = s.by /\ w.tmr = s.tmr
      /\ w.req \in {"REFER", "SUBSCRIBE", "fetch", "unsubscribe"}
      /\ w.req = "REFER" <=> s.refer
      /\ w.req = "unsubscribe" <=> ~s.refer /\ s.terminated
      /\ w.req = "SUBSCRIBE" <=> ~s.refer /\ ~s.terminated /\ s.expires
      /\ w.expires <=> s.expires /\ (s.refer \/ ~s.terminated)
      /\ w.subscribed = s.subscribed /\ w.terminated = s.terminated
      /\ w.termconf = s.termconf /\ w.termwait = s.termwait
      /\ w.refer = s.refer /\ w.failc = s.failc
      /\ w.wait = s.wait /\ w.granted = s.granted
      /\ w.established = s.established /\ ~w.ignored
      /\ w.broken = s.broken
      /\ w.ls.failc = IF b THEN 0 ELSE s.ls.failc
  BY SubSentFields
<1> HIDE DEF w
<1>2. w.ls.failc < MaxLoop BY <1>1, SubConstants
<1>3. SubCore(w, "none", p) BY <1>1, <1>2 DEF SubCore
<1>4. SubKnown(w, "none", p) BY <1>1 DEF SubKnown
<1>5. SubGoing(w) BY <1>1 DEF SubGoing
<1>6. SubOwn(w) <=> s.terminated BY <1>1 DEF SubOwn
<1>7. SubHeld(w, h, c) BY <1>1, <1>6 DEF SubHeld, N
<1>8. SubGood(w, "none", p, h, c) BY <1>1, <1>3, <1>4, <1>5, <1>7 DEF SubGood
<1> QED BY <1>8 DEF w

(* The end of response_handler *)
LEMMA SubOutGood ==
  ASSUME NEW r, NEW p, SubReady(r, p, subApp, subClosed), Sub!Out(r)
  PROVE  SubGood(sub', "none", p, subApp', subClosed')
<1> DEFINE s == [r EXCEPT !.refer = FALSE]
<1>1. /\ s \in Sub!Subscription /\ s.refs = r.refs /\ s.failc = r.failc /\ s.by = r.by
      /\ s.req = "none" /\ s.tmr = r.tmr /\ s.expires = r.expires /\ s.subscribed = r.subscribed
      /\ s.termconf = r.termconf /\ s.termwait = r.termwait /\ ~s.refer
      /\ s.terminated = r.terminated /\ s.broken = r.broken /\ s.ls = r.ls
      /\ s.wait = r.wait /\ s.granted = r.granted
      /\ s.established = r.established /\ s.ignored = r.ignored
  BY DEF SubReady, Sub!Subscription
<1>2. SubCore(s, "none", p)
  <2> HIDE DEF s
  <2> QED BY <1>1 DEF SubReady, SubCore
<1>3. /\ p = "active" /\ ~s.broken => s.subscribed /\ s.expires
      /\ ~s.terminated => s.failc < MaxSubFailc
      /\ s.refs = N(subApp) + N(s.terminated)
      /\ ~subApp => s.terminated
      /\ subApp => (s.terminated <=> subClosed = 1)
      /\ subApp \in BOOLEAN /\ subClosed \in 0 .. 1 /\ ~s.termwait /\ ~s.ignored
      /\ s.tmr = "refresh" /\ s.granted # 0 => s.wait < s.granted * 1000
      /\ s.established => p # "none" /\ (p = "active" => s.subscribed)
  BY <1>1 DEF SubReady
<1>4. IF s.terminated
      THEN IF ~s.expires \/ ~s.subscribed THEN Sub!Deref(s)
           ELSE Sub!Set(Sub!Sent(s, TRUE)) \/ Sub!Deref(Sub!Unsent(s, TRUE))
      ELSE IF s.subscribed THEN Sub!Failure(s) ELSE Sub!sipsub_terminate(s)
  BY Zenon DEF Sub!Out
<1> HIDE DEF s
<1>5. CASE s.terminated /\ (~s.expires \/ ~s.subscribed)
  <2>1. SubKnown(s, "none", p) BY <1>3, <1>5 DEF SubKnown
  <2>2. sub' \in Sub!mem_deref(s) /\ subApp' = subApp /\ subClosed' = subClosed
    BY <1>4, <1>5 DEF Sub!Deref
  <2>3. s.refs = 1 + N(subApp) /\ (subApp => subClosed = 1) BY <1>3, <1>5 DEF N
  <2>4. SubGood(sub', "none", p, subApp, subClosed)
    BY <1>1, <1>2, <1>3, <1>5, <2>1, <2>2, <2>3, SubDerefOwn
  <2> QED BY <2>2, <2>4, Zenon
<1>6. CASE s.terminated /\ s.expires /\ s.subscribed /\ Sub!Set(Sub!Sent(s, TRUE))
  <2>1. sub' = Sub!Sent(s, TRUE) /\ subApp' = subApp /\ subClosed' = subClosed
    BY <1>6 DEF Sub!Set
  <2>2. s.tmr = "off" /\ (s.termconf => p = "gone") /\ ~s.refer BY <1>1, <1>2, <1>3, <1>6 DEF SubCore
  <2>3. SubGood(Sub!Sent(s, TRUE), "none", p, subApp, subClosed)
    BY <1>1, <1>3, <1>6, <2>2, SubSentGood
  <2> QED BY <2>1, <2>3, Zenon
<1>7. CASE s.terminated /\ s.expires /\ s.subscribed /\ Sub!Deref(Sub!Unsent(s, TRUE))
  <2> DEFINE w == Sub!Unsent(s, TRUE)
  <2>1. /\ w \in Sub!Subscription /\ w.refs = s.refs /\ w.tmr = s.tmr /\ w.by = s.by
        /\ w.req = "none" /\ w.terminated
        /\ w.termconf = s.termconf /\ w.termwait = s.termwait /\ w.refer = s.refer
        /\ w.wait = s.wait /\ w.granted = s.granted /\ w.subscribed = s.subscribed
        /\ w.established = s.established /\ w.ignored = s.ignored
        /\ w.broken
    BY <1>1, <1>7, SubUnsentFields
  <2>2. sub' \in Sub!mem_deref(w) /\ subApp' = subApp /\ subClosed' = subClosed
    BY <1>7 DEF Sub!Deref
  <2> HIDE DEF w
  <2>3. SubCore(w, "none", p) BY <1>1, <1>2, <1>3, <1>7, <2>1 DEF SubCore
  <2>4. SubKnown(w, "none", p) BY <2>1 DEF SubKnown
  <2>5. w.refs = 1 + N(subApp) /\ (subApp => subClosed = 1) /\ ~w.termwait /\ ~w.ignored BY <1>3, <1>7, <2>1 DEF N
  <2>6. SubGood(sub', "none", p, subApp, subClosed)
    BY <1>3, <2>1, <2>2, <2>3, <2>4, <2>5, SubDerefOwn
  <2> QED BY <2>2, <2>6, Zenon
<1>8. CASE ~s.terminated
  <2>1. subApp = TRUE /\ subClosed = 0 /\ s.refs = 1
    BY <1>3, <1>8 DEF N
  <2>2. SubKnown(s, "none", p) BY <1>1, <1>3, <1>8 DEF SubKnown
  <2>3. Sub!Failure(s) \/ Sub!sipsub_terminate(s) BY <1>4, <1>8
  <2> QED BY <1>1, <1>2, <1>3, <1>8, <2>1, <2>2, <2>3, SubFailureGood, SubTerminated
<1> QED BY <1>4, <1>5, <1>6, <1>7, <1>8

(* A subscription whose request was accepted *)
LEMMA SubAcceptedGood ==
  ASSUME NEW r, NEW p,
         r \in Sub!Subscription, subApp \in BOOLEAN, subClosed \in 0 .. 1,
         r.req = "none", ~r.termwait, r.tmr # "notify", ~r.ignored, p # "none",
         r.tmr = "refresh" /\ r.granted # 0 => r.wait < r.granted * 1000,
         r.terminated => r.tmr = "off",
         r.termconf => p = "gone",
         r.refer => r.expires /\ r.by = "REFER",
         p = "active" /\ ~r.broken => r.expires,
         r.refs = N(subApp) + N(r.terminated),
         ~subApp => r.terminated,
         subApp => (r.terminated <=> subClosed = 1),
         Sub!Accepted(r)
  PROVE  SubGood(sub', "none", p, subApp', subClosed')
<1> DEFINE c == r.subscribed \/ ~r.termconf
           s == [r EXCEPT !.subscribed = c, !.failc = 0, !.established = TRUE]
           n == [s EXCEPT !.tmr = "notify", !.termwait = TRUE]
           f == [s EXCEPT !.refer = FALSE]
           g(v) == Sub!reschedule(s, Sub!Soon(v), v)
<1>1. c \in BOOLEAN BY SubFields
<1>2. /\ Sub!Accepted(r) <=>
          CASE ~s.expires /\ ~s.termconf -> Sub!Set(n)
            [] (s.expires \/ s.termconf) /\ s.terminated -> Sub!Out(s)
            [] (s.expires \/ s.termconf) /\ ~s.terminated /\ s.refer -> Sub!Set(f)
            [] OTHER -> \E v \in Expires : Sub!Set(g(v))
  BY Zenon DEF Sub!Accepted
<1> HIDE DEF c
<1>3. /\ s \in Sub!Subscription /\ s.refs = r.refs /\ s.failc = 0 /\ s.by = r.by
      /\ s.req = "none" /\ s.tmr = r.tmr /\ s.expires = r.expires /\ s.subscribed = c
      /\ s.termconf = r.termconf /\ s.termwait = r.termwait /\ s.refer = r.refer
      /\ s.terminated = r.terminated /\ s.broken = r.broken /\ s.ls = r.ls
      /\ s.wait = r.wait /\ s.granted = r.granted
      /\ s.established /\ s.ignored = r.ignored
  <2>1. 0 \in 0 .. MaxSubFailc BY SubConstants
  <2> QED BY <1>1, <2>1 DEF Sub!Subscription
<1>4. c <=> r.subscribed \/ ~r.termconf BY DEF c
<1> HIDE DEF s
<1>5. CASE ~s.expires /\ ~s.termconf
  <2>1. /\ n \in Sub!Subscription /\ n.refs = r.refs /\ n.failc = 0 /\ n.by = r.by
      /\ n.req = "none" /\ n.tmr = "notify" /\ n.expires = r.expires /\ n.subscribed = c
      /\ n.termconf = r.termconf /\ n.termwait /\ n.refer = r.refer
      /\ n.terminated = r.terminated /\ n.broken = r.broken /\ n.ls = r.ls
      /\ n.wait = r.wait /\ n.granted = r.granted
      /\ n.established /\ n.ignored = r.ignored
    BY <1>3 DEF Sub!Subscription
  <2>2. sub' = n /\ subApp' = subApp /\ subClosed' = subClosed BY <1>2, <1>5 DEF Sub!Set
  <2> HIDE DEF n
  <2>3. ~r.expires BY <1>3, <1>5
  <2>4. SubCore(n, "none", p)
    <3>1. n.established => p # "none" /\ (p = "active" => n.subscribed) BY <1>4, <2>1
    <3>2. (n.termconf => p = "gone") /\ (n.refer => n.expires /\ n.by = "REFER") BY <2>1
    <3> QED BY <2>1, <2>3, <3>1, <3>2 DEF SubCore
  <2>5. SubKnown(n, "none", p) BY <2>1, <2>3 DEF SubKnown
  <2>6. SubGoing(n) BY <2>1, SubConstants DEF SubGoing
  <2>7. SubOwn(n) <=> r.terminated BY <2>1 DEF SubOwn
  <2>8. SubHeld(n, subApp, subClosed) BY <2>1, <2>7 DEF SubHeld, N
  <2>9. SubGood(n, "none", p, subApp, subClosed) BY <2>1, <2>4, <2>5, <2>6, <2>8 DEF SubGood
  <2> QED BY <2>2, <2>9, Zenon
<1>6. CASE (s.expires \/ s.termconf) /\ s.terminated
  <2>1. Sub!Out(s) BY <1>2, <1>6
  <2>2. SubReady(s, p, subApp, subClosed) BY <1>3, <1>4, <1>6 DEF SubReady
  <2> QED BY <2>1, <2>2, SubOutGood
<1>7. CASE (s.expires \/ s.termconf) /\ ~s.terminated /\ s.refer
  <2>1. /\ f \in Sub!Subscription /\ f.refs = r.refs /\ f.failc = 0 /\ f.by = r.by
      /\ f.req = "none" /\ f.tmr = r.tmr /\ f.expires = r.expires /\ f.subscribed = c
      /\ f.termconf = r.termconf /\ f.termwait = r.termwait /\ ~f.refer
      /\ f.terminated = r.terminated /\ f.broken = r.broken /\ f.ls = r.ls
      /\ f.wait = r.wait /\ f.granted = r.granted
      /\ f.established /\ f.ignored = r.ignored
    BY <1>3 DEF Sub!Subscription
  <2>2. sub' = f /\ subApp' = subApp /\ subClosed' = subClosed BY <1>2, <1>7 DEF Sub!Set
  <2> HIDE DEF f
  <2>3. ~r.terminated /\ r.refer BY <1>3, <1>7
  <2>4. SubCore(f, "none", p)
    <3>1. f.established => p # "none" /\ (p = "active" => f.subscribed) BY <1>4, <2>1
    <3>2. (f.termconf => p = "gone") /\ (f.refer => f.expires /\ f.by = "REFER") BY <2>1
    <3> QED BY <2>1, <2>3, <3>1, <3>2 DEF SubCore
  <2>5. SubKnown(f, "none", p) BY <1>4, <2>1, <2>3 DEF SubKnown
  <2>6. SubGoing(f) BY <2>1, <2>3, SubConstants DEF SubGoing
  <2>7. ~SubOwn(f) BY <2>1, <2>3 DEF SubOwn
  <2>8. SubHeld(f, subApp, subClosed) BY <2>1, <2>3, <2>7 DEF SubHeld, N
  <2>9. SubGood(f, "none", p, subApp, subClosed) BY <2>1, <2>4, <2>5, <2>6, <2>8 DEF SubGood
  <2> QED BY <2>2, <2>9, Zenon
<1>8. CASE (s.expires \/ s.termconf) /\ ~s.terminated /\ ~s.refer
  <2>0. PICK w \in Expires : Sub!Set(g(w)) BY <1>2, <1>8
  <2> DEFINE q == g(w)
  <2>1. /\ q \in Sub!Subscription /\ q.refs = r.refs /\ q.failc = 0 /\ q.by = r.by
        /\ q.req = "none" /\ q.tmr = "refresh" /\ q.expires = r.expires /\ q.subscribed = c
        /\ q.termconf = r.termconf /\ q.termwait = r.termwait /\ q.refer = r.refer
        /\ q.terminated = r.terminated /\ q.broken = r.broken /\ q.ls = r.ls
        /\ (q.granted # 0 => q.wait < q.granted * 1000)
        /\ q.established /\ q.ignored = r.ignored
    BY <1>3, SubScheduled, SubSoon
  <2>2. sub' = q /\ subApp' = subApp /\ subClosed' = subClosed BY <2>0 DEF Sub!Set
  <2> HIDE DEF q
  <2>3. ~r.terminated /\ ~r.refer BY <1>3, <1>8
  <2>4. SubCore(q, "none", p)
    <3>1. q.established => p # "none" /\ (p = "active" => q.subscribed) BY <1>4, <2>1
    <3>2. (q.termconf => p = "gone") /\ ~q.refer /\ ~q.termwait /\ ~q.ignored BY <2>1, <2>3
    <3> QED BY <2>1, <2>3, <3>1, <3>2 DEF SubCore
  <2>5. SubKnown(q, "none", p) BY <1>4, <2>1, <2>3 DEF SubKnown
  <2>6. SubGoing(q) BY <2>1, <2>3, SubConstants DEF SubGoing
  <2>7. ~SubOwn(q) BY <2>1, <2>3 DEF SubOwn
  <2>8. SubHeld(q, subApp, subClosed) BY <2>1, <2>3, <2>7 DEF SubHeld, N
  <2>9. SubGood(q, "none", p, subApp, subClosed) BY <2>1, <2>4, <2>5, <2>6, <2>8 DEF SubGood
  <2> QED BY <2>2, <2>9, Zenon
<1> QED BY <1>5, <1>6, <1>7, <1>8

(* A request was refused. *)
LEMMA SubRefusedGood ==
  ASSUME NEW s, NEW p, NEW a, SubReady(s, p, subApp, subClosed),
         s.ls.failc < MaxLoop, s.refer => s.expires /\ s.by = "REFER",
         a = "481" => p # "active",
         Sub!Refused(s, a)
  PROVE  SubGood(sub', "none", p, subApp', subClosed')
<1> DEFINE r == [s EXCEPT !.subscribed = @ /\ a # "481"]
<1>1. /\ r \in Sub!Subscription /\ r.refs = s.refs /\ r.failc = s.failc /\ r.by = s.by
      /\ r.req = s.req /\ r.tmr = s.tmr /\ r.expires = s.expires
      /\ r.subscribed <=> s.subscribed /\ a # "481"
      /\ r.refer = s.refer
      /\ r.termconf = s.termconf /\ r.termwait = s.termwait
      /\ r.terminated = s.terminated /\ r.broken = s.broken /\ r.ls = s.ls
      /\ r.wait = s.wait /\ r.granted = s.granted
      /\ r.established = s.established /\ r.ignored = s.ignored
  <2> DEFINE x == s.subscribed /\ a # "481"
  <2>1. r = [s EXCEPT !.subscribed = x] OBVIOUS
  <2>2. x \in BOOLEAN OBVIOUS
  <2>3. x <=> s.subscribed /\ a # "481" OBVIOUS
  <2> HIDE DEF x
  <2> QED BY <2>1, <2>2, <2>3 DEF SubReady, Sub!Subscription
<1>2. \/ Sub!Out(s)
      \/ Sub!Set(Sub!Sent(s, FALSE)) \/ Sub!Out(Sub!Unsent(s, FALSE))
      \/ Sub!Out(r)
  BY Zenon DEF Sub!Refused
<1> HIDE DEF r
<1>3. CASE Sub!Out(s) BY <1>3, SubOutGood
<1>4. CASE Sub!Set(Sub!Sent(s, FALSE))
  <2>1. sub' = Sub!Sent(s, FALSE) /\ subApp' = subApp /\ subClosed' = subClosed
    BY <1>4 DEF Sub!Set
  <2>2. SubGood(Sub!Sent(s, FALSE), "none", p, subApp, subClosed)
    BY SubSentGood DEF SubReady
  <2> QED BY <2>1, <2>2, Zenon
<1>5. CASE Sub!Out(Sub!Unsent(s, FALSE))
  <2> DEFINE u == Sub!Unsent(s, FALSE)
  <2>1. /\ u \in Sub!Subscription /\ u.refs = s.refs /\ u.req = s.req /\ u.tmr = s.tmr
        /\ u.terminated = s.terminated /\ u.subscribed = s.subscribed /\ u.by = s.by
        /\ u.wait = s.wait /\ u.granted = s.granted /\ u.refer = s.refer
        /\ u.established = s.established /\ u.ignored = s.ignored
        /\ u.expires <=> s.expires /\ (s.refer \/ ~s.terminated)
        /\ u.termconf = s.termconf /\ u.termwait = s.termwait
        /\ u.failc = s.failc
        /\ u.broken
    BY SubUnsentFields DEF SubReady
  <2> HIDE DEF u
  <2>2. SubReady(u, p, subApp, subClosed) BY <2>1 DEF SubReady
  <2> QED BY <1>5, <2>2, SubOutGood DEF u
<1>6. CASE Sub!Out(r)
  <2>1. SubReady(r, p, subApp, subClosed) BY <1>1 DEF SubReady
  <2> QED BY <1>6, <2>1, SubOutGood
<1> QED BY <1>2, <1>3, <1>4, <1>5, <1>6

(* An answer *)
LEMMA SubResponse == SubInv /\ Sub!Response => SubInv'
<1> SUFFICES ASSUME SubInv, Sub!Response PROVE SubInv'
  OBVIOUS
<1>0. /\ sub \in Sub!Subscription /\ subApp \in BOOLEAN /\ subClosed \in 0 .. 1
      /\ subAns \in Sub!Answer \cup {"none"} /\ subAns # "none" /\ sub.req # "none"
      /\ subPeer \in {"none", "active", "final", "gone"}
      /\ SubCore(sub, subAns, subPeer) /\ SubKnown(sub, subAns, subPeer) /\ SubGoing(sub)
      /\ SubHeld(sub, subApp, subClosed) /\ subAns' = "none" /\ subPeer' = subPeer
  BY DEF SubInv, SubGood, Sub!Response
<1>1. SUFFICES SubGood(sub', "none", subPeer, subApp', subClosed')
  BY <1>0 DEF SubInv
<1>2. /\ sub.refs = N(subApp) + N(sub.terminated) /\ ~sub.termwait /\ sub.tmr # "notify"
      /\ ~subApp => sub.terminated
      /\ subApp => (sub.terminated <=> subClosed = 1)
      /\ sub.terminated => sub.tmr = "off"
      /\ sub.ls.failc < MaxLoop
      /\ ~sub.terminated => sub.failc < MaxSubFailc
      /\ sub.refer => sub.expires /\ sub.by = "REFER"
      /\ sub.termconf => subPeer = "gone"
      /\ subAns = "481" => subPeer # "active"
      /\ subAns = "2xx" => subPeer # "none"
      /\ sub.established => subPeer # "none" /\ (subPeer = "active" => sub.subscribed)
      /\ sub.tmr = "refresh" /\ sub.granted # 0 => sub.wait < sub.granted * 1000
      /\ ~sub.ignored
  <2>1. ~sub.termwait BY <1>0 DEF SubCore
  <2>2. SubOwn(sub) <=> sub.terminated BY <1>0 DEF SubOwn
  <2> QED BY <1>0, <2>1, <2>2 DEF SubCore, SubGoing, SubHeld, N
<1> DEFINE B == sub.broken \/ (sub.req = "unsubscribe" /\ subAns # "2xx")
           L == Sub!LoopState(sub.ls, subAns)
           s == [sub EXCEPT !.req = "none", !.ls = L, !.broken = B]
           e == [sub EXCEPT !.req = "none", !.broken = TRUE]
           d == [s EXCEPT !.subscribed = FALSE, !.broken = TRUE]
<1>3. \/ subAns = "err" /\ Sub!Out(e)
      \/ subAns = "2xx" /\ Sub!Accepted(s)
      \/ subAns = "2xx" /\ s.established /\ Sub!Ignored(s)
      \/ subAns = "2xx" /\ ~s.established /\ Sub!Out(d)
      \/ subAns \notin {"err", "2xx"} /\ Sub!sip_request_loops(sub.ls, subAns) /\ Sub!Out(s)
      \/ subAns \notin {"err", "2xx"} /\ ~Sub!sip_request_loops(sub.ls, subAns) /\ Sub!Refused(s, subAns)
  BY <1>0, Zenon DEF Sub!Response
<1>4. B \in BOOLEAN BY <1>0, SubFields
<1>5. B <=> sub.broken \/ (sub.req = "unsubscribe" /\ subAns # "2xx") OBVIOUS
<1>6. /\ L \in [last : Sub!Answer \cup {"none"}, failc : 0 .. MaxLoop]
      /\ subAns # "2xx" /\ ~Sub!sip_request_loops(sub.ls, subAns) => L.failc < MaxLoop
  <2>1. sub.ls.failc \in Nat BY <1>0, SubFields
  <2>2. (IF subAns = "2xx" THEN 0 ELSE sub.ls.failc + 1) \in 0 .. MaxLoop
    BY <1>2, <2>1, SubConstants
  <2>3. L = [last |-> subAns, failc |-> IF subAns = "2xx" THEN 0 ELSE sub.ls.failc + 1]
    BY DEF Sub!LoopState
  <2>4. L.failc = IF subAns = "2xx" THEN 0 ELSE sub.ls.failc + 1 BY <2>3
  <2>5. subAns # "2xx" /\ ~Sub!sip_request_loops(sub.ls, subAns) => L.failc < MaxLoop
    BY <1>2, <2>1, <2>4, SubConstants DEF Sub!sip_request_loops
  <2> QED BY <1>0, <2>2, <2>3, <2>5
<1> HIDE DEF B, L
<1>7. /\ s \in Sub!Subscription /\ s.refs = sub.refs /\ s.failc = sub.failc /\ s.by = sub.by
      /\ s.req = "none" /\ s.tmr = sub.tmr /\ s.expires = sub.expires /\ s.subscribed = sub.subscribed
      /\ s.termconf = sub.termconf /\ s.termwait = sub.termwait /\ s.refer = sub.refer
      /\ s.terminated = sub.terminated /\ s.broken = B /\ s.ls = L
      /\ s.wait = sub.wait /\ s.granted = sub.granted
      /\ s.established = sub.established /\ s.ignored = sub.ignored
  BY <1>0, <1>4, <1>6 DEF Sub!Subscription
<1>8. /\ e \in Sub!Subscription /\ e.refs = sub.refs /\ e.failc = sub.failc
      /\ e.req = "none" /\ e.tmr = sub.tmr
      /\ e.termconf = sub.termconf /\ e.termwait = sub.termwait
      /\ e.terminated = sub.terminated /\ e.broken
      /\ e.wait = sub.wait /\ e.granted = sub.granted /\ e.subscribed = sub.subscribed
      /\ e.established = sub.established /\ e.ignored = sub.ignored
      /\ e.refer = sub.refer /\ e.expires = sub.expires /\ e.by = sub.by
  BY <1>0 DEF Sub!Subscription
<1>9. /\ d \in Sub!Subscription /\ d.refs = sub.refs /\ d.failc = sub.failc
      /\ d.req = "none" /\ d.tmr = sub.tmr
      /\ d.termconf = sub.termconf /\ d.termwait = sub.termwait
      /\ d.terminated = sub.terminated /\ d.broken
      /\ d.wait = sub.wait /\ d.granted = sub.granted
      /\ d.established = s.established /\ d.ignored = sub.ignored
      /\ d.refer = sub.refer /\ d.expires = sub.expires /\ d.by = sub.by
  <2> HIDE DEF s
  <2> QED BY <1>7 DEF Sub!Subscription
<1> HIDE DEF s, e, d
<1>10. CASE subAns = "err" /\ Sub!Out(e)
  <2>1. SubReady(e, subPeer, subApp, subClosed) BY <1>0, <1>2, <1>8 DEF SubReady
  <2> QED BY <1>10, <2>1, SubOutGood
<1>11. CASE subAns = "2xx" /\ Sub!Accepted(s)
  <2>1. subPeer = "active" /\ ~s.broken => s.expires BY <1>0, <1>5, <1>7, <1>11 DEF SubKnown
  <2> QED BY <1>0, <1>2, <1>7, <1>11, <2>1, SubAcceptedGood
<1>16. CASE subAns = "2xx" /\ s.established /\ Sub!Ignored(s)
  <2> DEFINE w == [s EXCEPT !.ignored = TRUE]
  <2>1. /\ w \in Sub!Subscription /\ w.refs = s.refs /\ w.failc = s.failc /\ w.by = s.by
      /\ w.req = s.req /\ w.tmr = s.tmr /\ w.expires = s.expires /\ w.subscribed = s.subscribed
      /\ w.termconf = s.termconf /\ w.termwait = s.termwait /\ w.refer = s.refer
      /\ w.terminated = s.terminated /\ w.broken = s.broken /\ w.ls = s.ls
      /\ w.wait = s.wait /\ w.granted = s.granted /\ w.established = s.established /\ w.ignored
    BY <1>7 DEF Sub!Subscription
  <2>2. sub' = w /\ subApp' = subApp /\ subClosed' = subClosed BY <1>16 DEF Sub!Ignored, Sub!Set
  <2> HIDE DEF w
  <2>3. SubCore(w, "none", subPeer) BY <1>2, <1>7, <2>1 DEF SubCore
  <2>4. subPeer = "active" /\ ~w.broken => w.subscribed /\ w.expires
    BY <1>0, <1>2, <1>5, <1>7, <1>16, <2>1 DEF SubKnown
  <2>5. SubKnown(w, "none", subPeer) BY <2>1, <2>4 DEF SubKnown
  <2>6. SubGoing(w) BY <1>2, <1>7, <2>1 DEF SubGoing
  <2>7. SubOwn(w) <=> sub.terminated BY <1>7, <2>1 DEF SubOwn
  <2>8. SubHeld(w, subApp, subClosed) BY <1>2, <1>7, <2>1, <2>7 DEF SubHeld, N
  <2>9. SubGood(w, "none", subPeer, subApp, subClosed)
    BY <1>0, <2>1, <2>3, <2>5, <2>6, <2>8 DEF SubGood
  <2> QED BY <2>2, <2>9, Zenon
<1>12. CASE subAns = "2xx" /\ ~s.established /\ Sub!Out(d)
  <2>1. SubReady(d, subPeer, subApp, subClosed) BY <1>0, <1>2, <1>9, <1>12 DEF SubReady
  <2> QED BY <1>12, <2>1, SubOutGood
<1>13. subAns \notin {"err", "2xx"} => SubReady(s, subPeer, subApp, subClosed)
  <2> SUFFICES ASSUME subAns \notin {"err", "2xx"} PROVE SubReady(s, subPeer, subApp, subClosed)
    OBVIOUS
  <2>1. subPeer = "active" /\ ~s.broken => s.subscribed /\ s.expires
    BY <1>0, <1>5, <1>7 DEF SubKnown
  <2> QED BY <1>0, <1>2, <1>7, <2>1 DEF SubReady
<1>14. CASE subAns \notin {"err", "2xx"} /\ Sub!sip_request_loops(sub.ls, subAns) /\ Sub!Out(s)
  BY <1>13, <1>14, SubOutGood
<1>15. CASE subAns \notin {"err", "2xx"} /\ ~Sub!sip_request_loops(sub.ls, subAns) /\ Sub!Refused(s, subAns)
  <2>1. s.ls.failc < MaxLoop BY <1>6, <1>7, <1>15
  <2> QED BY <1>2, <1>7, <1>13, <1>15, <2>1, SubRefusedGood
<1> QED BY <1>3, <1>10, <1>11, <1>12, <1>14, <1>15, <1>16

(* The application lets the subscription go. *)
LEMMA SubRelease == SubInv /\ Sub!Release => SubInv'
<1> SUFFICES ASSUME SubInv, Sub!Release PROVE SubInv'
  OBVIOUS
<1>1. /\ subApp = TRUE /\ subApp' = FALSE /\ sub' \in Sub!mem_deref(sub)
      /\ subAns' = subAns /\ subPeer' = subPeer /\ subClosed' = subClosed
  BY DEF Sub!Release, SubInv, SubGood
<1>2. SubGood(sub, subAns, subPeer, TRUE, subClosed) BY <1>1, Zenon DEF SubInv
<1>3. SubGood(sub', subAns, subPeer, FALSE, subClosed) BY <1>1, <1>2, SubDerefApp
<1>4. SubGood(sub', subAns', subPeer', subApp', subClosed') BY <1>1, <1>3, Zenon
<1> QED BY <1>1, <1>4 DEF SubInv

(* A NOTIFY of a subscription in force *)
LEMMA SubNotifyActive ==
  ASSUME NEW g \in Expires \cup {0}, SubInv, Sub!NotifyActive(g)
  PROVE  SubInv'
<1>0. /\ sub \in Sub!Subscription /\ subApp \in BOOLEAN /\ subClosed \in 0 .. 1
      /\ SubCore(sub, subAns, subPeer) /\ SubKnown(sub, subAns, subPeer) /\ SubGoing(sub)
      /\ SubHeld(sub, subApp, subClosed) /\ subPeer = "active" /\ subAns' = subAns /\ subPeer' = subPeer
      /\ subClosed' = subClosed
  BY DEF SubInv, SubGood, Sub!NotifyActive
<1> DEFINE x == sub.subscribed \/ ~sub.termconf
           r == [sub EXCEPT !.established = TRUE, !.subscribed = x]
           s == IF g # 0 /\ ~r.terminated /\ ~r.termwait
                THEN Sub!reschedule(r, Sub!Soon(g), g) ELSE r
<1>1. IF s.terminated THEN sub' = s /\ UNCHANGED subApp ELSE Sub!MayRelease(s)
  BY Zenon DEF Sub!NotifyActive
<1>2. x \in BOOLEAN BY <1>0 DEF Sub!Subscription
<1>3. x BY <1>0 DEF SubCore
<1> HIDE DEF x
<1>a. /\ r \in Sub!Subscription /\ r.refs = sub.refs /\ r.failc = sub.failc /\ r.by = sub.by
      /\ r.req = sub.req /\ r.tmr = sub.tmr /\ r.expires = sub.expires /\ r.subscribed
      /\ r.termconf = sub.termconf /\ r.termwait = sub.termwait /\ r.refer = sub.refer
      /\ r.terminated = sub.terminated /\ r.broken = sub.broken /\ r.ls = sub.ls
      /\ r.wait = sub.wait /\ r.granted = sub.granted /\ r.ignored = sub.ignored
  BY <1>0, <1>2, <1>3 DEF Sub!Subscription
<1> HIDE DEF r
<1>5. /\ s \in Sub!Subscription /\ s.refs = sub.refs /\ s.failc = sub.failc /\ s.by = sub.by
      /\ s.req = sub.req /\ s.expires = sub.expires /\ s.subscribed
      /\ s.termconf = sub.termconf /\ s.termwait = sub.termwait /\ s.refer = sub.refer
      /\ s.terminated = sub.terminated /\ s.broken = sub.broken /\ s.ls = sub.ls
      /\ s.ignored = sub.ignored
      /\ \/ s.tmr = sub.tmr /\ s.wait = sub.wait /\ s.granted = sub.granted
         \/ /\ s.tmr = "refresh" /\ ~sub.terminated /\ ~sub.termwait
            /\ s.granted # 0 => s.wait < s.granted * 1000
  <2>1. CASE g # 0 /\ ~r.terminated /\ ~r.termwait
    <3>1. g \in Expires BY <2>1
    <3>2. s = Sub!reschedule(r, Sub!Soon(g), g) BY <2>1
    <3> HIDE DEF s
    <3> QED BY <1>a, <2>1, <3>1, <3>2, SubScheduled, SubSoon
  <2>2. CASE ~(g # 0 /\ ~r.terminated /\ ~r.termwait)
    <3>1. s = r BY <2>2
    <3> HIDE DEF s
    <3> QED BY <1>a, <3>1
  <2> QED BY <2>1, <2>2
<1> HIDE DEF s
<1>6. SubCore(s, subAns, subPeer) BY <1>0, <1>5 DEF SubCore
<1>7. SubKnown(s, subAns, subPeer) BY <1>0, <1>5 DEF SubKnown
<1>8. SubGoing(s) BY <1>0, <1>5 DEF SubGoing
<1>9. SubHeld(s, subApp, subClosed) BY <1>0, <1>5 DEF SubHeld, SubOwn, N
<1>10. SubGood(s, subAns, subPeer, subApp, subClosed)
  BY <1>0, <1>5, <1>6, <1>7, <1>8, <1>9 DEF SubGood
<1>11. SubGood(sub', subAns, subPeer, subApp', subClosed)
  <2>1. CASE sub' = s /\ UNCHANGED subApp BY <1>10, <2>1, Zenon
  <2>2. CASE subApp /\ subApp' = FALSE /\ sub' \in Sub!mem_deref(s)
    <3>1. subApp = TRUE BY <1>0, <2>2
    <3>2. SubGood(s, subAns, subPeer, TRUE, subClosed) BY <1>10, <3>1, Zenon
    <3>3. SubGood(sub', subAns, subPeer, FALSE, subClosed) BY <2>2, <3>2, SubDerefApp
    <3> QED BY <2>2, <3>3, Zenon
  <2> QED BY <1>1, <2>1, <2>2 DEF Sub!MayRelease
<1>12. SubGood(sub', subAns', subPeer', subApp', subClosed') BY <1>0, <1>11, Zenon
<1> QED BY <1>0, <1>12 DEF SubInv

(* The last NOTIFY *)
LEMMA SubNotifyTerminated == SubInv /\ Sub!NotifyTerminated => SubInv'
<1> SUFFICES ASSUME SubInv, Sub!NotifyTerminated PROVE SubInv'
  OBVIOUS
<1>0. /\ sub \in Sub!Subscription /\ subApp \in BOOLEAN /\ subClosed \in 0 .. 1
      /\ subAns \in Sub!Answer \cup {"none"}
      /\ SubCore(sub, subAns, subPeer) /\ SubKnown(sub, subAns, subPeer) /\ SubGoing(sub)
      /\ SubHeld(sub, subApp, subClosed) /\ subPeer' = "gone" /\ subAns' = subAns
  BY DEF SubInv, SubGood, Sub!NotifyTerminated
<1>1. SUFFICES SubGood(sub', subAns, "gone", subApp', subClosed')
  BY <1>0 DEF SubInv
<1> DEFINE s == [sub EXCEPT !.established = TRUE, !.subscribed = FALSE, !.termconf = TRUE]
           d == [s EXCEPT !.termwait = FALSE, !.tmr = "off"]
           v == [s EXCEPT !.termwait = FALSE]
<1>2. IF s.terminated
      THEN IF s.termwait THEN Sub!Deref(d) ELSE Sub!Set(s)
      ELSE \/ Sub!sipsub_terminate(v)
           \/ subApp' = FALSE /\ sub' \in Sub!mem_deref(s) /\ UNCHANGED subClosed
  BY Zenon DEF Sub!NotifyTerminated
<1>3. /\ s \in Sub!Subscription /\ s.refs = sub.refs /\ s.failc = sub.failc /\ s.by = sub.by
      /\ s.req = sub.req /\ s.tmr = sub.tmr /\ s.expires = sub.expires
      /\ s.termwait = sub.termwait /\ s.refer = sub.refer
      /\ s.terminated = sub.terminated /\ s.broken = sub.broken /\ s.ls = sub.ls
      /\ s.wait = sub.wait /\ s.granted = sub.granted
      /\ s.ignored = sub.ignored
  BY <1>0 DEF Sub!Subscription
<1>4. /\ d \in Sub!Subscription /\ d.refs = sub.refs /\ d.failc = sub.failc /\ d.by = sub.by
      /\ d.req = sub.req /\ d.tmr = "off" /\ d.expires = sub.expires
      /\ ~d.termwait /\ d.refer = sub.refer
      /\ d.terminated = sub.terminated /\ d.broken = sub.broken /\ d.ls = sub.ls
      /\ d.wait = sub.wait /\ d.granted = sub.granted
      /\ d.ignored = sub.ignored
  <2> HIDE DEF s
  <2> QED BY <1>3 DEF Sub!Subscription
<1>5. /\ v \in Sub!Subscription /\ v.refs = sub.refs /\ v.failc = sub.failc /\ v.by = sub.by
      /\ v.req = sub.req /\ v.tmr = sub.tmr /\ v.expires = sub.expires
      /\ ~v.termwait /\ v.refer = sub.refer
      /\ v.terminated = sub.terminated /\ v.broken = sub.broken /\ v.ls = sub.ls
      /\ v.wait = sub.wait /\ v.granted = sub.granted
      /\ v.ignored = sub.ignored
  <2> HIDE DEF s
  <2> QED BY <1>3 DEF Sub!Subscription
<1> HIDE DEF s, d, v
<1>6. SubCore(s, subAns, "gone") BY <1>0, <1>3 DEF SubCore
<1>7. SubKnown(s, subAns, "gone") /\ SubKnown(d, subAns, "gone") /\ SubKnown(v, subAns, "gone") BY DEF SubKnown
<1>8. CASE s.terminated /\ s.termwait
  <2>1. sub.terminated /\ sub.termwait /\ sub.req = "none" /\ ~sub.ignored /\ subAns = "none" BY <1>0, <1>3, <1>8 DEF SubCore
  <2>2. SubCore(d, "none", "gone") BY <1>0, <1>4, <2>1 DEF SubCore
  <2>3. SubOwn(sub) BY <2>1 DEF SubOwn
  <2>4. d.refs = 1 + N(subApp) /\ (subApp => subClosed = 1) BY <1>0, <1>4, <2>1, <2>3 DEF SubHeld, N
  <2>5. sub' \in Sub!mem_deref(d) /\ subApp' = subApp /\ subClosed' = subClosed
    BY <1>2, <1>8 DEF Sub!Deref
  <2>6. SubKnown(d, "none", "gone") BY DEF SubKnown
  <2>7. SubGood(sub', "none", "gone", subApp, subClosed)
    BY <1>0, <1>4, <2>1, <2>2, <2>4, <2>5, <2>6, SubDerefOwn
  <2> QED BY <2>1, <2>5, <2>7, Zenon
<1>9. CASE s.terminated /\ ~s.termwait
  <2>1. sub' = s /\ subApp' = subApp /\ subClosed' = subClosed
    BY <1>2, <1>9 DEF Sub!Set
  <2>2. SubGoing(s) BY <1>9 DEF SubGoing
  <2>3. SubHeld(s, subApp, subClosed) BY <1>0, <1>3 DEF SubHeld, SubOwn, N
  <2>4. SubGood(s, subAns, "gone", subApp, subClosed) BY <1>0, <1>3, <1>6, <1>7, <2>2, <2>3 DEF SubGood
  <2> QED BY <2>1, <2>4, Zenon
<1>10. CASE ~s.terminated
  <2>1. ~sub.terminated /\ subApp = TRUE /\ subClosed = 0 /\ sub.refs = 1
    BY <1>0, <1>3, <1>10 DEF SubHeld, SubOwn, N
  <2>2. CASE Sub!sipsub_terminate(v)
    <3>1. SubCore(v, subAns, "gone") BY <1>0, <1>5, <2>1 DEF SubCore
    <3> QED BY <1>5, <1>7, <2>1, <2>2, <3>1, SubTerminated
  <2>3. CASE subApp' = FALSE /\ sub' \in Sub!mem_deref(s) /\ UNCHANGED subClosed
    <3>1. SubGoing(s) BY <1>0, <1>3 DEF SubGoing
    <3>2. SubHeld(s, subApp, subClosed) BY <1>0, <1>3 DEF SubHeld, SubOwn, N
    <3>3. SubGood(s, subAns, "gone", subApp, subClosed) BY <1>0, <1>3, <1>6, <1>7, <3>1, <3>2 DEF SubGood
    <3>4. SubGood(s, subAns, "gone", TRUE, subClosed) BY <2>1, <3>3, Zenon
    <3>5. SubGood(sub', subAns, "gone", FALSE, subClosed) BY <2>3, <3>4, SubDerefApp
    <3> QED BY <2>3, <3>5, Zenon
  <2> QED BY <1>2, <1>10, <2>2, <2>3
<1> QED BY <1>8, <1>9, <1>10

(* tmr_handler *)
LEMMA SubRefresh == SubInv /\ Sub!Refresh => SubInv'
<1> SUFFICES ASSUME SubInv, Sub!Refresh PROVE SubInv'
  OBVIOUS
<1>0. /\ sub \in Sub!Subscription /\ subApp \in BOOLEAN /\ subClosed \in 0 .. 1
      /\ SubCore(sub, subAns, subPeer) /\ SubKnown(sub, subAns, subPeer) /\ SubGoing(sub)
      /\ SubHeld(sub, subApp, subClosed) /\ subPeer' = subPeer /\ subAns' = subAns
      /\ sub.tmr = "refresh"
  BY DEF SubInv, SubGood, Sub!Refresh
<1>1. SUFFICES SubGood(sub', subAns, subPeer, subApp', subClosed')
  <2>1. SubGood(sub', subAns', subPeer', subApp', subClosed') BY <1>0, <1>1, Zenon
  <2> QED BY <1>0, <2>1 DEF SubInv
<1> DEFINE s == [sub EXCEPT !.tmr = "off"]
           u == Sub!Unsent(s, TRUE)
<1>2. IF s.req # "none" \/ s.terminated THEN Sub!Set(s)
      ELSE Sub!Set(Sub!Sent(s, TRUE)) \/ Sub!Failure(u)
  BY Zenon DEF Sub!Refresh
<1>3. /\ s \in Sub!Subscription /\ s.refs = sub.refs /\ s.failc = sub.failc /\ s.by = sub.by
      /\ s.req = sub.req /\ s.tmr = "off" /\ s.expires = sub.expires /\ s.subscribed = sub.subscribed
      /\ s.termconf = sub.termconf /\ s.termwait = sub.termwait /\ s.refer = sub.refer
      /\ s.terminated = sub.terminated /\ s.broken = sub.broken /\ s.ls = sub.ls
      /\ s.wait = sub.wait /\ s.granted = sub.granted
      /\ s.established = sub.established /\ s.ignored = sub.ignored
  BY <1>0 DEF Sub!Subscription
<1> HIDE DEF s
<1>4. ~sub.terminated /\ ~sub.termwait /\ subApp = TRUE /\ subClosed = 0 /\ sub.refs = 1
  <2>1. ~sub.termwait /\ ~sub.terminated BY <1>0 DEF SubCore
  <2>2. ~SubOwn(sub) BY <2>1 DEF SubOwn
  <2> QED BY <1>0, <2>1, <2>2 DEF SubHeld, N
<1>5. CASE s.req # "none"
  <2>1. sub' = s /\ subApp' = subApp /\ subClosed' = subClosed
    BY <1>2, <1>5 DEF Sub!Set
  <2>2. SubCore(s, subAns, subPeer) BY <1>0, <1>3, <1>4 DEF SubCore
  <2>3. SubKnown(s, subAns, subPeer) BY <1>0, <1>3 DEF SubKnown
  <2>4. SubGoing(s) BY <1>0, <1>3, <1>5 DEF SubGoing
  <2>5. SubHeld(s, subApp, subClosed) BY <1>0, <1>3 DEF SubHeld, SubOwn, N
  <2>6. SubGood(s, subAns, subPeer, subApp, subClosed)
    BY <1>0, <1>3, <2>2, <2>3, <2>4, <2>5 DEF SubGood
  <2> QED BY <2>1, <2>6, Zenon
<1>6. CASE s.req = "none"
  <2>1. /\ ~s.terminated /\ (s.refer => s.expires /\ s.by = "REFER") /\ subAns = "none"
        /\ s.termconf => subPeer = "gone"
        /\ s.established => subPeer # "none" /\ (subPeer = "active" => s.subscribed)
    BY <1>0, <1>3, <1>4, <1>6 DEF SubCore
  <2>2. subPeer = "active" /\ ~s.broken => s.subscribed /\ s.expires
    BY <1>0, <1>3, <1>6 DEF SubKnown
  <2>3. s.failc < MaxSubFailc BY <1>0, <1>3, <1>4 DEF SubGoing
  <2>4. CASE Sub!Set(Sub!Sent(s, TRUE))
    <3>1. sub' = Sub!Sent(s, TRUE) /\ subApp' = subApp /\ subClosed' = subClosed
      BY <2>4 DEF Sub!Set
    <3>2. s.refs = N(subApp) + N(s.terminated) BY <1>3, <1>4 DEF N
    <3>3. SubGood(Sub!Sent(s, TRUE), "none", subPeer, subApp, subClosed)
      <4>1. s.tmr # "notify" /\ ~s.termwait BY <1>3, <1>4
      <4>2. (~subApp => s.terminated) /\ (subApp => (s.terminated <=> subClosed = 1)) BY <1>4, <2>1
      <4> QED BY <1>0, <1>3, <2>1, <2>2, <2>3, <3>2, <4>1, <4>2, SubSentGood
    <3> QED BY <2>1, <3>1, <3>3, Zenon
  <2>5. CASE Sub!Failure(u)
    <3>1. /\ u \in Sub!Subscription /\ u.refs = 1 /\ u.by = s.by /\ u.req = "none" /\ u.tmr = "off"
          /\ u.terminated = s.terminated /\ u.termconf = s.termconf /\ u.termwait = s.termwait
          /\ u.refer = s.refer /\ u.failc = s.failc /\ u.broken
          /\ u.established = s.established /\ u.ignored = s.ignored
          /\ u.subscribed = s.subscribed /\ (u.expires <=> s.expires)
      <4>1. PICK b \in BOOLEAN : b = TRUE OBVIOUS
      <4>2. u = Sub!Unsent(s, b) BY <4>1
      <4> HIDE DEF u
      <4>3. /\ u \in Sub!Subscription
            /\ u.refs = s.refs /\ u.by = s.by /\ u.req = s.req /\ u.tmr = s.tmr
            /\ u.expires <=> s.expires /\ (s.refer \/ ~s.terminated)
            /\ u.subscribed = s.subscribed /\ u.terminated = s.terminated
            /\ u.termconf = s.termconf /\ u.termwait = s.termwait
            /\ u.refer = s.refer /\ u.failc = s.failc
            /\ u.established = s.established /\ u.ignored = s.ignored
            /\ u.broken
        BY <1>3, <4>1, <4>2, SubUnsentFields
      <4>4. u.expires \in BOOLEAN /\ s.expires \in BOOLEAN BY <1>3, <4>3, SubFields
      <4> QED BY <1>3, <1>4, <1>6, <4>3, <4>4
    <3> HIDE DEF u
    <3>2. SubCore(u, "none", subPeer) BY <1>3, <1>4, <2>1, <3>1 DEF SubCore
    <3>3. SubKnown(u, "none", subPeer) BY <3>1 DEF SubKnown
    <3>4. SubGood(sub', "none", subPeer, subApp', subClosed')
      BY <1>3, <1>4, <2>1, <2>3, <2>5, <3>1, <3>2, <3>3, SubFailureGood
    <3> QED BY <2>1, <3>4, Zenon
  <2> QED BY <1>2, <1>6, <2>1, <2>4, <2>5
<1> QED BY <1>5, <1>6

(* notify_timeout_handler *)
LEMMA SubNotifyTimeout == SubInv /\ Sub!NotifyTimeout => SubInv'
<1> SUFFICES ASSUME SubInv, Sub!NotifyTimeout PROVE SubInv'
  OBVIOUS
<1>0. /\ sub \in Sub!Subscription /\ subApp \in BOOLEAN /\ subClosed \in 0 .. 1
      /\ SubCore(sub, subAns, subPeer) /\ SubKnown(sub, subAns, subPeer) /\ SubGoing(sub)
      /\ SubHeld(sub, subApp, subClosed) /\ subPeer' = subPeer /\ subAns' = subAns
      /\ sub.tmr = "notify"
  BY DEF SubInv, SubGood, Sub!NotifyTimeout
<1>1. SUFFICES SubGood(sub', subAns, subPeer, subApp', subClosed')
  <2>1. SubGood(sub', subAns', subPeer', subApp', subClosed') BY <1>0, <1>1, Zenon
  <2> QED BY <1>0, <2>1 DEF SubInv
<1> DEFINE s == [sub EXCEPT !.tmr = "off", !.termwait = FALSE]
<1>2. IF s.terminated THEN Sub!Deref(s) ELSE Sub!sipsub_terminate(s)
  BY Zenon DEF Sub!NotifyTimeout
<1>3. /\ s \in Sub!Subscription /\ s.refs = sub.refs /\ s.failc = sub.failc /\ s.by = sub.by
      /\ s.req = sub.req /\ s.tmr = "off" /\ s.expires = sub.expires /\ s.subscribed = sub.subscribed
      /\ s.termconf = sub.termconf /\ ~s.termwait /\ s.refer = sub.refer
      /\ s.terminated = sub.terminated /\ s.broken = sub.broken /\ s.ls = sub.ls
      /\ s.wait = sub.wait /\ s.granted = sub.granted
      /\ s.established = sub.established /\ s.ignored = sub.ignored
  BY <1>0 DEF Sub!Subscription
<1> HIDE DEF s
<1>4. sub.termwait /\ sub.req = "none" /\ ~sub.ignored /\ subAns = "none" BY <1>0 DEF SubCore, SubGoing
<1>5. SubCore(s, "none", subPeer) BY <1>0, <1>3, <1>4 DEF SubCore
<1>6. SubKnown(s, "none", subPeer) BY <1>0, <1>3, <1>4 DEF SubKnown
<1>7. CASE s.terminated
  <2>1. SubOwn(sub) BY <1>3, <1>4, <1>7 DEF SubOwn
  <2>2. s.refs = 1 + N(subApp) /\ (subApp => subClosed = 1) BY <1>0, <1>3, <1>7, <2>1 DEF SubHeld, N
  <2>3. sub' \in Sub!mem_deref(s) /\ subApp' = subApp /\ subClosed' = subClosed
    BY <1>2, <1>7 DEF Sub!Deref
  <2>4. SubGood(sub', "none", subPeer, subApp, subClosed)
    BY <1>0, <1>3, <1>4, <1>5, <1>6, <1>7, <2>2, <2>3, SubDerefOwn
  <2> QED BY <1>4, <2>3, <2>4, Zenon
<1>8. CASE ~s.terminated
  <2>1. subApp = TRUE /\ subClosed = 0 /\ s.refs = 1
    BY <1>0, <1>3, <1>8 DEF SubHeld, SubOwn, N
  <2>2. SubGood(sub', "none", subPeer, subApp', subClosed')
    BY <1>2, <1>3, <1>5, <1>6, <1>8, <2>1, SubTerminated
  <2> QED BY <1>4, <2>2, Zenon
<1> QED BY <1>7, <1>8

(* The notifier answers or forgets. *)
LEMMA SubPeer == SubInv /\ (Sub!PeerAnswers \/ Sub!PeerForgets) => SubInv'
<1> SUFFICES ASSUME SubInv, Sub!PeerAnswers \/ Sub!PeerForgets PROVE SubInv'
  OBVIOUS
<1>0. /\ sub \in Sub!Subscription /\ subApp \in BOOLEAN /\ subClosed \in 0 .. 1
      /\ subAns \in Sub!Answer \cup {"none"} /\ subPeer \in {"none", "active", "final", "gone"}
      /\ SubCore(sub, subAns, subPeer) /\ SubKnown(sub, subAns, subPeer) /\ SubGoing(sub)
      /\ SubHeld(sub, subApp, subClosed)
      /\ sub' = sub /\ subApp' = subApp /\ subClosed' = subClosed
  BY DEF SubInv, SubGood, Sub!PeerAnswers, Sub!PeerForgets
<1>1. SUFFICES /\ subAns' \in Sub!Answer \cup {"none"} /\ subPeer' \in {"none", "active", "final", "gone"}
               /\ SubCore(sub, subAns', subPeer') /\ SubKnown(sub, subAns', subPeer')
  <2>1. SubGood(sub, subAns', subPeer', subApp, subClosed) BY <1>0, <1>1 DEF SubGood
  <2>2. SubGood(sub', subAns', subPeer', subApp', subClosed') BY <1>0, <2>1, Zenon
  <2> QED BY <1>1, <2>2 DEF SubInv
<1>2. CASE Sub!PeerForgets
  BY <1>0, <1>2 DEF Sub!PeerForgets, SubCore, SubKnown
<1>3. CASE Sub!PeerAnswers
  <2>0. subAns = "none" /\ sub.req # "none" BY <1>3 DEF Sub!PeerAnswers
  <2>1. CASE subAns' \in {"2xx", "err"} /\ sub.req \in {"REFER", "SUBSCRIBE"} /\ subPeer \in {"none", "active"} /\ subPeer' = "active"
    <3>1. SubCore(sub, subAns', subPeer') BY <1>0, <2>0, <2>1 DEF SubCore
    <3>2. SubKnown(sub, subAns', subPeer') BY <1>0, <2>0, <2>1 DEF SubKnown, SubCore
    <3> QED BY <2>1, <3>1, <3>2 DEF Sub!Answer
  <2>2. CASE subAns' \in {"2xx", "err"} /\ subPeer' = "final" /\ subPeer \in {"none", "active"}
    <3>1. SubCore(sub, subAns', subPeer') BY <1>0, <2>0, <2>2 DEF SubCore
    <3>2. SubKnown(sub, subAns', subPeer') BY <2>2 DEF SubKnown
    <3> QED BY <2>2, <3>1, <3>2 DEF Sub!Answer
  <2>3. CASE subAns' \in {"401", "423", "refused", "err"} /\ UNCHANGED subPeer
    <3>1. SubCore(sub, subAns', subPeer') BY <1>0, <2>0, <2>3 DEF SubCore
    <3>2. SubKnown(sub, subAns', subPeer') BY <1>0, <2>0, <2>3 DEF SubKnown
    <3> QED BY <1>0, <2>3, <3>1, <3>2 DEF Sub!Answer
  <2>4. CASE subPeer \in {"final", "gone"} /\ subAns' = "481" /\ UNCHANGED subPeer
    <3>1. SubCore(sub, subAns', subPeer') BY <1>0, <2>0, <2>4 DEF SubCore
    <3>2. SubKnown(sub, subAns', subPeer') BY <2>4 DEF SubKnown
    <3> QED BY <1>0, <2>4, <3>1, <3>2 DEF Sub!Answer
  <2> QED BY <1>3, <2>1, <2>2, <2>3, <2>4 DEF Sub!PeerAnswers
<1> QED BY <1>2, <1>3

(* The type of a subscription that is made *)
LEMMA SubMadeType ==
  ASSUME NEW z \in Sub!Subscription, NEW by \in {"REFER", "SUBSCRIBE"},
         NEW e \in BOOLEAN, NEW f \in BOOLEAN
  PROVE  [z EXCEPT !.refs = 1, !.by = by, !.terminated = FALSE, !.expires = e, !.refer = f]
            \in Sub!Subscription
<1> DEFINE u == [z EXCEPT !.refs = 1]
           v == [u EXCEPT !.by = by]
           w == [v EXCEPT !.terminated = FALSE, !.expires = e, !.refer = f]
<1>1. w = [z EXCEPT !.refs = 1, !.by = by, !.terminated = FALSE, !.expires = e, !.refer = f]
  BY DEF Sub!Subscription
<1>2. u \in Sub!Subscription BY DEF Sub!Subscription
<1> HIDE DEF u
<1>3. v \in Sub!Subscription BY <1>2 DEF Sub!Subscription
<1> HIDE DEF v
<1>4. w \in Sub!Subscription BY <1>3 DEF Sub!Subscription
<1> QED BY <1>1, <1>4

(* A new subscription is good, and so is one that is not explored. *)
LEMMA SubInitInv ==
  /\ Sub!Init => SubInv
  /\ sub = Sub!Freed /\ subAns = "none" /\ subPeer = "none" /\ subApp = FALSE /\ subClosed = 0
       => SubInv
<1> DEFINE z == Sub!Freed
<1>1. z = Sub!Freed OBVIOUS
<1> HIDE DEF z
<1>2. SubGood(Sub!Freed, "none", "none", FALSE, 0)
  <2>1. SubCore(z, "none", "none") BY <1>1, SubFreedFields DEF SubCore
  <2>2. SubKnown(z, "none", "none") BY DEF SubKnown
  <2>3. SubGoing(z) BY <1>1, SubFreedFields DEF SubGoing
  <2>4. SubHeld(z, FALSE, 0) BY <1>1, SubFreedFields DEF SubHeld, SubOwn, N
  <2>5. 0 \in 0 .. 1 /\ z \in Sub!Subscription BY <1>1, SubFreedFields
  <2>6. SubGood(z, "none", "none", FALSE, 0)
    BY <2>1, <2>2, <2>3, <2>4, <2>5, Zenon DEF SubGood
  <2> QED BY <1>1, <2>6
<1>3. ASSUME Sub!Init PROVE SubInv
  <2>1. PICK by \in {"REFER", "SUBSCRIBE"}, expires \in BOOLEAN :
          (by = "REFER" => expires) /\ sub = Sub!Subscribe(by, expires)
    BY <1>3 DEF Sub!Init
  <2> DEFINE rf == by = "REFER"
             s == [Sub!Freed EXCEPT !.refs = 1, !.by = by, !.terminated = FALSE,
                         !.expires = expires, !.refer = rf]
  <2>2. sub = Sub!Sent(s, TRUE) BY <2>1, Zenon DEF Sub!Subscribe
  <2>3. rf \in BOOLEAN /\ (rf <=> by = "REFER") OBVIOUS
  <2>4. s = [z EXCEPT !.refs = 1, !.by = by, !.terminated = FALSE,
                         !.expires = expires, !.refer = rf]
    BY <1>1
  <2>5. /\ z \in Sub!Subscription /\ z.tmr = "off" /\ ~z.termconf /\ ~z.termwait /\ z.failc = 0
        /\ ~z.established
    BY <1>1, SubFreedFields
  <2> HIDE DEF rf, s
  <2>6. /\ s \in Sub!Subscription /\ s.refs = 1 /\ s.by = by /\ ~s.terminated /\ s.expires = expires
        /\ s.refer = rf /\ s.tmr = "off" /\ ~s.termconf /\ ~s.termwait /\ s.failc = 0
        /\ ~s.established
    <3>1. by \in {"REFER", "SUBSCRIBE"} /\ expires \in BOOLEAN BY <2>1
    <3>2. s \in Sub!Subscription BY <2>3, <2>4, <2>5, <3>1, SubMadeType
    <3>3. /\ s.refs = 1 /\ s.by = by /\ s.terminated = FALSE /\ s.expires = expires
          /\ s.refer = rf /\ s.tmr = z.tmr /\ s.termconf = z.termconf
          /\ s.termwait = z.termwait /\ s.failc = z.failc /\ s.established = z.established
      BY <2>4, <2>5 DEF Sub!Subscription
    <3> QED BY <2>5, <3>2, <3>3
  <2>9. subAns = "none" /\ subPeer = "none" /\ subApp = TRUE /\ subClosed = 0 BY <1>3 DEF Sub!Init
  <2>7. s.refs = N(subApp) + N(s.terminated) BY <2>6, <2>9 DEF N
  <2>8. SubGood(Sub!Sent(s, TRUE), "none", subPeer, subApp, subClosed)
    <3>1. s.tmr # "notify" /\ (s.refer => s.expires /\ s.by = "REFER") /\ subPeer # "active"
      BY <2>1, <2>3, <2>6, <2>9
    <3>2. s.failc < MaxSubFailc /\ subClosed \in 0 .. 1 /\ subApp \in BOOLEAN
      BY <2>6, <2>9, SubConstants
    <3>3. (~subApp => s.terminated) /\ (subApp => (s.terminated <=> subClosed = 1))
      BY <2>6, <2>9
    <3> QED BY <2>6, <2>7, <3>1, <3>2, <3>3, SubSentGood
  <2>10. SubGood(sub, subAns, subPeer, subApp, subClosed) BY <2>2, <2>8, <2>9, Zenon
  <2> QED BY <2>9, <2>10 DEF SubInv
<1>4. ASSUME sub = Sub!Freed, subAns = "none", subPeer = "none", subApp = FALSE, subClosed = 0
      PROVE SubInv
  <2>1. SubGood(sub, subAns, subPeer, subApp, subClosed) BY <1>2, <1>4, Zenon
  <2> QED BY <1>4, <2>1 DEF SubInv
<1> QED BY <1>3, <1>4

(* Each action of sipsub preserves its invariant. *)
LEMMA SubNextInv == SubInv /\ [Sub!Next]_subVars => SubInv'
<1> SUFFICES ASSUME SubInv, [Sub!Next]_subVars PROVE SubInv'
  OBVIOUS
<1>1. CASE UNCHANGED subVars
  BY <1>1, Zenon DEF subVars, SubInv
<1>2. CASE \E g \in Expires \cup {0} : Sub!NotifyActive(g)
  BY <1>2, SubNotifyActive
<1> QED BY <1>1, <1>2, SubRelease, SubResponse, SubNotifyTerminated, SubRefresh,
           SubNotifyTimeout, SubPeer DEF Sub!Next

(* The invariant implies what SubSafe says. *)
LEMMA SubInvSafe == SubInv => Sub!SubSafe
<1> SUFFICES ASSUME SubInv PROVE Sub!SubSafe
  OBVIOUS
<1>0. /\ sub \in Sub!Subscription /\ subApp \in BOOLEAN /\ subClosed \in 0 .. 1
      /\ subAns \in Sub!Answer \cup {"none"} /\ subPeer \in {"none", "active", "final", "gone"}
      /\ SubCore(sub, subAns, subPeer) /\ SubKnown(sub, subAns, subPeer) /\ SubGoing(sub)
      /\ SubHeld(sub, subApp, subClosed)
  BY DEF SubInv, SubGood
<1>1. SubOwn(sub) \in BOOLEAN /\ sub.refs = N(subApp) + N(SubOwn(sub)) BY <1>0 DEF SubOwn, SubHeld
<1>2. Sub!RefsExact
  <2>1. Sub!Cardinality({x \in {"app"} : subApp}) = N(subApp) BY <1>0, Counted
  <2>2. Sub!Cardinality({x \in {"own"} : SubOwn(sub)}) = N(SubOwn(sub)) BY <1>1, Counted
  <2>3. Sub!TypeOK BY <1>0 DEF Sub!TypeOK
  <2>4. Sub!Cardinality({x \in {"own"} : sub.terminated
                      /\ (sub.req # "none" \/ sub.termwait \/ sub.ignored)})
           = N(SubOwn(sub))
    BY <2>2, Zenon DEF SubOwn
  <2> DEFINE A == Sub!Cardinality({x \in {"app"} : subApp})
             B == Sub!Cardinality({x \in {"own"} : sub.terminated
                      /\ (sub.req # "none" \/ sub.termwait \/ sub.ignored)})
  <2>5. A = N(subApp) /\ B = N(SubOwn(sub)) BY <2>1, <2>4, Zenon
  <2> HIDE DEF A, B
  <2>6. sub.refs = A + B BY <1>1, <2>5
  <2> QED BY <2>3, <2>6, Zenon DEF Sub!RefsExact, A, B
<1>3. Sub!KeepsGoing BY <1>0 DEF Sub!KeepsGoing, SubGoing
<1>6. Sub!RefreshInTime BY <1>0 DEF Sub!RefreshInTime, SubCore
<1>4. Sub!ToldOfEnd BY <1>0 DEF Sub!ToldOfEnd, SubHeld
<1>5. Sub!LeavesNothing
  <2> SUFFICES ASSUME sub.refs = 0, ~sub.broken PROVE subPeer # "active"
    BY DEF Sub!LeavesNothing
  <2>1. ~SubOwn(sub) /\ sub.terminated BY <1>0, <1>1 DEF N, SubHeld
  <2> QED BY <1>0, <2>1 DEF SubOwn, SubKnown
<1> QED BY <1>2, <1>3, <1>4, <1>5, <1>6 DEF Sub!SubSafe

-----------------------------------------------------------------------------
(* sipnot: notifiers *)

(* The object holds a reference to itself while its last NOTIFY is out. *)
NotOwn(n) == n.terminated /\ n.req # "none"

(* How the request, its answer and the flags of a notifier agree *)
NotCore(n, m, a, g, p) ==
  /\ a # "none" => n.req # "none"
  /\ n.req # "none" => n.ls.failc < MaxLoop
  /\ n.req = "final" => n.termsent /\ n.sent = m
  /\ n.termsent => n.terminated
  /\ n.req = "active" => ~n.termsent
  /\ a = "2xx" => g = n.sent
  /\ a = "2xx" /\ n.req = "final" => p = "ended"

(* Unless a NOTIFY was lost to a failure, the subscriber has the last state
   or will be told of it, and hears of the end. *)
NotKnown(n, m, g, p) ==
  ~n.failed =>
    /\ n.subscribed
    /\ n.terminated => n.req # "none" \/ p = "ended"
    /\ n.terminated => n.req = "active" \/ n.termsent
    /\ n.expires /\ ~n.terminated /\ n.req = "active" => n.sent = m \/ n.notify_pending
    /\ n.expires /\ n.req = "none" => g = m

(* The references are the one of the application and the own one; the close
   handler is called once at most, and never by a termination of the user. *)
NotHeld(n, h, c, f) ==
  /\ n.refs = N(h) + N(NotOwn(n))
  /\ ~h => n.terminated
  /\ ~(f /\ c = 1)
  /\ h => (n.terminated <=> f \/ c = 1)

NotGood(n, m, a, g, p, h, c, f) ==
  /\ n \in Not!Notifier
  /\ h \in BOOLEAN /\ c \in 0 .. 1 /\ f \in BOOLEAN
  /\ NotCore(n, m, a, g, p) /\ NotHeld(n, h, c, f)
  /\ n.refs > 0 => NotKnown(n, m, g, p)
  /\ n.refs = 0 /\ ~n.failed => p = "ended"

(* The invariant of sipnot *)
NotInv ==
  /\ mb \in Not!Version /\ got \in Not!Version
  /\ notAns \in Not!NotifyAnswer \cup {"none"}
  /\ notPeer \in {"on", "ended"}
  /\ NotGood(not, mb, notAns, got, notPeer, notApp, notClosed, self)

(* What response_handler leaves to its end *)
NotReady(n, m, g, p, h, c, f) ==
  /\ n \in Not!Notifier
  /\ h \in BOOLEAN /\ c \in 0 .. 1 /\ f \in BOOLEAN
  /\ n.req = "none"
  /\ n.termsent => n.terminated
  /\ ~n.failed =>
       /\ n.subscribed
       /\ n.termsent => p = "ended"
       /\ n.termsent /\ n.expires => g = m
       /\ ~n.terminated /\ n.expires => g = m \/ n.notify_pending
  /\ n.refs = N(h) + N(n.terminated)
  /\ ~h => n.terminated
  /\ ~(f /\ c = 1)
  /\ h => (n.terminated <=> f \/ c = 1)

(* What the assumptions say of the numbers that sipnot uses *)
LEMMA NotConstants == MaxLoop \in Nat \ {0} /\ MaxVersion \in Nat
  BY SipLoopAssumption, MCSipAssumption DEF Not!SipNotAssumption

(* A NOTIFY that cannot be sent: what is written all the same *)
LEMMA NotUnsentFields ==
  ASSUME NEW n \in Not!Notifier, NEW b \in BOOLEAN
  PROVE  LET u == Not!Unsent(n, b)
         IN /\ u \in Not!Notifier
            /\ u.refs = n.refs /\ u.req = n.req /\ u.sent = n.sent /\ u.tmr = n.tmr
            /\ u.expires = n.expires /\ u.notify_pending = FALSE
            /\ u.subscribed = n.subscribed /\ u.terminated = n.terminated
            /\ u.termsent <=> n.termsent \/ n.terminated
            /\ u.failed = TRUE
            /\ u.ls.failc = IF b THEN 0 ELSE n.ls.failc
<1> DEFINE e == n.termsent \/ n.terminated
           l == IF b THEN Not!NoLoop ELSE n.ls
<1>1. e \in BOOLEAN /\ (e <=> n.termsent \/ n.terminated) OBVIOUS
<1>2. /\ l \in [last : Not!NotifyAnswer \cup {"none"}, failc : 0 .. MaxLoop]
      /\ l.failc = IF b THEN 0 ELSE n.ls.failc
  BY NotConstants DEF Not!Notifier, Not!NoLoop
<1>3. Not!Unsent(n, b) = [n EXCEPT !.ls = l, !.termsent = e, !.notify_pending = FALSE, !.failed = TRUE]
  BY DEF Not!Unsent
<1> HIDE DEF l, e
<1>4. [n EXCEPT !.ls = l, !.termsent = e, !.notify_pending = FALSE, !.failed = TRUE] \in Not!Notifier
  BY <1>1, <1>2 DEF Not!Notifier
<1> QED BY <1>1, <1>2, <1>3, <1>4 DEF Not!Notifier

(* What notify_request writes: the last NOTIFY is marked as sent. *)
LEMMA NotSentFields ==
  ASSUME NEW n \in Not!Notifier, NEW b \in BOOLEAN, NEW m \in Not!Version, NEW u,
         u = Not!Sent(n, b, m)
  PROVE  /\ u \in Not!Notifier
         /\ u.refs = n.refs /\ u.sent = m /\ u.tmr = n.tmr
         /\ n.terminated => u.req = "final"
         /\ ~n.terminated => u.req = "active"
         /\ u.expires = n.expires /\ ~u.notify_pending
         /\ u.subscribed = n.subscribed /\ u.terminated = n.terminated
         /\ u.termsent <=> n.termsent \/ n.terminated
         /\ u.failed = n.failed
         /\ u.ls.failc = IF b THEN 0 ELSE n.ls.failc
<1> DEFINE v == Not!Unsent(n, b)
           q == IF n.terminated THEN "final" ELSE "active"
<1>1. Not!Sent(n, b, m) = [v EXCEPT !.failed = n.failed, !.sent = m, !.req = q]
  BY DEF Not!Sent
<1>2. q \in {"none", "active", "final"} /\ n.failed \in BOOLEAN BY DEF Not!Notifier
<1>3. /\ v \in Not!Notifier
      /\ v.refs = n.refs /\ v.tmr = n.tmr
      /\ v.expires = n.expires /\ v.notify_pending = FALSE
      /\ v.subscribed = n.subscribed /\ v.terminated = n.terminated
      /\ v.termsent <=> n.termsent \/ n.terminated
      /\ v.ls.failc = IF b THEN 0 ELSE n.ls.failc
  BY NotUnsentFields
<1> HIDE DEF q, v
<1>4. [v EXCEPT !.failed = n.failed, !.sent = m, !.req = q] \in Not!Notifier
  BY <1>2, <1>3 DEF Not!Notifier
<1>5. /\ u.refs = v.refs /\ u.sent = m /\ u.tmr = v.tmr /\ u.req = q
      /\ u.expires = v.expires /\ u.notify_pending = v.notify_pending
      /\ u.subscribed = v.subscribed /\ u.terminated = v.terminated
      /\ u.termsent = v.termsent /\ u.failed = n.failed /\ u.ls = v.ls
  BY <1>1, <1>3 DEF Not!Notifier
<1> QED BY <1>1, <1>3, <1>4, <1>5 DEF q

(* The results of terminate *)
LEMMA NotTerminateGood ==
  ASSUME NEW n \in Not!Notifier, NEW m0, NEW m \in Not!Version, NEW a, NEW g, NEW p,
         NEW h \in BOOLEAN, ~n.terminated, NotCore(n, m0, a, g, p),
         n.subscribed \/ n.failed, n.refs = N(h),
         NEW t \in Not!terminate(n, m)
  PROVE  /\ t \in Not!Notifier /\ t.terminated
         /\ NotCore(t, m, a, g, p) /\ NotKnown(t, m, g, p) /\ t.refs = N(h) + N(NotOwn(t))
<1> DEFINE u == [n EXCEPT !.terminated = TRUE]
<1>1. /\ u \in Not!Notifier /\ u.terminated /\ u.refs = n.refs /\ u.req = n.req /\ u.sent = n.sent
      /\ u.expires = n.expires /\ u.subscribed = n.subscribed /\ u.termsent = n.termsent
      /\ u.failed = n.failed /\ u.ls = n.ls
  BY DEF Not!Notifier
<1>2. Not!terminate(n, m) =
        CASE u.req # "none" -> {Not!Ref(u)}
          [] u.req = "none" /\ u.subscribed -> {Not!Ref(Not!Sent(u, TRUE, m)), Not!Unsent(u, TRUE)}
          [] OTHER -> {u}
  BY DEF Not!terminate
<1> HIDE DEF u
<1>3. \A r \in Not!Notifier : r.refs < 2 =>
        /\ Not!Ref(r) \in Not!Notifier /\ Not!Ref(r).refs = r.refs + 1
        /\ Not!Ref(r).terminated = r.terminated /\ Not!Ref(r).req = r.req /\ Not!Ref(r).sent = r.sent
        /\ Not!Ref(r).expires = r.expires /\ Not!Ref(r).subscribed = r.subscribed
        /\ Not!Ref(r).termsent = r.termsent /\ Not!Ref(r).failed = r.failed /\ Not!Ref(r).ls = r.ls
  BY DEF Not!Notifier, Not!Ref
<1>4. u.refs < 2 /\ n.subscribed \in BOOLEAN /\ n.req \in {"none", "active", "final"}
  BY <1>1 DEF N, Not!Notifier
<1>5. n.req # "final" /\ ~n.termsent BY DEF NotCore
<1>6. CASE n.req # "none" /\ t = Not!Ref(u)
  <2>1. /\ t \in Not!Notifier /\ t.refs = n.refs + 1 /\ t.terminated /\ t.req = n.req
        /\ t.sent = n.sent /\ t.subscribed = n.subscribed
        /\ t.termsent = n.termsent /\ t.failed = n.failed /\ t.ls = n.ls
    BY <1>1, <1>3, <1>4, <1>6
  <2>2. NotCore(t, m, a, g, p) BY <1>5, <2>1 DEF NotCore
  <2>3. NotKnown(t, m, g, p) BY <1>4, <1>5, <1>6, <2>1 DEF NotKnown
  <2>4. NotOwn(t) BY <1>6, <2>1 DEF NotOwn
  <2>5. t.refs = N(h) + N(NotOwn(t)) BY <2>1, <2>4 DEF N
  <2> QED BY <2>1, <2>2, <2>3, <2>5
<1>7. CASE n.req = "none" /\ n.subscribed /\ t = Not!Ref(Not!Sent(u, TRUE, m))
  <2> DEFINE w == Not!Sent(u, TRUE, m)
  <2>1. /\ w \in Not!Notifier /\ w.refs = n.refs /\ w.sent = m /\ w.req = "final"
        /\ w.subscribed = n.subscribed /\ w.terminated /\ w.termsent
        /\ w.failed = n.failed /\ w.ls.failc = 0
    <3>2. PICK b \in BOOLEAN : b = TRUE OBVIOUS
    <3>0. w = Not!Sent(u, b, m) BY <3>2, Zenon
    <3> HIDE DEF w
    <3>1. /\ w \in Not!Notifier /\ w.refs = u.refs /\ w.sent = m
          /\ u.terminated => w.req = "final"
          /\ w.subscribed = u.subscribed /\ w.terminated = u.terminated
          /\ w.termsent <=> u.termsent \/ u.terminated
          /\ w.failed = u.failed /\ w.ls.failc = IF b THEN 0 ELSE u.ls.failc
      <4>1. u \in Not!Notifier /\ b \in BOOLEAN BY <1>1, <3>2
      <4> QED BY <3>0, <4>1, NotSentFields
    <3> QED BY <1>1, <3>1, <3>2
  <2>2. t = Not!Ref(w) BY <1>7
  <2> HIDE DEF w
  <2>3. /\ t \in Not!Notifier /\ t.refs = n.refs + 1 /\ t.sent = m /\ t.req = "final"
        /\ t.subscribed = n.subscribed /\ t.terminated /\ t.termsent
        /\ t.failed = n.failed /\ t.ls.failc = 0
    BY <1>1, <1>3, <1>4, <2>1, <2>2
  <2>4. a = "none" BY <1>7 DEF NotCore
  <2>5. NotCore(t, m, a, g, p) BY <2>3, <2>4, NotConstants DEF NotCore
  <2>6. NotKnown(t, m, g, p) BY <1>7, <2>3 DEF NotKnown
  <2>7. NotOwn(t) BY <2>3 DEF NotOwn
  <2>8. t.refs = N(h) + N(NotOwn(t)) BY <2>3, <2>7 DEF N
  <2> QED BY <2>3, <2>5, <2>6, <2>8
<1>8. CASE n.req = "none" /\ n.subscribed /\ t = Not!Unsent(u, TRUE)
  <2>1. /\ t \in Not!Notifier /\ t.refs = n.refs /\ t.req = "none"
        /\ t.terminated /\ t.termsent /\ t.failed
    BY <1>1, <1>8, NotUnsentFields
  <2>2. NotCore(t, m, a, g, p) BY <1>8, <2>1 DEF NotCore
  <2>3. NotKnown(t, m, g, p) BY <2>1 DEF NotKnown
  <2>4. ~NotOwn(t) BY <2>1 DEF NotOwn
  <2>5. t.refs = N(h) + N(NotOwn(t)) BY <2>1, <2>4 DEF N
  <2> QED BY <2>1, <2>2, <2>3, <2>5
<1>9. CASE n.req = "none" /\ ~n.subscribed /\ t = u
  <2>1. NotCore(t, m, a, g, p) BY <1>1, <1>5, <1>9 DEF NotCore
  <2>2. NotKnown(t, m, g, p) BY <1>1, <1>9 DEF NotKnown
  <2>3. ~NotOwn(t) BY <1>1, <1>9 DEF NotOwn
  <2>4. t.refs = N(h) + N(NotOwn(t)) BY <1>1, <1>9, <2>3 DEF N
  <2> QED BY <1>1, <1>9, <2>1, <2>2, <2>4
<1> QED BY <1>1, <1>2, <1>4, <1>6, <1>7, <1>8, <1>9

(* A notifier that is freed *)
LEMMA NotFreedFields ==
  /\ Not!Freed \in Not!Notifier
  /\ Not!Freed.refs = 0 /\ Not!Freed.req = "none" /\ ~Not!Freed.expires /\ ~Not!Freed.subscribed
  /\ Not!Freed.terminated /\ ~Not!Freed.termsent /\ ~Not!Freed.failed /\ ~Not!Freed.notify_pending
<1>1. NoLoop \in [last : Not!NotifyAnswer \cup {"none"}, failc : 0 .. MaxLoop]
  BY NotConstants DEF NoLoop
<1>2. 0 \in Not!Version BY NotConstants DEF Not!Version
<1>3. Not!NoLoop = NoLoop BY DEF Not!NoLoop, NoLoop
<1>4. Not!Freed \in Not!Notifier
  BY <1>1, <1>2, <1>3 DEF Not!Freed, Not!Notifier
<1> QED BY <1>4 DEF Not!Freed

(* A notifier that is freed is good. *)
LEMMA NotFreedGood ==
  ASSUME NEW b \in BOOLEAN, NEW m, NEW g, NEW p, NEW c \in 0 .. 1, NEW f \in BOOLEAN,
         ~b => p = "ended", ~(f /\ c = 1)
  PROVE  NotGood([Not!Freed EXCEPT !.failed = b], m, "none", g, p, FALSE, c, f)
<1> DEFINE z == [Not!Freed EXCEPT !.failed = b]
<1>1. /\ z \in Not!Notifier /\ z.refs = 0 /\ z.req = "none" /\ z.terminated /\ ~z.termsent
      /\ z.failed = b
  BY NotFreedFields DEF Not!Notifier
<1> HIDE DEF z
<1>2. NotCore(z, m, "none", g, p) BY <1>1 DEF NotCore
<1>3. NotHeld(z, FALSE, c, f) BY <1>1 DEF NotHeld, NotOwn, N
<1>4. (z.refs > 0 => NotKnown(z, m, g, p)) /\ (~z.failed => p = "ended") /\ z \in Not!Notifier
  BY <1>1
<1> QED BY <1>2, <1>3, <1>4, Zenon DEF NotGood, z

(* The own reference of the object is given back. *)
LEMMA NotDerefOwn ==
  ASSUME NEW n \in Not!Notifier, NEW g, NEW p, NEW h \in BOOLEAN, NEW c \in 0 .. 1,
         NEW f \in BOOLEAN, n.terminated, n.req = "none", n.refs = 1 + N(h),
         ~n.failed => p = "ended" /\ n.subscribed /\ n.termsent /\ (n.expires => g = mb),
         ~(f /\ c = 1), h => f \/ c = 1,
         NEW t \in Not!mem_deref(n)
  PROVE  NotGood(t, mb, "none", g, p, h, c, f)
<1>1. CASE h
  <2> DEFINE d == [n EXCEPT !.refs = @ - 1]
  <2>0. n.refs = 2 BY <1>1 DEF N
  <2>1. /\ d \in Not!Notifier /\ d.refs = 1 /\ d.req = n.req /\ d.sent = n.sent
        /\ d.expires = n.expires /\ d.subscribed = n.subscribed /\ d.termsent = n.termsent
        /\ d.failed = n.failed /\ d.ls = n.ls /\ d.terminated = n.terminated
    <3>1. d = [n EXCEPT !.refs = 1] BY <2>0 DEF Not!Notifier
    <3>2. d \in Not!Notifier BY <3>1 DEF Not!Notifier
    <3> QED BY <3>1, <3>2 DEF Not!Notifier
  <2>2. t = d BY <2>0 DEF Not!mem_deref
  <2> HIDE DEF d
  <2>3. NotCore(d, mb, "none", g, p) BY <2>1 DEF NotCore
  <2>4. NotKnown(d, mb, g, p) BY <2>1 DEF NotKnown
  <2>5. NotHeld(d, h, c, f) BY <1>1, <2>1 DEF NotHeld, NotOwn, N
  <2>6. d.refs > 0 BY <2>1
  <2> QED BY <2>1, <2>2, <2>3, <2>4, <2>5, <2>6 DEF NotGood
<1>2. CASE ~h
  <2> DEFINE d == [n EXCEPT !.refs = 0, !.tmr = FALSE]
  <2>1. d.refs = 0 /\ d.failed = n.failed /\ n.refs = 1 /\ n.failed \in BOOLEAN /\ d.terminated
    BY <1>2 DEF Not!Notifier, N
  <2>2. t = [Not!Freed EXCEPT !.failed = n.failed]
    <3>1. PICK v \in (IF d.terminated THEN {d} ELSE Not!terminate(d, mb)) :
             t = IF v.refs = 0 THEN [Not!Freed EXCEPT !.failed = v.failed] ELSE v
      <4>1. ~(n.refs > 1) BY <2>1
      <4> QED BY <4>1 DEF Not!mem_deref
    <3> HIDE DEF d
    <3> QED BY <2>1, <3>1
  <2>3. NotGood([Not!Freed EXCEPT !.failed = n.failed], mb, "none", g, p, FALSE, c, f)
    <3>1. n.failed \in BOOLEAN /\ (~n.failed => p = "ended") BY <2>1
    <3> QED BY <3>1, NotFreedGood
  <2>4. h = FALSE BY <1>2
  <2> QED BY <2>2, <2>3, <2>4, Zenon
<1> QED BY <1>1, <1>2

(* The application releases the object. *)
LEMMA NotDerefApp ==
  ASSUME NEW n, NEW a, NEW g, NEW p, NEW c, NEW f, mb \in Not!Version,
         NotGood(n, mb, a, g, p, TRUE, c, f),
         NEW t \in Not!mem_deref(n)
  PROVE  NotGood(t, mb, a, g, p, FALSE, c, f)
<1>0. /\ n \in Not!Notifier /\ c \in 0 .. 1 /\ f \in BOOLEAN
      /\ NotCore(n, mb, a, g, p) /\ NotHeld(n, TRUE, c, f)
      /\ n.refs > 0 => NotKnown(n, mb, g, p)
  BY DEF NotGood
<1>9. n.refs \in {1, 2} /\ n.refs # 0 /\ NotKnown(n, mb, g, p) /\ n.refs = 1 + N(NotOwn(n)) BY <1>0 DEF NotHeld, N
<1>1. CASE n.refs = 2
  <2> DEFINE d == [n EXCEPT !.refs = @ - 1]
  <2>1. /\ d \in Not!Notifier /\ d.refs = 1 /\ d.req = n.req /\ d.sent = n.sent
        /\ d.expires = n.expires /\ d.subscribed = n.subscribed /\ d.termsent = n.termsent
        /\ d.failed = n.failed /\ d.ls = n.ls /\ d.terminated = n.terminated
        /\ d.notify_pending = n.notify_pending
    <3>1. d = [n EXCEPT !.refs = 1] BY <1>0, <1>1 DEF Not!Notifier
    <3>2. d \in Not!Notifier BY <1>0, <3>1 DEF Not!Notifier
    <3> QED BY <1>0, <3>1, <3>2 DEF Not!Notifier
  <2>2. t = d BY <1>1 DEF Not!mem_deref
  <2> HIDE DEF d
  <2>3. NotCore(d, mb, a, g, p) BY <1>0, <2>1 DEF NotCore
  <2>4. NotKnown(d, mb, g, p) BY <1>9, <2>1 DEF NotKnown
  <2>5. NotOwn(n) BY <1>1, <1>9 DEF N
  <2>6. NotHeld(d, FALSE, c, f) BY <1>0, <2>1, <2>5 DEF NotHeld, NotOwn, N
  <2>7. d.refs > 0 BY <2>1
  <2>8. d \in Not!Notifier /\ d.refs # 0 BY <2>1
  <2> QED BY <1>0, <2>2, <2>3, <2>4, <2>6, <2>8, Zenon DEF NotGood
<1>2. CASE n.refs = 1
  <2> DEFINE d == [n EXCEPT !.refs = 0, !.tmr = FALSE]
  <2>0. n.terminated => n.req = "none"
    BY <1>2, <1>9 DEF NotOwn, N
  <2>1. /\ d \in Not!Notifier /\ d.refs = 0 /\ d.req = n.req /\ d.sent = n.sent
        /\ d.expires = n.expires /\ d.subscribed = n.subscribed /\ d.termsent = n.termsent
        /\ d.failed = n.failed /\ d.ls = n.ls /\ d.terminated = n.terminated
        /\ d.notify_pending = n.notify_pending
    <3> DEFINE e == [n EXCEPT !.refs = 0]
    <3>1. /\ e \in Not!Notifier /\ e.refs = 0 /\ e.req = n.req /\ e.sent = n.sent
        /\ e.expires = n.expires /\ e.subscribed = n.subscribed /\ e.termsent = n.termsent
        /\ e.failed = n.failed /\ e.ls = n.ls /\ e.terminated = n.terminated
        /\ e.notify_pending = n.notify_pending
      BY <1>0 DEF Not!Notifier
    <3>2. d = [e EXCEPT !.tmr = FALSE] BY <1>0 DEF Not!Notifier
    <3> HIDE DEF d, e
    <3> QED BY <3>1, <3>2 DEF Not!Notifier
  <2>2. PICK v \in (IF d.terminated THEN {d} ELSE Not!terminate(d, mb)) :
           t = IF v.refs = 0 THEN [Not!Freed EXCEPT !.failed = v.failed] ELSE v
    BY <1>2 DEF Not!mem_deref
  <2> HIDE DEF d
  <2>3. NotCore(d, mb, a, g, p) BY <1>0, <2>1 DEF NotCore
  <2>4. NotKnown(d, mb, g, p) BY <1>9, <2>1 DEF NotKnown
  <2>5. /\ v \in Not!Notifier /\ v.terminated /\ NotCore(v, mb, a, g, p) /\ NotKnown(v, mb, g, p)
        /\ v.refs = N(NotOwn(v))
    <3>1. CASE n.terminated
      BY <2>0, <2>1, <2>2, <2>3, <2>4, <3>1 DEF NotOwn, N
    <3>2. CASE ~n.terminated
      <4>1. d.refs = N(FALSE) /\ ~d.terminated /\ v \in Not!terminate(d, mb)
        BY <2>1, <2>2, <3>2 DEF N
      <4>2. d.subscribed \/ d.failed BY <2>4 DEF NotKnown
      <4>3. /\ v.refs = N(FALSE) + N(NotOwn(v)) /\ v \in Not!Notifier /\ v.terminated
            /\ NotCore(v, mb, a, g, p) /\ NotKnown(v, mb, g, p)
        BY <2>1, <2>3, <4>1, <4>2, NotTerminateGood
      <4> QED BY <4>3 DEF N
    <3> QED BY <3>1, <3>2
  <2>6. CASE v.refs = 0
    <3>1. v.req = "none" /\ v.failed \in BOOLEAN BY <2>5, <2>6 DEF NotOwn, N, Not!Notifier
    <3>2. a = "none" /\ (~v.failed => p = "ended")
      BY <2>5, <3>1 DEF NotCore, NotKnown
    <3>3. ~(f /\ c = 1) BY <1>0 DEF NotHeld
    <3>4. NotGood([Not!Freed EXCEPT !.failed = v.failed], mb, "none", g, p, FALSE, c, f)
      BY <1>0, <3>1, <3>2, <3>3, NotFreedGood
    <3> QED BY <2>2, <2>6, <3>2, <3>4, Zenon
  <2>7. CASE v.refs # 0
    <3>1. NotHeld(v, FALSE, c, f) BY <1>0, <2>5 DEF NotHeld, NotOwn, N
    <3>2. t = v BY <2>2, <2>7
    <3> QED BY <1>0, <2>5, <2>7, <3>1, <3>2, Zenon DEF NotGood
  <2> QED BY <2>6, <2>7
<1> QED BY <1>1, <1>2, <1>9

(* sipnot_terminate *)
LEMMA NotTerminated ==
  ASSUME NEW n \in Not!Notifier, NEW m0, NEW a, NEW g, NEW p, mb \in Not!Version,
         ~n.terminated, NotCore(n, m0, a, g, p), n.subscribed \/ n.failed, n.refs = 1,
         notApp = TRUE, notClosed = 0, self = FALSE, Not!sipnot_terminate(n)
  PROVE  NotGood(not', mb, a, g, p, notApp', notClosed', self)
<1> DEFINE d == [n EXCEPT !.tmr = FALSE]
<1>1. /\ d \in Not!Notifier /\ d.refs = n.refs /\ d.req = n.req /\ d.sent = n.sent
        /\ d.expires = n.expires /\ d.subscribed = n.subscribed /\ d.termsent = n.termsent
        /\ d.failed = n.failed /\ d.ls = n.ls /\ d.terminated = n.terminated
  BY DEF Not!Notifier
<1>2. PICK t \in Not!terminate(d, mb) :
        /\ notClosed' = notClosed + 1
        /\ \/ not' = t /\ UNCHANGED notApp
           \/ notApp /\ notApp' = FALSE /\ not' \in Not!mem_deref(t)
  BY DEF Not!sipnot_terminate
<1> HIDE DEF d
<1>3. NotCore(d, m0, a, g, p) BY <1>1 DEF NotCore
<1>4. /\ t \in Not!Notifier /\ t.terminated
      /\ NotCore(t, mb, a, g, p) /\ NotKnown(t, mb, g, p) /\ t.refs = N(TRUE) + N(NotOwn(t))
  BY <1>1, <1>3, NotTerminateGood DEF N
<1>5. NotGood(t, mb, a, g, p, TRUE, 1, FALSE)
  <2>1. NotHeld(t, TRUE, 1, FALSE) BY <1>4 DEF NotHeld
  <2>2. t.refs # 0 BY <1>4 DEF N
  <2>3. 1 \in 0 .. 1 OBVIOUS
  <2> QED BY <1>4, <2>1, <2>2, <2>3, Zenon DEF NotGood
<1>6. \A v \in Not!mem_deref(t) : NotGood(v, mb, a, g, p, FALSE, 1, FALSE)
  BY <1>5, NotDerefApp
<1>7. CASE not' = t /\ UNCHANGED notApp
  <2>1. not' = t /\ notApp' = TRUE /\ notClosed' = 1 BY <1>2, <1>7
  <2> QED BY <1>5, <2>1, Zenon
<1>8. CASE notApp' = FALSE /\ not' \in Not!mem_deref(t)
  <2>1. notApp' = FALSE /\ notClosed' = 1 BY <1>2, <1>8
  <2> QED BY <1>6, <1>8, <2>1, Zenon
<1> QED BY <1>2, <1>7, <1>8

(* A NOTIFY is sent, or cannot be, while none is under way. *)
LEMMA NotSentGood ==
  ASSUME NEW n \in Not!Notifier, NEW b \in BOOLEAN, NEW m \in Not!Version, NEW g, NEW p,
         NEW h \in BOOLEAN, NEW c \in 0 .. 1, NEW f \in BOOLEAN,
         n.termsent => n.terminated, n.subscribed \/ n.failed,
         ~b => n.ls.failc < MaxLoop,
         n.refs = N(h) + N(n.terminated), ~h => n.terminated,
         ~(f /\ c = 1), h => (n.terminated <=> f \/ c = 1)
  PROVE  NotGood(Not!Sent(n, b, m), m, "none", g, p, h, c, f)
<1> DEFINE w == Not!Sent(n, b, m)
<1>1. /\ w \in Not!Notifier /\ w.refs = n.refs /\ w.sent = m
      /\ n.terminated => w.req = "final"
      /\ ~n.terminated => w.req = "active"
      /\ w.subscribed = n.subscribed /\ w.terminated = n.terminated
      /\ w.termsent <=> n.termsent \/ n.terminated
      /\ w.failed = n.failed
      /\ w.ls.failc = IF b THEN 0 ELSE n.ls.failc
  BY NotSentFields
<1> HIDE DEF w
<1>2. w.ls.failc < MaxLoop BY <1>1, NotConstants
<1>3. NotCore(w, m, "none", g, p) BY <1>1, <1>2 DEF NotCore
<1>4. NotKnown(w, m, g, p) BY <1>1 DEF NotKnown
<1>5. NotOwn(w) <=> n.terminated BY <1>1 DEF NotOwn
<1>6. NotHeld(w, h, c, f) BY <1>1, <1>5 DEF NotHeld, N
<1>7. w.refs > 0 BY <1>1 DEF N
<1>8. NotGood(w, m, "none", g, p, h, c, f) BY <1>1, <1>3, <1>4, <1>6, <1>7 DEF NotGood
<1> QED BY <1>8, Zenon DEF w

(* The end of response_handler *)
LEMMA NotOutGood ==
  ASSUME NEW n, NEW g, NEW p, mb \in Not!Version,
         NotReady(n, mb, g, p, notApp, notClosed, self), Not!Out(n)
  PROVE  NotGood(not', mb, "none", g, p, notApp', notClosed', self)
<1>0. /\ n \in Not!Notifier /\ n.req = "none" /\ (n.termsent => n.terminated)
      /\ notApp \in BOOLEAN /\ notClosed \in 0 .. 1 /\ self \in BOOLEAN
      /\ n.subscribed \/ n.failed
      /\ ~n.failed /\ n.termsent => p = "ended" /\ (n.expires => g = mb)
      /\ ~n.failed /\ ~n.terminated /\ n.expires => g = mb \/ n.notify_pending
      /\ n.refs = N(notApp) + N(n.terminated)
      /\ ~notApp => n.terminated
      /\ ~(self /\ notClosed = 1)
      /\ notApp => (n.terminated <=> self \/ notClosed = 1)
  BY DEF NotReady
<1>1. \/ n.termsent /\ Not!Deref(n)
      \/ ~n.termsent /\ n.terminated /\ ~n.subscribed /\ Not!Deref(n)
      \/ n.terminated /\ Not!Set(Not!Sent(n, TRUE, mb))
      \/ n.terminated /\ Not!Deref(Not!Unsent(n, TRUE))
      \/ ~n.terminated /\ Not!sipnot_terminate(n)
      \/ ~n.terminated /\ n.subscribed /\ Not!Set(Not!Sent(n, TRUE, mb))
      \/ ~n.terminated /\ Not!Set(Not!Unsent(n, TRUE))
      \/ ~n.terminated /\ n.subscribed /\ ~n.notify_pending /\ Not!Set(n)
  BY <1>0, Zenon DEF Not!Out
<1>2. CASE n.terminated /\ (n.termsent \/ ~n.subscribed) /\ Not!Deref(n)
  <2>1. not' \in Not!mem_deref(n) /\ notApp' = notApp /\ notClosed' = notClosed
    BY <1>2 DEF Not!Deref
  <2>2. n.refs = 1 + N(notApp) BY <1>0, <1>2 DEF N
  <2>3. ~n.failed => p = "ended" /\ n.subscribed /\ n.termsent /\ (n.expires => g = mb)
    BY <1>0, <1>2
  <2>4. notApp => self \/ notClosed = 1 BY <1>0, <1>2
  <2>5. NotGood(not', mb, "none", g, p, notApp, notClosed, self)
    BY <1>0, <1>2, <2>1, <2>2, <2>3, <2>4, NotDerefOwn
  <2> QED BY <2>1, <2>5, Zenon
<1>3. CASE Not!Set(Not!Sent(n, TRUE, mb))
  <2>1. not' = Not!Sent(n, TRUE, mb) /\ notApp' = notApp /\ notClosed' = notClosed
    BY <1>3 DEF Not!Set
  <2>2. NotGood(Not!Sent(n, TRUE, mb), mb, "none", g, p, notApp, notClosed, self)
    BY <1>0, NotSentGood
  <2> QED BY <2>1, <2>2, Zenon
<1>4. CASE n.terminated /\ Not!Deref(Not!Unsent(n, TRUE))
  <2> DEFINE w == Not!Unsent(n, TRUE)
  <2>1. w \in Not!Notifier /\ w.refs = n.refs /\ w.req = "none" /\ w.terminated /\ w.failed
    BY <1>0, <1>4, NotUnsentFields
  <2>2. not' \in Not!mem_deref(w) /\ notApp' = notApp /\ notClosed' = notClosed
    BY <1>4 DEF Not!Deref
  <2> HIDE DEF w
  <2>3. w.refs = 1 + N(notApp) BY <1>0, <1>4, <2>1 DEF N
  <2>4. notApp => self \/ notClosed = 1 BY <1>0, <1>4
  <2>5. NotGood(not', mb, "none", g, p, notApp, notClosed, self)
    BY <1>0, <2>1, <2>2, <2>3, <2>4, NotDerefOwn
  <2> QED BY <2>2, <2>5, Zenon
<1>5. CASE ~n.terminated /\ Not!sipnot_terminate(n)
  <2>1. notApp = TRUE /\ notClosed = 0 /\ self = FALSE /\ n.refs = 1
    BY <1>0, <1>5 DEF N
  <2>2. NotCore(n, mb, "none", g, p) BY <1>0, <1>5 DEF NotCore
  <2> QED BY <1>0, <1>5, <2>1, <2>2, NotTerminated
<1>6. CASE ~n.terminated /\ Not!Set(Not!Unsent(n, TRUE))
  <2> DEFINE w == Not!Unsent(n, TRUE)
  <2>1. /\ w \in Not!Notifier /\ w.refs = n.refs /\ w.req = "none" /\ ~w.terminated /\ w.failed
        /\ ~w.termsent
    BY <1>0, <1>6, NotUnsentFields
  <2>2. not' = w /\ notApp' = notApp /\ notClosed' = notClosed
    BY <1>6 DEF Not!Set
  <2> HIDE DEF w
  <2>3. NotCore(w, mb, "none", g, p) BY <2>1 DEF NotCore
  <2>4. NotKnown(w, mb, g, p) BY <2>1 DEF NotKnown
  <2>5. ~NotOwn(w) BY <2>1 DEF NotOwn
  <2>6. NotHeld(w, notApp, notClosed, self) BY <1>0, <1>6, <2>1, <2>5 DEF NotHeld, N
  <2>7. NotGood(w, mb, "none", g, p, notApp, notClosed, self)
    BY <1>0, <2>1, <2>3, <2>4, <2>6, Zenon DEF NotGood
  <2> QED BY <2>2, <2>7, Zenon
<1>7. CASE ~n.terminated /\ n.subscribed /\ ~n.notify_pending /\ Not!Set(n)
  <2>1. not' = n /\ notApp' = notApp /\ notClosed' = notClosed BY <1>7 DEF Not!Set
  <2>2. NotCore(n, mb, "none", g, p) BY <1>0, <1>7 DEF NotCore
  <2>3. NotKnown(n, mb, g, p) BY <1>0, <1>7 DEF NotKnown
  <2>4. ~NotOwn(n) BY <1>7 DEF NotOwn
  <2>5. NotHeld(n, notApp, notClosed, self) BY <1>0, <1>7, <2>4 DEF NotHeld, N
  <2>6. n.refs # 0 BY <1>0, <1>7 DEF N
  <2>7. NotGood(n, mb, "none", g, p, notApp, notClosed, self)
    BY <1>0, <2>2, <2>3, <2>5, <2>6, Zenon DEF NotGood
  <2> QED BY <2>1, <2>7, Zenon
<1> QED BY <1>0, <1>1, <1>2, <1>3, <1>4, <1>5, <1>6, <1>7

(* An answer to a NOTIFY *)
LEMMA NotResponse == NotInv /\ Not!Response => NotInv'
<1> SUFFICES ASSUME NotInv, Not!Response PROVE NotInv'
  OBVIOUS
<1>0. /\ not \in Not!Notifier /\ notApp \in BOOLEAN /\ notClosed \in 0 .. 1 /\ self \in BOOLEAN
      /\ mb \in Not!Version /\ got \in Not!Version
      /\ notAns \in Not!NotifyAnswer \cup {"none"} /\ notAns # "none" /\ not.req # "none"
      /\ notPeer \in {"on", "ended"}
      /\ NotCore(not, mb, notAns, got, notPeer) /\ NotHeld(not, notApp, notClosed, self)
      /\ not.refs > 0 => NotKnown(not, mb, got, notPeer)
      /\ notAns' = "none" /\ mb' = mb /\ got' = got /\ notPeer' = notPeer /\ self' = self
  BY DEF NotInv, NotGood, Not!Response
<1>1. SUFFICES NotGood(not', mb, "none", got, notPeer, notApp', notClosed', self)
  <2>1. NotGood(not', mb', notAns', got', notPeer', notApp', notClosed', self')
    BY <1>0, <1>1, Zenon
  <2> QED BY <1>0, <2>1 DEF NotInv
<1>2. NotOwn(not) <=> not.terminated BY <1>0 DEF NotOwn
<1>3. /\ not.refs = N(notApp) + N(not.terminated)
      /\ ~notApp => not.terminated
      /\ ~(self /\ notClosed = 1)
      /\ notApp => (not.terminated <=> self \/ notClosed = 1)
  BY <1>0, <1>2 DEF NotHeld, N
<1>4. NotKnown(not, mb, got, notPeer) BY <1>0, <1>3 DEF N
<1>5. /\ not.ls.failc < MaxLoop /\ (not.termsent => not.terminated)
      /\ not.subscribed \/ not.failed
      /\ not.failed \in BOOLEAN /\ not.ls.failc \in Nat
  BY <1>0, <1>4 DEF NotCore, NotKnown, Not!Notifier
<1> DEFINE F == not.failed \/ notAns \notin {"2xx", "401"}
           n == [not EXCEPT !.req = "none", !.failed = F]
           L == Not!LoopState(n.ls, notAns)
           l == [n EXCEPT !.ls = L]
           off == [l EXCEPT !.subscribed = FALSE, !.failed = TRUE]
           t == [n EXCEPT !.subscribed = FALSE]
           u == Not!Unsent(l, FALSE)
           v == [u EXCEPT !.subscribed = FALSE]
<1>6. \/ notAns = "timeout" /\ Not!Out(t)
      \/ notAns = "err" /\ Not!Out(n)
      \/ Not!Out(off)
      \/ notAns = "2xx" /\ Not!Out(l)
      \/ notAns = "401" /\ ~Not!sip_request_loops(n.ls, notAns) /\ Not!Set(Not!Sent(l, FALSE, mb))
      \/ Not!Out(v)
  BY <1>0, Zenon DEF Not!Response
<1>7. F \in BOOLEAN /\ (F <=> not.failed \/ notAns \notin {"2xx", "401"}) BY <1>5
<1> HIDE DEF F
<1>8. /\ n \in Not!Notifier /\ n.refs = not.refs /\ n.req = "none" /\ n.failed = F
      /\ n.expires = not.expires /\ n.notify_pending = not.notify_pending
      /\ n.subscribed = not.subscribed /\ n.terminated = not.terminated
      /\ n.termsent = not.termsent /\ n.ls = not.ls
  BY <1>0, <1>7 DEF Not!Notifier
<1> HIDE DEF n
<1>9. /\ L \in [last : Not!NotifyAnswer \cup {"none"}, failc : 0 .. MaxLoop]
      /\ notAns # "2xx" /\ ~Not!sip_request_loops(n.ls, notAns) => L.failc < MaxLoop
  <2>1. L = [last |-> notAns, failc |-> IF notAns = "2xx" THEN 0 ELSE not.ls.failc + 1]
    BY <1>8 DEF Not!LoopState
  <2>2. (IF notAns = "2xx" THEN 0 ELSE not.ls.failc + 1) \in 0 .. MaxLoop
    BY <1>5, NotConstants
  <2>3. L.failc = IF notAns = "2xx" THEN 0 ELSE not.ls.failc + 1 BY <2>1
  <2>4. notAns # "2xx" /\ ~Not!sip_request_loops(n.ls, notAns) => L.failc < MaxLoop
    BY <1>5, <1>8, <2>3, NotConstants DEF Not!sip_request_loops
  <2> QED BY <1>0, <2>1, <2>2, <2>4
<1> HIDE DEF L
<1>10. /\ l \in Not!Notifier /\ l.refs = not.refs /\ l.req = "none" /\ l.failed = F
      /\ l.expires = not.expires /\ l.notify_pending = not.notify_pending
      /\ l.subscribed = not.subscribed /\ l.terminated = not.terminated
      /\ l.termsent = not.termsent /\ l.ls = L
  <2>1. l \in Not!Notifier BY <1>8, <1>9 DEF Not!Notifier
  <2> QED BY <1>8, <2>1 DEF Not!Notifier
<1> HIDE DEF l
<1>11. /\ off \in Not!Notifier /\ off.refs = not.refs /\ off.req = "none" /\ off.failed
      /\ off.terminated = not.terminated /\ off.termsent = not.termsent
  BY <1>10 DEF Not!Notifier
<1>12. /\ t \in Not!Notifier /\ t.refs = not.refs /\ t.req = "none" /\ t.failed = F
      /\ t.terminated = not.terminated /\ t.termsent = not.termsent
  BY <1>8 DEF Not!Notifier
<1>13. /\ u \in Not!Notifier /\ u.refs = not.refs /\ u.req = "none" /\ u.failed
      /\ u.terminated = not.terminated /\ (u.termsent => not.terminated)
  BY <1>5, <1>10, NotUnsentFields
<1> HIDE DEF u
<1>14. /\ v \in Not!Notifier /\ v.refs = not.refs /\ v.req = "none" /\ v.failed
      /\ v.terminated = not.terminated /\ (v.termsent => not.terminated)
  BY <1>13 DEF Not!Notifier
<1> HIDE DEF off, t, v
<1>15. \A x \in Not!Notifier :
         /\ x.refs = not.refs /\ x.req = "none" /\ x.failed
         /\ x.terminated = not.terminated /\ (x.termsent => not.terminated)
         => NotReady(x, mb, got, notPeer, notApp, notClosed, self)
  BY <1>0, <1>3 DEF NotReady
<1>16. CASE notAns = "timeout" /\ Not!Out(t)
  <2>1. NotReady(t, mb, got, notPeer, notApp, notClosed, self) BY <1>5, <1>7, <1>12, <1>15, <1>16
  <2> QED BY <1>0, <1>16, <2>1, NotOutGood
<1>17. CASE notAns = "err" /\ Not!Out(n)
  <2>1. NotReady(n, mb, got, notPeer, notApp, notClosed, self) BY <1>5, <1>7, <1>8, <1>15, <1>17
  <2> QED BY <1>0, <1>17, <2>1, NotOutGood
<1>18. CASE Not!Out(off)
  <2>1. NotReady(off, mb, got, notPeer, notApp, notClosed, self) BY <1>5, <1>11, <1>15
  <2> QED BY <1>0, <1>18, <2>1, NotOutGood
<1>19. CASE Not!Out(v)
  <2>1. NotReady(v, mb, got, notPeer, notApp, notClosed, self) BY <1>5, <1>14, <1>15
  <2> QED BY <1>0, <1>19, <2>1, NotOutGood
<1>20. CASE notAns = "2xx" /\ Not!Out(l)
  <2>1. not.req \in {"active", "final"} BY <1>0 DEF Not!Notifier
  <2>2. ~not.failed /\ not.termsent => notPeer = "ended" /\ got = mb
    BY <1>0, <1>20, <2>1 DEF NotCore
  <2>3. ~not.failed /\ ~not.terminated /\ not.expires => got = mb \/ not.notify_pending
    BY <1>0, <1>4, <1>20, <2>1 DEF NotCore, NotKnown
  <2>4. ~l.failed => ~not.failed BY <1>7, <1>10
  <2>5. NotReady(l, mb, got, notPeer, notApp, notClosed, self)
    BY <1>0, <1>3, <1>5, <1>10, <2>2, <2>3, <2>4 DEF NotReady
  <2> QED BY <1>0, <1>20, <2>5, NotOutGood
<1>21. CASE notAns = "401" /\ ~Not!sip_request_loops(n.ls, notAns) /\ Not!Set(Not!Sent(l, FALSE, mb))
  <2>1. not' = Not!Sent(l, FALSE, mb) /\ notApp' = notApp /\ notClosed' = notClosed
    BY <1>21 DEF Not!Set
  <2>2. l.ls.failc < MaxLoop /\ (l.subscribed \/ l.failed) BY <1>5, <1>7, <1>9, <1>10, <1>21
  <2>3. NotGood(Not!Sent(l, FALSE, mb), mb, "none", got, notPeer, notApp, notClosed, self)
    BY <1>0, <1>3, <1>5, <1>10, <2>2, NotSentGood
  <2> QED BY <2>1, <2>3, Zenon
<1> QED BY <1>6, <1>16, <1>17, <1>18, <1>19, <1>20, <1>21

(* What the other actions start from *)
LEMMA NotInvParts ==
  NotInv =>
    /\ not \in Not!Notifier /\ notApp \in BOOLEAN /\ notClosed \in 0 .. 1 /\ self \in BOOLEAN
    /\ mb \in Not!Version /\ got \in Not!Version
    /\ notAns \in Not!NotifyAnswer \cup {"none"} /\ notPeer \in {"on", "ended"}
    /\ NotCore(not, mb, notAns, got, notPeer) /\ NotHeld(not, notApp, notClosed, self)
    /\ not.refs > 0 => NotKnown(not, mb, got, notPeer)
    /\ ~not.terminated =>
         /\ notApp = TRUE /\ notClosed = 0 /\ self = FALSE /\ not.refs = 1
         /\ not.subscribed \/ not.failed
<1> SUFFICES ASSUME NotInv, ~not.terminated
             PROVE  /\ notApp = TRUE /\ notClosed = 0 /\ self = FALSE /\ not.refs = 1
                    /\ not.subscribed \/ not.failed
  BY DEF NotInv, NotGood
<1>1. notApp = TRUE /\ notClosed = 0 /\ self = FALSE BY DEF NotInv, NotGood, NotHeld
<1>2. ~NotOwn(not) BY DEF NotOwn
<1>3. not.refs = 1 BY <1>1, <1>2 DEF NotInv, NotGood, NotHeld, N
<1>4. NotKnown(not, mb, got, notPeer) BY <1>3 DEF NotInv, NotGood
<1> QED BY <1>1, <1>3, <1>4 DEF NotKnown

(* The state is notified. *)
LEMMA NotNotified ==
  ASSUME NEW n \in Not!Notifier, NEW m0, NEW m \in Not!Version, NEW a, NEW g, NEW p,
         ~n.terminated, NotCore(n, m0, a, g, p), n.subscribed \/ n.failed, n.refs = 1,
         NEW t \in Not!sipnot_notify(n, m)
  PROVE  NotGood(t, m, a, g, p, TRUE, 0, FALSE)
<1>0. n.expires \in BOOLEAN /\ n.req # "final" /\ n.req \in {"none", "active", "final"} /\ ~n.termsent
  BY DEF Not!Notifier, NotCore
<1> DEFINE e == [n EXCEPT !.notify_pending = TRUE]
<1>1. \/ ~n.expires /\ t = n
      \/ n.expires /\ n.req # "none" /\ t = e
      \/ n.req = "none" /\ t = Not!Sent(n, TRUE, m)
      \/ n.req = "none" /\ t = Not!Unsent(n, TRUE)
  BY <1>0 DEF Not!sipnot_notify
<1>2. /\ e \in Not!Notifier /\ e.refs = n.refs /\ e.req = n.req /\ e.sent = n.sent
      /\ e.subscribed = n.subscribed /\ e.terminated = n.terminated /\ e.notify_pending
      /\ e.termsent = n.termsent /\ e.ls = n.ls /\ e.failed = n.failed
  BY DEF Not!Notifier
<1> HIDE DEF e
<1>3. \A x : ~x.terminated /\ x.refs = 1 => NotHeld(x, TRUE, 0, FALSE)
  BY DEF NotHeld, NotOwn, N
<1>4. CASE ~n.expires /\ t = n
  <2>1. NotCore(t, m, a, g, p) BY <1>0, <1>4 DEF NotCore
  <2>2. NotKnown(t, m, g, p) BY <1>4 DEF NotKnown
  <2>3. 0 \in 0 .. 1 /\ t \in Not!Notifier /\ t.refs # 0 BY <1>4
  <2>4. NotHeld(t, TRUE, 0, FALSE) BY <1>3, <1>4
  <2> QED BY <2>1, <2>2, <2>3, <2>4, Zenon DEF NotGood
<1>5. CASE n.expires /\ n.req # "none" /\ t = e
  <2>1. NotCore(t, m, a, g, p) BY <1>0, <1>2, <1>5 DEF NotCore
  <2>2. NotKnown(t, m, g, p) BY <1>2, <1>5 DEF NotKnown
  <2>3. 0 \in 0 .. 1 /\ t \in Not!Notifier /\ t.refs # 0 BY <1>2, <1>5
  <2>4. NotHeld(t, TRUE, 0, FALSE) BY <1>2, <1>3, <1>5
  <2> QED BY <2>1, <2>2, <2>3, <2>4, Zenon DEF NotGood
<1>6. CASE n.req = "none" /\ t = Not!Sent(n, TRUE, m)
  <2>1. PICK h \in BOOLEAN : h = TRUE OBVIOUS
  <2>2. PICK c \in 0 .. 1 : c = 0 OBVIOUS
  <2>3. PICK f \in BOOLEAN : f = FALSE OBVIOUS
  <2>4. n.refs = N(h) + N(n.terminated) /\ (~h => n.terminated) /\ ~(f /\ c = 1)
        /\ (h => (n.terminated <=> f \/ c = 1))
    BY <2>1, <2>2, <2>3 DEF N
  <2>5. h \in BOOLEAN /\ c \in 0 .. 1 /\ f \in BOOLEAN /\ (n.termsent => n.terminated) BY <1>0
  <2>6. NotGood(Not!Sent(n, TRUE, m), m, "none", g, p, h, c, f)
    BY <2>4, <2>5, NotSentGood
  <2>7. a = "none" BY <1>6 DEF NotCore
  <2> QED BY <1>6, <2>1, <2>2, <2>3, <2>6, <2>7, Zenon
<1>7. CASE n.req = "none" /\ t = Not!Unsent(n, TRUE)
  <2>1. t \in Not!Notifier /\ t.refs = 1 /\ t.req = "none" /\ ~t.terminated /\ t.failed /\ ~t.termsent
    BY <1>0, <1>7, NotUnsentFields
  <2>2. NotCore(t, m, a, g, p) BY <1>7, <2>1 DEF NotCore
  <2>3. NotKnown(t, m, g, p) BY <2>1 DEF NotKnown
  <2>4. 0 \in 0 .. 1 /\ t.refs # 0 BY <2>1
  <2>5. NotHeld(t, TRUE, 0, FALSE) BY <1>3, <2>1
  <2> QED BY <2>1, <2>2, <2>3, <2>4, <2>5, Zenon DEF NotGood
<1> QED BY <1>1, <1>4, <1>5, <1>6, <1>7

(* sipevent_notify: the application tells of a new state. *)
LEMMA NotNotify == NotInv /\ Not!Notify => NotInv'
<1> SUFFICES ASSUME NotInv, Not!Notify PROVE NotInv'
  OBVIOUS
<1>1. /\ ~not.terminated /\ mb' = mb + 1 /\ mb < MaxVersion /\ not' \in Not!sipnot_notify(not, mb + 1)
      /\ notAns' = notAns /\ got' = got /\ notPeer' = notPeer /\ notApp' = notApp
      /\ notClosed' = notClosed /\ self' = self
  BY DEF Not!Notify
<1>2. mb + 1 \in Not!Version BY <1>1, NotInvParts, NotConstants DEF Not!Version
<1>3. NotGood(not', mb + 1, notAns, got, notPeer, TRUE, 0, FALSE)
  BY <1>1, <1>2, NotInvParts, NotNotified
<1>4. notApp = TRUE /\ notClosed = 0 /\ self = FALSE BY <1>1, NotInvParts
<1>5. NotGood(not', mb', notAns', got', notPeer', notApp', notClosed', self')
  BY <1>1, <1>3, <1>4, Zenon
<1> QED BY <1>1, <1>2, <1>5, NotInvParts DEF NotInv

(* A SUBSCRIBE refreshes or ends the subscription. *)
LEMMA NotSubscribe ==
  ASSUME NEW expires \in BOOLEAN, NotInv, Not!Subscribe(expires)
  PROVE  NotInv'
<1> DEFINE n == [not EXCEPT !.expires = expires, !.tmr = TRUE]
<1>1. /\ ~not.terminated /\ not' \in Not!sipnot_notify(n, mb) /\ mb' = mb
      /\ notAns' = notAns /\ got' = got /\ notPeer' = notPeer /\ notApp' = notApp
      /\ notClosed' = notClosed /\ self' = self
  BY DEF Not!Subscribe
<1>2. /\ n \in Not!Notifier /\ n.refs = not.refs /\ n.req = not.req /\ n.sent = not.sent
      /\ n.subscribed = not.subscribed /\ n.terminated = not.terminated
      /\ n.termsent = not.termsent /\ n.ls = not.ls /\ n.failed = not.failed
  BY NotInvParts DEF Not!Notifier
<1> HIDE DEF n
<1>3. NotCore(n, mb, notAns, got, notPeer) BY <1>2, NotInvParts DEF NotCore
<1>4. NotGood(not', mb, notAns, got, notPeer, TRUE, 0, FALSE)
  BY <1>1, <1>2, <1>3, NotInvParts, NotNotified
<1>5. notApp = TRUE /\ notClosed = 0 /\ self = FALSE BY <1>1, NotInvParts
<1>6. NotGood(not', mb', notAns', got', notPeer', notApp', notClosed', self')
  BY <1>1, <1>4, <1>5, Zenon
<1> QED BY <1>1, <1>6, NotInvParts DEF NotInv

(* The application ends the subscription. *)
LEMMA NotNotifyTerminated == NotInv /\ Not!NotifyTerminated => NotInv'
<1> SUFFICES ASSUME NotInv, Not!NotifyTerminated PROVE NotInv'
  OBVIOUS
<1> DEFINE n == [not EXCEPT !.tmr = FALSE]
<1>1. /\ ~not.terminated /\ not' \in Not!terminate(n, mb') /\ mb' \in Not!Version
      /\ notAns' = notAns /\ got' = got /\ notPeer' = notPeer /\ notApp' = notApp
      /\ notClosed' = notClosed /\ self' = TRUE
  BY DEF Not!NotifyTerminated
<1>2. /\ n \in Not!Notifier /\ n.refs = not.refs /\ n.req = not.req /\ n.sent = not.sent
      /\ n.subscribed = not.subscribed /\ n.terminated = not.terminated
      /\ n.termsent = not.termsent /\ n.ls = not.ls /\ n.failed = not.failed
  BY NotInvParts DEF Not!Notifier
<1> HIDE DEF n
<1>3. NotCore(n, mb, notAns, got, notPeer) BY <1>2, NotInvParts DEF NotCore
<1>4. notApp = TRUE /\ notClosed = 0 /\ self = FALSE /\ not.refs = 1 /\ (not.subscribed \/ not.failed)
  BY <1>1, NotInvParts
<1>5. n.refs = N(notApp) /\ notApp \in BOOLEAN BY <1>2, <1>4 DEF N
<1>6. /\ not' \in Not!Notifier /\ not'.terminated
      /\ NotCore(not', mb', notAns, got, notPeer) /\ NotKnown(not', mb', got, notPeer)
      /\ not'.refs = N(notApp) + N(NotOwn(not'))
  BY <1>1, <1>2, <1>3, <1>4, <1>5, NotTerminateGood
<1>7. NotHeld(not', notApp', notClosed', self') BY <1>1, <1>4, <1>6 DEF NotHeld
<1>8. not'.refs # 0 /\ notClosed' \in 0 .. 1 /\ notApp' \in BOOLEAN /\ self' \in BOOLEAN
  BY <1>1, <1>4, <1>6 DEF N
<1>9. NotCore(not', mb', notAns', got', notPeer') /\ NotKnown(not', mb', got', notPeer')
  BY <1>1, <1>6
<1>10. NotGood(not', mb', notAns', got', notPeer', notApp', notClosed', self')
  BY <1>6, <1>7, <1>8, <1>9, Zenon DEF NotGood
<1> QED BY <1>1, <1>10, NotInvParts DEF NotInv

(* The application lets the notifier go. *)
LEMMA NotRelease == NotInv /\ Not!Release => NotInv'
<1> SUFFICES ASSUME NotInv, Not!Release PROVE NotInv'
  OBVIOUS
<1>1. /\ notApp = TRUE /\ notApp' = FALSE /\ not' \in Not!mem_deref(not) /\ mb' = mb
      /\ notAns' = notAns /\ got' = got /\ notPeer' = notPeer
      /\ notClosed' = notClosed /\ self' = self
  BY NotInvParts DEF Not!Release
<1>2. NotGood(not, mb, notAns, got, notPeer, TRUE, notClosed, self) BY <1>1, Zenon DEF NotInv
<1>3. NotGood(not', mb, notAns, got, notPeer, FALSE, notClosed, self)
  BY <1>1, <1>2, NotInvParts, NotDerefApp
<1>4. NotGood(not', mb', notAns', got', notPeer', notApp', notClosed', self')
  BY <1>1, <1>3, Zenon
<1> QED BY <1>1, <1>4, NotInvParts DEF NotInv

(* The subscription ran out. *)
LEMMA NotTimeout == NotInv /\ Not!Timeout => NotInv'
<1> SUFFICES ASSUME NotInv, Not!Timeout PROVE NotInv'
  OBVIOUS
<1>1. /\ mb' = mb /\ notAns' = notAns /\ got' = got /\ notPeer' = notPeer /\ self' = self
      /\ IF not.terminated THEN Not!Set([not EXCEPT !.tmr = FALSE]) ELSE Not!sipnot_terminate(not)
  BY DEF Not!Timeout
<1>2. SUFFICES NotGood(not', mb, notAns, got, notPeer, notApp', notClosed', self)
  <2>1. NotGood(not', mb', notAns', got', notPeer', notApp', notClosed', self')
    BY <1>1, <1>2, Zenon
  <2> QED BY <1>1, <2>1, NotInvParts DEF NotInv
<1>3. CASE not.terminated
  <2> DEFINE n == [not EXCEPT !.tmr = FALSE]
  <2>1. not' = n /\ notApp' = notApp /\ notClosed' = notClosed BY <1>1, <1>3 DEF Not!Set
  <2>2. /\ n \in Not!Notifier /\ n.refs = not.refs /\ n.req = not.req /\ n.sent = not.sent
        /\ n.expires = not.expires /\ n.notify_pending = not.notify_pending
        /\ n.subscribed = not.subscribed /\ n.terminated = not.terminated
        /\ n.termsent = not.termsent /\ n.ls = not.ls /\ n.failed = not.failed
    BY NotInvParts DEF Not!Notifier
  <2> HIDE DEF n
  <2>3. NotCore(n, mb, notAns, got, notPeer) BY <2>2, NotInvParts DEF NotCore
  <2>4. n.refs > 0 => NotKnown(n, mb, got, notPeer) BY <2>2, NotInvParts DEF NotKnown
  <2>5. NotHeld(n, notApp, notClosed, self) BY <2>2, NotInvParts DEF NotHeld, NotOwn, N
  <2>6. n.refs = 0 /\ ~n.failed => notPeer = "ended" BY <2>2 DEF NotInv, NotGood
  <2>7. NotGood(n, mb, notAns, got, notPeer, notApp, notClosed, self)
    BY <2>2, <2>3, <2>4, <2>5, <2>6, NotInvParts, Zenon DEF NotGood
  <2> QED BY <2>1, <2>7, Zenon
<1>4. CASE ~not.terminated
  BY <1>1, <1>4, NotInvParts, NotTerminated
<1> QED BY <1>3, <1>4

(* The subscriber answers a NOTIFY. *)
LEMMA NotPeer == NotInv /\ Not!PeerAnswers => NotInv'
<1> SUFFICES ASSUME NotInv, Not!PeerAnswers PROVE NotInv'
  OBVIOUS
<1>1. /\ not' = not /\ mb' = mb /\ notApp' = notApp /\ notClosed' = notClosed /\ self' = self
      /\ not.req # "none" /\ notAns = "none"
  BY DEF Not!PeerAnswers
<1>2. /\ notAns' \in Not!NotifyAnswer /\ got' \in Not!Version /\ notPeer' \in {"on", "ended"}
      /\ notAns' = "2xx" => got' = not.sent
      /\ notAns' = "2xx" /\ not.req = "final" => notPeer' = "ended"
      /\ notPeer = "ended" => notPeer' = "ended"
  BY NotInvParts DEF Not!PeerAnswers, Not!NotifyAnswer, Not!Notifier
<1>3. NotCore(not, mb, notAns', got', notPeer') BY <1>1, <1>2, NotInvParts DEF NotCore
<1>4. not.refs > 0 => NotKnown(not, mb, got', notPeer') BY <1>1, <1>2, NotInvParts DEF NotKnown
<1>5. not.refs = 0 /\ ~not.failed => notPeer' = "ended" BY <1>2 DEF NotInv, NotGood
<1>6. NotGood(not, mb, notAns', got', notPeer', notApp, notClosed, self)
  BY <1>3, <1>4, <1>5, NotInvParts, Zenon DEF NotGood
<1>7. NotGood(not', mb', notAns', got', notPeer', notApp', notClosed', self')
  BY <1>1, <1>6, Zenon
<1> QED BY <1>1, <1>2, <1>7, NotInvParts DEF NotInv

(* A new notifier is good, and so is one that is not explored. *)
LEMMA NotInitInv ==
  /\ Not!Init => NotInv
  /\ not = Not!Freed /\ mb = 0 /\ got = 0 /\ notAns = "none" /\ notPeer = "ended"
       /\ notApp = FALSE /\ notClosed = 0 /\ self = FALSE => NotInv
<1> DEFINE z == Not!Freed
<1>1. z = Not!Freed OBVIOUS
<1> HIDE DEF z
<1>2. /\ z \in Not!Notifier /\ z.refs = 0 /\ z.req = "none" /\ z.terminated /\ ~z.termsent
      /\ ~z.failed /\ ~z.notify_pending
  BY <1>1, NotFreedFields
<1>3. 0 \in Not!Version BY NotConstants DEF Not!Version
<1>4. ASSUME not = Not!Freed, mb = 0, got = 0, notAns = "none", notPeer = "ended",
             notApp = FALSE, notClosed = 0, self = FALSE
      PROVE  NotInv
  <2>1. NotCore(z, 0, "none", 0, "ended") BY <1>2 DEF NotCore
  <2>2. NotHeld(z, FALSE, 0, FALSE) BY <1>2 DEF NotHeld, NotOwn, N
  <2>3. 0 \in 0 .. 1 /\ (z.refs > 0 => NotKnown(z, 0, 0, "ended")) BY <1>2
  <2>4. NotGood(z, 0, "none", 0, "ended", FALSE, 0, FALSE)
    BY <1>2, <2>1, <2>2, <2>3, Zenon DEF NotGood
  <2>5. NotGood(not, mb, notAns, got, notPeer, notApp, notClosed, self)
    BY <1>1, <1>4, <2>4, Zenon
  <2> QED BY <1>3, <1>4, <2>5 DEF NotInv
<1>5. ASSUME Not!Init PROVE NotInv
  <2>1. PICK expires \in BOOLEAN : not = Not!Accept(expires) BY <1>5 DEF Not!Init
  <2> DEFINE u == [z EXCEPT !.refs = 1]
             v == [u EXCEPT !.tmr = TRUE, !.expires = expires, !.subscribed = TRUE, !.terminated = FALSE]
  <2>2. not = v BY <1>1, <2>1, Zenon DEF Not!Accept
  <2>3. /\ u \in Not!Notifier /\ u.refs = 1 /\ u.req = "none" /\ ~u.termsent
        /\ ~u.failed /\ ~u.notify_pending
    BY <1>2 DEF Not!Notifier
  <2> HIDE DEF u
  <2>4. /\ v \in Not!Notifier /\ v.refs = 1 /\ v.req = "none" /\ ~v.termsent
        /\ ~v.failed /\ ~v.notify_pending /\ v.subscribed /\ ~v.terminated
    BY <2>3 DEF Not!Notifier
  <2> HIDE DEF v
  <2>5. NotCore(v, 0, "none", 0, "on") BY <2>4 DEF NotCore
  <2>6. NotHeld(v, TRUE, 0, FALSE) BY <2>4 DEF NotHeld, NotOwn, N
  <2>7. NotKnown(v, 0, 0, "on") BY <2>4 DEF NotKnown
  <2>8. 0 \in 0 .. 1 /\ v.refs # 0 BY <2>4
  <2>9. NotGood(v, 0, "none", 0, "on", TRUE, 0, FALSE)
    BY <2>4, <2>5, <2>6, <2>7, <2>8, Zenon DEF NotGood
  <2>10. /\ mb = 0 /\ got = 0 /\ notAns = "none" /\ notPeer = "on"
         /\ notApp = TRUE /\ notClosed = 0 /\ self = FALSE
    BY <1>5 DEF Not!Init
  <2>11. NotGood(not, mb, notAns, got, notPeer, notApp, notClosed, self)
    BY <2>2, <2>9, <2>10, Zenon
  <2> QED BY <1>3, <2>10, <2>11 DEF NotInv
<1> QED BY <1>4, <1>5

(* Each action of sipnot preserves its invariant. *)
LEMMA NotNextInv == NotInv /\ [Not!Next]_notVars => NotInv'
<1> SUFFICES ASSUME NotInv, [Not!Next]_notVars PROVE NotInv'
  OBVIOUS
<1>1. CASE UNCHANGED notVars
  BY <1>1, Zenon DEF notVars, NotInv
<1>2. CASE \E expires \in BOOLEAN : Not!Subscribe(expires)
  BY <1>2, NotSubscribe
<1> QED BY <1>1, <1>2, NotNotify, NotNotifyTerminated, NotRelease, NotResponse, NotTimeout,
           NotPeer DEF Not!Next

(* The invariant implies what NotSafe says. *)
LEMMA NotInvSafe == NotInv => Not!NotSafe
<1> SUFFICES ASSUME NotInv PROVE Not!NotSafe
  OBVIOUS
<1>1. NotOwn(not) \in BOOLEAN /\ not.refs = N(notApp) + N(NotOwn(not))
  BY NotInvParts DEF NotOwn, NotHeld
<1>2. Not!RefsExact
  <2>1. Not!Cardinality({x \in {"app"} : notApp}) = N(notApp) BY NotInvParts, Counted
  <2>2. Not!Cardinality({x \in {"own"} : NotOwn(not)}) = N(NotOwn(not)) BY <1>1, Counted
  <2>3. Not!TypeOK BY NotInvParts DEF Not!TypeOK
  <2> DEFINE A == Not!Cardinality({x \in {"app"} : notApp})
             B == Not!Cardinality({x \in {"own"} : not.terminated /\ not.req # "none"})
  <2>4. A = N(notApp) /\ B = N(NotOwn(not)) BY <2>1, <2>2, Zenon DEF NotOwn
  <2> HIDE DEF A, B
  <2>5. not.refs = A + B BY <1>1, <2>4
  <2> QED BY <2>3, <2>5, Zenon DEF Not!RefsExact, A, B
<1>3. Not!UpToDate BY NotInvParts DEF Not!UpToDate, NotKnown
<1>4. Not!LastWord BY DEF NotInv, NotGood, Not!LastWord
<1>5. Not!EndIsKnown BY NotInvParts DEF Not!EndIsKnown, NotHeld
<1> QED BY <1>2, <1>3, <1>4, <1>5 DEF Not!NotSafe

-----------------------------------------------------------------------------
(* The invariant of the three objects *)
EventInv == RegInv /\ SubInv /\ NotInv

(* SipInit establishes it, whichever part is explored. *)
LEMMA EventInit == SipInit => EventInv
<1> SUFFICES ASSUME SipInit PROVE RegInv /\ SubInv /\ NotInv BY DEF EventInv
<1>1. RegInv
  <2>1. Reg!Init BY DEF SipInit
  <2> QED BY <2>1, RegInitInv
<1>2. SubInv
  <2>1. CASE part = "sub"
    <3>1. Sub!Init BY <2>1 DEF SipInit
    <3> QED BY <3>1, SubInitInv
  <2>2. CASE part # "sub"
    <3>1. /\ sub = Sub!Freed /\ subAns = "none" /\ subPeer = "none" /\ subApp = FALSE
          /\ subClosed = 0
      BY <2>2 DEF SipInit
    <3> QED BY <3>1, SubInitInv, Zenon
  <2> QED BY <2>1, <2>2
<1>3. NotInv
  <2>1. CASE part = "not"
    <3>1. Not!Init BY <2>1 DEF SipInit
    <3> QED BY <3>1, NotInitInv
  <2>2. CASE part # "not"
    <3>1. /\ not = Not!Freed /\ mb = 0 /\ got = 0 /\ notAns = "none" /\ notPeer = "ended"
          /\ notApp = FALSE /\ notClosed = 0 /\ self = FALSE
      BY <2>2 DEF SipInit
    <3> QED BY <3>1, NotInitInv, Zenon
  <2> QED BY <2>1, <2>2
<1> QED BY <1>1, <1>2, <1>3

(* A step of a part is a step of its object and stutters for the others. *)
LEMMA EventNext == EventInv /\ [SipNext]_sipVars => EventInv'
<1> SUFFICES ASSUME EventInv, [SipNext]_sipVars PROVE EventInv' OBVIOUS
<1>1. [Reg!Next]_regVars BY DEF SipNext, sipVars
<1>2. [Sub!Next]_subVars BY DEF SipNext, sipVars
<1>3. [Not!Next]_notVars BY DEF SipNext, sipVars
<1> QED BY <1>1, <1>2, <1>3, RegNextInv, SubNextInv, NotNextInv DEF EventInv

(* sipreg, sipsub and sipnot keep going while they are wanted, free an     *)
(* object once and only when its last holder let it go, call the close     *)
(* handler once at most, and leave no binding or subscription behind that  *)
(* the other side was not told about.                                      *)
THEOREM EventsSafe == SipSpec => []EventSafe
<1>1. SipInit => EventInv BY EventInit
<1>2. EventInv /\ [SipNext]_sipVars => EventInv' BY EventNext
<1>3. EventInv => EventSafe
  BY RegInvSafe, SubInvSafe, NotInvSafe DEF EventInv, EventSafe
<1> QED BY <1>1, <1>2, <1>3, PTL DEF SipSpec

----------------------------------------------------------------------------
(* The requests of SipRequest: RequestSafe holds for all numbers of        *)
(* servers, addresses and transports.  ReqInv adds to it that the lookups  *)
(* of a request follow one another (Lookups), that it waits either for DNS *)
(* or for a transaction (Attempt), and that its user and the request agree *)
(* on who knows of whom (ReqHeld).                                         *)

(* What the user of a request knows *)
ReqUser == [state : {"idle", "waits", "released", "told", "failed", "sent", "dropped"},
            ptr : BOOLEAN, finals : Nat, after : Nat]

(* The lookups come one after the other: servers before addresses, and the *)
(* answers of the address queries are added up.                            *)
Lookups(q) ==
  /\ "NAPTR" \in q.dnsq => q.dnsq = {"NAPTR"}
  /\ "SRV" \in q.dnsq => q.dnsq = {"SRV"}
  /\ q.dnsq \cap {"NAPTR", "SRV"} # {} => q.addrl = 0
  /\ q.dnsq # {} => q.addrl <= MaxAddr
  /\ {"A", "AAAA"} \subseteq q.dnsq => q.addrl = 0

(* The attempt under way: only an INVITE that rings and that is not        *)
(* cancelled has no timer, and only then a provisional response was seen.  *)
Attempt(q) ==
  /\ q.dnsq # {} <=> q.ct.state = "none"
  /\ q.ct.state # "none" => q.stateful
  /\ q.ct.state = "TRYING" => q.ct.tmr /\ ~q.provrecv
  /\ q.ct.state = "PROCEEDING" => q.provrecv /\ (q.ct.tmr \/ (q.invite /\ ~q.canceled))

ReqTypes == alive \in BOOLEAN /\ req \in Rq!SipReq /\ reqUser \in ReqUser

(* A request that is not allocated is known to nobody. *)
ReqGone == ~alive => req = Rq!NoReq /\ ~reqUser.ptr

(* A request under way: its user waits for it or has let go of it. *)
ReqHeld ==
  /\ reqUser.state = "idle" => ~alive /\ reqUser.after = 0
  /\ alive => /\ Lookups(req) /\ Attempt(req)
              /\ reqUser.ptr <=> req.reqp
              /\ reqUser.ptr => reqUser.state = "waits"
              /\ reqUser.state \in {"waits", "released"}
              /\ req.resph <=> reqUser.state = "waits"

(* The user is told one final response at most. *)
ReqTold == reqUser.finals = (IF reqUser.state = "told" THEN 1 ELSE 0)

(* The one attempt that is made after a cancellation is the last one. *)
ReqLast ==
  /\ reqUser.after <= 1
  /\ alive /\ (req.ct.state = "none" \/ ~req.canceled) => reqUser.after = 0

(* The invariant that every action preserves *)
ReqInv == ReqTypes /\ ReqGone /\ ReqHeld /\ ReqTold /\ ReqLast

----------------------------------------------------------------------------
(* Operators that find a destination *)

(* What the handlers may go on with: the user's part of the request is the *)
(* same, and if it does not end it waits for DNS or for its transaction.   *)
GoesOn(q, p) ==
  /\ p \in Rq!SipReq /\ Lookups(p)
  /\ p.reqp = q.reqp /\ p.resph = q.resph /\ p.canceled = q.canceled
  /\ p.stateful \/ p.dnsq # {} => Attempt(p)

(* Between two attempts a request has neither lookups nor a transaction. *)
Between(q) == q \in Rq!SipReq /\ q.dnsq = {} /\ q.ct.state = "none"

(* What the assumptions say of the constants *)
LEMMA Constants ==
  /\ MaxSrv \in Nat /\ MaxAddr \in Nat /\ MaxAddr >= 1 /\ Transports \in Nat /\ Transports >= 1
  /\ Family \subseteq {"A", "AAAA"} /\ Family # {}
BY MCSipAssumption DEF Rq!SipRequestAssumption

(* request: a request that has a destination is sent, or failed. *)
LEMMA RequestGoes ==
  ASSUME NEW q, Between(q)
  PROVE  GoesOn(q, Rq!request(q)) /\ Rq!request(q).dnsq = {}
<1>1. Rq!request(q) \in Rq!SipReq
  BY DEF Between, Rq!SipReq, Rq!request, Rq!Trying, Rq!NoTrans
<1>2. /\ Rq!request(q).dnsq = {} /\ ~Rq!request(q).provrecv
      /\ Rq!request(q).ct = (IF q.stateful THEN Rq!Trying ELSE Rq!NoTrans)
      /\ Rq!request(q).reqp = q.reqp /\ Rq!request(q).resph = q.resph
      /\ Rq!request(q).canceled = q.canceled /\ Rq!request(q).stateful = q.stateful
  BY DEF Between, Rq!SipReq, Rq!request
<1> HIDE DEF Rq!request
<1> QED
  BY <1>1, <1>2 DEF GoesOn, Lookups, Attempt, Rq!Trying

(* A lookup is started. *)
LEMMA LookupGoes ==
  ASSUME NEW q, Between(q),
         NEW d \in SUBSET {"NAPTR", "SRV", "A", "AAAA"}, d # {}, d \in {{"NAPTR"}, {"SRV"}} \/ d \subseteq {"A", "AAAA"},
         q.addrl = 0
  PROVE  GoesOn(q, [q EXCEPT !.dnsq = d])
<1> DEFINE p == [q EXCEPT !.dnsq = d]
<1>1. p \in Rq!SipReq
  BY DEF Between, Rq!SipReq
<1>2. /\ p.dnsq = d /\ p.ct = q.ct /\ p.addrl = q.addrl
      /\ p.reqp = q.reqp /\ p.resph = q.resph /\ p.canceled = q.canceled
  BY DEF Between, Rq!SipReq
<1> HIDE DEF p
<1>3. Lookups(p)
  BY <1>2, Constants DEF Lookups
<1>4. Attempt(p)
  BY <1>2 DEF Attempt, Between
<1> QED
  BY <1>1, <1>2, <1>3, <1>4 DEF GoesOn, p

(* request_next: what is left of the servers and addresses *)
LEMMA LeftBetween ==
  ASSUME NEW q, Between(q), NEW sn \in 0 .. MaxSrv, NEW a \in 0 .. 2 * MaxAddr
  PROVE  LET r == Rq!Left(q, sn, a)
         IN /\ Between(r) /\ r.addrl = a
            /\ r.reqp = q.reqp /\ r.resph = q.resph /\ r.canceled = q.canceled
BY DEF Between, Rq!SipReq, Rq!Left

(* request_next: the next address, server or lookup is tried. *)
LEMMA NextGoes ==
  ASSUME NEW q, Between(q), NEW p \in Rq!request_next(q)
  PROVE  GoesOn(q, p)
<1>1. q.addrl \in 0 .. 2 * MaxAddr /\ q.srvl \in 0 .. MaxSrv
  BY DEF Between, Rq!SipReq
<1>2. ASSUME NEW sn \in 0 .. MaxSrv, NEW a \in 0 .. 2 * MaxAddr, p = Rq!request(Rq!Left(q, sn, a))
      PROVE  GoesOn(q, p)
  BY <1>2, LeftBetween, RequestGoes DEF GoesOn
<1>3. ASSUME NEW sn \in 0 .. MaxSrv, p = Rq!addr_lookup(Rq!Left(q, sn, 0))
      PROVE  GoesOn(q, p)
  <2> DEFINE r == Rq!Left(q, sn, 0)
  <2>1. 0 \in 0 .. 2 * MaxAddr
    BY Constants
  <2>2. /\ Between(r) /\ r.addrl = 0
        /\ r.reqp = q.reqp /\ r.resph = q.resph /\ r.canceled = q.canceled
    BY <2>1, LeftBetween
  <2> HIDE DEF r
  <2>3. GoesOn(r, p)
    BY <1>3, <2>2, LookupGoes, Constants DEF Rq!addr_lookup, r
  <2> QED
    BY <2>2, <2>3 DEF GoesOn
<1>4. \/ \E a \in 0 .. q.addrl - 1 : p = Rq!request(Rq!Left(q, q.srvl, a))
      \/ \E sn \in 0 .. q.srvl - 1, a \in 0 .. MaxAddr - 1 : p = Rq!request(Rq!Left(q, sn, a))
      \/ \E sn \in 0 .. q.srvl - 1 : p = Rq!addr_lookup(Rq!Left(q, sn, 0))
  BY DEF Rq!request_next
<1>5. /\ 0 .. q.addrl - 1 \subseteq 0 .. 2 * MaxAddr /\ 0 .. MaxAddr - 1 \subseteq 0 .. 2 * MaxAddr
      /\ 0 .. q.srvl - 1 \subseteq 0 .. MaxSrv
  BY <1>1, Constants
<1> QED
  BY <1>1, <1>2, <1>3, <1>4, <1>5

----------------------------------------------------------------------------
(* The outcomes of a step *)

(* A request that ends tells its user, and is forgotten by it. *)
LEMMA OverStep ==
  ASSUME ReqInv, alive, NEW q, q.resph \in BOOLEAN, q.resph => req.resph, Rq!Over(q)
  PROVE  ReqInv'
<1>1. reqUser \in ReqUser /\ reqUser.state \in {"waits", "released"} /\ reqUser.finals = 0
      /\ reqUser.after <= 1 /\ (q.resph => reqUser.state = "waits")
  BY DEF ReqInv, ReqTypes, ReqHeld, ReqTold, ReqLast
<1> DEFINE f == IF q.resph THEN reqUser.finals + 1 ELSE reqUser.finals
           w == Rq!Outcome(q)
<1>a. f = (IF q.resph THEN 1 ELSE 0) /\ f \in Nat
      /\ w \in {"told", "sent", "dropped", "released"} /\ (w = "told" <=> q.resph)
  BY <1>1 DEF Rq!Outcome
<1>b. /\ ~alive' /\ alive' \in BOOLEAN /\ req' = Rq!NoReq
      /\ reqUser' = [reqUser EXCEPT !.ptr = FALSE, !.finals = f, !.state = w]
  BY DEF Rq!Over
<1> HIDE DEF f, w
<1>2. /\ reqUser'.ptr = FALSE /\ reqUser'.after = reqUser.after
      /\ reqUser'.finals = f /\ reqUser'.state = w
  BY <1>1, <1>b DEF ReqUser
<1>3. reqUser' \in ReqUser
  BY <1>1, <1>a, <1>b DEF ReqUser
<1>4. req' \in Rq!SipReq
  BY <1>b, Constants DEF Rq!NoReq, Rq!SipReq, Rq!NoTrans
<1> QED
  BY <1>1, <1>2, <1>3, <1>4, <1>a, <1>b DEF ReqInv, ReqTypes, ReqGone, ReqHeld, ReqTold, ReqLast

(* A request that goes on leaves its user waiting. *)
LEMMA GoingStep ==
  ASSUME ReqInv, alive, NEW p, GoesOn(req, p), p.stateful \/ p.dnsq # {},
         NEW started \in BOOLEAN,
         started => p.dnsq = {} /\ (req.ct.state = "none" \/ ~req.canceled),
         ~started /\ p.ct.state = "none" => req.ct.state = "none" \/ ~req.canceled,
         Rq!Going(p, started)
  PROVE  ReqInv'
<1>1. /\ reqUser \in ReqUser /\ reqUser.after <= 1
      /\ (req.ct.state = "none" \/ ~req.canceled) => reqUser.after = 0
  BY DEF ReqInv, ReqTypes, ReqLast
<1>2. /\ alive' = TRUE /\ req' = p
      /\ reqUser' = [reqUser EXCEPT !.after = IF started /\ p.canceled THEN @ + 1 ELSE @]
  BY DEF Rq!Going
<1>3. /\ reqUser'.state = reqUser.state /\ reqUser'.ptr = reqUser.ptr
      /\ reqUser'.finals = reqUser.finals
      /\ reqUser'.after = (IF started /\ p.canceled THEN reqUser.after + 1 ELSE reqUser.after)
  BY <1>1, <1>2 DEF ReqUser
<1>4. reqUser' \in ReqUser
  BY <1>1, <1>2 DEF ReqUser
<1>5. Attempt(p) /\ p.canceled = req.canceled
  BY DEF GoesOn
<1>6. ReqLast'
  <2>1. p.ct.state # "none" <=> p.dnsq = {}
    BY <1>5 DEF Attempt
  <2>2. reqUser.after \in Nat
    BY <1>1 DEF ReqUser
  <2>3. p.canceled \in BOOLEAN
    BY DEF GoesOn, Rq!SipReq
  <2> QED
    BY <1>1, <1>2, <1>3, <1>5, <2>1, <2>2, <2>3 DEF ReqLast
<1>7. ReqHeld'
  BY <1>2, <1>3, <1>5 DEF ReqInv, ReqHeld, GoesOn
<1> QED
  BY <1>2, <1>3, <1>4, <1>6, <1>7 DEF ReqInv, ReqTypes, ReqGone, ReqTold, GoesOn

(* An answer leads to another lookup. *)
LEMMA LookUpStep ==
  ASSUME ReqInv, alive, req.ct.state = "none",
         NEW q, q \in Rq!SipReq, q.resph = req.resph,
         NEW p, GoesOn(req, p), p.dnsq # {}, Rq!LookUp(q, p)
  PROVE  ReqInv'
<1>1. q.resph \in BOOLEAN
  BY DEF Rq!SipReq
<1>2. CASE Rq!Over(q)
  BY <1>1, <1>2, OverStep
<1>3. CASE Rq!Going(p, FALSE)
  <2>1. PICK started \in BOOLEAN : started = FALSE
    OBVIOUS
  <2>2. Rq!Going(p, started) /\ ~started
    BY <1>3, <2>1
  <2> QED
    BY <2>2, GoingStep
<1> QED
  BY <1>2, <1>3 DEF Rq!LookUp

(* request_next, after an answer or after an attempt that is not cancelled *)
LEMMA AdvanceStep ==
  ASSUME ReqInv, alive, req.ct.state = "none" \/ ~req.canceled,
         NEW q, Between(q), q.reqp = req.reqp, q.resph = req.resph, q.canceled = req.canceled,
         Rq!Advance(q)
  PROVE  ReqInv'
<1>1. CASE Rq!Over(q)
  <2>1. q.resph \in BOOLEAN
    BY DEF Between, Rq!SipReq
  <2> QED
    BY <1>1, <2>1, OverStep
<1>2. ASSUME NEW p \in Rq!request_next(q),
             IF p.stateful THEN Rq!Going(p, p.dnsq = {}) ELSE Rq!Over([p EXCEPT !.resph = FALSE])
      PROVE  ReqInv'
  <2>1. GoesOn(req, p)
    BY NextGoes DEF GoesOn
  <2>2. CASE p.stateful
    <3> DEFINE started == p.dnsq = {}
    <3>1. started \in BOOLEAN /\ Rq!Going(p, started) /\ (started => p.dnsq = {})
      BY <1>2, <2>2
    <3> HIDE DEF started
    <3> QED
      BY <2>1, <2>2, <3>1, GoingStep
  <2>3. CASE ~p.stateful
    <3> DEFINE r == [p EXCEPT !.resph = FALSE]
    <3>1. r.resph = FALSE /\ Rq!Over(r)
      BY <1>2, <2>1, <2>3 DEF GoesOn, Rq!SipReq
    <3> HIDE DEF r
    <3>2. r.resph \in BOOLEAN /\ (r.resph => req.resph)
      BY <3>1
    <3> QED
      BY <3>1, <3>2, OverStep
  <2> QED
    BY <2>2, <2>3
<1> QED
  BY <1>1, <1>2 DEF Rq!Advance

----------------------------------------------------------------------------
(* The steps of a request *)

(* sip_request: a new request has neither lookups nor a transaction. *)
LEMMA AllocatedBetween ==
  ASSUME NEW inv \in BOOLEAN, NEW sf \in BOOLEAN, NEW sel \in BOOLEAN
  PROVE  LET q == Rq!Allocated(inv, sf, sel)
         IN Between(q) /\ q.addrl = 0 /\ q.resph /\ ~q.canceled /\ q.stateful = sf
<1>1. Transports - 1 \in 0 .. Transports
  BY Constants
<1>2. Rq!NoReq \in Rq!SipReq
  BY Constants DEF Rq!NoReq, Rq!NoTrans, Rq!SipReq
<1>3. Rq!NoReq.dnsq = {} /\ Rq!NoReq.ct.state = "none" /\ Rq!NoReq.addrl = 0 /\ ~Rq!NoReq.canceled
  BY DEF Rq!NoReq, Rq!NoTrans
<1> DEFINE q == Rq!Allocated(inv, sf, sel)
<1>4. q \in Rq!SipReq
  BY <1>1, <1>2 DEF Rq!SipReq, Rq!Allocated
<1>5. /\ q.dnsq = Rq!NoReq.dnsq /\ q.ct = Rq!NoReq.ct /\ q.addrl = Rq!NoReq.addrl
      /\ q.canceled = Rq!NoReq.canceled
  BY <1>2 DEF Rq!SipReq, Rq!Allocated
<1>6. q.resph = TRUE /\ q.stateful = sf
  BY <1>2 DEF Rq!SipReq, Rq!Allocated
<1> QED
  BY <1>3, <1>4, <1>5, <1>6 DEF Between

(* sip_request: an address is tried at once, a name is looked up. *)
LEMMA BegunGoes ==
  ASSUME NEW q, Between(q), q.addrl = 0, NEW host \in {"address", "port", "name"},
         q.stateful \/ host # "address"
  PROVE  LET p == Rq!Begun(q, host)
         IN GoesOn(q, p) /\ (p.stateful \/ p.dnsq # {})
<1>1. CASE host = "address"
  <2>1. Rq!Begun(q, host) = Rq!request(q) /\ Rq!request(q).stateful = q.stateful
    BY <1>1 DEF Rq!Begun, Between, Rq!SipReq, Rq!request
  <2> QED
    BY <1>1, <2>1, RequestGoes
<1>2. ASSUME NEW d \in {{"NAPTR"}, {"SRV"}, Family}, Rq!Begun(q, host) = [q EXCEPT !.dnsq = d]
      PROVE  LET p == Rq!Begun(q, host)
             IN GoesOn(q, p) /\ (p.stateful \/ p.dnsq # {})
  <2>1. d # {} /\ d \in SUBSET {"NAPTR", "SRV", "A", "AAAA"}
        /\ (d \in {{"NAPTR"}, {"SRV"}} \/ d \subseteq {"A", "AAAA"})
    BY Constants
  <2>2. GoesOn(q, Rq!Begun(q, host))
    BY <1>2, <2>1, LookupGoes
  <2>3. Rq!Begun(q, host).dnsq # {}
    BY <1>2, <2>1 DEF Between, Rq!SipReq
  <2> QED
    BY <2>2, <2>3
<1>3. CASE host = "port"
  BY <1>2, <1>3 DEF Rq!Begun, Rq!addr_lookup
<1>4. CASE host = "name"
  BY <1>2, <1>4 DEF Rq!Begun, Rq!srv_lookup
<1> QED
  BY <1>1, <1>3, <1>4

(* sip_request *)
LEMMA RequestInv ==
  ASSUME ReqInv, Rq!Request
  PROVE  ReqInv'
<1>1. /\ reqUser \in ReqUser /\ ~alive /\ alive \in BOOLEAN /\ reqUser.after = 0 /\ reqUser.finals = 0
      /\ ~reqUser.ptr /\ req = Rq!NoReq /\ req \in Rq!SipReq
  BY DEF ReqInv, ReqTypes, ReqGone, ReqHeld, ReqTold, Rq!Request
<1>2. ASSUME NEW w \in {"failed", "sent"}, reqUser' = [reqUser EXCEPT !.state = w], UNCHANGED <<req, alive>>
      PROVE  ReqInv'
  <2>1. /\ reqUser' \in ReqUser /\ reqUser'.state = w /\ ~reqUser'.ptr
        /\ reqUser'.after = 0 /\ reqUser'.finals = 0
    BY <1>1, <1>2 DEF ReqUser
  <2> QED
    BY <1>1, <1>2, <2>1 DEF ReqInv, ReqTypes, ReqGone, ReqHeld, ReqTold, ReqLast
<1>3. ASSUME NEW q, NEW p, GoesOn(q, p), NEW hold \in BOOLEAN,
             q.resph, ~q.canceled, p.stateful \/ p.dnsq # {},
             reqUser' = [reqUser EXCEPT !.state = "waits", !.ptr = hold],
             alive' = TRUE, req' = [p EXCEPT !.reqp = hold]
      PROVE  ReqInv'
  <2>1. /\ reqUser' \in ReqUser /\ reqUser'.state = "waits" /\ reqUser'.ptr = hold
        /\ reqUser'.after = 0 /\ reqUser'.finals = 0
    BY <1>1, <1>3 DEF ReqUser
  <2>2. /\ req' \in Rq!SipReq /\ req'.reqp = hold
        /\ req'.dnsq = p.dnsq /\ req'.addrl = p.addrl /\ req'.ct = p.ct /\ req'.stateful = p.stateful
        /\ req'.provrecv = p.provrecv /\ req'.canceled = p.canceled /\ req'.resph = p.resph
        /\ req'.invite = p.invite
    BY <1>3 DEF GoesOn, Rq!SipReq
  <2>3. Lookups(req') /\ Attempt(req')
    BY <1>3, <2>2 DEF GoesOn, Lookups, Attempt
  <2>4. req'.resph /\ ~req'.canceled
    BY <1>3, <2>2 DEF GoesOn
  <2> QED
    BY <1>3, <2>1, <2>2, <2>3, <2>4 DEF ReqInv, ReqTypes, ReqGone, ReqHeld, ReqTold, ReqLast
<1>4. ASSUME NEW inv \in BOOLEAN, NEW sf \in BOOLEAN, NEW hold \in BOOLEAN, NEW sel \in BOOLEAN,
             NEW host \in {"address", "port", "name"},
             sf \/ host # "address",
             reqUser' = [reqUser EXCEPT !.state = "waits", !.ptr = hold],
             alive' = TRUE,
             req' = [Rq!Begun(Rq!Allocated(inv, sf, sel), host) EXCEPT !.reqp = hold]
      PROVE  ReqInv'
  <2> DEFINE q == Rq!Allocated(inv, sf, sel)
  <2>1. Between(q) /\ q.addrl = 0 /\ q.resph /\ ~q.canceled /\ q.stateful = sf
    BY AllocatedBetween
  <2> HIDE DEF q
  <2>2. GoesOn(q, Rq!Begun(q, host)) /\ (Rq!Begun(q, host).stateful \/ Rq!Begun(q, host).dnsq # {})
    BY <1>4, <2>1, BegunGoes
  <2> QED
    BY <1>3, <1>4, <2>1, <2>2 DEF q
<1> QED
  BY <1>2, <1>4 DEF Rq!Request

(* A lookup is answered, and with it the request may end or go on. *)
LEMMA Answered ==
  ASSUME ReqInv, alive, NEW d \in SUBSET {"NAPTR", "SRV", "A", "AAAA"}, req.dnsq # {}
  PROVE  LET q == [req EXCEPT !.dnsq = d]
         IN /\ q \in Rq!SipReq /\ req.ct.state = "none" /\ q.ct.state = "none" /\ q.dnsq = d
            /\ q.reqp = req.reqp /\ q.resph = req.resph /\ q.canceled = req.canceled
            /\ q.addrl = req.addrl
BY DEF ReqInv, ReqTypes, ReqHeld, Attempt, Rq!SipReq

(* naptr_handler: the answer to a NAPTR query *)
LEMMA NaptrInv ==
  ASSUME ReqInv, Rq!NaptrAnswer
  PROVE  ReqInv'
<1> DEFINE q == [req EXCEPT !.dnsq = @ \ {"NAPTR"}]
           t == [q EXCEPT !.tp_selected = TRUE]
           u(n) == [t EXCEPT !.srvl = n]
<1>1. /\ alive /\ req.dnsq = {"NAPTR"} /\ req.addrl = 0 /\ req.dnsq # {}
      /\ \/ Rq!LookUp(q, Rq!srv_lookup(q)) \/ Rq!LookUp(q, Rq!srv_lookup(t))
         \/ \E n \in 1 .. MaxSrv : Rq!Advance(u(n))
  BY DEF Rq!NaptrAnswer, ReqInv, ReqHeld, Lookups
<1>2. /\ Between(q) /\ q.addrl = 0 /\ req.ct.state = "none" /\ q \in Rq!SipReq
      /\ q.reqp = req.reqp /\ q.resph = req.resph /\ q.canceled = req.canceled
  <2>1. req.dnsq \ {"NAPTR"} = {}
    BY <1>1
  <2> QED
    BY <1>1, <2>1, Answered DEF Between
<1> HIDE DEF q
<1>3. /\ Between(t) /\ t.addrl = 0
      /\ t.reqp = req.reqp /\ t.resph = req.resph /\ t.canceled = req.canceled
  BY <1>2 DEF Between, Rq!SipReq
<1> HIDE DEF t
<1>4. ASSUME NEW n \in 1 .. MaxSrv
      PROVE  /\ Between(u(n))
             /\ u(n).reqp = req.reqp /\ u(n).resph = req.resph /\ u(n).canceled = req.canceled
  <2>1. n \in 0 .. MaxSrv
    BY Constants
  <2> QED
    BY <1>3, <2>1 DEF Between, Rq!SipReq
<1> HIDE DEF u
<1>5. GoesOn(req, Rq!srv_lookup(q)) /\ GoesOn(req, Rq!srv_lookup(t))
  <2>1. GoesOn(q, Rq!srv_lookup(q)) /\ GoesOn(t, Rq!srv_lookup(t))
    BY <1>2, <1>3, LookupGoes DEF Rq!srv_lookup
  <2> QED
    BY <1>2, <1>3, <2>1 DEF GoesOn
<1>8. CASE Rq!LookUp(q, Rq!srv_lookup(q)) \/ Rq!LookUp(q, Rq!srv_lookup(t))
  <2>1. Rq!srv_lookup(q).dnsq # {} /\ Rq!srv_lookup(t).dnsq # {}
    BY <1>2, <1>3 DEF Rq!srv_lookup, Between, Rq!SipReq
  <2> QED
    BY <1>1, <1>2, <1>5, <1>8, <2>1, LookUpStep
<1>9. ASSUME NEW n \in 1 .. MaxSrv, Rq!Advance(u(n))
      PROVE  ReqInv'
  BY <1>1, <1>2, <1>4, <1>9, AdvanceStep
<1> QED
  BY <1>1, <1>8, <1>9

(* srv_handler: the answer to an SRV query *)
LEMMA SrvInv ==
  ASSUME ReqInv, Rq!SrvAnswer
  PROVE  ReqInv'
<1> DEFINE q == [req EXCEPT !.dnsq = @ \ {"SRV"}]
           t == [q EXCEPT !.tp = @ - 1]
           u(n) == [q EXCEPT !.srvl = n]
<1>1. /\ alive /\ req.dnsq = {"SRV"} /\ req.addrl = 0 /\ req.dnsq # {}
      /\ \/ \E n \in 1 .. MaxSrv : Rq!Advance(u(n))
         \/ q.tp > 0 /\ Rq!LookUp(q, Rq!srv_lookup(t))
         \/ Rq!LookUp(q, Rq!addr_lookup(q))
  BY DEF Rq!SrvAnswer, ReqInv, ReqHeld, Lookups
<1>2. /\ Between(q) /\ q.addrl = 0 /\ req.ct.state = "none" /\ q \in Rq!SipReq
      /\ q.reqp = req.reqp /\ q.resph = req.resph /\ q.canceled = req.canceled
  <2>1. req.dnsq \ {"SRV"} = {}
    BY <1>1
  <2> QED
    BY <1>1, <2>1, Answered DEF Between
<1> HIDE DEF q
<1>3. ASSUME q.tp > 0
      PROVE  /\ Between(t) /\ t.addrl = 0
             /\ t.reqp = req.reqp /\ t.resph = req.resph /\ t.canceled = req.canceled
  <2>1. q.tp \in 0 .. Transports
    BY <1>2 DEF Rq!SipReq
  <2>2. q.tp - 1 \in 0 .. Transports
    BY <1>3, <2>1, Constants
  <2> QED
    BY <1>2, <2>2 DEF Between, Rq!SipReq
<1> HIDE DEF t
<1>4. ASSUME NEW n \in 1 .. MaxSrv
      PROVE  /\ Between(u(n))
             /\ u(n).reqp = req.reqp /\ u(n).resph = req.resph /\ u(n).canceled = req.canceled
  <2>1. n \in 0 .. MaxSrv
    BY Constants
  <2> QED
    BY <1>2, <2>1 DEF Between, Rq!SipReq
<1> HIDE DEF u
<1>5. ASSUME q.tp > 0
      PROVE  GoesOn(req, Rq!srv_lookup(t))
  <2>1. GoesOn(t, Rq!srv_lookup(t))
    BY <1>3, <1>5, LookupGoes DEF Rq!srv_lookup
  <2> QED
    BY <1>3, <1>5, <2>1 DEF GoesOn
<1>a. GoesOn(req, Rq!addr_lookup(q))
  <2>1. GoesOn(q, Rq!addr_lookup(q))
    BY <1>2, LookupGoes, Constants DEF Rq!addr_lookup
  <2> QED
    BY <1>2, <2>1 DEF GoesOn
<1>8. CASE q.tp > 0 /\ Rq!LookUp(q, Rq!srv_lookup(t))
  <2>1. Rq!srv_lookup(t).dnsq # {}
    BY <1>3, <1>8 DEF Rq!srv_lookup, Between, Rq!SipReq
  <2> QED
    BY <1>1, <1>2, <1>5, <1>8, <2>1, LookUpStep
<1>b. CASE Rq!LookUp(q, Rq!addr_lookup(q))
  <2>1. Rq!addr_lookup(q).dnsq # {}
    BY <1>2, Constants DEF Rq!addr_lookup, Between, Rq!SipReq
  <2> QED
    BY <1>1, <1>2, <1>a, <1>b, <2>1, LookUpStep
<1>9. ASSUME NEW n \in 1 .. MaxSrv, Rq!Advance(u(n))
      PROVE  ReqInv'
  BY <1>1, <1>2, <1>4, <1>9, AdvanceStep
<1> QED
  BY <1>1, <1>8, <1>9, <1>b

(* addr_handler: the answer to an A or AAAA query *)
LEMMA AddrInv ==
  ASSUME ReqInv, NEW f \in Family, Rq!AddrAnswer(f)
  PROVE  ReqInv'
<1>1. alive /\ f \in req.dnsq /\ req.dnsq # {} /\ f \in {"A", "AAAA"}
  BY Constants DEF Rq!AddrAnswer
<1>2. PICK n \in 0 .. MaxAddr :
        LET q == [req EXCEPT !.dnsq = @ \ {f}, !.addrl = @ + n]
        IN IF q.dnsq # {} THEN Rq!Going(q, FALSE)
           ELSE IF q.addrl = 0 /\ q.srvl = 0 THEN Rq!Over(q)
           ELSE Rq!Advance(q)
  BY DEF Rq!AddrAnswer
<1> DEFINE q == [req EXCEPT !.dnsq = @ \ {f}, !.addrl = @ + n]
<1>3. /\ req \in Rq!SipReq /\ req.dnsq \subseteq {"A", "AAAA"} /\ req.ct.state = "none"
      /\ req.addrl \in Nat /\ req.addrl <= MaxAddr /\ (req.dnsq \ {f} # {} => req.addrl = 0)
  BY <1>1 DEF ReqInv, ReqTypes, ReqHeld, Lookups, Attempt, Rq!SipReq
<1>4. req.addrl + n \in 0 .. 2 * MaxAddr /\ (req.dnsq \ {f} # {} => req.addrl + n <= MaxAddr)
  BY <1>3, Constants
<1>5. /\ q \in Rq!SipReq /\ q.dnsq = req.dnsq \ {f} /\ q.ct = req.ct /\ q.addrl = req.addrl + n
      /\ q.reqp = req.reqp /\ q.resph = req.resph /\ q.canceled = req.canceled
  BY <1>3, <1>4 DEF Rq!SipReq
<1>6. IF q.dnsq # {} THEN Rq!Going(q, FALSE)
      ELSE IF q.addrl = 0 /\ q.srvl = 0 THEN Rq!Over(q)
      ELSE Rq!Advance(q)
  BY <1>2
<1> HIDE DEF q
<1>7. CASE q.dnsq # {}
  <2>1. Lookups(q)
    BY <1>1, <1>3, <1>4, <1>5, <1>7 DEF Lookups
  <2>2. GoesOn(req, q)
    BY <1>3, <1>5, <1>7, <2>1 DEF GoesOn, Attempt
  <2> QED
    BY <1>1, <1>3, <1>6, <1>7, <2>2, GoingStep
<1>8. CASE q.dnsq = {}
  <2>1. Between(q)
    BY <1>3, <1>5, <1>8 DEF Between
  <2>2. CASE Rq!Over(q)
    <3>1. q.resph \in BOOLEAN
      BY <1>5 DEF Rq!SipReq
    <3> QED
      BY <1>1, <1>5, <2>2, <3>1, OverStep
  <2>3. CASE Rq!Advance(q)
    BY <1>1, <1>3, <1>5, <2>1, <2>3, AdvanceStep
  <2> QED
    BY <1>6, <1>8, <2>2, <2>3
<1> QED
  BY <1>7, <1>8

(* response_handler: a provisional response *)
LEMMA ProvisionalInv ==
  ASSUME ReqInv, Rq!Provisional
  PROVE  ReqInv'
<1> DEFINE c == [state |-> "PROCEEDING",
                 tmr |-> req.ct.tmr /\ ~(req.invite /\ req.ct.state = "TRYING")]
           q == [req EXCEPT !.ct = c, !.provrecv = TRUE]
           p == IF ~req.provrecv /\ req.canceled THEN Rq!sip_ctrans_cancel(q) ELSE q
<1>1. alive /\ req.ct.state # "none" /\ Rq!Going(p, FALSE)
  BY DEF Rq!Provisional
<1>2. /\ req \in Rq!SipReq /\ Lookups(req) /\ Attempt(req) /\ req.dnsq = {} /\ req.stateful
      /\ req.provrecv \in BOOLEAN /\ req.canceled \in BOOLEAN /\ req.invite \in BOOLEAN
  BY <1>1 DEF ReqInv, ReqTypes, ReqHeld, Attempt, Rq!SipReq
<1>3. c \in [state : {"none", "TRYING", "PROCEEDING"}, tmr : BOOLEAN] /\ c.state = "PROCEEDING"
      /\ (req.ct.tmr /\ ~(req.invite /\ req.ct.state = "TRYING") => c.tmr)
  OBVIOUS
<1> HIDE DEF c
<1>4. /\ q \in Rq!SipReq /\ q.ct = c /\ q.provrecv = TRUE /\ q.dnsq = req.dnsq /\ q.addrl = req.addrl
      /\ q.reqp = req.reqp /\ q.resph = req.resph /\ q.canceled = req.canceled
      /\ q.stateful = req.stateful /\ q.invite = req.invite
  BY <1>2, <1>3 DEF Rq!SipReq
<1> HIDE DEF q
<1>5. /\ p \in Rq!SipReq /\ p.ct.state = "PROCEEDING" /\ p.provrecv = TRUE /\ p.dnsq = {} /\ p.addrl = req.addrl
      /\ p.reqp = req.reqp /\ p.resph = req.resph /\ p.canceled = req.canceled
      /\ p.stateful = req.stateful
      /\ p.ct.tmr \/ (p.invite /\ ~p.canceled)
  <2>1. CASE ~req.provrecv /\ req.canceled /\ q.invite
    <3>1. p = [q EXCEPT !.ct.tmr = TRUE]
      BY <1>3, <1>4, <2>1 DEF Rq!sip_ctrans_cancel
    <3> HIDE DEF p
    <3>2. p \in Rq!SipReq /\ p.ct.state = q.ct.state /\ p.ct.tmr = TRUE
      BY <1>4, <3>1 DEF Rq!SipReq
    <3>3. /\ p.provrecv = q.provrecv /\ p.dnsq = q.dnsq /\ p.addrl = q.addrl
          /\ p.reqp = q.reqp /\ p.resph = q.resph /\ p.canceled = q.canceled
          /\ p.stateful = q.stateful
      BY <1>4, <3>1 DEF Rq!SipReq
    <3> QED
      BY <1>2, <1>3, <1>4, <3>2, <3>3
  <2>2. CASE ~(~req.provrecv /\ req.canceled /\ q.invite)
    <3>1. p = q
      BY <2>2 DEF Rq!sip_ctrans_cancel
    <3> QED
      BY <1>1, <1>2, <1>3, <1>4, <2>2, <3>1 DEF Attempt, Rq!SipReq
  <2> QED
    BY <2>1, <2>2
<1> HIDE DEF p
<1>6. GoesOn(req, p)
  BY <1>2, <1>5 DEF GoesOn, Lookups, Attempt
<1>7. PICK started \in BOOLEAN : started = FALSE
  OBVIOUS
<1>8. Rq!Going(p, started) /\ ~started
  BY <1>1, <1>7
<1>9. p.ct.state # "none" /\ p.stateful
  BY <1>2, <1>5
<1> QED
  BY <1>1, <1>6, <1>8, <1>9, GoingStep

(* response_handler: a final response, or a failure and the next attempt *)
LEMMA ResultInv ==
  ASSUME ReqInv, NEW failure \in BOOLEAN, Rq!Result(failure)
  PROVE  ReqInv'
<1> DEFINE q == [req EXCEPT !.ct = Rq!NoTrans]
<1>1. /\ alive /\ req.ct.state # "none"
      /\ \/ ~q.canceled /\ Rq!Advance(q)
         \/ Rq!Over(q)
  BY DEF Rq!Result
<1>2. req \in Rq!SipReq /\ req.dnsq = {}
  BY <1>1 DEF ReqInv, ReqTypes, ReqHeld, Attempt
<1>3. /\ q \in Rq!SipReq /\ q.ct.state = "none" /\ q.dnsq = {}
      /\ q.reqp = req.reqp /\ q.resph = req.resph /\ q.canceled = req.canceled
      /\ q.resph \in BOOLEAN
  BY <1>2 DEF Rq!SipReq, Rq!NoTrans
<1> HIDE DEF q
<1>4. CASE Rq!Over(q)
  BY <1>1, <1>3, <1>4, OverStep
<1>5. CASE ~q.canceled /\ Rq!Advance(q)
  BY <1>1, <1>3, <1>5, AdvanceStep DEF Between
<1> QED
  BY <1>1, <1>4, <1>5

(* sip_request_cancel leaves the lookups and the attempt as they are. *)
LEMMA CancelledReq ==
  ASSUME NEW q \in Rq!SipReq, Lookups(q), Attempt(q)
  PROVE  LET p == Rq!sip_request_cancel(q)
         IN /\ p \in Rq!SipReq /\ Lookups(p) /\ Attempt(p)
            /\ p.reqp = q.reqp /\ p.resph = q.resph
            /\ p.ct.state = q.ct.state /\ p.canceled
<1> DEFINE c == [q EXCEPT !.canceled = TRUE]
           p == Rq!sip_request_cancel(q)
<1>1. /\ c \in Rq!SipReq /\ c.canceled = TRUE /\ c.ct = q.ct /\ c.dnsq = q.dnsq /\ c.addrl = q.addrl
      /\ c.reqp = q.reqp /\ c.resph = q.resph /\ c.provrecv = q.provrecv
      /\ c.stateful = q.stateful /\ c.invite = q.invite
  BY DEF Rq!SipReq
<1>2. CASE q.canceled
  BY <1>2 DEF Rq!sip_request_cancel
<1>3. CASE ~q.canceled /\ q.provrecv /\ q.invite /\ q.ct.state = "PROCEEDING"
  <2>1. p = [c EXCEPT !.ct.tmr = TRUE]
    BY <1>1, <1>3 DEF Rq!sip_request_cancel, Rq!sip_ctrans_cancel
  <2> HIDE DEF p, c
  <2>2. p \in Rq!SipReq /\ p.ct.state = c.ct.state /\ p.ct.tmr = TRUE
    BY <1>1, <2>1 DEF Rq!SipReq
  <2>3. /\ p.canceled = c.canceled /\ p.dnsq = c.dnsq /\ p.addrl = c.addrl
        /\ p.reqp = c.reqp /\ p.resph = c.resph /\ p.provrecv = c.provrecv
        /\ p.stateful = c.stateful /\ p.invite = c.invite
    BY <1>1, <2>1 DEF Rq!SipReq
  <2>4. Lookups(p) /\ Attempt(p)
    BY <1>1, <2>2, <2>3 DEF Lookups, Attempt
  <2> QED
    BY <1>1, <2>2, <2>3, <2>4 DEF p
<1>4. CASE ~q.canceled /\ ~(q.provrecv /\ q.invite /\ q.ct.state = "PROCEEDING")
  <2>1. p = c
    BY <1>1, <1>4 DEF Rq!sip_request_cancel, Rq!sip_ctrans_cancel
  <2> HIDE DEF p, c
  <2>2. Lookups(c)
    BY <1>1 DEF Lookups
  <2>3. Attempt(c)
    BY <1>1, <1>4 DEF Attempt
  <2> QED
    BY <1>1, <2>1, <2>2, <2>3 DEF p
<1> QED
  BY <1>2, <1>3, <1>4

(* sip_request_cancel, of a request that its user holds *)
LEMMA CancelInv ==
  ASSUME ReqInv, Rq!Cancel
  PROVE  ReqInv'
<1>1. alive
  BY DEF ReqInv, ReqGone, Rq!Cancel
<1>2. req \in Rq!SipReq /\ Lookups(req) /\ Attempt(req) /\ ~req.canceled /\ reqUser.after = 0
  BY <1>1 DEF ReqInv, ReqTypes, ReqHeld, ReqLast, Rq!Cancel
<1>3. /\ req' \in Rq!SipReq /\ Lookups(req') /\ Attempt(req')
      /\ req'.reqp = req.reqp /\ req'.resph = req.resph
      /\ UNCHANGED <<alive, reqUser>>
  BY <1>2, CancelledReq DEF Rq!Cancel
<1> QED
  BY <1>1, <1>2, <1>3 DEF ReqInv, ReqTypes, ReqGone, ReqHeld, ReqTold, ReqLast

(* The user lets its request go. *)
LEMMA ReleaseInv ==
  ASSUME ReqInv, Rq!Release
  PROVE  ReqInv'
<1>1. alive
  BY DEF ReqInv, ReqGone, Rq!Release
<1>2. /\ req \in Rq!SipReq /\ Lookups(req) /\ Attempt(req)
      /\ reqUser \in ReqUser /\ reqUser.state = "waits" /\ reqUser.finals = 0
  BY <1>1 DEF ReqInv, ReqTypes, ReqHeld, ReqTold, Rq!Release
<1>3. /\ reqUser' \in ReqUser /\ reqUser'.state = "released" /\ reqUser'.ptr = FALSE
      /\ reqUser'.finals = 0 /\ reqUser'.after = reqUser.after
  BY <1>2 DEF Rq!Release, ReqUser
<1>4. CASE ~req.stateful
  <2>1. ~alive' /\ alive' \in BOOLEAN /\ req' = Rq!NoReq
    BY <1>4 DEF Rq!Release
  <2>2. req' \in Rq!SipReq
    BY <2>1, Constants DEF Rq!NoReq, Rq!NoTrans, Rq!SipReq
  <2> QED
    BY <1>3, <2>1, <2>2 DEF ReqInv, ReqTypes, ReqGone, ReqHeld, ReqTold, ReqLast
<1>5. CASE req.stateful
  <2> DEFINE q == [req EXCEPT !.reqp = FALSE, !.resph = FALSE]
  <2>1. /\ q \in Rq!SipReq /\ q.reqp = FALSE /\ q.resph = FALSE
        /\ q.dnsq = req.dnsq /\ q.addrl = req.addrl /\ q.ct = req.ct /\ q.stateful = req.stateful
        /\ q.provrecv = req.provrecv /\ q.canceled = req.canceled /\ q.invite = req.invite
    BY <1>2 DEF Rq!SipReq
  <2>2. req' = Rq!sip_request_cancel(q) /\ alive' = alive
    BY <1>5 DEF Rq!Release
  <2> HIDE DEF q
  <2>3. Lookups(q) /\ Attempt(q)
    BY <1>2, <2>1 DEF Lookups, Attempt
  <2>4. /\ req' \in Rq!SipReq /\ Lookups(req') /\ Attempt(req')
        /\ req'.reqp = FALSE /\ req'.resph = FALSE /\ req'.ct.state = req.ct.state /\ req'.canceled
    BY <2>1, <2>2, <2>3, CancelledReq
  <2> QED
    BY <1>1, <1>3, <2>2, <2>4 DEF ReqInv, ReqTypes, ReqGone, ReqHeld, ReqTold, ReqLast
<1> QED
  BY <1>4, <1>5

(* sip_close: the stack ends its requests. *)
LEMMA CloseInv ==
  ASSUME ReqInv, Rq!Close
  PROVE  ReqInv'
<1>1. alive /\ Rq!Over(req) /\ req.resph \in BOOLEAN
  BY DEF Rq!Close, ReqInv, ReqTypes, Rq!SipReq
<1> QED
  BY <1>1, OverStep

----------------------------------------------------------------------------
(* At first there is no request. *)
LEMMA ReqInitInv ==
  ASSUME Rq!Init
  PROVE  ReqInv
<1>1. req \in Rq!SipReq
  BY Constants DEF Rq!Init, Rq!NoReq, Rq!NoTrans, Rq!SipReq
<1>2. /\ reqUser \in ReqUser /\ reqUser.state = "idle" /\ ~reqUser.ptr
      /\ reqUser.finals = 0 /\ reqUser.after = 0
  BY DEF Rq!Init, ReqUser
<1>3. ~alive /\ alive \in BOOLEAN /\ req = Rq!NoReq
  BY DEF Rq!Init
<1> QED
  BY <1>1, <1>2, <1>3 DEF ReqInv, ReqTypes, ReqGone, ReqHeld, ReqTold, ReqLast

(* Every step preserves the invariant. *)
LEMMA ReqNextInv ==
  ASSUME ReqInv, [Rq!Next]_reqVars
  PROVE  ReqInv'
<1>1. CASE UNCHANGED reqVars
  BY <1>1 DEF reqVars, ReqInv, ReqTypes, ReqGone, ReqHeld, ReqTold, ReqLast
<1>2. CASE Rq!Next
  BY <1>2, RequestInv, NaptrInv, SrvInv, AddrInv, ProvisionalInv, CancelInv, ReleaseInv, CloseInv, ResultInv
    DEF Rq!Next, Rq!Answer
<1> QED
  BY <1>1, <1>2

(* The invariant implies the safety properties. *)
LEMMA ReqInvSafe ==
  ASSUME ReqInv
  PROVE  RequestSafe
<1>1. Rq!PointerValid
  BY DEF ReqInv, ReqTypes, ReqGone, ReqHeld, ReqUser, Rq!PointerValid, Rq!TypeOK
<1>2. Rq!Working /\ Rq!ToldOnce
  BY DEF ReqInv, ReqHeld, ReqTold, Attempt, Rq!Working, Rq!ToldOnce
<1>3. Rq!CancelHolds
  BY DEF ReqInv, ReqTypes, ReqHeld, ReqLast, Attempt, Rq!CancelHolds, Rq!SipReq
<1> QED
  BY <1>1, <1>2, <1>3 DEF RequestSafe, Rq!RequestSafe

(* request.c: the pointer of the user is NULL or leads to a request that will
   reset it, a request under way waits for DNS or for its transaction, the
   user is told one result and none after it let go, and after a
   cancellation at most one more attempt is made, which has its timer. *)
THEOREM RequestsSafe == SipSpec => []RequestSafe
<1>1. SipInit => ReqInv
  BY ReqInitInv DEF SipInit
<1>2. ReqInv /\ [SipNext]_sipVars => ReqInv'
  <2> SUFFICES ASSUME ReqInv, [SipNext]_sipVars
               PROVE  ReqInv'
    OBVIOUS
  <2>1. [Rq!Next]_reqVars
    BY DEF SipNext, sipVars
  <2> QED
    BY <2>1, ReqNextInv
<1>3. ReqInv => RequestSafe
  BY ReqInvSafe
<1> QED
  BY <1>1, <1>2, <1>3, PTL DEF SipSpec

=============================================================================
