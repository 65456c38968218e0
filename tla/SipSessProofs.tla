--------------------------- MODULE SipSessProofs ---------------------------
(***************************************************************************)
(* Proofs about SipSess: its safety invariants hold for every bound on the *)
(* sequence numbers, the INFO requests and the retries.                    *)
(*                                                                         *)
(* The handlers are compositions of operators on the session record, so    *)
(* the proof first says what each operator does to the fields (`Same'      *)
(* lists the fields it may change), then what releasing a reference and    *)
(* terminating do to the inductive invariant, and then goes through the    *)
(* actions.                                                                *)
(***************************************************************************)
EXTENDS SipSess, TLAPS

(* t is s, except for the fields in F. *)
Same(s, t, F) == \A f \in DOMAIN s \ F : t[f] = s[f]

(* A session that loses one reference: its count is one above the holders. *)
Leaving(s) ==
  /\ Sound(s) /\ LiveCore(s) /\ RefCount(s, 1)
  /\ s.terminated = 0 => ~s.app

(* A session in service, as the handlers find it before they end it. *)
Serving(s) ==
  /\ Sound(s) /\ LiveCore(s) /\ RefCount(s, 0)
  /\ s.terminated = 0 /\ s.app

(* A session whose pending request is over: it is terminated now or loses  *)
(* the reference the request held.                                         *)
Ending(s) == Serving(s) \/ (Leaving(s) /\ s.terminated # 0)

(* A truth value counts for zero or one. *)
LEMMA BNat == \A p : B(p) \in {0, 1}
  BY DEF B

(* Waiting for an exchange is a truth value. *)
LEMMA WaitsBool == \A s : Waits(s) \in BOOLEAN
  BY DEF Waits

(* A handler that is given a live session may use it. *)
LEMMA TouchLive ==
  ASSUME NEW s \in Session, s.life = "live"
  PROVE  Touch(s) = s
<1>1. (s.uaf \/ s.life # "live") = s.uaf
  BY DEF Session
<1>2. [s EXCEPT !.uaf = s.uaf] = s
  BY DEF Session
<1> QED
  BY <1>1, <1>2 DEF Touch

----------------------------------------------------------------------------
(* What the operators change. *)

(* Termwait (sess.c:63) takes a reference per kind of pending exchange. *)
LEMMA TermwaitFields ==
  ASSUME NEW s \in Session
  PROVE  /\ termwait(s) \in Session
         /\ termwait(s).nrefs = s.nrefs + B(s.req # "none")
                                  + B(s.replyl # {}) + B(s.requestl # 0)
         /\ termwait(s).terminated = 1 /\ termwait(s).internal
         /\ ~termwait(s).tmr /\ ~termwait(s).st
         /\ Same(s, termwait(s), {"nrefs", "terminated", "internal", "tmr",
                                  "st"})
<1>1. \A n \in Nat : [s EXCEPT !.terminated = 1, !.internal = TRUE,
                               !.tmr = FALSE, !.st = FALSE, !.nrefs = n]
                       \in Session
  BY DEF Session
<1>2. s.nrefs + B(s.req # "none") + B(s.replyl # {}) + B(s.requestl # 0) \in Nat
  BY BNat DEF Session
<1>3. termwait(s) \in Session
  BY <1>1, <1>2 DEF termwait
<1>4. /\ termwait(s).nrefs = s.nrefs + B(s.req # "none")
                                + B(s.replyl # {}) + B(s.requestl # 0)
      /\ termwait(s).terminated = 1 /\ termwait(s).internal
      /\ ~termwait(s).tmr /\ ~termwait(s).st
      /\ Same(s, termwait(s), {"nrefs", "terminated", "internal", "tmr", "st"})
  BY DEF termwait, Session, Same
<1> QED
  BY <1>3, <1>4

(* The last stage ends with or without a BYE under way. *)
LEMMA TerminateFields ==
  ASSUME NEW s \in Session, NEW ok \in BOOLEAN
  PROVE  LET t == terminate(s, ok) IN
         /\ t \in Session /\ t.terminated = 2
         /\ Same(s, t, {"nrefs", "terminated", "req", "bye", "failc",
                        "last_scode"})
         /\ \/ /\ t.nrefs = s.nrefs + 1 /\ t.req = "BYE" /\ t.bye = "sent"
               /\ s.req = "none" /\ s.established /\ ~s.peerterm
            \/ /\ t.nrefs = s.nrefs /\ t.req = s.req
               /\ \/ (~s.established \/ s.peerterm) /\ t.bye = s.bye
                  \/ s.req # "none" /\ t.bye = "busy"
                  \/ s.req = "none" /\ t.bye = "failed"
<1>1. CASE ~s.established \/ s.peerterm
  <2>1. terminate(s, ok) = [s EXCEPT !.terminated = 2]
    BY <1>1 DEF terminate
  <2> QED
    BY <1>1, <2>1 DEF Session, Same
<1>2. CASE ~(~s.established \/ s.peerterm) /\ (s.req # "none" \/ ~ok)
  <2> DEFINE b == IF s.req # "none" THEN "busy" ELSE "failed"
  <2>1. terminate(s, ok) = [s EXCEPT !.terminated = 2, !.bye = b]
    BY <1>2 DEF terminate
  <2>2. \A x \in {"busy", "failed"} :
          [s EXCEPT !.terminated = 2, !.bye = x] \in Session
    BY DEF Session
  <2>3. b \in {"busy", "failed"}
    OBVIOUS
  <2>4. terminate(s, ok) \in Session
    BY <2>1, <2>2, <2>3
  <2> QED
    BY <1>2, <2>1, <2>4 DEF Session, Same
<1>3. CASE ~(~s.established \/ s.peerterm) /\ ~(s.req # "none" \/ ~ok)
  <2>1. terminate(s, ok) = [s EXCEPT !.terminated = 2, !.bye = "sent",
                                     !.req = "BYE", !.failc = 0,
                                     !.last_scode = "none",
                                     !.nrefs = s.nrefs + 1]
    BY <1>3 DEF terminate, Session
  <2>2. \A n \in Nat : [s EXCEPT !.terminated = 2, !.bye = "sent",
                                 !.req = "BYE", !.failc = 0,
                                 !.last_scode = "none", !.nrefs = n]
                         \in Session
    BY DEF Session
  <2>3. s.nrefs + 1 \in Nat
    BY DEF Session
  <2>4. terminate(s, ok) \in Session
    BY <2>1, <2>2, <2>3
  <2>5. /\ terminate(s, ok).terminated = 2
        /\ terminate(s, ok).nrefs = s.nrefs + 1
        /\ terminate(s, ok).req = "BYE"
        /\ terminate(s, ok).bye = "sent"
    BY <2>1 DEF Session
  <2>6. Same(s, terminate(s, ok), {"nrefs", "terminated", "req", "bye",
                                   "failc", "last_scode"})
    BY <2>1 DEF Session, Same
  <2> QED
    BY <1>3, <2>4, <2>5, <2>6
<1> QED
  BY <1>1, <1>2, <1>3

(* The tail of the destructor (sess.c:138) empties the session. *)
LEMMA FreeFields ==
  ASSUME NEW s \in Session
  PROVE  LET t == Free(s) IN
         /\ t \in Session
         /\ t.life = "freed" /\ ~t.inhash /\ ~t.tmr /\ ~t.st
         /\ t.replyl = {} /\ t.requestl = 0 /\ t.req = "none"
         /\ t.orphan = Waits(s)
         /\ Same(s, t, {"life", "inhash", "tmr", "st", "replyl", "awaitl",
                        "requestl", "req", "desc", "orphan"})
<1>1. Free(s) \in Session
  BY WaitsBool DEF Free, Session
<1>2. /\ Free(s).life = "freed" /\ ~Free(s).inhash /\ ~Free(s).tmr
      /\ ~Free(s).st /\ Free(s).replyl = {} /\ Free(s).requestl = 0
      /\ Free(s).req = "none" /\ Free(s).orphan = Waits(s)
  BY DEF Free, Session
<1>3. Same(s, Free(s), {"life", "inhash", "tmr", "st", "replyl", "awaitl",
                        "requestl", "req", "desc", "orphan"})
  BY DEF Free, Session, Same
<1> QED
  BY <1>1, <1>2, <1>3

(* Dropping one reference changes nothing else. *)
LEMMA DerefFields ==
  ASSUME NEW s \in Session, s.nrefs > 0
  PROVE  LET t == [s EXCEPT !.nrefs = @ - 1] IN
         t \in Session /\ t.nrefs = s.nrefs - 1 /\ Same(s, t, {"nrefs"})
<1>1. \A n \in Nat : [s EXCEPT !.nrefs = n] \in Session
  BY DEF Session
<1>2. s.nrefs - 1 \in Nat
  BY DEF Session
<1> QED
  BY <1>1, <1>2 DEF Session, Same

----------------------------------------------------------------------------
(* Releasing a reference and terminating. *)

(* Once nobody else holds the session the destructor frees it, or sends a  *)
(* BYE that holds it.                                                      *)
LEMMA LastStage ==
  ASSUME NEW s, NEW ok \in BOOLEAN,
         Sound(s), LiveCore(s), s.terminated = 1, s.nrefs = 0,
         B(s.closed) = Holders(s)
  PROVE  Inv(FreeUnlessRef(terminate(s, ok)))
<1> DEFINE t == terminate(s, ok)
<1>1. s \in Session
  BY DEF Sound
<1>2. /\ t \in Session /\ t.terminated = 2
      /\ Same(s, t, {"nrefs", "terminated", "req", "bye", "failc",
                     "last_scode"})
      /\ \/ /\ t.nrefs = s.nrefs + 1 /\ t.req = "BYE" /\ t.bye = "sent"
            /\ s.req = "none" /\ s.established /\ ~s.peerterm
         \/ /\ t.nrefs = s.nrefs /\ t.req = s.req
            /\ \/ (~s.established \/ s.peerterm) /\ t.bye = s.bye
               \/ s.req # "none" /\ t.bye = "busy"
               \/ s.req = "none" /\ t.bye = "failed"
  BY <1>1, TerminateFields
<1> HIDE DEF t
<1>3. /\ t.life = s.life /\ t.established = s.established
      /\ t.peerterm = s.peerterm /\ t.internal = s.internal /\ t.st = s.st
      /\ t.tmr = s.tmr /\ t.replyl = s.replyl /\ t.requestl = s.requestl
      /\ t.app = s.app /\ t.closed = s.closed /\ t.inhash = s.inhash /\ t.estabs = s.estabs
      /\ t.closes = s.closes /\ t.uaf = s.uaf
  BY <1>1, <1>2 DEF Session, Same
<1>4. CASE t.nrefs > 0
  BY <1>1, <1>2, <1>3, <1>4
     DEF Sound, LiveCore, Holders, B, Inv, LiveInv, RefCount, FreeUnlessRef, t, Session
<1>5. CASE ~(t.nrefs > 0)
  <2>1. t.nrefs = s.nrefs /\ FreeUnlessRef(t) = Free(t)
    BY <1>1, <1>2, <1>5 DEF FreeUnlessRef, Session
  <2>2. ~s.app /\ (~s.closed => ~Waits(s))
    BY <1>1 DEF Sound, LiveCore, Holders, B, Waits, Session
  <2>3. ~s.closed => ~Waits(t)
    BY <1>2, <1>3, <2>1, <2>2 DEF Waits
  <2>4. t.bye = "busy" => s.closed
    BY <1>1, <1>2, <2>1, <2>2 DEF Sound, Waits, LiveCore
  <2>5. t.established /\ ~t.peerterm => t.bye \in {"sent", "failed", "busy"}
    BY <1>2, <1>3, <2>1
  <2>6. Sound(Free(t)) /\ GoneInv(Free(t))
    <3> DEFINE u == Free(t)
    <3>1. /\ u \in Session
          /\ u.life = "freed" /\ ~u.inhash /\ ~u.tmr /\ ~u.st
          /\ u.replyl = {} /\ u.requestl = 0 /\ u.req = "none"
          /\ u.orphan = Waits(t)
          /\ Same(t, u, {"life", "inhash", "tmr", "st", "replyl", "awaitl",
                         "requestl", "req", "desc", "orphan"})
      BY <1>2, FreeFields
    <3> HIDE DEF u
    <3>2. /\ u.terminated = t.terminated /\ u.established = t.established
          /\ u.peerterm = t.peerterm /\ u.app = t.app /\ u.closed = t.closed
          /\ u.bye = t.bye /\ u.estabs = t.estabs /\ u.closes = t.closes
          /\ u.uaf = t.uaf
      BY <1>2, <3>1 DEF Session, Same
    <3> QED
      BY <1>2, <1>3, <2>2, <2>3, <2>4, <2>5, <3>1, <3>2
         DEF Sound, GoneInv, u
  <2> QED
    BY <2>1, <2>6 DEF Inv, t
<1> QED
  BY <1>4, <1>5

(* The second deref of a session that was released before. *)
LEMMA FreeLast ==
  ASSUME NEW s, Sound(s), LiveCore(s), s.terminated = 2, s.nrefs = 0,
         B(s.closed) = Holders(s)
  PROVE  Inv(Free(s))
<1> DEFINE u == Free(s)
<1>1. s \in Session
  BY DEF Sound
<1>2. /\ u \in Session
      /\ u.life = "freed" /\ ~u.inhash /\ ~u.tmr /\ ~u.st
      /\ u.replyl = {} /\ u.requestl = 0 /\ u.req = "none"
      /\ u.orphan = Waits(s)
      /\ Same(s, u, {"life", "inhash", "tmr", "st", "replyl", "awaitl",
                     "requestl", "req", "desc", "orphan"})
  BY <1>1, FreeFields
<1> HIDE DEF u
<1>3. /\ u.terminated = s.terminated /\ u.established = s.established
      /\ u.peerterm = s.peerterm /\ u.app = s.app /\ u.closed = s.closed
      /\ u.bye = s.bye /\ u.estabs = s.estabs /\ u.closes = s.closes
      /\ u.uaf = s.uaf
  BY <1>1, <1>2 DEF Session, Same
<1>4. ~s.app /\ (~s.closed => ~Waits(s))
  BY <1>1 DEF Sound, LiveCore, Holders, B, Waits, Session
<1> QED
  BY <1>2, <1>3, <1>4 DEF Sound, GoneInv, LiveCore, Inv, u

(* Termwait keeps the core of the invariant, and its references are those  *)
(* of the exchanges under way.                                             *)
LEMMA TermwaitCore ==
  ASSUME NEW s, Sound(s), LiveCore(s), s.terminated = 0
  PROVE  LET t == termwait(s) IN
         /\ Sound(t) /\ LiveCore(t) /\ t.terminated = 1
         /\ t.nrefs - s.nrefs = Holders(t) - Holders(s)
         /\ t.app = s.app /\ t.closed = s.closed /\ t.inhash = s.inhash /\ t.closes = s.closes
         /\ t.requestl = s.requestl /\ Waits(t) = Waits(s)
         /\ t.established = s.established /\ t.estabs = s.estabs
<1> DEFINE t == termwait(s)
<1>1. s \in Session
  BY DEF Sound
<1>2. /\ t \in Session
      /\ t.nrefs = s.nrefs + B(s.req # "none")
                     + B(s.replyl # {}) + B(s.requestl # 0)
      /\ t.terminated = 1 /\ t.internal /\ ~t.tmr /\ ~t.st
      /\ Same(s, t, {"nrefs", "terminated", "internal", "tmr", "st"})
  BY <1>1, TermwaitFields
<1> HIDE DEF t
<1>3. /\ t.life = s.life /\ t.established = s.established
      /\ t.peerterm = s.peerterm /\ t.req = s.req /\ t.bye = s.bye
      /\ t.replyl = s.replyl /\ t.requestl = s.requestl
      /\ t.app = s.app /\ t.closed = s.closed /\ t.inhash = s.inhash /\ t.estabs = s.estabs
      /\ t.closes = s.closes /\ t.uaf = s.uaf
  BY <1>1, <1>2 DEF Session, Same
<1>4. Sound(t) /\ LiveCore(t)
  BY <1>1, <1>2, <1>3 DEF Sound, LiveCore
<1>5. t.nrefs - s.nrefs = Holders(t) - Holders(s)
  BY <1>1, <1>2, <1>3 DEF Holders, B, Session
<1>6. Waits(t) = Waits(s)
  BY <1>3 DEF Waits
<1> QED
  BY <1>2, <1>3, <1>4, <1>5, <1>6 DEF t

(* Whatever reference is dropped, the invariant holds afterwards. *)
LEMMA MemDeref ==
  ASSUME NEW s, NEW ok \in BOOLEAN, Leaving(s)
  PROVE  Inv(mem_deref(s, ok))
<1> DEFINE t == [s EXCEPT !.nrefs = @ - 1]
<1>1. s \in Session /\ Touch(s) = s
  BY TouchLive DEF Leaving, Sound, LiveCore
<1>2. t \in Session /\ t.nrefs = s.nrefs - 1 /\ Same(s, t, {"nrefs"})
  BY <1>1, DerefFields DEF Leaving, RefCount
<1>3. mem_deref(s, ok) = IF t.nrefs > 0 THEN t ELSE destructor(t, ok)
  BY <1>1 DEF mem_deref
<1> HIDE DEF t
<1>4. /\ t.life = s.life /\ t.established = s.established
      /\ t.peerterm = s.peerterm /\ t.req = s.req /\ t.bye = s.bye
      /\ t.replyl = s.replyl /\ t.requestl = s.requestl
      /\ t.app = s.app /\ t.closed = s.closed /\ t.inhash = s.inhash /\ t.estabs = s.estabs
      /\ t.closes = s.closes /\ t.uaf = s.uaf /\ t.terminated = s.terminated
      /\ t.internal = s.internal /\ t.tmr = s.tmr /\ t.st = s.st
  BY <1>1, <1>2 DEF Session, Same
<1>5. Sound(t) /\ LiveCore(t)
  BY <1>2, <1>4 DEF Leaving, Sound, LiveCore
<1>6. Holders(t) = Holders(s) /\ Holders(s) \in Nat
  BY <1>1, <1>4, BNat DEF Holders
<1>7. t.nrefs + B(t.closed) = Holders(t)
  BY <1>1, <1>2, <1>4, <1>6, BNat DEF Leaving, RefCount, Session
<1>8. CASE t.nrefs > 0
  <2>1. CASE t.terminated = 0
    <3>1. ~t.app /\ ~t.closed
      BY <1>4, <1>5, <2>1 DEF Leaving, LiveCore
    <3> QED
      BY <1>2, <1>7, <1>8, <2>1, <3>1 DEF Holders, B, Session
  <2>2. CASE t.terminated # 0
    <3>1. RefCount(t, 0)
      BY <1>6, <1>7, <1>8 DEF RefCount
    <3> QED
      BY <1>3, <1>5, <1>8, <2>2, <3>1 DEF Inv, LiveInv
  <2> QED
    BY <2>1, <2>2
<1>9. CASE ~(t.nrefs > 0)
  <2>0. t.nrefs \in Nat /\ B(t.closed) \in {0, 1}
    BY <1>2, BNat DEF Session
  <2>1. t.nrefs = 0 /\ B(t.closed) = Holders(t)
    BY <1>7, <1>9, <2>0
  <2>2. CASE t.terminated = 0
    <3>1. ~t.closed
      BY <1>5, <2>2 DEF LiveCore
    <3> DEFINE w == termwait(t)
    <3>2. /\ Sound(w) /\ LiveCore(w) /\ w.terminated = 1
          /\ w.nrefs - t.nrefs = Holders(w) - Holders(t)
          /\ w.closed = t.closed /\ w.inhash = t.inhash /\ Waits(w) = Waits(t)
      BY <1>5, <2>2, TermwaitCore
    <3>3. w \in Session /\ w.nrefs \in Nat /\ Holders(w) \in Nat
      BY <3>2, BNat DEF Sound, Session, Holders
    <3> HIDE DEF w
    <3>4. w.nrefs = Holders(w)
      BY <2>1, <3>1, <3>2, <3>3, <1>6 DEF B
    <3>5. CASE Waits(t)
      <4>1. Waits(w)
        BY <3>2, <3>5
      <4>2. w.nrefs > 0
        BY <3>2, <3>3, <3>4, <4>1 DEF Waits, Holders, B
      <4> QED
        BY <1>3, <1>9, <2>2, <3>1, <3>2, <3>3, <3>4, <3>5, <4>2
           DEF destructor, Inv, LiveInv, RefCount, w, B
    <3>6. CASE ~Waits(t)
      <4>1. ~Waits(w)
        BY <3>2, <3>6
      <4>2. ~w.app
        BY <1>4, <2>2, TermwaitCore, <1>5 DEF Leaving, w
      <4>3. Holders(w) = 0
        BY <4>1, <4>2 DEF Holders, Waits, B
      <4>4. Inv(FreeUnlessRef(terminate(w, ok)))
        BY <3>1, <3>2, <3>4, <4>3, LastStage DEF B
      <4> QED
        BY <1>3, <1>9, <2>2, <3>6, <4>4 DEF destructor, w
    <3> QED
      BY <3>5, <3>6
  <2>3. CASE t.terminated = 1
    BY <1>3, <1>5, <1>9, <2>1, <2>3, LastStage DEF destructor
  <2>4. CASE t.terminated = 2
    BY <1>3, <1>5, <1>9, <2>1, <2>4, FreeLast DEF destructor
  <2> QED
    BY <1>2, <2>2, <2>3, <2>4 DEF Session
<1> QED
  BY <1>8, <1>9

(* A reference that is not the last one. *)
LEMMA DerefLive ==
  ASSUME NEW s, NEW ok \in BOOLEAN, Leaving(s), s.terminated = 1, s.nrefs > 1
  PROVE  LET e == mem_deref(s, ok) IN
         LiveInv(e) /\ e.terminated = 1 /\ e.requestl = s.requestl
<1> DEFINE t == [s EXCEPT !.nrefs = @ - 1]
<1>1. s \in Session /\ Touch(s) = s
  BY TouchLive DEF Leaving, Sound, LiveCore
<1>2. t \in Session /\ t.nrefs = s.nrefs - 1 /\ Same(s, t, {"nrefs"})
  BY <1>1, DerefFields DEF Leaving, RefCount
<1>3. mem_deref(s, ok) = t
  <2>1. t.nrefs > 0
    BY <1>1, <1>2 DEF Session
  <2> QED
    BY <1>1, <2>1 DEF mem_deref
<1> HIDE DEF t
<1>4. t.terminated = 1 /\ t.requestl = s.requestl /\ t.life = "live"
  BY <1>1, <1>2 DEF Session, Same, Leaving, LiveCore
<1>5. Inv(t)
  BY <1>3, MemDeref
<1> QED
  BY <1>3, <1>4, <1>5 DEF Inv, GoneInv

(* Sipsess_terminate takes a session out of service; a session that waits  *)
(* for an exchange survives it, even if the application lets go.           *)
LEMMA SessTerminate ==
  ASSUME NEW s, NEW drop \in BOOLEAN, NEW ok \in BOOLEAN, Serving(s)
  PROVE  LET e == sipsess_terminate(s, drop, ok) IN
         /\ Inv(e)
         /\ Waits(s) => LiveInv(e) /\ e.terminated = 1 /\ e.requestl = s.requestl
<1> DEFINE w == termwait(s)
           t == IF Waits(s) THEN w ELSE terminate(w, ok)
           u == [t EXCEPT !.closes = @ + 1]
<1>1. s \in Session /\ s.life = "live" /\ s.closes = 0 /\ ~s.closed
  BY DEF Serving, Sound, LiveCore
<1>2. /\ Sound(w) /\ LiveCore(w) /\ w.terminated = 1
      /\ w.nrefs - s.nrefs = Holders(w) - Holders(s)
      /\ w.app = s.app /\ w.closed = s.closed /\ w.inhash = s.inhash /\ w.closes = s.closes
      /\ w.requestl = s.requestl /\ Waits(w) = Waits(s)
      /\ w.established = s.established /\ w.estabs = s.estabs
  BY TermwaitCore DEF Serving
<1>3. w.nrefs = Holders(w) /\ w.nrefs > 0
  <2>1. s.nrefs = Holders(s) /\ w.nrefs \in Nat /\ s.nrefs \in Nat
    BY <1>1, <1>2, BNat DEF Serving, RefCount, B, Sound, Session, Holders
  <2>2. Holders(w) \in Nat /\ Holders(w) > 0
    BY <1>2, BNat DEF Serving, Holders, B
  <2> QED
    BY <1>2, <2>1, <2>2
<1> HIDE DEF w
<1>4. /\ t \in Session /\ Sound(t) /\ LiveCore(t) /\ t.terminated # 0
      /\ RefCount(t, 0) /\ t.app /\ ~t.closed /\ t.closes = 0
      /\ Waits(s) => t.terminated = 1 /\ t.requestl = s.requestl
  <2>1. CASE Waits(s)
    <3>1. t = w
      BY <2>1
    <3>2. w \in Session /\ w.app /\ ~w.closed /\ w.closes = 0
      BY <1>1, <1>2 DEF Sound, Serving
    <3>3. RefCount(w, 0)
      BY <1>3, <3>2 DEF RefCount, B, Session
    <3> QED
      BY <1>2, <3>1, <3>2, <3>3
  <2>2. CASE ~Waits(s)
    <3> DEFINE v == terminate(w, ok)
    <3>1. w \in Session
      BY <1>2 DEF Sound
    <3>2. /\ v \in Session /\ v.terminated = 2
          /\ Same(w, v, {"nrefs", "terminated", "req", "bye", "failc",
                         "last_scode"})
          /\ \/ /\ v.nrefs = w.nrefs + 1 /\ v.req = "BYE" /\ v.bye = "sent"
                /\ w.req = "none" /\ w.established /\ ~w.peerterm
             \/ /\ v.nrefs = w.nrefs /\ v.req = w.req
                /\ \/ (~w.established \/ w.peerterm) /\ v.bye = w.bye
                   \/ w.req # "none" /\ v.bye = "busy"
                   \/ w.req = "none" /\ v.bye = "failed"
      BY <3>1, TerminateFields
    <3> HIDE DEF v
    <3>3. /\ v.life = w.life /\ v.established = w.established
          /\ v.peerterm = w.peerterm /\ v.internal = w.internal
          /\ v.st = w.st /\ v.tmr = w.tmr /\ v.replyl = w.replyl
          /\ v.requestl = w.requestl /\ v.app = w.app
          /\ v.closed = w.closed /\ v.inhash = w.inhash /\ v.estabs = w.estabs
          /\ v.closes = w.closes /\ v.uaf = w.uaf
      BY <3>1, <3>2 DEF Session, Same
    <3>4. w.req = "none" /\ w.replyl = {} /\ w.requestl = 0
      BY <1>2, <2>2 DEF Waits
    <3>5. Sound(v) /\ LiveCore(v)
      BY <1>2, <3>2, <3>3, <3>4 DEF Sound, LiveCore
    <3>6. RefCount(v, 0)
      BY <1>1, <1>2, <1>3, <3>1, <3>2, <3>3, <3>4
         DEF RefCount, Holders, B, Session
    <3>7. t = v
      BY <2>2 DEF v
    <3>8. v.app /\ ~v.closed /\ v.closes = 0
      BY <1>1, <1>2, <3>3 DEF Serving
    <3> QED
      BY <2>2, <3>2, <3>5, <3>6, <3>7, <3>8
  <2> QED
    BY <2>1, <2>2
<1>5. Touch(t) = t
  BY <1>4, TouchLive DEF LiveCore
<1>6. sipsess_terminate(s, drop, ok) = IF drop THEN AppDeref(u, ok) ELSE u
  BY <1>5 DEF sipsess_terminate, Serving, w
<1> HIDE DEF t
<1>7. u \in Session /\ u.closes = 1 /\ Same(t, u, {"closes"})
  <2>1. \A n \in Nat : [t EXCEPT !.closes = n] \in Session
    BY <1>4 DEF Session
  <2>2. t.closes + 1 = 1
    BY <1>4
  <2>3. u = [t EXCEPT !.closes = 1]
    BY <1>4, <2>2 DEF Session
  <2> QED
    BY <1>4, <2>1, <2>3 DEF Session, Same
<1> HIDE DEF u
<1>8. /\ u.life = t.life /\ u.established = t.established
      /\ u.peerterm = t.peerterm /\ u.req = t.req /\ u.bye = t.bye
      /\ u.replyl = t.replyl /\ u.requestl = t.requestl
      /\ u.app = t.app /\ u.closed = t.closed /\ u.inhash = t.inhash /\ u.estabs = t.estabs
      /\ u.uaf = t.uaf /\ u.terminated = t.terminated /\ u.nrefs = t.nrefs
      /\ u.internal = t.internal /\ u.tmr = t.tmr /\ u.st = t.st
  <2>1. t \in Session
    BY <1>4
  <2>2. Same(t, u, {"closes"})
    BY <1>7
  <2> QED
    BY <2>1, <2>2 DEF Session, Same
<1>9. Sound(u) /\ LiveCore(u) /\ RefCount(u, 0)
  <2>1. Sound(u)
    BY <1>4, <1>7, <1>8 DEF Sound
  <2>2. LiveCore(u)
    BY <1>4, <1>8 DEF LiveCore
  <2>3. Holders(u) = Holders(t)
    BY <1>8 DEF Holders
  <2>4. RefCount(u, 0)
    BY <1>4, <1>8, <2>3 DEF RefCount
  <2> QED
    BY <2>1, <2>2, <2>4
<1>10. CASE ~drop
  BY <1>4, <1>6, <1>8, <1>9, <1>10 DEF Inv, LiveInv
<1>11. CASE drop
  <2> DEFINE v == [u EXCEPT !.app = FALSE]
  <2>1. v \in Session /\ ~v.app /\ Same(u, v, {"app"})
    BY <1>7 DEF Session, Same
  <2> HIDE DEF v
  <2>2. /\ v.life = u.life /\ v.established = u.established
        /\ v.peerterm = u.peerterm /\ v.req = u.req /\ v.bye = u.bye
        /\ v.replyl = u.replyl /\ v.requestl = u.requestl
        /\ v.closed = u.closed /\ v.inhash = u.inhash /\ v.estabs = u.estabs /\ v.closes = u.closes
        /\ v.uaf = u.uaf /\ v.terminated = u.terminated /\ v.nrefs = u.nrefs
        /\ v.internal = u.internal /\ v.tmr = u.tmr /\ v.st = u.st
    BY <1>7, <2>1 DEF Session, Same
  <2>3. Sound(v) /\ LiveCore(v)
    BY <1>9, <2>1, <2>2 DEF Sound, LiveCore
  <2>4. RefCount(v, 1)
    BY <1>4, <1>7, <1>8, <1>9, <2>1, <2>2, BNat
       DEF RefCount, Holders, B, Session
  <2>5. Leaving(v)
    BY <1>4, <1>8, <2>2, <2>3, <2>4 DEF Leaving
  <2>6. sipsess_terminate(s, drop, ok) = mem_deref(v, ok)
    BY <1>6, <1>11 DEF AppDeref, v
  <2>7. Inv(mem_deref(v, ok))
    BY <2>5, MemDeref
  <2>8. ASSUME Waits(s)
        PROVE  LET e == mem_deref(v, ok) IN
               LiveInv(e) /\ e.terminated = 1 /\ e.requestl = s.requestl
    <3>1. v.terminated = 1 /\ v.requestl = s.requestl /\ Waits(v)
      BY <1>2, <1>4, <1>8, <2>2, <2>8 DEF Waits, t
    <3>2. v.nrefs > 1
      BY <2>1, <2>3, <2>4, <3>1, <1>4, <1>8, <2>2
         DEF RefCount, Holders, B, Waits, Session
    <3> QED
      BY <2>1, <2>5, <3>1, <3>2, DerefLive
  <2> QED
    BY <2>6, <2>7, <2>8
<1> QED
  BY <1>10, <1>11

(* Ending a session or dropping its reference keeps the invariant. *)
LEMMA FinishInv ==
  ASSUME NEW s, NEW drop \in BOOLEAN, NEW ok \in BOOLEAN, Ending(s)
  PROVE  Inv(Finish(s, drop, ok))
<1>1. CASE Serving(s)
  <2>1. Finish(s, drop, ok) = sipsess_terminate(s, drop, ok)
    BY <1>1 DEF Finish, Serving
  <2> QED
    BY <1>1, <2>1, SessTerminate
<1>2. CASE Leaving(s) /\ s.terminated # 0
  BY <1>2, MemDeref DEF Finish
<1> QED
  BY <1>1, <1>2 DEF Ending

----------------------------------------------------------------------------
(* The client request completes. *)

(* A completed request is cleared and counted for loop detection. *)
LEMMA CompletedFields ==
  ASSUME NEW s \in Session, s.life = "live", NEW c \in Code
  PROVE  LET r == Completed(s, c) IN
         /\ r \in Session /\ r.req = "none"
         /\ Same(s, r, {"req", "failc", "last_scode"})
<1> DEFINE n == IF c = "2xx" THEN 0 ELSE s.failc + 1
<1>1. n \in Nat
  BY DEF Session
<1>2. Completed(s, c) = [[s EXCEPT !.failc = n, !.last_scode = c]
                           EXCEPT !.req = "none"]
  BY TouchLive DEF Completed, LoopState
<1> HIDE DEF n
<1>3. Completed(s, c) \in Session
  <2>1. \A x \in Nat : [s EXCEPT !.failc = x, !.last_scode = c] \in Session
    BY DEF Session
  <2>2. \A r \in Session : [r EXCEPT !.req = "none"] \in Session
    BY DEF Session
  <2> QED
    BY <1>1, <1>2, <2>1, <2>2
<1>4. /\ Completed(s, c).req = "none"
      /\ Same(s, Completed(s, c), {"req", "failc", "last_scode"})
  BY <1>2 DEF Session, Same
<1> QED
  BY <1>3, <1>4

(* A failed request is cleared. *)
LEMMA FailedFields ==
  ASSUME NEW s \in Session, s.life = "live"
  PROVE  LET r == Failed(s) IN
         r \in Session /\ r.req = "none" /\ Same(s, r, {"req"})
<1>1. Failed(s) = [s EXCEPT !.req = "none"]
  BY TouchLive DEF Failed
<1> QED
  BY <1>1 DEF Session, Same

(* The fields a response handler may change before the session ends. *)
Handled == {"req", "failc", "last_scode", "established", "modify_pending",
            "sent_offer", "desc"}

(* A session whose request is over is ready to end. *)
LEMMA RequestEnded ==
  ASSUME NEW s, Inv(s), s.req # "none",
         NEW r \in Session, r.req = "none", Same(s, r, Handled),
         r.established = s.established \/ s.req = "INVITE"
  PROVE  Ending(r)
<1>1. LiveInv(s) /\ s \in Session /\ Sound(s)
  BY DEF Inv, GoneInv, Sound
<1>2. /\ r.life = s.life /\ r.peerterm = s.peerterm /\ r.bye = s.bye
      /\ r.replyl = s.replyl /\ r.requestl = s.requestl
      /\ r.app = s.app /\ r.closed = s.closed /\ r.inhash = s.inhash /\ r.estabs = s.estabs
      /\ r.closes = s.closes /\ r.uaf = s.uaf /\ r.nrefs = s.nrefs
      /\ r.terminated = s.terminated
      /\ r.internal = s.internal /\ r.tmr = s.tmr /\ r.st = s.st
  BY <1>1 DEF Session, Same, Handled
<1>3. Sound(r)
  BY <1>1, <1>2 DEF Sound
<1>4. LiveCore(r)
  BY <1>1, <1>2 DEF LiveInv, LiveCore, Session
<1>5. CASE s.terminated = 0
  <2>1. Holders(r) = Holders(s)
    BY <1>2, <1>5 DEF Holders
  <2>2. RefCount(r, 0)
    BY <1>1, <1>2, <2>1 DEF RefCount, LiveInv
  <2> QED
    BY <1>1, <1>2, <1>3, <1>4, <1>5, <2>2
       DEF Ending, Serving, LiveInv, InService
<1>6. CASE s.terminated # 0
  <2>1. Holders(s) = Holders(r) + 1 /\ Holders(r) \in Nat
    BY <1>1, <1>2, <1>6, BNat DEF Holders, B
  <2>2. RefCount(r, 1)
    BY <1>1, <1>2, <2>1 DEF RefCount, LiveInv
  <2> QED
    BY <1>2, <1>3, <1>4, <1>6, <2>2 DEF Ending, Leaving
<1> QED
  BY <1>5, <1>6

(* The fields that describe the exchanges under way. *)
Exchange == {"req", "failc", "last_scode", "established", "modify_pending",
             "sent_offer", "desc", "tmr", "st", "replyl", "awaitl",
             "awaiting_answer", "rseq", "estabs", "requestl", "offer"}

(* A session in service whose exchanges were changed within these fields   *)
(* stays in service.                                                       *)
LEMMA StaysInService ==
  ASSUME NEW s, Inv(s), s.life = "live", s.terminated = 0,
         NEW r \in Session, Same(s, r, Exchange),
         InService(r), r.req # "BYE", r.estabs <= 1
  PROVE  Inv(r)
<1>1. LiveInv(s) /\ s \in Session /\ Sound(s)
  BY DEF Inv, GoneInv, Sound
<1>2. /\ r.life = s.life /\ r.peerterm = s.peerterm /\ r.bye = s.bye
      /\ r.app = s.app /\ r.closed = s.closed /\ r.inhash = s.inhash
      /\ r.closes = s.closes /\ r.uaf = s.uaf /\ r.nrefs = s.nrefs
      /\ r.terminated = s.terminated /\ r.internal = s.internal
  BY <1>1 DEF Session, Same, Exchange
<1>3. Sound(r)
  BY <1>1, <1>2 DEF Sound
<1>4. LiveCore(r)
  BY <1>1, <1>2 DEF LiveInv, LiveCore
<1>5. RefCount(r, 0)
  <2>1. Holders(r) = Holders(s)
    BY <1>2 DEF Holders
  <2> QED
    BY <1>1, <1>2, <2>1 DEF RefCount, LiveInv
<1> QED
  BY <1>2, <1>3, <1>4, <1>5 DEF Inv, LiveInv

----------------------------------------------------------------------------
(* Requests and replies that the handlers send. *)

(* Fewer fields may change within more. *)
LEMMA SameMono ==
  ASSUME NEW s, NEW r, NEW F, NEW G, F \subseteq G, Same(s, r, F)
  PROVE  Same(s, r, G)
  BY DEF Same

(* Changes one after the other. *)
LEMMA SameTrans ==
  ASSUME NEW s \in Session, NEW t \in Session, NEW u, NEW F, NEW G, NEW H,
         Same(s, t, F), Same(t, u, G), F \subseteq H, G \subseteq H
  PROVE  Same(s, u, H)
<1>1. DOMAIN s = DOMAIN t
  BY DEF Session
<1> QED
  BY <1>1 DEF Same

(* invite (connect.c:126) sends the INVITE or fails. *)
LEMMA InviteFields ==
  ASSUME NEW s \in Session, NEW send \in BOOLEAN
  PROVE  LET r == invite(s, send) IN
         /\ r \in Session /\ ~r.modify_pending
         /\ r.req = IF send THEN "INVITE" ELSE "none"
         /\ Same(s, r, {"sent_offer", "modify_pending", "req"})
<1> DEFINE q == IF send THEN "INVITE" ELSE "none"
<1>1. q \in {"INVITE", "none"}
  OBVIOUS
<1>2. invite(s, send) = [s EXCEPT !.sent_offer = s.desc,
                                  !.modify_pending = FALSE, !.req = q]
  BY DEF invite
<1>3. \A x \in {"INVITE", "none"}, d \in BOOLEAN :
        [s EXCEPT !.sent_offer = d, !.modify_pending = FALSE, !.req = x]
          \in Session
  BY DEF Session
<1>4. s.desc \in BOOLEAN
  BY DEF Session
<1>5. invite(s, send) \in Session
  BY <1>1, <1>2, <1>3, <1>4
<1> HIDE DEF q
<1>6. /\ ~invite(s, send).modify_pending /\ invite(s, send).req = q
      /\ Same(s, invite(s, send), {"sent_offer", "modify_pending", "req"})
  BY <1>2 DEF Session, Same
<1> QED
  BY <1>5, <1>6 DEF q

(* sipsess_reinvite (modify.c:119) with no request pending. *)
LEMMA ReinviteFields ==
  ASSUME NEW s \in Session, s.req = "none",
         NEW reset \in BOOLEAN, NEW send \in BOOLEAN
  PROVE  LET r == sipsess_reinvite(s, reset, send) IN
         /\ r \in Session /\ ~r.modify_pending
         /\ r.req = IF send THEN "REINVITE" ELSE "none"
         /\ Same(s, r, {"sent_offer", "modify_pending", "req", "failc",
                        "last_scode"})
<1> DEFINE q == IF send THEN "REINVITE" ELSE "none"
           n == IF reset THEN 0 ELSE s.failc
           l == IF reset THEN "none" ELSE s.last_scode
           u(x, y, z, d) == [s EXCEPT !.sent_offer = d,
                               !.modify_pending = FALSE, !.failc = x,
                               !.last_scode = y, !.req = z]
<1>1. /\ q \in {"REINVITE", "none"} /\ n \in Nat
      /\ l \in Code \cup {"none"} /\ s.desc \in BOOLEAN
  BY DEF Session
<1>2. sipsess_reinvite(s, reset, send) = u(n, l, q, s.desc)
  BY DEF sipsess_reinvite, Session
<1>3. \A x \in Nat, y \in Code \cup {"none"}, z \in {"REINVITE", "none"},
         d \in BOOLEAN : u(x, y, z, d) \in Session
  <2>1. \A d \in BOOLEAN :
          [s EXCEPT !.sent_offer = d, !.modify_pending = FALSE] \in Session
    BY DEF Session
  <2>2. \A r \in Session, x \in Nat : [r EXCEPT !.failc = x] \in Session
    BY DEF Session
  <2>3. \A r \in Session, y \in Code \cup {"none"} :
          [r EXCEPT !.last_scode = y] \in Session
    BY DEF Session
  <2>4. \A r \in Session, z \in {"REINVITE", "none"} :
          [r EXCEPT !.req = z] \in Session
    BY DEF Session
  <2> QED
    BY <2>1, <2>2, <2>3, <2>4
<1> HIDE DEF q, n, l, u
<1>4. sipsess_reinvite(s, reset, send) \in Session
  BY <1>1, <1>2, <1>3
<1> USE DEF u
<1>5. /\ ~sipsess_reinvite(s, reset, send).modify_pending
      /\ sipsess_reinvite(s, reset, send).req = q
      /\ Same(s, sipsess_reinvite(s, reset, send),
              {"sent_offer", "modify_pending", "req", "failc", "last_scode"})
  BY <1>2 DEF Session, Same
<1> QED
  BY <1>4, <1>5 DEF q

(* sipsess_reply_2xx (reply.c:79) closes the transaction. *)
LEMMA Reply2xxFields ==
  ASSUME NEW s \in Session, NEW c \in CSeq, NEW offer \in BOOLEAN,
         NEW desc \in BOOLEAN, NEW send \in BOOLEAN
  PROVE  LET r == sipsess_reply_2xx(s, c, offer, desc, send) IN
         /\ r \in Session /\ ~r.st
         /\ r.replyl = IF send THEN s.replyl \cup {c} ELSE s.replyl
         /\ Same(s, r, {"st", "replyl", "awaitl", "awaiting_answer"})
<1>1. CASE ~send
  <2> DEFINE r == [s EXCEPT !.st = FALSE]
  <2>1. sipsess_reply_2xx(s, c, offer, desc, send) = r
    BY <1>1 DEF sipsess_reply_2xx
  <2>2. r \in Session
    BY DEF Session
  <2>3. /\ ~r.st /\ r.replyl = s.replyl
        /\ Same(s, r, {"st", "replyl", "awaitl", "awaiting_answer"})
    BY DEF Session, Same
  <2> HIDE DEF r
  <2> QED
    BY <1>1, <2>1, <2>2, <2>3
<1>2. CASE send
  <2> DEFINE a == IF ~offer /\ desc THEN s.awaitl \cup {c} ELSE s.awaitl
             w == s.awaiting_answer \/ (~offer /\ desc)
             u(x, y, z) == [s EXCEPT !.st = FALSE, !.replyl = x, !.awaitl = y,
                                     !.awaiting_answer = z]
  <2>1. a \in SUBSET CSeq /\ w \in BOOLEAN /\ s.replyl \cup {c} \in SUBSET CSeq
    BY DEF Session
  <2>2. sipsess_reply_2xx(s, c, offer, desc, send)
          = u(s.replyl \cup {c}, a, w)
    BY <1>2 DEF sipsess_reply_2xx, Session
  <2>3. \A x, y \in SUBSET CSeq, z \in BOOLEAN : u(x, y, z) \in Session
    BY DEF Session
  <2> HIDE DEF a, w, u
  <2>4. sipsess_reply_2xx(s, c, offer, desc, send) \in Session
    BY <2>1, <2>2, <2>3
  <2> USE DEF u
  <2>5. LET r == sipsess_reply_2xx(s, c, offer, desc, send) IN
        /\ ~r.st /\ r.replyl = s.replyl \cup {c}
        /\ Same(s, r, {"st", "replyl", "awaitl", "awaiting_answer"})
    BY <2>2 DEF Session, Same
  <2> QED
    BY <1>2, <2>4, <2>5
<1> QED
  BY <1>1, <1>2

----------------------------------------------------------------------------
(* The actions preserve the invariant. *)

(* Whoever can reach the session finds it alive. *)
LEMMA Alive ==
  ASSUME IInv,
         \/ sess.app \/ sess.inhash \/ sess.st \/ sess.tmr
         \/ sess.req # "none" \/ sess.replyl # {} \/ sess.requestl # 0
  PROVE  /\ sess \in Session /\ sess.life = "live" /\ Touch(sess) = sess
         /\ Sound(sess) /\ LiveInv(sess) /\ Inv(sess)
<1>1. sess \in Session /\ Sound(sess) /\ LiveInv(sess) /\ Inv(sess)
  BY DEF IInv, Inv, GoneInv, Sound
<1> QED
  BY <1>1, TouchLive DEF LiveInv, LiveCore

(* An INVITE or re-INVITE under way is the only exchange. *)
LEMMA Alone ==
  ASSUME NEW s \in Session, InService(s), s.req # "none"
  PROVE  ~s.tmr /\ s.replyl = {} /\ ~s.st
  BY DEF InService, B, Session

(* A request that ends without a response, or with one. *)
LEMMA FailedEnding ==
  ASSUME IInv, sess.req # "none"
  PROVE  Ending(Failed(sess))
<1> DEFINE r == Failed(sess)
<1>1. sess \in Session /\ sess.life = "live" /\ Inv(sess)
  BY Alive
<1>2. r \in Session /\ r.req = "none" /\ Same(sess, r, {"req"})
  BY <1>1, FailedFields
<1> HIDE DEF r
<1>3. Same(sess, r, Handled)
  BY <1>2, SameMono DEF Handled
<1>4. r.established = sess.established
  BY <1>1, <1>2 DEF Session, Same
<1>5. Ending(r)
  BY <1>1, <1>2, <1>3, <1>4, RequestEnded
<1> QED
  BY <1>5 DEF r

(* The same for a request that was answered. *)
LEMMA CompletedEnding ==
  ASSUME IInv, sess.req # "none", NEW c \in Code
  PROVE  LET r == Completed(sess, c) IN
         /\ r \in Session /\ r.req = "none" /\ Ending(r)
         /\ Same(sess, r, {"req", "failc", "last_scode"})
         /\ Same(sess, r, Handled)
<1> DEFINE r == Completed(sess, c)
<1>1. sess \in Session /\ sess.life = "live" /\ Inv(sess)
  BY Alive
<1>2. /\ r \in Session /\ r.req = "none"
      /\ Same(sess, r, {"req", "failc", "last_scode"})
  BY <1>1, CompletedFields
<1> HIDE DEF r
<1>3. Same(sess, r, Handled)
  BY <1>2, SameMono DEF Handled
<1>4. r.established = sess.established
  BY <1>1, <1>2 DEF Session, Same
<1>5. Ending(r)
  BY <1>1, <1>2, <1>3, <1>4, RequestEnded
<1> QED
  BY <1>2, <1>3, <1>5 DEF r

(* An INVITE that times out or cannot be delivered preserves the invariant. *)
LEMMA InviteFailedStep == ASSUME IInv, InviteFailed PROVE IInv'
<1>1. PICK drop \in BOOLEAN, ok \in BOOLEAN :
        sess' = Finish(Failed(sess), drop, ok)
  BY DEF InviteFailed
<1>2. sess.req # "none"
  BY DEF InviteFailed
<1>3. Ending(Failed(sess))
  BY <1>2, FailedEnding
<1> QED
  BY <1>1, <1>3, FinishInv DEF IInv

(* A session that is established: the modification that waited for it is   *)
(* sent, or the description dropped.                                       *)
LEMMA ModifyNext ==
  ASSUME NEW s \in Session, s.req = "none", NEW send \in BOOLEAN
  PROVE  LET u == IF s.modify_pending THEN sipsess_reinvite(s, TRUE, send)
                  ELSE [s EXCEPT !.desc = FALSE] IN
         /\ u \in Session /\ ~u.modify_pending /\ u.req \in {"none", "REINVITE"}
         /\ Same(s, u, {"sent_offer", "modify_pending", "req", "failc",
                        "last_scode", "desc"})
<1>1. CASE s.modify_pending
  <2> DEFINE u == sipsess_reinvite(s, TRUE, send)
  <2>1. /\ u \in Session /\ ~u.modify_pending
        /\ u.req = IF send THEN "REINVITE" ELSE "none"
        /\ Same(s, u, {"sent_offer", "modify_pending", "req", "failc",
                       "last_scode"})
    BY ReinviteFields
  <2> HIDE DEF u
  <2>2. Same(s, u, {"sent_offer", "modify_pending", "req", "failc",
                    "last_scode", "desc"})
    BY <2>1, SameMono
  <2> QED
    BY <1>1, <2>1, <2>2 DEF u
<1>2. CASE ~s.modify_pending
  <2> DEFINE u == [s EXCEPT !.desc = FALSE]
  <2>1. u \in Session
    BY DEF Session
  <2>2. ~u.modify_pending /\ u.req = "none"
    BY <1>2 DEF Session
  <2>3. Same(s, u, {"sent_offer", "modify_pending", "req", "failc",
                    "last_scode", "desc"})
    BY DEF Session, Same
  <2> HIDE DEF u
  <2> QED
    BY <1>2, <2>1, <2>2, <2>3 DEF u
<1> QED
  BY <1>1, <1>2

(* A 2xx to the INVITE preserves the invariant. *)
LEMMA InviteAcceptedStep == ASSUME IInv, InviteAccepted PROVE IInv'
<1> DEFINE r == Completed(sess, "2xx")
           t == [r EXCEPT !.established = TRUE,
                          !.modify_pending = @ /\ r.sent_offer]
           u(send) == IF t.modify_pending THEN sipsess_reinvite(t, TRUE, send)
                      ELSE [t EXCEPT !.desc = FALSE]
<1>1. sess.req = "INVITE"
  BY DEF InviteAccepted
<1>2. PICK dlgerr \in BOOLEAN, err \in BOOLEAN, drop \in BOOLEAN,
           ok \in BOOLEAN, send \in BOOLEAN :
        sess' = IF dlgerr THEN Finish(r, drop, ok)
                ELSE IF err \/ t.terminated # 0 THEN Finish(t, drop, ok)
                ELSE [u(send) EXCEPT !.estabs = @ + 1]
  BY DEF InviteAccepted
<1>3. sess \in Session /\ sess.life = "live" /\ Inv(sess) /\ LiveInv(sess)
  BY <1>1, Alive
<1>4. /\ r \in Session /\ r.req = "none" /\ Ending(r) /\ Same(sess, r, Handled)
  BY <1>1, CompletedEnding DEF Code
<1> HIDE DEF r
<1>5. /\ t \in Session /\ t.established /\ t.req = "none"
      /\ Same(r, t, {"established", "modify_pending"})
  <2>1. (r.modify_pending /\ r.sent_offer) \in BOOLEAN
    BY <1>4 DEF Session
  <2>2. \A b \in BOOLEAN : [r EXCEPT !.established = TRUE,
                                     !.modify_pending = b] \in Session
    BY <1>4 DEF Session
  <2>3. t \in Session
    BY <2>1, <2>2
  <2>4. t.established /\ t.req = "none" /\ Same(r, t, {"established", "modify_pending"})
    BY <1>4 DEF Session, Same
  <2> QED
    BY <2>3, <2>4
<1> HIDE DEF t
<1>6. Same(sess, t, Handled)
  BY <1>3, <1>4, <1>5, SameTrans DEF Handled
<1>7. Ending(t)
  BY <1>1, <1>3, <1>5, <1>6, RequestEnded
<1>8. CASE dlgerr
  BY <1>2, <1>4, <1>8, FinishInv DEF IInv
<1>9. CASE ~dlgerr /\ (err \/ t.terminated # 0)
  BY <1>2, <1>7, <1>9, FinishInv DEF IInv
<1>10. CASE ~dlgerr /\ ~(err \/ t.terminated # 0)
  <2> DEFINE v == u(send)
             e == [v EXCEPT !.estabs = @ + 1]
  <2>1. /\ v \in Session /\ ~v.modify_pending /\ v.req \in {"none", "REINVITE"}
        /\ Same(t, v, {"sent_offer", "modify_pending", "req", "failc",
                       "last_scode", "desc"})
    BY <1>5, ModifyNext
  <2> HIDE DEF v
  <2>2. Same(sess, v, Handled)
    BY <1>3, <1>5, <1>6, <2>1, SameTrans DEF Handled
  <2>3. sess.terminated = 0 /\ v.established
    BY <1>3, <1>5, <1>6, <1>10, <2>1 DEF Session, Same, Handled
  <2>4. InService(sess) /\ ~sess.established
    BY <1>1, <1>3, <2>3 DEF LiveInv, InService
  <2>5. ~sess.tmr /\ sess.replyl = {} /\ ~sess.st /\ sess.app
    BY <1>1, <1>3, <2>4, Alone DEF InService
  <2>6. sess.estabs = 0
    BY <1>3, <2>4 DEF Inv, Sound, InService, Session
  <2>7. /\ v.tmr = sess.tmr /\ v.replyl = sess.replyl /\ v.st = sess.st
        /\ v.app = sess.app /\ v.estabs = sess.estabs
    BY <1>3, <2>2 DEF Session, Same, Handled
  <2>8. e \in Session /\ e.estabs = 1 /\ Same(v, e, {"estabs"})
    <3>1. e = [v EXCEPT !.estabs = 1]
      BY <2>1, <2>6, <2>7 DEF Session
    <3> QED
      BY <2>1, <3>1 DEF Session, Same
  <2> HIDE DEF e
  <2>9. Same(sess, e, Exchange)
    BY <1>3, <2>1, <2>2, <2>8, SameTrans DEF Handled, Exchange
  <2>10. /\ e.tmr = v.tmr /\ e.replyl = v.replyl /\ e.st = v.st
         /\ e.app = v.app /\ e.req = v.req /\ e.established = v.established
         /\ e.modify_pending = v.modify_pending
    BY <2>1, <2>8 DEF Session, Same
  <2>11. InService(e) /\ e.req # "BYE"
    BY <2>1, <2>3, <2>5, <2>7, <2>8, <2>10 DEF InService, B
  <2>12. Inv(e)
    BY <1>3, <2>3, <2>8, <2>9, <2>11, StaysInService
  <2> QED
    BY <1>2, <1>10, <2>12 DEF IInv, e, v
<1> QED
  BY <1>8, <1>9, <1>10

(* A refusal, redirect or challenge of the INVITE preserves the invariant. *)
LEMMA InviteRefusedStep == ASSUME IInv, InviteRefused PROVE IInv'
<1>1. sess.req = "INVITE"
  BY DEF InviteRefused
<1>2. PICK c \in Code, again \in BOOLEAN, drop \in BOOLEAN, ok \in BOOLEAN,
           send \in BOOLEAN :
        LET r == Completed(sess, c)
            v == invite(r, send)
            retry == /\ again /\ c \in {"3xx", "auth"}
                     /\ ~sip_request_loops(sess, c) /\ r.terminated = 0
        IN  sess' = IF retry /\ send THEN v
                    ELSE Finish(IF retry THEN v ELSE r, drop, ok)
  BY DEF InviteRefused
<1> DEFINE r == Completed(sess, c)
           v == invite(r, send)
           retry == /\ again /\ c \in {"3xx", "auth"}
                    /\ ~sip_request_loops(sess, c) /\ r.terminated = 0
<1>3. sess' = IF retry /\ send THEN v ELSE Finish(IF retry THEN v ELSE r, drop, ok)
  BY <1>2
<1>4. retry => r.terminated = 0
  OBVIOUS
<1>5. sess \in Session /\ sess.life = "live" /\ Inv(sess) /\ LiveInv(sess)
  BY <1>1, Alive
<1>6. r \in Session /\ r.req = "none" /\ Ending(r) /\ Same(sess, r, Handled)
      /\ Same(sess, r, {"req", "failc", "last_scode"})
  BY <1>1, CompletedEnding
<1> HIDE DEF r, retry
<1>7. /\ v \in Session /\ ~v.modify_pending
      /\ v.req = IF send THEN "INVITE" ELSE "none"
      /\ Same(r, v, {"sent_offer", "modify_pending", "req"})
  BY <1>6, InviteFields
<1> HIDE DEF v
<1>8. Same(sess, v, Handled) /\ Same(sess, v, Exchange)
  BY <1>5, <1>6, <1>7, SameTrans DEF Handled, Exchange
<1>9. /\ v.terminated = sess.terminated /\ v.tmr = sess.tmr /\ v.app = sess.app
      /\ v.replyl = sess.replyl /\ v.st = sess.st /\ v.estabs = sess.estabs
      /\ r.terminated = sess.terminated
      /\ v.established = sess.established
  BY <1>5, <1>6, <1>7 DEF Session, Same
<1>10. CASE retry /\ send
  <2>1. sess.terminated = 0
    BY <1>4, <1>9, <1>10
  <2>2. InService(sess) /\ sess.estabs <= 1
    BY <1>5, <2>1 DEF LiveInv, Inv, Sound
  <2>3. ~sess.tmr /\ sess.replyl = {} /\ ~sess.st
    BY <1>1, <1>5, <2>2, Alone
  <2>4. InService(v) /\ v.req # "BYE"
    BY <1>1, <1>7, <1>9, <1>10, <2>2, <2>3 DEF InService, B
  <2>5. Inv(v)
    BY <1>5, <1>7, <1>8, <1>9, <2>1, <2>2, <2>4, StaysInService
  <2> QED
    BY <1>3, <1>10, <2>5 DEF IInv
<1>11. CASE retry /\ ~send
  <2>1. Ending(v)
    BY <1>1, <1>5, <1>7, <1>8, <1>9, <1>11, RequestEnded
  <2> QED
    BY <1>3, <1>11, <2>1, FinishInv DEF IInv
<1>12. CASE ~retry
  BY <1>3, <1>6, <1>12, FinishInv DEF IInv
<1> QED
  BY <1>10, <1>11, <1>12

(* A session in service that has nothing under way can start a re-INVITE,  *)
(* drop its description or wait for the retry timer.                       *)
LEMMA IdleServing ==
  ASSUME IInv, sess.req = "REINVITE", sess.terminated = 0,
         NEW v \in Session, Same(sess, v, Exchange),
         v.tmr => v.req = "none",
         v.modify_pending => v.tmr,
         v.req \in {"none", "REINVITE"},
         v.replyl = sess.replyl, v.st = sess.st,
         v.established = sess.established, v.estabs = sess.estabs
  PROVE  Inv(v)
<1>1. sess \in Session /\ sess.life = "live" /\ Inv(sess) /\ LiveInv(sess)
  BY Alive
<1>2. InService(sess) /\ sess.estabs <= 1
  BY <1>1 DEF LiveInv, Inv, Sound
<1>3. ~sess.tmr /\ sess.replyl = {} /\ ~sess.st
  BY <1>1, <1>2, Alone
<1>4. v.app = sess.app
  BY <1>1 DEF Session, Same, Exchange
<1>5. InService(v) /\ v.req # "BYE"
  BY <1>2, <1>3, <1>4 DEF InService, B
<1> QED
  BY <1>1, <1>2, <1>5, StaysInService

(* The end of reinvite_resp_handler (modify.c:96) keeps the invariant. *)
LEMMA ReinviteDoneInv ==
  ASSUME IInv, sess.req = "REINVITE",
         NEW r \in Session, r.req = "none", Same(sess, r, Handled),
         r.established = sess.established,
         NEW timeout \in BOOLEAN, NEW drop \in BOOLEAN, NEW ok \in BOOLEAN,
         NEW send \in BOOLEAN
  PROVE  Inv(ReinviteDone(r, timeout, drop, ok, send))
<1>1. sess \in Session /\ Inv(sess) /\ LiveInv(sess)
  BY Alive
<1>2. Ending(r)
  BY <1>1, RequestEnded
<1>3. CASE r.terminated # 0
  BY <1>2, <1>3, MemDeref DEF ReinviteDone, Ending, Serving
<1>4. CASE r.terminated = 0 /\ timeout
  <2>1. Serving(r)
    BY <1>2, <1>4 DEF Ending
  <2> QED
    BY <1>4, <2>1, SessTerminate DEF ReinviteDone
<1>5. CASE r.terminated = 0 /\ ~timeout
  <2> DEFINE v == IF r.modify_pending THEN sipsess_reinvite(r, TRUE, send)
                  ELSE [r EXCEPT !.desc = FALSE]
  <2>1. ReinviteDone(r, timeout, drop, ok, send) = v
    BY <1>5 DEF ReinviteDone
  <2>2. /\ v \in Session /\ ~v.modify_pending /\ v.req \in {"none", "REINVITE"}
        /\ Same(r, v, {"sent_offer", "modify_pending", "req", "failc",
                       "last_scode", "desc"})
    BY ModifyNext
  <2> HIDE DEF v
  <2>3. Same(sess, v, Exchange)
    BY <1>1, <2>2, SameTrans DEF Handled, Exchange
  <2>4. /\ r.terminated = sess.terminated /\ r.tmr = sess.tmr
        /\ r.replyl = sess.replyl /\ r.st = sess.st /\ r.estabs = sess.estabs
    BY <1>1 DEF Session, Same, Handled
  <2>5. /\ v.tmr = r.tmr /\ v.replyl = r.replyl /\ v.st = r.st
        /\ v.established = r.established /\ v.estabs = r.estabs
    BY <2>2 DEF Session, Same
  <2>6. ~sess.tmr
    BY <1>1, <1>5, <2>4, Alone DEF LiveInv
  <2>7. Inv(v)
    BY <1>5, <2>2, <2>3, <2>4, <2>5, <2>6, IdleServing
  <2> QED
    BY <2>1, <2>7
<1> QED
  BY <1>3, <1>4, <1>5

(* A re-INVITE that fails preserves the invariant. *)
LEMMA ReinviteFailedStep == ASSUME IInv, ReinviteFailed PROVE IInv'
<1> DEFINE r == Failed(sess)
<1>1. sess.req = "REINVITE"
  BY DEF ReinviteFailed
<1>2. PICK timeout \in BOOLEAN, drop \in BOOLEAN, ok \in BOOLEAN,
           send \in BOOLEAN : sess' = ReinviteDone(r, timeout, drop, ok, send)
  BY DEF ReinviteFailed
<1>3. sess \in Session /\ sess.life = "live"
  BY <1>1, Alive
<1>4. r \in Session /\ r.req = "none" /\ Same(sess, r, {"req"})
  BY <1>3, FailedFields
<1> HIDE DEF r
<1>5. Same(sess, r, Handled) /\ r.established = sess.established
  BY <1>3, <1>4, SameMono DEF Handled, Session, Same
<1> QED
  BY <1>1, <1>2, <1>4, <1>5, ReinviteDoneInv DEF IInv

(* A 2xx to a re-INVITE preserves the invariant. *)
LEMMA ReinviteAcceptedStep == ASSUME IInv, ReinviteAccepted PROVE IInv'
<1> DEFINE r == Completed(sess, "2xx")
           v == [r EXCEPT !.modify_pending = @ /\ r.sent_offer]
<1>1. sess.req = "REINVITE"
  BY DEF ReinviteAccepted
<1>2. PICK ok \in BOOLEAN, send \in BOOLEAN :
        sess' = ReinviteDone(v, FALSE, FALSE, ok, send)
  BY DEF ReinviteAccepted
<1>3. sess \in Session /\ sess.life = "live"
  BY <1>1, Alive
<1>4. /\ r \in Session /\ r.req = "none"
      /\ Same(sess, r, {"req", "failc", "last_scode"})
  BY <1>1, CompletedEnding DEF Code
<1> HIDE DEF r
<1>5. v \in Session
  <2>1. (r.modify_pending /\ r.sent_offer) \in BOOLEAN
    BY <1>4 DEF Session
  <2>2. \A b \in BOOLEAN : [r EXCEPT !.modify_pending = b] \in Session
    BY <1>4 DEF Session
  <2> QED
    BY <2>1, <2>2
<1>6. v.req = "none" /\ Same(r, v, {"modify_pending"})
  BY <1>4 DEF Session, Same
<1> HIDE DEF v
<1>7. Same(sess, v, Handled)
  BY <1>3, <1>4, <1>6, SameTrans DEF Handled
<1>8. v.established = sess.established
  BY <1>3, <1>4, <1>6 DEF Session, Same
<1> QED
  BY <1>1, <1>2, <1>5, <1>6, <1>7, <1>8, ReinviteDoneInv DEF IInv

(* A refusal or challenge of a re-INVITE preserves the invariant. *)
LEMMA ReinviteRefusedStep == ASSUME IInv, ReinviteRefused PROVE IInv'
<1>1. sess.req = "REINVITE"
  BY DEF ReinviteRefused
<1>2. PICK c \in Code, again \in BOOLEAN, drop \in BOOLEAN, ok \in BOOLEAN,
           send \in BOOLEAN :
        LET r == Completed(sess, c)
            over == sip_request_loops(sess, c) \/ r.terminated # 0
            v == sipsess_reinvite(r, FALSE, send)
        IN  sess' = IF ~over /\ c = "auth" /\ again
                    THEN IF send THEN v
                         ELSE ReinviteDone(v, FALSE, drop, ok, send)
                    ELSE IF ~over /\ c = "gone"
                    THEN sipsess_terminate(r, drop, ok)
                    ELSE IF ~over /\ c \in {"491", "retryafter"}
                    THEN [r EXCEPT !.tmr = TRUE]
                    ELSE ReinviteDone(r, FALSE, drop, ok, send)
  BY DEF ReinviteRefused
<1> DEFINE r == Completed(sess, c)
           over == sip_request_loops(sess, c) \/ r.terminated # 0
           v == sipsess_reinvite(r, FALSE, send)
           w == [r EXCEPT !.tmr = TRUE]
<1>3. ~over => r.terminated = 0
  OBVIOUS
<1>4. \/ ~over /\ send /\ sess' = v
      \/ ~over /\ ~send /\ sess' = ReinviteDone(v, FALSE, drop, ok, send)
      \/ ~over /\ sess' = sipsess_terminate(r, drop, ok)
      \/ ~over /\ sess' = w
      \/ sess' = ReinviteDone(r, FALSE, drop, ok, send)
  BY <1>2
<1>5. sess \in Session /\ sess.life = "live" /\ Inv(sess) /\ LiveInv(sess)
  BY <1>1, Alive
<1>6. /\ r \in Session /\ r.req = "none" /\ Ending(r)
      /\ Same(sess, r, {"req", "failc", "last_scode"})
      /\ Same(sess, r, Handled)
  BY <1>1, CompletedEnding
<1> HIDE DEF r, over
<1>7. /\ v \in Session /\ ~v.modify_pending
      /\ v.req = IF send THEN "REINVITE" ELSE "none"
      /\ Same(r, v, {"sent_offer", "modify_pending", "req", "failc",
                     "last_scode"})
  BY <1>6, ReinviteFields
<1> HIDE DEF v
<1>8. Same(sess, v, Handled) /\ Same(sess, v, Exchange)
  BY <1>5, <1>6, <1>7, SameTrans DEF Handled, Exchange
<1>9. /\ r.established = sess.established /\ v.established = sess.established
      /\ r.terminated = sess.terminated /\ v.tmr = sess.tmr
      /\ v.replyl = sess.replyl /\ v.st = sess.st /\ v.estabs = sess.estabs
      /\ r.replyl = sess.replyl /\ r.st = sess.st /\ r.estabs = sess.estabs
      /\ r.tmr = sess.tmr
  BY <1>5, <1>6, <1>7 DEF Session, Same
<1>10. ~over => sess.terminated = 0 /\ ~sess.tmr
  BY <1>1, <1>3, <1>5, <1>9, Alone DEF LiveInv
<1>11. CASE ~over /\ send /\ sess' = v
  BY <1>1, <1>7, <1>8, <1>9, <1>10, <1>11, IdleServing DEF IInv
<1>12. CASE ~send /\ sess' = ReinviteDone(v, FALSE, drop, ok, send)
  BY <1>1, <1>7, <1>8, <1>9, <1>12, ReinviteDoneInv DEF IInv
<1>13. CASE ~over /\ sess' = sipsess_terminate(r, drop, ok)
  <2>1. Serving(r)
    BY <1>3, <1>6, <1>13 DEF Ending
  <2> QED
    BY <1>13, <2>1, SessTerminate DEF IInv
<1>14. CASE ~over /\ sess' = w
  <2>1. w \in Session /\ w.tmr /\ Same(r, w, {"tmr"})
    BY <1>6 DEF Session, Same
  <2> HIDE DEF w
  <2>2. Same(sess, w, Exchange)
    BY <1>5, <1>6, <2>1, SameTrans DEF Handled, Exchange
  <2>3. /\ w.req = "none" /\ w.replyl = sess.replyl /\ w.st = sess.st
        /\ w.established = sess.established /\ w.estabs = sess.estabs
    BY <1>6, <1>9, <2>1 DEF Session, Same
  <2>4. Inv(w)
    BY <1>1, <1>10, <1>14, <2>1, <2>2, <2>3, IdleServing
  <2> QED
    BY <1>14, <2>4 DEF IInv
<1>15. CASE sess' = ReinviteDone(r, FALSE, drop, ok, send)
  BY <1>1, <1>6, <1>9, <1>15, ReinviteDoneInv DEF IInv
<1> QED
  BY <1>4, <1>11, <1>12, <1>13, <1>14, <1>15

(* The end of the BYE preserves the invariant. *)
LEMMA ByeDoneStep == ASSUME IInv, ByeDone PROVE IInv'
<1>1. sess.req = "BYE"
  BY DEF ByeDone
<1>2. PICK ok \in BOOLEAN : sess' = mem_deref(Failed(sess), ok)
  BY DEF ByeDone
<1>3. sess \in Session /\ LiveInv(sess) /\ sess.life = "live"
  BY <1>1, Alive
<1>4. Ending(Failed(sess))
  BY <1>1, FailedEnding
<1>5. sess.terminated = 2
  BY <1>1, <1>3 DEF LiveInv, LiveCore
<1>6. Failed(sess).terminated = 2
  BY <1>3, <1>5, FailedFields DEF Session, Same
<1> QED
  BY <1>2, <1>4, <1>6, MemDeref DEF Ending, Serving, IInv

(* A challenged BYE preserves the invariant. *)
LEMMA ByeChallengedStep == ASSUME IInv, ByeChallenged PROVE IInv'
<1> DEFINE r == Completed(sess, "auth")
           v == [r EXCEPT !.req = "BYE"]
<1>1. sess.req = "BYE" /\ sess' = v
  BY DEF ByeChallenged
<1>2. sess \in Session /\ Sound(sess) /\ LiveInv(sess) /\ sess.life = "live"
  BY <1>1, Alive
<1>3. r \in Session /\ Same(sess, r, {"req", "failc", "last_scode"})
  BY <1>1, CompletedEnding DEF Code
<1> HIDE DEF r
<1>4. v \in Session /\ v.req = "BYE" /\ Same(r, v, {"req"})
  BY <1>3 DEF Session, Same
<1> HIDE DEF v
<1>5. Same(sess, v, {"req", "failc", "last_scode"})
  BY <1>2, <1>3, <1>4, SameTrans
<1>6. /\ v.life = sess.life /\ v.peerterm = sess.peerterm
      /\ v.bye = sess.bye /\ v.replyl = sess.replyl
      /\ v.requestl = sess.requestl /\ v.app = sess.app
      /\ v.closed = sess.closed /\ v.inhash = sess.inhash /\ v.estabs = sess.estabs
      /\ v.closes = sess.closes /\ v.uaf = sess.uaf
      /\ v.nrefs = sess.nrefs /\ v.terminated = sess.terminated
      /\ v.internal = sess.internal /\ v.tmr = sess.tmr /\ v.st = sess.st
      /\ v.established = sess.established
  BY <1>2, <1>5 DEF Session, Same
<1>7. sess.terminated = 2
  BY <1>1, <1>2 DEF LiveInv, LiveCore
<1>8. Sound(v) /\ LiveCore(v)
  BY <1>1, <1>2, <1>4, <1>6 DEF Sound, LiveInv, LiveCore
<1>9. RefCount(v, 0)
  <2>1. Holders(v) = Holders(sess)
    BY <1>1, <1>4, <1>6 DEF Holders
  <2> QED
    BY <1>2, <1>6, <2>1 DEF RefCount, LiveInv
<1> QED
  BY <1>1, <1>6, <1>7, <1>8, <1>9 DEF IInv, Inv, LiveInv

(* In service a handler may change what Exchange names and note that the   *)
(* peer hung up, and may then end the session.                             *)
LEMMA StillServing ==
  ASSUME NEW s, Inv(s), s.life = "live", s.terminated = 0,
         NEW r \in Session, Same(s, r, Exchange \cup {"peerterm"}),
         r.req # "BYE", r.estabs <= 1
  PROVE  Serving(r)
<1>1. LiveInv(s) /\ s \in Session /\ Sound(s)
  BY DEF Inv, GoneInv, Sound
<1>2. /\ r.life = s.life /\ r.bye = s.bye
      /\ r.app = s.app /\ r.closed = s.closed /\ r.inhash = s.inhash
      /\ r.closes = s.closes /\ r.uaf = s.uaf /\ r.nrefs = s.nrefs
      /\ r.terminated = s.terminated /\ r.internal = s.internal
  BY <1>1 DEF Session, Same, Exchange
<1>3. Sound(r)
  BY <1>1, <1>2 DEF Sound
<1>4. LiveCore(r)
  BY <1>1, <1>2 DEF LiveInv, LiveCore
<1>5. RefCount(r, 0)
  <2>1. Holders(r) = Holders(s)
    BY <1>2 DEF Holders
  <2> QED
    BY <1>1, <1>2, <2>1 DEF RefCount, LiveInv
<1> QED
  BY <1>1, <1>2, <1>3, <1>4, <1>5 DEF Serving, LiveInv, InService

(* A terminated session whose pending replies or INFO requests get fewer:  *)
(* it goes on, or loses the reference that kind of exchange held.          *)
LEMMA Waning ==
  ASSUME NEW s, Inv(s), LiveInv(s), s.terminated # 0,
         NEW r \in Session,
         Same(s, r, {"replyl", "awaitl", "requestl", "rseq", "peerterm",
                     "established"}),
         s.replyl = {} => r.replyl = {},
         s.requestl = 0 => r.requestl = 0,
         \/ r.established = s.established /\ (s.peerterm => r.peerterm)
         \/ s.terminated = 1 \/ s.closed
  PROVE  /\ r.terminated = s.terminated
         /\ Holders(r) = Holders(s) => Inv(r)
         /\ Holders(r) + 1 = Holders(s) => Leaving(r)
<1>1. s \in Session /\ Sound(s)
  BY DEF Inv, Sound
<1>2. /\ r.life = s.life /\ r.bye = s.bye /\ r.req = s.req
      /\ r.app = s.app /\ r.closed = s.closed /\ r.inhash = s.inhash /\ r.estabs = s.estabs
      /\ r.closes = s.closes /\ r.uaf = s.uaf /\ r.nrefs = s.nrefs
      /\ r.terminated = s.terminated /\ r.internal = s.internal
      /\ r.tmr = s.tmr /\ r.st = s.st
  BY <1>1 DEF Session, Same
<1>3. Sound(r)
  BY <1>1, <1>2 DEF Sound
<1>4. LiveCore(r)
  BY <1>1, <1>2 DEF LiveInv, LiveCore, Session
<1>5. ASSUME Holders(r) = Holders(s) PROVE Inv(r)
  <2>1. RefCount(r, 0)
    BY <1>2, <1>5 DEF RefCount, LiveInv
  <2> QED
    BY <1>2, <1>3, <1>4, <2>1 DEF Inv, LiveInv
<1>6. ASSUME Holders(r) + 1 = Holders(s) PROVE Leaving(r)
  <2>1. Holders(r) \in Nat
    BY BNat DEF Holders
  <2>2. RefCount(r, 1)
    BY <1>2, <1>6, <2>1 DEF RefCount, LiveInv
  <2> QED
    BY <1>2, <1>3, <1>4, <2>2 DEF Leaving
<1> QED
  BY <1>2, <1>5, <1>6

(* The end of an INFO request. *)
LEMMA RequestOverInv ==
  ASSUME NEW s, Inv(s), LiveInv(s), s.requestl # 0, NEW ok \in BOOLEAN
  PROVE  Inv(RequestOver(s, ok))
<1> DEFINE t == [s EXCEPT !.requestl = @ - 1]
<1>1. s \in Session /\ s.life = "live" /\ Touch(s) = s
  BY TouchLive DEF Inv, Sound, LiveInv, LiveCore
<1>2. t \in Session
  <2>1. \A n \in Nat : [s EXCEPT !.requestl = n] \in Session
    BY <1>1 DEF Session
  <2>2. s.requestl - 1 \in Nat
    BY <1>1 DEF Session
  <2> QED
    BY <1>1, <2>1, <2>2
<1>3. t.requestl = s.requestl - 1 /\ Same(s, t, {"requestl"})
  BY <1>1 DEF Session, Same
<1>4. RequestOver(s, ok) = IF t.terminated # 0 /\ t.requestl = 0
                           THEN mem_deref(t, ok) ELSE t
  BY <1>1 DEF RequestOver
<1> HIDE DEF t
<1>5. /\ t.terminated = s.terminated /\ t.req = s.req /\ t.replyl = s.replyl
      /\ t.app = s.app /\ t.tmr = s.tmr /\ t.st = s.st
      /\ t.estabs = s.estabs /\ t.established = s.established
      /\ t.modify_pending = s.modify_pending /\ t.peerterm = s.peerterm
      /\ t.rseq = s.rseq
  BY <1>1, <1>2, <1>3 DEF Session, Same
<1>6. CASE s.terminated = 0
  <2>1. InService(t) /\ t.req # "BYE" /\ t.estabs <= 1
    BY <1>5, <1>6 DEF LiveInv, InService, LiveCore, Inv, Sound
  <2>2. Same(s, t, Exchange)
    BY <1>3, SameMono DEF Exchange
  <2> QED
    BY <1>1, <1>2, <1>4, <1>5, <1>6, <2>1, <2>2, StaysInService
<1>7. CASE s.terminated # 0
  <2>1. Same(s, t, {"replyl", "awaitl", "requestl", "rseq", "peerterm",
                    "established"})
    BY <1>3, SameMono
  <2>2. /\ Holders(t) = Holders(s) => Inv(t)
        /\ Holders(t) + 1 = Holders(s) => Leaving(t)
    BY <1>2, <1>5, <1>7, <2>1, Waning
  <2>3. CASE t.requestl = 0
    <3>1. Holders(t) + 1 = Holders(s)
      BY <1>5, <1>7, <2>3 DEF Holders, B
    <3> QED
      BY <1>4, <1>5, <1>7, <2>2, <2>3, <3>1, MemDeref
  <2>4. CASE t.requestl # 0
    <3>1. Holders(t) = Holders(s)
      BY <1>5, <1>7, <2>4 DEF Holders, B
    <3> QED
      BY <1>4, <2>2, <2>4, <3>1
  <2> QED
    BY <2>3, <2>4
<1> QED
  BY <1>6, <1>7

(* The end of an INFO preserves the invariant. *)
LEMMA InfoOverStep == ASSUME IInv, InfoOver PROVE IInv'
<1>1. sess.requestl # 0
  BY DEF InfoOver
<1>2. PICK gone \in BOOLEAN, drop \in BOOLEAN, ok \in BOOLEAN :
        sess' = RequestOver(IF gone THEN sipsess_terminate(sess, drop, ok)
                                    ELSE sess, ok)
  BY DEF InfoOver
<1>3. sess \in Session /\ sess.life = "live" /\ Touch(sess) = sess
      /\ Inv(sess) /\ LiveInv(sess)
  BY <1>1, Alive
<1>4. CASE ~gone \/ sess.terminated # 0
  <2>1. sess' = RequestOver(sess, ok)
    BY <1>2, <1>3, <1>4 DEF sipsess_terminate
  <2> QED
    BY <1>1, <1>3, <2>1, RequestOverInv DEF IInv
<1>5. CASE gone /\ sess.terminated = 0
  <2> DEFINE e == sipsess_terminate(sess, drop, ok)
  <2>1. Serving(sess)
    BY <1>3, <1>5 DEF Serving, LiveInv, InService, Inv
  <2>2. Waits(sess)
    BY <1>1 DEF Waits
  <2>3. Inv(e) /\ LiveInv(e) /\ e.requestl = sess.requestl
    BY <2>1, <2>2, SessTerminate
  <2> HIDE DEF e
  <2>4. sess' = RequestOver(e, ok)
    BY <1>2, <1>5 DEF e
  <2> QED
    BY <1>1, <2>3, <2>4, RequestOverInv DEF IInv
<1> QED
  BY <1>4, <1>5

(* A 2xx reply leaves the list, by its ACK or by its timer. *)
LEMMA ReplyGone ==
  ASSUME IInv, NEW c \in sess.replyl
  PROVE  LET s == [Touch(sess) EXCEPT !.replyl = @ \ {c}, !.awaitl = @ \ {c}]
             e == [s EXCEPT !.established = TRUE]
         IN  /\ s \in Session /\ e \in Session /\ e.established
             /\ s.replyl = sess.replyl \ {c}
             /\ Same(sess, s, {"replyl", "awaitl"})
             /\ Same(sess, e, {"replyl", "awaitl", "established"})
             /\ s.replyl # {} => Inv(s)
             /\ s.replyl = {} /\ sess.terminated # 0 => Leaving(e)
<1> DEFINE s == [sess EXCEPT !.replyl = @ \ {c}, !.awaitl = @ \ {c}]
           e == [s EXCEPT !.established = TRUE]
<1>1. sess \in Session /\ sess.life = "live" /\ Touch(sess) = sess
      /\ Inv(sess) /\ LiveInv(sess) /\ c \in CSeq
  BY Alive DEF Session
<1>2. s \in Session
  <2>1. \A x, y \in SUBSET CSeq :
          [sess EXCEPT !.replyl = x, !.awaitl = y] \in Session
    BY <1>1 DEF Session
  <2>2. sess.replyl \ {c} \in SUBSET CSeq /\ sess.awaitl \ {c} \in SUBSET CSeq
    BY <1>1 DEF Session
  <2> QED
    BY <1>1, <2>1, <2>2
<1>3. s.replyl = sess.replyl \ {c} /\ Same(sess, s, {"replyl", "awaitl"})
  BY <1>1 DEF Session, Same
<1> HIDE DEF s
<1>4. e \in Session /\ e.established /\ Same(s, e, {"established"})
  BY <1>2 DEF Session, Same
<1> HIDE DEF e
<1>5. Same(sess, e, {"replyl", "awaitl", "established"})
  BY <1>1, <1>2, <1>3, <1>4, SameTrans
<1>6. /\ s.terminated = sess.terminated /\ s.req = sess.req
      /\ s.requestl = sess.requestl /\ s.app = sess.app
      /\ s.tmr = sess.tmr /\ s.st = sess.st /\ s.rseq = sess.rseq
      /\ s.estabs = sess.estabs /\ s.established = sess.established
      /\ s.modify_pending = sess.modify_pending /\ s.peerterm = sess.peerterm
  BY <1>1, <1>2, <1>3 DEF Session, Same
<1>7. /\ e.terminated = s.terminated /\ e.req = s.req /\ e.replyl = s.replyl
      /\ e.requestl = s.requestl /\ e.app = s.app
  BY <1>2, <1>4 DEF Session, Same
<1>8. ASSUME s.replyl # {} PROVE Inv(s)
  <2>1. CASE sess.terminated = 0
    <3>1. InService(s) /\ s.req # "BYE" /\ s.estabs <= 1
      BY <1>1, <1>6, <1>8, <2>1 DEF LiveInv, InService, LiveCore, Inv, Sound
    <3>2. Same(sess, s, Exchange)
      BY <1>3, SameMono DEF Exchange
    <3> QED
      BY <1>1, <1>2, <2>1, <3>1, <3>2, StaysInService
  <2>2. CASE sess.terminated # 0
    <3>1. Same(sess, s, {"replyl", "awaitl", "requestl", "rseq", "peerterm",
                         "established"})
      BY <1>3, SameMono
    <3>2. Holders(s) = Holders(sess)
      BY <1>6, <1>8 DEF Holders
    <3> QED
      BY <1>1, <1>2, <1>3, <1>6, <2>2, <3>1, <3>2, Waning
  <2> QED
    BY <2>1, <2>2
<1>9. ASSUME s.replyl = {}, sess.terminated # 0 PROVE Leaving(e)
  <2>1. Same(sess, e, {"replyl", "awaitl", "requestl", "rseq", "peerterm",
                       "established"})
    BY <1>5, SameMono
  <2>2. sess.terminated = 1 \/ sess.closed
    BY <1>1, <1>9 DEF LiveInv, LiveCore, Session
  <2>3. Holders(e) + 1 = Holders(sess)
    BY <1>6, <1>7, <1>9 DEF Holders, B
  <2> QED
    BY <1>1, <1>4, <1>6, <1>7, <1>9, <2>1, <2>2, <2>3, Waning
<1> QED
  BY <1>1, <1>2, <1>3, <1>4, <1>5, <1>8, <1>9 DEF s, e

(* A 2xx without ACK for 64*T1 preserves the invariant. *)
LEMMA ReplyTimeoutStep == ASSUME IInv, ReplyTimeout PROVE IInv'
<1>1. PICK c \in sess.replyl, drop \in BOOLEAN, ok \in BOOLEAN :
        LET s == [Touch(sess) EXCEPT !.replyl = @ \ {c}, !.awaitl = @ \ {c}]
        IN  sess' = IF s.replyl # {} THEN s
                    ELSE Finish([s EXCEPT !.established = TRUE], drop, ok)
  BY DEF ReplyTimeout
<1> DEFINE s == [Touch(sess) EXCEPT !.replyl = @ \ {c}, !.awaitl = @ \ {c}]
           e == [s EXCEPT !.established = TRUE]
<1>2. /\ e \in Session /\ Same(sess, e, {"replyl", "awaitl", "established"})
      /\ s.replyl # {} => Inv(s)
      /\ s.replyl = {} /\ sess.terminated # 0 => Leaving(e)
  BY ReplyGone
<1>3. sess' = IF s.replyl # {} THEN s ELSE Finish(e, drop, ok)
  BY <1>1
<1> HIDE DEF s, e
<1>4. sess \in Session /\ sess.life = "live" /\ Inv(sess) /\ LiveInv(sess)
  BY Alive
<1>5. /\ e.terminated = sess.terminated /\ e.req = sess.req
      /\ e.estabs = sess.estabs
  BY <1>2, <1>4 DEF Session, Same
<1>6. CASE s.replyl = {} /\ sess.terminated = 0
  <2>1. Same(sess, e, Exchange \cup {"peerterm"})
    BY <1>2, SameMono DEF Exchange
  <2>2. e.req # "BYE" /\ e.estabs <= 1
    BY <1>4, <1>5, <1>6 DEF LiveInv, LiveCore, Inv, Sound
  <2>3. Serving(e)
    BY <1>2, <1>4, <1>6, <2>1, <2>2, StillServing
  <2> QED
    BY <1>3, <1>6, <2>3, FinishInv DEF Ending, IInv
<1>7. CASE s.replyl = {} /\ sess.terminated # 0
  BY <1>2, <1>3, <1>5, <1>7, FinishInv DEF Ending, IInv
<1>8. CASE s.replyl # {}
  BY <1>2, <1>3, <1>8 DEF IInv
<1> QED
  BY <1>6, <1>7, <1>8

(* The retry timer of a re-INVITE preserves the invariant. *)
LEMMA ModifyTimerStep == ASSUME IInv, ModifyTimer PROVE IInv'
<1> DEFINE t == [sess EXCEPT !.tmr = FALSE]
<1>1. /\ sess \in Session /\ sess.life = "live" /\ Touch(sess) = sess
      /\ Inv(sess) /\ LiveInv(sess) /\ sess.tmr
  BY Alive DEF ModifyTimer
<1>2. PICK send \in BOOLEAN : sess' = sipsess_reinvite(t, TRUE, send)
  BY <1>1 DEF ModifyTimer
<1>3. sess.terminated = 0
  BY <1>1 DEF LiveInv, LiveCore
<1>4. InService(sess) /\ sess.estabs <= 1
  BY <1>1, <1>3 DEF LiveInv, Inv, Sound
<1>5. sess.req = "none" /\ sess.replyl = {} /\ ~sess.st
  BY <1>1, <1>4 DEF InService, B, Session
<1>6. t \in Session /\ ~t.tmr /\ Same(sess, t, {"tmr"})
  <2>1. sess \in Session
    BY <1>1
  <2> QED
    BY <2>1 DEF Session, Same
<1> HIDE DEF t
<1> DEFINE v == sipsess_reinvite(t, TRUE, send)
<1>7. t.req = "none"
  BY <1>1, <1>5, <1>6 DEF Session, Same
<1>8. /\ v \in Session /\ ~v.modify_pending
      /\ v.req = IF send THEN "REINVITE" ELSE "none"
      /\ Same(t, v, {"sent_offer", "modify_pending", "req", "failc",
                     "last_scode"})
  BY <1>6, <1>7, ReinviteFields
<1> HIDE DEF v
<1>9. Same(sess, v, Exchange)
  BY <1>1, <1>6, <1>8, SameTrans DEF Exchange
<1>10. /\ v.tmr = t.tmr /\ v.replyl = sess.replyl /\ v.st = sess.st
       /\ v.estabs = sess.estabs /\ v.established = sess.established
       /\ v.app = sess.app
  BY <1>1, <1>6, <1>8 DEF Session, Same
<1>11. InService(v) /\ v.req # "BYE"
  BY <1>4, <1>5, <1>6, <1>8, <1>10 DEF InService, B
<1>12. Inv(v)
  BY <1>1, <1>3, <1>4, <1>8, <1>9, <1>10, <1>11, StaysInService
<1> QED
  BY <1>2, <1>12 DEF IInv, v

(* A CANCEL preserves the invariant. *)
LEMMA CancelStep == ASSUME IInv, Cancel PROVE IInv'
<1> DEFINE t == [sess EXCEPT !.st = FALSE, !.peerterm = TRUE]
<1>1. /\ sess \in Session /\ sess.life = "live" /\ Touch(sess) = sess
      /\ Inv(sess) /\ LiveInv(sess) /\ sess.st
  BY Alive DEF Cancel
<1>2. PICK drop \in BOOLEAN, ok \in BOOLEAN :
        sess' = sipsess_terminate(t, drop, ok)
  BY <1>1 DEF Cancel
<1>3. sess.terminated = 0 /\ sess.req # "BYE" /\ sess.estabs <= 1
  BY <1>1 DEF LiveInv, LiveCore, Inv, Sound
<1>4. /\ t \in Session /\ Same(sess, t, {"st", "peerterm"})
      /\ t.req = sess.req /\ t.estabs = sess.estabs
  <2>1. sess \in Session
    BY <1>1
  <2> QED
    BY <2>1 DEF Session, Same
<1> HIDE DEF t
<1>5. Same(sess, t, Exchange \cup {"peerterm"})
  BY <1>4, SameMono DEF Exchange
<1>6. Serving(t)
  BY <1>1, <1>3, <1>4, <1>5, StillServing
<1> QED
  BY <1>2, <1>6, SessTerminate DEF IInv

(* A BYE of the peer preserves the invariant. *)
LEMMA ByeStep == ASSUME IInv, Bye PROVE IInv'
<1>1. PICK c \in CSeq, drop \in BOOLEAN, ok \in BOOLEAN :
        LET s == [Touch(sess) EXCEPT !.rseq = c, !.peerterm = TRUE]
        IN  sess' = IF s.terminated # 0 THEN s
                    ELSE sipsess_terminate([s EXCEPT !.st = FALSE], drop, ok)
  BY DEF Bye
<1>2. /\ sess \in Session /\ sess.life = "live" /\ Touch(sess) = sess
      /\ Inv(sess) /\ LiveInv(sess)
  BY Alive DEF Bye
<1> DEFINE s == [sess EXCEPT !.rseq = c, !.peerterm = TRUE]
           t == [s EXCEPT !.st = FALSE]
<1>3. sess' = IF s.terminated # 0 THEN s ELSE sipsess_terminate(t, drop, ok)
  BY <1>1, <1>2
<1>4. s \in Session /\ s.peerterm /\ Same(sess, s, {"rseq", "peerterm"})
  <2>1. s \in Session
    BY <1>2 DEF Session
  <2>2. s.peerterm /\ Same(sess, s, {"rseq", "peerterm"})
    BY <1>2 DEF Session, Same
  <2> QED
    BY <2>1, <2>2
<1> HIDE DEF s
<1>5. t \in Session /\ Same(s, t, {"st"})
  BY <1>4 DEF Session, Same
<1> HIDE DEF t
<1>6. /\ s.terminated = sess.terminated /\ s.req = sess.req
      /\ s.replyl = sess.replyl /\ s.requestl = sess.requestl
      /\ s.app = sess.app /\ s.established = sess.established
      /\ s.estabs = sess.estabs
  BY <1>2, <1>4 DEF Session, Same
<1>7. t.req = s.req /\ t.estabs = s.estabs
  BY <1>4, <1>5 DEF Session, Same
<1>8. CASE sess.terminated # 0
  <2>1. Same(sess, s, {"replyl", "awaitl", "requestl", "rseq", "peerterm",
                       "established"})
    BY <1>4, SameMono
  <2>2. Holders(s) = Holders(sess)
    BY <1>6 DEF Holders
  <2>3. Inv(s)
    BY <1>2, <1>4, <1>6, <1>8, <2>1, <2>2, Waning
  <2> QED
    BY <1>3, <1>6, <1>8, <2>3 DEF IInv
<1>9. CASE sess.terminated = 0
  <2>1. Same(sess, t, Exchange \cup {"peerterm"})
    BY <1>2, <1>4, <1>5, SameTrans DEF Exchange
  <2>2. t.req # "BYE" /\ t.estabs <= 1
    BY <1>2, <1>6, <1>7, <1>9 DEF LiveInv, LiveCore, Inv, Sound
  <2>3. Serving(t)
    BY <1>2, <1>5, <1>9, <2>1, <2>2, StillServing
  <2> QED
    BY <1>3, <1>6, <1>9, <2>3, SessTerminate DEF IInv
<1> QED
  BY <1>8, <1>9

(* A session in service with 2xx replies outstanding has no other exchange *)
(* under way, and starts a re-INVITE only when the last reply is over.     *)
LEMMA RepliesServing ==
  ASSUME IInv, sess.replyl # {}, sess.terminated = 0,
         NEW v \in Session, Same(sess, v, Exchange),
         v.tmr = sess.tmr, v.st = sess.st,
         v.req \in {"none", "REINVITE"},
         v.req # "none" => v.replyl = {},
         v.modify_pending => v.replyl # {},
         v.estabs <= 1, v.estabs = 1 => v.established
  PROVE  Inv(v)
<1>1. sess \in Session /\ sess.life = "live" /\ Inv(sess) /\ LiveInv(sess)
  BY Alive
<1>2. InService(sess)
  BY <1>1 DEF LiveInv
<1>3. ~sess.tmr /\ ~sess.st
  BY <1>1, <1>2 DEF InService, B, Session
<1>4. v.app = sess.app
  BY <1>1 DEF Session, Same, Exchange
<1>5. InService(v) /\ v.req # "BYE"
  BY <1>2, <1>3, <1>4 DEF InService, B
<1> QED
  BY <1>1, <1>5, StaysInService

(* An ACK preserves the invariant. *)
LEMMA AckStep == ASSUME IInv, Ack PROVE IInv'
<1>1. PICK c \in sess.replyl, err \in BOOLEAN, drop \in BOOLEAN,
           ok \in BOOLEAN, send \in BOOLEAN :
       LET s == [Touch(sess) EXCEPT !.replyl = @ \ {c}, !.awaitl = @ \ {c}]
           answered == c \in sess.awaitl
           t == [s EXCEPT !.awaiting_answer = @ /\ ~answered]
           u == IF t.modify_pending /\ t.replyl = {}
                THEN sipsess_reinvite(t, TRUE, send) ELSE t
           e == [u EXCEPT !.established = TRUE]
       IN  sess' = IF s.terminated # 0
                   THEN IF s.replyl # {} THEN s
                        ELSE mem_deref([s EXCEPT !.established = TRUE], ok)
                   ELSE IF u.established THEN u
                   ELSE IF answered /\ err THEN sipsess_terminate(e, drop, ok)
                   ELSE [e EXCEPT !.estabs = @ + 1]
  BY DEF Ack
<1> DEFINE s == [Touch(sess) EXCEPT !.replyl = @ \ {c}, !.awaitl = @ \ {c}]
           answered == c \in sess.awaitl
           t == [s EXCEPT !.awaiting_answer = @ /\ ~answered]
           u == IF t.modify_pending /\ t.replyl = {}
                THEN sipsess_reinvite(t, TRUE, send) ELSE t
           e == [u EXCEPT !.established = TRUE]
           g == [e EXCEPT !.estabs = @ + 1]
           d == [s EXCEPT !.established = TRUE]
<1>2. \/ s.terminated # 0 /\ s.replyl # {} /\ sess' = s
      \/ s.terminated # 0 /\ s.replyl = {} /\ sess' = mem_deref(d, ok)
      \/ s.terminated = 0 /\ u.established /\ sess' = u
      \/ s.terminated = 0 /\ ~u.established
           /\ (sess' = sipsess_terminate(e, drop, ok) \/ sess' = g)
  BY <1>1
<1>3. /\ s \in Session /\ Same(sess, s, {"replyl", "awaitl"})
      /\ s.replyl # {} => Inv(s)
      /\ s.replyl = {} /\ sess.terminated # 0 => Leaving(d)
  BY ReplyGone
<1> HIDE DEF s, d, answered
<1>4. sess \in Session /\ sess.life = "live" /\ Inv(sess) /\ LiveInv(sess)
  BY Alive
<1>5. /\ s.terminated = sess.terminated /\ s.req = sess.req
  BY <1>3, <1>4 DEF Session, Same
<1>6. CASE s.terminated # 0
  BY <1>2, <1>3, <1>5, <1>6, MemDeref DEF IInv
<1>7. CASE s.terminated = 0
  <2>1. InService(sess) /\ sess.estabs <= 1
    BY <1>4, <1>5, <1>7 DEF LiveInv, Inv, Sound
  <2>2. sess.req = "none"
    BY <1>4, <2>1 DEF InService, B, Session
  <2>3. t \in Session /\ Same(s, t, {"awaiting_answer"})
    <3>1. \A b \in BOOLEAN : [s EXCEPT !.awaiting_answer = b] \in Session
      BY <1>3 DEF Session
    <3>2. (s.awaiting_answer /\ ~answered) \in BOOLEAN
      BY <1>3 DEF Session
    <3>3. t \in Session
      BY <3>1, <3>2
    <3>4. Same(s, t, {"awaiting_answer"})
      BY <1>3 DEF Session, Same
    <3> QED
      BY <3>3, <3>4
  <2> HIDE DEF t
  <2>4. t.req = "none" /\ t.replyl = s.replyl
    BY <1>3, <1>5, <2>2, <2>3 DEF Session, Same
  <2>5. /\ u \in Session /\ u.req \in {"none", "REINVITE"}
        /\ u.req # "none" => t.replyl = {}
        /\ u.modify_pending => t.replyl # {}
        /\ Same(t, u, {"sent_offer", "modify_pending", "req", "failc",
                       "last_scode"})
    <3>1. CASE t.modify_pending /\ t.replyl = {}
      <4> DEFINE x == sipsess_reinvite(t, TRUE, send)
      <4>1. /\ x \in Session /\ ~x.modify_pending
            /\ x.req = IF send THEN "REINVITE" ELSE "none"
            /\ Same(t, x, {"sent_offer", "modify_pending", "req", "failc",
                           "last_scode"})
        BY <2>3, <2>4, ReinviteFields
      <4>2. u = x
        BY <3>1
      <4> HIDE DEF x, u
      <4> QED
        BY <3>1, <4>1, <4>2
    <3>2. CASE ~(t.modify_pending /\ t.replyl = {})
      <4>1. u = t
        BY <3>2
      <4>2. Same(t, t, {"sent_offer", "modify_pending", "req", "failc",
                        "last_scode"})
        BY DEF Same
      <4> HIDE DEF u
      <4> QED
        BY <2>3, <2>4, <3>2, <4>1, <4>2
    <3> QED
      BY <3>1, <3>2
  <2> HIDE DEF u
  <2>6. Same(sess, u, {"replyl", "awaitl", "awaiting_answer", "sent_offer",
                       "modify_pending", "req", "failc", "last_scode"})
    <3>1. Same(sess, t, {"replyl", "awaitl", "awaiting_answer"})
      BY <1>3, <1>4, <2>3, SameTrans
    <3> QED
      BY <1>4, <2>3, <2>5, <3>1, SameTrans
  <2>7. /\ u.tmr = sess.tmr /\ u.st = sess.st /\ u.estabs = sess.estabs
        /\ u.established = sess.established
    BY <1>4, <2>5, <2>6 DEF Session, Same
  <2>8. u.replyl = t.replyl
    BY <2>3, <2>5 DEF Session, Same
  <2>9. CASE u.established /\ sess' = u
    <3>1. Same(sess, u, Exchange)
      BY <2>6, SameMono DEF Exchange
    <3>2. Inv(u)
      BY <1>5, <1>7, <2>1, <2>5, <2>7, <2>8, <2>9, <3>1, RepliesServing
         DEF InService
    <3> QED
      BY <2>9, <3>2 DEF IInv
  <2>10. e \in Session /\ e.established /\ Same(u, e, {"established"})
    BY <2>5 DEF Session, Same
  <2> HIDE DEF e
  <2>11. /\ e.tmr = u.tmr /\ e.st = u.st /\ e.estabs = u.estabs
         /\ e.req = u.req /\ e.replyl = u.replyl
         /\ e.modify_pending = u.modify_pending
    BY <2>5, <2>10 DEF Session, Same
  <2>12. Same(sess, e, Exchange)
    BY <1>4, <2>5, <2>6, <2>10, SameTrans DEF Exchange
  <2>13. CASE ~u.established /\ sess' = sipsess_terminate(e, drop, ok)
    <3>1. Same(sess, e, Exchange \cup {"peerterm"})
      BY <2>12, SameMono
    <3>2. Serving(e)
      BY <1>4, <1>5, <1>7, <2>1, <2>5, <2>7, <2>10, <2>11, <3>1, StillServing
    <3> QED
      BY <2>13, <3>2, SessTerminate DEF IInv
  <2>14. CASE ~u.established /\ sess' = g
    <3>1. sess.estabs = 0
      BY <1>4, <2>1, <2>7, <2>14 DEF InService, Session
    <3>2. g = [e EXCEPT !.estabs = 1]
      <4>1. e.estabs + 1 = 1
        BY <2>7, <2>11, <3>1
      <4> QED
        BY <4>1
    <3>3. g \in Session /\ g.estabs = 1 /\ Same(e, g, {"estabs"})
      <4>1. e \in Session
        BY <2>10
      <4> QED
        BY <3>2, <4>1 DEF Session, Same
    <3> HIDE DEF g
    <3>4. Same(sess, g, Exchange)
      BY <1>4, <2>10, <2>12, <3>3, SameTrans DEF Exchange
    <3>5. /\ g.tmr = e.tmr /\ g.st = e.st /\ g.req = e.req
          /\ g.replyl = e.replyl /\ g.modify_pending = e.modify_pending
          /\ g.established = e.established
      <4>1. e \in Session /\ Same(e, g, {"estabs"})
        BY <2>10, <3>3
      <4> QED
        BY <4>1 DEF Session, Same
    <3>6. /\ g.tmr = sess.tmr /\ g.st = sess.st /\ g.established
          /\ g.req \in {"none", "REINVITE"}
          /\ g.req # "none" => g.replyl = {}
          /\ g.modify_pending => g.replyl # {}
      BY <2>5, <2>7, <2>8, <2>10, <2>11, <3>5
    <3>7. Inv(g)
      BY <1>5, <1>7, <3>3, <3>4, <3>6, RepliesServing
    <3> QED
      BY <2>14, <3>7 DEF IInv
  <2> QED
    BY <1>2, <1>7, <2>9, <2>13, <2>14
<1> QED
  BY <1>6, <1>7

(* A request of the peer that only moves the sequence number. *)
LEMMA RseqInv ==
  ASSUME IInv, sess.inhash, sess.terminated = 0, NEW c \in CSeq
  PROVE  LET s == [Touch(sess) EXCEPT !.rseq = c] IN
         s \in Session /\ Same(sess, s, {"rseq"}) /\ Inv(s)
<1> DEFINE s == [sess EXCEPT !.rseq = c]
<1>1. sess \in Session /\ sess.life = "live" /\ Touch(sess) = sess
      /\ Inv(sess) /\ LiveInv(sess)
  BY Alive
<1>2. s \in Session /\ s.rseq = c /\ Same(sess, s, {"rseq"})
  <2>1. sess \in Session
    BY <1>1
  <2> QED
    BY <2>1 DEF Session, Same
<1> HIDE DEF s
<1>3. /\ s.req = sess.req /\ s.replyl = sess.replyl /\ s.app = sess.app
      /\ s.tmr = sess.tmr /\ s.st = sess.st
      /\ s.estabs = sess.estabs /\ s.established = sess.established
      /\ s.modify_pending = sess.modify_pending
  BY <1>1, <1>2 DEF Session, Same
<1>4. c # 0
  BY SipSessAssumption DEF CSeq
<1>5. InService(s) /\ s.req # "BYE" /\ s.estabs <= 1
  BY <1>1, <1>2, <1>3, <1>4 DEF LiveInv, LiveCore, InService, Inv, Sound
<1>6. Same(sess, s, Exchange)
  BY <1>2, SameMono DEF Exchange
<1>7. Inv(s)
  BY <1>1, <1>2, <1>5, <1>6, StaysInService
<1> QED
  BY <1>1, <1>2, <1>7 DEF s

(* An INFO or REFER of the peer preserves the invariant. *)
LEMMA InDialogStep == ASSUME IInv, InDialog PROVE IInv'
  BY RseqInv DEF InDialog, IInv

(* The session of a re-INVITE that is answered with a 2xx, or an INVITE.   *)
LEMMA Replied ==
  ASSUME NEW s, Inv(s), s.life = "live", s.terminated = 0,
         s.req = "none",
         NEW r \in Session, Same(s, r, Exchange),
         r.req = "none", ~r.st, ~r.tmr,
         r.modify_pending => r.replyl # {},
         r.estabs = s.estabs, r.established = s.established
  PROVE  Inv(r)
<1>1. LiveInv(s) /\ s \in Session /\ Sound(s)
  BY DEF Inv, GoneInv, Sound
<1>2. r.app = s.app
  BY <1>1 DEF Session, Same, Exchange
<1>3. InService(r) /\ r.req # "BYE" /\ r.estabs <= 1
  BY <1>1, <1>2 DEF LiveInv, InService, B, Sound
<1> QED
  BY <1>3, StaysInService

(* A re-INVITE of the peer preserves the invariant. *)
LEMMA ReinviteStep == ASSUME IInv, Reinvite PROVE IInv'
<1>1. PICK c \in CSeq, refuse \in BOOLEAN, offer \in BOOLEAN,
           desc \in BOOLEAN, send \in BOOLEAN :
       LET s == [Touch(sess) EXCEPT !.rseq = c]
       IN  sess' = IF \/ s.st \/ s.awaiting_answer
                      \/ s.req # "none"
                      \/ refuse
                   THEN s
                   ELSE [sipsess_reply_2xx(s, c, offer, desc, send)
                           EXCEPT !.desc = FALSE, !.modify_pending = FALSE,
                                  !.tmr = FALSE]
  BY DEF Reinvite
<1> DEFINE s == [Touch(sess) EXCEPT !.rseq = c]
           r == sipsess_reply_2xx(s, c, offer, desc, send)
           v == [r EXCEPT !.desc = FALSE, !.modify_pending = FALSE,
                          !.tmr = FALSE]
<1>2. sess' = s \/ (s.req = "none" /\ sess' = v)
  BY <1>1
<1>3. sess.inhash /\ sess.terminated = 0
  BY DEF Reinvite
<1>4. s \in Session /\ Same(sess, s, {"rseq"}) /\ Inv(s)
  BY <1>3, RseqInv
<1> HIDE DEF s
<1>5. sess \in Session /\ sess.life = "live"
  BY <1>3, Alive
<1>6. s.life = "live" /\ s.terminated = 0
  BY <1>3, <1>4, <1>5 DEF Session, Same
<1>7. /\ r \in Session /\ ~r.st
      /\ Same(s, r, {"st", "replyl", "awaitl", "awaiting_answer"})
  BY <1>4, Reply2xxFields
<1> HIDE DEF r
<1>8. /\ v \in Session /\ ~v.modify_pending /\ ~v.tmr
      /\ Same(r, v, {"desc", "modify_pending", "tmr"})
  <2>1. r \in Session
    BY <1>7
  <2> QED
    BY <2>1 DEF Session, Same
<1> HIDE DEF v
<1>9. /\ v.req = s.req /\ v.estabs = s.estabs /\ v.st = r.st
      /\ v.established = s.established
  BY <1>4, <1>7, <1>8 DEF Session, Same
<1>10. Same(s, v, Exchange)
  BY <1>4, <1>7, <1>8, SameTrans DEF Exchange
<1>11. CASE s.req = "none" /\ sess' = v
  BY <1>4, <1>6, <1>7, <1>8, <1>9, <1>10, <1>11, Replied DEF IInv
<1> QED
  BY <1>2, <1>4, <1>11 DEF IInv

----------------------------------------------------------------------------
(* The application's calls. *)

(* A new session is in service. *)
LEMMA AllocInv ==
  ASSUME NEW desc \in BOOLEAN
  PROVE  LET a == sipsess_alloc(desc) IN
         /\ a \in Session /\ Inv(a) /\ a.life = "live" /\ a.terminated = 0
         /\ a.req = "none" /\ ~a.tmr /\ ~a.st /\ a.replyl = {}
         /\ ~a.modify_pending /\ a.estabs = 0 /\ a.app /\ ~a.established
<1> DEFINE a == sipsess_alloc(desc)
<1>1. a \in Session
  BY DEF sipsess_alloc, Session
<1>2. /\ a.life = "live" /\ a.terminated = 0 /\ a.nrefs = 1 /\ ~a.internal
      /\ a.req = "none" /\ ~a.tmr /\ ~a.st /\ a.replyl = {} /\ a.requestl = 0
      /\ ~a.modify_pending /\ a.estabs = 0 /\ a.closes = 0 /\ a.app
      /\ ~a.closed /\ a.bye = "none" /\ ~a.uaf /\ ~a.established
  BY DEF sipsess_alloc
<1> HIDE DEF a
<1>3. Sound(a)
  BY <1>1, <1>2 DEF Sound
<1>4. LiveCore(a)
  BY <1>2 DEF LiveCore
<1>5. RefCount(a, 0) /\ InService(a)
  BY <1>2 DEF RefCount, Holders, B, InService
<1> QED
  BY <1>1, <1>2, <1>3, <1>4, <1>5 DEF Inv, LiveInv, a

(* The application forgets its pointer. *)
LEMMA DropFields ==
  ASSUME NEW s \in Session
  PROVE  LET v == [s EXCEPT !.app = FALSE] IN
         v \in Session /\ ~v.app /\ Same(s, v, {"app"})
  BY DEF Session, Same

(* The application gives up its reference. *)
LEMMA AppDerefInv ==
  ASSUME NEW s, Inv(s), s.app, NEW ok \in BOOLEAN
  PROVE  Inv(AppDeref(s, ok))
<1> DEFINE v == [s EXCEPT !.app = FALSE]
<1>1. s \in Session /\ LiveInv(s) /\ Sound(s)
  BY DEF Inv, Sound, GoneInv
<1>2. v \in Session /\ ~v.app /\ Same(s, v, {"app"})
  BY <1>1, DropFields
<1> HIDE DEF v
<1>3. /\ v.life = s.life /\ v.established = s.established
      /\ v.peerterm = s.peerterm /\ v.req = s.req /\ v.bye = s.bye
      /\ v.replyl = s.replyl /\ v.requestl = s.requestl
      /\ v.closed = s.closed /\ v.inhash = s.inhash /\ v.estabs = s.estabs
      /\ v.closes = s.closes /\ v.uaf = s.uaf /\ v.nrefs = s.nrefs
      /\ v.terminated = s.terminated /\ v.internal = s.internal
      /\ v.tmr = s.tmr /\ v.st = s.st
  BY <1>1, <1>2 DEF Session, Same
<1>4. Sound(v)
  BY <1>1, <1>2, <1>3 DEF Sound
<1>5. LiveCore(v)
  BY <1>1, <1>2, <1>3 DEF LiveInv, LiveCore
<1>6. RefCount(v, 1)
  <2>1. Holders(v) + 1 = Holders(s) /\ Holders(v) \in Nat
    BY <1>2, <1>3, BNat DEF Holders, B
  <2> QED
    BY <1>1, <1>3, <2>1 DEF RefCount, LiveInv
<1>7. Leaving(v)
  BY <1>2, <1>4, <1>5, <1>6 DEF Leaving
<1> QED
  BY <1>7, MemDeref DEF AppDeref, v

(* A session that could not be made is released (accept.c:129). *)
LEMMA CreatedInv ==
  ASSUME NEW s, Inv(s), s.app, NEW send \in BOOLEAN
  PROVE  Inv(Created(s, send))
<1>1. Inv(AppDeref(s, FALSE))
  BY AppDerefInv
<1> QED
  BY <1>1 DEF Created, AppDeref

(* sipsess_connect preserves the invariant. *)
LEMMA ConnectStep == ASSUME IInv, Connect PROVE IInv'
<1>1. PICK desc \in BOOLEAN, send \in BOOLEAN :
        sess' = Created(invite(sipsess_alloc(desc), send), send)
  BY DEF Connect
<1> DEFINE a == sipsess_alloc(desc)
           v == invite(a, send)
<1>2. /\ a \in Session /\ Inv(a) /\ a.life = "live" /\ a.terminated = 0
      /\ a.req = "none" /\ ~a.tmr /\ ~a.st /\ a.replyl = {}
      /\ ~a.modify_pending /\ a.estabs = 0 /\ a.app /\ ~a.established
  BY AllocInv
<1> HIDE DEF a
<1>3. /\ v \in Session /\ ~v.modify_pending
      /\ v.req = IF send THEN "INVITE" ELSE "none"
      /\ Same(a, v, {"sent_offer", "modify_pending", "req"})
  BY <1>2, InviteFields
<1> HIDE DEF v
<1>4. /\ v.tmr = a.tmr /\ v.st = a.st /\ v.replyl = a.replyl
      /\ v.estabs = a.estabs /\ v.app = a.app /\ v.established = a.established
  <2>1. a \in Session /\ Same(a, v, {"sent_offer", "modify_pending", "req"})
    BY <1>2, <1>3
  <2> QED
    BY <2>1 DEF Session, Same
<1>5. InService(v) /\ v.req # "BYE" /\ v.estabs <= 1
  BY <1>2, <1>3, <1>4 DEF InService, B
<1>6. Same(a, v, Exchange)
  BY <1>3, SameMono DEF Exchange
<1>7. Inv(v)
  BY <1>2, <1>3, <1>5, <1>6, StaysInService
<1>8. Inv(Created(v, send))
  BY <1>2, <1>4, <1>7, CreatedInv
<1> QED
  BY <1>1, <1>8 DEF IInv, a, v

(* sipsess_accept preserves the invariant. *)
LEMMA AcceptStep == ASSUME IInv, Accept PROVE IInv'
<1>1. PICK final \in BOOLEAN, offer \in BOOLEAN, desc \in BOOLEAN,
           send \in BOOLEAN :
       LET s == [sipsess_alloc(FALSE) EXCEPT !.st = TRUE, !.rseq = 1,
                                             !.offer = offer]
       IN  sess' = Created(
             IF final THEN sipsess_reply_2xx(s, 1, offer, desc, send)
                      ELSE [s EXCEPT !.st = send], send)
  BY DEF Accept
<1> DEFINE a == sipsess_alloc(FALSE)
           s == [a EXCEPT !.st = TRUE, !.rseq = 1, !.offer = offer]
           u == sipsess_reply_2xx(s, 1, offer, desc, send)
           w == [s EXCEPT !.st = send]
<1>2. \/ sess' = Created(u, send)
      \/ sess' = Created(w, send)
  BY <1>1
<1>3. /\ a \in Session /\ Inv(a) /\ a.life = "live" /\ a.terminated = 0
      /\ a.req = "none" /\ ~a.tmr /\ ~a.st /\ a.replyl = {}
      /\ ~a.modify_pending /\ a.estabs = 0 /\ a.app /\ ~a.established
  BY AllocInv
<1> HIDE DEF a
<1>4. 1 \in CSeq
  BY SipSessAssumption DEF CSeq
<1>5. /\ s \in Session /\ s.rseq = 1
      /\ Same(a, s, {"st", "rseq", "offer"})
  <2>1. a \in Session
    BY <1>3
  <2>2. s \in Session
    BY <1>4, <2>1 DEF Session
  <2>3. s.rseq = 1 /\ Same(a, s, {"st", "rseq", "offer"})
    BY <2>1 DEF Session, Same
  <2> QED
    BY <2>2, <2>3
<1> HIDE DEF s
<1>6. /\ u \in Session /\ ~u.st
      /\ Same(s, u, {"st", "replyl", "awaitl", "awaiting_answer"})
  BY <1>4, <1>5, Reply2xxFields
<1> HIDE DEF u
<1>7. w \in Session /\ Same(s, w, {"st"})
  <2>1. s \in Session
    BY <1>5
  <2> QED
    BY <2>1 DEF Session, Same
<1> HIDE DEF w
<1>8. Same(a, u, Exchange) /\ Same(a, w, Exchange)
  BY <1>3, <1>5, <1>6, <1>7, SameTrans DEF Exchange
<1>9. /\ u.req = a.req /\ u.tmr = a.tmr /\ u.modify_pending = a.modify_pending
      /\ u.estabs = a.estabs /\ u.established = a.established /\ u.app = a.app
  <2>1. /\ a \in Session /\ s \in Session
        /\ Same(a, s, {"st", "rseq", "offer"})
        /\ Same(s, u, {"st", "replyl", "awaitl", "awaiting_answer"})
    BY <1>3, <1>5, <1>6
  <2> QED
    BY <2>1 DEF Session, Same
<1>10. /\ w.req = a.req /\ w.tmr = a.tmr /\ w.replyl = a.replyl
       /\ w.modify_pending = a.modify_pending /\ w.rseq = s.rseq
       /\ w.estabs = a.estabs /\ w.established = a.established /\ w.app = a.app
  <2>1. /\ a \in Session /\ s \in Session
        /\ Same(a, s, {"st", "rseq", "offer"}) /\ Same(s, w, {"st"})
    BY <1>3, <1>5, <1>7
  <2> QED
    BY <2>1 DEF Session, Same
<1>11. Inv(u)
  BY <1>3, <1>6, <1>8, <1>9, Replied
<1>12. Inv(w)
  <2>1. InService(w) /\ w.req # "BYE" /\ w.estabs <= 1
    BY <1>3, <1>5, <1>10 DEF InService, B
  <2> QED
    BY <1>3, <1>7, <1>8, <2>1, StaysInService
<1> QED
  BY <1>2, <1>3, <1>9, <1>10, <1>11, <1>12, CreatedInv DEF IInv

(* The application finds an INVITE to answer only in service. *)
LEMMA OpenInvite ==
  ASSUME IInv, sess.st
  PROVE  /\ sess \in Session /\ sess.life = "live" /\ Touch(sess) = sess
         /\ Inv(sess) /\ sess.terminated = 0 /\ InService(sess)
         /\ sess.req = "none" /\ ~sess.tmr /\ sess.replyl = {}
         /\ ~sess.modify_pending /\ sess.rseq \in CSeq /\ sess.estabs <= 1
<1>1. /\ sess \in Session /\ sess.life = "live" /\ Touch(sess) = sess
      /\ Inv(sess) /\ LiveInv(sess) /\ Sound(sess)
  BY Alive
<1>2. sess.terminated = 0
  BY <1>1 DEF LiveInv, LiveCore
<1>3. InService(sess)
  BY <1>1, <1>2 DEF LiveInv
<1>4. sess.req = "none" /\ ~sess.tmr /\ sess.replyl = {}
  BY <1>1, <1>3 DEF InService, B, Session
<1>5. sess.rseq \in CSeq
  BY <1>1, <1>3 DEF InService, Session
<1> QED
  BY <1>1, <1>2, <1>3, <1>4, <1>5 DEF InService, Sound

(* sipsess_progress, and sipsess_reject, preserve the invariant. *)
LEMMA ProgressStep == ASSUME IInv, Progress \/ Reject PROVE IInv'
<1>1. sess.st
  BY DEF Progress, Reject
<1>2. /\ sess \in Session /\ sess.life = "live" /\ Touch(sess) = sess
      /\ Inv(sess) /\ sess.terminated = 0 /\ InService(sess)
      /\ sess.req = "none" /\ ~sess.tmr /\ sess.replyl = {}
      /\ ~sess.modify_pending /\ sess.rseq \in CSeq /\ sess.estabs <= 1
  BY <1>1, OpenInvite
<1>3. PICK send \in BOOLEAN : sess' = [sess EXCEPT !.st = send]
  BY <1>2 DEF Progress, Reject
<1> DEFINE v == [sess EXCEPT !.st = send]
<1>4. v \in Session /\ Same(sess, v, {"st"})
  <2>1. sess \in Session
    BY <1>2
  <2> QED
    BY <2>1 DEF Session, Same
<1> HIDE DEF v
<1>5. /\ v.req = sess.req /\ v.tmr = sess.tmr /\ v.replyl = sess.replyl
      /\ v.modify_pending = sess.modify_pending /\ v.rseq = sess.rseq
      /\ v.estabs = sess.estabs /\ v.established = sess.established
      /\ v.app = sess.app
  BY <1>2, <1>4 DEF Session, Same
<1>6. InService(v) /\ v.req # "BYE" /\ v.estabs <= 1
  BY <1>1, <1>2, <1>5 DEF InService, B
<1>7. Same(sess, v, Exchange)
  BY <1>4, SameMono DEF Exchange
<1>8. Inv(v)
  BY <1>2, <1>4, <1>6, <1>7, StaysInService
<1> QED
  BY <1>3, <1>8 DEF IInv, v

(* sipsess_answer preserves the invariant. *)
LEMMA AnswerStep == ASSUME IInv, Answer PROVE IInv'
<1>1. /\ sess \in Session /\ sess.life = "live" /\ Touch(sess) = sess
      /\ Inv(sess) /\ sess.terminated = 0
      /\ sess.req = "none" /\ ~sess.tmr
      /\ ~sess.modify_pending /\ sess.rseq \in CSeq
  BY OpenInvite DEF Answer
<1>2. PICK desc \in BOOLEAN, send \in BOOLEAN :
        sess' = sipsess_reply_2xx(sess, sess.rseq, sess.offer, desc, send)
  BY <1>1 DEF Answer
<1> DEFINE v == sipsess_reply_2xx(sess, sess.rseq, sess.offer, desc, send)
<1>3. sess.offer \in BOOLEAN
  BY <1>1 DEF Session
<1>4. /\ v \in Session /\ ~v.st
      /\ Same(sess, v, {"st", "replyl", "awaitl", "awaiting_answer"})
  BY <1>1, <1>3, Reply2xxFields
<1> HIDE DEF v
<1>5. /\ v.req = sess.req /\ v.tmr = sess.tmr
      /\ v.modify_pending = sess.modify_pending
      /\ v.estabs = sess.estabs /\ v.established = sess.established
  BY <1>1, <1>4 DEF Session, Same
<1>6. Same(sess, v, Exchange)
  BY <1>4, SameMono DEF Exchange
<1>7. Inv(v)
  BY <1>1, <1>4, <1>5, <1>6, Replied
<1> QED
  BY <1>2, <1>7 DEF IInv, v

(* sipsess_modify preserves the invariant. *)
LEMMA ModifyStep == ASSUME IInv, Modify PROVE IInv'
<1>1. sess.app /\ ~sess.st /\ sess.terminated = 0
  BY DEF Modify
<1>2. /\ sess \in Session /\ sess.life = "live" /\ Touch(sess) = sess
      /\ Inv(sess) /\ LiveInv(sess)
  BY <1>1, Alive
<1>3. InService(sess) /\ sess.estabs <= 1 /\ sess.req # "BYE"
  BY <1>1, <1>2 DEF LiveInv, LiveCore, Inv, Sound
<1>4. PICK desc \in BOOLEAN, send \in BOOLEAN :
        LET s == [sess EXCEPT !.desc = desc]
        IN  sess' = IF s.req # "none" \/ s.tmr \/ s.replyl # {}
                    THEN [s EXCEPT !.modify_pending = TRUE]
                    ELSE sipsess_reinvite(s, TRUE, send)
  BY <1>2 DEF Modify
<1> DEFINE s == [sess EXCEPT !.desc = desc]
           v == [s EXCEPT !.modify_pending = TRUE]
           w == sipsess_reinvite(s, TRUE, send)
<1>5. sess' = IF s.req # "none" \/ s.tmr \/ s.replyl # {} THEN v ELSE w
  BY <1>4
<1>6. s \in Session /\ Same(sess, s, {"desc"})
  <2>1. sess \in Session
    BY <1>2
  <2> QED
    BY <2>1 DEF Session, Same
<1> HIDE DEF s
<1>7. /\ s.req = sess.req /\ s.tmr = sess.tmr /\ s.replyl = sess.replyl
      /\ s.st = sess.st /\ s.app = sess.app /\ s.estabs = sess.estabs
      /\ s.established = sess.established
  <2>1. sess \in Session
    BY <1>2
  <2> QED
    BY <1>6, <2>1 DEF Session, Same
<1>8. CASE s.req # "none" \/ s.tmr \/ s.replyl # {}
  <2>1. v \in Session /\ Same(s, v, {"modify_pending"})
    BY <1>6 DEF Session, Same
  <2> HIDE DEF v
  <2>2. /\ v.req = s.req /\ v.tmr = s.tmr /\ v.replyl = s.replyl
        /\ v.st = s.st /\ v.app = s.app /\ v.estabs = s.estabs
        /\ v.established = s.established
    BY <1>6, <2>1 DEF Session, Same
  <2>3. InService(v) /\ v.req # "BYE" /\ v.estabs <= 1
    BY <1>1, <1>3, <1>7, <1>8, <2>2 DEF InService
  <2>4. Same(sess, v, Exchange)
    BY <1>2, <1>6, <2>1, SameTrans DEF Exchange
  <2>5. Inv(v)
    BY <1>1, <1>2, <2>1, <2>3, <2>4, StaysInService
  <2> QED
    BY <1>5, <1>8, <2>5 DEF IInv
<1>9. CASE ~(s.req # "none" \/ s.tmr \/ s.replyl # {})
  <2>1. /\ w \in Session /\ ~w.modify_pending
        /\ w.req = IF send THEN "REINVITE" ELSE "none"
        /\ Same(s, w, {"sent_offer", "modify_pending", "req", "failc",
                       "last_scode"})
    BY <1>6, <1>9, ReinviteFields
  <2> HIDE DEF w
  <2>2. /\ w.tmr = s.tmr /\ w.replyl = s.replyl
        /\ w.st = s.st /\ w.app = s.app /\ w.estabs = s.estabs
        /\ w.established = s.established
    <3>1. Same(s, w, {"sent_offer", "modify_pending", "req", "failc",
                      "last_scode"})
      BY <2>1
    <3> QED
      BY <1>6, <3>1 DEF Session, Same
  <2>3. InService(w) /\ w.req # "BYE" /\ w.estabs <= 1
    BY <1>1, <1>3, <1>7, <1>9, <2>1, <2>2 DEF InService, B
  <2>4. Same(sess, w, Exchange)
    BY <1>2, <1>6, <2>1, SameTrans DEF Exchange
  <2>5. Inv(w)
    BY <1>1, <1>2, <2>1, <2>3, <2>4, StaysInService
  <2> QED
    BY <1>5, <1>9, <2>5 DEF IInv
<1> QED
  BY <1>8, <1>9

(* sipsess_info preserves the invariant. *)
LEMMA InfoStep == ASSUME IInv, Info PROVE IInv'
<1> DEFINE v == [sess EXCEPT !.requestl = @ + 1]
<1>1. sess.app /\ sess.terminated = 0
  BY DEF Info
<1>2. /\ sess \in Session /\ sess.life = "live" /\ Touch(sess) = sess
      /\ Inv(sess) /\ LiveInv(sess)
  BY <1>1, Alive
<1>3. sess' = v
  BY <1>2 DEF Info
<1>4. v \in Session /\ Same(sess, v, {"requestl"})
  <2>1. sess \in Session
    BY <1>2
  <2>2. \A n \in Nat : [sess EXCEPT !.requestl = n] \in Session
    BY <2>1 DEF Session
  <2>3. sess.requestl + 1 \in Nat
    BY <2>1 DEF Session
  <2>4. v \in Session
    BY <2>2, <2>3
  <2>5. Same(sess, v, {"requestl"})
    BY <2>1 DEF Session, Same
  <2> QED
    BY <2>4, <2>5
<1> HIDE DEF v
<1>5. /\ v.req = sess.req /\ v.tmr = sess.tmr /\ v.replyl = sess.replyl
      /\ v.modify_pending = sess.modify_pending /\ v.rseq = sess.rseq
      /\ v.estabs = sess.estabs /\ v.established = sess.established
      /\ v.app = sess.app /\ v.st = sess.st
  <2>1. sess \in Session
    BY <1>2
  <2> QED
    BY <1>4, <2>1 DEF Session, Same
<1>6. InService(v) /\ v.req # "BYE" /\ v.estabs <= 1
  BY <1>1, <1>2, <1>5 DEF InService, LiveInv, LiveCore, Inv, Sound
<1>7. Same(sess, v, Exchange)
  BY <1>4, SameMono DEF Exchange
<1>8. Inv(v)
  BY <1>1, <1>2, <1>4, <1>6, <1>7, StaysInService
<1> QED
  BY <1>3, <1>8 DEF IInv

(* The release of the application's reference preserves the invariant. *)
LEMMA ReleaseStep == ASSUME IInv, Release PROVE IInv'
  BY AppDerefInv DEF Release, IInv

(* The session leaves the hash table by force. *)
LEMMA CloseFields ==
  ASSUME NEW s \in Session
  PROVE  LET v == [s EXCEPT !.inhash = FALSE, !.closed = TRUE] IN
         v \in Session /\ ~v.inhash /\ v.closed /\ Same(s, v, {"inhash", "closed"})
  BY DEF Session, Same

(* sipsess_close_all preserves the invariant. *)
LEMMA CloseAllStep == ASSUME IInv, CloseAll PROVE IInv'
<1> DEFINE v == [sess EXCEPT !.inhash = FALSE, !.closed = TRUE]
<1>1. sess.inhash /\ ~sess.app
  BY DEF CloseAll
<1>2. PICK ok \in BOOLEAN : sess' = mem_deref(v, ok)
  BY DEF CloseAll
<1>3. sess \in Session /\ Sound(sess) /\ LiveInv(sess)
  BY <1>1, Alive
<1>4. sess.terminated # 0 /\ ~sess.closed
  BY <1>1, <1>3 DEF LiveInv, InService, LiveCore
<1>5. v \in Session /\ ~v.inhash /\ v.closed /\ Same(sess, v, {"inhash", "closed"})
  BY <1>3, CloseFields
<1> HIDE DEF v
<1>6. /\ v.life = sess.life /\ v.established = sess.established
      /\ v.peerterm = sess.peerterm /\ v.req = sess.req /\ v.bye = sess.bye
      /\ v.replyl = sess.replyl /\ v.requestl = sess.requestl
      /\ v.estabs = sess.estabs /\ v.app = sess.app
      /\ v.closes = sess.closes /\ v.uaf = sess.uaf /\ v.nrefs = sess.nrefs
      /\ v.terminated = sess.terminated /\ v.internal = sess.internal
      /\ v.tmr = sess.tmr /\ v.st = sess.st
  <2>1. sess \in Session /\ Same(sess, v, {"inhash", "closed"})
    BY <1>3, <1>5
  <2> QED
    BY <2>1 DEF Session, Same
<1>7. Sound(v)
  BY <1>3, <1>5, <1>6 DEF Sound
<1>8. LiveCore(v)
  BY <1>1, <1>3, <1>4, <1>5, <1>6 DEF LiveInv, LiveCore
<1>9. RefCount(v, 1)
  <2>1. Holders(v) = Holders(sess)
    BY <1>6 DEF Holders
  <2>2. sess.nrefs \in Nat /\ sess.nrefs > 0 /\ sess.nrefs = Holders(sess)
    BY <1>3, <1>4, BNat DEF Session, LiveInv, RefCount, B, Holders
  <2> QED
    BY <1>5, <1>6, <2>1, <2>2 DEF RefCount, B
<1>10. Leaving(v)
  BY <1>4, <1>6, <1>7, <1>8, <1>9 DEF Leaving
<1> QED
  BY <1>2, <1>10, MemDeref DEF IInv

----------------------------------------------------------------------------
(* The theorems. *)

(* Initially there is no session, and nothing refers to one. *)
LEMMA InitStep == Init => IInv
<1> SUFFICES ASSUME Init PROVE IInv
  OBVIOUS
<1> DEFINE a == sipsess_alloc(FALSE)
<1>1. sess = [a EXCEPT !.life = "none", !.nrefs = 0, !.inhash = FALSE,
                       !.app = FALSE]
  BY DEF Init
<1>2. sess \in Session
  BY <1>1 DEF sipsess_alloc, Session
<1>3. /\ sess.life = "none" /\ ~sess.app /\ ~sess.inhash /\ ~sess.st
      /\ ~sess.tmr /\ sess.req = "none" /\ sess.replyl = {}
      /\ sess.requestl = 0 /\ ~sess.modify_pending /\ ~sess.uaf
      /\ sess.estabs = 0 /\ sess.closes = 0 /\ sess.bye = "none"
  BY <1>1 DEF sipsess_alloc
<1> QED
  BY <1>2, <1>3 DEF IInv, Inv, Sound, GoneInv

(* Every step of the system preserves the invariant. *)
LEMMA NextStep == IInv /\ [Next]_sess => IInv'
<1> SUFFICES ASSUME IInv, [Next]_sess PROVE IInv'
  OBVIOUS
<1>1. CASE AppNext
  BY <1>1, ConnectStep, AcceptStep, ProgressStep, AnswerStep, ModifyStep,
     InfoStep, ReleaseStep, CloseAllStep DEF AppNext
<1>2. CASE RespNext
  BY <1>2, InviteFailedStep, InviteAcceptedStep, InviteRefusedStep,
     ReinviteFailedStep, ReinviteAcceptedStep, ReinviteRefusedStep,
     ByeDoneStep, ByeChallengedStep, InfoOverStep DEF RespNext
<1>3. CASE ReplyTimeout \/ ModifyTimer
  BY <1>3, ReplyTimeoutStep, ModifyTimerStep
<1>4. CASE PeerNext
  BY <1>4, CancelStep, ByeStep, AckStep, ReinviteStep, InDialogStep
     DEF PeerNext
<1>5. CASE UNCHANGED sess
  BY <1>5 DEF IInv
<1> QED
  BY <1>1, <1>2, <1>3, <1>4, <1>5 DEF Next

(* Every reachable session satisfies the inductive invariant: references   *)
(* and holders agree (mem.c, sess.c:44-160) for every bound on sequence    *)
(* numbers, INFO requests and retries.                                     *)
THEOREM SessionInvariant == Spec => []IInv
<1>1. Init => IInv
  BY InitStep
<1>2. IInv /\ [Next]_sess => IInv'
  BY NextStep
<1> QED
  BY <1>1, <1>2, PTL DEF Spec

(* What the invariant says of one state. *)
LEMMA InvImplies ==
  ASSUME IInv
  PROVE  /\ TypeOK /\ NoUseAfterFree /\ NoLeak /\ HandlersHeld
         /\ OrderlyEnd /\ OneExchange /\ ModifyTriggered
<1>1. sess \in Session /\ Sound(sess) /\ (LiveInv(sess) \/ GoneInv(sess))
  BY DEF IInv, Inv, Sound
<1>2. TypeOK
  BY <1>1 DEF TypeOK
<1>3. NoUseAfterFree
  BY <1>1 DEF Sound, LiveInv, LiveCore, GoneInv, NoUseAfterFree
<1>4. NoLeak
  <2> SUFFICES ASSUME sess.life = "live" PROVE sess.app \/ Waits(sess)
    BY DEF NoLeak
  <2>1. RefCount(sess, 0)
    BY <1>1 DEF LiveInv, GoneInv
  <2>2. Holders(sess) # 0
    BY <1>1, <2>1, BNat DEF RefCount, Session, Holders
  <2> QED
    BY <2>2 DEF Holders, B, Waits
<1>5. HandlersHeld
  BY <1>1 DEF HandlersHeld, LiveInv, LiveCore, GoneInv, InService
<1>6. OrderlyEnd
  BY <1>1 DEF OrderlyEnd, Sound, LiveInv, LiveCore, GoneInv
<1>7. OneExchange
  BY <1>1 DEF OneExchange, LiveInv, GoneInv, InService
<1>8. ModifyTriggered
  BY <1>1 DEF ModifyTriggered, LiveInv, LiveCore, GoneInv, InService, Session
<1> QED
  BY <1>2, <1>3, <1>4, <1>5, <1>6, <1>7, <1>8

(* The record of a session always has the type of struct sipsess. *)
THEOREM TypeCorrect == Spec => []TypeOK
<1>1. IInv => TypeOK
  BY InvImplies
<1> QED
  BY <1>1, SessionInvariant, PTL

(* No handler, timer or call reaches a session whose memory was given back *)
(* (mem.c:268-299, sess.c:119-160).                                        *)
THEOREM MemorySafe == Spec => []NoUseAfterFree
<1>1. IInv => NoUseAfterFree
  BY InvImplies
<1> QED
  BY <1>1, SessionInvariant, PTL

(* A session that is alive still has somebody who will release it: the     *)
(* references termwait and terminate take are all given back.              *)
THEOREM NeverLeaked == Spec => []NoLeak
<1>1. IInv => NoLeak
  BY InvImplies
<1> QED
  BY <1>1, SessionInvariant, PTL

(* No callback reaches an application that released the session.           *)
THEOREM CallbacksHeld == Spec => []HandlersHeld
<1>1. IInv => HandlersHeld
  BY InvImplies
<1> QED
  BY <1>1, SessionInvariant, PTL

(* A session that was not closed by force ends without cutting an exchange *)
(* off, and with a BYE if the dialog was established.                      *)
THEOREM EndsInOrder == Spec => []OrderlyEnd
<1>1. IInv => OrderlyEnd
  BY InvImplies
<1> QED
  BY <1>1, SessionInvariant, PTL

(* Offer/answer exchanges never overlap, and a postponed modification is   *)
(* never forgotten (modify.c, listen.c:121-152).                           *)
THEOREM OfferAnswer == Spec => [](OneExchange /\ ModifyTriggered)
<1>1. IInv => OneExchange /\ ModifyTriggered
  BY InvImplies
<1> QED
  BY <1>1, SessionInvariant, PTL
----------------------------------------------------------------------------
(* What the application hears: no helper but the end of an INVITE and an   *)
(* ACK tells it that the session is established.                           *)
Quiet(s, t) ==
  "estabs" \in DOMAIN s => "estabs" \in DOMAIN t /\ t.estabs = s.estabs

LEMMA QuietTrans == \A s, t, u : Quiet(s, t) /\ Quiet(t, u) => Quiet(s, u)
BY DEF Quiet

(* The end of a session tells nothing. *)
LEMMA QuietDestructor == \A s, ok : Quiet(s, destructor(s, ok))
<1> SUFFICES ASSUME NEW s, NEW ok PROVE Quiet(s, destructor(s, ok))
  OBVIOUS
<1>1. \A t : Quiet(t, termwait(t))
  BY DEF Quiet, termwait
<1>2. \A t : Quiet(t, terminate(t, ok))
  BY DEF Quiet, terminate
<1>3. \A t : Quiet(t, Free(t))
  BY DEF Quiet, Free
<1>4. \A t : Quiet(t, FreeUnlessRef(t))
  BY <1>3 DEF Quiet, FreeUnlessRef
<1>5. destructor(s, ok) \in
        {termwait(s), FreeUnlessRef(terminate(termwait(s), ok)),
         FreeUnlessRef(terminate(s, ok)), Free(s)}
  BY DEF destructor
<1> QED
  BY <1>1, <1>2, <1>3, <1>4, <1>5 DEF Quiet

LEMMA QuietDeref == \A s, ok : Quiet(s, mem_deref(s, ok))
<1> SUFFICES ASSUME NEW s, NEW ok PROVE Quiet(s, mem_deref(s, ok))
  OBVIOUS
<1> DEFINE t == [Touch(s) EXCEPT !.nrefs = @ - 1]
<1>1. Quiet(s, t)
  BY DEF Quiet, Touch
<1>2. mem_deref(s, ok) \in {t, destructor(t, ok)}
  BY DEF mem_deref
<1> QED
  BY <1>1, <1>2, QuietDestructor DEF Quiet

LEMMA QuietTerminate ==
  \A s, drop, ok : Quiet(s, sipsess_terminate(s, drop, ok))
<1> SUFFICES ASSUME NEW s, NEW drop, NEW ok
             PROVE  Quiet(s, sipsess_terminate(s, drop, ok))
  OBVIOUS
<1> DEFINE t == IF Waits(s) THEN termwait(s) ELSE terminate(termwait(s), ok)
           u == [Touch(t) EXCEPT !.closes = @ + 1]
           v == [u EXCEPT !.app = FALSE]
<1>1. \A w : Quiet(w, termwait(w))
  BY DEF Quiet, termwait
<1>2. \A w : Quiet(w, terminate(w, ok))
  BY DEF Quiet, terminate
<1>3. Quiet(s, t)
  BY <1>1, <1>2 DEF Quiet
<1>4. Quiet(t, u)
  BY DEF Quiet, Touch
<1>5. Quiet(u, v)
  BY DEF Quiet
<1>6. Quiet(v, mem_deref(v, ok))
  BY QuietDeref
<1>7. Quiet(s, Touch(s))
  BY DEF Quiet, Touch
<1>8. sipsess_terminate(s, drop, ok) \in {Touch(s), u, mem_deref(v, ok)}
  BY DEF sipsess_terminate, AppDeref
<1>9. Quiet(s, u) /\ Quiet(s, mem_deref(v, ok))
  BY <1>3, <1>4, <1>5, <1>6 DEF Quiet
<1> QED
  BY <1>7, <1>8, <1>9

LEMMA QuietFinish == \A s, drop, ok : Quiet(s, Finish(s, drop, ok))
BY QuietDeref, QuietTerminate DEF Finish

(* The steps of a request. *)
LEMMA QuietRequest ==
  /\ \A s, send : Quiet(s, invite(s, send))
  /\ \A s, reset, send : Quiet(s, sipsess_reinvite(s, reset, send))
  /\ \A s, c : Quiet(s, Completed(s, c))
  /\ \A s : Quiet(s, Failed(s)) /\ Quiet(s, Touch(s))
<1>1. \A s, send : Quiet(s, invite(s, send))
  BY DEF Quiet, invite
<1>2. \A s, reset, send : Quiet(s, sipsess_reinvite(s, reset, send))
  BY DEF Quiet, sipsess_reinvite
<1>3. \A s : Quiet(s, Touch(s)) /\ Quiet(s, Failed(s))
  BY DEF Quiet, Touch, Failed
<1>4. \A s, c : Quiet(s, Completed(s, c))
  BY <1>3 DEF Quiet, Completed, LoopState
<1> QED
  BY <1>1, <1>2, <1>3, <1>4

LEMMA QuietReinvite ==
  \A s, timeout, drop, ok, send :
    Quiet(s, ReinviteDone(s, timeout, drop, ok, send))
<1> TAKE s, timeout, drop, ok, send
<1>1. Quiet(s, [s EXCEPT !.desc = FALSE])
  BY DEF Quiet
<1> QED
  BY <1>1, QuietDeref, QuietTerminate, QuietRequest DEF ReinviteDone

LEMMA QuietReply ==
  \A s, c, offer, desc, send :
    Quiet(s, sipsess_reply_2xx(s, c, offer, desc, send))
BY DEF Quiet, sipsess_reply_2xx

(* A step of the application, besides those that make a session. *)
LEMMA QuietApp ==
  ASSUME Progress \/ Answer \/ Reject \/ Modify \/ Info \/ Release \/ CloseAll
  PROVE  Quiet(sess, sess')
<1>1. CASE Progress \/ Reject \/ Info
  BY <1>1 DEF Progress, Reject, Info, Quiet, Touch
<1>2. CASE Answer
  BY <1>2, QuietReply, QuietRequest DEF Answer, Quiet
<1>3. CASE Modify
  <2> PICK desc, send \in BOOLEAN :
        LET s == [Touch(sess) EXCEPT !.desc = desc]
        IN  sess' = IF s.req # "none" \/ s.tmr \/ s.replyl # {}
                    THEN [s EXCEPT !.modify_pending = TRUE]
                    ELSE sipsess_reinvite(s, TRUE, send)
    BY <1>3 DEF Modify
  <2> DEFINE s == [Touch(sess) EXCEPT !.desc = desc]
  <2> DEFINE t == [s EXCEPT !.modify_pending = TRUE]
  <2>1. Quiet(sess, s) /\ Quiet(s, t)
    BY DEF Quiet, Touch
  <2>2. sess' = t \/ sess' = sipsess_reinvite(s, TRUE, send)
    OBVIOUS
  <2> HIDE DEF s, t
  <2>3. Quiet(s, sipsess_reinvite(s, TRUE, send))
    BY QuietRequest
  <2>4. Quiet(sess, t) /\ Quiet(sess, sipsess_reinvite(s, TRUE, send))
    BY <2>1, <2>3, QuietTrans
  <2> QED
    BY <2>2, <2>4, Zenon
<1>4. CASE Release
  <2> DEFINE s == [sess EXCEPT !.app = FALSE]
  <2> PICK ok \in BOOLEAN : sess' = mem_deref(s, ok)
    BY <1>4 DEF Release, AppDeref
  <2>1. Quiet(sess, s)
    BY DEF Quiet
  <2> HIDE DEF s
  <2> QED
    BY <2>1, QuietDeref DEF Quiet
<1>5. CASE CloseAll
  <2> DEFINE s == [sess EXCEPT !.inhash = FALSE, !.closed = TRUE]
  <2> PICK ok \in BOOLEAN : sess' = mem_deref(s, ok)
    BY <1>5 DEF CloseAll
  <2>1. Quiet(sess, s)
    BY DEF Quiet
  <2> HIDE DEF s
  <2> QED
    BY <2>1, QuietDeref DEF Quiet
<1> QED
  BY <1>1, <1>2, <1>3, <1>4, <1>5

(* The end of a request, besides an INVITE that is accepted. *)
LEMMA QuietResp ==
  ASSUME RespNext, ~InviteAccepted
  PROVE  Quiet(sess, sess')
<1>1. CASE InviteFailed
  BY <1>1, QuietFinish, QuietRequest DEF InviteFailed, Quiet
<1>2. CASE InviteRefused
  <2> PICK c \in Code, again, drop, ok, send \in BOOLEAN :
        LET r == Completed(sess, c)
            t == invite(r, send)
        IN  sess' \in {t, Finish(t, drop, ok), Finish(r, drop, ok)}
    BY <1>2 DEF InviteRefused
  <2> DEFINE r == Completed(sess, c)
             t == invite(r, send)
  <2>1. sess' \in {t, Finish(t, drop, ok), Finish(r, drop, ok)}
    OBVIOUS
  <2>2. Quiet(sess, r) /\ Quiet(r, t)
    BY QuietRequest
  <2> HIDE DEF r, t
  <2> QED
    BY <2>1, <2>2, QuietFinish DEF Quiet
<1>3. CASE ReinviteFailed
  BY <1>3, QuietReinvite, QuietRequest DEF ReinviteFailed, Quiet
<1>4. CASE ReinviteAccepted
  <2> PICK ok, send \in BOOLEAN :
        LET r == Completed(sess, "2xx")
        IN  sess' = ReinviteDone([r EXCEPT !.modify_pending =
                                                      @ /\ r.sent_offer],
                                 FALSE, FALSE, ok, send)
    BY <1>4 DEF ReinviteAccepted
  <2> DEFINE r == Completed(sess, "2xx")
             t == [r EXCEPT !.modify_pending = @ /\ r.sent_offer]
  <2>1. Quiet(sess, r)
    BY QuietRequest
  <2>2. Quiet(r, t)
    BY DEF Quiet
  <2>3. sess' = ReinviteDone(t, FALSE, FALSE, ok, send)
    OBVIOUS
  <2> HIDE DEF r, t
  <2> QED
    BY <2>1, <2>2, <2>3, QuietReinvite, QuietTrans
<1>5. CASE ReinviteRefused
  <2> PICK c \in Code \ {"2xx"} : \E again, drop, ok, send \in BOOLEAN :
       LET r == Completed(sess, c)
           over == sip_request_loops(sess, c) \/ r.terminated # 0
           t == sipsess_reinvite(r, FALSE, send)
       IN  sess' = IF ~over /\ c = "auth" /\ again
                   THEN IF send THEN t
                        ELSE ReinviteDone(t, FALSE, drop, ok, send)
                   ELSE IF ~over /\ c = "gone"
                   THEN sipsess_terminate(r, drop, ok)
                   ELSE IF ~over /\ c \in {"491", "retryafter"}
                   THEN [r EXCEPT !.tmr = TRUE]
                   ELSE ReinviteDone(r, FALSE, drop, ok, send)
    BY <1>5, Zenon DEF ReinviteRefused
  <2> DEFINE r == Completed(sess, c)
             u == [r EXCEPT !.tmr = TRUE]
  <2>1. PICK drop, ok, send \in BOOLEAN :
           \/ sess' = sipsess_reinvite(r, FALSE, send)
           \/ sess' = ReinviteDone(sipsess_reinvite(r, FALSE, send), FALSE,
                                   drop, ok, send)
           \/ sess' = sipsess_terminate(r, drop, ok)
           \/ sess' = u
           \/ sess' = ReinviteDone(r, FALSE, drop, ok, send)
    <3> HIDE DEF u
    <3> QED
      BY DEF u
  <2> DEFINE t == sipsess_reinvite(r, FALSE, send)
  <2>2. Quiet(sess, r) /\ Quiet(r, t)
    BY QuietRequest
  <2>3. Quiet(r, u)
    BY DEF Quiet
  <2>4. /\ Quiet(t, ReinviteDone(t, FALSE, drop, ok, send))
        /\ Quiet(r, ReinviteDone(r, FALSE, drop, ok, send))
        /\ Quiet(r, sipsess_terminate(r, drop, ok))
    BY QuietReinvite, QuietTerminate
  <2> HIDE DEF r, t, u
  <2>5. /\ Quiet(sess, t) /\ Quiet(sess, u)
        /\ Quiet(sess, ReinviteDone(t, FALSE, drop, ok, send))
        /\ Quiet(sess, ReinviteDone(r, FALSE, drop, ok, send))
        /\ Quiet(sess, sipsess_terminate(r, drop, ok))
    BY <2>2, <2>3, <2>4, QuietTrans
  <2>6. \/ sess' = t
        \/ sess' = ReinviteDone(t, FALSE, drop, ok, send)
        \/ sess' = sipsess_terminate(r, drop, ok)
        \/ sess' = u
        \/ sess' = ReinviteDone(r, FALSE, drop, ok, send)
    BY <2>1 DEF t
  <2> QED
    BY <2>5, <2>6, Zenon
<1>6. CASE ByeDone
  BY <1>6, QuietDeref, QuietRequest DEF ByeDone, Quiet
<1>7. CASE ByeChallenged
  <2> DEFINE s == Completed(sess, "auth")
  <2>1. Quiet(sess, s)
    BY QuietRequest
  <2>2. sess' = [s EXCEPT !.req = "BYE"]
    BY <1>7 DEF ByeChallenged
  <2> HIDE DEF s
  <2> QED
    BY <2>1, <2>2 DEF Quiet
<1>8. CASE InfoOver
  <2> PICK gone, drop, ok \in BOOLEAN :
        sess' = RequestOver(IF gone THEN sipsess_terminate(sess, drop, ok)
                                    ELSE sess, ok)
    BY <1>8 DEF InfoOver
  <2> DEFINE s == IF gone THEN sipsess_terminate(sess, drop, ok) ELSE sess
             t == [Touch(s) EXCEPT !.requestl = @ - 1]
  <2>1. Quiet(sess, s)
    BY QuietTerminate DEF Quiet
  <2>2. Quiet(s, t)
    BY DEF Quiet, Touch
  <2>3. sess' \in {t, mem_deref(t, ok)}
    BY DEF RequestOver
  <2> HIDE DEF s, t
  <2> QED
    BY <2>1, <2>2, <2>3, QuietDeref DEF Quiet
<1> QED
  BY <1>1, <1>2, <1>3, <1>4, <1>5, <1>6, <1>7, <1>8 DEF RespNext

(* The timers, and what the peer asks for besides an ACK. *)
LEMMA QuietPeer ==
  ASSUME ReplyTimeout \/ ModifyTimer \/ Cancel \/ Bye \/ Reinvite \/ InDialog
  PROVE  Quiet(sess, sess')
<1>1. CASE ReplyTimeout
  <2> PICK c \in sess.replyl, drop, ok \in BOOLEAN :
        LET s == [Touch(sess) EXCEPT !.replyl = @ \ {c}, !.awaitl = @ \ {c}]
        IN  sess' = IF s.replyl # {} THEN s
                    ELSE Finish([s EXCEPT !.established = TRUE], drop, ok)
    BY <1>1 DEF ReplyTimeout
  <2> DEFINE s == [Touch(sess) EXCEPT !.replyl = @ \ {c}, !.awaitl = @ \ {c}]
             e == [s EXCEPT !.established = TRUE]
  <2>1. Quiet(sess, s) /\ Quiet(s, e)
    BY DEF Quiet, Touch
  <2>2. sess' \in {s, Finish(e, drop, ok)}
    OBVIOUS
  <2> HIDE DEF s, e
  <2> QED
    BY <2>1, <2>2, QuietFinish, QuietTrans
<1>2. CASE ModifyTimer
  <2> DEFINE s == [Touch(sess) EXCEPT !.tmr = FALSE]
  <2> PICK send \in BOOLEAN : sess' = sipsess_reinvite(s, TRUE, send)
    BY <1>2 DEF ModifyTimer
  <2>1. Quiet(sess, s)
    BY DEF Quiet, Touch
  <2> HIDE DEF s
  <2> QED
    BY <2>1, QuietRequest, QuietTrans
<1>3. CASE Cancel
  <2> DEFINE s == [Touch(sess) EXCEPT !.st = FALSE, !.peerterm = TRUE]
  <2> PICK drop, ok \in BOOLEAN : sess' = sipsess_terminate(s, drop, ok)
    BY <1>3 DEF Cancel
  <2>1. Quiet(sess, s)
    BY DEF Quiet, Touch
  <2> HIDE DEF s
  <2> QED
    BY <2>1, QuietTerminate DEF Quiet
<1>4. CASE Bye
  <2> PICK c \in CSeq, drop, ok \in BOOLEAN :
        LET s == [Touch(sess) EXCEPT !.rseq = c, !.peerterm = TRUE]
        IN  sess' = IF s.terminated # 0 THEN s
                    ELSE sipsess_terminate([s EXCEPT !.st = FALSE], drop, ok)
    BY <1>4 DEF Bye
  <2> DEFINE s == [Touch(sess) EXCEPT !.rseq = c, !.peerterm = TRUE]
             t == [s EXCEPT !.st = FALSE]
  <2>1. Quiet(sess, s) /\ Quiet(s, t)
    BY DEF Quiet, Touch
  <2>2. sess' \in {s, sipsess_terminate(t, drop, ok)}
    OBVIOUS
  <2> HIDE DEF s, t
  <2> QED
    BY <2>1, <2>2, QuietTerminate DEF Quiet
<1>5. CASE Reinvite
  <2> PICK c \in CSeq, offer, desc, send \in BOOLEAN :
        LET s == [Touch(sess) EXCEPT !.rseq = c]
        IN  sess' \in {s, [sipsess_reply_2xx(s, c, offer, desc, send)
                            EXCEPT !.desc = FALSE, !.modify_pending = FALSE,
                                   !.tmr = FALSE]}
    BY <1>5 DEF Reinvite
  <2> DEFINE s == [Touch(sess) EXCEPT !.rseq = c]
             t == sipsess_reply_2xx(s, c, offer, desc, send)
             u == [t EXCEPT !.desc = FALSE, !.modify_pending = FALSE,
                            !.tmr = FALSE]
  <2>1. Quiet(sess, s)
    BY DEF Quiet, Touch
  <2>2. Quiet(s, t)
    BY QuietReply
  <2>3. Quiet(t, u)
    BY DEF Quiet
  <2>4. sess' \in {s, u}
    OBVIOUS
  <2> HIDE DEF s, t, u
  <2> QED
    BY <2>1, <2>2, <2>3, <2>4 DEF Quiet
<1>6. CASE InDialog
  BY <1>6 DEF InDialog, Quiet, Touch
<1> QED
  BY <1>1, <1>2, <1>3, <1>4, <1>5, <1>6

(* The application holds a session that is established to it. *)
LEMMA TellsHolder ==
  ASSUME IInv, InviteAccepted \/ Ack
  PROVE  Quiet(sess, sess') \/ (sess.closes = 0 /\ sess.app)
<1>1. sess.terminated = 0 /\ sess.life = "live" => sess.closes = 0 /\ sess.app
  BY DEF IInv, Inv, LiveInv, LiveCore, InService, GoneInv
<1>2. sess.req = "INVITE" \/ sess.inhash => sess.life = "live"
  BY DEF IInv, Inv, LiveInv, LiveCore, GoneInv
<1>3. CASE InviteAccepted
  <2> PICK dlgerr, err, drop, ok, send \in BOOLEAN :
        LET r == Completed(sess, "2xx")
            t == [r EXCEPT !.established = TRUE,
                           !.modify_pending = @ /\ r.sent_offer]
        IN  \/ sess' = Finish(r, drop, ok)
            \/ sess' = Finish(t, drop, ok)
            \/ t.terminated = 0
    BY <1>3 DEF InviteAccepted
  <2> DEFINE r == Completed(sess, "2xx")
             t == [r EXCEPT !.established = TRUE,
                            !.modify_pending = @ /\ r.sent_offer]
  <2>1. Quiet(sess, r)
    BY QuietRequest
  <2>2. Quiet(r, t)
    BY DEF Quiet
  <2>3. t.terminated = sess.terminated
    BY DEF IInv, Inv, Sound, Session, Completed, LoopState, Touch
  <2>4. \/ sess' = Finish(r, drop, ok)
        \/ sess' = Finish(t, drop, ok)
        \/ t.terminated = 0
    OBVIOUS
  <2> HIDE DEF r, t
  <2>5. CASE t.terminated = 0
    BY <1>1, <1>2, <1>3, <2>3, <2>5 DEF InviteAccepted
  <2> QED
    BY <2>1, <2>2, <2>4, <2>5, QuietFinish DEF Quiet
<1>4. CASE Ack
  <2> PICK c \in sess.replyl, err, drop, ok, send \in BOOLEAN :
        LET s == [Touch(sess) EXCEPT !.replyl = @ \ {c}, !.awaitl = @ \ {c}]
            answered == c \in sess.awaitl
            t == [s EXCEPT !.awaiting_answer = @ /\ ~answered]
            u == IF t.modify_pending /\ t.replyl = {}
                 THEN sipsess_reinvite(t, TRUE, send) ELSE t
            e == [u EXCEPT !.established = TRUE]
        IN  sess' = IF s.terminated # 0
                    THEN IF s.replyl # {} THEN s
                         ELSE mem_deref([s EXCEPT !.established = TRUE], ok)
                    ELSE IF u.established THEN u
                    ELSE IF answered /\ err THEN sipsess_terminate(e, drop, ok)
                    ELSE [e EXCEPT !.estabs = @ + 1]
    BY <1>4, Zenon DEF Ack
  <2> DEFINE s == [Touch(sess) EXCEPT !.replyl = @ \ {c}, !.awaitl = @ \ {c}]
             e == [s EXCEPT !.established = TRUE]
  <2>1. Quiet(sess, s) /\ Quiet(s, e)
    BY DEF Quiet, Touch
  <2>2. s.terminated = sess.terminated
    BY DEF IInv, Inv, Sound, Session, Touch
  <2>3. sess' = s \/ sess' = mem_deref(e, ok) \/ s.terminated = 0
    OBVIOUS
  <2> HIDE DEF s, e
  <2>4. CASE s.terminated = 0
    BY <1>1, <1>2, <1>4, <2>2, <2>4 DEF Ack
  <2>5. Quiet(sess, mem_deref(e, ok))
    BY <2>1, QuietDeref, QuietTrans
  <2> QED
    BY <2>1, <2>3, <2>4, <2>5, Zenon
<1> QED
  BY <1>3, <1>4

(* A session that is made, or could not be made, was told to nobody. *)
LEMMA QuietNew ==
  ASSUME Connect \/ Accept
  PROVE  sess'.estabs = 0
<1> DEFINE New(s) == "estabs" \in DOMAIN s /\ s.estabs = 0
<1>1. \A desc : New(sipsess_alloc(desc))
  BY DEF sipsess_alloc
<1>2. \A s, send : New(s) => New(Created(s, send))
  <2> TAKE s, send
  <2>1. Quiet(s, [s EXCEPT !.app = FALSE])
    BY DEF Quiet
  <2> QED
    BY <2>1, QuietDeref DEF Created, Quiet
<1>3. CASE Connect
  <2>1. \A desc, send : New(invite(sipsess_alloc(desc), send))
    BY <1>1, QuietRequest DEF Quiet
  <2> QED
    BY <1>2, <1>3, <2>1 DEF Connect
<1>4. CASE Accept
  <2> PICK final, offer, desc, send \in BOOLEAN :
        LET s == [sipsess_alloc(FALSE) EXCEPT !.st = TRUE, !.rseq = 1,
                                              !.offer = offer]
        IN  sess' = Created(
              IF final THEN sipsess_reply_2xx(s, 1, offer, desc, send)
                       ELSE [s EXCEPT !.st = send], send)
    BY <1>4 DEF Accept
  <2> DEFINE a == sipsess_alloc(FALSE)
             s == [a EXCEPT !.st = TRUE, !.rseq = 1, !.offer = offer]
             t == IF final THEN sipsess_reply_2xx(s, 1, offer, desc, send)
                           ELSE [s EXCEPT !.st = send]
  <2>1. New(a)
    BY <1>1
  <2> HIDE DEF a
  <2>2. New(s)
    BY <2>1
  <2> HIDE DEF s
  <2>3. New(t)
    BY <2>2, QuietReply DEF Quiet
  <2>4. sess' = Created(t, send)
    BY DEF s, a
  <2> HIDE DEF t
  <2> QED
    BY <1>2, <2>3, <2>4
<1> QED
  BY <1>3, <1>4

(* One step tells of the establishment at most once, to a holder that was  *)
(* not told of the end (connect.c:115-210, listen.c:108-155, sess.c:88).   *)
LEMMA CallbackStep ==
  IInv /\ [Next]_sess /\ IInv' =>
    [/\ sess'.estabs <= 1 /\ sess'.closes <= 1
     /\ sess'.estabs > sess.estabs => sess.closes = 0 /\ sess.app]_sess
<1> SUFFICES ASSUME IInv, IInv', Next
             PROVE  /\ sess'.estabs <= 1 /\ sess'.closes <= 1
                    /\ sess'.estabs > sess.estabs => sess.closes = 0 /\ sess.app
  OBVIOUS
<1>1. sess'.estabs <= 1 /\ sess'.closes <= 1
  BY DEF IInv, Inv, Sound
<1>2. "estabs" \in DOMAIN sess /\ sess.estabs \in Nat
  BY DEF IInv, Inv, Sound, Session
<1>3. \/ Quiet(sess, sess') \/ sess'.estabs = 0
      \/ sess.closes = 0 /\ sess.app
  BY QuietApp, QuietResp, QuietPeer, TellsHolder, QuietNew
     DEF Next, AppNext, RespNext, PeerNext
<1> QED
  BY <1>1, <1>2, <1>3 DEF Quiet

(* The application is told that a session is established at most once,     *)
(* that it is closed at most once, and never of the first after the second *)
(* (connect.c, listen.c, sess.c:88-108).                                   *)
THEOREM CallbacksOrdered == Spec => CallbackOrder
<1>1. IInv /\ [Next]_sess /\ IInv' =>
        [/\ sess'.estabs <= 1 /\ sess'.closes <= 1
         /\ sess'.estabs > sess.estabs => sess.closes = 0 /\ sess.app]_sess
  BY CallbackStep
<1> QED
  BY <1>1, SessionInvariant, PTL DEF Spec, CallbackOrder

=============================================================================
