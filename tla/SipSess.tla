------------------------------ MODULE SipSess ------------------------------
(***************************************************************************)
(* One SIP session object of libre's sipsess layer, from sipsess_connect   *)
(* or sipsess_accept until its memory is released.                         *)
(*                                                                         *)
(* The stack is one event loop: a timer, a message or an application call  *)
(* runs to completion before the next one, so every handler is one action. *)
(* The hard part is who may still reach the object: the application, the   *)
(* client request sess->req, the 2xx replies that wait for their ACK, the  *)
(* INFO requests under way and the session hash table of the socket.  The  *)
(* object is reference counted (mem.c); its destructor may refuse to die,  *)
(* take new references and send a BYE.                                     *)
(*                                                                         *)
(* The object is the record `sess', and the functions the handlers share   *)
(* (termwait, terminate, destructor, mem_deref, sipsess_terminate ...) are *)
(* operators from record to record.  Their outcomes that depend on the     *)
(* rest of the world are parameters: ok (the BYE could be sent), send (the *)
(* request or reply could be sent), drop (the application releases its     *)
(* reference from inside the close handler).                               *)
(***************************************************************************)
EXTENDS Naturals

CONSTANTS
  MaxCSeq,    \* highest CSeq number the peer uses
  MaxInfo,    \* INFO requests under way at the same time
  LoopLimit   \* failures after which sip_request_loops gives up (16)

ASSUME SipSessAssumption ==
  /\ MaxCSeq \in Nat \ {0}
  /\ MaxInfo \in Nat
  /\ LoopLimit \in Nat \ {0}

VARIABLE sess

CSeq == 1..MaxCSeq

(* Status codes, as far as the response handlers tell them apart: 401 and  *)
(* 407, 408 and 481, 491, 500 with a Retry-After header, any other 4xx-6xx.*)
Code == {"2xx", "3xx", "auth", "gone", "491", "retryafter", "fail"}

Session ==
  [ life : {"none", "live", "freed"},
    nrefs : Nat,
    terminated : {0, 1, 2},
    established : BOOLEAN,
    peerterm : BOOLEAN,
    sent_offer : BOOLEAN,
    modify_pending : BOOLEAN,
    awaiting_answer : BOOLEAN,
    desc : BOOLEAN,                 \* sess->desc # NULL
    internal : BOOLEAN,             \* the handlers are the internal ones
    st : BOOLEAN,                   \* server transaction of the INVITE open
    offer : BOOLEAN,                \* that INVITE carried a body
    req : {"none", "INVITE", "REINVITE", "BYE"},
    tmr : BOOLEAN,                  \* re-INVITE retry timer runs
    replyl : SUBSET CSeq,           \* 2xx replies without ACK
    awaitl : SUBSET CSeq,           \* ... whose ACK must carry an answer
    requestl : Nat,                 \* INFO requests under way
    rseq : {0} \cup CSeq,
    failc : Nat,                    \* loop state
    last_scode : Code \cup {"none"},
    inhash : BOOLEAN,               \* member of sock->ht_sess
  \* What an observer sees, the program keeps none of these:
    app : BOOLEAN,                  \* the application holds its reference
    closed : BOOLEAN,               \* sipsess_close_all took the object
    bye : {"none", "sent", "failed", "busy"},
    estabs : Nat,                   \* calls of the application's estabh
    closes : Nat,                   \* calls of the application's closeh
    orphan : BOOLEAN,               \* freed with an exchange under way
    uaf : BOOLEAN ]                 \* used after it was freed

B(p) == IF p THEN 1 ELSE 0

(* Every handler that is given the object dereferences it. *)
Touch(s) == [s EXCEPT !.uaf = @ \/ s.life # "live"]

Waits(s) == s.req # "none" \/ s.replyl # {} \/ s.requestl # 0

----------------------------------------------------------------------------
(* sess.c *)

(* Mutant: termwait takes a reference for replies even if there are none. *)
termwait_AlwaysReply(s) ==
  [s EXCEPT !.terminated = 1, !.internal = TRUE, !.tmr = FALSE, !.st = FALSE,
            !.nrefs = @ + B(s.req # "none") + 1 + B(s.requestl # 0)]

(* The application's handlers are replaced, an open INVITE is refused with *)
(* 486 and every exchange under way takes a reference.                     *)
termwait(s) ==
  [s EXCEPT !.terminated = 1, !.internal = TRUE, !.tmr = FALSE, !.st = FALSE,
            !.nrefs = @ + B(s.req # "none") + B(s.replyl # {})
                        + B(s.requestl # 0)]

(* Mutant: the BYE holds no reference. *)
terminate_NoRef(s, ok) ==
  IF ~s.established \/ s.peerterm \/ s.req # "none" \/ ~ok
  THEN [s EXCEPT !.terminated = 2]
  ELSE [s EXCEPT !.terminated = 2, !.bye = "sent", !.req = "BYE"]

terminate(s, ok) ==
  IF ~s.established \/ s.peerterm
  THEN [s EXCEPT !.terminated = 2]
  ELSE IF s.req # "none" \/ ~ok
       THEN [s EXCEPT !.terminated = 2,
                      !.bye = IF s.req # "none" THEN "busy" ELSE "failed"]
       ELSE [s EXCEPT !.terminated = 2, !.bye = "sent", !.req = "BYE",
                      !.failc = 0, !.last_scode = "none", !.nrefs = @ + 1]

(* The tail of the destructor, after which mem_deref gives the memory back.*)
Free(s) ==
  [s EXCEPT !.life = "freed", !.inhash = FALSE, !.tmr = FALSE,
            !.replyl = {}, !.awaitl = {}, !.requestl = 0, !.req = "none",
            !.st = FALSE, !.desc = FALSE, !.orphan = Waits(s)]

FreeUnlessRef(s) == IF s.nrefs > 0 THEN s ELSE Free(s)

(* Mutant: the destructor goes on to the BYE without waiting. *)
destructor_NoWait(s, ok) ==
  IF s.terminated = 2 THEN Free(s)
  ELSE FreeUnlessRef(terminate(IF s.terminated = 0 THEN termwait(s) ELSE s, ok))

destructor(s, ok) ==
  CASE s.terminated = 0 ->
         IF Waits(s) THEN termwait(s)
                     ELSE FreeUnlessRef(terminate(termwait(s), ok))
    [] s.terminated = 1 -> FreeUnlessRef(terminate(s, ok))
    [] OTHER -> Free(s)

mem_deref(s, ok) ==
  LET t == [Touch(s) EXCEPT !.nrefs = @ - 1]
  IN  IF t.nrefs > 0 THEN t ELSE destructor(t, ok)

(* The application gives up its reference. *)
AppDeref(s, ok) == mem_deref([s EXCEPT !.app = FALSE], ok)

sipsess_terminate(s, drop, ok) ==
  IF s.terminated # 0 THEN Touch(s)
  ELSE LET t == IF Waits(s) THEN termwait(s) ELSE terminate(termwait(s), ok)
           u == [Touch(t) EXCEPT !.closes = @ + 1]
       IN  IF drop THEN AppDeref(u, ok) ELSE u

(* How the response handlers and the reply timer end. *)
Finish(s, drop, ok) ==
  IF s.terminated = 0 THEN sipsess_terminate(s, drop, ok)
                      ELSE mem_deref(s, ok)

----------------------------------------------------------------------------
(* Loop detection of the client requests (sip/request.c). *)

sip_request_loops(s, c) ==
  /\ c # "2xx"
  /\ \/ s.failc + 1 >= LoopLimit
     \/ c \notin {"3xx", "auth", "491"} /\ s.last_scode = c

LoopState(s, c) ==
  [s EXCEPT !.failc = IF c = "2xx" THEN 0 ELSE @ + 1, !.last_scode = c]

(* The request completed with status c: sip_request's terminate() clears   *)
(* sess->req before it calls the response handler.                         *)
Completed(s, c) == [LoopState(Touch(s), c) EXCEPT !.req = "none"]

Failed(s) == [Touch(s) EXCEPT !.req = "none"]

----------------------------------------------------------------------------
(* connect.c, modify.c, reply.c *)

invite(s, send) ==
  [s EXCEPT !.sent_offer = s.desc, !.modify_pending = FALSE,
            !.req = IF send THEN "INVITE" ELSE "none"]

sipsess_reinvite(s, reset, send) ==
  IF s.req # "none" THEN s
  ELSE [s EXCEPT !.sent_offer = s.desc, !.modify_pending = FALSE,
                 !.failc = IF reset THEN 0 ELSE @,
                 !.last_scode = IF reset THEN "none" ELSE @,
                 !.req = IF send THEN "REINVITE" ELSE "none"]

(* offer: the request carried a body, desc: the reply carries one. *)
sipsess_reply_2xx(s, c, offer, desc, send) ==
  IF ~send THEN [s EXCEPT !.st = FALSE]
  ELSE [s EXCEPT !.st = FALSE, !.replyl = @ \cup {c},
                 !.awaitl = IF ~offer /\ desc THEN @ \cup {c} ELSE @,
                 !.awaiting_answer = @ \/ (~offer /\ desc)]

sipsess_alloc(desc) ==
  [ life |-> "live", nrefs |-> 1, terminated |-> 0, established |-> FALSE,
    peerterm |-> FALSE, sent_offer |-> FALSE, modify_pending |-> FALSE,
    awaiting_answer |-> FALSE, desc |-> desc, internal |-> FALSE,
    st |-> FALSE, offer |-> FALSE, req |-> "none", tmr |-> FALSE,
    replyl |-> {}, awaitl |-> {}, requestl |-> 0, rseq |-> 0, failc |-> 0,
    last_scode |-> "none", inhash |-> TRUE, app |-> TRUE, closed |-> FALSE,
    bye |-> "none", estabs |-> 0, closes |-> 0, orphan |-> FALSE,
    uaf |-> FALSE ]

Init == sess = [sipsess_alloc(FALSE) EXCEPT !.life = "none", !.nrefs = 0,
                                            !.inhash = FALSE, !.app = FALSE]

----------------------------------------------------------------------------
(* The application's calls *)

(* An error gives the caller no session: the half-made one is released. *)
Created(s, send) ==
  IF send THEN s ELSE mem_deref([s EXCEPT !.app = FALSE], FALSE)

Connect ==
  /\ sess.life = "none"
  /\ \E desc, send \in BOOLEAN :
       sess' = Created(invite(sipsess_alloc(desc), send), send)

Accept ==
  /\ sess.life = "none"
  /\ \E final, offer, desc, send \in BOOLEAN :
       LET s == [sipsess_alloc(FALSE) EXCEPT !.st = TRUE, !.rseq = 1,
                                             !.offer = offer]
       IN  sess' = Created(
             IF final THEN sipsess_reply_2xx(s, 1, offer, desc, send)
                      ELSE [s EXCEPT !.st = send], send)

(* A provisional reply that cannot be sent destroys the transaction. *)
Progress ==
  /\ sess.app /\ sess.st
  /\ \E send \in BOOLEAN : sess' = [Touch(sess) EXCEPT !.st = send]

Answer ==
  /\ sess.app /\ sess.st
  /\ \E desc, send \in BOOLEAN :
       sess' = sipsess_reply_2xx(Touch(sess), sess.rseq, sess.offer, desc, send)

Reject ==
  /\ sess.app /\ sess.st
  /\ sess' = [Touch(sess) EXCEPT !.st = FALSE]

Modify ==
  /\ sess.app /\ ~sess.st /\ sess.terminated = 0
  /\ \E desc, send \in BOOLEAN :
       LET s == [Touch(sess) EXCEPT !.desc = desc]
       IN  sess' = IF s.req # "none" \/ s.tmr \/ s.replyl # {}
                   THEN [s EXCEPT !.modify_pending = TRUE]
                   ELSE sipsess_reinvite(s, TRUE, send)

(* An INFO that cannot be sent leaves no trace. *)
Info ==
  /\ sess.app /\ sess.terminated = 0 /\ sess.requestl < MaxInfo
  /\ sess' = [Touch(sess) EXCEPT !.requestl = @ + 1]

Release ==
  /\ sess.app
  /\ \E ok \in BOOLEAN : sess' = AppDeref(sess, ok)

(* The socket drops every session it still lists.  It is modelled for a    *)
(* session that only waits to end: the reference it drops is not its own.  *)
CloseAll ==
  /\ sess.inhash /\ ~sess.app
  /\ \E ok \in BOOLEAN :
       sess' = mem_deref([sess EXCEPT !.inhash = FALSE, !.closed = TRUE], ok)

----------------------------------------------------------------------------
(* Outcomes of the client requests.  Provisional responses change nothing  *)
(* here: the handlers return at once or only inform the application.       *)

InviteFailed ==
  /\ sess.req = "INVITE"
  /\ \E drop, ok \in BOOLEAN : sess' = Finish(Failed(sess), drop, ok)

(* dlgerr: no dialog can be made from the response; err: the application   *)
(* refuses the body, or the ACK cannot be sent.                            *)
InviteAccepted ==
  /\ sess.req = "INVITE"
  /\ \E dlgerr, err, drop, ok, send \in BOOLEAN :
       LET r == Completed(sess, "2xx")
           t == [r EXCEPT !.established = TRUE,
                          !.modify_pending = @ /\ r.sent_offer]
           u == IF t.modify_pending THEN sipsess_reinvite(t, TRUE, send)
                                    ELSE [t EXCEPT !.desc = FALSE]
       IN  sess' = IF dlgerr THEN Finish(r, drop, ok)
                   ELSE IF err \/ t.terminated # 0 THEN Finish(t, drop, ok)
                   ELSE [u EXCEPT !.estabs = @ + 1]

(* A redirect, or a challenge the session can answer (again): the INVITE   *)
(* is sent again, unless the session ended meanwhile or the request loops. *)
InviteRefused ==
  /\ sess.req = "INVITE"
  /\ \E c \in Code \ {"2xx"} : \E again, drop, ok, send \in BOOLEAN :
       LET r == Completed(sess, c)
           t == invite(r, send)
           retry == /\ again /\ c \in {"3xx", "auth"}
                    /\ ~sip_request_loops(sess, c) /\ r.terminated = 0
       IN  sess' = IF retry /\ send THEN t
                   ELSE Finish(IF retry THEN t ELSE r, drop, ok)

(* Mutant: a modification that waits for the re-INVITE is not sent. *)
ReinviteDone_Forget(s, timeout, drop, ok, send) ==
  IF s.terminated # 0 THEN mem_deref(s, ok)
  ELSE IF timeout THEN sipsess_terminate(s, drop, ok)
  ELSE [s EXCEPT !.desc = FALSE]

(* How reinvite_resp_handler ends when the re-INVITE is over. *)
ReinviteDone(s, timeout, drop, ok, send) ==
  IF s.terminated # 0 THEN mem_deref(s, ok)
  ELSE IF timeout THEN sipsess_terminate(s, drop, ok)
  ELSE IF s.modify_pending THEN sipsess_reinvite(s, TRUE, send)
  ELSE [s EXCEPT !.desc = FALSE]

ReinviteFailed ==
  /\ sess.req = "REINVITE"
  /\ \E timeout, drop, ok, send \in BOOLEAN :
       sess' = ReinviteDone(Failed(sess), timeout, drop, ok, send)

ReinviteAccepted ==
  /\ sess.req = "REINVITE"
  /\ \E ok, send \in BOOLEAN :
       LET r == Completed(sess, "2xx")
       IN  sess' = ReinviteDone([r EXCEPT !.modify_pending =
                                                     @ /\ r.sent_offer],
                                FALSE, FALSE, ok, send)

(* A challenge the session can answer (again) is answered at once, 491 and *)
(* 500 with Retry-After after a while.  A retry that cannot be sent ends   *)
(* like a refusal.                                                         *)
ReinviteRefused ==
  /\ sess.req = "REINVITE"
  /\ \E c \in Code \ {"2xx"} : \E again, drop, ok, send \in BOOLEAN :
       LET r == Completed(sess, c)
           over == sip_request_loops(sess, c) \/ r.terminated # 0
           t == sipsess_reinvite(r, FALSE, send)
       IN  sess' = IF ~over /\ c = "auth" /\ again
                   THEN IF send THEN t
                        ELSE ReinviteDone(t, FALSE, drop, ok, send)
                   ELSE IF ~over /\ c = "gone"
                   THEN sipsess_terminate(r, drop, ok)
                   ELSE IF ~over /\ c \in {"491", "retryafter"}
                   THEN [r EXCEPT !.tmr = TRUE]
                   ELSE ReinviteDone(r, FALSE, drop, ok, send)

ByeDone ==
  /\ sess.req = "BYE"
  /\ \E ok \in BOOLEAN : sess' = mem_deref(Failed(sess), ok)

(* The BYE was challenged and is sent again. *)
ByeChallenged ==
  /\ sess.req = "BYE" /\ ~sess.peerterm
  /\ ~sip_request_loops(sess, "auth")
  /\ sess' = [Completed(sess, "auth") EXCEPT !.req = "BYE"]

(* Mutant: every INFO that ends releases the session, not just the last. *)
RequestOver_Each(s, ok) ==
  LET t == [Touch(s) EXCEPT !.requestl = @ - 1]
  IN  IF t.terminated # 0 THEN mem_deref(t, ok) ELSE t

(* Mutant: the end of the INFO requests does not release the session. *)
RequestOver_Keep(s, ok) == [Touch(s) EXCEPT !.requestl = @ - 1]

(* The end of an INFO request: its destructor releases the session when    *)
(* the last one is over and the session waits for that.                    *)
RequestOver(s, ok) ==
  LET t == [Touch(s) EXCEPT !.requestl = @ - 1]
  IN  IF t.terminated # 0 /\ t.requestl = 0 THEN mem_deref(t, ok) ELSE t

(* gone: answered with 408 or 481, or timed out. *)
InfoOver ==
  /\ sess.requestl # 0
  /\ \E gone, drop, ok \in BOOLEAN :
       sess' = RequestOver(IF gone THEN sipsess_terminate(sess, drop, ok)
                                   ELSE sess, ok)

----------------------------------------------------------------------------
(* Timers *)

(* All reply timers run 64*T1, so they expire in the order of the list. *)
ReplyTimeout ==
  \E c \in sess.replyl : \E drop, ok \in BOOLEAN :
    LET s == [Touch(sess) EXCEPT !.replyl = @ \ {c}, !.awaitl = @ \ {c}]
    IN  /\ \A d \in sess.replyl : c <= d
        /\ sess' = IF s.replyl # {} THEN s
                   ELSE Finish([s EXCEPT !.established = TRUE], drop, ok)

ModifyTimer ==
  /\ sess.tmr
  /\ \E send \in BOOLEAN :
       sess' = sipsess_reinvite([Touch(sess) EXCEPT !.tmr = FALSE], TRUE, send)

----------------------------------------------------------------------------
(* The peer's requests: accept.c and listen.c.  sipsess_find reaches the   *)
(* session through the hash table only.                                    *)

(* The server transaction hands a CANCEL to the session while it is open. *)
Cancel ==
  /\ sess.st
  /\ \E drop, ok \in BOOLEAN :
       sess' = sipsess_terminate([Touch(sess) EXCEPT !.st = FALSE,
                                                     !.peerterm = TRUE],
                                 drop, ok)

(* The peer numbers its requests upwards; a request that overtook another  *)
(* makes the other one invalid (sip_dialog_rseq_valid) and without effect. *)
Bye ==
  /\ sess.inhash
  /\ \E c \in CSeq : \E drop, ok \in BOOLEAN :
       LET s == [Touch(sess) EXCEPT !.rseq = c, !.peerterm = TRUE]
       IN  /\ c > sess.rseq
           /\ sess' = IF s.terminated # 0 THEN s
                      ELSE sipsess_terminate([s EXCEPT !.st = FALSE], drop, ok)

(* Mutant: every ACK establishes the session once more. *)
Ack_Again ==
  /\ sess.inhash
  /\ \E c \in sess.replyl : \E ok \in BOOLEAN :
       LET s == [Touch(sess) EXCEPT !.replyl = @ \ {c}, !.awaitl = @ \ {c}]
           e == [s EXCEPT !.established = TRUE]
       IN  sess' = IF s.terminated # 0
                   THEN IF s.replyl # {} THEN s ELSE mem_deref(e, ok)
                   ELSE [e EXCEPT !.estabs = @ + 1]

Ack ==
  /\ sess.inhash
  /\ \E c \in sess.replyl : \E err, drop, ok, send \in BOOLEAN :
       LET s == [Touch(sess) EXCEPT !.replyl = @ \ {c}, !.awaitl = @ \ {c}]
           answered == c \in sess.awaitl
           t == [s EXCEPT !.awaiting_answer = @ /\ ~answered]
           u == IF t.modify_pending /\ t.replyl = {}
                THEN sipsess_reinvite(t, TRUE, send) ELSE t
           e == [u EXCEPT !.established = TRUE]
       IN  sess' = IF s.terminated # 0
                   THEN IF s.replyl # {} THEN s
                        ELSE mem_deref([s EXCEPT !.established = TRUE], ok)
                   ELSE IF u.established THEN u
                   ELSE IF answered /\ err THEN sipsess_terminate(e, drop, ok)
                   ELSE [e EXCEPT !.estabs = @ + 1]

(* Mutant: no 491 while a request of ours is pending. *)
Reinvite_NoGlare ==
  /\ sess.inhash /\ sess.terminated = 0
  /\ \E c \in CSeq : \E offer, desc, send \in BOOLEAN :
       LET s == [Touch(sess) EXCEPT !.rseq = c]
       IN  /\ c > sess.rseq
           /\ sess' = IF s.st \/ s.awaiting_answer THEN s
                      ELSE [sipsess_reply_2xx(s, c, offer, desc, send)
                              EXCEPT !.desc = FALSE, !.modify_pending = FALSE,
                                     !.tmr = FALSE]

(* refuse: the application does not take the offer. *)
Reinvite ==
  /\ sess.inhash /\ sess.terminated = 0
  /\ \E c \in CSeq : \E refuse, offer, desc, send \in BOOLEAN :
       LET s == [Touch(sess) EXCEPT !.rseq = c]
       IN  /\ c > sess.rseq
           /\ sess' = IF \/ s.st \/ s.awaiting_answer    \* 500, Retry-After
                         \/ s.req # "none"               \* 491
                         \/ refuse                       \* 488
                      THEN s
                      ELSE [sipsess_reply_2xx(s, c, offer, desc, send)
                              EXCEPT !.desc = FALSE, !.modify_pending = FALSE,
                                     !.tmr = FALSE]

(* An INFO or REFER of the peer reaches the application (or is answered    *)
(* with 501) and moves the sequence number.                                *)
InDialog ==
  /\ sess.inhash /\ sess.terminated = 0
  /\ \E c \in CSeq : c > sess.rseq /\ sess' = [Touch(sess) EXCEPT !.rseq = c]

----------------------------------------------------------------------------
AppNext == Connect \/ Accept \/ Progress \/ Answer \/ Reject \/ Modify \/ Info
             \/ Release \/ CloseAll

RespNext == InviteFailed \/ InviteAccepted \/ InviteRefused \/ ReinviteFailed
              \/ ReinviteAccepted \/ ReinviteRefused \/ ByeDone
              \/ ByeChallenged \/ InfoOver

PeerNext == Cancel \/ Bye \/ Ack \/ Reinvite \/ InDialog

Next == AppNext \/ RespNext \/ ReplyTimeout \/ ModifyTimer \/ PeerNext

Spec == Init /\ [][Next]_sess

(* The transaction layer ends every request that was cancelled and every   *)
(* non-INVITE request (its 64*T1 timers), and the reply timers run.  A     *)
(* re-INVITE that got a provisional response waits for the peer as long as *)
(* it likes, so only a cancelled one is sure to end.                       *)
ReqEnds == ByeDone \/ (sess.terminated # 0 /\ (InviteFailed \/ ReinviteFailed))

Fairness == WF_sess(ReqEnds) /\ WF_sess(InfoOver) /\ WF_sess(ReplyTimeout)

FairSpec == Spec /\ Fairness

----------------------------------------------------------------------------
(* Properties *)

(* The session record has the shape of struct sipsess. *)
TypeOK == sess \in Session

(* No callback, timer, message or application call ever reaches a session  *)
(* whose memory mem_deref has given back, and no reference is dropped      *)
(* twice (mem.c:268, sess.c:119).                                          *)
NoUseAfterFree == ~sess.uaf /\ (sess.life = "freed" => ~sess.app)

(* While a session is alive somebody will still let go of it: the          *)
(* application, a request under way, or a reply or INFO it waits for.      *)
(* Nothing is left behind by the references termwait takes (sess.c:63).    *)
NoLeak == sess.life = "live" => sess.app \/ Waits(sess)

(* Who holds a reference: the application and, once the session is         *)
(* terminated, each kind of pending exchange.                              *)
Holders(s) == B(s.app) + (IF s.terminated = 0 THEN 0
                          ELSE B(s.req # "none") + B(s.replyl # {})
                                 + B(s.requestl # 0))

(* The application's handlers stay installed only as long as it holds its  *)
(* reference: no callback is made with an argument it may have freed.      *)
HandlersHeld == sess.life = "live" /\ ~sess.internal => sess.app

(* A session that ends in order leaves no exchange cut off, and a dialog   *)
(* that was established and not ended by the peer got its BYE (or the BYE  *)
(* could not be sent): sipsess_bye never finds another request pending.    *)
OrderlyEnd ==
  /\ sess.bye = "busy" => sess.closed
  /\ sess.life = "freed" /\ ~sess.closed =>
       /\ ~sess.orphan
       /\ sess.established /\ ~sess.peerterm => sess.bye \in {"sent", "failed"}

(* Offer/answer exchanges do not overlap: an INVITE of ours under way, the *)
(* retry timer and a 2xx of ours without ACK exclude each other, in every  *)
(* order of glare, retries and late ACKs.                                  *)
OneExchange ==
  sess.life = "live" /\ sess.terminated = 0 =>
    B(sess.req # "none") + B(sess.tmr) + B(sess.replyl # {}) + B(sess.st) <= 1

(* A modification that sipsess_modify put off is never forgotten: the      *)
(* event that will send it is still to come.                               *)
ModifyTriggered ==
  sess.modify_pending /\ sess.terminated = 0 =>
    sess.req # "none" \/ sess.tmr \/ sess.replyl # {}

(* The inductive invariant behind the safety properties.  A live session   *)
(* in service (terminated = 0) is held by the application and by nothing   *)
(* else; from termwait on every pending exchange holds it too; from the    *)
(* last stage on only the BYE is pending, unless sipsess_close_all         *)
(* released the object early.                                              *)
LiveCore(s) ==
  /\ s.life = "live"
  /\ s.closed => ~s.app /\ ~s.inhash /\ s.terminated # 0
  /\ s.terminated # 0 => s.internal /\ ~s.tmr /\ ~s.st
  /\ s.terminated = 0 => ~s.internal /\ s.closes = 0
  /\ s.terminated # 2 => s.req # "BYE" /\ s.bye = "none"
  /\ s.terminated = 2 /\ ~s.closed =>
       s.replyl = {} /\ s.requestl = 0 /\ s.req \in {"none", "BYE"}
  /\ s.terminated = 2 /\ s.established /\ ~s.peerterm /\ ~s.closed =>
       s.bye \in {"sent", "failed"}

(* In service: offer/answer exchanges one at a time. *)
InService(s) ==
  /\ s.app
  /\ B(s.req # "none") + B(s.tmr) + B(s.replyl # {}) + B(s.st) <= 1
  /\ s.modify_pending => s.req # "none" \/ s.tmr \/ s.replyl # {}
  /\ s.req = "INVITE" => ~s.established
  /\ s.estabs = 1 => s.established
  /\ s.st => s.rseq # 0

RefCount(s, extra) == s.nrefs > 0 /\ s.nrefs + B(s.closed) = Holders(s) + extra

LiveInv(s) ==
  LiveCore(s) /\ RefCount(s, 0) /\ (s.terminated = 0 => InService(s))

(* Nothing refers to a session that does not exist (any more). *)
GoneInv(s) ==
  /\ s.life # "live"
  /\ ~s.app /\ ~s.inhash /\ ~s.st /\ ~s.tmr
  /\ s.req = "none" /\ s.replyl = {} /\ s.requestl = 0
  /\ s.life = "none" => ~s.modify_pending
  /\ s.life = "freed" => s.terminated = 2
  /\ s.life = "freed" /\ ~s.closed =>
       /\ ~s.orphan
       /\ s.established /\ ~s.peerterm => s.bye \in {"sent", "failed"}

Sound(s) ==
  /\ s \in Session
  /\ ~s.uaf
  /\ s.estabs <= 1 /\ s.closes <= 1
  /\ s.bye = "busy" => s.closed

Inv(s) == Sound(s) /\ (LiveInv(s) \/ GoneInv(s))

(* The inductive invariant, as an invariant of the runs. *)
IInv == Inv(sess)

(* The application hears "established" at most once, "closed" at most      *)
(* once, and never "established" after "closed".                           *)
CallbackOrder ==
  [][ /\ sess'.estabs <= 1 /\ sess'.closes <= 1
      /\ sess'.estabs > sess.estabs => sess.closes = 0 /\ sess.app ]_sess

(* A session the application released is freed in the end, whatever the    *)
(* peer does.                                                              *)
Freed == (sess.life = "live" /\ ~sess.app) ~> sess.life = "freed"

=============================================================================
