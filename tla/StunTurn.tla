------------------------------ MODULE StunTurn ------------------------------
(***************************************************************************)
(* The clients of a STUN server and of a TURN server, which is asked in    *)
(* STUN transactions.                                                      *)
(***************************************************************************)
EXTENDS Naturals, FiniteSets

(***************************************************************************)
(* STUN client transactions (stun/ctrans.c) and two of their users: the    *)
(* keepalive of a media stream's mapping (stun/keepalive.c) and the UDP    *)
(* flow to a SIP server (sip/keepalive_udp.c), whose sip_keepalives the    *)
(* registrations wait on.                                                  *)
(*                                                                         *)
(* A transaction has its owner's address twice: ctp, where it is reset,    *)
(* and arg, which its handler gets.  The network loses, duplicates and     *)
(* delays: an answer of a request that is under way may come at any time,  *)
(* and a later one finds no transaction with its random id.                *)
(***************************************************************************)
CONSTANTS
  Ct,          \* transaction objects
  Rc,          \* conf.rc: transmissions of a request
  Map,         \* addresses that a NAT may give
  FlowKa       \* sip_keepalives of the flow

ASSUME RcAssumption == Rc \in Nat \ {0} /\ "nil" \notin Ct

NoCt == "nil"
NoTrans == [st |-> "none", txc |-> 0, owner |-> "nil"]
NoMap == "nil"

VARIABLES
  ctrans,      \* struct stun_ctrans: its state, its count, its owner
  ska,         \* struct stun_keepalive
  known,       \* what the user of ska knows: a mapping, or an error
  uc,          \* struct sip_udpconn
  fka,         \* the flow's keepalives: "none", "on" or "signalled"
  orphan       \* a handler was called with an owner that was freed

stunVars == <<ctrans, ska, known, uc, fka, orphan>>

StunInit ==
  /\ ctrans = [t \in Ct |-> NoTrans]
  /\ ska = [st |-> "live", interval |-> 0, tmr |-> FALSE, ct |-> NoCt,
            curmap |-> NoMap]
  /\ known = NoMap
  /\ uc = [st |-> "none", tmr |-> FALSE, ct |-> NoCt, maddr |-> NoMap]
  /\ fka = [k \in FlowKa |-> "none"]
  /\ orphan = FALSE

Active(t) == ctrans[t].st = "live"
Kal == {k \in FlowKa : fka[k] = "on"}

----------------------------------------------------------------------------
(* stun_request and stun_ctrans_request over UDP: the first transmission.  *)
(* Destroyed is the owner's transaction that mem_deref released before.    *)
Request(t, owner, destroyed) ==
  /\ ctrans[t].st = "none"
  /\ ctrans' = [x \in Ct |->
       IF x = t THEN [st |-> "live", txc |-> 1, owner |-> owner]
       ELSE IF x = destroyed THEN NoTrans ELSE ctrans[x]]

(* mem_deref of a transaction *)
Deref(t) == ctrans' = [x \in Ct |-> IF x = t THEN NoTrans ELSE ctrans[x]]

(* completed: the owner's pointer is reset, the transaction destroyed, and *)
(* only then the handler called.                                           *)
Completed(t, obj) == [obj EXCEPT !.ct = NoCt]

(* timeout_handler: sent again with the interval doubled, or given up.     *)
Retransmit(t) ==
  /\ Active(t) /\ ctrans[t].txc < Rc
  /\ ctrans' = [ctrans EXCEPT ![t].txc = @ + 1]
  /\ UNCHANGED <<ska, known, uc, fka, orphan>>

----------------------------------------------------------------------------
(* keepalive.c timeout.  A transaction that is still under way is dropped. *)
SkaTimeout ==
  /\ ska.st = "live" /\ ska.tmr
  /\ \/ \E t \in Ct :
          /\ Request(t, "ska", ska.ct)
          /\ ska' = [ska EXCEPT !.tmr = FALSE, !.ct = t]
          /\ UNCHANGED known
     \/ /\ Deref(ska.ct)
        /\ ska' = [ska EXCEPT !.tmr = ska.interval > 0, !.ct = NoCt]
        /\ known' = "error"
  /\ UNCHANGED <<uc, fka, orphan>>

(* Mutant: after a failed probe there is no other. *)
SkaRestart_Ok(failed) == ska.interval > 0 /\ ~failed

(* keepalive.c stun_response_handler, its first statement *)
SkaRestart(failed) == ska.interval > 0

(* The rest of it: with an error or an error response the current mapping  *)
(* is forgotten, so that the same one is news again; the user is told of   *)
(* errors, and of a mapping that is not the current one.                   *)
SkaAnswer(t, err, scode, map) ==
  /\ Active(t) /\ ctrans[t].owner = "ska"
  /\ Deref(t)
  /\ orphan' = (orphan \/ ska.st # "live")
  /\ ska' = [Completed(t, ska) EXCEPT
       !.tmr = IF SkaRestart(err \/ scode) THEN TRUE ELSE @,
       !.curmap = IF err \/ scode THEN NoMap ELSE IF map = NoMap THEN @ ELSE map]
  /\ known' = CASE err -> "error"
                [] ~err /\ scode -> known
                [] ~err /\ ~scode /\ map = NoMap -> "error"
                [] ~err /\ ~scode /\ map \notin {NoMap, ska.curmap} -> map
                [] OTHER -> known
  /\ UNCHANGED <<uc, fka>>

(* stun_keepalive_enable *)
SkaEnable(interval) ==
  /\ ska.st = "live" /\ ska.interval # interval
  /\ ska' = [ska EXCEPT !.interval = interval, !.tmr = interval > 0]
  /\ UNCHANGED <<ctrans, known, uc, fka, orphan>>

(* keepalive_destructor *)
SkaFree ==
  /\ ska.st = "live"
  /\ ska' = [ska EXCEPT !.st = "freed", !.tmr = FALSE, !.ct = NoCt]
  /\ Deref(ska.ct)
  /\ UNCHANGED <<known, uc, fka, orphan>>

----------------------------------------------------------------------------
(* sip_keepalive_udp: the flow is found, or made with a probe at once. *)
KeepaliveUdp(k) ==
  /\ fka[k] = "none"
  /\ fka' = [fka EXCEPT ![k] = "on"]
  /\ uc' = IF uc.st = "live" THEN uc
           ELSE [st |-> "live", tmr |-> TRUE, ct |-> NoCt, maddr |-> NoMap]
  /\ UNCHANGED <<ctrans, ska, known, orphan>>

(* The user of a keepalive stops it, or takes note of the signal. *)
KeepaliveStop(k) ==
  /\ fka[k] # "none"
  /\ fka' = [fka EXCEPT ![k] = "none"]
  /\ UNCHANGED <<ctrans, ska, known, uc, orphan>>

(* Mutant: the transaction of a closed flow goes on. *)
udpconn_close_Leaves ==
  /\ uc' = [uc EXCEPT !.st = "freed", !.tmr = FALSE]
  /\ fka' = [k \in FlowKa |-> IF fka[k] = "on" THEN "signalled" ELSE fka[k]]

(* udpconn_close and mem_deref: every keepalive is signalled. *)
udpconn_close ==
  /\ uc' = [uc EXCEPT !.st = "freed", !.tmr = FALSE, !.ct = NoCt]
  /\ fka' = [k \in FlowKa |-> IF fka[k] = "on" THEN "signalled" ELSE fka[k]]

(* udpconn_keepalive_handler *)
FlowTimeout ==
  /\ uc.st = "live" /\ uc.tmr
  /\ \/ /\ Kal = {} /\ udpconn_close /\ Deref(uc.ct)
     \/ /\ Kal # {}
        /\ \/ \E t \in Ct : Request(t, "uc", NoCt)
                /\ uc' = [uc EXCEPT !.tmr = FALSE, !.ct = t] /\ UNCHANGED fka
           \/ udpconn_close /\ Deref(uc.ct)
  /\ UNCHANGED <<ska, known, orphan>>

(* Mutant: a new mapping is taken over in silence. *)
FlowMoved_Never(map) == FALSE

(* The mapped address is not the one that was learnt first. *)
FlowMoved(map) == uc.maddr # NoMap /\ uc.maddr # map

(* keepalive_udp.c stun_response_handler *)
FlowAnswer(t, err, scode, map) ==
  /\ Active(t) /\ ctrans[t].owner = "uc"
  /\ Deref(t)
  /\ orphan' = (orphan \/ uc.st # "live")
  /\ IF err \/ scode \/ map = NoMap \/ FlowMoved(map)
     THEN udpconn_close
     ELSE /\ uc' = [Completed(t, uc) EXCEPT !.tmr = TRUE, !.maddr = map]
          /\ UNCHANGED fka
  /\ UNCHANGED <<ska, known>>

----------------------------------------------------------------------------
Answer(t, err, scode, map) ==
  SkaAnswer(t, err, scode, map) \/ FlowAnswer(t, err, scode, map)

(* stun_recv and stun_ctrans_recv: an answer of a transaction that is gone *)
(* is ENOENT; unknown attributes, or an error response without its code,   *)
(* are an error.                                                           *)
stun_ctrans_recv(t) ==
  \/ Answer(t, TRUE, FALSE, NoMap)
  \/ Answer(t, FALSE, TRUE, NoMap)
  \/ \E map \in Map \cup {NoMap} : Answer(t, FALSE, FALSE, map)

(* timeout_handler after the last transmission; when sending again fails,  *)
(* it is as an erroneous answer.                                           *)
TimedOut(t) == ctrans[t].txc >= Rc /\ Answer(t, TRUE, FALSE, NoMap)

StunNext ==
  \/ \E t \in Ct : Retransmit(t) \/ stun_ctrans_recv(t) \/ TimedOut(t)
  \/ SkaTimeout \/ SkaFree \/ \E i \in 0 .. 1 : SkaEnable(i)
  \/ FlowTimeout
  \/ \E k \in FlowKa : KeepaliveUdp(k) \/ KeepaliveStop(k)

StunSpec == StunInit /\ [][StunNext]_stunVars

(* The event loop runs timers that have expired. *)
StunFairness ==
  /\ \A t \in Ct : WF_stunVars(Retransmit(t)) /\ WF_stunVars(TimedOut(t))
  /\ WF_stunVars(FlowTimeout)

----------------------------------------------------------------------------
StunTypeOK ==
  /\ ctrans \in [Ct -> [st : {"none", "live"}, txc : 0 .. Rc,
                    owner : {"nil", "ska", "uc"}]]
  /\ ska \in [st : {"live", "freed"}, interval : 0 .. 1, tmr : BOOLEAN,
              ct : Ct \cup {NoCt}, curmap : Map \cup {NoMap}]
  /\ known \in Map \cup {NoMap, "error"}
  /\ uc \in [st : {"none", "live", "freed"}, tmr : BOOLEAN,
             ct : Ct \cup {NoCt}, maddr : Map \cup {NoMap}]
  /\ fka \in [FlowKa -> {"none", "on", "signalled"}] /\ orphan \in BOOLEAN

(* The transactions that are under way are exactly those their owners      *)
(* point to: none is left that would write to, or call, an owner that was  *)
(* freed, and no owner points to one that was.                             *)
StunSafe ==
  /\ StunTypeOK /\ ~orphan
  /\ \A t \in Ct :
       /\ Active(t) <=> t \in {ska.ct, uc.ct}
       /\ Active(t) => \/ ctrans[t].owner = "ska" /\ ska.ct = t /\ ska.st = "live"
                       \/ ctrans[t].owner = "uc" /\ uc.ct = t /\ uc.st = "live"

(* A mapping is watched as long as somebody relies on it: a flow with      *)
(* keepalives, or a keepalive with an interval, has its timer or a probe   *)
(* running; the mapping that the user knows is the current one, unless a   *)
(* probe failed since.                                                     *)
MappingWatched ==
  /\ Kal # {} => uc.st = "live" /\ (uc.tmr \/ uc.ct # NoCt)
  /\ ska.st = "live" /\ ska.interval > 0 => ska.tmr \/ ska.ct # NoCt
  /\ ska.curmap # NoMap => known \in {ska.curmap, "error"}

(* A flow does not outlive its keepalives for ever, and its mapping never  *)
(* changes under them: a keepalive whose flow moved is signalled.          *)
FlowEnds ==
  /\ []<>(uc.st # "live" \/ Kal # {})
  /\ [][uc.st = "live" /\ uc.maddr # NoMap /\ uc'.st = "live"
        => uc'.maddr = uc.maddr]_stunVars

----------------------------------------------------------------------------
(***************************************************************************)
(* The TURN client (turn/turnc.c, perm.c, chan.c): an allocation on a      *)
(* relay, refreshed by a timer, and the permissions and channels on it,    *)
(* each with a timer, a transaction and a loop check of its own.  They     *)
(* share the realm, the nonce and the server's address.                    *)
(*                                                                         *)
(* The answers are the server's (external): any code, in any order, or     *)
(* none.  An object is the allocation, a permission or a channel.          *)
(***************************************************************************)
CONSTANTS
  TurnPeer,    \* addresses of peers, for channels
  PermPeer,    \* addresses of peers, for permissions
  FailcMax,    \* FAILC_MAX
  ChanMax      \* CHAN_NUMB_MAX; CHAN_NUMB_MIN is 0

ASSUME TurnAssumption ==
  FailcMax \in Nat \ {0} /\ ChanMax \in Nat /\ "two" \notin TurnPeer

Allocation == <<"alloc">>
Perm == {"perm"} \X PermPeer
Chan == {"chan"} \X TurnPeer
Obj == {Allocation} \cup Perm \cup Chan

VARIABLES
  turnc,       \* struct turnc: its state, and whether it is allocated
  obj,         \* what the allocation, a struct perm and a struct chan share
  chanNr,      \* chans->nr
  number,      \* chan->nr
  bound,       \* history: the peer a channel number was first used for
  thErr        \* objects whose failure the user was told of (th)

turnVars == <<turnc, obj, chanNr, number, bound, thErr>>

NoObj == [st |-> "none", ct |-> "nil", tmr |-> FALSE, last |-> 0, failc |-> 0]

TurnInit ==
  /\ turnc = [st |-> "none", allocated |-> FALSE]
  /\ obj = [o \in Obj |-> NoObj]
  /\ chanNr = 0 /\ number = [c \in Chan |-> 0]
  /\ bound = [n \in 0 .. ChanMax |-> "nil"] /\ thErr = {}

Up == turnc.st = "live"
Held(o) == obj[o].st = "live"
InFlight(o) == obj[o].ct # "nil"

(* stun_request of an object.  The allocation's two requests are told      *)
(* apart: only a refresh drops a transaction that is still under way.      *)
Requested(o, method, reset) ==
  [obj[o] EXCEPT !.st = "live", !.ct = method, !.tmr = FALSE,
                 !.last = IF reset THEN 0 ELSE @,
                 !.failc = IF reset THEN 0 ELSE @]

----------------------------------------------------------------------------
(* turnc_alloc and allocate_request; with an error nothing is left *)
TurnAlloc ==
  /\ turnc.st = "none"
  /\ turnc' = [turnc EXCEPT !.st = "live"]
  /\ obj' = [obj EXCEPT ![Allocation] = Requested(Allocation, "allocate", FALSE)]
  /\ UNCHANGED <<chanNr, number, bound, thErr>>

(* turnc_add_perm and createperm_request *)
turnc_add_perm(p) ==
  /\ Up /\ turnc.allocated /\ p \in Perm /\ ~Held(p)
  /\ obj' = [obj EXCEPT ![p] = Requested(p, "createperm", TRUE)]
  /\ UNCHANGED <<turnc, chanNr, number, bound, thErr>>

(* Mutant: the number of a channel that could not be asked for is used     *)
(* again.                                                                  *)
NextNumber_Reused(failed) == IF failed THEN chanNr ELSE chanNr + 1

(* chan->nr = chans->nr++ *)
NextNumber(failed) == chanNr + 1

(* turnc_add_chan and chanbind_request, which may fail on sending; the     *)
(* request may be on the wire all the same.                                *)
turnc_add_chan(c) ==
  /\ Up /\ turnc.allocated /\ c \in Chan /\ ~Held(c)
  /\ chanNr < ChanMax
  /\ bound' = [bound EXCEPT ![chanNr] = IF @ \in {"nil", c[2]} THEN c[2] ELSE "two"]
  /\ \/ /\ obj' = [obj EXCEPT ![c] = Requested(c, "chanbind", TRUE)]
        /\ number' = [number EXCEPT ![c] = chanNr]
        /\ chanNr' = NextNumber(FALSE)
     \/ UNCHANGED <<obj, number>> /\ chanNr' = NextNumber(TRUE)
  /\ UNCHANGED <<turnc, thErr>>

----------------------------------------------------------------------------
(* Mutant: failures are not counted. *)
Loops_Uncounted(o, scode) == scode # 0 /\ scode # 300 /\ obj[o].last = scode

(* turnc_request_loops, its result: the same failure again, or too many    *)
Loops(o, scode) ==
  /\ scode # 0
  /\ (scode # 300 /\ obj[o].last = scode) \/ obj[o].failc + 1 >= FailcMax

(* turnc_request_loops, what it writes.  The count stays at its limit. *)
Counted(o, scode) ==
  [obj[o] EXCEPT !.last = scode, !.ct = "nil",
     !.failc = IF scode = 0 THEN 0 ELSE IF @ < FailcMax THEN @ + 1 ELSE @]

(* Asked again: an alternate server, or the realm and nonce of the answer, *)
(* which all objects then use (turnc_keygen)                               *)
Again(o, scode) ==
  /\ UNCHANGED thErr
  /\ obj' = [obj EXCEPT ![o] = [Counted(o, scode) EXCEPT !.ct = obj[o].ct]]

(* Mutant: a refreshed object forgets its timer. *)
Succeeds_NoTimer(o) == obj' = [obj EXCEPT ![o] = Counted(o, 0)]

(* case 0 of the handlers: refresh_timer, or tmr_start of 250 seconds *)
Succeeds(o) == obj' = [obj EXCEPT ![o] = [Counted(o, 0) EXCEPT !.tmr = TRUE]]

(* The out: label.  What th leads the user to is TurnFree. *)
Fails(o, scode) ==
  /\ obj' = [obj EXCEPT ![o] = Counted(o, scode)]
  /\ thErr' = thErr \cup {o}

(* allocate_resp_handler, refresh_resp_handler, createperm_resp_handler    *)
(* and chanbind_resp_handler                                               *)
Response(o, scode) ==
  /\ Up /\ InFlight(o)
  /\ IF Loops(o, scode) THEN Fails(o, scode) /\ UNCHANGED turnc
     ELSE CASE scode = 0 ->
               \/ /\ Succeeds(o) /\ thErr' = thErr \ {o}
                  /\ turnc' = [turnc EXCEPT !.allocated = TRUE]
               \/ /\ obj[o].ct = "allocate" /\ Fails(o, 0) /\ UNCHANGED turnc
            [] scode = 300 ->
               /\ \/ obj[o].ct = "allocate" /\ Again(o, scode)
                  \/ Fails(o, scode)
               /\ UNCHANGED turnc
            [] scode \in {401, 438} ->
               (Again(o, scode) \/ Fails(o, scode)) /\ UNCHANGED turnc
            [] OTHER -> Fails(o, scode) /\ UNCHANGED turnc
  /\ UNCHANGED <<chanNr, number, bound>>

(* The transaction failed: err in the handlers *)
NoResponse(o) ==
  /\ Up /\ InFlight(o)
  /\ obj' = [obj EXCEPT ![o].ct = "nil"] /\ thErr' = thErr \cup {o}
  /\ UNCHANGED <<turnc, chanNr, number, bound>>

(* The three timeout handlers: asked again with a new loop state, or the   *)
(* user is told.                                                           *)
TurnTimeout(o) ==
  /\ Up /\ obj[o].tmr
  /\ \/ /\ obj' = [obj EXCEPT ![o] = Requested(o,
             IF o = Allocation THEN "refresh" ELSE IF o \in Perm THEN "createperm"
             ELSE "chanbind", TRUE)]
        /\ UNCHANGED thErr
     \/ obj' = [obj EXCEPT ![o].tmr = FALSE] /\ thErr' = thErr \cup {o}
  /\ UNCHANGED <<turnc, chanNr, number, bound>>

(* turnc.c destructor: a last refresh of lifetime 0, whose transaction     *)
(* goes with all others; permissions and channels are flushed.             *)
TurnFree ==
  /\ Up
  /\ turnc' = [st |-> "freed", allocated |-> FALSE]
  /\ obj' = [o \in Obj |-> NoObj] /\ thErr' = {}
  /\ UNCHANGED <<chanNr, number, bound>>

TurnNext ==
  \/ TurnAlloc \/ TurnFree
  \/ \E p \in Perm : turnc_add_perm(p)
  \/ \E c \in Chan : turnc_add_chan(c)
  \/ \E o \in Obj : \/ NoResponse(o) \/ TurnTimeout(o)
                    \/ \E scode \in {0, 300, 401, 438, 500} : Response(o, scode)

TurnSpec == TurnInit /\ [][TurnNext]_turnVars

(* A request that is under way is answered, or its transaction times out. *)
TurnFairness ==
  \A o \in Obj : WF_turnVars(NoResponse(o)
                   \/ \E scode \in {0, 300, 401, 438, 500} : Response(o, scode))

----------------------------------------------------------------------------
(* udp_send_handler and turnc_send: what is sent to a peer goes in the     *)
(* peer's channel, if there is one, bound or not.                          *)
Wrap(p) == IF Held(<<"chan", p>>) THEN <<"chan", number[<<"chan", p>>]>>
           ELSE <<"ind", p>>

(* udp_recv_handler and turnc_recv *)
Unwrap(m) ==
  IF m[1] = "ind" THEN {m[2]}
  ELSE {p \in TurnPeer : Held(<<"chan", p>>) /\ number[<<"chan", p>>] = m[2]}

TurnTypeOK ==
  /\ turnc \in [st : {"none", "live", "freed"}, allocated : BOOLEAN]
  /\ obj \in [Obj -> [st : {"none", "live"}, tmr : BOOLEAN,
       ct : {"nil", "allocate", "refresh", "createperm", "chanbind"},
       last : {0, 300, 401, 438, 500}, failc : 0 .. FailcMax]]
  /\ chanNr \in 0 .. ChanMax /\ number \in [Chan -> 0 .. ChanMax]
  /\ bound \in [0 .. ChanMax -> TurnPeer \cup {"nil", "two"}]
  /\ thErr \subseteq Obj

(* Nothing expires in silence: the allocation, a permission or a channel   *)
(* of a client has its refresh timer or a request running, never both, or  *)
(* the user was told that it failed.                                       *)
KeptAlive ==
  /\ TurnTypeOK
  /\ \A o \in Obj : Held(o) =>
       /\ Up
       /\ obj[o].tmr \/ InFlight(o) \/ o \in thErr
       /\ ~(obj[o].tmr /\ InFlight(o))

(* A channel number is asked for one peer only in the life of an           *)
(* allocation, and data comes from the peer it is said to come from.       *)
ChannelFaithful ==
  /\ \A n \in 0 .. ChanMax : bound[n] # "two"
  /\ \A p \in TurnPeer : Unwrap(Wrap(p)) = {p}

(* No answers of a server keep a request going for ever: its user is told, *)
(* or it succeeds.                                                         *)
RequestEnds == \A o \in Obj : []<>(~InFlight(o))

(* A STUN transaction is ended once and used no more, the mapping that a   *)
(* keepalive told its user of is watched, what the TURN server was asked   *)
(* to keep is refreshed in time, and a channel number means one peer.      *)
ServersSound == StunSafe /\ MappingWatched /\ KeptAlive /\ ChannelFaithful
=============================================================================
