----------------------------- MODULE SipDialog -----------------------------
(***************************************************************************)
(* SIP dialogs, sip/dialog.c, at both ends: A opens one (sip_dialog_alloc) *)
(* and its first request is forked to several user agents, each of which   *)
(* accepts; their messages complete A's dialog (sip_dialog_create) or make *)
(* copies of it (sip_dialog_fork).  Proxies on the way put themselves into *)
(* Record-Route, and every later message of the dialog must visit them.    *)
(* Messages are lost, repeated and overtake each other.                    *)
(*                                                                         *)
(* The next hop, dlg->route, is not a copy: it points into the headers     *)
(* (mb) when there is a route, into the target (uri) otherwise.            *)
(***************************************************************************)
EXTENDS Naturals, Sequences, FiniteSets, SequencesExt

CONSTANTS
  Uas,          \* the user agents that the first request is forked to
  Path,         \* [Uas -> the proxies between A and it that record themselves]
  MaxCseq,      \* numbers of requests of A
  MaxUasCseq    \* ... and of the others

(* The proxies: A's own, and those on the ways *)
Proxies == {"outbound"} \cup UNION {Range(Path[f]) : f \in Uas}

ASSUME DlgAssumption ==
  /\ {"A", "first", "notag"} \cap Uas = {}
  /\ Path \in [Uas -> Seq(Proxies)]
  /\ MaxCseq \in Nat /\ MaxUasCseq \in Nat

VARIABLES
  forkh,        \* A makes copies for every answer
  adlg,         \* A's dialogs: the first one, and the copy for each of Uas
  udlg,         \* [Uas -> its dialog]
  mail          \* the messages on the way

dlgVars == <<forkh, adlg, udlg, mail>>

First == "first"
NoTag == "notag"

NoDlg == [up |-> FALSE, ltag |-> NoTag, rtag |-> NoTag, routes |-> <<>>,
          hop |-> "freed", lseq |-> 0, rseq |-> 0, half |-> FALSE]

(* What the next hop points into, after it was decoded anew *)
HopOf(routes) == IF routes # <<>> THEN "mb" ELSE "uri"

DlgInit ==
  /\ forkh \in BOOLEAN
  /\ udlg = [f \in Uas |-> NoDlg]
  \* sip_dialog_alloc, with or without a proxy of A's own
  /\ \E r \in {<<>>, <<"outbound">>} :
       adlg = [d \in Uas \cup {First} |->
                 IF d # First THEN NoDlg
                 ELSE [NoDlg EXCEPT !.up = TRUE, !.ltag = "A", !.routes = r,
                         !.hop = HopOf(r), !.lseq = 1, !.half = TRUE]]
  /\ mail = {}

Msg(req, from, to, cseq, rr, peer) ==
  [req |-> req, from |-> from, to |-> to, cseq |-> cseq, rr |-> rr, dst |-> peer]

----------------------------------------------------------------------------
(* sip_msg_hdr_apply: the route set is the recorded route as it stands for *)
(* a request, and from its end for a response.                             *)
Routes(m) == IF m.req THEN m.rr ELSE Reverse(m.rr)

RemoteTag(m) == IF m.req THEN m.from ELSE m.to
LocalTag(m) == IF m.req THEN m.to ELSE m.from

(* sip_dialog_cmp and sip_dialog_cmp_half; a dialog without a remote tag   *)
(* is equal to no message.                                                 *)
sip_dialog_cmp(d, m) ==
  d.up /\ d.rtag # NoTag /\ d.ltag = LocalTag(m) /\ d.rtag = RemoteTag(m)

sip_dialog_cmp_half(d, m) == d.up /\ d.ltag = LocalTag(m) /\ d.rtag = NoTag

(* Tags, routes and next hop of the message a dialog is established with *)
DlgEstablished(d, m) ==
  [d EXCEPT !.up = TRUE, !.rtag = RemoteTag(m),
     !.routes = Routes(m), !.hop = HopOf(Routes(m)), !.half = FALSE]

(* sip_dialog_accept: the dialog of a request *)
sip_dialog_accept(ltag, m) ==
  [DlgEstablished([NoDlg EXCEPT !.ltag = ltag, !.lseq = 1], m) EXCEPT !.rseq = m.cseq]

(* sip_dialog_create completes a dialog that has no remote tag, with a     *)
(* response or with a request; of a request it takes the number.           *)
sip_dialog_create(d, m) ==
  [DlgEstablished(d, m) EXCEPT !.rseq = IF m.req THEN m.cseq ELSE 0]

(* sip_dialog_fork: the same in a copy *)
sip_dialog_fork(d, m) == sip_dialog_create(d, m)

(* Mutant: the next hop is not decoded anew. *)
sip_dialog_update_Keeps(d, m) ==
  [d EXCEPT !.hop = IF @ = "uri" THEN "freed" ELSE @]

(* sip_dialog_update: a new target, of which the next hop is decoded anew  *)
(* where it pointed into the old one; the routes stay.                     *)
sip_dialog_update(d, m) == [d EXCEPT !.hop = IF @ = "uri" THEN HopOf(<<>>) ELSE @]

(* sip_dialog_rseq_valid *)
sip_dialog_rseq_valid(d, m) == m.cseq >= d.rseq

(* sip_dialog_encode: every request but ACK takes the next number. *)
Encode(d) == [d EXCEPT !.lseq = @ + 1]

----------------------------------------------------------------------------
(* A's first request, and its repetitions after a challenge; proxies put   *)
(* themselves in front, so that the last one is first.                     *)
FirstRequest ==
  /\ adlg[First].half /\ adlg[First].lseq <= MaxCseq
  /\ adlg' = [adlg EXCEPT ![First] = Encode(@)]
  /\ mail' = mail \cup {Msg(TRUE, "A", NoTag, adlg[First].lseq, Reverse(Path[f]), f) :
                        f \in Uas}
  /\ UNCHANGED <<forkh, udlg>>

(* A user agent accepts it, and answers: the recorded route is sent back. *)
Accept(f) ==
  \E m \in mail :
    /\ m.dst = f /\ m.to = NoTag /\ ~udlg[f].up
    /\ udlg' = [udlg EXCEPT ![f] = sip_dialog_accept(f, m)]
    /\ mail' = mail \cup {Msg(FALSE, "A", f, m.cseq, m.rr, "A")}
    /\ UNCHANGED <<forkh, adlg>>

(* A request inside the dialog, which visits the routes of the sender and  *)
(* is recorded again on its way.                                           *)
DlgRequest(side, f) ==
  LET d == IF side = "A" THEN (IF forkh THEN adlg[f] ELSE adlg[First]) ELSE udlg[f]
      peer == IF side = "A" THEN d.rtag ELSE "A" IN
  /\ d.up /\ d.rtag # NoTag /\ d.lseq <= (IF side = "A" THEN MaxCseq ELSE MaxUasCseq)
  /\ IF side # "A" THEN udlg' = [udlg EXCEPT ![f] = Encode(@)] /\ UNCHANGED adlg
     ELSE adlg' = [adlg EXCEPT ![IF forkh THEN f ELSE First] = Encode(@)] /\ UNCHANGED udlg
  /\ mail' = mail \cup {Msg(TRUE, d.ltag, d.rtag, d.lseq, Reverse(d.routes), peer)}
  /\ UNCHANGED <<forkh>>

(* A gets a message: of a dialog it has; else of the first dialog as long  *)
(* as that is open to one.  Answers establish, requests are answered, and  *)
(* both may bring a new target (notify_handler, response_handler).         *)
AnswerTo(m) == IF m.req THEN {Msg(FALSE, m.from, m.to, m.cseq, m.rr, m.from)} ELSE {}

HandledBy(d, m) ==
  IF m.req
  THEN IF sip_dialog_rseq_valid(d, m)
       THEN sip_dialog_update([d EXCEPT !.rseq = m.cseq], m) ELSE d
  ELSE sip_dialog_update(d, m)

AReceives ==
  \E m \in mail :
    /\ m.dst = "A"
    /\ LET mine == {d \in DOMAIN adlg : sip_dialog_cmp(adlg[d], m)} IN
       \/ /\ mine # {}
          /\ adlg' = [d \in DOMAIN adlg |->
                        IF d \in mine THEN HandledBy(adlg[d], m) ELSE adlg[d]]
          /\ mail' = (mail \ {m}) \cup AnswerTo(m)
       \/ /\ mine = {} /\ sip_dialog_cmp_half(adlg[First], m)
          /\ adlg' = IF forkh
                     THEN [adlg EXCEPT ![RemoteTag(m)] = sip_dialog_fork(adlg[First], m)]
                     ELSE [adlg EXCEPT ![First] = sip_dialog_create(@, m)]
          /\ mail' = (mail \ {m}) \cup AnswerTo(m)
       \/ /\ mine = {} /\ ~sip_dialog_cmp_half(adlg[First], m)
          /\ mail' = mail \ {m}
          /\ UNCHANGED adlg
    /\ UNCHANGED <<forkh, udlg>>

(* A user agent gets a message of its dialog. *)
UasReceives(f) ==
  \E m \in mail :
    /\ m.dst = f /\ m.to # NoTag
    /\ udlg' = IF sip_dialog_cmp(udlg[f], m) THEN [udlg EXCEPT ![f] = HandledBy(@, m)]
               ELSE udlg
    /\ mail' = (mail \ {m}) \cup (IF sip_dialog_cmp(udlg[f], m) THEN AnswerTo(m) ELSE {})
    /\ UNCHANGED <<forkh, adlg>>

LoseMail == \E m \in mail : mail' = mail \ {m} /\ UNCHANGED <<forkh, adlg, udlg>>

DlgNext ==
  \/ FirstRequest \/ AReceives \/ LoseMail
  \/ \E f \in Uas : Accept(f) \/ UasReceives(f) \/ DlgRequest("A", f) \/ DlgRequest(f, f)

DlgSpec == DlgInit /\ [][DlgNext]_dlgVars

----------------------------------------------------------------------------
(* The dialogs of A that belong to f *)
Of(f) == {d \in DOMAIN adlg : adlg[d].up /\ adlg[d].rtag = f}

(* Next hops point into what the dialog still has; the two ends of a       *)
(* dialog visit the same proxies in opposite order, whichever message      *)
(* established it, and A has one dialog with each of them; the first one   *)
(* stays open for more as long as copies are made of it.                   *)
DialogSound ==
  /\ \A d \in DOMAIN adlg : adlg[d].up => adlg[d].hop = HopOf(adlg[d].routes)
  /\ \A f \in Uas :
       /\ udlg[f].up => udlg[f].hop = HopOf(udlg[f].routes) /\ udlg[f].routes = Reverse(Path[f])
       /\ Cardinality(Of(f)) <= 1
       /\ \A d \in Of(f) : udlg[f].up /\ adlg[d].routes = Path[f]
  /\ forkh => adlg[First].half
=============================================================================
