------------------------------ MODULE SipTrans ------------------------------
(***************************************************************************)
(* A SIP request between two stacks: the client transaction (ctrans.c)     *)
(* with the part of request.c that cancels it, the server transaction      *)
(* (strans.c) and the network between them.                                *)
(*                                                                         *)
(* Over UDP messages are lost, duplicated and reordered: the network is    *)
(* the set of messages under way, delivery keeps a message there, Lose     *)
(* takes it away.  Retransmission puts it back, so the counters txc, which *)
(* only space the retransmissions, are left out.  Over a connection every  *)
(* message arrives once (here in any order), unless it never left the      *)
(* queue of a connection that could not be made.                           *)
(*                                                                         *)
(* A copy of the request may also arrive on another path, with another     *)
(* branch (a forking proxy): its responses go back on that path and do not *)
(* concern this client.                                                    *)
(***************************************************************************)
EXTENDS Naturals

CONSTANTS
  Method,      \* methods of the request, "INVITE" is special
  Final        \* final answers the server's user chooses from

ASSUME SipTransAssumption ==
  /\ "CANCEL" \notin Method
  /\ Final \cap {"none", "1xx", "487", "482", "481", "200", "err"} = {}

VARIABLES
  met, reliable,   \* the method and the kind of transport, never change
  forked,          \* a copy was made on the way
  net,             \* messages under way
  ct,              \* client transactions of the request and of its CANCEL
  st,              \* server transactions, of the request and of the copy
  user,            \* the client's user
  tu               \* the server's user, per branch

vars == <<met, reliable, forked, net, ct, st, user, tu>>

Branch == {"req", "fork"}
Trans == {"req", "CANCEL"}
Code == Final \cup {"1xx", "487", "482", "481", "200"}

Request(b, m) == [req |-> TRUE, branch |-> b, met |-> m, scode |-> "none"]
Response(m, c) == [req |-> FALSE, branch |-> "req", met |-> m, scode |-> c]

Message ==
  {Request(b, m) : b \in Branch, m \in Method}
  \cup {Request("req", m) : m \in {"CANCEL", "ACK"}}
  \cup {Response(m, c) : m \in Method, c \in Code \ {"200", "481"}}
  \cup {Response("CANCEL", c) : c \in {"200", "481"}}

CTrans == [state : {"none", "TRYING", "CALLING", "PROCEEDING", "COMPLETED"},
           tmr : BOOLEAN, tmre : BOOLEAN,
           qent : BOOLEAN]      \* waits in the queue of a connection

STrans == [state : {"none", "TRYING", "PROCEEDING", "ACCEPTED", "COMPLETED",
                    "CONFIRMED"},
           tmr : BOOLEAN, tmrg : BOOLEAN,
           mb : Code \cup {"none"}]       \* the last response

(* The object is released, with its timers and its queued message. *)
NoCTrans == [state |-> "none", tmr |-> FALSE, tmre |-> FALSE, qent |-> FALSE]
NoSTrans == [state |-> "none", tmr |-> FALSE, tmrg |-> FALSE, mb |-> "none"]

invite == met = "INVITE"

Init ==
  /\ met \in Method /\ reliable \in BOOLEAN /\ forked = FALSE
  /\ net = {}
  /\ ct = [k \in Trans |-> NoCTrans]
  /\ st = [b \in Branch |-> NoSTrans]
  /\ user = [asked |-> FALSE, canceled |-> FALSE, provrecv |-> FALSE,
             calls |-> 0, result |-> "none"]
  /\ tu = [b \in Branch |-> [seen |-> 0, answer |-> "none", canceled |-> FALSE]]

----------------------------------------------------------------------------
(* Client transactions (ctrans.c) *)

(* sip_ctrans_request: the message is sent or waits for its connection. *)
sip_ctrans_request(inv, queued) ==
  [state |-> IF inv THEN "CALLING" ELSE "TRYING", tmr |-> TRUE,
   tmre |-> ~reliable, qent |-> queued]

CMethod(k) == IF k = "req" THEN met ELSE "CANCEL"

(* The response handler is called with a final result. *)
Told(u, r) == [u EXCEPT !.calls = @ + 1, !.result = r]

(* terminate: a transaction that is complete has told its result before; *)
(* nobody listens to the result of a CANCEL.                              *)
terminate(u, k, r) ==
  IF k = "req" /\ ct[k].state # "COMPLETED" THEN Told(u, r) ELSE u

(* The user sends the request.  An error leaves no transaction. *)
Ask ==
  /\ ~user.asked
  /\ \/ \E queued \in {FALSE, reliable} :
          /\ ct' = [ct EXCEPT !["req"] = sip_ctrans_request(invite, queued)]
          /\ net' = IF queued THEN net ELSE net \cup {Request("req", met)}
          /\ user' = [user EXCEPT !.asked = TRUE]
     \/ /\ user' = [user EXCEPT !.asked = TRUE, !.result = "err"]
        /\ UNCHANGED <<ct, net>>
  /\ UNCHANGED <<met, reliable, forked, st, tu>>

(* Mutant: an INVITE that is cancelled and never answered waits forever. *)
CancelTrans_NoTimer(c, queued, ok) ==
  IF ok THEN [c EXCEPT !["CANCEL"] = sip_ctrans_request(FALSE, queued)] ELSE c

(* sip_ctrans_cancel, in the state c of the client transactions: the       *)
(* INVITE gets a timer, and a CANCEL with the same branch is sent.         *)
CancelTrans(c, queued, ok) ==
  [c EXCEPT !["req"].tmr = TRUE,
            !["CANCEL"] = IF ok THEN sip_ctrans_request(FALSE, queued) ELSE @]

(* The callers' part: c is the client's transactions, n the network.  Only *)
(* an INVITE that got a provisional response is cancelled.                 *)
sip_ctrans_cancel(c, n) ==
  IF invite /\ c["req"].state = "PROCEEDING"
  THEN \E queued \in {FALSE, reliable}, ok \in BOOLEAN :
         /\ ct' = CancelTrans(c, queued, ok)
         /\ net' = n \cup (IF ok /\ ~queued THEN {Request("req", "CANCEL")} ELSE {})
  ELSE ct' = c /\ net' = n

(* sip_request_cancel: before a provisional response it is only noted. *)
Cancel ==
  /\ user.asked /\ user.result = "none" /\ ~user.canceled
  /\ user' = [user EXCEPT !.canceled = TRUE]
  /\ IF user.provrecv THEN sip_ctrans_cancel(ct, net) ELSE UNCHANGED <<ct, net>>
  /\ UNCHANGED <<met, reliable, forked, st, tu>>

(* The connection is up, or it is given up (transport_handler). *)
Flush(k) ==
  /\ ct[k].qent
  /\ ct' = [ct EXCEPT ![k].qent = FALSE]
  /\ net' = net \cup {Request("req", CMethod(k))}
  /\ UNCHANGED <<met, reliable, forked, st, user, tu>>

ConnFailed(k) ==
  /\ ct[k].qent
  /\ user' = terminate(user, k, "err")
  /\ ct' = [ct EXCEPT ![k] = NoCTrans]
  /\ UNCHANGED <<met, reliable, forked, net, st, tu>>

(* tmr_handler *)
ClientTimeout(k) ==
  /\ ct[k].tmr
  /\ user' = terminate(user, k, "err")
  /\ ct' = [ct EXCEPT ![k] = NoCTrans]
  /\ UNCHANGED <<met, reliable, forked, net, st, tu>>

(* retransmit_handler; the socket may refuse the message.  A transaction   *)
(* that is complete does not retransmit: its timer is stopped.             *)
ClientRetransmit(k) ==
  /\ ct[k].tmre
  /\ \/ /\ net' = net \cup {Request("req", CMethod(k))}
        /\ UNCHANGED <<ct, user>>
     \/ /\ user' = terminate(user, k, "err")
        /\ ct' = [ct EXCEPT ![k] = NoCTrans]
        /\ UNCHANGED net
  /\ UNCHANGED <<met, reliable, forked, st, tu>>

(* A datagram may arrive again. *)
Rest(m) == IF reliable THEN net \ {m} ELSE net

(* The timers of an INVITE stop when it proceeds. *)
Proceeding(t) ==
  [t EXCEPT !.state = "PROCEEDING",
            !.tmr = @ /\ ~(invite /\ t.state = "CALLING"),
            !.tmre = @ /\ ~invite]

(* Mutant: every provisional response cancels. *)
Provisional_Cancels ==
  LET m == Response(met, "1xx")
      c == [ct EXCEPT !["req"] = Proceeding(@)]
  IN /\ m \in net
     /\ ct["req"].state \in {"CALLING", "TRYING", "PROCEEDING"}
     /\ user' = [user EXCEPT !.provrecv = TRUE]
     /\ sip_ctrans_cancel(c, Rest(m))
     /\ UNCHANGED <<met, reliable, forked, st, tu>>

(* A provisional response; the first one carries out a cancellation that   *)
(* was waiting for it.                                                     *)
Provisional ==
  LET m == Response(met, "1xx")
      c == [ct EXCEPT !["req"] = Proceeding(@)]
  IN /\ m \in net
     /\ ct["req"].state \in {"CALLING", "TRYING", "PROCEEDING"}
     /\ user' = [user EXCEPT !.provrecv = TRUE]
     /\ IF ~user.provrecv /\ user.canceled THEN sip_ctrans_cancel(c, Rest(m))
                                           ELSE ct' = c /\ net' = Rest(m)
     /\ UNCHANGED <<met, reliable, forked, st, tu>>

(* What is left of a transaction after its final response: over UDP it     *)
(* stays for a while, to take the retransmissions of that response.        *)
Completed(c) ==
  IF reliable \/ (c = "2xx" /\ invite) THEN NoCTrans
  ELSE [NoCTrans EXCEPT !.state = "COMPLETED", !.tmr = TRUE]

(* The final response; the INVITE transaction acknowledges a refusal. *)
FinalResponse(c) ==
  LET m == Response(met, c)
  IN /\ m \in net /\ c # "1xx"
     /\ ct["req"].state \in {"CALLING", "TRYING", "PROCEEDING"}
     /\ user' = Told(user, c)
     /\ ct' = [ct EXCEPT !["req"] = Completed(c)]
     /\ net' = Rest(m) \cup (IF invite /\ c # "2xx" THEN {Request("req", "ACK")}
                                                     ELSE {})
     /\ UNCHANGED <<met, reliable, forked, st, tu>>

(* A response to a transaction that is complete, or gone, is swallowed;    *)
(* the refusal of an INVITE is acknowledged again.                         *)
LateResponse(c) ==
  LET m == Response(met, c)
  IN /\ m \in net /\ ct["req"].state \in {"COMPLETED", "none"}
     /\ net' = Rest(m) \cup
          (IF invite /\ ct["req"].state = "COMPLETED" /\ c \notin {"1xx", "2xx"}
           THEN {Request("req", "ACK")} ELSE {})
     /\ UNCHANGED <<met, reliable, forked, ct, st, user, tu>>

(* The response to the CANCEL; its transaction has no response handler. *)
CancelResponse(c) ==
  LET m == Response("CANCEL", c)
  IN /\ m \in net
     /\ ct' = IF ct["CANCEL"].state = "TRYING"
              THEN [ct EXCEPT !["CANCEL"] = Completed(c)] ELSE ct
     /\ net' = Rest(m)
     /\ UNCHANGED <<met, reliable, forked, st, user, tu>>

----------------------------------------------------------------------------
(* Server transactions (strans.c) *)

(* The lookup in ht_strans, by branch and method. *)
Known(b) == st[b].state # "none"

(* Mutant: copies are recognised by their branch only. *)
Merged_Never(b) == FALSE

(* The lookup in ht_strans_mrg: Call-ID, From tag and CSeq are those of    *)
(* another transaction (the request has no To tag yet).                    *)
Merged(b) == \E o \in Branch \ {b} : st[o].state # "none"

ToClient(b, c) == IF b = "req" THEN {Response(met, c)} ELSE {}

(* A copy of a request that has a transaction: the last response is sent   *)
(* again, except while there is none or when it is the user's to repeat.   *)
RequestAgain(b) ==
  /\ Request(b, met) \in net /\ Known(b)
  /\ net' = Rest(Request(b, met)) \cup
       (IF st[b].state \in {"PROCEEDING", "COMPLETED"} THEN ToClient(b, st[b].mb)
                                                       ELSE {})
  /\ UNCHANGED <<met, reliable, forked, ct, st, user, tu>>

LoopDetected(b) ==
  /\ Request(b, met) \in net /\ ~Known(b) /\ Merged(b)
  /\ net' = Rest(Request(b, met)) \cup ToClient(b, "482")
  /\ UNCHANGED <<met, reliable, forked, ct, st, user, tu>>

(* A new request is passed to the user, who allocates the transaction. *)
NewRequest(b) ==
  /\ Request(b, met) \in net /\ ~Known(b) /\ ~Merged(b)
  /\ net' = Rest(Request(b, met))
  /\ st' = [st EXCEPT ![b] = [NoSTrans EXCEPT !.state = "TRYING"]]
  /\ tu' = [tu EXCEPT ![b].seen = @ + 1]
  /\ UNCHANGED <<met, reliable, forked, ct, user>>

(* Mutant: an INVITE that is refused is never given up. *)
sip_strans_reply_NoTimer(s, c) ==
  LET a == [s EXCEPT !.mb = c]
  IN CASE c = "1xx" -> [a EXCEPT !.state = "PROCEEDING"]
       [] invite /\ c = "2xx" -> [a EXCEPT !.state = "ACCEPTED", !.tmr = TRUE]
       [] invite /\ c \notin {"1xx", "2xx"} ->
            [a EXCEPT !.state = "COMPLETED", !.tmr = reliable, !.tmrg = ~reliable]
       [] ~invite /\ c # "1xx" ->
            IF reliable THEN NoSTrans
            ELSE [a EXCEPT !.state = "COMPLETED", !.tmr = TRUE]

(* sip_strans_reply, once the response is sent *)
sip_strans_reply(s, c) ==
  LET a == [s EXCEPT !.mb = c]
  IN CASE c = "1xx" -> [a EXCEPT !.state = "PROCEEDING"]
       [] invite /\ c = "2xx" -> [a EXCEPT !.state = "ACCEPTED", !.tmr = TRUE]
       [] invite /\ c \notin {"1xx", "2xx"} ->
            [a EXCEPT !.state = "COMPLETED", !.tmr = TRUE, !.tmrg = ~reliable]
       [] ~invite /\ c # "1xx" ->
            IF reliable THEN NoSTrans
            ELSE [a EXCEPT !.state = "COMPLETED", !.tmr = TRUE]

(* Mutant: the cancel handler is called in every state. *)
Unanswered_Ever(b) == st[b].state # "none"

Unanswered(b) == st[b].state \in {"TRYING", "PROCEEDING"}

Reply(b, c) ==
  /\ Unanswered(b)
  /\ st' = [st EXCEPT ![b] = sip_strans_reply(@, c)]
  /\ tu' = [tu EXCEPT ![b].answer = IF c = "1xx" THEN @ ELSE c]
  /\ net' = net \cup ToClient(b, c)
  /\ UNCHANGED <<met, reliable, forked, ct, user>>

(* The socket refuses the response: the transaction is gone, and so is the *)
(* user's interest.  A copy of the request is then a new request.          *)
ReplyFails(b) ==
  /\ Unanswered(b)
  /\ st' = [st EXCEPT ![b] = NoSTrans]
  /\ tu' = [tu EXCEPT ![b].seen = 0]
  /\ UNCHANGED <<met, reliable, forked, net, ct, user>>

(* cancel_handler: the CANCEL itself is answered without a transaction.    *)
(* The user answers the INVITE with 487, unless it has an answer.          *)
CancelRequest ==
  LET m == Request("req", "CANCEL")
  IN /\ m \in net
     /\ \/ /\ ~Known("req")
           /\ net' = Rest(m) \cup {Response("CANCEL", "481")}
           /\ UNCHANGED <<st, tu>>
        \/ /\ Known("req") /\ ~Unanswered("req")
           /\ net' = Rest(m) \cup {Response("CANCEL", "200")}
           /\ UNCHANGED <<st, tu>>
        \/ /\ Unanswered("req")
           /\ net' = Rest(m) \cup {Response("CANCEL", "200"), Response(met, "487")}
           /\ st' = [st EXCEPT !["req"] = sip_strans_reply(@, "487")]
           /\ tu' = [tu EXCEPT !["req"].answer = "487", !["req"].canceled = TRUE]
     /\ UNCHANGED <<met, reliable, forked, ct, user>>

(* ack_handler: the acknowledgement of a refusal *)
AckRequest ==
  LET m == Request("req", "ACK")
  IN /\ m \in net
     /\ net' = Rest(m)
     /\ st' = IF st["req"].state # "COMPLETED" THEN st
              ELSE [st EXCEPT !["req"] =
                      IF reliable THEN NoSTrans
                      ELSE [@ EXCEPT !.state = "CONFIRMED", !.tmrg = FALSE,
                                     !.tmr = TRUE]]
     /\ UNCHANGED <<met, reliable, forked, ct, user, tu>>

(* retransmit_handler, and the one of sipsess_reply_2xx *)
ServerRetransmit(b) ==
  /\ st[b].tmrg \/ st[b].state = "ACCEPTED"
  /\ net' = net \cup ToClient(b, st[b].mb)
  /\ UNCHANGED <<met, reliable, forked, ct, st, user, tu>>

(* tmr_handler.  The timers are chosen to outlast the copies: the client   *)
(* sends the last one 64*T1 after the first at the latest, and none is     *)
(* under way for longer than T4.                                           *)
Quiet == Request("req", met) \notin net /\ Request("fork", met) \notin net
         /\ ~ct["req"].tmre

ServerTimeout(b) ==
  /\ st[b].tmr /\ Quiet
  /\ st' = [st EXCEPT ![b] = NoSTrans]
  /\ UNCHANGED <<met, reliable, forked, net, ct, user, tu>>

----------------------------------------------------------------------------
(* The network *)

Fork ==
  /\ ~forked /\ Request("req", met) \in net
  /\ forked' = TRUE
  /\ net' = net \cup {Request("fork", met)}
  /\ UNCHANGED <<met, reliable, ct, st, user, tu>>

Lose(m) ==
  /\ ~reliable /\ m \in net
  /\ net' = net \ {m}
  /\ UNCHANGED <<met, reliable, forked, ct, st, user, tu>>

----------------------------------------------------------------------------
Client ==
  \/ Ask \/ Cancel \/ Provisional
  \/ \E k \in Trans : Flush(k) \/ ConnFailed(k) \/ ClientTimeout(k) \/ ClientRetransmit(k)
  \/ \E c \in Code : FinalResponse(c) \/ LateResponse(c) \/ CancelResponse(c)

Server ==
  \/ CancelRequest \/ AckRequest
  \/ \E b \in Branch :
       \/ RequestAgain(b) \/ LoopDetected(b) \/ NewRequest(b)
       \/ ReplyFails(b) \/ ServerRetransmit(b) \/ ServerTimeout(b)
       \/ \E c \in Final \cup {"1xx"} : Reply(b, c)

Next == Client \/ Server \/ Fork \/ \E m \in Message : Lose(m)

Spec == Init /\ [][Next]_vars

(* Timers fire, a connection is made or given up, and no message stays     *)
(* under way: over UDP it may be lost, over a connection it arrives.       *)
Arrives ==
  \/ CancelRequest \/ AckRequest \/ Provisional
  \/ \E b \in Branch : RequestAgain(b) \/ LoopDetected(b) \/ NewRequest(b)
  \/ \E c \in Code : FinalResponse(c) \/ LateResponse(c) \/ CancelResponse(c)

Gone(m) == m \in net /\ (Lose(m) \/ (reliable /\ Arrives)) /\ m \notin net'

Fairness ==
  /\ \A k \in Trans : WF_vars(ClientTimeout(k)) /\ WF_vars(Flush(k) \/ ConnFailed(k))
  /\ \A b \in Branch : WF_vars(ServerTimeout(b))
  /\ \A m \in Message : WF_vars(Gone(m))

FairSpec == Spec /\ Fairness

----------------------------------------------------------------------------
(* Properties *)

(* The records of ctrans.c, strans.c and of the two users are well formed. *)
TypeOK ==
  /\ met \in Method /\ reliable \in BOOLEAN /\ forked \in BOOLEAN
  /\ net \subseteq Message
  /\ ct \in [Trans -> CTrans]
  /\ st \in [Branch -> STrans]
  /\ user \in [asked : BOOLEAN, canceled : BOOLEAN, provrecv : BOOLEAN,
               calls : Nat, result : Final \cup {"487", "482", "none", "err"}]
  /\ tu \in [Branch -> [seen : Nat, answer : Final \cup {"487", "none"},
                        canceled : BOOLEAN]]

(* The server's user does not see a request again that it answered or is   *)
(* to answer; over UDP not even a copy that came on another path           *)
(* (strans.c, request_handler).                                            *)
ServedOnce ==
  /\ \A b \in Branch : tu[b].seen <= 1
  /\ ~reliable => tu["req"].seen + tu["fork"].seen <= 1

(* No transaction waits forever: it has a timer, or its user owes it an    *)
(* answer, or, on the client, it is an INVITE that rings and that its user *)
(* has not cancelled (sip_ctrans_cancel starts the timer again).           *)
TimersRun ==
  /\ TypeOK
  /\ \A k \in Trans : ct[k].state # "none" =>
       \/ ct[k].tmr
       \/ k = "req" /\ invite /\ ct[k].state = "PROCEEDING" /\ ~user.canceled
  /\ \A b \in Branch : st[b].state # "none" =>
       \/ st[b].tmr
       \/ Unanswered(b) /\ tu[b].seen = 1 /\ tu[b].answer = "none"

(* A request ends with 487 only if its user cancelled it, however the      *)
(* CANCEL and the final answer cross (cancel_handler, response_handler).   *)
CancelWanted ==
  tu["req"].answer = "487" \/ user.result = "487" => user.canceled

(* The two ends and the network between them are the exchange their users  *)
(* expect: one result, which is the server's answer unless the stack       *)
(* itself gave up or refused.                                              *)
Exchange ==
  INSTANCE SipExchange WITH
    Answer <- Final \cup {"487"}, Refusal <- {"err", "482"},
    asked <- user.asked, seen <- tu["req"].seen > 0,
    answer <- tu["req"].answer, result <- user.result

Implements == Exchange!Spec

(* A request that is not an INVITE, and every request that is cancelled,   *)
(* gets its final result (timers of ctrans.c).                             *)
Concluded ==
  (user.asked /\ (~invite \/ user.canceled)) ~> (user.result # "none")

(* Both ends keep the request apart from its copies, never wait without a  *)
(* timer, and cancel only what was cancelled (ctrans.c, strans.c).         *)
TransSafe == ServedOnce /\ TimersRun /\ CancelWanted
=============================================================================
