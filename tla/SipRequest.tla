----------------------------- MODULE SipRequest -----------------------------
(***************************************************************************)
(* A SIP request (sip/request.c) from the user's call to its last          *)
(* callback: the DNS lookups that find its destinations, the attempts one  *)
(* after the other, cancellation, release by the user while it is under    *)
(* way and the close of the stack.                                         *)
(*                                                                         *)
(* The lists of SRV and address records are counted; the client            *)
(* transaction is what SipTrans shows of it: it calls its handler with     *)
(* provisional responses and then once with a result, and it runs a timer  *)
(* except while an INVITE rings that is not cancelled.                     *)
(***************************************************************************)
EXTENDS Naturals, FiniteSets

CONSTANTS
  MaxSrv, MaxAddr,   \* records in a DNS answer
  Transports,        \* number of supported transports
  Family             \* address records that are looked up

SipRequestAssumption ==
  /\ MaxSrv \in Nat /\ MaxAddr \in Nat \ {0} /\ Transports \in Nat \ {0}
  /\ Family \subseteq {"A", "AAAA"} /\ Family # {}

VARIABLES
  req,     \* struct sip_request
  alive,   \* it is allocated
  user     \* what the user holds, did and was told

vars == <<req, alive, user>>

NoTrans == [state |-> "none", tmr |-> FALSE]
Trying == [state |-> "TRYING", tmr |-> TRUE]

SipReq == [
  invite : BOOLEAN, stateful : BOOLEAN,
  reqp : BOOLEAN, resph : BOOLEAN,
  dnsq : SUBSET {"NAPTR", "SRV", "A", "AAAA"},     \* dnsq and dnsq2
  tp : 0 .. Transports,                            \* transports not tried yet
  tp_selected : BOOLEAN,
  srvl : 0 .. MaxSrv, addrl : 0 .. 2 * MaxAddr,
  ct : [state : {"none", "TRYING", "PROCEEDING"}, tmr : BOOLEAN],
  canceled : BOOLEAN, provrecv : BOOLEAN]

NoReq == [
  invite |-> FALSE, stateful |-> FALSE, reqp |-> FALSE, resph |-> FALSE,
  dnsq |-> {}, tp |-> 0, tp_selected |-> FALSE, srvl |-> 0, addrl |-> 0,
  ct |-> NoTrans, canceled |-> FALSE, provrecv |-> FALSE]

Init ==
  /\ req = NoReq /\ alive = FALSE
  /\ user = [state |-> "idle",     \* idle, waits, released, told, failed, sent, dropped
             ptr |-> FALSE,        \* its pointer to the request is not NULL
             finals |-> 0,         \* final calls of its response handler
             after |-> 0]          \* transactions started after a cancellation

----------------------------------------------------------------------------
(* A step ends with one of these outcomes for the request. *)

(* What the user is left with when its request ends: a result, or nothing  *)
(* if it let go or if the request has no handler any more, which was then  *)
(* sent, or dropped with a lookup still open.                              *)
Outcome(q) ==
  IF q.resph THEN "told"
  ELSE IF user.state # "waits" THEN user.state
  ELSE IF q.dnsq = {} THEN "sent" ELSE "dropped"

(* Mutant: the user keeps its pointer to a request that has ended. *)
Over_KeepsPointer(q) ==
  /\ alive' = FALSE
  /\ req' = NoReq
  /\ user' = [user EXCEPT !.finals = IF q.resph THEN @ + 1 ELSE @,
                          !.state = Outcome(q)]

(* terminate and the last mem_deref: the destructor releases the queries,  *)
(* the lists and the transaction.                                          *)
Over(q) ==
  /\ alive' = FALSE
  /\ req' = NoReq
  /\ user' = [user EXCEPT !.ptr = FALSE,
                          !.finals = IF q.resph THEN @ + 1 ELSE @,
                          !.state = Outcome(q)]

(* It goes on; started: with an attempt. *)
Going(q, started) ==
  /\ req' = q
  /\ user' = [user EXCEPT !.after = IF started /\ q.canceled THEN @ + 1 ELSE @]
  /\ UNCHANGED alive

----------------------------------------------------------------------------
(* Finding a destination.  These operators give the request as it is when  *)
(* no error is returned; each of them can also fail.                       *)

(* Mutant: the next attempt starts with the provisional response of the    *)
(* one before.                                                             *)
request_Stale(q) == [q EXCEPT !.ct = IF q.stateful THEN Trying ELSE NoTrans]

(* request: one attempt *)
request(q) ==
  [q EXCEPT !.provrecv = FALSE, !.ct = IF q.stateful THEN Trying ELSE NoTrans]

srv_lookup(q) == [q EXCEPT !.dnsq = {"SRV"}]

(* The queries start together; if one cannot, those before are released by *)
(* the caller with the request.                                            *)
addr_lookup(q) == [q EXCEPT !.dnsq = Family]

(* What is left of the lists when a destination is taken off them *)
Left(q, srvl, addrl) == [q EXCEPT !.srvl = srvl, !.addrl = addrl]

(* request_next: destinations are taken off the lists until an attempt     *)
(* starts.  A server whose addresses are not among the additional records  *)
(* is looked up.                                                           *)
request_next(q) ==
  {request(Left(q, q.srvl, a)) : a \in 0 .. q.addrl - 1}
  \cup {request(Left(q, s, a)) : s \in 0 .. q.srvl - 1, a \in 0 .. MaxAddr - 1}
  \cup {addr_lookup(Left(q, s, 0)) : s \in 0 .. q.srvl - 1}

(* A handler starts a lookup and waits for it; an error ends the request. *)
LookUp(q, lookup) == Over(q) \/ Going(lookup, FALSE)

(* A handler goes on with request_next; an error ends the request.  One    *)
(* without a transaction ends here in any case, silently: also when no     *)
(* attempt but a lookup was started, and nothing is sent then.             *)
Advance(q) ==
  \/ Over(q)
  \/ \E p \in request_next(q) :
       IF p.stateful THEN Going(p, p.dnsq = {}) ELSE Over([p EXCEPT !.resph = FALSE])

----------------------------------------------------------------------------
(* The request that sip_request allocates; sel: its transport is given *)
Allocated(inv, sf, sel) ==
  [NoReq EXCEPT !.invite = inv, !.stateful = sf, !.resph = TRUE,
                !.tp_selected = sel, !.tp = Transports - 1]

(* Its first step, to an address, a host and port, a host, or a domain *)
Begun(q, host) ==
  CASE host = "address" -> request(q)
    [] host = "port" -> addr_lookup(q)
    [] host = "name" /\ q.tp_selected -> srv_lookup(q)
    [] host = "name" /\ ~q.tp_selected -> [q EXCEPT !.dnsq = {"NAPTR"}]

(* sip_request: it fails, or is sent without a transaction, or goes on. *)
Request ==
  /\ user.state = "idle"
  /\ \/ \E w \in {"failed", "sent"} :
          /\ user' = [user EXCEPT !.state = w]
          /\ UNCHANGED <<req, alive>>
     \/ \E inv, sf, hold, sel \in BOOLEAN, host \in {"address", "port", "name"} :
          /\ sf \/ host # "address"
          /\ user' = [user EXCEPT !.state = "waits", !.ptr = hold]
          /\ alive' = TRUE
          /\ req' = [Begun(Allocated(inv, sf, sel), host) EXCEPT !.reqp = hold]

(* naptr_handler: no usable record, a service whose servers are unknown,   *)
(* or with its servers.                                                    *)
NaptrAnswer ==
  /\ alive /\ "NAPTR" \in req.dnsq
  /\ LET q == [req EXCEPT !.dnsq = @ \ {"NAPTR"}]
         t == [q EXCEPT !.tp_selected = TRUE]
     IN \/ LookUp(q, srv_lookup(q))
        \/ LookUp(q, srv_lookup(t))
        \/ \E n \in 1 .. MaxSrv : Advance([t EXCEPT !.srvl = n])

(* srv_handler: without servers the next transport is tried, and at last   *)
(* the host itself.                                                        *)
SrvAnswer ==
  /\ alive /\ "SRV" \in req.dnsq
  /\ LET q == [req EXCEPT !.dnsq = @ \ {"SRV"}]
     IN \/ \E n \in 1 .. MaxSrv : Advance([q EXCEPT !.srvl = n])
        \/ /\ ~q.tp_selected /\ q.tp > 0
           /\ LookUp(q, srv_lookup([q EXCEPT !.tp = @ - 1]))
        \/ /\ q.tp_selected \/ q.tp = 0
           /\ LookUp(q, addr_lookup(q))

(* Mutant: the first answer does not wait for the second. *)
AddrAnswer_First(f) ==
  /\ alive /\ f \in req.dnsq
  /\ \E n \in 0 .. MaxAddr :
       LET q == [req EXCEPT !.dnsq = @ \ {f}, !.addrl = @ + n]
       IN IF q.addrl = 0 /\ q.srvl = 0 THEN Over(q)
          ELSE Advance(q)

(* addr_handler: the answer of one query waits for the other. *)
AddrAnswer(f) ==
  /\ alive /\ f \in req.dnsq
  /\ \E n \in 0 .. MaxAddr :
       LET q == [req EXCEPT !.dnsq = @ \ {f}, !.addrl = @ + n]
       IN IF q.dnsq # {} THEN Going(q, FALSE)
          ELSE IF q.addrl = 0 /\ q.srvl = 0 THEN Over(q)
          ELSE Advance(q)

----------------------------------------------------------------------------
(* sip_ctrans_cancel, in a transaction that rings; nothing otherwise *)
sip_ctrans_cancel(q) ==
  IF q.invite /\ q.ct.state = "PROCEEDING" THEN [q EXCEPT !.ct.tmr = TRUE] ELSE q

(* response_handler, a provisional response: the first one carries out a   *)
(* cancellation that waits for it.                                         *)
Provisional ==
  /\ alive /\ req.ct.state # "none"
  /\ LET c == [state |-> "PROCEEDING",
               tmr |-> req.ct.tmr /\ ~(req.invite /\ req.ct.state = "TRYING")]
         q == [req EXCEPT !.ct = c, !.provrecv = TRUE]
     IN Going(IF ~req.provrecv /\ req.canceled THEN sip_ctrans_cancel(q) ELSE q,
              FALSE)

(* Mutant: a cancelled request is sent to the next destination. *)
Result_Retry(failure) ==
  /\ alive /\ req.ct.state # "none"
  /\ LET q == [req EXCEPT !.ct = NoTrans]
     IN IF failure /\ (q.addrl > 0 \/ q.srvl > 0)
        THEN Advance(q)
        ELSE Over(q)

(* response_handler, the result: an error or a 503 sends the request to    *)
(* the next destination, unless it is cancelled.                           *)
Result(failure) ==
  /\ alive /\ req.ct.state # "none"
  /\ LET q == [req EXCEPT !.ct = NoTrans]
     IN IF ~q.canceled /\ failure /\ (q.addrl > 0 \/ q.srvl > 0)
        THEN Advance(q)
        ELSE Over(q)

(* The result that time brings: the transaction gives up. *)
Timeout == req.ct.tmr /\ Result(TRUE)

(* sip_request_cancel *)
sip_request_cancel(q) ==
  LET c == [q EXCEPT !.canceled = TRUE]
  IN IF q.canceled THEN q ELSE IF q.provrecv THEN sip_ctrans_cancel(c) ELSE c

Cancel ==
  /\ user.ptr /\ ~req.canceled
  /\ req' = sip_request_cancel(req)
  /\ UNCHANGED <<alive, user>>

(* Mutant: the handler of a released request is still called. *)
Release_KeepsHandler ==
  /\ user.ptr
  /\ user' = [user EXCEPT !.state = "released", !.ptr = FALSE]
  /\ req' = sip_request_cancel([req EXCEPT !.reqp = FALSE])
  /\ UNCHANGED alive

(* The user's mem_deref: the destructor keeps a request that is under way, *)
(* silent and cancelled.                                                   *)
Release ==
  /\ user.ptr
  /\ user' = [user EXCEPT !.state = "released", !.ptr = FALSE]
  /\ IF req.stateful
     THEN /\ req' = sip_request_cancel([req EXCEPT !.reqp = FALSE, !.resph = FALSE])
          /\ UNCHANGED alive
     ELSE alive' = FALSE /\ req' = NoReq

(* close_handler: the stack is closed. *)
Close == alive /\ Over(req)

----------------------------------------------------------------------------
Answer == NaptrAnswer \/ SrvAnswer \/ \E f \in Family : AddrAnswer(f)

Next ==
  \/ Request \/ Answer \/ Provisional \/ Cancel \/ Release \/ Close
  \/ \E failure \in BOOLEAN : Result(failure)

Spec == Init /\ [][Next]_vars

(* The DNS client answers every query and the transaction's timer fires. *)
Fairness == WF_vars(Answer) /\ WF_vars(Timeout)

----------------------------------------------------------------------------
(* struct sip_request and its user are well formed; no list outgrows the   *)
(* answers it is filled from.                                              *)
TypeOK ==
  /\ req \in SipReq
  /\ alive \in BOOLEAN
  /\ user \in [state : {"idle", "waits", "released", "told", "failed", "sent", "dropped"},
               ptr : BOOLEAN, finals : Nat, after : Nat]

(* The user's pointer is NULL or leads to a request that knows of it and   *)
(* will reset it (reqp).                                                   *)
PointerValid ==
  /\ TypeOK
  /\ user.ptr => alive
  /\ alive => (user.ptr <=> req.reqp)

(* A request under way is waiting for DNS or for its transaction, for one  *)
(* of them and not for both (addr_handler, request_next).                  *)
Working ==
  alive => ((req.dnsq # {}) <=> (req.ct.state = "none"))

(* The response handler is called at most once with a result, never after  *)
(* its user let go of the request, and a request with a transaction that   *)
(* was not let go of does not end without it (terminate).  One without a   *)
(* transaction ends silently, sent or dropped during a lookup.             *)
ToldOnce ==
  /\ user.finals = (IF user.state = "told" THEN 1 ELSE 0)
  /\ user.state = "released" => user.finals = 0
  /\ user.state \in {"sent", "dropped"} => ~alive
  /\ alive /\ req.stateful => (req.resph <=> user.state = "waits")

(* Stronger, and not so: request_next returns 0 when it has only started a *)
(* lookup, and a request without a transaction is freed then.              *)
NeverDropped == user.state # "dropped"

(* Cancelling takes hold: at most one more attempt is made, the one that   *)
(* the lookup under way leads to, and an INVITE that rings has a timer.    *)
CancelHolds ==
  /\ user.after <= 1
  /\ alive /\ req.canceled /\ req.ct.state # "none" => req.ct.tmr

(* A request that is cancelled or released, and every request that is not  *)
(* an INVITE, comes to its end.                                            *)
Ends ==
  (alive /\ (req.canceled \/ ~req.invite)) ~> ~alive

(* The user of a request has a valid pointer or none, one attempt is under *)
(* way as long as it has heard nothing, it hears of one result, and after  *)
(* a cancellation at most one more attempt is made (request.c).            *)
RequestSafe == PointerValid /\ Working /\ ToldOnce /\ CancelHolds
=============================================================================
