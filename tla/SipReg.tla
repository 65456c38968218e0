------------------------------- MODULE SipReg -------------------------------
(***************************************************************************)
(* A registration (sipreg/reg.c) and the registrar it keeps a binding at:  *)
(* refreshes and retries by timer, challenges, the keepalive of an         *)
(* outbound flow, and the release by the user, which takes the binding     *)
(* away before the object goes.                                            *)
(*                                                                         *)
(* A REGISTER ends with one result, as SipRequest shows; the registrar may *)
(* have acted on one that ends with an error.  Waiting times are           *)
(* milliseconds in a uint32_t, whose modulus is Word.                      *)
(***************************************************************************)
EXTENDS SipLoop, FiniteSetsExt

CONSTANTS
  Expires,     \* intervals that are asked for, in seconds
  Granted,     \* intervals that the registrar grants
  MaxFailc,    \* bound on the failure counter
  Word

SipRegAssumption ==
  /\ Expires \subseteq Nat \ {0} /\ Granted \subseteq Nat \ {0}
  /\ MaxFailc \in Nat
  /\ Word \in Nat /\ Word > 1800 * 1000

VARIABLES
  reg,       \* struct sipreg
  user,      \* "none", "holds" or "released" it; then it is freed: "removed"
             \* after a success, "dropped" after a failure
  bound      \* the registrar has a binding

vars == <<reg, user, bound>>

Code == {"2xx", "401", "423", "4xx"}

SipRegistration == [
  expires : Expires \cup {0}, failc : 0 .. MaxFailc,
  req : {"none", "sent"} \cup Code,     \* under way, or answered with a code
  asks : Expires \cup {0},              \* the interval of that request
  tmr : BOOLEAN, wait : Nat, granted : Granted \cup Expires \cup {0},
  ka : BOOLEAN, registered : BOOLEAN, terminated : BOOLEAN,
  ls : [last : {"none"} \cup Code, failc : 0 .. MaxLoop]]

NoReg == [
  expires |-> 0, failc |-> 0, req |-> "none", asks |-> 0, tmr |-> FALSE,
  wait |-> 0, granted |-> 0, ka |-> FALSE, registered |-> FALSE,
  terminated |-> FALSE, ls |-> NoLoop]

Init ==
  /\ reg = NoReg /\ user = "none" /\ bound = FALSE

Alive == user \in {"holds", "released"}

----------------------------------------------------------------------------
(* failwait, for the least and the greatest random factor *)
failwait(failc) ==
  {Min({1800, 30 * 2^Min({failc, 6})}) * n : n \in {500, 1000}}

(* The counter goes on in the code; here it stops where failwait does not  *)
(* change any more.                                                        *)
Count(failc) == Min({failc + 1, MaxFailc})

(* request, when it succeeds: after the release it asks for no binding. *)
request(r, reset_ls) ==
  LET e == IF r.terminated THEN 0 ELSE r.expires
  IN [r EXCEPT !.expires = e, !.asks = e, !.req = "sent",
               !.ls = IF reset_ls THEN NoLoop ELSE @]

tmr_start(r, wait, granted) ==
  [r EXCEPT !.tmr = TRUE, !.wait = wait, !.granted = granted]

(* The object is freed, or goes on. *)
Free(how) == reg' = NoReg /\ user' = how /\ UNCHANGED bound

Goes(r) == reg' = r /\ UNCHANGED <<user, bound>>

----------------------------------------------------------------------------
(* sipreg_register *)
Register ==
  /\ user = "none"
  /\ \/ \E e \in Expires :
          /\ reg' = request([NoReg EXCEPT !.expires = e], TRUE)
          /\ user' = "holds"
     \/ user' = "dropped" /\ UNCHANGED reg
  /\ UNCHANGED bound

(* The user's mem_deref: the destructor waits for the request under way,   *)
(* or sends one that removes the binding.                                  *)
Release ==
  /\ user = "holds"
  /\ LET r == [reg EXCEPT !.tmr = FALSE, !.terminated = TRUE]
     IN \/ r.req # "none" /\ reg' = r /\ user' = "released" /\ UNCHANGED bound
        \/ /\ r.req = "none" /\ r.registered
           /\ reg' = request(r, TRUE) /\ user' = "released"
           /\ UNCHANGED bound
        \/ r.req = "none" /\ Free("dropped")

(* tmr_handler *)
Timer ==
  /\ Alive /\ reg.tmr
  /\ LET r == [reg EXCEPT !.tmr = FALSE]
         c == Count(r.failc)
     IN \/ Goes(request(r, TRUE))
        \/ \E w \in failwait(c) : Goes(tmr_start([r EXCEPT !.failc = c], w, 0))

(* Mutant: a failed flow starts a retry although a request is under way. *)
Keepalive_Always ==
  /\ Alive /\ reg.ka
  /\ LET c == Count(reg.failc)
         r == [reg EXCEPT !.ka = FALSE]
     IN \E w \in failwait(c) : Goes(tmr_start([r EXCEPT !.failc = c], w, 0))

(* keepalive_handler: the flow has failed (sip_keepalive_signal resets ka). *)
Keepalive ==
  /\ Alive /\ reg.ka
  /\ LET c == Count(reg.failc)
         r == [reg EXCEPT !.ka = FALSE]
     IN IF reg.req # "none" \/ reg.terminated THEN Goes(r)
        ELSE \E w \in failwait(c) :
               Goes(tmr_start([r EXCEPT !.failc = c], w, 0))

(* Mutant: a released registration goes with the first response. *)
Finish_Forget(r, wait, granted, how) ==
  IF r.expires = 0 \/ r.terminated THEN Free(how)
  ELSE Goes(tmr_start(r, wait, granted))

(* The end of response_handler: a released registration goes, or removes   *)
(* its binding first; another one arms its timer.                          *)
Finish(r, wait, granted, how) ==
  IF r.expires = 0 THEN Free(how)
  ELSE IF r.terminated
  THEN (r.registered /\ Goes(request(r, TRUE))) \/ Free("dropped")
  ELSE Goes(tmr_start(r, wait, granted))

(* response_handler, an error or a loop *)
Failed(r) ==
  \E w \in failwait(r.failc + 1) :
    Finish([r EXCEPT !.failc = Count(@)], w, 0, "dropped")

(* Mutant: the refresh comes when the binding has expired. *)
Refresh_Late(g) == (g * 1100) % Word

(* When nine tenths of the granted time are over. *)
Refresh(g) == (g * 900) % Word

(* response_handler, 2xx: the interval is the one granted for our contact, *)
(* or else the one asked for.                                              *)
Accepted(r) ==
  \E g \in Granted \cup {r.asks}, ka \in BOOLEAN :
    Finish([r EXCEPT !.registered = TRUE, !.failc = 0,
                     !.ka = @ \/ (ka /\ ~r.terminated)], Refresh(g),
           g, "removed")

(* response_handler, another final response: the answer to a challenge, or *)
(* to an interval that is too short, is a new request.                     *)
Refused(r, code) ==
  LET again == {p \in {r} \cup {[r EXCEPT !.expires = e] : e \in Expires} :
                  \/ code = "401" /\ p = r
                  \/ code = "423" /\ r.expires # 0}
  IN IF r.terminated /\ ~r.registered
     THEN \E w \in failwait(r.failc + 1) : Finish(r, w, 0, "dropped")
     ELSE \/ \E p \in again : Goes(request(p, FALSE))
          \/ Failed(r)

Response(code) ==
  /\ Alive /\ reg.req = code
  /\ LET r == [reg EXCEPT !.req = "none", !.ls = LoopState(@, code)]
     IN \/ sip_request_loops(reg.ls, code) /\ Failed(r)
        \/ code = "2xx" /\ Accepted(r)
        \/ ~sip_request_loops(reg.ls, code) /\ code # "2xx" /\ Refused(r, code)

(* The request ends with an error, on its way there or back. *)
ResponseError ==
  /\ Alive /\ reg.req # "none"
  /\ Failed([reg EXCEPT !.req = "none"])

----------------------------------------------------------------------------
(* The registrar answers the request, and refuses it or does what it asks. *)
Registrar(code) ==
  /\ Alive /\ reg.req = "sent"
  /\ reg' = [reg EXCEPT !.req = code]
  /\ bound' = IF code = "2xx" THEN reg.asks # 0 ELSE bound
  /\ UNCHANGED user

----------------------------------------------------------------------------
Next ==
  \/ Register \/ Release \/ Timer \/ Keepalive \/ ResponseError
  \/ \E code \in Code : Response(code) \/ Registrar(code)

Spec == Init /\ [][Next]_vars

(* Every request comes to its result, whatever it is. *)
Fairness == WF_vars(ResponseError \/ \E code \in Code : Response(code))

----------------------------------------------------------------------------
(* struct sipreg is well formed. *)
TypeOK ==
  /\ reg \in SipRegistration
  /\ user \in {"none", "holds", "released", "removed", "dropped"}
  /\ bound \in BOOLEAN

(* A registration never stops: it waits for a response or for its timer,   *)
(* and never for both, whatever keepalives fail in the meantime; after its *)
(* release only for a response.                                            *)
KeepsGoing ==
  /\ TypeOK
  /\ Alive => (reg.req # "none" <=> ~reg.tmr)
  /\ user = "released" => reg.terminated /\ reg.req # "none"

(* A released registration that goes after a success has no binding left   *)
(* behind, although the release may meet a REGISTER that creates one.      *)
LeavesNothing == user = "removed" => ~bound

(* A binding is refreshed before the granted interval is over, also when   *)
(* the multiplication of the interval overflows.                           *)
RefreshInTime ==
  Alive /\ reg.tmr /\ reg.granted # 0 => reg.wait < reg.granted * 1000

(* A released registration is freed. *)
Freed == user = "released" ~> user \in {"removed", "dropped"}

(* A registration keeps going, in time, and takes its binding with it when *)
(* it goes (reg.c).                                                        *)
RegSafe == KeepsGoing /\ LeavesNothing /\ RefreshInTime
=============================================================================
