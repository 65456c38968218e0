------------------------------ MODULE SipLoop ------------------------------
(***************************************************************************)
(* The guard against requests that are answered with failures for ever     *)
(* (re sip/request.c, struct sip_loopstate), which registrations and       *)
(* subscriptions share.  Answers are classes of status codes: 401 stands   *)
(* for the ones that may be repeated (401, 407, 491).                      *)
(***************************************************************************)
EXTENDS Naturals

CONSTANT MaxLoop     \* failures in a row after which a request loops (16)

ASSUME SipLoopAssumption == MaxLoop \in Nat \ {0}

NoLoop == [last |-> "none", failc |-> 0]

(* sip_request_loops *)
sip_request_loops(ls, code) ==
  /\ code # "2xx"
  /\ \/ ls.failc + 1 >= MaxLoop
     \/ code # "401" /\ ls.last = code

(* Mutant: failures are not counted. *)
LoopState_NoCount(ls, code) == [last |-> code, failc |-> 0]

(* The loop state after sip_request_loops *)
LoopState(ls, code) ==
  [last |-> code, failc |-> IF code = "2xx" THEN 0 ELSE ls.failc + 1]

=============================================================================
