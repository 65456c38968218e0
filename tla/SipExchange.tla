---------------------------- MODULE SipExchange ----------------------------
(***************************************************************************)
(* What a SIP request promises its two users, whatever the network does:   *)
(* the server's user answers it at most once, and the client's user gets   *)
(* one final result: that answer, a refusal of the stack itself, or an     *)
(* error.                                                                  *)
(***************************************************************************)
CONSTANTS
  Answer,     \* final answers of the server's user
  Refusal     \* results that do not come from the server's user

VARIABLES asked, seen, answer, result

vars == <<asked, seen, answer, result>>

Init == ~asked /\ ~seen /\ answer = "none" /\ result = "none"

Ask ==
  /\ ~asked
  /\ asked' = TRUE
  /\ result' \in {"none"} \cup Refusal     \* it may not even be sent
  /\ UNCHANGED <<seen, answer>>

Serve ==
  /\ asked /\ ~seen
  /\ seen' = TRUE
  /\ UNCHANGED <<asked, answer, result>>

Reply ==
  /\ seen /\ answer = "none"
  /\ answer' \in Answer
  /\ UNCHANGED <<asked, seen, result>>

(* The answer could not be sent: as if the user had never seen the request. *)
Abandon ==
  /\ seen /\ answer = "none"
  /\ seen' = FALSE
  /\ UNCHANGED <<asked, answer, result>>

Conclude ==
  /\ asked /\ result = "none"
  /\ result' \in Refusal \cup ({answer} \ {"none"})
  /\ UNCHANGED <<asked, seen, answer>>

Next == Ask \/ Serve \/ Reply \/ Abandon \/ Conclude

Spec == Init /\ [][Next]_vars
=============================================================================
