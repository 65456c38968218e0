------------------------------- MODULE SipNot -------------------------------
(***************************************************************************)
(* One subscription at the SIP event server (re sipevent/notify.c and the  *)
(* SUBSCRIBE part of listen.c): the notifier of a presence or of a call    *)
(* transfer, against a subscriber that renews, ends and challenges, and    *)
(* whose answers may be lost.                                              *)
(*                                                                         *)
(* The content of a NOTIFY is the version of the state the application     *)
(* last gave, so that what the subscriber holds can be compared with it.   *)
(***************************************************************************)
EXTENDS SipLoop, FiniteSets

CONSTANT MaxVersion   \* changes of the state that is notified

SipNotAssumption == MaxVersion \in Nat

VARIABLES
  not,         \* struct sipnot
  mb,          \* version of the state (0: none was given yet)
  ans,         \* answer to the NOTIFY that is under way
  got,         \* version the subscriber holds
  peer,        \* the subscription at the subscriber
  app,         \* the application holds the object
  closed,      \* calls of its close handler
  self         \* history: the application ended the subscription itself

vars == <<not, mb, ans, got, peer, app, closed, self>>

Version == 0 .. MaxVersion
NotifyAnswer == {"2xx", "401", "refused", "timeout", "err"}

Notifier == [
  refs : 0 .. 2,
  req : {"none", "active", "final"},   \* NOTIFY under way, by its state
  sent : Version,                      \* ... and its content
  tmr : BOOLEAN, expires : BOOLEAN,    \* timer runs; time is not zero
  notify_pending : BOOLEAN, subscribed : BOOLEAN,
  terminated : BOOLEAN, termsent : BOOLEAN,
  ls : [last : NotifyAnswer \cup {"none"}, failc : 0 .. MaxLoop],
  failed : BOOLEAN]    \* history: a NOTIFY could not be sent, was refused or
                       \* got no answer

Freed == [refs |-> 0, req |-> "none", sent |-> 0, tmr |-> FALSE,
          expires |-> FALSE, notify_pending |-> FALSE, subscribed |-> FALSE,
          terminated |-> TRUE, termsent |-> FALSE, ls |-> NoLoop, failed |-> FALSE]

----------------------------------------------------------------------------
(* notify_request, when the NOTIFY cannot be sent *)
Unsent(n, reset_ls) ==
  [n EXCEPT !.ls = IF reset_ls THEN NoLoop ELSE @,
            !.termsent = @ \/ n.terminated,
            !.notify_pending = FALSE, !.failed = TRUE]

(* notify_request, when it is sent, with the content m *)
Sent(n, reset_ls, m) ==
  [Unsent(n, reset_ls) EXCEPT
     !.failed = n.failed, !.sent = m,
     !.req = IF n.terminated THEN "final" ELSE "active"]

(* mem_ref *)
Ref(n) == [n EXCEPT !.refs = @ + 1]

(* Mutant: no reference is kept for the answer that is awaited. *)
terminate_NoRef(n, m) ==
  LET t == [n EXCEPT !.terminated = TRUE]
  IN CASE t.req # "none" -> {t}
       [] t.req = "none" /\ t.subscribed ->
            {Ref(Sent(t, TRUE, m)), Unsent(t, TRUE)}
       [] OTHER -> {t}

(* terminate: the results with and without a last NOTIFY *)
terminate(n, m) ==
  LET t == [n EXCEPT !.terminated = TRUE]
  IN CASE t.req # "none" -> {Ref(t)}
       [] t.req = "none" /\ t.subscribed ->
            {Ref(Sent(t, TRUE, m)), Unsent(t, TRUE)}
       [] OTHER -> {t}

(* Mutant: the destructor does not end the subscription. *)
mem_deref_Silent(n) ==
  {IF n.refs > 1 THEN [n EXCEPT !.refs = @ - 1]
   ELSE [Freed EXCEPT !.failed = n.failed]}

(* mem_deref: at zero the destructor runs, and may take a reference again. *)
mem_deref(n) ==
  IF n.refs > 1 THEN {[n EXCEPT !.refs = @ - 1]}
  ELSE LET d == [n EXCEPT !.refs = 0, !.tmr = FALSE]
           after == IF d.terminated THEN {d} ELSE terminate(d, mb)
       IN {IF t.refs = 0 THEN [Freed EXCEPT !.failed = t.failed] ELSE t : t \in after}

Set(n) == not' = n /\ UNCHANGED <<app, closed>>

Deref(n) == not' \in mem_deref(n) /\ UNCHANGED <<app, closed>>

(* sipnot_terminate: the close handler may release the object. *)
sipnot_terminate(n) ==
  \E t \in terminate([n EXCEPT !.tmr = FALSE], mb) :
    /\ closed' = closed + 1
    /\ \/ not' = t /\ UNCHANGED app
       \/ app /\ app' = FALSE /\ not' \in mem_deref(t)

(* Mutant: a change during a NOTIFY is not remembered. *)
sipnot_notify_Forget(n, m) ==
  IF ~n.expires \/ n.req # "none" THEN {n}
  ELSE {Sent(n, TRUE, m), Unsent(n, TRUE)}

(* sipnot_notify *)
sipnot_notify(n, m) ==
  CASE ~n.expires -> {n}
    [] n.expires /\ n.req # "none" -> {[n EXCEPT !.notify_pending = TRUE]}
    [] OTHER -> {Sent(n, TRUE, m), Unsent(n, TRUE)}

----------------------------------------------------------------------------
(* The application *)

(* sipevent_accept *)
Accept(expires) ==
  [Freed EXCEPT !.refs = 1, !.tmr = TRUE, !.expires = expires,
                !.subscribed = TRUE, !.terminated = FALSE]

(* sipevent_notify with an active or pending state *)
Notify ==
  /\ app /\ ~not.terminated /\ mb < MaxVersion
  /\ mb' = mb + 1
  /\ not' \in sipnot_notify(not, mb + 1)
  /\ UNCHANGED <<ans, got, peer, app, closed, self>>

(* sipevent_notify with the state terminated, with or without content *)
NotifyTerminated ==
  /\ app /\ ~not.terminated
  /\ mb' \in {mb, mb + 1} \cap Version
  /\ not' \in terminate([not EXCEPT !.tmr = FALSE], mb')
  /\ self' = TRUE
  /\ UNCHANGED <<ans, got, peer, app, closed>>

Release ==
  /\ app /\ app' = FALSE
  /\ not' \in mem_deref(not)
  /\ UNCHANGED <<mb, ans, got, peer, closed, self>>

----------------------------------------------------------------------------
(* Answers and SUBSCRIBE *)

(* Mutant: the reference is not given back. *)
Out_Keep(n) ==
  IF n.terminated THEN Set(n)
  ELSE IF n.subscribed THEN Set(n) ELSE sipnot_terminate(n)

(* The end of response_handler *)
Out(n) ==
  CASE n.termsent -> Deref(n)
    [] ~n.termsent /\ n.terminated ->
         \/ ~n.subscribed /\ Deref(n)
         \/ n.subscribed /\ (Set(Sent(n, TRUE, mb)) \/ Deref(Unsent(n, TRUE)))
    [] ~n.termsent /\ ~n.terminated /\ ~n.subscribed -> sipnot_terminate(n)
    [] ~n.termsent /\ ~n.terminated /\ n.subscribed /\ n.notify_pending ->
         Set(Sent(n, TRUE, mb)) \/ Set(Unsent(n, TRUE))
    [] OTHER -> Set(n)

(* response_handler *)
Response ==
  /\ not.req # "none" /\ ans # "none"
  /\ ans' = "none"
  /\ LET n == [not EXCEPT !.req = "none", !.failed = @ \/ ans \notin {"2xx", "401"}]
         l == [n EXCEPT !.ls = LoopState(@, ans)]
         off == [l EXCEPT !.subscribed = FALSE, !.failed = TRUE]
     IN CASE ans = "timeout" -> Out([n EXCEPT !.subscribed = FALSE])
          [] ans = "err" -> Out(n)
          [] ans \notin {"timeout", "err"} /\ sip_request_loops(n.ls, ans) -> Out(off)
          [] ans = "2xx" -> Out(l)
          [] ans = "401" /\ ~sip_request_loops(n.ls, ans) ->
               \/ Set(Sent(l, FALSE, mb))
               \/ Out([Unsent(l, FALSE) EXCEPT !.subscribed = FALSE])
               \/ Out(off)
          [] OTHER -> Out(off)
  /\ UNCHANGED <<mb, got, peer, self>>

(* subscribe_handler, when the subscription is found and the time is not   *)
(* too brief                                                               *)
Subscribe(expires) ==
  /\ peer = "on" /\ not.refs > 0 /\ ~not.terminated
  /\ not' \in sipnot_notify([not EXCEPT !.expires = expires, !.tmr = TRUE], mb)
  /\ UNCHANGED <<mb, ans, got, peer, app, closed, self>>

(* Mutant: the application is not told. *)
Timeout_Silent ==
  /\ not.tmr
  /\ not' \in terminate([not EXCEPT !.tmr = FALSE], mb)
  /\ UNCHANGED <<mb, ans, got, peer, app, closed, self>>

(* tmr_handler *)
Timeout ==
  /\ not.tmr
  /\ IF not.terminated THEN Set([not EXCEPT !.tmr = FALSE])
                       ELSE sipnot_terminate(not)
  /\ UNCHANGED <<mb, ans, got, peer, self>>

----------------------------------------------------------------------------
(* The subscriber answers a NOTIFY, or its answer is lost. *)
PeerAnswers ==
  /\ not.req # "none" /\ ans = "none"
  /\ \/ /\ peer = "on" /\ ans' \in {"2xx", "timeout", "err"}
        /\ got' = not.sent
        /\ peer' = IF not.req = "final" THEN "ended" ELSE "on"
     \/ ans' \in {"401", "timeout", "err"} /\ UNCHANGED <<got, peer>>
     \/ ans' = "refused" /\ peer' = "ended" /\ UNCHANGED got
  /\ UNCHANGED <<not, mb, app, closed, self>>

----------------------------------------------------------------------------
Init ==
  /\ \E expires \in BOOLEAN : not = Accept(expires)
  /\ mb = 0 /\ got = 0
  /\ ans = "none" /\ peer = "on"
  /\ app = TRUE /\ closed = 0 /\ self = FALSE

Next ==
  \/ Notify \/ NotifyTerminated \/ Release \/ Response \/ Timeout \/ PeerAnswers
  \/ \E expires \in BOOLEAN : Subscribe(expires)

Spec == Init /\ [][Next]_vars

(* Requests are answered or time out, answers arrive, timers fire. *)
Fairness == WF_vars(PeerAnswers) /\ WF_vars(Response) /\ WF_vars(Timeout)

----------------------------------------------------------------------------
(* struct sipnot is well formed; the close handler runs at most once. *)
TypeOK ==
  /\ not \in Notifier
  /\ mb \in Version /\ got \in Version
  /\ ans \in NotifyAnswer \cup {"none"}
  /\ peer \in {"on", "ended"}
  /\ app \in BOOLEAN /\ closed \in 0 .. 1 /\ self \in BOOLEAN

(* The references are the application's and, once the subscription has     *)
(* ended, the object's own while a NOTIFY is under way (terminate and      *)
(* response_handler take and give it back in every order of events).       *)
RefsExact ==
  /\ TypeOK
  /\ not.refs = Cardinality({x \in {"app"} : app})
           + Cardinality({x \in {"own"} : not.terminated /\ not.req # "none"})

(* The subscriber holds the latest state whenever no NOTIFY is under way,  *)
(* whatever changed while earlier ones were (notify_pending), unless a     *)
(* NOTIFY failed or its time is over.                                      *)
UpToDate ==
  not.refs > 0 /\ not.req = "none" /\ ~not.failed /\ not.expires => got = mb

(* A subscription that is gone here has ended at the subscriber too: the   *)
(* last NOTIFY is neither skipped nor taken for an earlier one.            *)
LastWord == not.refs = 0 /\ ~not.failed => peer = "ended"

(* The application knows of the end of a subscription that it holds: it   *)
(* ended it itself or its close handler was called, and not both.          *)
EndIsKnown ==
  /\ ~(self /\ closed = 1)
  /\ app => (not.terminated <=> self \/ closed = 1)

(* A notifier that the application has released is freed. *)
FreedAtLast == ~app ~> not.refs = 0

(* A notifier is held by exactly those that need it, its subscriber has    *)
(* the latest state or a NOTIFY with it is to come, and its end is told to *)
(* the subscriber and to the application (notify.c).                       *)
NotSafe == RefsExact /\ UpToDate /\ LastWord /\ EndIsKnown
=============================================================================
