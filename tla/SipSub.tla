------------------------------- MODULE SipSub -------------------------------
(***************************************************************************)
(* One subscription of the SIP event client (re sipevent/subscribe.c and   *)
(* the NOTIFY part of listen.c), made by SUBSCRIBE or by REFER, against a  *)
(* notifier that may accept, challenge, refuse, be silent, notify before   *)
(* it answers, and end the subscription.                                   *)
(*                                                                         *)
(* The object is reference counted.  The application holds one reference;  *)
(* the object holds one to itself while it has been given up and something *)
(* is still to come: an answer, or the last NOTIFY.  Requests are not      *)
(* forked (no fork handler, one dialog).  Waiting times are milliseconds   *)
(* in a uint32_t, whose modulus is Word.                                   *)
(***************************************************************************)
EXTENDS SipLoop, FiniteSets

CONSTANTS
  MaxFailc,    \* failures in a row that end it (RESUB_FAILC_MAX)
  Granted,     \* intervals that are asked for or granted, in seconds
  Word

SipSubAssumption ==
  /\ MaxFailc \in Nat \ {0} /\ Granted \subseteq Nat \ {0} /\ Word \in Nat \ {0}

VARIABLES
  sub,         \* struct sipsub
  ans,         \* answer to the request that is under way
  peer,        \* the subscription at the notifier
  app,         \* the application holds the subscription
  closed       \* calls of the application's close handler

vars == <<sub, ans, peer, app, closed>>

SubMethod == {"REFER", "SUBSCRIBE", "fetch", "unsubscribe"}  \* fetch: Expires 0
Answer == {"2xx", "401", "423", "481", "refused", "err"}

Subscription == [
  refs : 0 .. 2,
  by : {"REFER", "SUBSCRIBE"},          \* how it was made
  req : SubMethod \cup {"none"},
  tmr : {"off", "refresh", "notify"},   \* tmr_handler, notify_timeout_handler
  wait : Nat, granted : Granted \cup {0},  \* of a refresh; 0: it follows a failure
  expires : BOOLEAN,                    \* not zero
  subscribed : BOOLEAN, terminated : BOOLEAN, termconf : BOOLEAN,
  termwait : BOOLEAN, refer : BOOLEAN, established : BOOLEAN,
  failc : 0 .. MaxFailc,
  ls : [last : Answer \cup {"none"}, failc : 0 .. MaxLoop],
  ignored : BOOLEAN,   \* history: the last answer was ignored, and no request
                       \* was sent and the subscription not given up since
  broken : BOOLEAN]    \* history: a request could not be sent, an answer was
                       \* lost or useless, or the notifier refused the end

Freed == [refs |-> 0, by |-> "SUBSCRIBE", req |-> "none", tmr |-> "off",
          wait |-> 0, granted |-> 0, expires |-> FALSE, subscribed |-> FALSE, terminated |-> TRUE,
          termconf |-> FALSE, termwait |-> FALSE, refer |-> FALSE,
          established |-> FALSE, failc |-> 0, ls |-> NoLoop, ignored |-> FALSE,
          broken |-> FALSE]

----------------------------------------------------------------------------
(* Operators on the object.  Those that send a request have two results.   *)

(* request, when the request cannot be sent *)
Unsent(s, reset_ls) ==
  [s EXCEPT !.expires = @ /\ (s.refer \/ ~s.terminated),
            !.ls = IF reset_ls THEN NoLoop ELSE @,
            !.broken = TRUE]

(* request, when it is sent *)
Sent(s, reset_ls) ==
  [Unsent(s, reset_ls) EXCEPT !.broken = s.broken, !.ignored = FALSE,
     !.req = CASE s.refer -> "REFER"
               [] ~s.refer /\ s.terminated -> "unsubscribe"
               [] ~s.refer /\ ~s.terminated /\ s.expires -> "SUBSCRIBE"
               [] OTHER -> "fetch"]

Ref(s) == [s EXCEPT !.refs = @ + 1]

(* Mutant: the notifier is not told. *)
terminate_Silent(s) ==
  LET t == [s EXCEPT !.terminated = TRUE, !.ignored = FALSE]
      u == [t EXCEPT !.tmr = "off"]
  IN CASE t.termwait -> {Ref(t)}
       [] ~t.termwait /\ t.req # "none" -> {Ref(u)}
       [] OTHER -> {u}

(* terminate: a reference is kept while something is still to come. *)
terminate(s) ==
  LET t == [s EXCEPT !.terminated = TRUE, !.ignored = FALSE]
      u == [t EXCEPT !.tmr = "off"]
  IN CASE t.termwait -> {Ref(t)}
       [] ~t.termwait /\ t.req # "none" -> {Ref(u)}
       [] ~t.termwait /\ t.req = "none" /\ t.expires /\ t.subscribed ->
            {Ref(Sent(u, TRUE)), Unsent(u, TRUE)}
       [] OTHER -> {u}

(* mem_deref: at zero the destructor runs, and may take a reference again. *)
mem_deref(s) ==
  IF s.refs > 1 THEN {[s EXCEPT !.refs = @ - 1]}
  ELSE LET d == [s EXCEPT !.refs = 0]
           after == IF s.terminated THEN {d} ELSE terminate(d)
       IN {IF t.refs = 0 THEN [Freed EXCEPT !.broken = t.broken] ELSE t : t \in after}

(* The handler of the application may release the subscription. *)
MayRelease(s) ==
  \/ sub' = s /\ UNCHANGED app
  \/ app /\ app' = FALSE /\ sub' \in mem_deref(s)

(* sipsub_terminate: the close handler is called unless it was before. *)
sipsub_terminate(s) ==
  \E t \in terminate(s) :
    IF s.terminated
    THEN sub' = t /\ UNCHANGED <<app, closed>>
    ELSE closed' = closed + 1 /\ MayRelease(t)

Deref(s) == sub' \in mem_deref(s) /\ UNCHANGED <<app, closed>>

Set(s) == sub' = s /\ UNCHANGED <<app, closed>>

(* sipsub_reschedule; granted: the interval that it is to come before *)
reschedule(s, wait, granted) ==
  [s EXCEPT !.tmr = "refresh", !.wait = wait, !.granted = granted]

(* Mutant: the refresh comes when the subscription has expired. *)
Soon_Late(g) == (g * 1100) % Word

(* When nine tenths of the granted time are over. *)
Soon(g) == (g * 900) % Word

FailWait == 60 * 1000

(* One more failure: wait, or give up. *)
Failure(s) ==
  IF s.failc + 1 < MaxFailc
  THEN Set(reschedule([s EXCEPT !.failc = @ + 1], FailWait, 0))
  ELSE sipsub_terminate([s EXCEPT !.failc = @ + 1])

----------------------------------------------------------------------------
(* The application *)

(* sipevent_subscribe, sipevent_refer, when the request can be sent *)
Subscribe(by, expires) ==
  LET s == [Freed EXCEPT !.refs = 1, !.by = by, !.terminated = FALSE,
                         !.expires = expires, !.refer = (by = "REFER")]
  IN Sent(s, TRUE)

Release ==
  /\ app /\ app' = FALSE
  /\ sub' \in mem_deref(sub)
  /\ UNCHANGED <<ans, peer, closed>>

----------------------------------------------------------------------------
(* Answers *)

(* The end of response_handler *)
Out(r) ==
  LET s == [r EXCEPT !.refer = FALSE]
  IN IF s.terminated
     THEN IF ~s.expires \/ ~s.subscribed THEN Deref(s)
          ELSE Set(Sent(s, TRUE)) \/ Deref(Unsent(s, TRUE))
     ELSE IF s.subscribed THEN Failure(s) ELSE sipsub_terminate(s)

(* Mutant: a subscription by SUBSCRIBE is not refreshed. *)
Accepted_NoTimer(r) ==
  LET s == [r EXCEPT !.subscribed = @ \/ ~r.termconf, !.failc = 0,
                     !.established = TRUE]
  IN CASE ~s.expires /\ ~s.termconf ->
            Set([s EXCEPT !.tmr = "notify", !.termwait = TRUE])
       [] (s.expires \/ s.termconf) /\ s.terminated -> Out(s)
       [] OTHER -> Set([s EXCEPT !.refer = FALSE])

(* Mutant: the wait for the last NOTIFY has no limit. *)
Accepted_Forever(r) ==
  LET s == [r EXCEPT !.subscribed = @ \/ ~r.termconf, !.failc = 0,
                     !.established = TRUE]
  IN CASE ~s.expires /\ ~s.termconf -> Set([s EXCEPT !.termwait = TRUE])
       [] (s.expires \/ s.termconf) /\ s.terminated -> Out(s)
       [] (s.expires \/ s.termconf) /\ ~s.terminated /\ s.refer ->
            Set([s EXCEPT !.refer = FALSE])
       [] OTHER -> \E g \in Granted : Set(reschedule(s, Soon(g), g))

(* 2xx: an answer to an Expires of zero waits for the last NOTIFY, unless  *)
(* it has been; the refresh is due before the interval g is over, that of  *)
(* the answer or, if it names none, the one asked for.                     *)
Accepted(r) ==
  LET s == [r EXCEPT !.subscribed = @ \/ ~r.termconf, !.failc = 0,
                     !.established = TRUE]
  IN CASE ~s.expires /\ ~s.termconf ->
            Set([s EXCEPT !.tmr = "notify", !.termwait = TRUE])
       [] (s.expires \/ s.termconf) /\ s.terminated -> Out(s)
       [] (s.expires \/ s.termconf) /\ ~s.terminated /\ s.refer ->
            Set([s EXCEPT !.refer = FALSE])
       [] OTHER -> \E g \in Granted : Set(reschedule(s, Soon(g), g))

(* 2xx of another dialog: nothing is done, and nothing more is to come of  *)
(* the request.                                                            *)
Ignored(s) == Set([s EXCEPT !.ignored = TRUE])

(* Other answers; a request is sent again for a challenge or a longer time *)
(* unless that loops or fails.                                             *)
Refused(s, a) ==
  LET r == [s EXCEPT !.subscribed = @ /\ a # "481"]
  IN IF s.terminated /\ ~s.subscribed THEN Out(s)
     ELSE \/ /\ a = "401" \/ (a = "423" /\ s.expires)
             /\ Set(Sent(s, FALSE)) \/ Out(Unsent(s, FALSE))
          \/ Out(r)

Response ==
  /\ sub.req # "none" /\ ans # "none"
  /\ ans' = "none"
  /\ LET s == [sub EXCEPT !.req = "none", !.ls = LoopState(@, ans),
                          !.broken = @ \/ (sub.req = "unsubscribe" /\ ans # "2xx")]
     IN CASE ans = "err" -> Out([sub EXCEPT !.req = "none", !.broken = TRUE])
          [] ans = "2xx" ->
               \/ Accepted(s)
               \/ s.established /\ Ignored(s)
               \/ ~s.established /\ Out([s EXCEPT !.subscribed = FALSE, !.broken = TRUE])
          [] OTHER -> IF sip_request_loops(sub.ls, ans) THEN Out(s)
                                                        ELSE Refused(s, ans)
  /\ UNCHANGED peer

----------------------------------------------------------------------------
(* NOTIFY *)

(* notify_handler with an active or pending state; g: the interval that it *)
(* names, or zero                                                          *)
NotifyActive(g) ==
  /\ peer = "active" /\ sub.refs > 0
  /\ LET r == [sub EXCEPT !.established = TRUE,
                          !.subscribed = @ \/ ~sub.termconf]
         s == IF g # 0 /\ ~r.terminated /\ ~r.termwait
              THEN reschedule(r, Soon(g), g) ELSE r
     IN IF s.terminated THEN sub' = s /\ UNCHANGED app ELSE MayRelease(s)
  /\ UNCHANGED <<ans, peer, closed>>

(* Mutant: the waiting is not ended by the last NOTIFY. *)
NotifyTerminated_Wait ==
  /\ peer \in {"active", "final"} /\ sub.refs > 0
  /\ peer' = "gone"
  /\ LET s == [sub EXCEPT !.established = TRUE, !.subscribed = FALSE,
                          !.termconf = TRUE]
     IN IF s.terminated
        THEN IF s.termwait THEN Deref([s EXCEPT !.tmr = "off"]) ELSE Set(s)
        ELSE sipsub_terminate([s EXCEPT !.termwait = FALSE])
  /\ UNCHANGED ans

(* notify_handler with the state terminated: the application may release   *)
(* the subscription in its notify handler, and is told of the end if not.  *)
NotifyTerminated ==
  /\ peer \in {"active", "final"} /\ sub.refs > 0
  /\ peer' = "gone"
  /\ LET s == [sub EXCEPT !.established = TRUE, !.subscribed = FALSE,
                          !.termconf = TRUE]
     IN IF s.terminated
        THEN IF s.termwait
             THEN Deref([s EXCEPT !.termwait = FALSE, !.tmr = "off"])
             ELSE Set(s)
        ELSE \/ sipsub_terminate([s EXCEPT !.termwait = FALSE])
             \/ app' = FALSE /\ sub' \in mem_deref(s) /\ UNCHANGED closed
  /\ UNCHANGED ans

----------------------------------------------------------------------------
(* Timers *)

(* tmr_handler *)
Refresh ==
  /\ sub.tmr = "refresh"
  /\ LET s == [sub EXCEPT !.tmr = "off"]
     IN IF s.req # "none" \/ s.terminated THEN Set(s)
        ELSE Set(Sent(s, TRUE)) \/ Failure(Unsent(s, TRUE))
  /\ UNCHANGED <<ans, peer>>

(* Mutant: the application is not told. *)
NotifyTimeout_Silent ==
  /\ sub.tmr = "notify"
  /\ LET s == [sub EXCEPT !.tmr = "off", !.termwait = FALSE]
     IN IF s.terminated THEN Deref(s)
        ELSE sub' \in terminate(s) /\ UNCHANGED <<app, closed>>
  /\ UNCHANGED <<ans, peer>>

(* notify_timeout_handler *)
NotifyTimeout ==
  /\ sub.tmr = "notify"
  /\ LET s == [sub EXCEPT !.tmr = "off", !.termwait = FALSE]
     IN IF s.terminated THEN Deref(s) ELSE sipsub_terminate(s)
  /\ UNCHANGED <<ans, peer>>

----------------------------------------------------------------------------
(* The notifier *)

(* It answers, and takes or ends the subscription. *)
PeerAnswers ==
  /\ sub.req # "none" /\ ans = "none"
  /\ \/ /\ ans' \in {"2xx", "err"}     \* err: accepted, but the answer is lost
        /\ \/ sub.req \in {"REFER", "SUBSCRIBE"} /\ peer \in {"none", "active"}
              /\ peer' = "active"
           \/ sub.req = "fetch" /\ peer = "none" /\ peer' = "final"
           \/ sub.req = "unsubscribe" /\ peer = "active" /\ peer' = "final"
     \/ ans' \in {"401", "423", "refused", "err"} /\ UNCHANGED peer
     \/ peer \in {"final", "gone"} /\ ans' = "481" /\ UNCHANGED peer
  /\ UNCHANGED <<sub, app, closed>>

(* The subscription runs out there, or the last NOTIFY is lost. *)
PeerForgets ==
  /\ peer \in {"active", "final"} /\ peer' = "gone"
  /\ UNCHANGED <<sub, ans, app, closed>>

----------------------------------------------------------------------------
Init ==
  /\ \E by \in {"REFER", "SUBSCRIBE"}, expires \in BOOLEAN :
       /\ by = "REFER" => expires
       /\ sub = Subscribe(by, expires)
  /\ ans = "none" /\ peer = "none"
  /\ app = TRUE /\ closed = 0

Next ==
  \/ Release \/ Response \/ NotifyTerminated \/ Refresh \/ NotifyTimeout
  \/ PeerAnswers \/ PeerForgets
  \/ \E g \in Granted \cup {0} : NotifyActive(g)

Spec == Init /\ [][Next]_vars

(* Requests are answered or time out, answers arrive, timers fire. *)
Fairness ==
  /\ WF_vars(PeerAnswers) /\ WF_vars(Response)
  /\ WF_vars(Refresh) /\ WF_vars(NotifyTimeout)

----------------------------------------------------------------------------
(* struct sipsub is well formed; the count of references never passes two. *)
TypeOK ==
  /\ sub \in Subscription
  /\ ans \in Answer \cup {"none"}
  /\ peer \in {"none", "active", "final", "gone"}
  /\ app \in BOOLEAN /\ closed \in 0 .. 1

(* The references are exactly the application's and, once the subscription *)
(* is given up, the object's own while an answer or the last NOTIFY is     *)
(* awaited: it is freed neither too early nor never.  Only an answer that  *)
(* is ignored after the end leaves the object its reference for good       *)
(* (subscribe.c:202).                                                      *)
RefsExact ==
  /\ TypeOK
  /\ sub.refs = Cardinality({x \in {"app"} : app})
           + Cardinality({x \in {"own"} : sub.terminated
                                           /\ \/ sub.req # "none" \/ sub.termwait
                                              \/ sub.ignored})

(* A subscription by SUBSCRIBE that is in force has a request under way or *)
(* a timer for the next one, whatever NOTIFYs and answers cross.  It stops *)
(* when the answer to a request of its own is one of another dialog, which *)
(* is ignored, and no NOTIFY has started the timer (subscribe.c:202).      *)
KeepsGoing ==
  sub.subscribed /\ ~sub.terminated /\ sub.by = "SUBSCRIBE" =>
    sub.req # "none" \/ sub.tmr # "off" \/ sub.ignored

(* The refresh is due before the interval that was granted last is over,   *)
(* also when the multiplication of the interval overflows.                 *)
RefreshInTime ==
  sub.tmr = "refresh" /\ sub.granted # 0 => sub.wait < sub.granted * 1000

(* An application that still holds a subscription that has ended was told  *)
(* so, once.                                                               *)
ToldOfEnd == app => (sub.terminated <=> closed = 1)

(* A subscription that is gone here is not left at the notifier, unless a  *)
(* request failed on the way.                                              *)
LeavesNothing == sub.refs = 0 /\ ~sub.broken => peer # "active"

(* A subscription that the application has released is freed, unless the   *)
(* last answer it waits for is ignored as one of another dialog.           *)
FreedAtLast == ~app ~> (sub.refs = 0 \/ (sub.terminated /\ sub.ignored))

(* A subscription is held by exactly those that need it, keeps going in    *)
(* time, and its end is told to the application or to the notifier         *)
(* (subscribe.c).                                                          *)
SubSafe == RefsExact /\ KeepsGoing /\ RefreshInTime /\ ToldOfEnd /\ LeavesNothing
=============================================================================
