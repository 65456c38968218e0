------------------------------ MODULE Presence ------------------------------
(***************************************************************************)
(* The presence module (modules/presence): subscriber.c asks for the       *)
(* status of contacts, notifier.c tells peers our own.                     *)
(*                                                                         *)
(* Below it are subscriptions and notifiers of sipevent (SipSub, SipNot):  *)
(* a subscription brings NOTIFYs until its close handler is called, once.  *)
(* Beside it is the list of user agents; a notifier keeps a reference to   *)
(* the user agent it speaks for.                                           *)
(***************************************************************************)
EXTENDS Naturals, FiniteSets

CONSTANTS
  Contact,      \* contacts with ;presence=p2p
  Watcher,      \* peers that subscribe to our status
  PresUa,       \* user agents
  MaxChanges,   \* changes of our own status
  RetryAfter    \* values of Retry-After, in seconds

ASSUME PresAssumption ==
  /\ IsFiniteSet(Watcher) /\ "none" \notin PresUa
  /\ MaxChanges \in Nat /\ RetryAfter \subseteq Nat

VARIABLES
  pmod,         \* the module: "off", "on", "closed"
  pres,         \* struct presence, by contact, with the contact's status
  mine,         \* my_status
  changed,
  notl,         \* notifierl: struct notifier, by watcher
  evrefs,       \* references to evsock
  uarefs        \* references to each user agent; one is the list's

presVars == <<pmod, pres, mine, changed, notl, evrefs, uarefs>>

Status == {"UNKNOWN", "OPEN", "CLOSED", "BUSY"}

(* tmr is the time it was started with; heard is history: what the         *)
(* subscription that lives brought last.                                   *)
NoPres == [sub |-> FALSE, tmr |-> 0, failc |-> 0, status |-> "UNKNOWN",
           heard |-> "UNKNOWN"]

NoNotifier == [ua |-> "none", told |-> "UNKNOWN"]

Listed == {u \in PresUa : uarefs[u] > 0}

----------------------------------------------------------------------------
(* Subscriber *)

wait_term(reason, retry) ==
  CASE reason \in {"deactivated", "timeout"} -> 5
    [] reason \in {"rejected", "noresource"} -> 3600
    [] OTHER -> IF retry > 300 THEN retry ELSE 300

wait_fail(failc) ==
  CASE failc = 1 -> 30 [] failc = 2 -> 300 [] failc = 3 -> 3600 [] OTHER -> 86400

(* failc is capped where wait_fail no longer tells it apart. *)
OneMore(n) == IF n < 4 THEN n + 1 ELSE n

Fail(p) ==
  [p EXCEPT !.failc = OneMore(@), !.tmr = wait_fail(OneMore(p.failc))]

(* presence_alloc, for each contact; notifier_init *)
PresenceInit ==
  /\ pmod = "off" /\ pmod' = "on"
  /\ pres' = [c \in Contact |-> [NoPres EXCEPT !.tmr = 1]]
  /\ evrefs' = 1
  /\ UNCHANGED <<mine, changed, notl, uarefs>>

(* tmr_handler and subscribe: there may be no user agent, and the request  *)
(* may fail at once.                                                       *)
PresTimer(c) ==
  /\ pmod = "on" /\ pres[c].tmr # 0
  /\ LET p == [pres[c] EXCEPT !.tmr = 0] IN
     \/ /\ Listed # {}
        /\ pres' = [pres EXCEPT ![c] = [p EXCEPT !.sub = TRUE]]
     \/ pres' = [pres EXCEPT ![c] = Fail(p)]
  /\ UNCHANGED <<pmod, mine, changed, notl, evrefs, uarefs>>

(* What a body of the right type says *)
NotifyStatus == {"OPEN", "CLOSED", "BUSY"}

(* notify_handler *)
PresNotify(c) ==
  /\ pmod = "on" /\ pres[c].sub
  /\ LET p == [pres[c] EXCEPT !.failc = 0] IN
     \/ pres' = [pres EXCEPT ![c] = p]       \* 415
     \/ \E st \in NotifyStatus :
          pres' = [pres EXCEPT ![c] = [p EXCEPT !.status = st, !.heard = st]]
  /\ UNCHANGED <<pmod, mine, changed, notl, evrefs, uarefs>>

(* Mutant: the status outlives the subscription that brought it. *)
CloseSub_KeepsStatus(p) == [p EXCEPT !.sub = FALSE, !.heard = "UNKNOWN"]

CloseSub(p) == [p EXCEPT !.sub = FALSE, !.heard = "UNKNOWN", !.status = "UNKNOWN"]

(* close_handler: the subscription was ended with a reason, refused, or    *)
(* failed.                                                                 *)
PresClose(c) ==
  /\ pmod = "on" /\ pres[c].sub
  /\ LET p == CloseSub(pres[c]) IN
     \/ \E reason \in {"deactivated", "rejected", "giveup"}, retry \in RetryAfter :
          pres' = [pres EXCEPT ![c] = [p EXCEPT !.tmr = wait_term(reason, retry)]]
     \/ pres' = [pres EXCEPT ![c] = Fail(p)]
  /\ UNCHANGED <<pmod, mine, changed, notl, evrefs, uarefs>>

----------------------------------------------------------------------------
(* Notifier *)

Notifying == {w \in Watcher : notl[w].ua # "none"}

(* sub_handler, notifier_add and notifier_alloc: a SUBSCRIBE to one of our *)
(* user agents; sipevent_accept may fail, and the notifier goes again.     *)
SubHandler(w) ==
  /\ pmod = "on" /\ notl[w].ua = "none"
  /\ \E u \in Listed :
       /\ notl' = [notl EXCEPT ![w] = [ua |-> u, told |-> mine]]
       /\ uarefs' = [uarefs EXCEPT ![u] = @ + 1]
  /\ evrefs' = evrefs + 1
  /\ UNCHANGED <<pmod, pres, mine, changed>>

(* Mutant: the user agent is not given back. *)
FreeNots_KeepsUa(W) ==
  /\ notl' = [w \in Watcher |-> IF w \in W THEN NoNotifier ELSE notl[w]]
  /\ uarefs' = uarefs

(* The destructor: the notifier leaves the list, the socket and the user   *)
(* agent.                                                                  *)
FreeNots(W) ==
  /\ notl' = [w \in Watcher |-> IF w \in W THEN NoNotifier ELSE notl[w]]
  /\ uarefs' = [u \in PresUa |-> uarefs[u] - Cardinality({w \in W : notl[w].ua = u})]

(* sipnot_close_handler *)
SipnotClose(w) ==
  /\ pmod = "on" /\ w \in Notifying
  /\ FreeNots({w})
  /\ evrefs' = evrefs - 1
  /\ UNCHANGED <<pmod, pres, mine, changed>>

(* notifier_update_status: all are told, whether or not one fails.         *)
(* sipevent_notify takes the body over before it sends.                    *)
UpdateStatus(status) ==
  /\ pmod = "on" /\ status # mine /\ changed < MaxChanges
  /\ mine' = status /\ changed' = changed + 1
  /\ notl' = [w \in Watcher |->
               IF w \in Notifying THEN [notl[w] EXCEPT !.told = status] ELSE notl[w]]
  /\ UNCHANGED <<pmod, pres, evrefs, uarefs>>

----------------------------------------------------------------------------
(* ua_stop_all: the module is closed, notifiers first, then the user       *)
(* agents lose the reference of the list.                                  *)
StopAll ==
  /\ pmod = "on" /\ pmod' = "closed"
  /\ notl' = [w \in Watcher |-> NoNotifier]
  /\ pres' = [c \in Contact |-> [NoPres EXCEPT !.status = pres[c].status]]
  /\ evrefs' = evrefs - Cardinality(Notifying) - 1
  /\ uarefs' = [u \in PresUa |->
                 uarefs[u] - Cardinality({w \in Notifying : notl[w].ua = u}) - 1]
  /\ UNCHANGED <<mine, changed>>

PresInit ==
  /\ pmod = "off" /\ pres = [c \in Contact |-> NoPres]
  /\ mine = "OPEN" /\ changed = 0
  /\ notl = [w \in Watcher |-> NoNotifier]
  /\ evrefs = 0
  /\ uarefs = [u \in PresUa |-> 1]

PresNext ==
  \/ PresenceInit \/ StopAll
  \/ \E c \in Contact : PresTimer(c) \/ PresNotify(c) \/ PresClose(c)
  \/ \E w \in Watcher : SubHandler(w) \/ SipnotClose(w)
  \/ \E st \in {"OPEN", "CLOSED"} : UpdateStatus(st)

PresSpec == PresInit /\ [][PresNext]_presVars

----------------------------------------------------------------------------
(* Every contact is either subscribed to or waits for another attempt,     *)
(* never both and never neither; what is shown of it was brought by the    *)
(* subscription that lives, and nothing is shown without one.              *)
ContactsWatched ==
  pmod = "on" =>
    \A c \in Contact :
      LET p == pres[c] IN
      /\ p.sub <=> p.tmr = 0
      /\ p.status = p.heard

(* Every peer that watches us was handed our present status, and the user  *)
(* agents and the socket are kept by exactly those that use them, so that  *)
(* nothing is left of them when all have been stopped.                     *)
WatchersServed ==
  /\ \A w \in Notifying : notl[w].told = mine /\ uarefs[notl[w].ua] > 0
  /\ evrefs = Cardinality(Notifying) + (IF pmod = "on" THEN 1 ELSE 0)
  /\ \A u \in PresUa :
       uarefs[u] = Cardinality({w \in Notifying : notl[w].ua = u})
                   + (IF pmod = "closed" THEN 0 ELSE 1)

(* Presence: subscriber.c and notifier.c keep both. *)
PresenceSound == ContactsWatched /\ WatchersServed
=============================================================================
