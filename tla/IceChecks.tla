----------------------------- MODULE IceChecks -----------------------------
(***************************************************************************)
(* The connectivity checks of one media stream: ice/connchk.c, chklist.c,  *)
(* candpair.c, stunsrv.c and comp.c.  A pair of candidates is checked by a *)
(* STUN transaction, the next one when its transaction ends; requests of   *)
(* the peer start checks of their own (triggered checks), and the          *)
(* controlling side says which pair to use (USE-CANDIDATE).                *)
(*                                                                         *)
(* A component has a local candidate "h" and a remote one "r"; the peer    *)
(* reflexive ones, "x" and "p", are learnt from answers and requests.  A   *)
(* handler is a composition of functions on the record ice.  fail is TRUE  *)
(* when a request cannot be sent.                                          *)
(***************************************************************************)
EXTENDS Naturals, FiniteSets

CONSTANTS
  Component,   \* {1} or {1, 2}: RTP and RTCP
  Cp,          \* pair objects (struct candpair)
  Nomination,  \* subset of {"regular", "aggressive"}
  MaxReq       \* bound on the requests of the peer

ASSUME IceAssumption ==
  Component \subseteq {1, 2} /\ MaxReq \in Nat /\ "nil" \notin Cp

NoCp == "nil"

VARIABLES
  ice,         \* struct icem, its pairs and its components
  nom,         \* ice->conf.nom
  reqs,        \* requests of the peer so far
  sendfail     \* history: a request could not be sent

iceVars == <<ice, nom, reqs, sendfail>>

NoPair == [list |-> "none", comp |-> 0, l |-> "h", r |-> "r",
           state |-> "frozen", ct |-> FALSE]

IceInit ==
  /\ ice = [state |-> "null", tmr |-> FALSE, role |-> "controlled",
            cp |-> [o \in Cp |-> NoPair], sel |-> [c \in Component |-> NoCp],
            concluded |-> [c \in Component |-> FALSE],
            ka |-> [c \in Component |-> FALSE], told |-> "no"]
  /\ nom \in Nomination /\ reqs = 0 /\ sendfail = FALSE

CheckL(s) == {o \in Cp : s.cp[o].list = "check"}
ValidL(s) == {o \in Cp : s.cp[o].list = "valid"}
Free(s) == {o \in Cp : s.cp[o].list = "none"}
InState(s, list, st) == {o \in list : s.cp[o].state = st}
OfComp(s, list, c) == {o \in list : s.cp[o].comp = c}

(* ice_calc_pair_prio: the first component and known candidates are first. *)
Pprio(p) == (IF p.comp = 1 THEN 4 ELSE 0) + (IF p.r = "r" THEN 2 ELSE 0)
            + (IF p.l = "h" THEN 1 ELSE 0)

(* The first of a list that is sorted by priority *)
FirstPair(s, set) == CHOOSE o \in set : \A q \in set : Pprio(s.cp[o]) >= Pprio(s.cp[q])

SetState(s, o, st) == [s EXCEPT !.cp[o].state = st]

----------------------------------------------------------------------------
(* icem_conncheck_send: a pair that has a transaction is EBUSY, and in     *)
(* progress all the same.                                                  *)
SendErr(s, o, fail) == fail \/ s.cp[o].ct
IceSend(s, o, fail) ==
  [s EXCEPT !.cp[o].state = "inprogress", !.cp[o].ct = @ \/ ~fail]

(* do_check *)
DoCheck(s, o, fail) ==
  IF SendErr(s, o, fail) THEN SetState(IceSend(s, o, fail), o, "failed")
  ELSE IceSend(s, o, fail)

(* Mutant: only the pairs in the Waiting state are scheduled. *)
ScheduleCheck_NoFrozen(s, fail) ==
  LET waiting == InState(s, CheckL(s), "waiting")
  IN IF waiting # {} THEN DoCheck(s, FirstPair(s, waiting), fail) ELSE s

(* icem_conncheck_schedule_check *)
ScheduleCheck(s, fail) ==
  LET waiting == InState(s, CheckL(s), "waiting")
      frozen == InState(s, CheckL(s), "frozen")
  IN IF waiting # {} THEN DoCheck(s, FirstPair(s, waiting), fail)
     ELSE IF frozen # {} THEN DoCheck(s, FirstPair(s, frozen), fail)
     ELSE [s EXCEPT !.state = "completed"]

(* concluding_ice, and icem_comp_keepalive for a component with a selected *)
(* pair                                                                    *)
Conclude(s, c, fail) ==
  LET best == InState(s, OfComp(s, ValidL(s), c), "succeeded")
      selected == [s EXCEPT !.sel[c] = FirstPair(s, best)]
      done == IF s.concluded[c] \/ best = {} THEN s
              ELSE [IF nom = "regular"
                    THEN ScheduleCheck(IceSend(selected, FirstPair(s, best), fail), fail)
                    ELSE selected EXCEPT !.concluded[c] = TRUE]
  IN IF done.sel[c] = NoCp THEN done ELSE [done EXCEPT !.ka[c] = TRUE]

(* iscompleted *)
IsCompleted(s) ==
  \A o \in CheckL(s) : s.cp[o].state \in {"failed", "succeeded"}

Missing(s) == {c \in Component : OfComp(s, ValidL(s), c) = {}}

(* The loop of icem_checklist_update stops at a component without a pair.  *)
Concludes(s, c, fail) ==
  IF c \in Component /\ \A d \in Component : d <= c => d \notin Missing(s)
  THEN Conclude(s, c, fail) ELSE s

(* Mutant: the missing component is only looked for at the end. *)
Update_Any(s, fail) ==
  IF ~IsCompleted(s) THEN s
  ELSE [Concludes(Concludes(s, 1, fail), 2, fail) EXCEPT
          !.state = IF Missing(s) = Component THEN "failed" ELSE "completed",
          !.told = IF Missing(s) = Component THEN "fail" ELSE "ok"]

(* icem_checklist_update, with the call of chkh *)
Update(s, fail) ==
  IF ~IsCompleted(s) THEN s
  ELSE [Concludes(Concludes(s, 1, fail), 2, fail) EXCEPT
          !.state = IF Missing(s) # {} THEN "failed" ELSE "completed",
          !.told = IF Missing(s) # {} THEN "fail" ELSE "ok"]

(* pace_next *)
PaceNext(s, fail) ==
  IF s.state # "running" THEN s ELSE Update(ScheduleCheck(s, fail), fail)

(* icem_conncheck_stop *)
Stop(s, fail) ==
  Update([s EXCEPT !.state = "completed", !.tmr = FALSE,
     !.cp = [o \in Cp |->
       IF o \notin CheckL(s) THEN s.cp[o]
       ELSE [s.cp[o] EXCEPT !.ct = FALSE,
               !.state = IF @ = "succeeded" THEN @ ELSE "failed"]]], fail)

(* icem_candpair_make_valid *)
MakeValid(s, o) ==
  [s EXCEPT !.cp[o].state = "succeeded", !.cp[o].list = "valid"]

(* icem_candpair_alloc and icem_candpair_clone *)
Alloc(s, o, list, c, l, r, st) ==
  [s EXCEPT !.cp[o] = [list |-> list, comp |-> c, l |-> l, r |-> r,
                       state |-> st, ct |-> FALSE]]

(* construct_valid_pair: the pair itself, one that is valid already, or a  *)
(* clone with the mapped address, for which the pair gives way.            *)
ValidPair(s, o, mapped) ==
  LET p == s.cp[o]
      same == {q \in OfComp(s, ValidL(s), p.comp) :
                 s.cp[q].l = mapped /\ s.cp[q].r = p.r}
      n == CHOOSE q \in Free(s) : TRUE
  IN IF mapped = p.l THEN [s |-> MakeValid(s, o), o |-> o]
     ELSE IF same # {} THEN [s |-> s, o |-> FirstPair(s, same)]
     ELSE [s |-> SetState(Alloc(s, n, "valid", p.comp, mapped, p.r,
                                "succeeded"), o, "failed"), o |-> n]

(* handle_success: the first pair that works is selected, and all other    *)
(* checks of the stream are stopped.                                       *)
HandleSuccess(s, o, mapped, fail) ==
  LET v == ValidPair(s, o, mapped)
  IN Stop([MakeValid(v.s, v.o) EXCEPT !.sel[s.cp[o].comp] = v.o], fail)

(* ice_switch_local_role *)
Switched(s) == [s EXCEPT !.role = IF @ = "controlling" THEN "controlled"
                                  ELSE "controlling"]

----------------------------------------------------------------------------
(* icem_conncheck_start and icem_checklist_form: of the pairs with the     *)
(* same foundation one waits, unless this is not the first stream.         *)
ConncheckStart(first) ==
  /\ ice.state = "null"
  /\ \E role \in {"controlling", "controlled"} :
       LET obj == CHOOSE f \in [Component -> Cp] :
                    \A c, d \in Component : c # d => f[c] # f[d]
           pair(c) == [NoPair EXCEPT !.list = "check", !.comp = c, !.state =
                         IF first /\ \A d \in Component : c <= d THEN "waiting"
                         ELSE "frozen"]
       IN ice' = [ice EXCEPT !.state = "running", !.tmr = TRUE, !.role = role,
            !.cp = [o \in Cp |->
              IF \E c \in Component : obj[c] = o
              THEN pair(CHOOSE c \in Component : obj[c] = o) ELSE NoPair]]
  /\ UNCHANGED <<nom, reqs, sendfail>>

Step(s, fail) == ice' = s /\ sendfail' = (sendfail \/ fail) /\ UNCHANGED nom

(* timeout of the pacing timer *)
PaceTimeout(fail) ==
  /\ ice.tmr
  /\ Step(PaceNext([ice EXCEPT !.tmr = FALSE], fail), fail)
  /\ UNCHANGED reqs

(* stunc_resp_handler: the transaction of a pair has ended. *)
ConncheckResponse(o, how, fail) ==
  /\ ice.cp[o].ct
  /\ how \in {"h", "x"} \ {ice.cp[o].l} => Free(ice) # {}
  /\ LET s == [ice EXCEPT !.cp[o].ct = FALSE]
         handled == CASE how \in {"h", "x"} -> HandleSuccess(s, o, how, fail)
                      [] how = "conflict" -> IceSend(Switched(s), o, fail)
                      [] OTHER -> SetState(s, o, "failed")
     IN Step(PaceNext(handled, fail), fail)
  /\ UNCHANGED reqs

(* triggered_check *)
Triggered(s, c, l, r, fail) ==
  LET same == {o \in OfComp(s, CheckL(s), c) : s.cp[o].l = l /\ s.cp[o].r = r}
      n == CHOOSE q \in Free(s) : TRUE
  IN IF l = "nil" THEN s
     ELSE IF same = {} THEN IceSend(Alloc(s, n, "check", c, l, r, "waiting"), n, fail)
     ELSE IF s.cp[FirstPair(s, same)].state \in {"failed", "frozen", "waiting"}
     THEN IceSend(s, FirstPair(s, same), fail)
     ELSE s

(* lookup_candpair *)
Lookup(s, c, r) ==
  LET in(list) == {o \in OfComp(s, list, c) : s.cp[o].r = r}
  IN IF in(CheckL(s)) # {} THEN FirstPair(s, in(CheckL(s)))
     ELSE IF in(ValidL(s)) # {} THEN FirstPair(s, in(ValidL(s))) ELSE NoCp

(* lookup_lcand *)
LookupLcand(s, c) ==
  IF \E o \in OfComp(s, CheckL(s), c) : s.cp[o].l = "h" THEN "h" ELSE "nil"

(* handle_stun: use is USE-CANDIDATE. *)
HandleStun(s, c, r, use, fail) ==
  LET found == Lookup(s, c, r)
      l == IF found # NoCp THEN s.cp[found].l ELSE LookupLcand(s, c)
      s1 == Triggered(s, c, l, r, fail)
      o == IF found # NoCp THEN found ELSE Lookup(s1, c, r)
      s2 == MakeValid(s1, o)
  IN IF ~use \/ o = NoCp THEN s1
     ELSE IF nom = "regular"
     THEN [s2 EXCEPT !.cp[o].ct = FALSE, !.sel[c] = o] ELSE s2

(* icem_stund_recv, a good request; with a conflict of roles one side      *)
(* changes its own, here or (487) at the peer.                             *)
PeerRequest(c, r, use, conflict, fail) ==
  /\ ice.state # "null" /\ reqs < MaxReq /\ Free(ice) # {}
  /\ LET s == IF conflict THEN Switched(ice) ELSE ice
     IN /\ use => s.role = "controlled"
        /\ Step(IF s.state = "running" THEN HandleStun(s, c, r, use, fail)
                ELSE s, fail)
  /\ reqs' = reqs + 1

IceNext ==
  \/ \E first \in BOOLEAN : ConncheckStart(first)
  \/ \E fail \in BOOLEAN :
       \/ PaceTimeout(fail)
       \/ \E o \in Cp, how \in {"h", "x", "conflict", "error"} :
            ConncheckResponse(o, how, fail)
       \/ \E c \in Component, r \in {"r", "p"}, use, conflict \in BOOLEAN :
            PeerRequest(c, r, use, conflict, fail)

IceSpec == IceInit /\ [][IceNext]_iceVars

----------------------------------------------------------------------------
PairRec == [list : {"none", "check", "valid"}, comp : {0} \cup Component,
            l : {"h", "x"}, r : {"r", "p"}, ct : BOOLEAN, state :
            {"frozen", "waiting", "inprogress", "succeeded", "failed"}]

IceTypeOK ==
  /\ ice \in [state : {"null", "running", "completed", "failed"},
       tmr : BOOLEAN, role : {"controlling", "controlled"},
       cp : [Cp -> PairRec], sel : [Component -> Cp \cup {NoCp}],
       concluded : [Component -> BOOLEAN], ka : [Component -> BOOLEAN],
       told : {"no", "ok", "fail"}]
  /\ nom \in Nomination /\ reqs \in 0 .. MaxReq /\ sendfail \in BOOLEAN

(* What media is sent on: a selected pair is a valid one of its component, *)
(* it is kept alive once the checks are over, and the user is only told of *)
(* success when every component has a valid pair and no check is pending.  *)
SelectedValid ==
  /\ IceTypeOK
  /\ \A c \in Component :
       /\ ice.sel[c] # NoCp => ice.cp[ice.sel[c]].list = "valid"
                               /\ ice.cp[ice.sel[c]].comp = c
       /\ ice.concluded[c] => ice.sel[c] # NoCp /\ ice.ka[c]
  /\ ice.told = "ok" => \A c \in Component : OfComp(ice, ValidL(ice), c) # {}

(* A running check list waits for its timer or for an answer, so that it   *)
(* goes on: with aggressive nomination, while requests can be sent.        *)
RunningWatched ==
  ice.state = "running" /\ nom = "aggressive" /\ ~sendfail =>
    ice.tmr \/ \E o \in Cp : ice.cp[o].ct

(* When all checks are over and a component has no valid pair, the check   *)
(* list is in the Failed state (chklist.c icem_checklist_update).          *)
ChecklistFailed ==
  /\ ice.state \in {"completed", "failed"}
  /\ IsCompleted(ice) /\ \A o \in Cp : ~ice.cp[o].ct
  /\ Missing(ice) # {}
  => ice.state = "failed"
=============================================================================
