------------------------------ MODULE MediaNat ------------------------------
(***************************************************************************)
(* The NAT traversal session of a call: the modules stun, turn and ice of  *)
(* baresip, and the gathering of candidates in ice/gather.c.  A session    *)
(* has the media of a call, each with an RTP and an RTCP component; when   *)
(* the last of them has its addresses the call is told (estabh) and sends  *)
(* its INVITE, and when one fails the call is closed, which frees the      *)
(* session and all below it, in the middle of the handlers that called.    *)
(***************************************************************************)
EXTENDS Integers, FiniteSets, SequencesExt

CONSTANTS
  Media,       \* media of the call
  Modes        \* subset of {"stun", "turn", "ice"}

(* A call has its audio stream at least. *)
ASSUME MediaAssumption == IsFiniteSet(Media) /\ Media # {}

Comps == {1, 2}

VARIABLES
  mode,        \* the module
  mn,          \* struct mnat_sess; early: a medium was counted again while
               \* another one had no addresses
  mm,          \* struct mnat_media, with its struct icem
  estabs,      \* how often the call was told of success: 0, 1 or 2 (more)
  uaf          \* an object was written to after it was freed

mnatVars == <<mode, mn, mm, estabs, uaf>>

(* A component waits for a TURN or a STUN server, or has what it will get. *)
NoMedia == [st |-> "none", comp |-> [c \in Comps |-> "idle"], nstun |-> 0,
            gh |-> TRUE, ok |-> FALSE, complete |-> FALSE]

MnatInit ==
  /\ mode \in Modes
  /\ mn = [st |-> "none", srv |-> FALSE, dq |-> "none", mediac |-> 0,
           started |-> FALSE, reinvite |-> FALSE, early |-> FALSE]
  /\ mm = [m \in Media |-> NoMedia] /\ estabs = 0 /\ uaf = FALSE

SessLive == mn.st = "live"
MediaLive == {m \in Media : mm[m].st = "live"}
Waiting(m) == \E c \in Comps : mm[m].comp[c] \in {"turn", "stun"}
Server == IF mode = "stun" THEN "stun" ELSE "turn"

(* call.c mnat_handler with an error: the call is closed and freed, and    *)
(* with it the session and the media.                                      *)
Closed ==
  /\ mn' = [mn EXCEPT !.st = "freed"]
  /\ mm' = [m \in Media |-> [NoMedia EXCEPT !.st = "freed"]]
  /\ UNCHANGED estabs

(* mnat_handler without one *)
Estab == estabs' = IF estabs < 2 THEN estabs + 1 ELSE 2

(* --mediac: one more is counted, and the one that makes it zero tells.    *)
(* Below -1 the count says nothing, and is not followed.                   *)
Down(n) == IF n > -1 THEN n - 1 ELSE n
CountDown(rec) ==
  /\ mn' = [rec EXCEPT !.mediac = Down(@)]
  /\ IF rec.mediac = 1 THEN Estab ELSE UNCHANGED estabs

(* media_start: in ice with a TURN server or, if there is none, a STUN     *)
(* server.                                                                 *)
Started(rec, by) ==
  [rec EXCEPT !.comp = [c \in Comps |-> by],
              !.nstun = IF mode = "ice" THEN Cardinality(Comps) ELSE 0]

StartedBy == IF mode = "ice" THEN {"turn", "stun"} ELSE {Server}

----------------------------------------------------------------------------
(* stun_server_discover: a numeric address is resolved at once, a name     *)
(* with a port by a query for its address, a name alone by one for its     *)
(* service.                                                                *)
Queries == {"none", "a", "srv"}

(* session_alloc *)
MnatSession(query) ==
  /\ mn.st = "none"
  /\ mn' = [mn EXCEPT !.st = "setup", !.dq = query, !.srv = query = "none"]
  /\ UNCHANGED <<mode, mm, estabs, uaf>>

(* media_alloc, while the call is made; with an error the call is not.     *)
MnatMedia(m) ==
  /\ mn.st = "setup" /\ mm[m].st = "none"
  /\ \/ /\ \E by \in StartedBy :
             mm' = [mm EXCEPT ![m] =
               IF mn.srv THEN Started([NoMedia EXCEPT !.st = "live"], by)
               ELSE [NoMedia EXCEPT !.st = "live"]]
        /\ mn' = [mn EXCEPT !.mediac = @ + 1] /\ UNCHANGED estabs
     \/ Closed
  /\ UNCHANGED <<mode, uaf>>

MnatReady ==
  /\ mn.st = "setup" /\ MediaLive = Media
  /\ mn' = [mn EXCEPT !.st = "live"]
  /\ UNCHANGED <<mode, mm, estabs, uaf>>

(* dns_handler: all media are started, or an error closes the call. *)
MnatResolved ==
  \/ /\ mn' = [mn EXCEPT !.srv = TRUE, !.dq = "none"]
     /\ \E by \in StartedBy : mm' = [m \in Media |-> Started(mm[m], by)]
     /\ UNCHANGED estabs
  \/ Closed

(* srv_handler of dnsdisc.c: without a service in the answer the domain    *)
(* itself is asked for, and without its address, the server's name.        *)
SrvAnswer ==
  /\ SessLive /\ mn.dq = "srv"
  /\ \/ MnatResolved
     \/ mn' = [mn EXCEPT !.dq = "a"] /\ UNCHANGED <<mm, estabs>>
  /\ UNCHANGED <<mode, uaf>>

(* a_handler and aaaa_handler *)
AddrAnswer ==
  /\ SessLive /\ mn.dq = "a" /\ MnatResolved /\ UNCHANGED <<mode, uaf>>

----------------------------------------------------------------------------
(* Mutant: the first component that has its address counts for both. *)
MediaReady_First(m, c) == TRUE

(* The other component has its address, too. *)
MediaReady(m, c) == \A d \in Comps \ {c} : mm[m].comp[d] = "ok"

(* stun.c mapped_handler1 and 2, turn.c turn_handler1 and 2.  An error     *)
(* response of a STUN server is told to nobody, and asked again in the     *)
(* next interval.                                                          *)
Mapped(m, c) ==
  /\ mode \in {"stun", "turn"} /\ SessLive
  /\ mm[m].comp[c] = Server
  /\ \/ /\ mm' = [mm EXCEPT ![m].comp[c] = "ok", ![m].ok = MediaReady(m, c)]
        /\ IF MediaReady(m, c) THEN CountDown(mn) ELSE UNCHANGED <<mn, estabs>>
     \/ Closed
  /\ UNCHANGED <<mode, uaf>>

(* The keepalive of a component tells another mapping, or the same again   *)
(* after an error response (stun), and the medium is counted once more,    *)
(* whether or not another one waits for its first; or the keepalive, or    *)
(* the refresh of an allocation (turn), fails.                             *)
Remapped(m, c) ==
  /\ mode \in {"stun", "turn"} /\ SessLive /\ mm[m].comp[c] = "ok"
  /\ \/ /\ mode = "stun" /\ MediaReady(m, c) /\ UNCHANGED mm
        /\ CountDown([mn EXCEPT !.early = @ \/ \E x \in Media : ~mm[x].ok])
     \/ Closed
  /\ UNCHANGED <<mode, uaf>>

----------------------------------------------------------------------------
(* Mutant: the handler is called by the first component that is done. *)
Pending_Never(nstun) == FALSE

(* No more pending requests? *)
Pending(nstun) == nstun # 0

(* call_gather_handler, gather_handler of ice.c, and the write to icem     *)
(* after it.  The failure of a component is forgotten while another one is *)
(* pending.                                                                *)
CallGather(m, rec, failed) ==
  IF Pending(rec.nstun) \/ ~rec.gh
  THEN mm' = [mm EXCEPT ![m] = rec] /\ UNCHANGED <<mn, estabs, uaf>>
  ELSE IF failed THEN Closed /\ uaf' = TRUE
  ELSE /\ mm' = [mm EXCEPT ![m] = [rec EXCEPT !.gh = FALSE, !.ok = TRUE]]
       /\ CountDown(mn) /\ UNCHANGED uaf

(* stun_resp_handler of gather.c *)
GatherStun(m, c, failed) ==
  /\ mode = "ice" /\ SessLive /\ mm[m].comp[c] = "stun"
  /\ CallGather(m, [mm[m] EXCEPT !.nstun = @ - 1, !.comp[c] = "ok"], failed)
  /\ UNCHANGED mode

(* turnc_handler for an Allocate: with an error response, or without a     *)
(* mapped address in a good one, the STUN server is asked.                 *)
GatherTurn(m, c) ==
  /\ mode = "ice" /\ SessLive /\ mm[m].comp[c] = "turn"
  /\ LET done == [mm[m] EXCEPT !.nstun = @ - 1, !.comp[c] = "ok"]
         ask == [mm[m] EXCEPT !.comp[c] = "stun"]
     IN \/ CallGather(m, done, FALSE)
        \/ CallGather(m, done, TRUE)
        \/ mm' = [mm EXCEPT ![m] = ask] /\ UNCHANGED <<mn, estabs, uaf>>
  /\ UNCHANGED mode

(* turnc_handler for what failed later: a refresh, after 45 seconds, when  *)
(* no request of this gathering can be pending any more.                   *)
RelayLost(m, c) ==
  /\ mode = "ice" /\ SessLive /\ mm[m].comp[c] = "ok" /\ ~mm[m].gh
  /\ mm[m].nstun > -2
  /\ mm' = [mm EXCEPT ![m].nstun = @ - 1]
  /\ UNCHANGED <<mode, mn, estabs, uaf>>

----------------------------------------------------------------------------
(* update and ice_start, when the peer's description is there *)
IceStart ==
  /\ mode = "ice" /\ SessLive /\ estabs > 0 /\ ~mn.started
  /\ mn' = [mn EXCEPT !.started = TRUE]
  /\ \E on \in SUBSET Media :
       mm' = [m \in Media |-> [mm[m] EXCEPT !.complete = m \notin on]]
  /\ UNCHANGED <<mode, estabs, uaf>>

(* conncheck_handler; update says that this side is controlling. *)
ConncheckDone(m, failed, changed, update) ==
  /\ mode = "ice" /\ SessLive /\ mn.started
  /\ mm' = [mm EXCEPT ![m].complete = @ \/ ~failed]
  /\ LET reinvite == mn.reinvite \/ (~failed /\ changed)
         all == failed \/ \A x \in Media \ {m} : mm[x].complete
     IN IF all /\ reinvite /\ update
        THEN Estab /\ mn' = [mn EXCEPT !.reinvite = FALSE]
        ELSE UNCHANGED estabs /\ mn' = [mn EXCEPT !.reinvite = reinvite]
  /\ UNCHANGED <<mode, uaf>>

(* session_destructor, when the call ends *)
MnatFree ==
  /\ SessLive /\ Closed /\ UNCHANGED <<mode, uaf>>

Answers ==
  \E m \in Media, c \in Comps :
    Mapped(m, c) \/ GatherTurn(m, c) \/ \E f \in BOOLEAN : GatherStun(m, c, f)

MnatNext ==
  \/ \E query \in Queries : MnatSession(query)
  \/ \E m \in Media : MnatMedia(m)
  \/ MnatReady \/ SrvAnswer \/ AddrAnswer \/ MnatFree \/ Answers \/ IceStart
  \/ \E m \in Media, c \in Comps : Remapped(m, c) \/ RelayLost(m, c)
  \/ \E m \in Media, failed, changed, update \in BOOLEAN :
       ConncheckDone(m, failed, changed, update)

(* DNS queries and STUN transactions end. *)
MnatFairness == WF_mnatVars(SrvAnswer \/ AddrAnswer) /\ WF_mnatVars(Answers)

MnatSpec == MnatInit /\ [][MnatNext]_mnatVars /\ MnatFairness

----------------------------------------------------------------------------
MnatTypeOK ==
  /\ mode \in Modes /\ estabs \in 0 .. 2 /\ uaf \in BOOLEAN
  /\ mn \in [st : {"none", "setup", "live", "freed"}, srv : BOOLEAN,
             dq : Queries, mediac : -1 .. Cardinality(Media), started : BOOLEAN,
             reinvite : BOOLEAN, early : BOOLEAN]
  /\ mm \in [Media -> [st : {"none", "live", "freed"}, nstun : -2 .. 2,
             comp : [Comps -> {"idle", "turn", "stun", "ok"}],
             gh : BOOLEAN, ok : BOOLEAN, complete : BOOLEAN]]

(* The call is told of success when every component of every medium has    *)
(* its addresses, exactly once before the peer answers: an INVITE never    *)
(* goes out with the addresses of some streams missing, unless a medium    *)
(* was counted again while another one waited (stun.c, mapped_handler1).   *)
EstablishedComplete ==
  /\ MnatTypeOK
  /\ SessLive /\ estabs > 0 /\ ~mn.early =>
       \A m \in Media : mm[m].ok /\ ~Waiting(m) /\ mm[m].st = "live"
  /\ SessLive /\ (\A m \in Media : mm[m].ok) => estabs > 0
  /\ ~mn.started => estabs <= 1

(* What the count of media is for, and does not give: the INVITE never     *)
(* goes out with addresses missing.  A mapping that changes while another  *)
(* medium waits violates it (stun.c:74), so that it is not checked.        *)
CompleteAlways ==
  SessLive /\ estabs > 0 => \A m \in Media : mm[m].ok

(* The wait for the servers ends: the call goes on, or it is closed.  (A   *)
(* STUN server that answers with errors is asked for ever.)                *)
MnatEnds == []<>(~SessLive \/ estabs > 0 \/ mode = "stun")

(* An ICE media object is not touched after it was freed. *)
GatherHandlerSafe == ~uaf

----------------------------------------------------------------------------
(***************************************************************************)
(* What the ICE object of a medium owns: icem.c, cand.c, comp.c and        *)
(* icesdp.c of libre with the lists of candpair.c and chklist.c, and       *)
(* ice.c of baresip.  Candidates and pairs are counted references: a list, *)
(* a pair, a candidate (its base) and a component (its defaults and its    *)
(* selected pair) each hold one.  They are numbered as they are made, so   *)
(* that the order of a list of candidates is the order of numbers.  How    *)
(* the checks of a pair go is IceChecks.  An address is a name: that of an *)
(* interface, "m" (mapped), "l" (relayed), "x" (found by a check) or one   *)
(* of the peer's ("r1", "r2", "p"), with a port of its own for every local *)
(* component.                                                              *)
(***************************************************************************)
CONSTANTS
  Ifaces,      \* sequences of interface addresses that there may be
  Kinds,       \* media and sessions: records of IceMedia
  Offers,      \* descriptions of the peer: records of IceUpdate
  MaxOffers,   \* descriptions it sends
  MaxCand,     \* candidates that are made in all
  MaxPairs     \* pairs that are made in all

VARIABLE ic    \* struct icem, and its struct mnat_media

iceSetVars == <<ic>>

Cand == 1 .. MaxCand
CandPair == 1 .. MaxPairs
Nil == 0

NoCand == [side |-> "none", type |-> "host", comp |-> 0, prio |-> 0,
           addr |-> "nil", base |-> Nil, refs |-> 0]
NoCandPair == [list |-> "none", l |-> Nil, r |-> Nil, refs |-> 0]

IceSetInit ==
  ic = [st |-> "none", lite |-> FALSE, controlling |-> FALSE, comp |-> {},
        regular |-> FALSE, n |-> 0, cand |-> [o \in Cand |-> NoCand],
        np |-> 0, pair |-> [p \in CandPair |-> NoCandPair],
        defl |-> [c \in Comps |-> Nil], defr |-> [c \in Comps |-> Nil],
        sel |-> [c \in Comps |-> Nil], concluded |-> {}, turnc |-> {},
        gath |-> [c \in Comps |-> "idle"], gh |-> TRUE, mismatch |-> FALSE,
        list |-> "null", offers |-> 0, started |-> FALSE, lost |-> FALSE,
        laddr |-> [c \in Comps |-> "nil"], offered |-> {}]

OnSide(s, side, c) == {o \in Cand : s.cand[o].side = side /\ s.cand[o].comp = c}
Locals(s) == {o \in Cand : s.cand[o].side = "local"}

(* icem_cand_find: the first one *)
CandFind(s, side, c, addr) ==
  LET found == {o \in OnSide(s, side, c) : s.cand[o].addr = addr}
  IN IF found = {} THEN Nil ELSE Min(found)

----------------------------------------------------------------------------
(* mem_deref of a candidate: the last reference frees it, and with it goes *)
(* its reference to its base, unless it is its own.                        *)
Drop(s, o, Base(_, _)) ==
  IF o = Nil THEN s
  ELSE IF s.cand[o].refs # 1 THEN [s EXCEPT !.cand[o].refs = @ - 1]
  ELSE LET freed == [s EXCEPT !.cand[o] = NoCand]
       IN IF s.cand[o].base \in {Nil, o} THEN freed
          ELSE Base(freed, s.cand[o].base)

DropHost(s, o) == Drop(s, o, LAMBDA t, b : t)
DropReflexive(s, o) == Drop(s, o, DropHost)
DerefCand(s, o) == Drop(s, o, DropReflexive)

(* candpair_destructor *)
DerefPair(s, p) ==
  IF p = Nil THEN s
  ELSE IF s.pair[p].refs # 1 THEN [s EXCEPT !.pair[p].refs = @ - 1]
  ELSE DerefCand(DerefCand([s EXCEPT !.pair[p] = NoCandPair], s.pair[p].l),
                 s.pair[p].r)

RefCand(s, o) == [s EXCEPT !.cand[o].refs = @ + 1]

(* Mutant: a candidate does not count as a user of its base. *)
CandAdd_NoRef(s, rec) ==
  [s EXCEPT !.n = @ + 1, !.cand[s.n + 1] = rec]

(* cand_alloc, icem_rcand_add and icem_rcand_add_prflx *)
CandAdd(s, rec) ==
  LET made == [s EXCEPT !.n = @ + 1, !.cand[s.n + 1] = rec]
  IN IF rec.base \in {Nil, s.n + 1} THEN made ELSE RefCand(made, rec.base)

(* type_prio and ice_calc_prio *)
CandPrio(type, c) ==
  (CASE type = "host" -> 6 [] type = "prflx" -> 4 [] type = "srflx" -> 2
     [] OTHER -> 0) + (2 - c)

(* icem_lcand_add_base, icem_lcand_add *)
HostAdd(s, c, addr) ==
  IF c \notin s.comp THEN s
  ELSE CandAdd(s, [side |-> "local", type |-> "host", comp |-> c, addr |-> addr,
                   prio |-> CandPrio("host", c), base |-> s.n + 1, refs |-> 1])
LcandAdd(s, base, type, addr) ==
  LET c == s.cand[base].comp
  IN CandAdd(s, [side |-> "local", type |-> type, comp |-> c, addr |-> addr,
                 prio |-> CandPrio(type, c), base |-> base, refs |-> 1])
RcandAdd(s, type, c, prio, addr) ==
  CandAdd(s, [side |-> "remote", type |-> type, comp |-> c, addr |-> addr,
              prio |-> prio, base |-> Nil, refs |-> 1])

(* if_handler of ice.c *)
OnIface(s, addr) == HostAdd(HostAdd(s, 1, addr), 2, addr)

(* ice_list_unique with unique_handler of icem.c: of the candidates with   *)
(* one base and one address, the first of the best stays.                  *)
Redundant(s) ==
  {o \in Locals(s) : \E q \in Locals(s) \ {o} :
     /\ s.cand[q].base = s.cand[o].base /\ s.cand[q].addr = s.cand[o].addr
     /\ \/ s.cand[q].prio > s.cand[o].prio
        \/ s.cand[q].prio = s.cand[o].prio /\ q < o}
icem_cand_redund_elim(s) ==
  FoldSet(LAMBDA o, t : DerefCand(t, o), s, Redundant(s))

(* cand_default: a relayed one before a mapped one before an own one *)
cand_default(s, c) ==
  LET of(type) == {o \in OnSide(s, "local", c) : s.cand[o].type = type}
  IN IF of("relay") # {} THEN Min(of("relay"))
     ELSE IF of("srflx") # {} THEN Min(of("srflx"))
     ELSE IF of("host") # {} THEN Min(of("host")) ELSE Nil

(* icem_comp_set_default_cand, icem_comp_set_default_rcand and             *)
(* icem_comp_set_selected                                                  *)
SetDefault(s, c) ==
  IF c \notin s.comp THEN s
  ELSE RefCand([DerefCand(s, s.defl[c]) EXCEPT !.defl[c] = cand_default(s, c)],
               cand_default(s, c))
SetDefaultR(s, c, o) ==
  RefCand([DerefCand(s, s.defr[c]) EXCEPT !.defr[c] = o], o)
SetSelected(s, c, p) ==
  [DerefPair(s, s.sel[c]) EXCEPT !.sel[c] = p, !.pair[p].refs = @ + 1]

(* destructor of comp.c, icem_destructor *)
ReleaseComp(s, c) ==
  [DerefCand(DerefCand(DerefPair(s, s.sel[c]), s.defl[c]), s.defr[c]) EXCEPT
     !.sel[c] = Nil, !.defl[c] = Nil, !.defr[c] = Nil, !.turnc = @ \ {c}]
icem_destructor(s) ==
  LET a == FoldSet(LAMBDA c, t : ReleaseComp(t, c), s, s.comp)
      b == FoldSet(LAMBDA p, t : DerefPair(t, p), a,
                       {p \in CandPair : a.pair[p].list # "none"})
      d == FoldSet(LAMBDA o, t : DerefCand(t, o), b,
                       {o \in Cand : b.cand[o].side # "none"})
  IN [d EXCEPT !.st = "freed"]

----------------------------------------------------------------------------
(* media_alloc, icem_alloc, icem_comp_add and icem_comp_alloc, in a        *)
(* session of ice_alloc, whose role is that of ice_determine_role          *)
IceMedia(k) ==
  /\ ic.st = "none"
  /\ ic' = [ic EXCEPT !.st = "live", !.lite = k.lite, !.comp = k.comp,
              !.regular = k.regular, !.controlling = ~k.lite /\ k.offerer]

(* set_media_attributes: the candidates, unless ICE is not to be used *)
Attributes(s) ==
  [s EXCEPT !.offered = IF s.mismatch THEN @ ELSE Locals(s)]

(* refresh_laddr with the addresses that there are *)
RefreshLaddr(s, cand) ==
  [s EXCEPT !.laddr = [c \in Comps |->
     IF cand[c] = Nil THEN s.laddr[c] ELSE s.cand[cand[c]].addr]]

(* gather_handler, without an error *)
Gathered(s) == Attributes(RefreshLaddr([s EXCEPT !.gh = FALSE], s.defl))

(* media_start: the interfaces, then the servers.  In lite mode there are  *)
(* none, and no default is set.                                            *)
IceGather(ifs, by) ==
  /\ ic.st = "live" /\ ic.gh /\ \A c \in Comps : ic.gath[c] = "idle"
  /\ LET s == FoldLeft(OnIface, ic, ifs)
     IN \/ ic.lite /\ ic' = Gathered(s)
        \/ /\ ~ic.lite
           /\ ic' = [s EXCEPT !.gath = [c \in Comps |->
                        IF c \in s.comp THEN by ELSE "idle"],
                      !.turnc = IF by = "turn" THEN s.comp ELSE {}]
        \/ ~ic.lite /\ ic' = icem_destructor(s)

(* call_gather_handler: an error, and a component without a candidate,     *)
(* close the call.                                                         *)
IceGathered(s, err) ==
  LET unique == icem_cand_redund_elim(s)
  IN IF ~s.gh \/ \E c \in Comps : s.gath[c] \in {"turn", "stun"} THEN s
     ELSE IF err \/ \E c \in s.comp : cand_default(unique, c) = Nil
     THEN icem_destructor(s)
     ELSE Gathered(SetDefault(SetDefault(unique, 1), 2))

(* The base of the first candidate of a component *)
BaseOf(s, c) ==
  LET all == OnSide(s, "local", c)
  IN IF all = {} THEN Nil ELSE s.cand[Min(all)].base

Mapping(s, c, addr) ==
  IF addr = "nil" \/ BaseOf(s, c) = Nil THEN s
  ELSE LcandAdd(s, BaseOf(s, c), "srflx", addr)

(* stun_resp_handler, also long after the gathering, if the relay was lost *)
IceStun(c, addr, failed) ==
  /\ ic.st = "live" /\ ic.gath[c] = "stun" /\ ic.n < MaxCand
  /\ LET s == [ic EXCEPT !.gath[c] = "done"]
     IN ic' = IceGathered(IF failed THEN s ELSE Mapping(s, c, addr), failed)

(* turnc_handler for an allocation; without a mapped address in the answer *)
(* a STUN request gets it.                                                 *)
IceTurn(c, relay, mapped) ==
  /\ ic.st = "live" /\ ic.gath[c] = "turn" /\ ic.n + 2 <= MaxCand
  /\ LET base == BaseOf(ic, c)
         done == [ic EXCEPT !.gath[c] =
                    IF mapped = "nil" /\ base # Nil THEN "stun" ELSE "done"]
         rel == IF base = Nil \/ ic.cand[base].addr = relay THEN done
                ELSE LcandAdd(done, base, "relay", relay)
     IN ic' = IceGathered(Mapping(rel, c, mapped), FALSE)

(* turnc_handler with an error, or with a response that is one: the client *)
(* goes, at any time, and for a response a STUN request is made.           *)
IceTurnLost(c, response) ==
  /\ ic.st = "live" /\ c \in ic.turnc
  /\ ic.gath[c] = "turn" \/ ~ic.gh
  /\ LET s == [ic EXCEPT !.turnc = @ \ {c}, !.lost = @ \/ ~ic.gh, !.gath[c] =
                 IF response \/ @ = "stun" THEN "stun" ELSE "done"]
     IN ic' = IF response THEN s ELSE IceGathered(s, TRUE)

----------------------------------------------------------------------------
(* ice_calc_pair_prio *)
PairPrio(s, l, r) ==
  LET g == IF s.controlling THEN s.cand[l].prio ELSE s.cand[r].prio
      d == IF s.controlling THEN s.cand[r].prio ELSE s.cand[l].prio
  IN 64 * (IF g < d THEN g ELSE d) + 2 * (IF g < d THEN d ELSE g)
     + (IF g > d THEN 1 ELSE 0)

PrioOf(s, p) == PairPrio(s, s.pair[p].l, s.pair[p].r)
CompOf(s, p) == s.cand[s.pair[p].l].comp
InList(s, list) == {p \in CandPair : s.pair[p].list = list}

(* The first pairs of a sorted list: which one of equals is not said.      *)
Firsts(s, set) == {p \in set : \A q \in set : PrioOf(s, p) >= PrioOf(s, q)}

(* icem_candpair_alloc and icem_candpair_clone *)
PairAdd(s, list, l, r) ==
  RefCand(RefCand([s EXCEPT !.np = @ + 1, !.pair[s.np + 1] =
    [list |-> list, l |-> l, r |-> r, refs |-> 1]], l), r)

(* candpairs_form *)
Product(s) ==
  {x \in Locals(s) \X Cand : s.cand[x[2]].side = "remote"
                             /\ s.cand[x[1]].comp = s.cand[x[2]].comp}

(* cand_srflx_addr and candpair_prune: a mapped candidate is its base.     *)
SentFrom(s, l) == IF s.cand[l].type = "srflx" THEN s.cand[l].base ELSE l
Alike(s, x, y) ==
  /\ s.cand[x[1]].comp = s.cand[y[1]].comp
  /\ s.cand[SentFrom(s, x[1])].addr = s.cand[SentFrom(s, y[1])].addr
  /\ s.cand[x[2]].addr = s.cand[y[2]].addr
Pruned(s) ==
  {x \in Product(s) : \E y \in Product(s) : Alike(s, x, y) /\
     (\/ PairPrio(s, y[1], y[2]) > PairPrio(s, x[1], x[2])
      \/ PairPrio(s, y[1], y[2]) = PairPrio(s, x[1], x[2]) /\ y[1] > x[1])}

(* icem_checklist_form, of icem_conncheck_start *)
FormList(s) ==
  [FoldSet(LAMBDA x, t : PairAdd(t, "check", x[1], x[2]), s,
               Product(s) \ Pruned(s)) EXCEPT !.list = "running"]

(* cand_decode: a candidate is added only if it is not there.  The number  *)
(* of a component is a byte, so that 256 is 0, which is any.               *)
Known(s, c, addr) ==
  \E o \in Cand : /\ s.cand[o].side = "remote" /\ s.cand[o].addr = addr
                  /\ c = 0 \/ s.cand[o].comp = c
Decode(s, x) ==
  IF Known(s, x.comp, x.addr) THEN s
  ELSE RcandAdd(s, x.type, x.comp, CandPrio(x.type, 2), x.addr)

(* icem_verify_support: the first component whose address is no candidate  *)
(* ends the search.                                                        *)
Unsupported(s, raddr) ==
  {c \in s.comp : CandFind(s, "remote", c, raddr[c]) = Nil}
Verify(s, raddr) ==
  LET bad == Unsupported(s, raddr)
      set(t, c) == IF c \notin s.comp \/ \E d \in bad : d <= c THEN t
                   ELSE SetDefaultR(t, c, CandFind(s, "remote", c, raddr[c]))
  IN [set(set(s, 1), 2) EXCEPT !.mismatch = @ \/ bad # {}]

(* icem_candpairs_flush and purge_relayed; icem_update *)
Purge(s, c) ==
  LET relayed == {p \in CandPair : /\ s.pair[p].list # "none" /\ CompOf(s, p) = c
                                   /\ s.cand[s.pair[p].l].type = "relay"}
  IN IF s.sel[c] = Nil \/ s.cand[s.pair[s.sel[c]].l].type = "relay" THEN s
     ELSE [FoldSet(LAMBDA p, t : DerefPair(t, p), s, relayed)
             EXCEPT !.turnc = @ \ {c}]

SelectedL(s) == [c \in Comps |-> IF s.sel[c] = Nil THEN Nil ELSE s.pair[s.sel[c]].l]
Selected(s) == Attributes(RefreshLaddr(s, SelectedL(s)))

(* ice_start of ice.c *)
StartChecks(s, on) ==
  IF s.started THEN Selected(Purge(Purge(s, 1), 2))
  ELSE [IF on /\ ~s.lite THEN FormList(s) ELSE s EXCEPT !.started = TRUE]

(* update: the peer's description is read, its support of ICE verified,    *)
(* and the checks are started or what they found is offered.  It has       *)
(* ice-lite or not (two of them cannot talk), ice-mismatch or not,         *)
(* candidates, and the addresses where it expects media, if the medium is  *)
(* on.                                                                     *)
IceUpdate(x) ==
  /\ ic.st = "live" /\ ~ic.gh /\ ic.offers < MaxOffers
  /\ ic.n + Len(x.cands) <= MaxCand
  /\ LET told == [ic EXCEPT !.controlling = @ \/ (x.lite /\ ~ic.lite),
                      !.mismatch = @ \/ x.mismatch, !.offers = @ + 1]
         read == FoldLeft(Decode, told, x.cands)
         known == IF x.on THEN Verify(read, x.raddr) ELSE read
     IN /\ known.np + Cardinality(Product(known) \ Pruned(known)) < MaxPairs
        /\ ic' = IF x.on /\ Unsupported(read, x.raddr) # {} THEN Attributes(known)
                 ELSE StartChecks(known, x.on)

----------------------------------------------------------------------------
MakePairValid(s, p) == [s EXCEPT !.pair[p].list = "valid"]

(* concluding_ice for the components up to the first without a valid pair; *)
(* best says which of equal pairs is first.  conncheck_handler is told.    *)
ConcludeComp(s, c, best) ==
  IF c \notin s.comp \ s.concluded \/ best[c] = Nil THEN s
  ELSE [SetSelected(s, c, best[c]) EXCEPT !.concluded = @ \cup {c}]
Concluded(s, best) ==
  LET missing == {c \in s.comp : \A p \in InList(s, "valid") : CompOf(s, p) # c}
      upto(t, c) == IF \E d \in missing : d <= c THEN t ELSE ConcludeComp(t, c, best)
      done == upto(upto(s, 1), 2)
  IN IF missing = {} THEN Selected([done EXCEPT !.list = "completed"])
     ELSE [done EXCEPT !.list = "failed"]
BestOf(s, c) ==
  LET valid == {p \in InList(s, "valid") : CompOf(s, p) = c}
  IN IF valid = {} THEN {Nil} ELSE Firsts(s, valid)

(* handle_success and construct_valid_pair: the address that the peer saw  *)
(* is a candidate, new if need be, and the pair with it is the valid one.  *)
(* Only a pair in the check list, or the nominated one, has a transaction. *)
IceSuccess(p, addr) ==
  /\ ic.st = "live" /\ ic.n < MaxCand /\ ic.np < MaxPairs
  /\ \/ ic.pair[p].list = "check" /\ ic.list = "running"
     \/ ic.regular /\ ic.pair[p].list = "valid" /\ \E c \in Comps : ic.sel[c] = p
  /\ LET c == CompOf(ic, p)
         r == ic.pair[p].r
         s == IF CandFind(ic, "local", c, addr) # Nil THEN ic
              ELSE LcandAdd(ic, ic.pair[p].l, "prflx", addr)
         l == CandFind(s, "local", c, addr)
         same == {x \in InList(s, "valid") : s.pair[x].l = l /\ s.pair[x].r = r}
         v == IF l = s.pair[p].l THEN MakePairValid(s, p)
              ELSE IF same # {} THEN s ELSE PairAdd(s, "valid", l, r)
         pairs == IF l = s.pair[p].l THEN {p}
                  ELSE IF same # {} THEN Firsts(s, same) ELSE {v.np}
     IN \E q \in pairs, first \in BestOf(v, 1), second \in BestOf(v, 2) :
          ic' = Concluded(SetSelected(v, c, q), <<first, second>>)

(* The last check fails: icem_checklist_update. *)
IceFails ==
  /\ ic.st = "live" /\ ic.list = "running"
  /\ \E first \in BestOf(ic, 1), second \in BestOf(ic, 2) :
       ic' = Concluded(ic, <<first, second>>)

(* handle_stun: a request of the peer from src, for which a candidate and  *)
(* a pair are made if there are none.  A pair that has the candidate says  *)
(* which local one it belongs to, else it is the first of the check list   *)
(* that is not a mapped one.                                               *)
IcePeer(c, src, use) ==
  /\ ic.st = "live" /\ ic.list = "running" /\ c \in ic.comp
  /\ ic.n < MaxCand /\ ic.np < MaxPairs
  /\ LET s == IF CandFind(ic, "remote", c, src) # Nil THEN ic
              ELSE RcandAdd(ic, "prflx", c, CandPrio("prflx", 2), src)
         r == CandFind(s, "remote", c, src)
         of(list) == {x \in InList(s, list) : s.pair[x].r = r}
         found == Firsts(s, IF of("check") # {} THEN of("check") ELSE of("valid"))
         mine == {x \in InList(s, "check") : CompOf(s, x) = c
                    /\ s.cand[s.pair[x].l].type \in {"host", "relay"}}
         near == Firsts(s, IF found # {} THEN found ELSE mine)
         checked(l) == \E x \in of("check") : s.pair[x].l = l
         nominate(t, p) == IF ~use THEN t
           ELSE IF ic.regular THEN SetSelected(MakePairValid(t, p), c, p)
           ELSE MakePairValid(t, p)
     IN \/ near = {} /\ ic' = s
        \/ \E x \in near :
             LET l == s.pair[x].l
                 t == IF checked(l) THEN s ELSE PairAdd(s, "check", l, r)
             IN ic' = nominate(t, IF found # {} THEN x ELSE t.np)

(* media_destructor *)
IceEnd == ic.st = "live" /\ ic' = icem_destructor(ic)

IceSetNext ==
  \/ \E k \in Kinds : IceMedia(k)
  \/ \E ifs \in Ifaces, by \in {"turn", "stun"} : IceGather(ifs, by)
  \/ \E c \in Comps :
       \/ \E addr \in {"m", "h1"}, failed \in BOOLEAN : IceStun(c, addr, failed)
       \/ \E mapped \in {"nil", "m", "h1"} : IceTurn(c, "l", mapped)
       \/ IceTurn(c, "h1", "h1")
       \/ \E response \in BOOLEAN : IceTurnLost(c, response)
  \/ \E x \in Offers : IceUpdate(x)
  \/ IceFails \/ IceEnd
  \/ \E p \in CandPair, addr \in {"h1", "m", "l", "x"} : IceSuccess(p, addr)
  \/ \E c \in Comps, src \in {"r1", "p"}, use \in BOOLEAN : IcePeer(c, src, use)

----------------------------------------------------------------------------
(* How many references to a candidate, and to a pair, there are *)
CandUses(s, o) ==
  (IF s.cand[o].side = "none" THEN 0 ELSE 1)
  + Cardinality({x \in Cand \ {o} : s.cand[x].base = o})
  + Cardinality({c \in Comps : s.defl[c] = o})
  + Cardinality({c \in Comps : s.defr[c] = o})
  + Cardinality({p \in CandPair : s.pair[p].l = o})
  + Cardinality({p \in CandPair : s.pair[p].r = o})
PairUses(s, p) ==
  (IF s.pair[p].list = "none" THEN 0 ELSE 1)
  + Cardinality({c \in Comps : s.sel[c] = p})

(* Nothing that a medium's ICE object uses is freed too early or kept too  *)
(* long: every candidate and pair counts exactly its users, none is left   *)
(* when the object goes, defaults and selected pairs are candidates and    *)
(* pairs of their component, no two candidates say the same, and the       *)
(* address that is offered for media is one of the candidates offered.     *)
IceOwned ==
  /\ \A o \in Cand : ic.cand[o].refs = CandUses(ic, o)
  /\ \A p \in CandPair : ic.pair[p].refs = PairUses(ic, p)
  /\ ic.st = "freed" => /\ \A o \in Cand : ic.cand[o] = NoCand
                        /\ \A p \in CandPair : ic.pair[p] = NoCandPair
  /\ \A c \in Comps :
       /\ ic.defl[c] # Nil => ic.defl[c] \in OnSide(ic, "local", c)
       /\ ic.defr[c] # Nil => ic.defr[c] \in OnSide(ic, "remote", c)
       /\ ic.sel[c] # Nil => CompOf(ic, ic.sel[c]) = c
                            /\ ic.pair[ic.sel[c]].list # "none"
  /\ \A p \in CandPair : ic.pair[p].list # "none" =>
       ic.cand[ic.pair[p].l].comp = ic.cand[ic.pair[p].r].comp
  /\ ic.st = "live" /\ ~ic.gh /\ ~ic.lite /\ ~ic.mismatch =>
       /\ ~ic.lost => Redundant(ic) = {}
       /\ \A c \in ic.comp : \E o \in ic.offered :
            ic.cand[o].comp = c /\ ic.cand[o].addr = ic.laddr[c]
=============================================================================
