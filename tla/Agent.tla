------------------------------- MODULE Agent -------------------------------
(***************************************************************************)
(* The user agents of the application (baresip ua.c, net.c and main.c):    *)
(* accounts and their registrations, the calls that keep the SIP stack     *)
(* busy, the transports and the address they are bound to, and stopping,   *)
(* suspending and resuming the stack.                                      *)
(*                                                                         *)
(* The SIP stack is counted: the application holds one reference, every    *)
(* registration client and every session holds one, also while it only     *)
(* waits for its last transaction.  sip_close lets go of the application's *)
(* reference, and the stack calls exit_handler when the last one is gone.  *)
(***************************************************************************)
EXTENDS Integers, FiniteSets, SequencesExt

CONSTANTS
  Account,      \* accounts that can be added
  Regc,         \* number of registrations of an account (outbound: up to 2)
  Silent,       \* accounts with regint = 0
  UaCall,       \* call objects
  UaMaxCalls,   \* MAX_CALLS
  Addr,         \* addresses the host may have
  MaxStack,     \* SIP stacks that are allocated
  MaxEpoch,     \* times that transports are added
  MaxPending,   \* no new call beyond so many that wait for their last transaction
  ResumeEarly   \* the application resumes before the stack is closed

ASSUME AgentAssumption ==
  /\ IsFiniteSet(Account) /\ Regc \in [Account -> 1..2] /\ Silent \subseteq Account
  /\ UaMaxCalls \in Nat /\ MaxStack \in Nat /\ MaxEpoch \in Nat
  /\ MaxPending \in Nat
  /\ ResumeEarly \in BOOLEAN /\ Addr # {}

VARIABLES
  ag,     \* struct uag and what hangs below it
  laddr,  \* net.laddr
  host    \* the address that the system has now, "down" for none

agentVars == <<ag, laddr, host>>

NoClient == [sip |-> 0, state |-> "none"]

NoTransp == [id |-> 0, addr |-> "none"]

(* struct sip, of which refs counts the references that exist and pending  *)
(* those of clients and sessions that wait for their last transaction.     *)
NoStack == [refs |-> 0, closing |-> FALSE, pending |-> 0, transp |-> NoTransp]

NewStack == [NoStack EXCEPT !.refs = 1]

NoUaCall == [ua |-> "none", sip |-> 0]

Regs(a) == 1..Regc[a]

(* ua_init, before accounts are added; a failure of it ends the program. *)
AgentInit ==
  /\ host \in Addr /\ laddr = host
  /\ ag = [ual |-> <<>>, cur |-> "none", sip |-> 1, owned |-> TRUE,
           sock |-> 1, lsnr |-> 1, evsock |-> 1, epoch |-> 1, failed |-> FALSE,
           stack |-> [i \in 1..MaxStack |->
                       IF i = 1 THEN [NewStack EXCEPT !.transp = [id |-> 1, addr |-> host]]
                                ELSE NoStack],
           reg |-> [a \in Account |-> [r \in 1..2 |-> NoClient]],
           call |-> [c \in UaCall |-> NoUaCall], calls |-> <<>>,
           menu |-> FALSE, loop |-> "run", stopped |-> FALSE, early |-> FALSE]

----------------------------------------------------------------------------
(* References to a stack *)

(* Those who hold the stack i, apart from the application *)
Users(S, i) ==
  S.stack[i].pending
  + Cardinality({x \in Account \X (1..2) : S.reg[x[1]][x[2]].sip = i})
  + Cardinality({c \in UaCall : S.call[c].sip = i})

(* The destructor of the stack: the first time after sip_close it only     *)
(* tells exit_handler, which ends the main loop, and gives the reference   *)
(* back to the application; else listeners and transports go.              *)
SipDestructor(S, i) ==
  IF S.stack[i].closing
  THEN [S EXCEPT !.stack[i].closing = FALSE,
                 !.owned = @ \/ S.sip = i,
                 !.early = @ \/ Users(S, i) > 0,
                 !.loop = IF @ = "run" THEN "cancelled" ELSE @]
  ELSE [S EXCEPT !.stack[i] = [NoStack EXCEPT !.pending = S.stack[i].pending],
                 !.sock = IF @ = i THEN 0 ELSE @,
                 !.lsnr = IF @ = i THEN 0 ELSE @,
                 !.evsock = IF @ = i THEN 0 ELSE @]

Deref(S, i) ==
  IF i = 0 THEN S
  ELSE IF S.stack[i].refs = 1 THEN SipDestructor(S, i)
  ELSE [S EXCEPT !.stack[i].refs = @ - 1]

(* A client or session goes: it waits for a last transaction, or not *)
LetLinger(S, i, waits) ==
  IF waits THEN [S EXCEPT !.stack[i].pending = @ + 1] ELSE S

----------------------------------------------------------------------------
(* Registrations *)

(* Mutant: a registration client that is dropped while it waits for an     *)
(* answer gives its reference back now and once more later.                *)
FreeClient_Now(S, a, r, sent) ==
  LET k == S.reg[a][r]
      T == [S EXCEPT !.reg[a][r] = NoClient]
  IN IF k.sip = 0 THEN S ELSE Deref(LetLinger(T, k.sip, k.state = "request"), k.sip)

(* The destructor of sipreg: with a request outstanding, or one that can   *)
(* be sent to remove the binding, the client lingers.                      *)
FreeClient(S, a, r, sent) ==
  LET k == S.reg[a][r]
      waits == k.state = "request" \/ (k.state = "ok" /\ sent)
      T == [S EXCEPT !.reg[a][r] = NoClient]
  IN IF k.sip = 0 THEN S
     ELSE IF waits THEN LetLinger(T, k.sip, TRUE) ELSE Deref(T, k.sip)

(* uareg_register: the old client goes, a new one sends its request. *)
uareg_register(S, a, r, sent, ok) ==
  LET T == FreeClient(S, a, r, sent)
  IN IF ~ok \/ a \in Silent \/ T.sip = 0 THEN [T EXCEPT !.failed = TRUE]
     ELSE [T EXCEPT !.reg[a][r] = [sip |-> T.sip, state |-> "request"],
                    !.stack[T.sip].refs = @ + 1]

(* ua_register returns at the first registration that fails: bad is the    *)
(* first one that does, 0 for none.                                        *)
ua_register(S, a, sent, bad) ==
  FoldLeft(LAMBDA T, r : IF bad # 0 /\ r > bad THEN T
                         ELSE uareg_register(T, a, r, sent, r # bad),
           S, [r \in Regs(a) |-> r])

(* ua_start *)
ua_start(S, a, sent, bad) == IF a \in Silent THEN S ELSE ua_register(S, a, sent, bad)

(* ua_unregister *)
ua_unregister(S, a, sent) ==
  FoldLeft(LAMBDA T, r : FreeClient(T, a, r, sent), S, [r \in Regs(a) |-> r])

(* register_handler: a 2xx, a refusal or an error; a client that failed    *)
(* tries again by itself.                                                  *)
RegisterHandler(a, r, ok) ==
  /\ ag.loop = "run"
  /\ ag.reg[a][r].state \in {"request", "fail"}
  /\ ag' = [ag EXCEPT !.reg[a][r].state = IF ok THEN "ok" ELSE "fail"]
  /\ UNCHANGED <<laddr, host>>

----------------------------------------------------------------------------
(* Accounts *)

(* ua_alloc and ua_add: the account that was added last is the current     *)
(* one; it stays when its registration cannot be started.                  *)
UaAdd(a) ==
  /\ ag.loop = "run" /\ ~ag.stopped
  /\ a \notin Range(ag.ual)
  /\ \E bad \in 0..Regc[a] :
       ag' = ua_start([ag EXCEPT !.ual = Append(@, a), !.cur = a], a, FALSE, bad)
  /\ UNCHANGED <<laddr, host>>

(* ua_next *)
UaNext ==
  /\ ag.loop = "run" /\ ag.cur # "none" /\ Len(ag.ual) > 1
  /\ LET i == CHOOSE i \in DOMAIN ag.ual : ag.ual[i] = ag.cur
     IN ag' = [ag EXCEPT !.cur = ag.ual[(i % Len(ag.ual)) + 1]]
  /\ UNCHANGED <<laddr, host>>

----------------------------------------------------------------------------
(* Calls *)

CallsOf(S, a) == SelectSeq(S.calls, LAMBDA c : S.call[c].ua = a)

(* menu_set_incall(active_calls(ua)) *)
menu_set_incall(S, a) == [S EXCEPT !.menu = CallsOf(S, a) # <<>>]

(* A call goes; its session waits for the answer to BYE or CANCEL, or not. *)
FreeCall(S, c, waits) ==
  LET i == S.call[c].sip
      T == [S EXCEPT !.call[c] = NoUaCall, !.calls = SelectSeq(@, LAMBDA x : x # c)]
  IN IF waits THEN LetLinger(T, i, TRUE) ELSE Deref(T, i)

(* ua_connect and sipsess_conn_handler, when they succeed: an incoming     *)
(* call needs a listener and a transport, and room among the calls.        *)
UaCallNew(a, c, incoming) ==
  /\ ag.loop = "run" /\ a \in Range(ag.ual) /\ ag.call[c] = NoUaCall
  /\ ag.sock # 0 /\ ag.stack[ag.sock].pending < MaxPending
  /\ incoming => /\ ag.stack[ag.sock].transp # NoTransp
                 /\ Len(CallsOf(ag, a)) < UaMaxCalls
  /\ LET T == [ag EXCEPT !.call[c] = [ua |-> a, sip |-> ag.sock],
                         !.calls = Append(@, c), !.stack[ag.sock].refs = @ + 1]
     IN ag' = IF incoming THEN menu_set_incall(T, a) ELSE T
  /\ UNCHANGED <<laddr, host>>

(* call_event_handler: the other side answers, or the call is over *)
UaCallEvent(c, closed) ==
  /\ ag.loop = "run" /\ ag.call[c] # NoUaCall
  /\ LET a == ag.call[c].ua
     IN ag' = menu_set_incall(IF closed THEN FreeCall(ag, c, FALSE) ELSE ag, a)
  /\ UNCHANGED <<laddr, host>>

(* ua_hangup: the call that was added last *)
UaHangup(a, waits) ==
  /\ ag.loop = "run" /\ CallsOf(ag, a) # <<>>
  /\ ag' = menu_set_incall(FreeCall(ag, Last(CallsOf(ag, a)), waits), a)
  /\ UNCHANGED <<laddr, host>>

(* The last transaction of a client or session that is gone *)
PendingDone(i) ==
  /\ ag.loop # "closed" /\ ag.stack[i].pending > 0
  /\ ag' = Deref([ag EXCEPT !.stack[i].pending = @ - 1], i)
  /\ UNCHANGED <<laddr, host>>

----------------------------------------------------------------------------
(* Transports and the network *)

(* ua_add_transp for the address a *)
ua_add_transp(S, a, ok) ==
  IF ~ok \/ S.sip = 0 THEN [S EXCEPT !.failed = TRUE]
  ELSE [S EXCEPT !.stack[S.sip].transp = [id |-> S.epoch + 1, addr |-> a],
                 !.epoch = @ + 1]

(* net_check: the default address, when there is one *)
net_check == IF host = "down" THEN laddr ELSE host

(* Mutant: the transports are added before the address is looked up. *)
BindAddr_Old == laddr

(* The address that transports are bound to in ua_reset_transp *)
BindAddr == net_check

(* ua_reset_transp(true, true): a transport that cannot be added ends it,  *)
(* with the old ones gone.                                                 *)
ua_reset_transp(S, sent, bad, ok) ==
  LET F == IF S.sip = 0 THEN S ELSE [S EXCEPT !.stack[S.sip].transp = NoTransp]
      T == ua_add_transp(F, BindAddr, ok)
  IN IF ~ok \/ S.sip = 0 THEN T
     ELSE FoldLeft(LAMBDA U, a : ua_register(U, a, sent, bad[a]), T, S.ual)

Bad == {f \in [Account -> 0..2] : \A a \in Account : f[a] \in 0..Regc[a]}

ResetTransp ==
  /\ ag.loop = "run" /\ ag.epoch < MaxEpoch
  /\ \E sent, ok \in BOOLEAN, bad \in Bad :
       ag' = ua_reset_transp([ag EXCEPT !.failed = FALSE], sent, bad, ok)
  /\ laddr' = net_check
  /\ UNCHANGED host

(* ipchange_handler, every minute *)
IpChange ==
  /\ net_check # laddr
  /\ ResetTransp

(* The host gets another address, or none *)
HostMoves ==
  /\ ag.loop = "run"
  /\ host' \in (Addr \cup {"down"}) \ {host}
  /\ UNCHANGED <<ag, laddr>>

----------------------------------------------------------------------------
(* Stopping, suspending and resuming *)

(* sip_close without force: the application's reference goes. *)
sip_close(S) ==
  IF S.sip = 0 \/ S.stack[S.sip].closing THEN S
  ELSE Deref([S EXCEPT !.stack[S.sip].closing = TRUE, !.owned = FALSE], S.sip)

(* ua_destructor: calls, then registrations *)
FreeUa(S, a, sent) ==
  ua_unregister(FoldLeft(LAMBDA T, c : FreeCall(T, c, sent), S, CallsOf(S, a)), a, sent)

(* Mutant: the first account is not flushed. *)
FlushUal_Tail(S, sent) ==
  [FoldLeft(LAMBDA T, a : FreeUa(T, a, sent), S, IF S.ual = <<>> THEN <<>> ELSE Tail(S.ual))
    EXCEPT !.ual = <<>>]

(* list_flush(&uag.ual) *)
FlushUal(S, sent) ==
  [FoldLeft(LAMBDA T, a : FreeUa(T, a, sent), S, S.ual) EXCEPT !.ual = <<>>]

(* ua_stop_all(false): by a command or the first signal; the menu is left  *)
(* as it is.                                                               *)
UaStopAll ==
  /\ ag.loop = "run"
  /\ \E sent \in BOOLEAN :
       ag' = sip_close([FlushUal(ag, sent) EXCEPT !.cur = "none", !.stopped = TRUE])
  /\ UNCHANGED <<laddr, host>>

(* The end of main: ua_close, in its order *)
UaClose ==
  /\ ag.loop = "cancelled"
  /\ LET S == [ag EXCEPT !.menu = FALSE, !.evsock = 0, !.sock = 0, !.lsnr = 0,
                         !.sip = 0, !.owned = FALSE, !.loop = "closed"]
     IN ag' = FlushUal(Deref(S, ag.sip), FALSE)
  /\ UNCHANGED <<laddr, host>>

(* ua_stack_suspend: the clients go, their status stays as it was. *)
UaSuspend ==
  /\ ag.loop = "run" /\ ag.sip # 0 /\ ~ag.stack[ag.sip].closing /\ ~ag.stopped
  /\ \E sent \in BOOLEAN :
       ag' = sip_close(FoldLeft(LAMBDA T, a : ua_unregister(T, a, sent), ag, ag.ual))
  /\ UNCHANGED <<laddr, host>>

(* ua_stack_resume: a new stack and a new session socket; the listener for *)
(* other requests and the event socket are not allocated again.            *)
UaResume ==
  /\ ~ag.stopped /\ ag.sip # 0 /\ ag.sip < MaxStack /\ ag.epoch < MaxEpoch
  /\ ag.calls = <<>>
  /\ \/ ag.loop = "cancelled"
     \/ ResumeEarly /\ ag.loop = "run" /\ ag.stack[ag.sip].closing
  /\ \E ok \in BOOLEAN, bad \in Bad :
       LET n == ag.sip + 1
           D == Deref([ag EXCEPT !.sock = 0, !.loop = "run"], ag.sip)
           N == [D EXCEPT !.sip = n, !.owned = TRUE, !.failed = FALSE,
                          !.stack[n] = NewStack]
           T == ua_add_transp(N, laddr, ok)
       IN ag' = IF ~ok THEN T
                ELSE FoldLeft(LAMBDA U, a : ua_start(U, a, FALSE, bad[a]),
                              [T EXCEPT !.sock = n], T.ual)
  /\ UNCHANGED <<laddr, host>>

----------------------------------------------------------------------------
AgentNext ==
  \/ UaNext \/ ResetTransp \/ IpChange \/ HostMoves
  \/ UaStopAll \/ UaClose \/ UaSuspend \/ UaResume
  \/ \E a \in Account :
       \/ UaAdd(a)
       \/ \E r \in Regs(a), ok \in BOOLEAN : RegisterHandler(a, r, ok)
       \/ \E c \in UaCall, incoming \in BOOLEAN : UaCallNew(a, c, incoming)
       \/ \E waits \in BOOLEAN : UaHangup(a, waits)
  \/ \E c \in UaCall, closed \in BOOLEAN : UaCallEvent(c, closed)
  \/ \E i \in 1..MaxStack : PendingDone(i)

(* The last transaction of a client ends (SipTrans, SipRequest). *)
AgentFairness == WF_agentVars(\E i \in 1..MaxStack : PendingDone(i))

AgentSpec == AgentInit /\ [][AgentNext]_agentVars /\ AgentFairness

----------------------------------------------------------------------------
(* The stack is counted right: what is counted are the application's       *)
(* reference, the registration clients, the sessions, and those of them    *)
(* that wait for their last transaction (ua.c, reg.c, sess.c, sip.c).      *)
StackCounted == \A i \in 1..MaxStack :
  ag.stack[i].refs = Users(ag, i) + IF ag.sip = i /\ ag.owned THEN 1 ELSE 0

(* The transports are bound to the address that the application takes for  *)
(* the host's, unless adding them failed or the stack is gone: the address *)
(* is looked up between the flush and the new transports.                  *)
BoundHere ==
  ag.loop = "run" /\ ag.sip # 0 /\ ~ag.failed => ag.stack[ag.sip].transp.addr = laddr

(* The current account is one of the list, and a stack without accounts    *)
(* has no current one.                                                     *)
CurListed == IF ag.ual = <<>> THEN ag.cur = "none" ELSE ag.cur \in Range(ag.ual)

(* The conjunction of the three, in every order of registrations, calls,   *)
(* address changes, failures, stops, suspensions and resumptions.          *)
AgentSound == StackCounted /\ BoundHere /\ (ag.loop # "closed" => CurListed)

(* A stop ends the main loop: clients and sessions that wait for their     *)
(* last transaction let go of the stack, which tells exit_handler.         *)
AgentQuits == [](ag.stopped => <>(ag.loop # "run"))

(* exit_handler is called when all transactions are done. *)
ExitWhenDone == ~ag.early

=============================================================================
