----------------------------- MODULE SipTransp -----------------------------
(***************************************************************************)
(* The connections of the SIP stack (sip/transp.c), the messages that wait *)
(* for one to be established, and the keepalives on them                   *)
(* (sip/keepalive.c).                                                      *)
(*                                                                         *)
(* A connection is counted: one reference for the stack and one for each   *)
(* message that was received on it and is still held (msg->sock).  Closing *)
(* and establishing walk the queue with the next entry remembered across   *)
(* the handler of the current one, so a walk is several steps, between     *)
(* which the application may act.  What the application cannot do there is *)
(* free the transaction of another request: its mem_deref only cancels     *)
(* (sip/request.c).                                                        *)
(***************************************************************************)
EXTENDS Naturals, Sequences, FiniteSets, SequencesExt

CONSTANTS
  Conn,        \* connection objects
  Peer,        \* addresses of peers, each with or without TLS
  Tx,          \* messages sent: client transactions and stateless replies
  Ka,          \* keepalives
  MaxHeld      \* bound on the messages of a connection that are held

ASSUME TranspAssumption ==
  /\ MaxHeld \in Nat
  /\ "nil" \notin Tx /\ {"nil", "none", "signalled"} \cap Conn = {}

NoTx == "nil"
NoConn == "nil"

VARIABLES
  conn,        \* struct sip_conn; flushed: sip_transp_flush let go of it
  tx,          \* "idle", "active", "canceled" by its user, "reply" or "ended"
  qentp,       \* ct->qent points to an entry of a queue
  ka,          \* where a keepalive is: "none", "signalled" or a connection
  walk,        \* the loop over a queue that is running
  dangling     \* a loop went on with an entry that was freed

transpVars == <<conn, tx, qentp, ka, walk, dangling>>

Fresh == [st |-> "none", peer |-> "nil", tc |-> FALSE, hashed |-> FALSE,
          established |-> FALSE, ql |-> <<>>, tmr |-> FALSE, tmr_ka |-> FALSE,
          refs |-> 0, held |-> 0, flushed |-> FALSE]

NoWalk == [op |-> "none", c |-> NoConn, cur |-> NoTx, next |-> NoTx]

TranspInit ==
  /\ conn = [c \in Conn |-> Fresh]
  /\ tx = [t \in Tx |-> "idle"] /\ qentp = [t \in Tx |-> FALSE]
  /\ ka = [k \in Ka |-> "none"]
  /\ walk = NoWalk /\ dangling = FALSE

Idle == walk.op = "none"
Live(c) == conn[c].st = "live"
Kal(where) == {k \in Ka : ka[k] = where}
Queued(t) == {c \in Conn : \E i \in 1 .. Len(conn[c].ql) : conn[c].ql[i] = t}

(* list_unlink of the entry of t, if it is in the queue *)
Unlink(ql, t) ==
  LET at == {i \in DOMAIN ql : ql[i] = t}
  IN IF at = {} THEN ql ELSE RemoveAt(ql, CHOOSE i \in at : TRUE)

After(ql, t) ==
  LET later == {i \in 2 .. Len(ql) : ql[i - 1] = t}
  IN IF later = {} THEN NoTx ELSE ql[CHOOSE i \in later : TRUE]

First(ql) == IF ql = <<>> THEN NoTx ELSE ql[1]

(* sip_keepalive_signal, and list_flush of the keepalives: with a signal   *)
(* their users are told.                                                   *)
Signal(where, how) == [k \in Ka |-> IF ka[k] = where THEN how ELSE ka[k]]

(* conn_destructor: the entries that still wait are freed without a word,  *)
(* their transactions time out.  left messages still point to it.          *)
Destroyed(c, left) ==
  [Fresh EXCEPT !.st = "freed", !.held = left, !.flushed = conn[c].flushed]

Forget(gone) ==
  /\ qentp' = [t \in Tx |-> qentp[t] /\ Queued(t) \cap gone = {}]
  /\ ka' = [k \in Ka |-> IF ka[k] \in gone THEN "none" ELSE ka[k]]

----------------------------------------------------------------------------
(* conn_find returns the first of these in the table, which is any one of  *)
(* them here.                                                              *)
conn_find(p) == {c \in Conn : Live(c) /\ conn[c].hashed /\ conn[c].peer = p}

(* The end of conn_send: the message waits, and its transaction, if it has *)
(* one, gets a pointer to the entry.                                       *)
Enqueued(c, t, owned) ==
  /\ conn' = [conn EXCEPT ![c].ql = Append(@, t)]
  /\ qentp' = [qentp EXCEPT ![t] = owned]

(* conn_send without a connection: tcp_connect.  All else is Fresh. *)
Connecting(c, p, t, owned) ==
  /\ conn[c].st = "none"
  /\ conn' = [conn EXCEPT ![c] = [Fresh EXCEPT
       !.st = "live", !.peer = p, !.tc = TRUE, !.hashed = TRUE, !.refs = 1,
       !.ql = <<t>>]]
  /\ qentp' = [qentp EXCEPT ![t] = owned]

(* sip_transp_send and conn_send.  A failure of tcp_connect or tcp_send is *)
(* returned to the caller, a sent message leaves nothing behind.           *)
Send(t, p, owned) ==
  /\ tx[t] = "idle"
  /\ \/ \E c \in conn_find(p) :
          IF conn[c].established THEN UNCHANGED <<conn, qentp>>
          ELSE Enqueued(c, t, owned)
     \/ conn_find(p) = {} /\ \E c \in Conn : Connecting(c, p, t, owned)
  /\ tx' = [tx EXCEPT ![t] = IF owned THEN "active" ELSE "reply"]
  /\ UNCHANGED <<ka, walk, dangling>>

(* Mutant: a released request takes its transaction along. *)
Release_Frees(t) ==
  /\ tx[t] = "active"
  /\ tx' = [tx EXCEPT ![t] = "ended"]
  /\ conn' = [c \in Conn |-> IF qentp[t] THEN
                [conn[c] EXCEPT !.ql = Unlink(@, t)] ELSE conn[c]]
  /\ qentp' = [qentp EXCEPT ![t] = FALSE]
  /\ UNCHANGED <<ka, walk, dangling>>

(* The destructor of a stateful request: it is cancelled and goes on. *)
Release(t) ==
  /\ tx[t] = "active"
  /\ tx' = [tx EXCEPT ![t] = "canceled"]
  /\ UNCHANGED <<conn, qentp, ka, walk, dangling>>

(* The timer of the transaction, or its final response: ctrans.c destructor *)
TxEnds(t) ==
  /\ Idle /\ tx[t] \in {"active", "canceled"}
  /\ tx' = [tx EXCEPT ![t] = "ended"]
  /\ conn' = [c \in Conn |-> IF qentp[t] THEN
                [conn[c] EXCEPT !.ql = Unlink(@, t)] ELSE conn[c]]
  /\ qentp' = [qentp EXCEPT ![t] = FALSE]
  /\ UNCHANGED <<ka, walk, dangling>>

----------------------------------------------------------------------------
(* Mutant: the connection can still be found while its queue is told. *)
conn_close_Hashed(c) ==
  /\ conn' = [conn EXCEPT ![c].tc = FALSE, ![c].tmr = FALSE,
                          ![c].tmr_ka = FALSE]
  /\ walk' = [op |-> "close", c |-> c, cur |-> NoTx, next |-> First(conn[c].ql)]

(* conn_close, up to its loop *)
conn_close(c) ==
  /\ conn' = [conn EXCEPT ![c].tc = FALSE, ![c].tmr = FALSE,
                          ![c].tmr_ka = FALSE, ![c].hashed = FALSE]
  /\ walk' = [op |-> "close", c |-> c, cur |-> NoTx, next |-> First(conn[c].ql)]

(* tcp_close_handler; an error in tcp_recv_handler *)
Closed(c) ==
  /\ Idle /\ Live(c) /\ conn[c].tc
  /\ conn_close(c)
  /\ UNCHANGED <<tx, qentp, ka, dangling>>

(* conn_tmr_handler: nothing came on an accepted connection, or after a    *)
(* keepalive.                                                              *)
ConnTimer(c) ==
  /\ Idle /\ Live(c) /\ conn[c].tmr
  /\ conn_close(c)
  /\ UNCHANGED <<tx, qentp, ka, dangling>>

(* conn_keepalive_handler, when tcp_send works; otherwise as Closed *)
ConnKeepalive(c) ==
  /\ Idle /\ Live(c) /\ conn[c].tmr_ka
  /\ conn' = [conn EXCEPT ![c].tmr = TRUE]
  /\ UNCHANGED <<tx, qentp, ka, walk, dangling>>

(* tcp_estab_handler, up to its loop *)
Estab(c) ==
  /\ Idle /\ Live(c) /\ conn[c].tc /\ ~conn[c].established
  /\ conn' = [conn EXCEPT ![c].established = TRUE]
  /\ walk' = [op |-> "estab", c |-> c, cur |-> NoTx, next |-> First(conn[c].ql)]
  /\ UNCHANGED <<tx, qentp, ka, dangling>>

(* A loop takes its next entry and remembers the one after it.  The        *)
(* pointer of the owner is reset, then the message is sent, or the owner   *)
(* is told: its transaction ends (ctrans.c transport_handler).             *)
WalkEnter ==
  /\ ~Idle /\ walk.cur = NoTx /\ walk.next # NoTx
  /\ LET t == walk.next
     IN /\ walk' = [walk EXCEPT !.cur = t, !.next = After(conn[walk.c].ql, t)]
        /\ dangling' = (dangling \/ walk.c \notin Queued(t))
        /\ qentp' = [qentp EXCEPT ![t] = FALSE]
        /\ \/ walk.op = "estab" /\ UNCHANGED tx
           \/ tx' = [tx EXCEPT ![t] = IF @ = "reply" THEN @ ELSE "ended"]
  /\ UNCHANGED <<conn, ka>>

(* The entry is unlinked and freed. *)
WalkLeave ==
  /\ ~Idle /\ walk.cur # NoTx
  /\ conn' = [conn EXCEPT ![walk.c].ql = Unlink(@, walk.cur)]
  /\ walk' = [walk EXCEPT !.cur = NoTx]
  /\ UNCHANGED <<tx, qentp, ka, dangling>>

(* Mutant: the keepalives of a closed connection are forgotten. *)
Signalled_Never(c) == ka

(* The end of conn_close. *)
Signalled(c) == Signal(c, "signalled")

(* The end of a loop.  After conn_close its callers drop the reference of  *)
(* the stack.                                                              *)
WalkEnd ==
  /\ ~Idle /\ walk.cur = NoTx /\ walk.next = NoTx
  /\ walk' = NoWalk
  /\ \/ walk.op = "estab" /\ UNCHANGED <<conn, ka>>
     \/ /\ walk.op = "close"
        /\ ka' = Signalled(walk.c)
        /\ conn' = [conn EXCEPT ![walk.c].refs = @ - 1, ![walk.c].st =
                      IF conn[walk.c].refs = 1 THEN "freed" ELSE @]
  /\ UNCHANGED <<tx, qentp, dangling>>

----------------------------------------------------------------------------
(* tcp_connect_handler: an incoming connection has time to say something.  *)
(* Nobody looks for another one of the same peer.                          *)
Accept(c, p) ==
  /\ Idle /\ conn[c].st = "none"
  /\ conn' = [conn EXCEPT ![c] = [Fresh EXCEPT
       !.st = "live", !.peer = p, !.tc = TRUE, !.hashed = TRUE, !.refs = 1,
       !.tmr = TRUE]]
  /\ UNCHANGED <<tx, qentp, ka, walk, dangling>>

(* tcp_recv_handler: the timer is stopped; a message is given to the       *)
(* listeners with a reference to the connection, which some of them keep.  *)
Received(c, keeps) ==
  /\ Idle /\ Live(c) /\ conn[c].tc /\ conn[c].established
  /\ keeps => conn[c].held < MaxHeld
  /\ conn' = [conn EXCEPT ![c].tmr = FALSE,
                ![c].refs = IF keeps THEN @ + 1 ELSE @,
                ![c].held = IF keeps THEN @ + 1 ELSE @]
  /\ UNCHANGED <<tx, qentp, ka, walk, dangling>>

(* A held message is released (msg.c destructor).  The last reference      *)
(* frees the connection; of one that was freed before the others let go    *)
(* there is nothing left to count.                                         *)
MsgFreed(c) ==
  /\ Idle /\ conn[c].held > 0
  /\ \/ /\ Live(c) /\ conn[c].refs = 1
        /\ conn' = [conn EXCEPT ![c] = Destroyed(c, conn[c].held - 1)]
        /\ Forget({c})
     \/ /\ Live(c) /\ conn[c].refs # 1
        /\ conn' = [conn EXCEPT ![c].held = @ - 1, ![c].refs = @ - 1]
        /\ UNCHANGED <<qentp, ka>>
     \/ /\ ~Live(c)
        /\ conn' = [conn EXCEPT ![c].held = @ - 1]
        /\ UNCHANGED <<qentp, ka>>
  /\ UNCHANGED <<tx, walk, dangling>>

(* sip_transp_flush, when the stack closes and after a change of network   *)
(* (uag_reset_transp): every connection that can be found loses the        *)
(* reference of the stack, without conn_close.  Those that a held message  *)
(* keeps go on with their socket and their timers.                         *)
Found == {c \in Conn : Live(c) /\ conn[c].hashed}
Unheld == {c \in Found : conn[c].refs = 1}
FlushOne(c) ==
  IF c \in Unheld THEN Destroyed(c, 0)
  ELSE [conn[c] EXCEPT !.hashed = FALSE, !.refs = @ - 1, !.flushed = TRUE]

Flush ==
  /\ Idle /\ Found # {}
  /\ conn' = [c \in Conn |-> IF c \in Found THEN FlushOne(c) ELSE conn[c]]
  /\ Forget(Unheld)
  /\ UNCHANGED <<tx, walk, dangling>>

----------------------------------------------------------------------------
(* sip_keepalive_start and sip_keepalive_tcp *)
KaStart(k, c) ==
  /\ Idle /\ ka[k] = "none" /\ Live(c) /\ conn[c].tc /\ conn[c].established
  /\ ka' = [ka EXCEPT ![k] = c]
  /\ conn' = [conn EXCEPT ![c].tmr_ka = TRUE]
  /\ UNCHANGED <<tx, qentp, walk, dangling>>

(* keepalive.c destructor, by the user *)
KaStop(k) ==
  /\ ka[k] \notin {"none", "signalled"}
  /\ ka' = [ka EXCEPT ![k] = "none"]
  /\ UNCHANGED <<conn, tx, qentp, walk, dangling>>

TranspNext ==
  \/ WalkEnter \/ WalkLeave \/ WalkEnd \/ Flush
  \/ \E t \in Tx : TxEnds(t) \/ Release(t)
  \/ \E t \in Tx, p \in Peer, owned \in BOOLEAN : Send(t, p, owned)
  \/ \E c \in Conn : \/ Closed(c) \/ ConnTimer(c) \/ ConnKeepalive(c)
                     \/ Estab(c) \/ MsgFreed(c)
                     \/ \E keeps \in BOOLEAN : Received(c, keeps)
                     \/ \E p \in Peer : Accept(c, p)
                     \/ \E k \in Ka : KaStart(k, c)
  \/ \E k \in Ka : KaStop(k)

TranspSpec == TranspInit /\ [][TranspNext]_transpVars

----------------------------------------------------------------------------
TranspTypeOK ==
  /\ conn \in [Conn -> [st : {"none", "live", "freed"}, peer : Peer \cup {"nil"},
       tc : BOOLEAN, hashed : BOOLEAN, established : BOOLEAN, ql : Seq(Tx),
       tmr : BOOLEAN, tmr_ka : BOOLEAN, refs : Nat, held : 0 .. MaxHeld,
       flushed : BOOLEAN]]
  /\ tx \in [Tx -> {"idle", "active", "canceled", "reply", "ended"}]
  /\ qentp \in [Tx -> BOOLEAN] /\ dangling \in BOOLEAN
  /\ ka \in [Ka -> Conn \cup {"none", "signalled"}]
  /\ walk \in [op : {"none", "estab", "close"}, c : Conn \cup {NoConn},
               cur : Tx \cup {NoTx}, next : Tx \cup {NoTx}]

(* A connection is freed when its last reference goes and not before: no   *)
(* held message (msg->sock) refers to a freed one.  One case is left out,  *)
(* because the code breaks it: conn_close and the mem_deref after it take  *)
(* the reference of the stack, which a flush had already taken, so they    *)
(* take that of a message.                                                 *)
SockValid ==
  \A c \in Conn :
    conn[c].held > 0 /\ ~(conn[c].flushed /\ ~conn[c].tc) =>
      Live(c) /\ conn[c].refs >= conn[c].held

(* Stronger, and not so: sip_transp_flush runs on a change of network      *)
(* (uag_reset_transp), with a message held, and tcp_close_handler or       *)
(* conn_tmr_handler after it.                                              *)
SockAlways ==
  \A c \in Conn : conn[c].held > 0 => Live(c) /\ conn[c].refs >= conn[c].held

(* The memory of connections and queue entries: a loop over a queue never  *)
(* goes on with an entry that was freed, a transaction's pointer is set    *)
(* exactly while its message waits in the queue of one live connection.    *)
TransportSafe ==
  /\ TranspTypeOK
  /\ SockValid
  /\ ~dangling
  /\ \A t \in Tx :
       /\ Cardinality(Queued(t)) <= 1
       /\ \A c \in Queued(t) : Live(c) /\ tx[t] # "idle"
       /\ qentp[t] => Queued(t) # {} /\ walk.cur # t
       /\ tx[t] \in {"active", "canceled"} /\ Queued(t) # {} =>
            qentp[t] \/ walk.cur = t

(* Nothing is stranded: messages wait only for a connection that may still *)
(* be established, or that a loop is emptying; keepalives are only on a    *)
(* connection whose timer will notice when it fails; requests are given    *)
(* only to connections with a socket; and a connection that nobody can     *)
(* find is kept only by a loop or by messages that will let go of it.      *)
NothingStranded ==
  /\ \A c \in Conn :
       /\ conn[c].ql # <<>> /\ walk.c # c => conn[c].tc /\ ~conn[c].established
       /\ Kal(c) # {} => Live(c) /\ (walk.c = c \/ (conn[c].tc /\ conn[c].tmr_ka))
       /\ Live(c) => conn[c].hashed \/ walk.c = c \/ conn[c].held > 0
  /\ \A p \in Peer : \A c \in conn_find(p) : conn[c].tc

(* Connections, queues and keepalives: nothing freed is used and nothing   *)
(* waits for what will not happen (sip/transp.c).                          *)
TransportSound == TransportSafe /\ NothingStranded
=============================================================================
