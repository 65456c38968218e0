-------------------------------- MODULE Tcp --------------------------------
(***************************************************************************)
(* A TCP connection (tcp/tcp.c): the queue of what the socket did not take *)
(* yet, the events it waits for, and a helper (TLS) between the socket and *)
(* the user.                                                               *)
(*                                                                         *)
(* The user's data is one stream of bytes, counted from 0.  An entry of    *)
(* the queue is the part [pos, end) of it.  The users of this library send *)
(* after the connection is established and never more than the queue can   *)
(* hold at once (TCP_TXQSZ_DEFAULT is half a megabyte): ChunkAssumption.   *)
(***************************************************************************)
EXTENDS Naturals, Sequences

CONSTANTS
  Chunk,       \* sizes of the messages that are sent
  TxqMax,      \* txqsz_max
  MaxStream    \* bound on the bytes of a run

ASSUME ChunkAssumption ==
  /\ TxqMax \in Nat /\ MaxStream \in Nat
  /\ Chunk \subseteq 1 .. TxqMax

VARIABLES
  tcp,         \* "none", "connecting", "connected", "closed" or "freed"
  sendq,       \* the sending queue
  txqsz,       \* bytes in it
  poll,        \* the events fd_listen asked for
  sendh,       \* a send handler is set (tcp_set_send)
  helper,      \* "none", "hello" (the TLS handshake) or "up"
  told,        \* what the user was told last: "no", "estab" or "close"
  accepted,    \* bytes that tcp_send took without an error
  wire,        \* bytes that the socket took
  broken       \* the socket was given bytes that were not the next ones

tcpVars ==
  <<tcp, sendq, txqsz, poll, sendh, helper, told, accepted, wire, broken>>

TcpInit ==
  /\ tcp = "none" /\ sendq = <<>> /\ txqsz = 0 /\ poll = {} /\ sendh = FALSE
  /\ helper = "none" /\ told = "no" /\ accepted = 0 /\ wire = 0
  /\ broken = FALSE

Read == {"read"}
ReadWrite == {"read", "write"}

(* send(): the socket takes n bytes that start at pos. *)
Put(pos, n) ==
  /\ wire' = wire + n
  /\ broken' = (broken \/ (n > 0 /\ pos # wire))

NothingSent == UNCHANGED <<accepted, wire, broken>>

----------------------------------------------------------------------------
(* tcp_conn_alloc and tcp_conn_connect, or tcp_accept: the descriptor is   *)
(* watched for reading and writing.  With a failure the user has nothing.  *)
TcpConnect ==
  /\ tcp = "none"
  /\ \/ /\ tcp' = "connecting" /\ poll' = ReadWrite
        /\ helper' \in {"none", "hello"}
     \/ tcp' = "freed" /\ UNCHANGED <<poll, helper>>
  /\ UNCHANGED <<sendq, txqsz, sendh, told>> /\ NothingSent

(* Mutant: the descriptor is watched for writing only after a partial send. *)
Enqueue_NoPoll(n, sent) ==
  /\ sendq' = Append(sendq, [pos |-> accepted + sent, end |-> accepted + n])
  /\ txqsz' = txqsz + (n - sent)
  /\ poll' = IF sendq = <<>> /\ ~sendh /\ sent > 0 THEN ReadWrite ELSE poll

(* enqueue: what is left of a message of n bytes *)
Enqueue(n, sent) ==
  /\ sendq' = Append(sendq, [pos |-> accepted + sent, end |-> accepted + n])
  /\ txqsz' = txqsz + (n - sent)
  /\ poll' = IF sendq = <<>> /\ ~sendh THEN ReadWrite ELSE poll

(* Mutant: a message is sent at once although others wait. *)
SendNow_Always(n) == TRUE

(* tcp_send_internal asks the socket only when nothing waits before. *)
SendNow(n) == sendq = <<>>

(* tcp_send, tcp_send_helper and tcp_send_internal: an error (ENOSPC       *)
(* included) takes nothing; the socket takes all, a part or (EAGAIN)       *)
(* nothing of a message, and the rest waits.                               *)
TcpSend(n) ==
  /\ tcp = "connected" /\ told = "estab"
  /\ accepted + n <= MaxStream
  /\ \/ /\ SendNow(n)
        /\ \E k \in 0 .. n :
             /\ Put(accepted, k)
             /\ IF k = n THEN UNCHANGED <<sendq, txqsz, poll>>
                ELSE txqsz + (n - k) <= TxqMax /\ Enqueue(n, k)
     \/ /\ ~SendNow(n)
        /\ txqsz + n <= TxqMax
        /\ Enqueue(n, 0) /\ UNCHANGED <<wire, broken>>
  /\ accepted' = accepted + n
  /\ UNCHANGED <<tcp, sendh, helper, told>>

(* tcp_set_send *)
TcpSetSend(on) ==
  /\ tcp = "connected" /\ told = "estab" /\ sendh # on
  /\ sendh' = on
  /\ poll' = IF sendq # <<>> \/ ~on THEN poll ELSE ReadWrite
  /\ UNCHANGED <<tcp, sendq, txqsz, helper, told>> /\ NothingSent

(* conn_close: the user is told, and may release the connection at once. *)
TcpClose ==
  /\ tcp \in {"connecting", "connected"} /\ poll # {}
  /\ tcp' \in {"closed", "freed"} /\ told' = "close"
  /\ sendq' = <<>> /\ txqsz' = 0 /\ poll' = {}
  /\ UNCHANGED <<sendh, helper>> /\ NothingSent

(* conn_destructor, by the user or (with nrefs = 1) in the send handler *)
TcpFree ==
  /\ tcp \in {"connecting", "connected", "closed"}
  /\ tcp' = "freed" /\ sendq' = <<>> /\ txqsz' = 0 /\ poll' = {}
  /\ UNCHANGED <<sendh, helper, told>> /\ NothingSent

(* tcp_recv_handler, FD_WRITE on a connection that was not up: the helper, *)
(* which starts its handshake, or the user is told.                        *)
TcpEstablished ==
  /\ tcp = "connecting" /\ "write" \in poll
  /\ tcp' = "connected" /\ poll' = Read
  /\ told' = IF helper = "none" THEN "estab" ELSE told
  /\ UNCHANGED <<sendq, txqsz, sendh, helper>> /\ NothingSent

(* tcp_recv_handler, data: the helper takes what is its own, and says when *)
(* it is up.                                                               *)
TcpHelperUp ==
  /\ tcp = "connected" /\ "read" \in poll /\ helper = "hello"
  /\ helper' = "up" /\ told' = "estab"
  /\ UNCHANGED <<tcp, sendq, txqsz, poll, sendh>> /\ NothingSent

(* Mutant: an entry leaves the queue once anything of it was sent. *)
Dequeue_Whole(n) ==
  /\ Put(sendq[1].pos, n) /\ txqsz' = txqsz - n
  /\ sendq' = IF n = 0 THEN sendq ELSE Tail(sendq)

(* dequeue: the socket takes n bytes of the first entry. *)
Dequeue(n) ==
  /\ Put(sendq[1].pos, n)
  /\ txqsz' = txqsz - n
  /\ sendq' = IF sendq[1].pos + n >= sendq[1].end THEN Tail(sendq)
              ELSE [sendq EXCEPT ![1].pos = @ + n]

(* Mutant: writing is no longer watched after each entry. *)
StopWriting_Early == ~sendh

(* After the queue ran empty. *)
StopWriting == sendq' = <<>> /\ ~sendh

(* tcp_recv_handler, FD_WRITE: dequeue, or the send handler, which the     *)
(* other actions of the user stand for.                                    *)
TcpWritable(n) ==
  /\ tcp = "connected" /\ "write" \in poll
  /\ \/ sendq # <<>> /\ n <= sendq[1].end - sendq[1].pos /\ Dequeue(n)
     \/ sendq = <<>> /\ n = 0 /\ UNCHANGED <<sendq, txqsz, wire, broken>>
  /\ poll' = IF StopWriting THEN Read ELSE poll
  /\ UNCHANGED <<tcp, sendh, helper, told, accepted>>

TcpNext ==
  \/ TcpConnect \/ TcpClose \/ TcpFree \/ TcpEstablished \/ TcpHelperUp
  \/ \E n \in Chunk : TcpSend(n)
  \/ \E on \in BOOLEAN : TcpSetSend(on)
  \/ \E n \in 0 .. TxqMax : TcpWritable(n)

TcpSpec == TcpInit /\ [][TcpNext]_tcpVars

(* A peer that reads makes the socket writable again and again. *)
TcpFairness == WF_tcpVars(\E n \in 1 .. TxqMax : TcpWritable(n))

----------------------------------------------------------------------------
TcpTypeOK ==
  /\ tcp \in {"none", "connecting", "connected", "closed", "freed"}
  /\ sendq \in Seq([pos : Nat, end : Nat])
  /\ txqsz \in 0 .. TxqMax
  /\ poll \in SUBSET ReadWrite /\ sendh \in BOOLEAN
  /\ helper \in {"none", "hello", "up"} /\ told \in {"no", "estab", "close"}
  /\ accepted \in Nat /\ wire \in Nat /\ broken \in BOOLEAN

(* The entries are what lies between the bytes sent and the bytes taken. *)
Contiguous ==
  /\ \A i \in 1 .. Len(sendq) : sendq[i].pos < sendq[i].end
  /\ \A i \in 1 .. Len(sendq) - 1 : sendq[i].end = sendq[i + 1].pos
  /\ sendq # <<>> => sendq[1].pos = wire /\ sendq[Len(sendq)].end = accepted
  /\ tcp = "connected" /\ sendq = <<>> => wire = accepted

(* The bytes reach the socket in the order in which tcp_send took them,    *)
(* none twice and none left out, through partial writes and a queue that   *)
(* runs full and empty; txqsz, which limits the queue, counts exactly the  *)
(* bytes in it.                                                            *)
StreamIntact ==
  /\ TcpTypeOK
  /\ ~broken
  /\ Contiguous
  /\ tcp = "connected" => txqsz = accepted - wire

(* A connection with something to send waits for the socket to take it,    *)
(* and the data goes out unless the connection ends.                       *)
Drained == (tcp = "connected" /\ sendq # <<>>) ~>
             (tcp # "connected" \/ wire = accepted)
=============================================================================
