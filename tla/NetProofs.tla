------------------------------ MODULE NetProofs ------------------------------
(***************************************************************************)
(* Proofs about what is under the SIP stack and beside it: the stream of a *)
(* TCP connection, the transactions of BFCP on one, the NAT traversal      *)
(* session of a call, and the clients of STUN and TURN.                    *)
(***************************************************************************)
EXTENDS Tcp, BfcpSock, MediaNat, StunTurn, SequenceTheorems, FiniteSetTheorems, TLAPS

(* The queue and its connection: something waits only on a connection that *)
(* is up, and nothing was sent before it was.                              *)
QueueOfConnection ==
  /\ sendq # <<>> => tcp = "connected"
  /\ tcp \in {"none", "connecting"} => accepted = 0 /\ wire = 0 /\ txqsz = 0

(* No entry ends behind the last byte that was taken. *)
Between ==
  /\ wire <= accepted
  /\ \A i \in 1 .. Len(sendq) : sendq[i].end <= accepted

(* The inductive invariant of a connection. *)
TcpInv == StreamIntact /\ QueueOfConnection /\ Between

(* The queue is a sequence of parts of the stream. *)
LEMMA QueueTypes ==
  ASSUME NEW q \in Seq([pos : Nat, end : Nat])
  PROVE  /\ Len(q) \in Nat
         /\ \A i \in 1 .. Len(q) : q[i].pos \in Nat /\ q[i].end \in Nat
         /\ q = <<>> <=> Len(q) = 0
<1>1. \A i \in 1 .. Len(q) : q[i] \in [pos : Nat, end : Nat]
  BY ElementOfSeq
<1>2. \A i \in 1 .. Len(q) : q[i].pos \in Nat /\ q[i].end \in Nat
  BY <1>1
<1> QED
  BY <1>2, EmptySeq, LenProperties

(* A new connection has an empty queue (tcp_conn_alloc). *)
LEMMA TcpInitInv == TcpInit => TcpInv
<1> SUFFICES ASSUME TcpInit PROVE TcpInv
  OBVIOUS
<1>1. Len(sendq) = 0
  BY DEF TcpInit
<1>2. TcpTypeOK
  <2>1. <<>> \in Seq([pos : Nat, end : Nat])
    BY EmptySeq
  <2>2. sendq \in Seq([pos : Nat, end : Nat])
    BY <2>1 DEF TcpInit
  <2>3. txqsz \in 0 .. TxqMax /\ accepted \in Nat /\ wire \in Nat
    BY ChunkAssumption DEF TcpInit
  <2> QED
    BY <2>2, <2>3 DEF TcpInit, TcpTypeOK
<1>3. Contiguous /\ Between
  BY <1>1 DEF TcpInit, Contiguous, Between
<1> QED
  BY <1>2, <1>3 DEF TcpInit, TcpInv, StreamIntact, QueueOfConnection

(* What waits is appended to the queue (enqueue, tcp.c). *)
LEMMA EnqueueInv ==
  ASSUME TcpInv, NEW n \in Chunk, NEW k \in 0 .. n - 1,
         tcp = "connected", txqsz + (n - k) <= TxqMax,
         Enqueue(n, k), sendq = <<>> \/ k = 0,
         wire' = wire + k, broken' = FALSE,
         accepted' = accepted + n,
         UNCHANGED <<tcp, sendh, helper, told>>
  PROVE  TcpInv'
<1>1. n \in Nat /\ n >= 1 /\ k \in Nat
  BY ChunkAssumption
<1> DEFINE e == [pos |-> accepted + k, end |-> accepted + n]
<1>0. sendq \in Seq([pos : Nat, end : Nat])
  BY DEF TcpInv, StreamIntact, TcpTypeOK
<1>2. /\ accepted \in Nat /\ wire \in Nat
      /\ txqsz \in 0 .. TxqMax /\ TxqMax \in Nat
  BY ChunkAssumption DEF TcpInv, StreamIntact, TcpTypeOK
<1>3. e \in [pos : Nat, end : Nat]
  BY <1>1, <1>2
<1>11. sendq' \in Seq([pos : Nat, end : Nat])
  BY <1>0, <1>3, AppendProperties DEF Enqueue
<1>4. /\ Len(sendq') = Len(sendq) + 1
      /\ \A i \in 1 .. Len(sendq) : sendq'[i] = sendq[i]
      /\ sendq'[Len(sendq) + 1] = e
      /\ sendq' # <<>>
  BY <1>0, <1>3, AppendProperties DEF Enqueue
<1> HIDE DEF e
<1>5. e.pos = accepted + k /\ e.end = accepted + n
  BY DEF e
<1>10. /\ Len(sendq) \in Nat
       /\ \A i \in 1 .. Len(sendq) : sendq[i].pos \in Nat /\ sendq[i].end \in Nat
       /\ sendq = <<>> <=> Len(sendq) = 0
  BY <1>0, QueueTypes
<1>6. TcpTypeOK'
  <2>1. txqsz' \in 0 .. TxqMax /\ accepted' \in Nat /\ wire' \in Nat
    BY <1>1, <1>2 DEF Enqueue
  <2>2. poll' \in SUBSET ReadWrite
    BY DEF TcpInv, StreamIntact, TcpTypeOK, Enqueue, ReadWrite
  <2> QED
    BY <1>11, <2>1, <2>2 DEF TcpInv, StreamIntact, TcpTypeOK
<1>7. Contiguous'
  <2>0. /\ sendq = <<>> => wire = accepted
        /\ sendq # <<>> => sendq[1].pos = wire /\ sendq[Len(sendq)].end = accepted
        /\ \A i \in 1 .. Len(sendq) : sendq[i].pos < sendq[i].end
        /\ \A i \in 1 .. Len(sendq) - 1 : sendq[i].end = sendq[i + 1].pos
    BY DEF TcpInv, StreamIntact, Contiguous
  <2>1. \A i \in 1 .. Len(sendq') : sendq'[i].pos < sendq'[i].end
    BY <1>1, <1>2, <1>4, <1>5, <1>10, <2>0
  <2>2. \A i \in 1 .. Len(sendq') - 1 : sendq'[i].end = sendq'[i + 1].pos
    <3> SUFFICES ASSUME NEW i \in 1 .. Len(sendq)
                 PROVE  sendq'[i].end = sendq'[i + 1].pos
      BY <1>4, <1>10
    <3>1. CASE i = Len(sendq)
      <4>1. k = 0
        BY <3>1, <1>10
      <4> QED
        BY <4>1, <3>1, <1>2, <1>4, <1>5, <1>10, <2>0
    <3>2. CASE i # Len(sendq)
      BY <3>2, <1>4, <1>10, <2>0
    <3> QED
      BY <3>1, <3>2
  <2>3. sendq'[1].pos = wire' /\ sendq'[Len(sendq')].end = accepted'
    <3>1. CASE sendq = <<>>
      BY <3>1, <1>1, <1>2, <1>4, <1>5, <1>10, <2>0
    <3>2. CASE sendq # <<>>
      <4>1. k = 0
        BY <3>2
      <4> QED
        BY <3>2, <4>1, <1>2, <1>4, <1>5, <1>10, <2>0
    <3> QED
      BY <3>1, <3>2
  <2> QED
    BY <2>1, <2>2, <2>3, <1>4 DEF Contiguous
<1>8. (tcp = "connected" => txqsz = accepted - wire)'
  BY <1>1, <1>2 DEF TcpInv, StreamIntact, Enqueue
<1>9. QueueOfConnection' /\ Between'
  <2>1. wire' <= accepted' /\ wire <= wire' /\ accepted <= accepted'
    BY <1>1, <1>2 DEF TcpInv, Between
  <2>2. \A i \in 1 .. Len(sendq') : sendq'[i].end <= accepted'
    <3> SUFFICES ASSUME NEW i \in 1 .. Len(sendq) + 1
                 PROVE  sendq'[i].end <= accepted'
      BY <1>4
    <3>1. CASE i = Len(sendq) + 1
      BY <3>1, <1>1, <1>2, <1>4, <1>5 DEF TcpInv, Between
    <3>2. CASE i # Len(sendq) + 1
      BY <3>2, <2>1, <1>2, <1>4, <1>10 DEF TcpInv, Between
    <3> QED
      BY <3>1, <3>2
  <2> QED
    BY <2>1, <2>2, <1>4 DEF QueueOfConnection, Between
<1> QED
  BY <1>6, <1>7, <1>8, <1>9 DEF TcpInv, StreamIntact

(* The first entry of the queue loses n bytes (dequeue, tcp.c). *)
LEMMA DequeueInv ==
  ASSUME TcpInv, NEW n \in 0 .. TxqMax,
         tcp = "connected", sendq # <<>>, n <= sendq[1].end - sendq[1].pos,
         Dequeue(n), poll' \in SUBSET ReadWrite,
         UNCHANGED <<tcp, sendh, helper, told, accepted>>
  PROVE  TcpInv'
<1>0. sendq \in Seq([pos : Nat, end : Nat])
  BY DEF TcpInv, StreamIntact, TcpTypeOK
<1>1. /\ Len(sendq) \in Nat /\ Len(sendq) > 0
      /\ \A i \in 1 .. Len(sendq) : sendq[i].pos \in Nat /\ sendq[i].end \in Nat
  BY <1>0, QueueTypes
<1>2. /\ accepted \in Nat /\ wire \in Nat /\ n \in Nat
      /\ txqsz \in 0 .. TxqMax /\ TxqMax \in Nat /\ ~broken
      /\ txqsz = accepted - wire
  BY ChunkAssumption DEF TcpInv, StreamIntact, TcpTypeOK
<1>3. /\ sendq[1].pos = wire /\ sendq[Len(sendq)].end = accepted
      /\ \A i \in 1 .. Len(sendq) : sendq[i].pos < sendq[i].end
      /\ \A i \in 1 .. Len(sendq) - 1 : sendq[i].end = sendq[i + 1].pos
      /\ \A i \in 1 .. Len(sendq) : sendq[i].end <= accepted
  BY DEF TcpInv, StreamIntact, Contiguous, Between
<1>8. /\ Put(sendq[1].pos, n) /\ txqsz' = txqsz - n
      /\ sendq[1].pos + n >= sendq[1].end => sendq' = Tail(sendq)
      /\ ~(sendq[1].pos + n >= sendq[1].end) =>
           sendq' = [sendq EXCEPT ![1].pos = @ + n]
  BY DEF Dequeue
<1>9. 1 \in 1 .. Len(sendq) /\ sendq[1].pos \in Nat /\ sendq[1].end \in Nat
  BY <1>1
<1>4. /\ wire' = wire + n /\ ~broken' /\ broken' \in BOOLEAN
      /\ wire' <= sendq[1].end /\ sendq[1].end <= accepted
      /\ txqsz' = txqsz - n
  <2>1. wire' = wire + n /\ ~broken' /\ broken' \in BOOLEAN
    BY <1>2, <1>3, <1>8 DEF Put
  <2>2. wire + n <= sendq[1].end
    BY <1>2, <1>3, <1>9
  <2> QED
    BY <2>1, <2>2, <1>3, <1>8, <1>9
<1>5. /\ wire' \in Nat /\ accepted' \in Nat /\ txqsz' \in 0 .. TxqMax
      /\ txqsz' = accepted' - wire' /\ wire' <= accepted'
  BY <1>1, <1>2, <1>3, <1>4
<1>6. CASE sendq[1].pos + n >= sendq[1].end
  <2>1. sendq' = Tail(sendq) /\ wire' = sendq[1].end
    <3>1. wire' = sendq[1].end
      BY <1>2, <1>3, <1>4, <1>6, <1>9
    <3> QED
      BY <3>1, <1>6, <1>8
  <2>2. sendq' \in Seq([pos : Nat, end : Nat])
    BY <2>1, <1>0, HeadTailProperties
  <2>3. /\ Len(sendq') = Len(sendq) - 1
        /\ \A i \in 1 .. Len(sendq) - 1 : sendq'[i] = sendq[i + 1]
    BY <2>1, <1>0, HeadTailProperties
  <2>4. sendq' = <<>> <=> Len(sendq') = 0
    BY <2>2, QueueTypes
  <2>5. TcpTypeOK'
    BY <2>2, <1>4, <1>5 DEF TcpInv, StreamIntact, TcpTypeOK
  <2>6. Contiguous'
    <3>0. \A i \in 1 .. Len(sendq') : i + 1 \in 1 .. Len(sendq) /\ sendq'[i] = sendq[i + 1]
      BY <2>3, <1>1
    <3>1. \A i \in 1 .. Len(sendq') : sendq'[i].pos < sendq'[i].end
      BY <3>0, <1>3
    <3>2. \A i \in 1 .. Len(sendq') - 1 : sendq'[i].end = sendq'[i + 1].pos
      <4> TAKE i \in 1 .. Len(sendq') - 1
      <4>1. /\ i \in 1 .. Len(sendq') /\ i + 1 \in 1 .. Len(sendq')
            /\ i + 1 \in 1 .. Len(sendq) - 1
        BY <2>3, <1>1
      <4>2. sendq'[i] = sendq[i + 1] /\ sendq'[i + 1] = sendq[(i + 1) + 1]
        BY <4>1, <3>0
      <4> QED
        BY <4>1, <4>2, <1>3
    <3>3. sendq' # <<>> => sendq'[1].pos = wire' /\ sendq'[Len(sendq')].end = accepted'
      <4> SUFFICES ASSUME Len(sendq') > 0
                   PROVE  sendq'[1].pos = wire' /\ sendq'[Len(sendq')].end = accepted'
        BY <2>3, <2>4, <1>1
      <4>1. sendq'[1] = sendq[2] /\ sendq[1].end = sendq[2].pos
        BY <2>3, <1>1, <1>3
      <4>2. sendq'[Len(sendq')] = sendq[Len(sendq)]
        BY <2>3, <1>1
      <4> QED
        BY <4>1, <4>2, <2>1, <1>3
    <3>4. sendq' = <<>> => wire' = accepted'
      <4> SUFFICES ASSUME Len(sendq') = 0 PROVE wire' = accepted'
        BY <2>4
      <4>1. Len(sendq) = 1
        BY <2>3, <1>1
      <4> QED
        BY <4>1, <2>1, <1>3
    <3> QED
      BY <3>1, <3>2, <3>3, <3>4 DEF Contiguous
  <2>7. Between'
    BY <2>3, <1>1, <1>3, <1>5 DEF Between
  <2> QED
    BY <2>5, <2>6, <2>7, <1>4, <1>5 DEF TcpInv, StreamIntact, QueueOfConnection
<1>7. CASE ~(sendq[1].pos + n >= sendq[1].end)
  <2> DEFINE e == [sendq[1] EXCEPT !.pos = @ + n]
  <2>0. sendq[1] \in [pos : Nat, end : Nat] /\ 1 \in 1 .. Len(sendq)
    BY <1>0, <1>9, ElementOfSeq
  <2>1. sendq' = [sendq EXCEPT ![1] = e]
    BY <1>7, <1>8
  <2>2. e \in [pos : Nat, end : Nat]
    BY <2>0, <1>2
  <2>3. e.pos = sendq[1].pos + n /\ e.end = sendq[1].end
    BY <2>0
  <2> HIDE DEF e
  <2>4. sendq' \in Seq([pos : Nat, end : Nat])
    BY <2>0, <2>1, <2>2, <1>0, ExceptSeq
  <2>5. /\ Len(sendq') = Len(sendq)
        /\ \A j \in 1 .. Len(sendq) : sendq'[j] = IF j = 1 THEN e ELSE sendq[j]
    BY <2>0, <2>1, <2>2, <1>0, ExceptSeq
  <2>6. \A j \in 1 .. Len(sendq) :
          /\ sendq'[j].end = sendq[j].end
          /\ j # 1 => sendq'[j].pos = sendq[j].pos
    BY <2>3, <2>5
  <2>7. sendq'[1].pos = wire' /\ sendq'[1].pos < sendq'[1].end /\ sendq' # <<>>
    <3>1. sendq'[1] = e
      BY <2>0, <2>5
    <3>2. sendq' # <<>>
      BY <2>4, <2>5, <1>1, QueueTypes
    <3> QED
      BY <3>1, <3>2, <2>0, <2>3, <1>1, <1>2, <1>3, <1>4, <1>7
  <2>8. TcpTypeOK'
    BY <2>4, <1>4, <1>5 DEF TcpInv, StreamIntact, TcpTypeOK
  <2>9. Contiguous' /\ Between'
    <3>1. \A i \in 1 .. Len(sendq') : sendq'[i].pos < sendq'[i].end
      BY <2>5, <2>6, <2>7, <1>1, <1>3
    <3>2. \A i \in 1 .. Len(sendq') - 1 : sendq'[i].end = sendq'[i + 1].pos
      BY <2>5, <2>6, <1>1, <1>3
    <3>3. sendq'[Len(sendq')].end = accepted'
      BY <2>5, <2>6, <1>1, <1>3
    <3>4. \A i \in 1 .. Len(sendq') : sendq'[i].end <= accepted'
      BY <2>5, <2>6, <1>3
    <3> QED
      BY <3>1, <3>2, <3>3, <3>4, <2>7, <1>5 DEF Contiguous, Between
  <2> QED
    BY <2>8, <2>9, <1>4, <1>5 DEF TcpInv, StreamIntact, QueueOfConnection
<1> QED
  BY <1>6, <1>7

(* Every step of a connection keeps the invariant. *)
LEMMA TcpNextInv == TcpInv /\ [TcpNext]_tcpVars => TcpInv'
<1> SUFFICES ASSUME TcpInv, [TcpNext]_tcpVars PROVE TcpInv'
  OBVIOUS
<1>0. /\ accepted \in Nat /\ wire \in Nat /\ txqsz \in 0 .. TxqMax /\ TxqMax \in Nat
      /\ ~broken /\ broken \in BOOLEAN /\ poll \in SUBSET ReadWrite
  BY ChunkAssumption DEF TcpInv, StreamIntact, TcpTypeOK
<1>e. /\ <<>> \in Seq([pos : Nat, end : Nat]) /\ Len(<<>>) = 0
  BY EmptySeq
<1>1. CASE TcpConnect
  BY <1>1 DEF TcpConnect, NothingSent, TcpInv, StreamIntact, TcpTypeOK, Contiguous,
              QueueOfConnection, Between, ReadWrite
<1>2. CASE TcpClose \/ TcpFree
  <2>1. /\ sendq' = <<>> /\ txqsz' = 0 /\ poll' = {} /\ tcp' \in {"closed", "freed"}
        /\ told' \in {told, "close"} /\ UNCHANGED <<sendh, helper, accepted, wire, broken>>
    BY <1>2 DEF TcpClose, TcpFree, NothingSent
  <2>2. TcpTypeOK'
    <3>1. txqsz' \in 0 .. TxqMax
      BY <2>1, <1>0
    <3>2. sendq' \in Seq([pos : Nat, end : Nat])
      BY <2>1, <1>e
    <3> QED
      BY <2>1, <3>1, <3>2 DEF TcpInv, StreamIntact, TcpTypeOK
  <2>3. Len(sendq') = 0
    BY <2>1, <1>e
  <2>4. Contiguous' /\ Between'
    BY <2>1, <2>3 DEF Contiguous, Between, TcpInv
  <2> QED
    BY <2>1, <2>2, <2>4 DEF TcpInv, StreamIntact, QueueOfConnection
<1>3. CASE TcpEstablished
  BY <1>3 DEF TcpEstablished, NothingSent, TcpInv, StreamIntact, TcpTypeOK, Contiguous,
              QueueOfConnection, Between, Read, ReadWrite
<1>4. CASE TcpHelperUp
  BY <1>4 DEF TcpHelperUp, NothingSent, TcpInv, StreamIntact, TcpTypeOK, Contiguous,
              QueueOfConnection, Between
<1>5. ASSUME NEW n \in Chunk, TcpSend(n) PROVE TcpInv'
  <2>0. n \in Nat /\ n >= 1
    BY ChunkAssumption
  <2>1. /\ tcp = "connected" /\ accepted' = accepted + n
        /\ UNCHANGED <<tcp, sendh, helper, told>>
    BY <1>5 DEF TcpSend
  <2>2. ASSUME sendq = <<>>, NEW k \in 0 .. n, Put(accepted, k),
               IF k = n THEN UNCHANGED <<sendq, txqsz, poll>>
               ELSE txqsz + (n - k) <= TxqMax /\ Enqueue(n, k)
        PROVE  TcpInv'
    <3>1. wire = accepted
      BY <2>1, <2>2 DEF TcpInv, StreamIntact, Contiguous
    <3>2. wire' = wire + k /\ broken' = FALSE
      BY <2>2, <3>1, <1>0 DEF Put
    <3>3. CASE k = n
      <4>1. UNCHANGED <<sendq, txqsz, poll>> /\ wire' = accepted'
        BY <2>1, <2>2, <3>1, <3>2, <3>3
      <4>2. accepted' \in Nat /\ wire' \in Nat /\ accepted' - wire' = accepted - wire
        BY <4>1, <2>0, <2>1, <1>0, <3>1
      <4>3. TcpTypeOK'
        BY <4>1, <4>2, <2>1, <3>2 DEF TcpInv, StreamIntact, TcpTypeOK
      <4>4. Len(sendq') = 0
        BY <4>1, <2>2, <1>e
      <4>5. Contiguous' /\ Between'
        BY <4>1, <4>2, <4>4, <2>2 DEF Contiguous, Between
      <4> QED
        BY <4>1, <4>2, <4>3, <4>5, <2>1, <3>2, <2>2
        DEF TcpInv, StreamIntact, QueueOfConnection
    <3>4. CASE k # n
      <4>1. k \in 0 .. n - 1
        BY <3>4, <2>0
      <4>2. txqsz + (n - k) <= TxqMax /\ Enqueue(n, k)
        BY <2>2, <3>4
      <4> QED
        BY <4>1, <4>2, <3>2, <2>1, <2>2, EnqueueInv
    <3> QED
      BY <3>3, <3>4
  <2>3. ASSUME txqsz + n <= TxqMax, Enqueue(n, 0), UNCHANGED <<wire, broken>>
        PROVE  TcpInv'
    <3>1. 0 \in 0 .. n - 1 /\ txqsz + (n - 0) <= TxqMax /\ wire' = wire + 0
      BY <2>0, <2>3, <1>0
    <3>2. broken' = FALSE
      BY <2>3, <1>0
    <3> QED
      BY <3>1, <3>2, <2>1, <2>3, EnqueueInv
  <2> QED
    BY <1>5, <2>2, <2>3 DEF TcpSend, SendNow
<1>6. ASSUME NEW on \in BOOLEAN, TcpSetSend(on) PROVE TcpInv'
  <2>1. sendh' \in BOOLEAN /\ poll' \in SUBSET ReadWrite
    BY <1>0, <1>6 DEF TcpSetSend, ReadWrite
  <2> QED
    BY <2>1, <1>6 DEF TcpSetSend, NothingSent, TcpInv, StreamIntact, TcpTypeOK, Contiguous,
              QueueOfConnection, Between
<1>7. ASSUME NEW n \in 0 .. TxqMax, TcpWritable(n) PROVE TcpInv'
  <2>1. poll' \in SUBSET ReadWrite /\ tcp = "connected"
    BY <1>0, <1>7 DEF TcpWritable, Read, ReadWrite
  <2>2. UNCHANGED <<tcp, sendh, helper, told, accepted>>
    BY <1>7 DEF TcpWritable
  <2>3. CASE sendq # <<>> /\ n <= sendq[1].end - sendq[1].pos /\ Dequeue(n)
    BY <2>1, <2>2, <2>3, DequeueInv
  <2>4. CASE UNCHANGED <<sendq, txqsz, wire, broken>>
    BY <2>1, <2>2, <2>4 DEF TcpInv, StreamIntact, TcpTypeOK, Contiguous,
              QueueOfConnection, Between
  <2> QED
    BY <2>3, <2>4, <1>7 DEF TcpWritable
<1>8. CASE UNCHANGED tcpVars
  BY <1>8 DEF tcpVars, TcpInv, StreamIntact, TcpTypeOK, Contiguous,
              QueueOfConnection, Between
<1> QED
  BY <1>1, <1>2, <1>3, <1>4, <1>5, <1>6, <1>7, <1>8 DEF TcpNext

(* The bytes that tcp_send took reach the socket in their order, none      *)
(* twice and none left out, and txqsz counts what waits, for every size of *)
(* the messages and of the queue, through every sequence of partial writes *)
(* (tcp_send_internal, enqueue and dequeue in tcp.c).                      *)
THEOREM TcpStream == TcpSpec => []StreamIntact
<1>1. TcpSpec => []TcpInv
  BY TcpInitInv, TcpNextInv, PTL DEF TcpSpec
<1>2. TcpInv => StreamIntact
  BY DEF TcpInv
<1> QED
  BY <1>1, <1>2, PTL

----------------------------------------------------------------------------
(* The requests that have a number, and those that were made. *)
Numbered == {r \in Breq : tid[r] # 0}
Made == {r \in Breq : ct[r] # "none"}

(* A piece with a number is part of the answer to the request that has it. *)
Piece == [tid : 0 .. TidMod - 1, of : Breq \cup {"note"}, p : {"hdr1", "hdr2", "body"}]
OwnPiece == {x \in Piece : x.tid # 0 => x.of \in Breq /\ tid[x.of] = x.tid}

BfcpShape ==
  /\ ct \in [Breq -> {"none", "open", "told", "dropped"}]
  /\ tid \in [Breq -> 0 .. TidMod - 1]
  /\ tidc \in 0 .. TidMod - 1
  /\ DOMAIN answer = Breq
  /\ bconn \in {"none", "connecting", "estab"}
  /\ mbtx \in Seq(Numbered) /\ atpeer \in Seq(Numbered) /\ sentv \in Seq(Numbered)
  /\ back \in Seq(OwnPiece) /\ mbrx \in Seq(OwnPiece)

(* How many numbers were given after n, if c was the last: 0 is left out. *)
Age(n, c) == IF n <= c THEN c - n ELSE c - n + (TidMod - 1)

(* A number is younger than the number of requests made, so that the next  *)
(* one cannot be in use.                                                   *)
NumbersYoung ==
  /\ Made # {} => tidc # 0
  /\ \A r \in Numbered : r \in Made /\ Age(tid[r], tidc) < Cardinality(Made)
  /\ \A r \in OpenReqs : r \in Numbered
  /\ \A r, s \in Numbered : tid[r] = tid[s] => r = s

(* A request is told once, and of its own answer. *)
ToldRight ==
  \A r \in Breq : /\ answer[r] \in {"none", "timeout", r}
                  /\ answer[r] # "none" => ct[r] = "told"

(* What the peer has got was handed to this connection, in this order. *)
InOrderAtPeer ==
  /\ \A i \in DOMAIN atpeer : \E k \in DOMAIN sentv : sentv[k] = atpeer[i]
  /\ \A i, j \in DOMAIN atpeer : i < j =>
       \E k, l \in DOMAIN sentv : k < l /\ sentv[k] = atpeer[i] /\ sentv[l] = atpeer[j]
  /\ bconn = "none" => mbtx = <<>> /\ sentv = <<>>
  /\ bconn # "estab" => atpeer = <<>> /\ stuck = FALSE
  /\ bconn = "connecting" => mbtx = sentv

(* The inductive invariant of a BFCP socket. *)
BfcpInv == BfcpShape /\ NumbersYoung /\ ToldRight /\ InOrderAtPeer

LEMMA BfcpInvSound == BfcpInv => BfcpSound
<1> SUFFICES ASSUME BfcpInv PROVE BfcpSound
  OBVIOUS
<1>1. \A r, s \in OpenReqs : r # s => tid[r] # tid[s]
  BY DEF BfcpInv, NumbersYoung
<1> QED
  BY <1>1 DEF BfcpInv, BfcpSound, ToldRight, InOrderAtPeer

(* A sequence stays one when its set grows. *)
LEMMA SeqGrows ==
  ASSUME NEW S, NEW T, S \subseteq T, NEW s \in Seq(S)
  PROVE  s \in Seq(T)
<1>1. Len(s) \in Nat /\ \A i \in 1 .. Len(s) : s[i] \in T
  BY ElementOfSeq, LenProperties
<1>2. [i \in 1 .. Len(s) |-> s[i]] \in Seq(T)
  BY <1>1
<1>3. s = [i \in 1 .. Len(s) |-> s[i]]
  BY LenProperties
<1> QED
  BY <1>2, <1>3

(* Going on by one number makes every number older by one, and the new one *)
(* is none of those that are young.                                        *)
LEMMA OlderByOne ==
  ASSUME NEW c \in 1 .. TidMod - 1, NEW n \in 1 .. TidMod - 1, NEW k \in Nat,
         k < TidMod - 1, Age(n, c) < k,
         NEW d, d = IF c = TidMod - 1 THEN 1 ELSE c + 1
  PROVE  Age(n, d) < k + 1 /\ n # d
  BY BfcpAssumption DEF Age

(* ctrans_new never gives 0. *)
LEMMA NextNumberIs ==
  ASSUME tidc \in 0 .. TidMod - 1, TidMod \in Nat, TidMod > 1
  PROVE  /\ ctrans_new \in 1 .. TidMod - 1
         /\ ctrans_new = IF tidc = TidMod - 1 THEN 1 ELSE tidc + 1
<1>1. CASE tidc = TidMod - 1
  <2>1. (tidc + 1) % TidMod = 0
    BY <1>1
  <2> QED
    BY <2>1, <1>1 DEF ctrans_new
<1>2. CASE tidc # TidMod - 1
  <2>1. (tidc + 1) % TidMod = tidc + 1
    BY <1>2
  <2> QED
    BY <2>1, <1>2 DEF ctrans_new
<1> QED
  BY <1>1, <1>2

(* A new socket has made no request (bfcp_listen). *)
LEMMA BfcpInitInv == BfcpInit => BfcpInv
<1> SUFFICES ASSUME BfcpInit PROVE BfcpInv
  OBVIOUS
<1>1. TidMod \in Nat /\ tidc \in 0 .. TidMod - 1 /\ 0 \in 0 .. TidMod - 1
  BY BfcpAssumption DEF BfcpInit
<1>2. /\ ct = [r \in Breq |-> "none"] /\ tid = [r \in Breq |-> 0]
      /\ answer = [r \in Breq |-> "none"] /\ bconn = "none" /\ stuck = FALSE
      /\ mbtx = <<>> /\ atpeer = <<>> /\ sentv = <<>> /\ back = <<>> /\ mbrx = <<>>
  BY DEF BfcpInit
<1>3. Numbered = {} /\ Made = {} /\ OpenReqs = {}
  BY <1>2 DEF Numbered, Made, OpenReqs
<1>4. BfcpShape
  <2>1. ct \in [Breq -> {"none", "open", "told", "dropped"}]
    BY <1>2
  <2>2. tid \in [Breq -> 0 .. TidMod - 1]
    BY <1>1, <1>2
  <2>3. DOMAIN answer = Breq
    BY <1>2
  <2> QED
    BY <2>1, <2>2, <2>3, <1>1, <1>2, EmptySeq DEF BfcpShape
<1>5. NumbersYoung
  BY <1>3 DEF NumbersYoung
<1>6. ToldRight
  BY <1>2 DEF ToldRight
<1>7. InOrderAtPeer
  <2>1. DOMAIN atpeer = {}
    <3>1. atpeer \in Seq({}) /\ Len(atpeer) = 0
      BY <1>2, EmptySeq
    <3> QED
      BY <3>1, LenProperties
  <2> QED
    BY <2>1, <1>2 DEF InOrderAtPeer
<1> QED
  BY <1>4, <1>5, <1>6, <1>7 DEF BfcpInv

(* Nothing on a connection: what ConnFreed and a bad header leave. *)
LEMMA NothingThere ==
  ASSUME bconn' = "none", mbtx' = <<>>, stuck' = FALSE, atpeer' = <<>>, sentv' = <<>>,
         back' = <<>>, mbrx' = <<>>
  PROVE  /\ InOrderAtPeer'
         /\ \A S : mbtx' \in Seq(S) /\ atpeer' \in Seq(S) /\ sentv' \in Seq(S)
                   /\ back' \in Seq(S) /\ mbrx' \in Seq(S)
<1>1. DOMAIN atpeer' = {}
  <2>1. atpeer' \in Seq({}) /\ Len(atpeer') = 0
    BY EmptySeq
  <2> QED
    BY <2>1, LenProperties
<1>2. InOrderAtPeer'
  BY <1>1 DEF InOrderAtPeer
<1> QED
  BY <1>2, EmptySeq

(* A request that is made, whether it can be sent or not, gets a number    *)
(* that no other request has (ctrans_new, bfcp_request).                   *)
LEMMA NumberFresh ==
  ASSUME BfcpInv, NEW r \in Breq, ct[r] = "none", tidc' = ctrans_new,
         NEW st \in {"open", "dropped"}, ct' = [ct EXCEPT ![r] = st],
         \/ tid' = [tid EXCEPT ![r] = ctrans_new]
         \/ st = "dropped" /\ tid' = tid
  PROVE  /\ NumbersYoung'
         /\ tidc' \in 0 .. TidMod - 1
         /\ tid' \in [Breq -> 0 .. TidMod - 1]
         /\ tid[r] = 0 /\ tid'[r] \in {0, ctrans_new} /\ ctrans_new # 0
         /\ \A s \in Breq : s # r => tid'[s] = tid[s]
         /\ Numbered \subseteq Numbered' /\ OwnPiece \subseteq OwnPiece'
<1>1. /\ tidc \in 0 .. TidMod - 1 /\ TidMod \in Nat /\ IsFiniteSet(Breq)
      /\ tid \in [Breq -> 0 .. TidMod - 1]
      /\ ct \in [Breq -> {"none", "open", "told", "dropped"}]
      /\ Cardinality(Breq) \in Nat /\ Cardinality(Breq) < TidMod
  BY BfcpAssumption, FS_CardinalityType DEF BfcpInv, BfcpShape
<1>2. Made' = Made \cup {r} /\ r \notin Made /\ Made \subseteq Breq
  BY <1>1 DEF Made
<1>3. /\ IsFiniteSet(Made) /\ Cardinality(Made) \in Nat
      /\ Cardinality(Made') = Cardinality(Made) + 1
  BY <1>1, <1>2, FS_Subset, FS_CardinalityType, FS_AddElement
<1>4. Cardinality(Made) + 1 <= Cardinality(Breq)
  <2>1. Made' \subseteq Breq
    BY <1>2
  <2>2. Cardinality(Made') <= Cardinality(Breq)
    BY <2>1, <1>1, FS_Subset
  <2> QED
    BY <2>2, <1>3
<1> DEFINE k == Cardinality(Made)
<1> DEFINE d == ctrans_new
<1>5. k \in Nat /\ k < TidMod - 1 /\ TidMod > 1 /\ Cardinality(Made') = k + 1
  BY <1>1, <1>3, <1>4
<1>6. d \in 1 .. TidMod - 1 /\ d = IF tidc = TidMod - 1 THEN 1 ELSE tidc + 1
  BY <1>1, <1>5, NextNumberIs
<1>7. tidc' = d /\ (tid' = [tid EXCEPT ![r] = d] \/ (st = "dropped" /\ tid' = tid))
  BY DEF d
<1> HIDE DEF k, d
<1>8. d \in Nat /\ d # 0 /\ d \in 0 .. TidMod - 1 /\ Age(d, d) = 0
  BY <1>1, <1>6 DEF Age
<1>9. tid[r] = 0
  BY <1>2, <1>1 DEF BfcpInv, NumbersYoung, Numbered
<1>10. /\ tid' \in [Breq -> 0 .. TidMod - 1]
       /\ tid'[r] \in {0, d} /\ \A s \in Breq : s # r => tid'[s] = tid[s]
       /\ st = "open" => tid'[r] = d
  BY <1>1, <1>7, <1>8, <1>9
<1>11. \A s \in Numbered : /\ s # r /\ s \in Breq /\ tid'[s] = tid[s] /\ s \in Numbered'
                           /\ s \in Made /\ s \in Made'
                           /\ Age(tid[s], d) < k + 1 /\ tid[s] # d
  <2> TAKE s \in Numbered
  <2>1. s # r /\ s \in Breq /\ s \in Made /\ tid[s] # 0
    BY <1>9 DEF BfcpInv, NumbersYoung, Numbered
  <2>2. tid'[s] = tid[s] /\ s \in Made' /\ s \in Numbered'
    BY <2>1, <1>2, <1>10 DEF Numbered
  <2>3. tid[s] \in 1 .. TidMod - 1 /\ tidc \in 1 .. TidMod - 1
    <3>1. tidc # 0
      BY <2>1 DEF BfcpInv, NumbersYoung
    <3> QED
      BY <2>1, <3>1, <1>1
  <2>4. Age(tid[s], tidc) < k
    BY DEF BfcpInv, NumbersYoung, k
  <2>5. Age(tid[s], d) < k + 1 /\ tid[s] # d
    BY <2>3, <2>4, <1>5, <1>6, OlderByOne
  <2> QED
    BY <2>1, <2>2, <2>5
<1>12. \A s \in Numbered' : s \in Numbered \/ (s = r /\ tid'[s] = d)
  BY <1>10 DEF Numbered
<1>13. NumbersYoung'
  <2>1. tidc' # 0
    BY <1>7, <1>8
  <2>2. \A s \in Numbered' : s \in Made' /\ Age(tid'[s], tidc') < Cardinality(Made')
    <3> TAKE s \in Numbered'
    <3>1. CASE s \in Numbered
      BY <3>1, <1>5, <1>7, <1>11
    <3>2. CASE s = r /\ tid'[s] = d
      <4>1. Age(tid'[s], tidc') = 0
        BY <3>2, <1>7, <1>8
      <4> QED
        BY <4>1, <3>2, <1>2, <1>5
    <3> QED
      BY <3>1, <3>2, <1>12
  <2>3. \A s \in OpenReqs' : s \in Numbered'
    <3> TAKE s \in OpenReqs'
    <3>1. CASE s = r
      BY <3>1, <1>1, <1>8, <1>10 DEF OpenReqs, Numbered
    <3>2. CASE s # r
      <4>1. s \in OpenReqs
        BY <3>2, <1>1 DEF OpenReqs
      <4> QED
        BY <4>1, <1>11 DEF BfcpInv, NumbersYoung
    <3> QED
      BY <3>1, <3>2
  <2>4. \A x, y \in Numbered' : tid'[x] = tid'[y] => x = y
    BY <1>11, <1>12 DEF BfcpInv, NumbersYoung
  <2> QED
    BY <2>1, <2>2, <2>3, <2>4 DEF NumbersYoung
<1>14. OwnPiece \subseteq OwnPiece'
  <2> SUFFICES ASSUME NEW x \in OwnPiece PROVE x \in OwnPiece'
    OBVIOUS
  <2>1. x \in Piece /\ (x.tid # 0 => x.of \in Breq /\ tid[x.of] = x.tid)
    BY DEF OwnPiece
  <2>2. x.tid # 0 => x.of \in Numbered
    BY <2>1 DEF Numbered
  <2>3. x.tid # 0 => tid'[x.of] = x.tid
    BY <2>1, <2>2, <1>11
  <2> QED
    BY <2>1, <2>3 DEF OwnPiece, Piece
<1>15. Numbered \subseteq Numbered'
  BY <1>11
<1> QED
  BY <1>7, <1>8, <1>9, <1>10, <1>13, <1>14, <1>15 DEF d

(* What a step leaves alone: numbers and requests. *)
LEMMA NumbersKept ==
  ASSUME BfcpInv, ct' \in [Breq -> {"none", "open", "told", "dropped"}],
         UNCHANGED <<tid, tidc>>,
         \A r \in Breq : (ct'[r] = "none" <=> ct[r] = "none") /\ (ct'[r] = "open" => ct[r] = "open")
  PROVE  /\ NumbersYoung' /\ Numbered' = Numbered /\ OwnPiece' = OwnPiece
<1>1. Numbered' = Numbered /\ OwnPiece' = OwnPiece
  BY DEF Numbered, OwnPiece, Piece
<1>2. Made' = Made /\ OpenReqs' \subseteq OpenReqs
  BY DEF Made, OpenReqs
<1> QED
  BY <1>1, <1>2 DEF BfcpInv, NumbersYoung

(* bfcp_request when the message can be sent or waits. *)
LEMMA SentInv ==
  ASSUME BfcpInv, NEW r \in Breq, r \in Numbered', SendOk(r),
         Numbered \subseteq Numbered'
  PROVE  /\ InOrderAtPeer'
         /\ mbtx' \in Seq(Numbered') /\ atpeer' \in Seq(Numbered') /\ sentv' \in Seq(Numbered')
         /\ bconn' \in {"connecting", "estab"}
<1>1. mbtx \in Seq(Numbered') /\ atpeer \in Seq(Numbered') /\ sentv \in Seq(Numbered')
  BY SeqGrows DEF BfcpInv, BfcpShape
<1>2. /\ bconn \in {"none", "connecting", "estab"} /\ UNCHANGED stuck
      /\ bconn' = IF bconn = "none" THEN "connecting" ELSE bconn
      /\ sentv' = Append(sentv, r)
      /\ bconn = "estab" => atpeer' = Append(atpeer, r) /\ mbtx' = mbtx
      /\ bconn # "estab" => mbtx' = Append(mbtx, r) /\ atpeer' = atpeer
  BY DEF SendOk, BfcpInv, BfcpShape
<1>3. /\ sentv' \in Seq(Numbered') /\ Len(sentv) \in Nat /\ Len(sentv') = Len(sentv) + 1
      /\ \A k \in 1 .. Len(sentv) : sentv'[k] = sentv[k]
      /\ sentv'[Len(sentv) + 1] = r
      /\ DOMAIN sentv = 1 .. Len(sentv) /\ DOMAIN sentv' = 1 .. Len(sentv) + 1
  BY <1>1, <1>2, AppendProperties, LenProperties
<1>4. /\ \A k \in DOMAIN sentv : k \in DOMAIN sentv' /\ sentv'[k] = sentv[k] /\ k < Len(sentv) + 1
      /\ Len(sentv) + 1 \in DOMAIN sentv'
  BY <1>3
<1>5. CASE bconn = "estab"
  <2>0. atpeer' = Append(atpeer, r) /\ atpeer \in Seq(Numbered') /\ r \in Numbered'
    BY <1>1, <1>2, <1>5
  <2>1. /\ atpeer' \in Seq(Numbered') /\ Len(atpeer) \in Nat
        /\ \A i \in 1 .. Len(atpeer) : atpeer'[i] = atpeer[i]
        /\ atpeer'[Len(atpeer) + 1] = r
        /\ DOMAIN atpeer = 1 .. Len(atpeer) /\ DOMAIN atpeer' = 1 .. Len(atpeer) + 1
    BY <2>0, AppendProperties, LenProperties
  <2>2. \A i \in DOMAIN atpeer' : i \in DOMAIN atpeer \/ i = Len(atpeer) + 1
    BY <2>1
  <2>3. \A i \in DOMAIN atpeer' : \E k \in DOMAIN sentv' : sentv'[k] = atpeer'[i]
    <3> TAKE i \in DOMAIN atpeer'
    <3>1. CASE i \in DOMAIN atpeer
      <4>1. PICK k \in DOMAIN sentv : sentv[k] = atpeer[i]
        BY <3>1 DEF BfcpInv, InOrderAtPeer
      <4> QED
        BY <4>1, <3>1, <2>1, <1>4
    <3>2. CASE i = Len(atpeer) + 1
      BY <3>2, <2>1, <1>3, <1>4
    <3> QED
      BY <3>1, <3>2, <2>2
  <2>4. \A i, j \in DOMAIN atpeer' : i < j =>
          \E k, l \in DOMAIN sentv' : k < l /\ sentv'[k] = atpeer'[i] /\ sentv'[l] = atpeer'[j]
    <3> SUFFICES ASSUME NEW i \in DOMAIN atpeer', NEW j \in DOMAIN atpeer', i < j
                 PROVE  \E k, l \in DOMAIN sentv' :
                          k < l /\ sentv'[k] = atpeer'[i] /\ sentv'[l] = atpeer'[j]
      OBVIOUS
    <3>0. i \in DOMAIN atpeer /\ atpeer'[i] = atpeer[i]
      BY <2>1
    <3>1. CASE j \in DOMAIN atpeer
      <4>1. PICK k \in DOMAIN sentv, l \in DOMAIN sentv :
              k < l /\ sentv[k] = atpeer[i] /\ sentv[l] = atpeer[j]
        BY <3>0, <3>1 DEF BfcpInv, InOrderAtPeer
      <4>2. atpeer'[j] = atpeer[j]
        BY <3>1, <2>1
      <4> QED
        BY <4>1, <4>2, <3>0, <1>4
    <3>2. CASE j = Len(atpeer) + 1
      <4>1. PICK k \in DOMAIN sentv : sentv[k] = atpeer[i]
        BY <3>0 DEF BfcpInv, InOrderAtPeer
      <4>2. atpeer'[j] = sentv'[Len(sentv) + 1]
        BY <3>2, <2>1, <1>3
      <4> QED
        BY <4>1, <4>2, <3>0, <1>4
    <3> QED
      BY <3>1, <3>2, <2>2
  <2> QED
    BY <2>1, <2>3, <2>4, <1>1, <1>2, <1>3, <1>5 DEF InOrderAtPeer
<1>6. CASE bconn # "estab"
  <2>1. atpeer = <<>> /\ atpeer' = <<>> /\ stuck' = FALSE /\ bconn' = "connecting" /\ mbtx = sentv
    BY <1>2, <1>6 DEF BfcpInv, InOrderAtPeer
  <2>2. mbtx' = sentv'
    BY <2>1, <1>2, <1>6
  <2>3. DOMAIN atpeer' = {}
    <3>1. atpeer' \in Seq({}) /\ Len(atpeer') = 0
      BY <2>1, EmptySeq
    <3> QED
      BY <3>1, LenProperties
  <2>4. atpeer' \in Seq(Numbered')
    BY <2>1, EmptySeq
  <2> QED
    BY <2>1, <2>2, <2>3, <2>4, <1>3 DEF InOrderAtPeer
<1> QED
  BY <1>5, <1>6

(* bfcp_request *)
LEMMA BfcpRequestInv ==
  ASSUME BfcpInv, NEW r \in Breq, BfcpRequest(r)
  PROVE  BfcpInv'
<1>1. /\ ct[r] = "none" /\ tidc' = ctrans_new /\ UNCHANGED answer
      /\ \/ /\ SendOk(r) /\ ct' = [ct EXCEPT ![r] = "open"]
            /\ tid' = [tid EXCEPT ![r] = ctrans_new]
         \/ /\ ConnFreed /\ ct' = [ct EXCEPT ![r] = "dropped"] /\ tid' = tid
  BY DEF BfcpRequest
<1>2. /\ ct \in [Breq -> {"none", "open", "told", "dropped"}]
      /\ tid \in [Breq -> 0 .. TidMod - 1] /\ DOMAIN answer = Breq
      /\ back \in Seq(OwnPiece) /\ mbrx \in Seq(OwnPiece)
  BY DEF BfcpInv, BfcpShape
<1>3. ToldRight' /\ ct' \in [Breq -> {"none", "open", "told", "dropped"}]
  <2>1. answer[r] = "none"
    BY <1>1 DEF BfcpInv, ToldRight
  <2>2. PICK st \in {"open", "dropped"} : ct' = [ct EXCEPT ![r] = st]
    BY <1>1
  <2>3. ct' \in [Breq -> {"none", "open", "told", "dropped"}]
    BY <2>2, <1>2
  <2>4. \A s \in Breq : s # r => ct'[s] = ct[s]
    BY <2>2, <1>2
  <2> QED
    BY <2>1, <2>3, <2>4, <1>1 DEF BfcpInv, ToldRight
<1>4. CASE SendOk(r) /\ ct' = [ct EXCEPT ![r] = "open"] /\ tid' = [tid EXCEPT ![r] = ctrans_new]
  <2>1. PICK st \in {"open", "dropped"} : st = "open"
    OBVIOUS
  <2>2. /\ NumbersYoung' /\ tidc' \in 0 .. TidMod - 1 /\ tid' \in [Breq -> 0 .. TidMod - 1]
        /\ ctrans_new # 0
        /\ Numbered \subseteq Numbered' /\ OwnPiece \subseteq OwnPiece'
    BY <2>1, <1>1, <1>4, NumberFresh
  <2>3. r \in Numbered'
    BY <2>2, <1>2, <1>4 DEF Numbered
  <2>4. /\ InOrderAtPeer' /\ mbtx' \in Seq(Numbered') /\ atpeer' \in Seq(Numbered')
        /\ sentv' \in Seq(Numbered') /\ bconn' \in {"connecting", "estab"}
    BY <2>2, <2>3, <1>4, SentInv
  <2>5. back' \in Seq(OwnPiece') /\ mbrx' \in Seq(OwnPiece')
    <3>1. back \in Seq(OwnPiece') /\ mbrx \in Seq(OwnPiece')
      BY <2>2, <1>2, SeqGrows
    <3> QED
      BY <3>1, <1>4 DEF SendOk
  <2> QED
    BY <2>2, <2>4, <2>5, <1>1, <1>2, <1>3 DEF BfcpInv, BfcpShape
<1>5. CASE ConnFreed /\ ct' = [ct EXCEPT ![r] = "dropped"] /\ tid' = tid
  <2>1. PICK st \in {"open", "dropped"} : st = "dropped"
    OBVIOUS
  <2>2. /\ NumbersYoung' /\ tidc' \in 0 .. TidMod - 1 /\ tid' \in [Breq -> 0 .. TidMod - 1]
    BY <2>1, <1>1, <1>5, NumberFresh
  <2>3. /\ bconn' = "none" /\ mbtx' = <<>> /\ stuck' = FALSE /\ atpeer' = <<>>
        /\ sentv' = <<>> /\ back' = <<>> /\ mbrx' = <<>>
    BY <1>5 DEF ConnFreed
  <2>4. /\ InOrderAtPeer'
        /\ mbtx' \in Seq(Numbered') /\ atpeer' \in Seq(Numbered') /\ sentv' \in Seq(Numbered')
        /\ back' \in Seq(OwnPiece') /\ mbrx' \in Seq(OwnPiece')
    BY <2>3, NothingThere
  <2> QED
    BY <2>2, <2>3, <2>4, <1>1, <1>2, <1>3 DEF BfcpInv, BfcpShape
<1> QED
  BY <1>1, <1>4, <1>5

(* The pieces of an answer, and of a message of the peer's own. *)
LEMMA PiecesOwned ==
  ASSUME NEW n \in 0 .. TidMod - 1, NEW o \in Breq \cup {"note"},
         n # 0 => o \in Breq /\ tid[o] = n
  PROVE  Pieces(n, o) \in Seq(OwnPiece)
<1> DEFINE a == [tid |-> n, of |-> o, p |-> "hdr1"]
           b == [tid |-> n, of |-> o, p |-> "hdr2"]
           c == [tid |-> n, of |-> o, p |-> "body"]
<1>1. a \in OwnPiece /\ b \in OwnPiece /\ c \in OwnPiece
  BY DEF OwnPiece, Piece
<1>2. Pieces(n, o) = <<a, b, c>>
  BY DEF Pieces
<1> HIDE DEF a, b, c
<1> QED
  BY <1>1, <1>2

(* The peer takes one of the requests it has got: the others keep their    *)
(* order.                                                                  *)
LEMMA TakenOut ==
  ASSUME BfcpInv, NEW i \in DOMAIN atpeer,
         atpeer' = [j \in 1 .. Len(atpeer) - 1 |-> IF j < i THEN atpeer[j] ELSE atpeer[j + 1]],
         UNCHANGED <<sentv, bconn, mbtx, stuck>>, bconn = "estab"
  PROVE  InOrderAtPeer' /\ atpeer' \in Seq(Numbered)
<1>1. atpeer \in Seq(Numbered) /\ Len(atpeer) \in Nat /\ DOMAIN atpeer = 1 .. Len(atpeer)
  BY LenProperties DEF BfcpInv, BfcpShape
<1>2. i \in 1 .. Len(atpeer) /\ Len(atpeer) - 1 \in Nat
  BY <1>1
<1> DEFINE at(j) == IF j < i THEN j ELSE j + 1
<1>3. DOMAIN atpeer' = 1 .. Len(atpeer) - 1
  OBVIOUS
<1>4. \A j \in 1 .. Len(atpeer) - 1 : at(j) \in DOMAIN atpeer /\ atpeer'[j] = atpeer[at(j)]
  BY <1>1, <1>2
<1>5. \A j, l \in 1 .. Len(atpeer) - 1 : j < l => at(j) < at(l)
  BY <1>1, <1>2
<1> HIDE DEF at
<1>6. \A j \in 1 .. Len(atpeer) - 1 : atpeer'[j] \in Numbered
  BY <1>1, <1>4, ElementOfSeq
<1>7. atpeer' \in Seq(Numbered)
  <2>1. [j \in 1 .. Len(atpeer) - 1 |-> atpeer'[j]] \in Seq(Numbered)
    BY <1>2, <1>6
  <2>2. atpeer' = [j \in 1 .. Len(atpeer) - 1 |-> atpeer'[j]]
    OBVIOUS
  <2> QED
    BY <2>1, <2>2
<1>8. \A j \in DOMAIN atpeer' : \E k \in DOMAIN sentv : sentv[k] = atpeer'[j]
  BY <1>3, <1>4 DEF BfcpInv, InOrderAtPeer
<1>9. \A j, m \in DOMAIN atpeer' : j < m =>
        \E k, l \in DOMAIN sentv : k < l /\ sentv[k] = atpeer'[j] /\ sentv[l] = atpeer'[m]
  <2> SUFFICES ASSUME NEW j \in DOMAIN atpeer', NEW m \in DOMAIN atpeer', j < m
               PROVE  \E k, l \in DOMAIN sentv :
                        k < l /\ sentv[k] = atpeer'[j] /\ sentv[l] = atpeer'[m]
    OBVIOUS
  <2>1. at(j) \in DOMAIN atpeer /\ at(m) \in DOMAIN atpeer /\ at(j) < at(m)
    BY <1>3, <1>4, <1>5
  <2>2. PICK k \in DOMAIN sentv, l \in DOMAIN sentv :
          k < l /\ sentv[k] = atpeer[at(j)] /\ sentv[l] = atpeer[at(m)]
    BY <2>1 DEF BfcpInv, InOrderAtPeer
  <2>3. atpeer'[j] = atpeer[at(j)] /\ atpeer'[m] = atpeer[at(m)]
    BY <1>3, <1>4
  <2> QED
    BY <2>2, <2>3
<1> QED
  BY <1>7, <1>8, <1>9 DEF InOrderAtPeer

(* One round of tcp_recv_handler that finds a whole message: it is the     *)
(* answer of the one open request with its number.                         *)
LEMMA AnsweredInv ==
  ASSUME BfcpInv, mbrx # <<>>,
         ct' = [r \in Breq |-> IF r \in Find(mbrx[1].tid) THEN "told" ELSE ct[r]],
         answer' = [r \in Breq |-> IF r \in Find(mbrx[1].tid) THEN mbrx[1].of ELSE answer[r]],
         UNCHANGED <<tid, tidc>>
  PROVE  /\ ToldRight' /\ NumbersYoung' /\ Numbered' = Numbered /\ OwnPiece' = OwnPiece
         /\ ct' \in [Breq -> {"none", "open", "told", "dropped"}] /\ DOMAIN answer' = Breq
<1> DEFINE x == mbrx[1]
<1>1. x \in OwnPiece
  <2>1. mbrx \in Seq(OwnPiece)
    BY DEF BfcpInv, BfcpShape
  <2>2. Len(mbrx) \in Nat \ {0}
    BY <2>1, EmptySeq
  <2> QED
    BY <2>1, <2>2, ElementOfSeq
<1>2. x.tid # 0 => x.of \in Breq /\ tid[x.of] = x.tid
  BY <1>1 DEF OwnPiece
<1>3. ct \in [Breq -> {"none", "open", "told", "dropped"}]
  BY DEF BfcpInv, BfcpShape
<1>4. \A r \in Find(x.tid) : r \in Breq /\ ct[r] = "open" /\ r = x.of
  <2> TAKE r \in Find(x.tid)
  <2>1. r \in OpenReqs /\ tid[r] = x.tid /\ r \in Breq /\ ct[r] = "open"
    BY DEF Find, OpenReqs
  <2>2. r \in Numbered
    BY <2>1 DEF BfcpInv, NumbersYoung
  <2>3. x.of \in Numbered /\ tid[x.of] = tid[r]
    BY <1>2, <2>1, <2>2 DEF Numbered
  <2> QED
    BY <2>1, <2>2, <2>3 DEF BfcpInv, NumbersYoung
<1>5. \A r \in Breq : /\ r \in Find(x.tid) => ct'[r] = "told" /\ answer'[r] = x.of
                      /\ r \notin Find(x.tid) => ct'[r] = ct[r] /\ answer'[r] = answer[r]
  OBVIOUS
<1>6. ct' \in [Breq -> {"none", "open", "told", "dropped"}] /\ DOMAIN answer' = Breq
  BY <1>3
<1> HIDE DEF x
<1>7. ToldRight'
  BY <1>4, <1>5 DEF BfcpInv, ToldRight
<1>8. \A r \in Breq : (ct'[r] = "none" <=> ct[r] = "none") /\ (ct'[r] = "open" => ct[r] = "open")
  BY <1>4, <1>5
<1> QED
  BY <1>6, <1>7, <1>8, NumbersKept

(* Every step of a socket and its peer keeps the invariant. *)
LEMMA BfcpNextInv == BfcpInv /\ [BfcpNext]_bfcpVars => BfcpInv'
<1> SUFFICES ASSUME BfcpInv, [BfcpNext]_bfcpVars PROVE BfcpInv'
  OBVIOUS
<1>0. /\ ct \in [Breq -> {"none", "open", "told", "dropped"}]
      /\ tid \in [Breq -> 0 .. TidMod - 1] /\ tidc \in 0 .. TidMod - 1
      /\ DOMAIN answer = Breq /\ bconn \in {"none", "connecting", "estab"}
      /\ mbtx \in Seq(Numbered) /\ atpeer \in Seq(Numbered) /\ sentv \in Seq(Numbered)
      /\ back \in Seq(OwnPiece) /\ mbrx \in Seq(OwnPiece)
  BY DEF BfcpInv, BfcpShape
<1>s. ASSUME UNCHANGED <<ct, tid, tidc>>
      PROVE  NumbersYoung' /\ Numbered' = Numbered /\ OwnPiece' = OwnPiece
  BY <1>s, <1>0, NumbersKept
<1>i. ASSUME UNCHANGED <<bconn, mbtx, stuck, atpeer, sentv>>
      PROVE  InOrderAtPeer'
  BY <1>i DEF BfcpInv, InOrderAtPeer
<1>t. ASSUME UNCHANGED <<ct, answer>> PROVE ToldRight'
  BY <1>t DEF BfcpInv, ToldRight
<1>1. ASSUME NEW r \in Breq, BfcpRequest(r) PROVE BfcpInv'
  BY <1>1, BfcpRequestInv
<1>2. ASSUME NEW r \in Breq, NEW st \in {"told", "dropped"}, ct[r] = "open",
             ct' = [ct EXCEPT ![r] = st],
             \/ UNCHANGED answer
             \/ st = "told" /\ answer' = [answer EXCEPT ![r] = "timeout"],
             UNCHANGED <<tid, tidc, bconn, nconns, mbtx, stuck, atpeer, sentv, back, mbrx>>
      PROVE  BfcpInv'
  <2>1. /\ ct' \in [Breq -> {"none", "open", "told", "dropped"}]
        /\ ct'[r] = st /\ \A s \in Breq : s # r => ct'[s] = ct[s]
    BY <1>0, <1>2
  <2>2. /\ NumbersYoung' /\ Numbered' = Numbered /\ OwnPiece' = OwnPiece
    <3>1. \A s \in Breq : (ct'[s] = "none" <=> ct[s] = "none") /\ (ct'[s] = "open" => ct[s] = "open")
      BY <2>1, <1>2
    <3> QED
      BY <3>1, <2>1, <1>2, NumbersKept
  <2>3. ToldRight' /\ DOMAIN answer' = Breq
    <3>1. answer[r] = "none"
      BY <1>2 DEF BfcpInv, ToldRight
    <3>2. DOMAIN answer' = Breq /\ \A s \in Breq : s # r => answer'[s] = answer[s]
      BY <1>0, <1>2
    <3>3. answer'[r] = "none" \/ (answer'[r] = "timeout" /\ ct'[r] = "told")
      BY <3>1, <2>1, <1>0, <1>2
    <3> QED
      BY <3>2, <3>3, <2>1 DEF BfcpInv, ToldRight
  <2> QED
    BY <2>1, <2>2, <2>3, <1>0, <1>2, <1>i DEF BfcpInv, BfcpShape
<1>3. ASSUME NEW r \in Breq, BfcpCancel(r) PROVE BfcpInv'
  <2>1. PICK st \in {"told", "dropped"} : st = "dropped"
    OBVIOUS
  <2> QED
    BY <2>1, <1>2, <1>3 DEF BfcpCancel
<1>4. ASSUME NEW r \in Breq, BfcpTimeout(r) PROVE BfcpInv'
  <2>1. PICK st \in {"told", "dropped"} : st = "told"
    OBVIOUS
  <2> QED
    BY <2>1, <1>2, <1>4 DEF BfcpTimeout
<1>5. CASE BfcpEstab
  <2>1. /\ bconn = "connecting" /\ bconn' = "estab"
        /\ UNCHANGED <<ct, tid, tidc, answer, sentv, back, mbrx>>
        /\ \/ mbtx' = <<>> /\ atpeer' = mbtx
           \/ UNCHANGED <<mbtx, atpeer>>
    BY <1>5 DEF BfcpEstab
  <2>2. atpeer = <<>> /\ mbtx = sentv
    BY <2>1 DEF BfcpInv, InOrderAtPeer
  <2>3. atpeer' = sentv' \/ atpeer' = <<>>
    BY <2>1, <2>2
  <2>4. InOrderAtPeer'
    <3>1. CASE atpeer' = sentv'
      BY <3>1, <2>1 DEF InOrderAtPeer
    <3>2. CASE atpeer' = <<>>
      <4>1. DOMAIN atpeer' = {}
        <5>1. atpeer' \in Seq({}) /\ Len(atpeer') = 0
          BY <3>2, EmptySeq
        <5> QED
          BY <5>1, LenProperties
      <4> QED
        BY <4>1, <2>1 DEF InOrderAtPeer
    <3> QED
      BY <3>1, <3>2, <2>3
  <2>5. mbtx' \in Seq(Numbered) /\ atpeer' \in Seq(Numbered)
    BY <2>1, <1>0, EmptySeq
  <2> QED
    BY <2>1, <2>4, <2>5, <1>0, <1>s, <1>t DEF BfcpInv, BfcpShape
<1>6. ASSUME bconn' = "none", mbtx' = <<>>, stuck' = FALSE, atpeer' = <<>>, sentv' = <<>>,
             back' = <<>>, mbrx' = <<>>, UNCHANGED <<ct, tid, tidc, answer>>
      PROVE  BfcpInv'
  <2>1. /\ InOrderAtPeer'
        /\ mbtx' \in Seq(Numbered') /\ atpeer' \in Seq(Numbered') /\ sentv' \in Seq(Numbered')
        /\ back' \in Seq(OwnPiece') /\ mbrx' \in Seq(OwnPiece')
    BY <1>6, NothingThere
  <2> QED
    BY <2>1, <1>0, <1>6, <1>s, <1>t DEF BfcpInv, BfcpShape
<1>7. CASE BfcpClosed
  BY <1>6, <1>7 DEF BfcpClosed, ConnFreed
<1>8. CASE PeerAnswers
  <2>1. PICK i \in DOMAIN atpeer :
          /\ back' = back \o Pieces(tid[atpeer[i]], atpeer[i])
          /\ atpeer' = [j \in 1 .. Len(atpeer) - 1 |-> IF j < i THEN atpeer[j] ELSE atpeer[j + 1]]
    BY <1>8 DEF PeerAnswers
  <2>2. /\ bconn = "estab"
        /\ UNCHANGED <<ct, tid, tidc, answer, bconn, mbtx, stuck, sentv, mbrx>>
    BY <1>8 DEF PeerAnswers
  <2>3. InOrderAtPeer' /\ atpeer' \in Seq(Numbered)
    BY <2>1, <2>2, TakenOut
  <2>4. atpeer[i] \in Breq /\ tid[atpeer[i]] \in 0 .. TidMod - 1
    <3>1. atpeer[i] \in Numbered
      BY <1>0, LenProperties, ElementOfSeq
    <3> QED
      BY <3>1, <1>0 DEF Numbered
  <2>5. Pieces(tid[atpeer[i]], atpeer[i]) \in Seq(OwnPiece)
    BY <2>4, PiecesOwned
  <2>6. back' \in Seq(OwnPiece)
    BY <2>1, <2>5, <1>0, ConcatProperties
  <2> QED
    BY <2>2, <2>3, <2>6, <1>0, <1>s, <1>t DEF BfcpInv, BfcpShape
<1>9. CASE PeerSends
  <2>1. /\ back' = back \o Pieces(0, "note")
        /\ UNCHANGED <<ct, tid, tidc, answer, bconn, mbtx, stuck, atpeer, sentv, mbrx>>
    BY <1>9 DEF PeerSends
  <2>2. PICK n \in 0 .. TidMod - 1 : n = 0
    BY BfcpAssumption, FS_CardinalityType
  <2>3. PICK o \in Breq \cup {"note"} : o = "note"
    OBVIOUS
  <2>4. Pieces(n, o) \in Seq(OwnPiece)
    BY <2>2, PiecesOwned
  <2>5. back' \in Seq(OwnPiece)
    BY <2>1, <2>2, <2>3, <2>4, <1>0, ConcatProperties
  <2> QED
    BY <2>1, <2>5, <1>0, <1>s, <1>t, <1>i DEF BfcpInv, BfcpShape
<1>10. CASE BfcpRecv
  <2>1. PICK n \in 1 .. Len(back) : /\ mbrx' = mbrx \o SubSeq(back, 1, n)
                                    /\ back' = SubSeq(back, n + 1, Len(back))
    BY <1>10 DEF BfcpRecv
  <2>2. UNCHANGED <<ct, tid, tidc, answer, bconn, mbtx, stuck, atpeer, sentv>>
    BY <1>10 DEF BfcpRecv
  <2>3. Len(back) \in Nat /\ \A i \in 1 .. Len(back) : back[i] \in OwnPiece
    BY <1>0, LenProperties, ElementOfSeq
  <2>4. /\ n \in Int /\ n + 1 \in Int /\ 1 \in Int /\ Len(back) \in Int
        /\ \A i \in 1 .. n : back[i] \in OwnPiece
        /\ \A i \in n + 1 .. Len(back) : back[i] \in OwnPiece
    BY <2>3
  <2>5. SubSeq(back, 1, n) \in Seq(OwnPiece) /\ SubSeq(back, n + 1, Len(back)) \in Seq(OwnPiece)
    BY <2>4, SubSeqProperties
  <2>6. mbrx' \in Seq(OwnPiece) /\ back' \in Seq(OwnPiece)
    BY <2>1, <2>5, <1>0, ConcatProperties
  <2> QED
    BY <2>2, <2>6, <1>0, <1>s, <1>t, <1>i DEF BfcpInv, BfcpShape
<1>11. CASE BfcpRound
  <2>0. mbrx # <<>> /\ UNCHANGED <<tid, tidc>>
    BY <1>11 DEF BfcpRound
  <2>1. CASE /\ bconn' = "none" /\ mbtx' = <<>> /\ stuck' = FALSE /\ back' = <<>> /\ mbrx' = <<>>
             /\ atpeer' = <<>> /\ sentv' = <<>> /\ UNCHANGED <<ct, answer>>
    BY <2>0, <2>1, <1>6
  <2>2. CASE UNCHANGED <<ct, answer, bconn, mbtx, stuck, back, mbrx, atpeer, sentv>>
    BY <2>0, <2>2, <1>0, <1>s, <1>t, <1>i DEF BfcpInv, BfcpShape
  <2>3. CASE /\ ct' = [r \in Breq |-> IF r \in Find(mbrx[1].tid) THEN "told" ELSE ct[r]]
             /\ answer' = [r \in Breq |->
                             IF r \in Find(mbrx[1].tid) THEN mbrx[1].of ELSE answer[r]]
             /\ mbrx' = SubSeq(mbrx, 4, Len(mbrx))
             /\ UNCHANGED <<bconn, mbtx, stuck, back, atpeer, sentv>>
    <3>1. /\ ToldRight' /\ NumbersYoung' /\ Numbered' = Numbered /\ OwnPiece' = OwnPiece
          /\ ct' \in [Breq -> {"none", "open", "told", "dropped"}] /\ DOMAIN answer' = Breq
      BY <2>0, <2>3, AnsweredInv
    <3>2. mbrx' \in Seq(OwnPiece)
      <4>1. Len(mbrx) \in Nat /\ \A i \in 1 .. Len(mbrx) : mbrx[i] \in OwnPiece
        BY <1>0, LenProperties, ElementOfSeq
      <4>2. 4 \in Int /\ Len(mbrx) \in Int /\ \A i \in 4 .. Len(mbrx) : mbrx[i] \in OwnPiece
        BY <4>1
      <4> QED
        BY <4>2, <2>3, SubSeqProperties
    <3> QED
      BY <3>1, <3>2, <2>0, <2>3, <1>0, <1>i DEF BfcpInv, BfcpShape
  <2> QED
    BY <2>1, <2>2, <2>3, <1>11 DEF BfcpRound
<1>12. CASE UNCHANGED bfcpVars
  BY <1>12, <1>0, <1>s, <1>t, <1>i DEF bfcpVars, BfcpInv, BfcpShape
<1> QED
  BY <1>1, <1>3, <1>4, <1>5, <1>7, <1>8, <1>9, <1>10, <1>11, <1>12 DEF BfcpNext

(* A BFCP request is told of its own answer or of its timeout, once, and   *)
(* of no message of the peer's own, though the counter of ctrans_new goes  *)
(* round, answers come in any order and in pieces, and connections are     *)
(* lost; and the peer gets the requests of a connection in the order they  *)
(* were made (bfcp/req.c, bfcp/sock.c).                                    *)
THEOREM BfcpAnswers == BfcpSpec => []BfcpSound
<1>1. BfcpSpec => []BfcpInv
  BY BfcpInitInv, BfcpNextInv, PTL DEF BfcpSpec
<1> QED
  BY <1>1, BfcpInvSound, PTL

----------------------------------------------------------------------------
(***************************************************************************)
(* The NAT traversal session of a call (MediaNat).                         *)
(***************************************************************************)

(* What a component of gathering adds to the count of pending requests *)
Outstanding(w) == IF w \in {"turn", "stun"} THEN 1 ELSE 0

(* A medium before media_start *)
Unstarted(r) ==
  /\ r.comp[1] = "idle" /\ r.comp[2] = "idle"
  /\ r.nstun = 0 /\ r.gh /\ ~r.ok

(* A medium of stun or turn that was started *)
AtServer(r, by) ==
  /\ r.comp[1] \in {by, "ok"} /\ r.comp[2] \in {by, "ok"}
  /\ r.ok <=> (r.comp[1] = "ok" /\ r.comp[2] = "ok")
  /\ r.nstun = 0

(* A medium of ice that was started: while its handler is there, nstun is  *)
(* the number of its components that still wait.                           *)
Gathering(r) ==
  /\ r.comp[1] \in {"turn", "stun", "ok"} /\ r.comp[2] \in {"turn", "stun", "ok"}
  /\ r.ok <=> ~r.gh
  /\ r.ok <=> (r.comp[1] = "ok" /\ r.comp[2] = "ok")
  /\ r.ok => r.nstun <= 0
  /\ ~r.ok => r.nstun = Outstanding(r.comp[1]) + Outstanding(r.comp[2])

MediumSound(r, srv, mo) ==
  /\ r.st = "live"
  /\ ~srv => Unstarted(r)
  /\ (srv /\ mo # "ice") => AtServer(r, IF mo = "stun" THEN "stun" ELSE "turn")
  /\ (srv /\ mo = "ice") => Gathering(r)

MediaRec ==
  [st : {"none", "live", "freed"}, nstun : -2 .. 2,
   comp : [Comps -> {"idle", "turn", "stun", "ok"}],
   gh : BOOLEAN, ok : BOOLEAN, complete : BOOLEAN]

(* Media without their addresses *)
Missing == {m \in Media : ~mm[m].ok}

Told == (mn.started => estabs > 0) /\ (~mn.started => estabs <= 1)

(* One query is under way until the server is known. *)
Asking == mn.st \in {"setup", "live"} /\ mn.dq # "none" => ~mn.srv

Unused ==
  mn.st = "none" =>
    /\ mn.mediac = 0 /\ estabs = 0 /\ ~mn.started /\ ~mn.early
    /\ \A m \in Media : mm[m] = NoMedia

(* While the call is made, mediac counts the media that it has so far. *)
SettingUp ==
  mn.st = "setup" =>
    /\ mn.mediac = Cardinality(MediaLive) /\ estabs = 0 /\ ~mn.started /\ ~mn.early
    /\ \A m \in Media :
         /\ ~mm[m].ok
         /\ mm[m].st = "none" \/ MediumSound(mm[m], mn.srv, mode)

(* The call is told when the count gets to zero. *)
Telling == mn.mediac > 0 <=> estabs = 0

(* Then it counts those that are missing, until there are none, or fewer   *)
(* if a keepalive counted one again.                                       *)
CountedDown ==
  mn.st = "live" =>
    /\ \A m \in Media : MediumSound(mm[m], mn.srv, mode)
    /\ Telling /\ mn.mediac <= Cardinality(Missing)
    /\ ~mn.early => mn.mediac = Cardinality(Missing) \/ Missing = {}
    /\ mn.early => mode = "stun" /\ mn.srv

(* The inductive invariant of a session *)
MnatInv == MnatTypeOK /\ Told /\ Asking /\ Unused /\ SettingUp /\ CountedDown

(* The record of a session, field by field *)
LEMMA MnTyped ==
  ASSUME MnatTypeOK
  PROVE  /\ mn.st \in {"none", "setup", "live", "freed"} /\ mn.srv \in BOOLEAN
         /\ mn.dq \in Queries /\ mn.mediac \in -1 .. Cardinality(Media)
         /\ mn.started \in BOOLEAN /\ mn.reinvite \in BOOLEAN /\ mn.early \in BOOLEAN
         /\ estabs \in 0 .. 2 /\ mode \in Modes /\ uaf \in BOOLEAN
         /\ mm \in [Media -> MediaRec]
BY DEF MnatTypeOK, MediaRec

(* ... and back *)
LEMMA MnShape ==
  ASSUME mn' \in [st : {"none", "setup", "live", "freed"}, srv : BOOLEAN,
             dq : Queries, mediac : -1 .. Cardinality(Media), started : BOOLEAN,
             reinvite : BOOLEAN, early : BOOLEAN],
         estabs' \in 0 .. 2, mode' \in Modes, uaf' \in BOOLEAN,
         mm' \in [Media -> MediaRec]
  PROVE  MnatTypeOK'
BY DEF MnatTypeOK, MediaRec

(* How many media there are *)
LEMMA MediaCounted ==
  ASSUME NEW S \in SUBSET Media
  PROVE  /\ IsFiniteSet(S) /\ Cardinality(S) \in Nat /\ Cardinality(Media) \in Nat
         /\ Cardinality(S) <= Cardinality(Media)
         /\ Cardinality(S) = 0 <=> S = {}
         /\ Cardinality(Media) # 0
BY MediaAssumption, FS_Subset, FS_CardinalityType, FS_EmptySet

(* A medium has two components. *)
LEMMA TwoComps == Cardinality(Comps) = 2
<1>1. Cardinality({1}) = 1 /\ IsFiniteSet({1})
  BY FS_Singleton
<1>2. Cardinality({1} \cup {2}) = 2
  BY <1>1, FS_AddElement
<1>3. {1} \cup {2} = Comps
  BY DEF Comps
<1> QED
  BY <1>2, <1>3

(* A medium that was not made *)
LEMMA NoMediaTyped ==
  /\ NoMedia \in MediaRec
  /\ NoMedia.st = "none" /\ NoMedia.nstun = 0 /\ NoMedia.gh = TRUE /\ NoMedia.ok = FALSE
  /\ NoMedia.comp = [c \in Comps |-> "idle"]
<1>1. [c \in Comps |-> "idle"] \in [Comps -> {"idle", "turn", "stun", "ok"}]
  OBVIOUS
<1>2. 0 \in -2 .. 2
  OBVIOUS
<1> QED
  BY <1>1, <1>2 DEF NoMedia, MediaRec

(* A call that is closed leaves nothing to count (mnat_handler, call.c). *)
LEMMA ClosedInv ==
  ASSUME MnatInv, Closed, mode' = mode, uaf' \in BOOLEAN
  PROVE  MnatInv'
<1>0. mn' = [mn EXCEPT !.st = "freed"] /\ estabs' = estabs
  BY DEF Closed
<1>1. MnatTypeOK
  BY DEF MnatInv
<1>2. [NoMedia EXCEPT !.st = "freed"] \in MediaRec
  BY NoMediaTyped DEF MediaRec
<1>3. mm' \in [Media -> MediaRec]
  BY <1>2 DEF Closed
<1>4. MnatTypeOK'
  <2>1. mn' \in [st : {"none", "setup", "live", "freed"}, srv : BOOLEAN,
             dq : Queries, mediac : -1 .. Cardinality(Media), started : BOOLEAN,
             reinvite : BOOLEAN, early : BOOLEAN]
    BY <1>0, <1>1 DEF MnatTypeOK
  <2> QED
    BY <2>1, <1>0, <1>1, <1>3, MnTyped, MnShape
<1>5. mn'.st = "freed" /\ mn'.started = mn.started
  BY <1>0, <1>1 DEF MnatTypeOK
<1> QED
  BY <1>0, <1>4, <1>5
     DEF MnatInv, Told, Asking, Unused, SettingUp, CountedDown

(* Replacing the record of one medium *)
LEMMA OneMedium ==
  ASSUME MnatTypeOK, NEW m \in Media, NEW r \in MediaRec,
         mm' = [mm EXCEPT ![m] = r]
  PROVE  /\ mm' \in [Media -> MediaRec] /\ mm'[m] = r
         /\ \A x \in Media : x # m => mm'[x] = mm[x]
BY MnTyped

(* A step of a live session that changes one medium and completes none *)
LEMMA MediumChanged ==
  ASSUME MnatInv, SessLive, NEW m \in Media, NEW r \in MediaRec,
         mm' = [mm EXCEPT ![m] = r], MediumSound(r, mn.srv, mode),
         r.ok <=> mm[m].ok,
         UNCHANGED <<mode, mn, estabs, uaf>>
  PROVE  MnatInv'
<1>1. MnatTypeOK
  BY DEF MnatInv
<1>2. /\ mm' \in [Media -> MediaRec] /\ mm'[m] = r
      /\ \A x \in Media : x # m => mm'[x] = mm[x]
  BY <1>1, OneMedium
<1>3. MnatTypeOK'
  BY <1>1, <1>2 DEF MnatTypeOK, MediaRec
<1>4. Missing' = Missing
  BY <1>2 DEF Missing
<1>5. \A x \in Media : MediumSound(mm'[x], mn.srv, mode)
  BY <1>2 DEF MnatInv, CountedDown, SessLive
<1> QED
  BY <1>3, <1>4, <1>5
     DEF MnatInv, Told, Asking, Unused, SettingUp, CountedDown, Telling, SessLive

(* One more is counted, and the call told if it was the last one.          *)
LEMMA CountsOne ==
  ASSUME MnatTypeOK, Telling, Told,
         NEW rec \in [st : {"none", "setup", "live", "freed"}, srv : BOOLEAN,
             dq : Queries, mediac : -1 .. Cardinality(Media), started : BOOLEAN,
             reinvite : BOOLEAN, early : BOOLEAN],
         rec.mediac = mn.mediac, rec.started = mn.started, CountDown(rec)
  PROVE  /\ mn' \in [st : {"none", "setup", "live", "freed"}, srv : BOOLEAN,
             dq : Queries, mediac : -1 .. Cardinality(Media), started : BOOLEAN,
             reinvite : BOOLEAN, early : BOOLEAN]
         /\ mn'.st = rec.st /\ mn'.srv = rec.srv /\ mn'.dq = rec.dq
         /\ mn'.started = rec.started /\ mn'.early = rec.early
         /\ mn'.mediac = IF mn.mediac > -1 THEN mn.mediac - 1 ELSE mn.mediac
         /\ estabs' \in 0 .. 2 /\ Telling' /\ Told'
<1>1. /\ mn.mediac \in -1 .. Cardinality(Media) /\ estabs \in 0 .. 2
      /\ Cardinality(Media) \in Nat /\ mn.started \in BOOLEAN
  BY MnTyped, MediaCounted
<1> DEFINE n == IF mn.mediac > -1 THEN mn.mediac - 1 ELSE mn.mediac
<1>2. n \in -1 .. Cardinality(Media)
  BY <1>1
<1>3. /\ mn' = [rec EXCEPT !.mediac = n]
      /\ IF mn.mediac = 1 THEN Estab ELSE UNCHANGED estabs
  BY DEF CountDown, Down
<1>4. estabs' = IF mn.mediac = 1 THEN 1 ELSE estabs
  BY <1>1, <1>3 DEF Estab, Telling
<1>5. n > 0 <=> estabs' = 0
  BY <1>1, <1>4 DEF Telling
<1> HIDE DEF n
<1>6. /\ mn' \in [st : {"none", "setup", "live", "freed"}, srv : BOOLEAN,
             dq : Queries, mediac : -1 .. Cardinality(Media), started : BOOLEAN,
             reinvite : BOOLEAN, early : BOOLEAN]
      /\ mn'.st = rec.st /\ mn'.srv = rec.srv /\ mn'.dq = rec.dq
      /\ mn'.started = rec.started /\ mn'.early = rec.early /\ mn'.mediac = n
  BY <1>2, <1>3
<1>7. Telling' /\ Told' /\ estabs' \in 0 .. 2
  BY <1>1, <1>4, <1>5, <1>6 DEF Telling, Told
<1> QED
  BY <1>6, <1>7 DEF n

(* A step of a live session in which a medium gets the last of its         *)
(* addresses: the call is told when there is no other one missing.         *)
LEMMA MediumDone ==
  ASSUME MnatInv, SessLive, NEW m \in Media, NEW r \in MediaRec,
         mm' = [mm EXCEPT ![m] = r], MediumSound(r, mn.srv, mode),
         r.ok, ~mm[m].ok, CountDown(mn), UNCHANGED <<mode, uaf>>
  PROVE  MnatInv'
<1>1. MnatTypeOK /\ Told /\ Telling
  BY DEF MnatInv, CountedDown, SessLive
<1>2. /\ mm' \in [Media -> MediaRec] /\ mm'[m] = r
      /\ \A x \in Media : x # m => mm'[x] = mm[x]
  BY <1>1, OneMedium
<1>3. Missing' = Missing \ {m} /\ m \in Missing
  BY <1>2 DEF Missing
<1>4. /\ mn.mediac <= Cardinality(Missing)
      /\ ~mn.early => mn.mediac = Cardinality(Missing)
      /\ mn.early => mode = "stun" /\ mn.srv
  BY <1>3 DEF MnatInv, CountedDown, SessLive
<1>5. /\ Cardinality(Missing) \in Nat \ {0}
      /\ Cardinality(Missing') = Cardinality(Missing) - 1
  <2>1. Missing \in SUBSET Media
    BY DEF Missing
  <2> QED
    BY <2>1, <1>3, MediaCounted, FS_RemoveElement
<1>6. mn \in [st : {"none", "setup", "live", "freed"}, srv : BOOLEAN,
             dq : Queries, mediac : -1 .. Cardinality(Media), started : BOOLEAN,
             reinvite : BOOLEAN, early : BOOLEAN]
  BY <1>1 DEF MnatTypeOK
<1>7. /\ mn' \in [st : {"none", "setup", "live", "freed"}, srv : BOOLEAN,
             dq : Queries, mediac : -1 .. Cardinality(Media), started : BOOLEAN,
             reinvite : BOOLEAN, early : BOOLEAN]
      /\ mn'.st = mn.st /\ mn'.srv = mn.srv /\ mn'.dq = mn.dq
      /\ mn'.started = mn.started /\ mn'.early = mn.early
      /\ mn'.mediac = (IF mn.mediac > -1 THEN mn.mediac - 1 ELSE mn.mediac)
      /\ estabs' \in 0 .. 2 /\ Telling' /\ Told'
  BY <1>1, <1>6, CountsOne
<1>8. MnatTypeOK'
  BY <1>1, <1>2, <1>7, MnTyped, MnShape
<1>9. /\ mn'.mediac <= Cardinality(Missing')
      /\ ~mn'.early => mn'.mediac = Cardinality(Missing')
  BY <1>1, <1>4, <1>5, <1>7, MnTyped
<1>10. \A x \in Media : MediumSound(mm'[x], mn'.srv, mode')
  BY <1>2, <1>7 DEF MnatInv, CountedDown, SessLive
<1>11. Asking' /\ mn'.st = "live"
  BY <1>7 DEF MnatInv, Asking, SessLive
<1> QED
  BY <1>4, <1>7, <1>8, <1>9, <1>10, <1>11
     DEF MnatInv, Unused, SettingUp, CountedDown

(* A session before it is used *)
LEMMA MnatInitInv == MnatInit => MnatInv
<1> SUFFICES ASSUME MnatInit PROVE MnatInv
  OBVIOUS
<1>1. 0 \in -1 .. Cardinality(Media) /\ 0 \in 0 .. 2
  BY MediaCounted
<1>2. \A m \in Media : mm[m] = NoMedia
  BY DEF MnatInit
<1>3. mm \in [Media -> MediaRec]
  BY NoMediaTyped DEF MnatInit
<1>4. /\ mn \in [st : {"none", "setup", "live", "freed"}, srv : BOOLEAN,
             dq : Queries, mediac : -1 .. Cardinality(Media), started : BOOLEAN,
             reinvite : BOOLEAN, early : BOOLEAN]
      /\ mn.st = "none" /\ mn.mediac = 0 /\ mn.started = FALSE /\ estabs = 0
      /\ mn.early = FALSE
  BY <1>1 DEF MnatInit, Queries
<1>5. MnatTypeOK
  BY <1>1, <1>3, <1>4 DEF MnatInit, MnatTypeOK, MediaRec
<1> QED
  BY <1>2, <1>4, <1>5
     DEF MnatInv, Told, Asking, Unused, SettingUp, CountedDown

(* A medium that is started waits with both components (media_start). *)
LEMMA StartedSound ==
  ASSUME NEW r \in MediaRec, r.st = "live", Unstarted(r), NEW by \in StartedBy
  PROVE  /\ Started(r, by) \in MediaRec /\ Started(r, by).st = "live"
         /\ ~Started(r, by).ok /\ MediumSound(Started(r, by), TRUE, mode)
<1> DEFINE comp == [c \in Comps |-> by]
           nstun == IF mode = "ice" THEN Cardinality(Comps) ELSE 0
           s == [r EXCEPT !.comp = comp, !.nstun = nstun]
<1>0. Started(r, by) = s
  BY DEF Started
<1>1. /\ by \in {"turn", "stun"}
      /\ mode # "ice" => by = IF mode = "stun" THEN "stun" ELSE "turn"
  BY DEF StartedBy, Server
<1>2. /\ comp \in [Comps -> {"idle", "turn", "stun", "ok"}]
      /\ comp[1] = by /\ comp[2] = by
  BY <1>1 DEF Comps
<1>3. nstun \in -2 .. 2 /\ nstun = (IF mode = "ice" THEN 2 ELSE 0)
  BY TwoComps
<1> HIDE DEF comp, nstun
<1>4. s \in MediaRec
  <2>1. [r EXCEPT !.comp = comp] \in MediaRec
    BY <1>2 DEF MediaRec
  <2>2. [[r EXCEPT !.comp = comp] EXCEPT !.nstun = nstun] \in MediaRec
    BY <2>1, <1>3 DEF MediaRec
  <2>3. s = [[r EXCEPT !.comp = comp] EXCEPT !.nstun = nstun]
    BY DEF MediaRec
  <2> QED
    BY <2>2, <2>3
<1>5. /\ s.st = "live" /\ s.comp = comp /\ s.nstun = nstun
      /\ s.gh = r.gh /\ s.ok = r.ok
  BY DEF MediaRec
<1> HIDE DEF s
<1>6. s.gh /\ ~s.ok
  BY <1>5 DEF Unstarted
<1>7. CASE mode = "ice"
  <2>1. Outstanding(by) = 1
    BY <1>1 DEF Outstanding
  <2>2. Gathering(s)
    BY <1>1, <1>2, <1>3, <1>5, <1>6, <1>7, <2>1 DEF Gathering
  <2> QED
    BY <1>0, <1>4, <1>5, <1>6, <1>7, <2>2 DEF MediumSound
<1>8. CASE mode # "ice"
  <2>1. AtServer(s, IF mode = "stun" THEN "stun" ELSE "turn")
    BY <1>1, <1>2, <1>3, <1>5, <1>6, <1>8 DEF AtServer
  <2> QED
    BY <1>0, <1>4, <1>5, <1>6, <1>8, <2>1 DEF MediumSound
<1> QED
  BY <1>7, <1>8

(* session_alloc *)
LEMMA SessionInv ==
  ASSUME MnatInv, NEW query \in Queries, MnatSession(query)
  PROVE  MnatInv'
<1>1. MnatTypeOK /\ UNCHANGED <<mode, mm, estabs, uaf>> /\ mn.st = "none"
  BY DEF MnatInv, MnatSession
<1>2. /\ mn' \in [st : {"none", "setup", "live", "freed"}, srv : BOOLEAN,
             dq : Queries, mediac : -1 .. Cardinality(Media), started : BOOLEAN,
             reinvite : BOOLEAN, early : BOOLEAN]
      /\ mn'.st = "setup" /\ mn'.dq = query /\ mn'.srv = (query = "none")
      /\ mn'.mediac = mn.mediac /\ mn'.started = mn.started /\ mn'.early = mn.early
  BY <1>1 DEF MnatSession, MnatTypeOK
<1>3. mn.mediac = 0 /\ estabs = 0 /\ ~mn.started /\ ~mn.early /\ \A m \in Media : mm[m] = NoMedia
  BY <1>1 DEF MnatInv, Unused
<1>4. \A m \in Media : mm[m].st = "none" /\ ~mm[m].ok
  BY <1>3, NoMediaTyped
<1>5. MediaLive' = {} /\ Cardinality({}) = 0
  BY <1>1, <1>4, FS_EmptySet DEF MediaLive
<1>6. MnatTypeOK'
  BY <1>1, <1>2, MnTyped, MnShape
<1> QED
  BY <1>1, <1>2, <1>3, <1>4, <1>5, <1>6
     DEF MnatInv, Told, Asking, Unused, SettingUp, CountedDown

(* media_alloc *)
LEMMA MediaAllocInv ==
  ASSUME MnatInv, NEW m \in Media, MnatMedia(m)
  PROVE  MnatInv'
<1>1. MnatTypeOK /\ UNCHANGED <<mode, uaf>> /\ mn.st = "setup" /\ mm[m].st = "none"
  BY DEF MnatInv, MnatMedia
<1>2. CASE Closed
  BY <1>1, <1>2, MnTyped, ClosedInv
<1>3. ASSUME NEW by \in StartedBy,
             mm' = [mm EXCEPT ![m] =
               IF mn.srv THEN Started([NoMedia EXCEPT !.st = "live"], by)
               ELSE [NoMedia EXCEPT !.st = "live"]],
             mn' = [mn EXCEPT !.mediac = @ + 1], UNCHANGED estabs
      PROVE  MnatInv'
  <2> DEFINE new == [NoMedia EXCEPT !.st = "live"]
             r == IF mn.srv THEN Started(new, by) ELSE new
  <2>1. /\ new \in MediaRec /\ new.st = "live" /\ Unstarted(new)
    <3>1. /\ new \in MediaRec /\ new.st = "live" /\ new.nstun = 0 /\ new.gh = TRUE
          /\ new.ok = FALSE /\ new.comp = [c \in Comps |-> "idle"]
      BY NoMediaTyped DEF MediaRec
    <3> QED
      BY <3>1 DEF Unstarted, Comps
  <2> HIDE DEF new
  <2>2. r \in MediaRec /\ r.st = "live" /\ ~r.ok /\ MediumSound(r, mn.srv, mode)
    <3>1. CASE mn.srv
      BY <2>1, <3>1, StartedSound, <1>1, MnTyped
    <3>2. CASE ~mn.srv
      BY <2>1, <3>2 DEF MediumSound, Unstarted
    <3> QED
      BY <3>1, <3>2
  <2>3. mm' = [mm EXCEPT ![m] = r]
    BY <1>3 DEF new
  <2> HIDE DEF r
  <2>4. /\ mm' \in [Media -> MediaRec] /\ mm'[m] = r
        /\ \A x \in Media : x # m => mm'[x] = mm[x]
    BY <1>1, <2>2, <2>3, OneMedium
  <2>5. MediaLive' = MediaLive \cup {m} /\ m \notin MediaLive
    BY <1>1, <2>2, <2>4 DEF MediaLive
  <2>6. /\ Cardinality(MediaLive') = Cardinality(MediaLive) + 1
        /\ Cardinality(MediaLive') <= Cardinality(Media)
        /\ Cardinality(MediaLive) \in Nat /\ Cardinality(Media) \in Nat
    <3>1. MediaLive \in SUBSET Media /\ MediaLive' \in SUBSET Media
      BY DEF MediaLive
    <3> QED
      BY <3>1, <2>5, MediaCounted, FS_AddElement
  <2>7. mn.mediac = Cardinality(MediaLive) /\ estabs = 0 /\ ~mn.started /\ ~mn.early
    BY <1>1 DEF MnatInv, SettingUp
  <2>8. mn.mediac + 1 \in -1 .. Cardinality(Media)
    BY <2>6, <2>7
  <2>9. /\ mn' \in [st : {"none", "setup", "live", "freed"}, srv : BOOLEAN,
             dq : Queries, mediac : -1 .. Cardinality(Media), started : BOOLEAN,
             reinvite : BOOLEAN, early : BOOLEAN]
        /\ mn'.st = "setup" /\ mn'.dq = mn.dq /\ mn'.srv = mn.srv
        /\ mn'.mediac = mn.mediac + 1 /\ mn'.started = mn.started /\ mn'.early = mn.early
    BY <1>1, <1>3, <2>8 DEF MnatTypeOK
  <2>10. MnatTypeOK'
    BY <1>1, <1>3, <2>4, <2>9, MnTyped, MnShape
  <2>11. \A x \in Media :
           /\ ~mm'[x].ok
           /\ mm'[x].st = "none" \/ MediumSound(mm'[x], mn'.srv, mode')
    BY <1>1, <2>2, <2>4, <2>9 DEF MnatInv, SettingUp
  <2>12. mn'.mediac = Cardinality(MediaLive')
    BY <2>6, <2>7, <2>9
  <2> QED
    BY <1>1, <1>3, <2>7, <2>9, <2>10, <2>11, <2>12
       DEF MnatInv, Told, Asking, Unused, SettingUp, CountedDown
<1> QED
  BY <1>2, <1>3 DEF MnatMedia

(* The media are all there: each of them is missing its addresses. *)
LEMMA ReadyInv ==
  ASSUME MnatInv, MnatReady
  PROVE  MnatInv'
<1>1. /\ MnatTypeOK /\ UNCHANGED <<mode, mm, estabs, uaf>> /\ mn.st = "setup"
      /\ MediaLive = Media
  BY DEF MnatInv, MnatReady
<1>2. /\ mn' \in [st : {"none", "setup", "live", "freed"}, srv : BOOLEAN,
             dq : Queries, mediac : -1 .. Cardinality(Media), started : BOOLEAN,
             reinvite : BOOLEAN, early : BOOLEAN]
      /\ mn'.st = "live" /\ mn'.dq = mn.dq /\ mn'.srv = mn.srv
      /\ mn'.mediac = mn.mediac /\ mn'.started = mn.started /\ mn'.early = mn.early
  BY <1>1 DEF MnatReady, MnatTypeOK
<1>3. /\ mn.mediac = Cardinality(Media) /\ estabs = 0 /\ ~mn.started /\ ~mn.early
      /\ \A m \in Media : ~mm[m].ok /\ MediumSound(mm[m], mn.srv, mode)
  BY <1>1 DEF MnatInv, SettingUp, MediaLive
<1>4. Missing' = Media /\ Media # {}
  BY <1>1, <1>3, MediaAssumption DEF Missing
<1>5. MnatTypeOK'
  BY <1>1, <1>2, MnTyped, MnShape
<1>6. Cardinality(Media) \in Nat /\ Cardinality(Media) # 0
  BY MediaCounted
<1>7. Telling' /\ mn'.mediac = Cardinality(Missing')
  BY <1>1, <1>2, <1>3, <1>4, <1>6 DEF Telling
<1>8. mn'.mediac <= Cardinality(Missing')
  BY <1>2, <1>3, <1>6, <1>7
<1> QED
  BY <1>1, <1>2, <1>3, <1>4, <1>5, <1>7, <1>8
     DEF MnatInv, Told, Asking, Unused, SettingUp, CountedDown

(* dns_handler: no medium was started before. *)
LEMMA ResolvedInv ==
  ASSUME MnatInv, SessLive, mn.dq # "none", MnatResolved, UNCHANGED <<mode, uaf>>
  PROVE  MnatInv'
<1>1. MnatTypeOK /\ mn.st = "live" /\ ~mn.srv
  BY DEF MnatInv, SessLive, Asking
<1>2. CASE Closed
  BY <1>1, <1>2, MnTyped, ClosedInv
<1>3. ASSUME NEW by \in StartedBy,
             mm' = [m \in Media |-> Started(mm[m], by)],
             mn' = [mn EXCEPT !.srv = TRUE, !.dq = "none"], UNCHANGED estabs
      PROVE  MnatInv'
  <2>1. \A m \in Media : mm[m] \in MediaRec /\ mm[m].st = "live" /\ Unstarted(mm[m])
    BY <1>1, MnTyped DEF MnatInv, CountedDown, MediumSound
  <2>2. \A m \in Media : /\ mm'[m] \in MediaRec /\ ~mm'[m].ok
                         /\ MediumSound(mm'[m], TRUE, mode)
    BY <1>3, <2>1, StartedSound
  <2>3. mm' \in [Media -> MediaRec]
    BY <1>3, <2>2
  <2>4. Missing = Media /\ Missing' = Media /\ Media # {}
    BY <2>1, <2>2, MediaAssumption DEF Missing, Unstarted
  <2>5. /\ mn.mediac = Cardinality(Media) /\ ~mn.early /\ Telling
        /\ mn.mediac <= Cardinality(Missing)
    BY <1>1, <2>4 DEF MnatInv, CountedDown
  <2>6. /\ mn' \in [st : {"none", "setup", "live", "freed"}, srv : BOOLEAN,
             dq : Queries, mediac : -1 .. Cardinality(Media), started : BOOLEAN,
             reinvite : BOOLEAN, early : BOOLEAN]
        /\ mn'.st = "live" /\ mn'.dq = "none" /\ mn'.srv = TRUE
        /\ mn'.mediac = mn.mediac /\ mn'.started = mn.started /\ mn'.early = mn.early
    BY <1>1, <1>3 DEF MnatTypeOK, Queries
  <2>7. MnatTypeOK'
    BY <1>1, <1>3, <2>3, <2>6, MnTyped, MnShape
  <2> QED
    BY <1>1, <1>3, <2>2, <2>4, <2>5, <2>6, <2>7
       DEF MnatInv, Told, Asking, Unused, SettingUp, CountedDown, Telling
<1> QED
  BY <1>2, <1>3 DEF MnatResolved

(* srv_handler: the next query takes the place of the one that is answered. *)
LEMMA SrvInv ==
  ASSUME MnatInv, SrvAnswer
  PROVE  MnatInv'
<1>1. SessLive /\ mn.dq = "srv" /\ UNCHANGED <<mode, uaf>> /\ MnatTypeOK
  BY DEF SrvAnswer, MnatInv
<1>2. CASE MnatResolved
  BY <1>1, <1>2, ResolvedInv
<1>3. CASE mn' = [mn EXCEPT !.dq = "a"] /\ UNCHANGED <<mm, estabs>>
  <2>1. /\ mn' \in [st : {"none", "setup", "live", "freed"}, srv : BOOLEAN,
             dq : Queries, mediac : -1 .. Cardinality(Media), started : BOOLEAN,
             reinvite : BOOLEAN, early : BOOLEAN]
        /\ mn'.st = mn.st /\ mn'.dq = "a" /\ mn'.srv = mn.srv
        /\ mn'.mediac = mn.mediac /\ mn'.started = mn.started /\ mn'.early = mn.early
    BY <1>1, <1>3 DEF MnatTypeOK, Queries
  <2>2. MnatTypeOK'
    BY <1>1, <1>3, <2>1, MnTyped, MnShape
  <2>3. Missing' = Missing
    BY <1>3 DEF Missing
  <2> QED
    BY <1>1, <1>3, <2>1, <2>2, <2>3
       DEF MnatInv, Told, Asking, Unused, SettingUp, CountedDown, Telling, SessLive
<1> QED
  BY <1>1, <1>2, <1>3 DEF SrvAnswer

(* A component of stun or turn gets its address. *)
LEMMA MappedInv ==
  ASSUME MnatInv, NEW m \in Media, NEW c \in Comps, Mapped(m, c)
  PROVE  MnatInv'
<1>1. /\ MnatTypeOK /\ SessLive /\ mode # "ice" /\ UNCHANGED <<mode, uaf>>
      /\ mm[m] \in MediaRec /\ mm[m].comp[c] = Server /\ Server \in {"stun", "turn"}
  BY MnTyped DEF MnatInv, Mapped, Server
<1>2. CASE Closed
  BY <1>1, <1>2, MnTyped, ClosedInv
<1>3. CASE /\ mm' = [mm EXCEPT ![m].comp[c] = "ok", ![m].ok = MediaReady(m, c)]
           /\ IF MediaReady(m, c) THEN CountDown(mn) ELSE UNCHANGED <<mn, estabs>>
  <2>1. MediumSound(mm[m], mn.srv, mode)
    BY <1>1 DEF MnatInv, CountedDown, SessLive
  <2>2. mn.srv /\ AtServer(mm[m], Server)
    BY <1>1, <2>1, MnTyped DEF MediumSound, Unstarted, Server, Comps
  <2> DEFINE comp == [mm[m].comp EXCEPT ![c] = "ok"]
             ready == MediaReady(m, c)
             r == [mm[m] EXCEPT !.comp = comp, !.ok = ready]
  <2>3. mm' = [mm EXCEPT ![m] = r]
    BY <1>1, <1>3, MnTyped DEF MediaRec
  <2>4. /\ comp \in [Comps -> {"idle", "turn", "stun", "ok"}]
        /\ comp[1] \in {Server, "ok"} /\ comp[2] \in {Server, "ok"}
    BY <1>1, <2>2 DEF MediaRec, Comps, AtServer
  <2>5. ready \in BOOLEAN /\ (ready <=> (comp[1] = "ok" /\ comp[2] = "ok"))
    BY <1>1, <2>2 DEF MediaRec, MediaReady, Comps, AtServer
  <2>6. ~mm[m].ok
    BY <1>1, <2>2 DEF AtServer, Comps
  <2> HIDE DEF comp, ready
  <2>7. /\ r \in MediaRec /\ r.comp = comp /\ r.ok = ready /\ r.st = mm[m].st
        /\ r.nstun = mm[m].nstun
    BY <1>1, <2>4, <2>5 DEF MediaRec
  <2> HIDE DEF r
  <2>8. AtServer(r, Server)
    BY <2>2, <2>4, <2>5, <2>7 DEF AtServer
  <2>9. MediumSound(r, mn.srv, mode)
    BY <1>1, <2>1, <2>2, <2>7, <2>8 DEF MediumSound, Server
  <2>10. CASE ready
    <3>1. r.ok
      BY <2>7, <2>10
    <3>2. CountDown(mn)
      BY <1>3, <2>10 DEF ready
    <3> QED
      BY <1>1, <2>3, <2>6, <2>7, <2>9, <3>1, <3>2, MediumDone
  <2>11. CASE ~ready
    <3>1. ~r.ok
      BY <2>7, <2>11
    <3>2. UNCHANGED <<mn, estabs>>
      BY <1>3, <2>11 DEF ready
    <3> QED
      BY <1>1, <2>3, <2>6, <2>7, <2>9, <3>1, <3>2, MediumChanged
  <2> QED
    BY <2>10, <2>11
<1> QED
  BY <1>2, <1>3 DEF Mapped

(* A mapping is told again, or an allocation is lost: a medium is counted  *)
(* once more, early if another one is missing.                             *)
LEMMA RemappedInv ==
  ASSUME MnatInv, NEW m \in Media, NEW c \in Comps, Remapped(m, c)
  PROVE  MnatInv'
<1>1. /\ MnatTypeOK /\ Told /\ Telling /\ SessLive /\ UNCHANGED <<mode, uaf>>
      /\ mm[m].comp[c] = "ok"
  BY DEF MnatInv, Remapped, CountedDown, SessLive
<1>2. CASE Closed
  BY <1>1, <1>2, MnTyped, ClosedInv
<1>3. CASE /\ mode = "stun" /\ UNCHANGED mm
           /\ CountDown([mn EXCEPT !.early = @ \/ \E x \in Media : ~mm[x].ok])
  <2> DEFINE early == mn.early \/ \E x \in Media : ~mm[x].ok
             rec == [mn EXCEPT !.early = early]
  <2>1. \A x \in Media : MediumSound(mm[x], mn.srv, mode)
    BY <1>1 DEF MnatInv, CountedDown, SessLive
  <2>2. mn.srv
    BY <1>1, <2>1, MnTyped DEF MediumSound, Unstarted, Comps
  <2>3. early \in BOOLEAN /\ (~early => Missing = {})
    BY <1>1, MnTyped DEF Missing
  <2>4. CountDown(rec)
    BY <1>3
  <2> HIDE DEF early
  <2>5. /\ rec \in [st : {"none", "setup", "live", "freed"}, srv : BOOLEAN,
             dq : Queries, mediac : -1 .. Cardinality(Media), started : BOOLEAN,
             reinvite : BOOLEAN, early : BOOLEAN]
        /\ rec.st = mn.st /\ rec.srv = mn.srv /\ rec.dq = mn.dq
        /\ rec.mediac = mn.mediac /\ rec.started = mn.started /\ rec.early = early
    BY <1>1, <2>3 DEF MnatTypeOK
  <2> HIDE DEF rec
  <2>6. /\ mn' \in [st : {"none", "setup", "live", "freed"}, srv : BOOLEAN,
             dq : Queries, mediac : -1 .. Cardinality(Media), started : BOOLEAN,
             reinvite : BOOLEAN, early : BOOLEAN]
        /\ mn'.st = mn.st /\ mn'.srv = mn.srv /\ mn'.dq = mn.dq
        /\ mn'.started = mn.started /\ mn'.early = early
        /\ mn'.mediac = (IF mn.mediac > -1 THEN mn.mediac - 1 ELSE mn.mediac)
        /\ estabs' \in 0 .. 2 /\ Telling' /\ Told'
    BY <1>1, <2>4, <2>5, CountsOne
  <2>7. MnatTypeOK'
    BY <1>1, <1>3, <2>6, MnTyped, MnShape
  <2>8. Missing' = Missing /\ Cardinality(Missing) \in Nat
    <3>1. Missing \in SUBSET Media
      BY DEF Missing
    <3> QED
      BY <3>1, <1>3, MediaCounted DEF Missing
  <2>9. mn'.mediac <= Cardinality(Missing')
    <3>1. mn.mediac <= Cardinality(Missing) /\ mn.mediac \in Int
      BY <1>1, MnTyped DEF MnatInv, CountedDown, SessLive
    <3> QED
      BY <3>1, <2>6, <2>8
  <2>10. Asking' /\ mn'.st = "live"
    BY <1>1, <2>6 DEF MnatInv, Asking, SessLive
  <2> QED
    BY <1>1, <1>3, <2>1, <2>2, <2>3, <2>6, <2>7, <2>8, <2>9, <2>10
       DEF MnatInv, Unused, SettingUp, CountedDown
<1> QED
  BY <1>2, <1>3 DEF Remapped

(* A component of ice that waits belongs to a medium that is missing. *)
LEMMA GatheringWaits ==
  ASSUME MnatInv, SessLive, mode = "ice", NEW m \in Media, NEW c \in Comps,
         mm[m].comp[c] \in {"turn", "stun"}
  PROVE  /\ mm[m] \in MediaRec /\ mm[m].st = "live" /\ mn.srv
         /\ Gathering(mm[m]) /\ ~mm[m].ok /\ mm[m].gh
<1>1. mm[m] \in MediaRec /\ MediumSound(mm[m], mn.srv, mode)
  BY MnTyped DEF MnatInv, CountedDown, SessLive
<1>2. mn.srv
  BY <1>1 DEF MediumSound, Unstarted, Comps
<1>3. mm[m].st = "live" /\ Gathering(mm[m])
  BY <1>1, <1>2 DEF MediumSound
<1>4. ~mm[m].ok /\ mm[m].gh
  BY <1>3 DEF Gathering, Comps
<1> QED
  BY <1>1, <1>2, <1>3, <1>4

(* A component of ice is done: the handler is called by the last one       *)
(* (call_gather_handler).                                                  *)
LEMMA CallGatherInv ==
  ASSUME MnatInv, SessLive, mode = "ice", NEW m \in Media, NEW c \in Comps,
         mm[m].comp[c] \in {"turn", "stun"}, NEW failed \in BOOLEAN,
         CallGather(m, [mm[m] EXCEPT !.nstun = @ - 1, !.comp[c] = "ok"], failed),
         UNCHANGED mode
  PROVE  MnatInv'
<1> DEFINE comp == [mm[m].comp EXCEPT ![c] = "ok"]
           nstun == mm[m].nstun - 1
           r == [mm[m] EXCEPT !.nstun = nstun, !.comp = comp]
           done == [r EXCEPT !.gh = FALSE, !.ok = TRUE]
<1>0. /\ MnatTypeOK /\ mm[m] \in MediaRec /\ mm[m].st = "live" /\ mn.srv
      /\ Gathering(mm[m]) /\ ~mm[m].ok /\ mm[m].gh
  BY GatheringWaits DEF MnatInv
<1>1. [mm[m] EXCEPT !.nstun = @ - 1, !.comp[c] = "ok"] = r
  BY <1>0 DEF MediaRec
<1>2. /\ comp \in [Comps -> {"idle", "turn", "stun", "ok"}]
      /\ comp[1] \in {"turn", "stun", "ok"} /\ comp[2] \in {"turn", "stun", "ok"}
      /\ Outstanding(comp[1]) + Outstanding(comp[2]) =
           Outstanding(mm[m].comp[1]) + Outstanding(mm[m].comp[2]) - 1
  BY <1>0 DEF MediaRec, Comps, Gathering, Outstanding
<1>3. nstun = Outstanding(comp[1]) + Outstanding(comp[2])
  BY <1>0, <1>2 DEF Gathering, Outstanding
<1> HIDE DEF comp, nstun
<1>4. /\ nstun \in -2 .. 2
      /\ nstun = 0 <=> (comp[1] = "ok" /\ comp[2] = "ok")
  BY <1>2, <1>3 DEF Outstanding
<1>5. r \in MediaRec
  <2>1. [mm[m] EXCEPT !.comp = comp] \in MediaRec
    BY <1>0, <1>2 DEF MediaRec
  <2>2. [[mm[m] EXCEPT !.comp = comp] EXCEPT !.nstun = nstun] \in MediaRec
    BY <2>1, <1>4 DEF MediaRec
  <2>3. r = [[mm[m] EXCEPT !.comp = comp] EXCEPT !.nstun = nstun]
    BY <1>0 DEF MediaRec
  <2> QED
    BY <2>2, <2>3
<1>6. /\ r.comp = comp /\ r.nstun = nstun /\ r.st = mm[m].st
      /\ r.gh = mm[m].gh /\ r.ok = mm[m].ok
  BY <1>0 DEF MediaRec
<1> HIDE DEF r
<1>7. CASE nstun # 0
  <2>1. Gathering(r) /\ ~r.ok /\ r.gh
    BY <1>0, <1>2, <1>3, <1>4, <1>6, <1>7 DEF Gathering
  <2>2. MediumSound(r, mn.srv, mode)
    BY <1>0, <1>6, <2>1 DEF MediumSound
  <2>3. mm' = [mm EXCEPT ![m] = r] /\ UNCHANGED <<mn, estabs, uaf>>
    BY <1>1, <1>6, <1>7 DEF CallGather, Pending
  <2> QED
    BY <1>0, <1>5, <2>1, <2>2, <2>3, MediumChanged
<1>8. CASE nstun = 0 /\ failed
  <2>1. Closed /\ uaf' = TRUE
    BY <1>0, <1>1, <1>6, <1>8 DEF CallGather, Pending
  <2> QED
    BY <2>1, ClosedInv
<1>9. CASE nstun = 0 /\ ~failed
  <2>1. /\ mm' = [mm EXCEPT ![m] = done]
        /\ CountDown(mn) /\ UNCHANGED uaf
    BY <1>0, <1>1, <1>6, <1>9 DEF CallGather, Pending
  <2>2. /\ done \in MediaRec /\ done.comp = comp /\ done.nstun = nstun
        /\ done.st = r.st /\ done.gh = FALSE /\ done.ok = TRUE
    BY <1>5, <1>6 DEF MediaRec
  <2> HIDE DEF done
  <2>3. Gathering(done) /\ done.ok
    BY <1>2, <1>4, <1>9, <2>2 DEF Gathering
  <2>4. MediumSound(done, mn.srv, mode)
    BY <1>0, <1>6, <2>2, <2>3 DEF MediumSound
  <2> QED
    BY <1>0, <2>1, <2>2, <2>3, <2>4, MediumDone
<1> QED
  BY <1>7, <1>8, <1>9

(* turnc_handler *)
LEMMA GatherTurnInv ==
  ASSUME MnatInv, NEW m \in Media, NEW c \in Comps, GatherTurn(m, c)
  PROVE  MnatInv'
<1>1. mode = "ice" /\ SessLive /\ mm[m].comp[c] = "turn" /\ UNCHANGED mode
  BY DEF GatherTurn
<1>2. ASSUME NEW failed \in BOOLEAN,
             CallGather(m, [mm[m] EXCEPT !.nstun = @ - 1, !.comp[c] = "ok"], failed)
      PROVE  MnatInv'
  BY <1>1, <1>2, CallGatherInv
<1>3. CASE /\ mm' = [mm EXCEPT ![m] = [mm[m] EXCEPT !.comp[c] = "stun"]]
           /\ UNCHANGED <<mn, estabs, uaf>>
  <2> DEFINE comp == [mm[m].comp EXCEPT ![c] = "stun"]
             r == [mm[m] EXCEPT !.comp = comp]
  <2>0. /\ MnatTypeOK /\ mm[m] \in MediaRec /\ mm[m].st = "live" /\ mn.srv
        /\ Gathering(mm[m]) /\ ~mm[m].ok /\ mm[m].gh
    BY <1>1, GatheringWaits DEF MnatInv
  <2>1. mm' = [mm EXCEPT ![m] = r]
    BY <1>3, <2>0 DEF MediaRec
  <2>2. /\ comp \in [Comps -> {"idle", "turn", "stun", "ok"}]
        /\ comp[1] \in {"turn", "stun", "ok"} /\ comp[2] \in {"turn", "stun", "ok"}
        /\ ~(comp[1] = "ok" /\ comp[2] = "ok")
        /\ Outstanding(comp[1]) + Outstanding(comp[2]) =
             Outstanding(mm[m].comp[1]) + Outstanding(mm[m].comp[2])
    BY <1>1, <2>0 DEF MediaRec, Comps, Gathering, Outstanding
  <2> HIDE DEF comp
  <2>3. /\ r \in MediaRec /\ r.comp = comp /\ r.nstun = mm[m].nstun
        /\ r.st = mm[m].st /\ r.gh = mm[m].gh /\ r.ok = mm[m].ok
    BY <2>0, <2>2 DEF MediaRec
  <2> HIDE DEF r
  <2>4. Gathering(r) /\ ~r.ok
    BY <2>0, <2>2, <2>3 DEF Gathering
  <2>5. MediumSound(r, mn.srv, mode)
    BY <1>1, <2>0, <2>3, <2>4 DEF MediumSound
  <2> QED
    BY <1>1, <1>3, <2>0, <2>1, <2>3, <2>4, <2>5, MediumChanged
<1> QED
  BY <1>2, <1>3 DEF GatherTurn

(* A relay is lost after the medium was done. *)
LEMMA RelayLostInv ==
  ASSUME MnatInv, NEW m \in Media, NEW c \in Comps, RelayLost(m, c)
  PROVE  MnatInv'
<1>1. /\ mode = "ice" /\ SessLive /\ mm[m].comp[c] = "ok" /\ ~mm[m].gh
      /\ mm[m].nstun > -2 /\ UNCHANGED <<mode, mn, estabs, uaf>>
      /\ mm' = [mm EXCEPT ![m].nstun = @ - 1]
  BY DEF RelayLost
<1> DEFINE nstun == mm[m].nstun - 1
           r == [mm[m] EXCEPT !.nstun = nstun]
<1>2. MnatTypeOK /\ mm[m] \in MediaRec /\ MediumSound(mm[m], mn.srv, mode)
  BY <1>1, MnTyped DEF MnatInv, CountedDown, SessLive
<1>3. mn.srv /\ mm[m].st = "live" /\ Gathering(mm[m]) /\ mm[m].ok
  BY <1>1, <1>2, MnTyped DEF MediumSound, Unstarted, Gathering
<1>4. mm' = [mm EXCEPT ![m] = r]
  BY <1>1, <1>2 DEF MediaRec
<1>5. nstun \in -2 .. 2 /\ nstun <= 0
  <2>1. mm[m].nstun \in -2 .. 2 /\ mm[m].nstun <= 0
    BY <1>2, <1>3 DEF MediaRec, Gathering
  <2> QED
    BY <1>1, <2>1
<1> HIDE DEF nstun
<1>6. /\ r \in MediaRec /\ r.comp = mm[m].comp /\ r.nstun = nstun
      /\ r.st = mm[m].st /\ r.gh = mm[m].gh /\ r.ok = mm[m].ok
  BY <1>2, <1>5 DEF MediaRec
<1> HIDE DEF r
<1>7. Gathering(r) /\ r.ok
  BY <1>3, <1>5, <1>6 DEF Gathering
<1>8. MediumSound(r, mn.srv, mode)
  BY <1>1, <1>3, <1>6, <1>7 DEF MediumSound
<1> QED
  BY <1>1, <1>3, <1>4, <1>6, <1>7, <1>8, MediumChanged

(* Nothing is counted early without keepalives. *)
LEMMA IceComplete ==
  ASSUME MnatInv, SessLive, mode = "ice", estabs > 0
  PROVE  Missing = {}
<1>1. mn.mediac = Cardinality(Missing) \/ Missing = {}
  BY DEF MnatInv, CountedDown, SessLive
<1>2. ~(mn.mediac > 0) /\ mn.mediac \in Int
  BY MnTyped DEF MnatInv, CountedDown, Telling, SessLive
<1>3. /\ Cardinality(Missing) \in Nat
      /\ Cardinality(Missing) = 0 <=> Missing = {}
  BY MediaCounted DEF Missing
<1> QED
  BY <1>1, <1>2, <1>3

(* What says only which checks are done changes no address. *)
LEMMA ChecksInv ==
  ASSUME MnatInv, SessLive, UNCHANGED <<mode, uaf>>, Missing = {},
         mm' \in [Media -> MediaRec],
         \A x \in Media : /\ mm'[x].st = mm[x].st /\ mm'[x].comp = mm[x].comp
                          /\ mm'[x].nstun = mm[x].nstun /\ mm'[x].gh = mm[x].gh
                          /\ mm'[x].ok = mm[x].ok,
         mn' \in [st : {"none", "setup", "live", "freed"}, srv : BOOLEAN,
             dq : Queries, mediac : -1 .. Cardinality(Media), started : BOOLEAN,
             reinvite : BOOLEAN, early : BOOLEAN],
         mn'.st = mn.st, mn'.dq = mn.dq, mn'.srv = mn.srv, mn'.mediac = mn.mediac,
         mn'.started = TRUE, mn'.early = mn.early, mode = "ice", estabs > 0,
         estabs' \in 0 .. 2, estabs' >= estabs
  PROVE  MnatInv'
<1>1. MnatTypeOK'
  BY MnTyped, MnShape DEF MnatInv
<1>2. Missing' = {} /\ Cardinality({}) = 0
  BY FS_EmptySet DEF Missing
<1>3. \A x \in Media : MediumSound(mm'[x], mn'.srv, mode')
  BY DEF MnatInv, CountedDown, SessLive, MediumSound, Unstarted, AtServer, Gathering
<1>4. mn'.mediac <= 0 /\ estabs' > 0 /\ ~mn'.early
  BY MnTyped DEF MnatInv, CountedDown, Telling, SessLive
<1>5. Told' /\ Asking' /\ Telling'
  BY <1>1, <1>4 DEF MnatInv, Told, Asking, Telling
<1> QED
  BY <1>1, <1>2, <1>3, <1>4, <1>5 DEF MnatInv, Unused, SettingUp, CountedDown, SessLive

(* Every step of a session keeps its invariant. *)
LEMMA MnatNextInv == MnatInv /\ [MnatNext]_mnatVars => MnatInv'
<1> SUFFICES ASSUME MnatInv, [MnatNext]_mnatVars PROVE MnatInv'
  OBVIOUS
<1>0. MnatTypeOK
  BY DEF MnatInv
<1>1. ASSUME NEW query \in Queries, MnatSession(query) PROVE MnatInv'
  BY <1>1, SessionInv
<1>2. ASSUME NEW m \in Media, MnatMedia(m) PROVE MnatInv'
  BY <1>2, MediaAllocInv
<1>3. CASE MnatReady
  BY <1>3, ReadyInv
<1>4. CASE SrvAnswer
  BY <1>4, SrvInv
<1>5. CASE AddrAnswer
  BY <1>5, ResolvedInv DEF AddrAnswer
<1>6. CASE MnatFree
  BY <1>0, <1>6, MnTyped, ClosedInv DEF MnatFree
<1>7. CASE Answers
  <2>1. PICK m \in Media, c \in Comps :
          Mapped(m, c) \/ GatherTurn(m, c) \/ \E f \in BOOLEAN : GatherStun(m, c, f)
    BY <1>7 DEF Answers
  <2>2. CASE Mapped(m, c)
    BY <2>2, MappedInv
  <2>3. CASE GatherTurn(m, c)
    BY <2>3, GatherTurnInv
  <2>4. ASSUME NEW f \in BOOLEAN, GatherStun(m, c, f) PROVE MnatInv'
    <3>1. /\ mode = "ice" /\ SessLive /\ mm[m].comp[c] \in {"turn", "stun"} /\ UNCHANGED mode
          /\ CallGather(m, [mm[m] EXCEPT !.nstun = @ - 1, !.comp[c] = "ok"], f)
      BY <2>4 DEF GatherStun
    <3> QED
      BY <3>1, CallGatherInv
  <2> QED
    BY <2>1, <2>2, <2>3, <2>4
<1>8. CASE IceStart
  <2>1. /\ mode = "ice" /\ SessLive /\ estabs > 0 /\ UNCHANGED <<mode, estabs, uaf>>
        /\ mn' = [mn EXCEPT !.started = TRUE]
    BY <1>8 DEF IceStart
  <2>2. PICK on \in SUBSET Media :
          mm' = [m \in Media |-> [mm[m] EXCEPT !.complete = m \notin on]]
    BY <1>8 DEF IceStart
  <2>3. Missing = {}
    BY <2>1, <1>0, IceComplete
  <2>4. \A x \in Media : /\ mm'[x] \in MediaRec
                         /\ mm'[x].st = mm[x].st /\ mm'[x].comp = mm[x].comp
                         /\ mm'[x].nstun = mm[x].nstun /\ mm'[x].gh = mm[x].gh
                         /\ mm'[x].ok = mm[x].ok
    <3> TAKE x \in Media
    <3>1. PICK complete \in BOOLEAN : mm'[x] = [mm[x] EXCEPT !.complete = complete]
      BY <2>2
    <3>2. mm[x] \in MediaRec
      BY <1>0, MnTyped
    <3> QED
      BY <3>1, <3>2 DEF MediaRec
  <2>5. mm' \in [Media -> MediaRec]
    BY <2>2, <2>4
  <2>6. /\ mn' \in [st : {"none", "setup", "live", "freed"}, srv : BOOLEAN,
             dq : Queries, mediac : -1 .. Cardinality(Media), started : BOOLEAN,
             reinvite : BOOLEAN, early : BOOLEAN]
        /\ mn'.st = mn.st /\ mn'.dq = mn.dq /\ mn'.srv = mn.srv
        /\ mn'.mediac = mn.mediac /\ mn'.started = TRUE /\ mn'.early = mn.early
    BY <2>1, <1>0 DEF MnatTypeOK
  <2>7. estabs' \in 0 .. 2 /\ estabs' >= estabs
    BY <2>1, <1>0, MnTyped
  <2> QED
    BY <2>1, <2>3, <2>4, <2>5, <2>6, <2>7, ChecksInv
<1>9. ASSUME NEW m \in Media, NEW c \in Comps, Remapped(m, c) PROVE MnatInv'
  BY <1>9, RemappedInv
<1>10. ASSUME NEW m \in Media, NEW c \in Comps, RelayLost(m, c) PROVE MnatInv'
  BY <1>10, RelayLostInv
<1>11. ASSUME NEW m \in Media, NEW failed \in BOOLEAN, NEW changed \in BOOLEAN,
              NEW update \in BOOLEAN, ConncheckDone(m, failed, changed, update)
       PROVE  MnatInv'
  <2> DEFINE reinvite == mn.reinvite \/ (~failed /\ changed)
             complete == mm[m].complete \/ ~failed
  <2>1. /\ mode = "ice" /\ SessLive /\ mn.started /\ UNCHANGED <<mode, uaf>>
        /\ mm' = [mm EXCEPT ![m].complete = complete]
    BY <1>11 DEF ConncheckDone
  <2>2. \/ Estab /\ mn' = [mn EXCEPT !.reinvite = FALSE]
        \/ UNCHANGED estabs /\ mn' = [mn EXCEPT !.reinvite = reinvite]
    BY <1>11 DEF ConncheckDone
  <2>3. Missing = {} /\ estabs > 0
    BY <2>1, <1>0, IceComplete DEF MnatInv, Told
  <2>4. complete \in BOOLEAN /\ reinvite \in BOOLEAN
    OBVIOUS
  <2> HIDE DEF complete, reinvite
  <2>5. /\ mm' \in [Media -> MediaRec]
        /\ \A x \in Media : /\ mm'[x].st = mm[x].st /\ mm'[x].comp = mm[x].comp
                            /\ mm'[x].nstun = mm[x].nstun /\ mm'[x].gh = mm[x].gh
                            /\ mm'[x].ok = mm[x].ok
    <3>1. mm \in [Media -> MediaRec]
      BY <1>0, MnTyped
    <3>2. \A x \in Media : mm'[x] = IF x = m THEN [mm[m] EXCEPT !.complete = complete] ELSE mm[x]
      BY <2>1, <3>1
    <3>3. \A x \in Media : mm[x] \in MediaRec
      BY <3>1
    <3>4. [mm[m] EXCEPT !.complete = complete] \in MediaRec
      BY <2>4, <3>3 DEF MediaRec
    <3>5. mm' \in [Media -> MediaRec]
      BY <2>1, <3>1, <3>4
    <3> QED
      BY <3>2, <3>3, <3>5 DEF MediaRec
  <2>6. /\ mn' \in [st : {"none", "setup", "live", "freed"}, srv : BOOLEAN,
             dq : Queries, mediac : -1 .. Cardinality(Media), started : BOOLEAN,
             reinvite : BOOLEAN, early : BOOLEAN]
        /\ mn'.st = mn.st /\ mn'.dq = mn.dq /\ mn'.srv = mn.srv
        /\ mn'.mediac = mn.mediac /\ mn'.started = mn.started /\ mn'.early = mn.early
    BY <2>2, <2>4, <1>0 DEF MnatTypeOK
  <2>7. estabs' \in 0 .. 2 /\ estabs' >= estabs
    BY <2>2, <1>0, MnTyped DEF Estab
  <2>8. mn'.started = TRUE
    BY <2>1, <2>6, <1>0, MnTyped
  <2> QED
    BY <2>1, <2>3, <2>5, <2>6, <2>7, <2>8, ChecksInv
<1>12. CASE UNCHANGED mnatVars
  BY <1>12 DEF mnatVars, MnatInv, MnatTypeOK, Told, Asking, Unused, SettingUp,
               CountedDown, Telling, Missing, MediaLive
<1> QED
  BY <1>1, <1>2, <1>3, <1>4, <1>5, <1>6, <1>7, <1>8, <1>9, <1>10, <1>11, <1>12
     DEF MnatNext

(* The invariant says that the call is told in time. *)
LEMMA MnatInvComplete == MnatInv => EstablishedComplete
<1> SUFFICES ASSUME MnatInv PROVE EstablishedComplete
  OBVIOUS
<1>1. MnatTypeOK /\ Told
  BY DEF MnatInv
<1>2. ASSUME SessLive
      PROVE  /\ \A m \in Media : MediumSound(mm[m], mn.srv, mode)
             /\ Missing = {} => estabs > 0
             /\ ~mn.early /\ estabs > 0 => Missing = {}
  <2>1. /\ \A m \in Media : MediumSound(mm[m], mn.srv, mode)
        /\ mn.mediac > 0 <=> estabs = 0
        /\ mn.mediac <= Cardinality(Missing)
        /\ ~mn.early => mn.mediac = Cardinality(Missing) \/ Missing = {}
    BY <1>2 DEF MnatInv, CountedDown, Telling, SessLive
  <2>2. /\ Cardinality(Missing) \in Nat
        /\ Cardinality(Missing) = 0 <=> Missing = {}
    BY MediaCounted DEF Missing
  <2>3. mn.mediac \in Int /\ estabs \in 0 .. 2
    BY <1>1, MnTyped
  <2> QED
    BY <2>1, <2>2, <2>3
<1>3. ASSUME SessLive, NEW m \in Media, mm[m].ok
      PROVE  ~Waiting(m) /\ mm[m].st = "live"
  <2>1. MediumSound(mm[m], mn.srv, mode)
    BY <1>2, <1>3
  <2>2. mm[m].comp[1] = "ok" /\ mm[m].comp[2] = "ok"
    BY <1>3, <2>1 DEF MediumSound, Unstarted, AtServer, Gathering
  <2> QED
    BY <2>1, <2>2 DEF MediumSound, Waiting, Comps
<1>4. SessLive /\ estabs > 0 /\ ~mn.early =>
        \A m \in Media : mm[m].ok /\ ~Waiting(m) /\ mm[m].st = "live"
  BY <1>2, <1>3 DEF Missing
<1>5. SessLive /\ (\A m \in Media : mm[m].ok) => estabs > 0
  BY <1>2 DEF Missing
<1> QED
  BY <1>1, <1>4, <1>5 DEF EstablishedComplete, Told

(* The call is told of success when every component of every medium has    *)
(* its addresses, and then at once, exactly once before the peer answers,  *)
(* though answers come in any order, servers fail, one asks the other, and *)
(* mappings change (stun.c, turn.c and ice.c of baresip, gather.c).  Only  *)
(* a mapping that is told again while another medium waits is counted in   *)
(* its place (stun.c:74), and then the call may be told too early.         *)
THEOREM AddressesComplete == MnatSpec => []EstablishedComplete
<1>1. MnatSpec => []MnatInv
  BY MnatInitInv, MnatNextInv, PTL DEF MnatSpec
<1> QED
  BY <1>1, MnatInvComplete, PTL

----------------------------------------------------------------------------
(* The keepalives of STUN and the TURN client *)

(* A transaction under way has the state, the pointer and the owner that   *)
(* belong together: what StunSafe says, of each transaction.               *)
OwnersAgree == \A t \in Ct :
  /\ Active(t) <=> t \in {ska.ct, uc.ct}
  /\ Active(t) => \/ ctrans[t].owner = "ska" /\ ska.ct = t /\ ska.st = "live"
                  \/ ctrans[t].owner = "uc" /\ uc.ct = t /\ uc.st = "live"

(* A flow has its timer or a probe, not both, or a probe would be lost     *)
(* sight of; and no two owners have one transaction.                       *)
FlowProbed ==
  /\ uc.tmr => uc.ct = NoCt
  /\ uc.st = "live" => uc.tmr \/ uc.ct # NoCt
  /\ ska.ct = uc.ct => ska.ct = NoCt

(* The inductive invariant of the two keepalives *)
StunInv ==
  StunTypeOK /\ ~orphan /\ OwnersAgree /\ MappingWatched /\ FlowProbed

(* The types of the fields, one by one. *)
LEMMA StunFields ==
  ASSUME StunTypeOK
  PROVE  /\ ska.st \in {"live", "freed"} /\ ska.interval \in 0 .. 1
         /\ ska.tmr \in BOOLEAN /\ ska.ct \in Ct \cup {NoCt}
         /\ ska.curmap \in Map \cup {NoMap}
         /\ uc.st \in {"none", "live", "freed"} /\ uc.tmr \in BOOLEAN
         /\ uc.ct \in Ct \cup {NoCt} /\ uc.maddr \in Map \cup {NoMap}
         /\ \A t \in Ct : /\ ctrans[t].st \in {"none", "live"}
                          /\ ctrans[t].txc \in 0 .. Rc
                          /\ ctrans[t].owner \in {"nil", "ska", "uc"}
BY DEF StunTypeOK

(* In the beginning there is no transaction and no flow. *)
LEMMA StunInitInv == StunInit => StunInv
<1> SUFFICES ASSUME StunInit PROVE StunInv
  OBVIOUS
<1> USE DEF NoCt, NoMap, NoTrans
<1>1. \A t \in Ct : ctrans[t] = NoTrans
  BY DEF StunInit
<1>2. /\ ska.ct = "nil" /\ ska.interval = 0 /\ ska.curmap = "nil"
      /\ uc.ct = "nil" /\ uc.st = "none" /\ uc.tmr = FALSE
  BY DEF StunInit
<1>3. StunTypeOK
  <2>1. NoTrans \in [st : {"none", "live"}, txc : 0 .. Rc, owner : {"nil", "ska", "uc"}]
    BY RcAssumption
  <2>2. ctrans \in [Ct -> [st : {"none", "live"}, txc : 0 .. Rc,
                          owner : {"nil", "ska", "uc"}]]
    BY <2>1 DEF StunInit
  <2>3. fka \in [FlowKa -> {"none", "on", "signalled"}] /\ orphan \in BOOLEAN
    BY DEF StunInit
  <2>4. ska \in [st : {"live", "freed"}, interval : 0 .. 1, tmr : BOOLEAN,
                ct : Ct \cup {NoCt}, curmap : Map \cup {NoMap}]
    BY DEF StunInit
  <2>5. uc \in [st : {"none", "live", "freed"}, tmr : BOOLEAN,
               ct : Ct \cup {NoCt}, maddr : Map \cup {NoMap}]
    BY DEF StunInit
  <2> QED
    BY <2>2, <2>3, <2>4, <2>5 DEF StunTypeOK, StunInit
<1>4. Kal = {} /\ ~orphan
  BY DEF StunInit, Kal
<1>5. OwnersAgree /\ FlowProbed
  BY <1>1, <1>2, RcAssumption DEF OwnersAgree, FlowProbed, Active
<1> QED
  BY <1>2, <1>3, <1>4, <1>5 DEF StunInv, MappingWatched

(* What a release does to the transactions (Deref). *)
LEMMA DerefFacts ==
  ASSUME StunTypeOK, NEW d, Deref(d)
  PROVE  /\ ctrans' \in [Ct -> [st : {"none", "live"}, txc : 0 .. Rc,
                                owner : {"nil", "ska", "uc"}]]
         /\ \A t \in Ct : t = d => ctrans'[t].st = "none"
         /\ \A t \in Ct : t # d => ctrans'[t] = ctrans[t]
BY RcAssumption DEF Deref, StunTypeOK, NoTrans

(* What a request does to them (Request). *)
LEMMA RequestFacts ==
  ASSUME StunTypeOK, NEW n \in Ct, NEW w \in {"ska", "uc"}, NEW d, Request(n, w, d)
  PROVE  /\ ctrans' \in [Ct -> [st : {"none", "live"}, txc : 0 .. Rc,
                                owner : {"nil", "ska", "uc"}]]
         /\ ctrans[n].st = "none"
         /\ ctrans'[n].st = "live" /\ ctrans'[n].owner = w
         /\ \A t \in Ct : t # n /\ t = d => ctrans'[t].st = "none"
         /\ \A t \in Ct : t # n /\ t # d => ctrans'[t] = ctrans[t]
BY RcAssumption DEF Request, StunTypeOK, NoTrans

(* stun/keepalive.c: the next probe (timeout). *)
LEMMA SkaTimeoutInv ==
  ASSUME StunInv, SkaTimeout
  PROVE  StunInv'
<1> USE DEF NoCt, NoMap
<1>0. StunTypeOK /\ "nil" \notin Ct /\ UNCHANGED <<uc, fka, orphan>>
  BY RcAssumption DEF StunInv, SkaTimeout
<1>1. CASE \E t \in Ct : /\ Request(t, "ska", ska.ct)
                         /\ ska' = [ska EXCEPT !.tmr = FALSE, !.ct = t]
                         /\ UNCHANGED known
  <2>1. PICK t \in Ct : /\ Request(t, "ska", ska.ct)
                        /\ ska' = [ska EXCEPT !.tmr = FALSE, !.ct = t]
                        /\ UNCHANGED known
    BY <1>1
  <2>2. /\ ska'.st = ska.st /\ ska'.interval = ska.interval /\ ska'.tmr = FALSE
        /\ ska'.ct = t /\ ska'.curmap = ska.curmap
    BY <2>1, <1>0 DEF StunTypeOK
  <2>3. StunTypeOK'
    BY <2>1, <1>0, RequestFacts, StunFields DEF StunTypeOK
  <2>4. OwnersAgree' /\ FlowProbed'
    <3>1. ctrans[t].st = "none" /\ ctrans'[t].st = "live" /\ ctrans'[t].owner = "ska"
      BY <1>0, <2>1, RequestFacts
    <3>2. \A x \in Ct : /\ x # t /\ x = ska.ct => ctrans'[x].st = "none"
                        /\ x # t /\ x # ska.ct => ctrans'[x] = ctrans[x]
      BY <1>0, <2>1, RequestFacts
    <3>3. t # ska.ct /\ t # uc.ct /\ ska.st = "live" /\ uc' = uc
      BY <1>0, <3>1 DEF StunInv, OwnersAgree, Active, SkaTimeout
    <3>4. OwnersAgree'
      BY <1>0, <2>2, <3>1, <3>2, <3>3 DEF StunInv, OwnersAgree, FlowProbed, Active
    <3>5. FlowProbed'
      BY <2>2, <3>3 DEF StunInv, FlowProbed
    <3> QED
      BY <3>4, <3>5
  <2>5. MappingWatched' /\ ~orphan'
    BY <2>1, <2>2, <1>0 DEF StunInv, MappingWatched, Kal
  <2> QED
    BY <2>3, <2>4, <2>5 DEF StunInv
<1>2. CASE /\ Deref(ska.ct)
           /\ ska' = [ska EXCEPT !.tmr = ska.interval > 0, !.ct = NoCt]
           /\ known' = "error"
  <2>1. (ska.interval > 0) \in BOOLEAN
    OBVIOUS
  <2>2. /\ ska'.st = ska.st /\ ska'.interval = ska.interval
        /\ ska'.tmr = (ska.interval > 0)
        /\ ska'.ct = "nil" /\ ska'.curmap = ska.curmap
    BY <1>2, <1>0 DEF StunTypeOK
  <2>3. StunTypeOK'
    BY <1>2, <1>0, <2>1, DerefFacts, StunFields DEF StunTypeOK
  <2>4. OwnersAgree' /\ FlowProbed'
    BY <1>2, <2>2, <1>0, DerefFacts, StunFields DEF StunInv, OwnersAgree, FlowProbed, Active, SkaTimeout
  <2>5. MappingWatched' /\ ~orphan'
    BY <1>2, <2>2, <1>0 DEF StunInv, MappingWatched, Kal
  <2> QED
    BY <2>3, <2>4, <2>5 DEF StunInv
<1> QED
  BY <1>1, <1>2 DEF SkaTimeout

(* stun/keepalive.c: its end (keepalive_destructor) and its interval. *)
LEMMA SkaFreeInv ==
  ASSUME StunInv, SkaFree
  PROVE  StunInv'
<1> USE DEF NoCt, NoMap
<1>0. StunTypeOK /\ "nil" \notin Ct /\ UNCHANGED <<known, uc, fka, orphan>> /\ Deref(ska.ct)
  BY RcAssumption DEF StunInv, SkaFree
<1>2. /\ ska'.st = "freed" /\ ska'.interval = ska.interval /\ ska'.tmr = FALSE
      /\ ska'.ct = "nil" /\ ska'.curmap = ska.curmap
  BY <1>0 DEF StunTypeOK, SkaFree
<1>3. StunTypeOK'
  BY <1>0, DerefFacts, StunFields DEF StunTypeOK, SkaFree
<1>4. OwnersAgree' /\ FlowProbed'
  BY <1>2, <1>0, DerefFacts, StunFields DEF StunInv, OwnersAgree, FlowProbed, Active
<1>5. MappingWatched' /\ ~orphan'
  BY <1>2, <1>0 DEF StunInv, MappingWatched, Kal
<1> QED
  BY <1>3, <1>4, <1>5 DEF StunInv

(* stun_keepalive_enable *)
LEMMA SkaEnableInv ==
  ASSUME StunInv, NEW i \in 0 .. 1, SkaEnable(i)
  PROVE  StunInv'
<1> USE DEF NoCt, NoMap
<1>0. StunTypeOK /\ UNCHANGED <<ctrans, known, uc, fka, orphan>>
  BY DEF StunInv, SkaEnable
<1>1. (i > 0) \in BOOLEAN
  OBVIOUS
<1>2. /\ ska'.st = ska.st /\ ska'.interval = i /\ ska'.tmr = (i > 0)
      /\ ska'.ct = ska.ct /\ ska'.curmap = ska.curmap
  BY <1>0 DEF StunTypeOK, SkaEnable
<1>3. StunTypeOK'
  BY <1>0, <1>1, StunFields DEF StunTypeOK, SkaEnable
<1>4. OwnersAgree' /\ FlowProbed'
  BY <1>2, <1>0 DEF StunInv, OwnersAgree, FlowProbed, Active
<1>5. MappingWatched' /\ ~orphan'
  BY <1>2, <1>0 DEF StunInv, MappingWatched, Kal
<1> QED
  BY <1>3, <1>4, <1>5 DEF StunInv

(* The answer of a probe, or its end (stun_response_handler). *)
LEMMA SkaAnswerInv ==
  ASSUME StunInv, NEW t \in Ct, NEW err \in BOOLEAN, NEW scode \in BOOLEAN,
         NEW map \in Map \cup {NoMap}, SkaAnswer(t, err, scode, map)
  PROVE  StunInv'
<1> USE DEF NoCt, NoMap
<1>0. /\ StunTypeOK /\ "nil" \notin Ct /\ UNCHANGED <<uc, fka>> /\ Deref(t)
      /\ Active(t) /\ ctrans[t].owner = "ska"
  BY RcAssumption DEF StunInv, SkaAnswer
<1>1. ska.ct = t /\ ska.st = "live" /\ uc.ct # t
  <2>1. ska.ct = t /\ ska.st = "live"
    BY <1>0 DEF StunInv, OwnersAgree
  <2>2. ASSUME uc.ct = t PROVE FALSE
    BY <1>0, <2>1, <2>2 DEF StunInv, FlowProbed
  <2> QED
    BY <2>1, <2>2
<1> DEFINE tm == IF SkaRestart(err \/ scode) THEN TRUE ELSE ska.tmr
           cm == IF err \/ scode THEN NoMap ELSE IF map = NoMap THEN ska.curmap ELSE map
<1>2. ska' = [[ska EXCEPT !.ct = "nil"] EXCEPT !.tmr = tm, !.curmap = cm]
  BY <1>0, StunFields DEF SkaAnswer, Completed, StunTypeOK
<1>3. tm \in BOOLEAN /\ (ska.interval > 0 => tm = TRUE) /\ cm \in Map \cup {NoMap}
  BY <1>0, StunFields DEF SkaRestart
<1>4. /\ cm = NoMap \/ cm = map \/ (cm = ska.curmap /\ map = NoMap)
      /\ cm # NoMap => known' \in {cm, "error"}
  BY <1>0 DEF SkaAnswer, StunInv, MappingWatched
<1>5. known' \in Map \cup {NoMap, "error"}
  BY <1>0 DEF SkaAnswer, StunTypeOK
<1> HIDE DEF tm, cm
<1>6. /\ ska'.st = ska.st /\ ska'.interval = ska.interval /\ ska'.tmr = tm
      /\ ska'.ct = "nil" /\ ska'.curmap = cm
  BY <1>2, <1>0 DEF StunTypeOK
<1>7. StunTypeOK'
  <2>1. ska' \in [st : {"live", "freed"}, interval : 0 .. 1, tmr : BOOLEAN,
                  ct : Ct \cup {NoCt}, curmap : Map \cup {NoMap}]
    BY <1>2, <1>3, <1>0 DEF StunTypeOK
  <2>2. orphan' \in BOOLEAN
    BY DEF SkaAnswer
  <2> QED
    BY <1>0, <1>5, <2>1, <2>2, DerefFacts DEF StunTypeOK
<1>8. OwnersAgree' /\ FlowProbed'
  BY <1>0, <1>1, <1>6, DerefFacts DEF StunInv, OwnersAgree, FlowProbed, Active
<1>9. MappingWatched' /\ ~orphan'
  BY <1>0, <1>1, <1>3, <1>4, <1>6 DEF StunInv, MappingWatched, Kal, SkaAnswer
<1> QED
  BY <1>7, <1>8, <1>9 DEF StunInv

(* sip/keepalive_udp.c: a flow is used, or made (sip_keepalive_udp). *)
LEMMA KeepaliveUdpInv ==
  ASSUME StunInv, NEW k \in FlowKa, KeepaliveUdp(k)
  PROVE  StunInv'
<1> USE DEF NoCt, NoMap
<1>0. StunTypeOK /\ "nil" \notin Ct /\ UNCHANGED <<ctrans, ska, known, orphan>>
  BY RcAssumption DEF StunInv, KeepaliveUdp
<1>1. fka' \in [FlowKa -> {"none", "on", "signalled"}]
  BY <1>0 DEF KeepaliveUdp, StunTypeOK
<1>2. CASE uc.st = "live"
  <2>1. uc' = uc
    BY <1>2 DEF KeepaliveUdp
  <2>2. uc.tmr \/ uc.ct # "nil"
    BY <1>2, <1>0, RcAssumption DEF StunInv, FlowProbed
  <2> QED
    BY <1>0, <1>1, <1>2, <2>1, <2>2 DEF StunInv, StunTypeOK, OwnersAgree, FlowProbed, Active, MappingWatched
<1>3. CASE uc.st # "live"
  <2>1. uc' = [st |-> "live", tmr |-> TRUE, ct |-> "nil", maddr |-> "nil"]
    BY <1>3 DEF KeepaliveUdp
  <2>2. uc.ct = "nil"
    BY <1>0, <1>3, StunFields DEF StunInv, OwnersAgree, FlowProbed
  <2>3. StunTypeOK'
    BY <1>0, <1>1, <2>1 DEF StunTypeOK
  <2>4. OwnersAgree' /\ FlowProbed'
    BY <1>0, <2>1, <2>2, <1>3 DEF StunInv, OwnersAgree, FlowProbed, Active
  <2>5. MappingWatched' /\ ~orphan'
    BY <1>0, <2>1 DEF StunInv, MappingWatched
  <2> QED
    BY <2>3, <2>4, <2>5 DEF StunInv
<1> QED
  BY <1>2, <1>3

(* A user stops its keepalive. *)
LEMMA KeepaliveStopInv ==
  ASSUME StunInv, NEW k \in FlowKa, KeepaliveStop(k)
  PROVE  StunInv'
<1>1. StunTypeOK /\ UNCHANGED <<ctrans, ska, known, uc, orphan>>
  BY DEF StunInv, KeepaliveStop
<1>2. fka' \in [FlowKa -> {"none", "on", "signalled"}] /\ Kal' \subseteq Kal
  BY <1>1 DEF KeepaliveStop, StunTypeOK, Kal
<1> QED
  BY <1>1, <1>2 DEF StunInv, StunTypeOK, OwnersAgree, FlowProbed, Active, MappingWatched

(* The flow is closed with its transaction (udpconn_close). *)
LEMMA CloseInv ==
  ASSUME StunInv, udpconn_close, Deref(uc.ct), UNCHANGED <<ska, known, orphan>>
  PROVE  StunInv'
<1> USE DEF NoCt, NoMap
<1>0. StunTypeOK /\ "nil" \notin Ct
  BY RcAssumption DEF StunInv
<1>1. /\ uc'.st = "freed" /\ uc'.tmr = FALSE /\ uc'.ct = "nil"
      /\ uc' \in [st : {"none", "live", "freed"}, tmr : BOOLEAN,
                  ct : Ct \cup {NoCt}, maddr : Map \cup {NoMap}]
  BY <1>0 DEF udpconn_close, StunTypeOK
<1>2. fka' \in [FlowKa -> {"none", "on", "signalled"}] /\ Kal' = {}
  BY <1>0 DEF udpconn_close, StunTypeOK, Kal
<1>3. StunTypeOK'
  BY <1>0, <1>1, <1>2, DerefFacts DEF StunTypeOK
<1>4. OwnersAgree' /\ FlowProbed'
  BY <1>0, <1>1, DerefFacts, StunFields DEF StunInv, OwnersAgree, FlowProbed, Active
<1>5. MappingWatched' /\ ~orphan'
  BY <1>1, <1>2 DEF StunInv, MappingWatched
<1> QED
  BY <1>3, <1>4, <1>5 DEF StunInv

(* The timer of the flow (udpconn_keepalive_handler). *)
LEMMA FlowTimeoutInv ==
  ASSUME StunInv, FlowTimeout
  PROVE  StunInv'
<1> USE DEF NoCt, NoMap
<1>0. /\ StunTypeOK /\ "nil" \notin Ct /\ UNCHANGED <<ska, known, orphan>>
      /\ uc.st = "live" /\ uc.tmr /\ uc.ct = "nil"
  BY RcAssumption DEF StunInv, FlowProbed, FlowTimeout
<1>1. CASE udpconn_close /\ Deref(uc.ct)
  BY <1>0, <1>1, CloseInv
<1>2. CASE \E t \in Ct : Request(t, "uc", NoCt)
             /\ uc' = [uc EXCEPT !.tmr = FALSE, !.ct = t] /\ UNCHANGED fka
  <2>1. PICK t \in Ct : Request(t, "uc", "nil")
             /\ uc' = [uc EXCEPT !.tmr = FALSE, !.ct = t] /\ UNCHANGED fka
    BY <1>2
  <2>2. /\ uc'.st = "live" /\ uc'.tmr = FALSE /\ uc'.ct = t
        /\ uc' \in [st : {"none", "live", "freed"}, tmr : BOOLEAN,
                    ct : Ct \cup {NoCt}, maddr : Map \cup {NoMap}]
    BY <1>0, <2>1 DEF StunTypeOK
  <2>3. StunTypeOK'
    BY <1>0, <2>1, <2>2, RequestFacts DEF StunTypeOK
  <2>4. OwnersAgree' /\ FlowProbed'
    BY <1>0, <2>1, <2>2, RequestFacts, StunFields DEF StunInv, OwnersAgree, FlowProbed, Active
  <2>5. MappingWatched' /\ ~orphan'
    BY <1>0, <2>1, <2>2 DEF StunInv, MappingWatched, Kal
  <2> QED
    BY <2>3, <2>4, <2>5 DEF StunInv
<1> QED
  BY <1>1, <1>2 DEF FlowTimeout

(* The answer of the flow's probe, or its end (stun_response_handler). *)
LEMMA FlowAnswerInv ==
  ASSUME StunInv, NEW t \in Ct, NEW err \in BOOLEAN, NEW scode \in BOOLEAN,
         NEW map \in Map \cup {NoMap}, FlowAnswer(t, err, scode, map)
  PROVE  StunInv'
<1> USE DEF NoCt, NoMap
<1>0. /\ StunTypeOK /\ "nil" \notin Ct /\ UNCHANGED <<ska, known>> /\ Deref(t)
      /\ Active(t) /\ ctrans[t].owner = "uc"
  BY RcAssumption DEF StunInv, FlowAnswer
<1>1. uc.ct = t /\ uc.st = "live" /\ ska.ct # t
  <2>1. uc.ct = t /\ uc.st = "live"
    BY <1>0 DEF StunInv, OwnersAgree
  <2>2. ASSUME ska.ct = t PROVE FALSE
    BY <1>0, <2>1, <2>2 DEF StunInv, FlowProbed
  <2> QED
    BY <2>1, <2>2
<1>2. orphan' = orphan
  BY <1>1 DEF FlowAnswer, StunInv, StunTypeOK
<1>3. CASE udpconn_close
  BY <1>0, <1>1, <1>2, <1>3, CloseInv
<1>4. CASE uc' = [Completed(t, uc) EXCEPT !.tmr = TRUE, !.maddr = map] /\ UNCHANGED fka
  <2>2. /\ uc'.st = "live" /\ uc'.tmr = TRUE /\ uc'.ct = "nil"
        /\ uc' \in [st : {"none", "live", "freed"}, tmr : BOOLEAN,
                    ct : Ct \cup {NoCt}, maddr : Map \cup {NoMap}]
    BY <1>0, <1>1, <1>4 DEF StunTypeOK, Completed
  <2>3. StunTypeOK'
    BY <1>0, <1>2, <1>4, <2>2, DerefFacts DEF StunTypeOK
  <2>4. OwnersAgree' /\ FlowProbed'
    BY <1>0, <1>1, <2>2, DerefFacts, StunFields DEF StunInv, OwnersAgree, FlowProbed, Active
  <2>5. MappingWatched' /\ ~orphan'
    BY <1>0, <1>2, <1>4, <2>2 DEF StunInv, MappingWatched, Kal
  <2> QED
    BY <2>3, <2>4, <2>5 DEF StunInv
<1> QED
  BY <1>3, <1>4 DEF FlowAnswer

(* A request is sent again (timeout_handler). *)
LEMMA RetransmitInv ==
  ASSUME StunInv, NEW t \in Ct, Retransmit(t)
  PROVE  StunInv'
<1>1. StunTypeOK /\ UNCHANGED <<ska, known, uc, fka, orphan>>
  BY DEF StunInv, Retransmit
<1>2. /\ ctrans' \in [Ct -> [st : {"none", "live"}, txc : 0 .. Rc,
                             owner : {"nil", "ska", "uc"}]]
      /\ \A x \in Ct : ctrans'[x].st = ctrans[x].st /\ ctrans'[x].owner = ctrans[x].owner
  BY <1>1, RcAssumption, StunFields DEF Retransmit, StunTypeOK
<1> QED
  BY <1>1, <1>2 DEF StunInv, StunTypeOK, OwnersAgree, FlowProbed, Active, MappingWatched, Kal

(* Every step of the two keepalives keeps the invariant. *)
LEMMA StunNextInv == StunInv /\ [StunNext]_stunVars => StunInv'
<1> SUFFICES ASSUME StunInv, [StunNext]_stunVars PROVE StunInv'
  OBVIOUS
<1>0. \A t \in Ct, err \in BOOLEAN, scode \in BOOLEAN, map \in Map \cup {NoMap} :
        Answer(t, err, scode, map) => StunInv'
  BY SkaAnswerInv, FlowAnswerInv DEF Answer
<1>1. ASSUME NEW t \in Ct, stun_ctrans_recv(t) \/ TimedOut(t) PROVE StunInv'
  BY <1>0, <1>1 DEF stun_ctrans_recv, TimedOut, NoMap
<1>2. CASE UNCHANGED stunVars
  BY <1>2 DEF stunVars, StunInv, StunTypeOK, OwnersAgree, FlowProbed, Active, MappingWatched, Kal
<1> QED
  BY <1>1, <1>2, RetransmitInv, SkaTimeoutInv, SkaFreeInv, SkaEnableInv,
     FlowTimeoutInv, KeepaliveUdpInv, KeepaliveStopInv DEF StunNext

----------------------------------------------------------------------------
(* What is not held has neither a timer nor a request. *)
OnlyHeld == \A o \in Obj : ~Held(o) => ~InFlight(o) /\ ~obj[o].tmr

(* Numbers from chanNr on are unused, and the channels that are held have  *)
(* different numbers below it.                                             *)
NumbersApart ==
  /\ \A n \in 0 .. ChanMax : n >= chanNr => bound[n] = "nil"
  /\ \A c \in Chan : Held(c) => number[c] < chanNr
  /\ \A c, d \in Chan : Held(c) /\ Held(d) /\ number[c] = number[d] => c = d

(* No number was asked for two peers. *)
NeverTwo == \A n \in 0 .. ChanMax : bound[n] # "two"

(* What an object that is held has: see KeptAlive. *)
Kept == \A o \in Obj : Held(o) =>
  /\ Up
  /\ obj[o].tmr \/ InFlight(o) \/ o \in thErr
  /\ ~(obj[o].tmr /\ InFlight(o))

(* The inductive invariant of the TURN client *)
TurnInv == TurnTypeOK /\ Kept /\ OnlyHeld /\ NumbersApart /\ NeverTwo

Methods == {"nil", "allocate", "refresh", "createperm", "chanbind"}
Codes == {0, 300, 401, 438, 500}
Counts == 0 .. FailcMax
ObjType == [st : {"none", "live"}, tmr : BOOLEAN, ct : Methods,
            last : Codes, failc : Counts]

(* The type of the objects, by a name *)
LEMMA ObjTypes ==
  ASSUME TurnTypeOK
  PROVE  obj \in [Obj -> ObjType]
BY DEF TurnTypeOK, ObjType, Methods, Codes, Counts

(* A new object is of the type. *)
LEMMA NoObjType == NoObj \in ObjType
BY TurnAssumption DEF NoObj, ObjType, Methods, Codes, Counts

(* The types of its fields *)
LEMMA ObjFields ==
  ASSUME NEW q \in ObjType
  PROVE  /\ q.st \in {"none", "live"} /\ q.ct \in Methods /\ q.tmr \in BOOLEAN
         /\ q.last \in Codes /\ q.failc \in Counts
BY DEF ObjType

(* Its fields, changed one at a time *)
LEMMA WithCt ==
  ASSUME NEW q \in ObjType, NEW m \in Methods, NEW r, r = [q EXCEPT !.ct = m]
  PROVE  r \in ObjType /\ r.st = q.st /\ r.ct = m /\ r.tmr = q.tmr
BY DEF ObjType

LEMMA WithTmr ==
  ASSUME NEW q \in ObjType, NEW b \in BOOLEAN, NEW r, r = [q EXCEPT !.tmr = b]
  PROVE  r \in ObjType /\ r.st = q.st /\ r.ct = q.ct /\ r.tmr = b
BY DEF ObjType

LEMMA WithSt ==
  ASSUME NEW q \in ObjType, NEW b \in {"none", "live"}, NEW r, r = [q EXCEPT !.st = b]
  PROVE  r \in ObjType /\ r.st = b /\ r.ct = q.ct /\ r.tmr = q.tmr
BY DEF ObjType

LEMMA WithLast ==
  ASSUME NEW q \in ObjType, NEW l \in Codes, NEW r, r = [q EXCEPT !.last = l]
  PROVE  r \in ObjType /\ r.st = q.st /\ r.ct = q.ct /\ r.tmr = q.tmr
BY DEF ObjType

LEMMA WithFailc ==
  ASSUME NEW q \in ObjType, NEW f \in Counts, NEW r, r = [q EXCEPT !.failc = f]
  PROVE  r \in ObjType /\ r.st = q.st /\ r.ct = q.ct /\ r.tmr = q.tmr
BY DEF ObjType

(* One object changes into a record that keeps what the invariant says of  *)
(* it; the rest of the client does not change.                             *)
LEMMA OneObject ==
  ASSUME TurnInv, NEW o \in Obj, NEW r \in ObjType,
         obj' = [obj EXCEPT ![o] = r],
         r.st = obj[o].st \/ (o \notin Chan /\ Up),
         r.st = "live", Up' <=> Up, Up, turnc'.st = turnc.st,
         turnc' \in [st : {"none", "live", "freed"}, allocated : BOOLEAN],
         thErr' \subseteq Obj, \A x \in Obj : x # o => (x \in thErr' <=> x \in thErr),
         r.tmr \/ r.ct # "nil" \/ o \in thErr', ~(r.tmr /\ r.ct # "nil"),
         UNCHANGED <<chanNr, number, bound>>
  PROVE  TurnInv'
<1>1. obj \in [Obj -> ObjType] /\ obj' \in [Obj -> ObjType]
  BY ObjTypes DEF TurnInv
<1>2. obj'[o] = r /\ \A x \in Obj : x # o => obj'[x] = obj[x]
  BY <1>1
<1>3. TurnTypeOK'
  BY <1>1 DEF TurnInv, TurnTypeOK, ObjType, Methods, Codes, Counts
<1>4. Kept' /\ OnlyHeld'
  BY <1>2 DEF TurnInv, Kept, OnlyHeld, Held, InFlight, Up
<1>5. \A c \in Chan : c \in Obj /\ obj'[c].st = "live" => obj[c].st = "live"
  BY <1>2 DEF Obj
<1>6. NumbersApart' /\ NeverTwo'
  BY <1>5 DEF TurnInv, NumbersApart, NeverTwo, Held, Obj
<1> QED
  BY <1>3, <1>4, <1>6 DEF TurnInv

(* In the beginning there is no client. *)
LEMMA TurnInitInv == TurnInit => TurnInv
<1> SUFFICES ASSUME TurnInit PROVE TurnInv
  OBVIOUS
<1>1. \A o \in Obj : obj[o] = NoObj
  BY DEF TurnInit
<1>2. \A o \in Obj : ~Held(o) /\ ~InFlight(o) /\ ~obj[o].tmr
  BY <1>1 DEF NoObj, Held, InFlight
<1>3. obj \in [Obj -> ObjType]
  BY NoObjType DEF TurnInit
<1>4. TurnTypeOK
  <2>1. chanNr \in 0 .. ChanMax /\ number \in [Chan -> 0 .. ChanMax]
    BY TurnAssumption DEF TurnInit
  <2>2. bound \in [0 .. ChanMax -> TurnPeer \cup {"nil", "two"}] /\ thErr \subseteq Obj
    BY DEF TurnInit
  <2>3. turnc \in [st : {"none", "live", "freed"}, allocated : BOOLEAN]
    BY DEF TurnInit
  <2> QED
    BY <1>3, <2>1, <2>2, <2>3 DEF TurnTypeOK, ObjType, Methods, Codes, Counts
<1>5. Kept /\ OnlyHeld
  BY <1>2 DEF Kept, OnlyHeld
<1>6. NumbersApart /\ NeverTwo
  BY <1>2 DEF NumbersApart, NeverTwo, TurnInit, Obj
<1> QED
  BY <1>4, <1>5, <1>6 DEF TurnInv

(* What stun_request leaves in an object *)
LEMMA RequestedType ==
  ASSUME TurnInv, NEW o \in Obj, NEW m \in Methods \ {"nil"}, NEW reset \in BOOLEAN
  PROVE  /\ Requested(o, m, reset) \in ObjType
         /\ Requested(o, m, reset).st = "live" /\ Requested(o, m, reset).ct = m
         /\ ~Requested(o, m, reset).tmr
<1>1. obj[o] \in ObjType
  BY ObjTypes DEF TurnInv
<1> DEFINE a == [obj[o] EXCEPT !.st = "live"]
           b == [a EXCEPT !.ct = m]
           q == [b EXCEPT !.tmr = FALSE]
           l == IF reset THEN 0 ELSE obj[o].last
           f == IF reset THEN 0 ELSE obj[o].failc
           p == [q EXCEPT !.last = l]
           r == [p EXCEPT !.failc = f]
<1>2. l \in Codes /\ f \in Counts
  BY <1>1, ObjFields, TurnAssumption DEF Codes, Counts
<1>3. Requested(o, m, reset) = r
  BY <1>1 DEF Requested, ObjType
<1> HIDE DEF l, f
<1>4. a \in ObjType /\ a.st = "live"
  BY <1>1, WithSt
<1> HIDE DEF a
<1>5. b \in ObjType /\ b.st = "live" /\ b.ct = m
  BY <1>4, WithCt
<1> HIDE DEF b
<1>6. q \in ObjType /\ q.st = "live" /\ q.ct = m /\ q.tmr = FALSE
  BY <1>5, WithTmr
<1> HIDE DEF q
<1>7. p \in ObjType /\ p.st = "live" /\ p.ct = m /\ p.tmr = FALSE
  BY <1>2, <1>6, WithLast
<1> HIDE DEF p
<1>8. r \in ObjType /\ r.st = "live" /\ r.ct = m /\ r.tmr = FALSE
  BY <1>2, <1>7, WithFailc
<1> HIDE DEF r
<1> QED
  BY <1>3, <1>8

(* turnc_alloc *)
LEMMA TurnAllocInv ==
  ASSUME TurnInv, TurnAlloc
  PROVE  TurnInv'
<1> DEFINE r == Requested(Allocation, "allocate", FALSE)
<1>1. Allocation \in Obj /\ "allocate" \in Methods \ {"nil"}
  BY DEF Obj, Methods
<1>2. r \in ObjType /\ r.st = "live" /\ r.ct = "allocate" /\ ~r.tmr
  BY <1>1, RequestedType
<1>3. /\ obj' = [obj EXCEPT ![Allocation] = r]
      /\ UNCHANGED <<chanNr, number, bound, thErr>>
      /\ turnc' = [turnc EXCEPT !.st = "live"]
  BY DEF TurnAlloc
<1> HIDE DEF r
<1>4. obj \in [Obj -> ObjType] /\ obj' \in [Obj -> ObjType]
  BY <1>2, <1>3, ObjTypes DEF TurnInv
<1>5. obj'[Allocation] = r /\ \A x \in Obj : x # Allocation => obj'[x] = obj[x]
  BY <1>1, <1>3, <1>4
<1>6. turnc'.st = "live" /\ turnc' \in [st : {"none", "live", "freed"}, allocated : BOOLEAN]
  BY <1>3 DEF TurnInv, TurnTypeOK
<1>7. TurnTypeOK'
  BY <1>3, <1>4, <1>6 DEF TurnInv, TurnTypeOK, ObjType, Methods, Codes, Counts
<1>8. Kept' /\ OnlyHeld'
  BY <1>2, <1>3, <1>5, <1>6 DEF TurnInv, Kept, OnlyHeld, Held, InFlight, Up
<1>9. \A c \in Chan : c \in Obj /\ c # Allocation
  BY DEF Chan, Obj, Allocation
<1>10. NumbersApart' /\ NeverTwo'
  BY <1>3, <1>5, <1>9 DEF TurnInv, NumbersApart, NeverTwo, Held
<1> QED
  BY <1>7, <1>8, <1>10 DEF TurnInv

(* Permissions are no channels. *)
LEMMA PermNoChan == \A p \in Perm : p \in Obj /\ p \notin Chan /\ p # Allocation
BY DEF Perm, Chan, Obj, Allocation

(* turnc_add_perm *)
LEMMA AddPermInv ==
  ASSUME TurnInv, NEW p \in Perm, turnc_add_perm(p)
  PROVE  TurnInv'
<1> DEFINE r == Requested(p, "createperm", TRUE)
<1>1. p \in Obj /\ p \notin Chan /\ "createperm" \in Methods \ {"nil"}
  BY PermNoChan DEF Methods
<1>2. r \in ObjType /\ r.st = "live" /\ r.ct = "createperm" /\ ~r.tmr
  BY <1>1, RequestedType
<1>3. /\ obj' = [obj EXCEPT ![p] = r] /\ Up
      /\ UNCHANGED <<turnc, chanNr, number, bound, thErr>>
  BY DEF turnc_add_perm
<1> HIDE DEF r
<1>4. Up' /\ turnc' \in [st : {"none", "live", "freed"}, allocated : BOOLEAN] /\ thErr' \subseteq Obj
  BY <1>3 DEF TurnInv, TurnTypeOK, Up
<1> QED
  BY <1>1, <1>2, <1>3, <1>4, OneObject

(* turnc_add_chan *)
LEMMA AddChanInv ==
  ASSUME TurnInv, NEW c \in Chan, turnc_add_chan(c)
  PROVE  TurnInv'
<1>1. c \in Obj /\ "chanbind" \in Methods \ {"nil"} /\ c[2] \in TurnPeer /\ Chan \subseteq Obj
  BY DEF Obj, Chan, Methods
<1>2. /\ Up /\ ~Held(c) /\ chanNr < ChanMax /\ UNCHANGED <<turnc, thErr>>
      /\ chanNr' = chanNr + 1 /\ chanNr \in 0 .. ChanMax
  BY DEF turnc_add_chan, NextNumber, TurnInv, TurnTypeOK
<1>3. bound[chanNr] = "nil"
  BY <1>2 DEF TurnInv, NumbersApart
<1>4. bound' = [bound EXCEPT ![chanNr] = c[2]]
  BY <1>3 DEF turnc_add_chan
<1>5. /\ bound' \in [0 .. ChanMax -> TurnPeer \cup {"nil", "two"}]
      /\ bound'[chanNr] # "two"
      /\ \A n \in 0 .. ChanMax : n # chanNr => bound'[n] = bound[n]
  BY <1>1, <1>2, <1>4, TurnAssumption DEF TurnInv, TurnTypeOK
<1>6. NeverTwo'
  BY <1>2, <1>5 DEF TurnInv, NeverTwo
<1>7. \A n \in 0 .. ChanMax : n >= chanNr' => bound'[n] = "nil"
  <2>1. TAKE n \in 0 .. ChanMax
  <2>2. HAVE n >= chanNr'
  <2>3. n # chanNr /\ n >= chanNr
    BY <1>2, <2>2
  <2> QED
    BY <2>3, <1>5 DEF TurnInv, NumbersApart
<1>8. obj \in [Obj -> ObjType] /\ number \in [Chan -> 0 .. ChanMax]
  BY ObjTypes DEF TurnInv, TurnTypeOK
<1>9. chanNr' \in 0 .. ChanMax
  BY <1>2, TurnAssumption
<1>10. CASE obj' = [obj EXCEPT ![c] = Requested(c, "chanbind", TRUE)]
            /\ number' = [number EXCEPT ![c] = chanNr]
  <2> DEFINE r == Requested(c, "chanbind", TRUE)
  <2>1. r \in ObjType /\ r.st = "live" /\ r.ct = "chanbind" /\ ~r.tmr
    BY <1>1, RequestedType
  <2>2. obj' = [obj EXCEPT ![c] = r]
    BY <1>10
  <2> HIDE DEF r
  <2>3. /\ obj' \in [Obj -> ObjType] /\ obj'[c] = r
        /\ \A x \in Obj : x # c => obj'[x] = obj[x]
    BY <1>1, <1>8, <2>1, <2>2
  <2>4. /\ number' \in [Chan -> 0 .. ChanMax] /\ number'[c] = chanNr
        /\ \A x \in Chan : x # c => number'[x] = number[x]
    BY <1>2, <1>8, <1>10
  <2>5. TurnTypeOK'
    BY <1>2, <1>5, <1>9, <2>3, <2>4 DEF TurnInv, TurnTypeOK, ObjType, Methods, Codes, Counts
  <2>6. Kept' /\ OnlyHeld'
    BY <1>1, <1>2, <2>1, <2>3 DEF TurnInv, Kept, OnlyHeld, Held, InFlight, Up
  <2>7. \A x \in Chan : Held(x)' => number'[x] < chanNr'
    <3>1. TAKE x \in Chan
    <3>2. HAVE Held(x)'
    <3>3. CASE x = c
      BY <3>3, <2>4, <1>2
    <3>4. CASE x # c
      <4>1. Held(x) /\ number'[x] = number[x]
        BY <3>2, <3>4, <2>3, <2>4, <1>1 DEF Held
      <4>2. number[x] < chanNr /\ number[x] \in 0 .. ChanMax
        BY <4>1, <1>8 DEF TurnInv, NumbersApart
      <4> QED
        BY <4>1, <4>2, <1>2
    <3> QED
      BY <3>3, <3>4
  <2>8. \A x, y \in Chan : Held(x)' /\ Held(y)' /\ number'[x] = number'[y] => x = y
    <3>1. TAKE x, y \in Chan
    <3>2. HAVE Held(x)' /\ Held(y)' /\ number'[x] = number'[y]
    <3>3. \A z \in Chan : z # c /\ Held(z)' => Held(z) /\ number'[z] = number[z]
                          /\ number[z] < chanNr
      BY <2>3, <2>4, <1>1 DEF Held, TurnInv, NumbersApart
    <3>4. \A z \in Chan : number[z] \in Nat
      BY <1>8
    <3>5. CASE x # c /\ y # c
      BY <3>2, <3>3, <3>5 DEF TurnInv, NumbersApart
    <3>6. CASE x = c /\ y # c
      <4>1. number[y] < chanNr /\ number[y] = chanNr /\ number[y] \in Nat
        BY <3>2, <3>3, <3>4, <3>6, <2>4
      <4> QED
        BY <4>1, <1>2
    <3>7. CASE x # c /\ y = c
      <4>1. number[x] < chanNr /\ number[x] = chanNr /\ number[x] \in Nat
        BY <3>2, <3>3, <3>4, <3>7, <2>4
      <4> QED
        BY <4>1, <1>2
    <3> QED
      BY <3>5, <3>6, <3>7
  <2>9. NumbersApart'
    BY <1>7, <2>7, <2>8 DEF NumbersApart
  <2> QED
    BY <1>6, <2>5, <2>6, <2>9 DEF TurnInv
<1>11. CASE UNCHANGED <<obj, number>>
  <2>1. TurnTypeOK'
    BY <1>2, <1>5, <1>9, <1>11 DEF TurnInv, TurnTypeOK
  <2>2. Kept' /\ OnlyHeld'
    BY <1>2, <1>11 DEF TurnInv, Kept, OnlyHeld, Held, InFlight, Up
  <2>3. \A x \in Chan : Held(x)' => number'[x] < chanNr'
    <3>1. TAKE x \in Chan
    <3>2. HAVE Held(x)'
    <3>3. number[x] < chanNr /\ number[x] \in 0 .. ChanMax
      BY <3>2, <1>8, <1>11 DEF TurnInv, NumbersApart, Held
    <3> QED
      BY <3>3, <1>2, <1>11
  <2>4. NumbersApart'
    BY <1>7, <1>11, <2>3 DEF TurnInv, NumbersApart, Held
  <2> QED
    BY <1>6, <2>1, <2>2, <2>4 DEF TurnInv
<1> QED
  BY <1>10, <1>11 DEF turnc_add_chan

(* What turnc_request_loops leaves in an object *)
LEMMA CountedType ==
  ASSUME TurnInv, NEW o \in Obj, NEW scode \in {0, 300, 401, 438, 500}
  PROVE  /\ Counted(o, scode) \in ObjType
         /\ Counted(o, scode).st = obj[o].st /\ Counted(o, scode).ct = "nil"
         /\ Counted(o, scode).tmr = obj[o].tmr
<1>1. obj[o] \in ObjType
  BY ObjTypes DEF TurnInv
<1> DEFINE f == IF scode = 0 THEN 0 ELSE IF obj[o].failc < FailcMax
                THEN obj[o].failc + 1 ELSE obj[o].failc
<1>2. f \in Counts /\ scode \in Codes
  BY <1>1, TurnAssumption, ObjFields DEF Counts, Codes
<1> DEFINE q == [obj[o] EXCEPT !.ct = "nil"]
<1>3. q \in ObjType /\ q.st = obj[o].st /\ q.ct = "nil" /\ q.tmr = obj[o].tmr
  BY <1>1, WithCt DEF Methods
<1> DEFINE p == [q EXCEPT !.last = scode]
           r == [p EXCEPT !.failc = f]
<1>4. Counted(o, scode) = r
  BY <1>1 DEF Counted, ObjType
<1> HIDE DEF f, q
<1>5. p \in ObjType /\ p.st = q.st /\ p.ct = q.ct /\ p.tmr = q.tmr
  BY <1>2, <1>3, WithLast
<1> HIDE DEF p
<1>6. r \in ObjType /\ r.st = p.st /\ r.ct = p.ct /\ r.tmr = p.tmr
  BY <1>2, <1>5, WithFailc
<1> HIDE DEF r
<1> QED
  BY <1>3, <1>4, <1>5, <1>6

(* The allocation, a permission or a channel that has a request or a timer *)
(* is one of a client that is there.                                       *)
LEMMA InFlightHeld ==
  ASSUME TurnInv, NEW o \in Obj, InFlight(o) \/ obj[o].tmr
  PROVE  Up /\ obj[o].st = "live" /\ ~(obj[o].tmr /\ InFlight(o)) /\ obj[o] \in ObjType
         /\ obj[o].ct \in Methods /\ obj[o].tmr \in BOOLEAN
<1>1. obj[o] \in ObjType
  BY ObjTypes DEF TurnInv
<1> QED
  BY <1>1 DEF TurnInv, Kept, OnlyHeld, Held, ObjType

(* The handlers of the responses *)
LEMMA ResponseInv ==
  ASSUME TurnInv, NEW o \in Obj, NEW scode \in {0, 300, 401, 438, 500}, Response(o, scode)
  PROVE  TurnInv'
<1>1. /\ Up /\ obj[o].ct # "nil" /\ obj[o].st = "live" /\ ~obj[o].tmr
      /\ obj[o] \in ObjType /\ UNCHANGED <<chanNr, number, bound>>
  BY InFlightHeld DEF Response, InFlight
<1>2. thErr \subseteq Obj /\ turnc \in [st : {"none", "live", "freed"}, allocated : BOOLEAN]
  BY DEF TurnInv, TurnTypeOK
<1>3. ASSUME NEW s \in {0, 300, 401, 438, 500}, Fails(o, s), UNCHANGED turnc PROVE TurnInv'
  <2> DEFINE r == Counted(o, s)
  <2>1. r \in ObjType /\ r.st = obj[o].st /\ r.ct = "nil" /\ (r.tmr <=> obj[o].tmr)
    BY CountedType
  <2>2. obj' = [obj EXCEPT ![o] = r] /\ thErr' = thErr \cup {o}
    BY <1>3 DEF Fails
  <2> HIDE DEF r
  <2>3. /\ (Up' <=> Up) /\ turnc'.st = turnc.st
        /\ turnc' \in [st : {"none", "live", "freed"}, allocated : BOOLEAN]
    BY <1>2, <1>3 DEF Up
  <2>4. /\ r.st = "live" /\ ~(r.tmr /\ r.ct # "nil") /\ o \in thErr' /\ thErr' \subseteq Obj
        /\ \A x \in Obj : x # o => (x \in thErr' <=> x \in thErr)
    BY <1>1, <1>2, <2>1, <2>2
  <2>5. r.tmr \/ r.ct # "nil" \/ o \in thErr'
    BY <2>4
  <2> QED
    BY <1>1, <2>1, <2>2, <2>3, <2>4, <2>5, OneObject
<1>4. ASSUME Succeeds(o), thErr' = thErr \ {o}, turnc' = [turnc EXCEPT !.allocated = TRUE]
      PROVE  TurnInv'
  <2> DEFINE q == Counted(o, 0)
             r == [q EXCEPT !.tmr = TRUE]
  <2>1. q \in ObjType /\ q.st = obj[o].st /\ q.ct = "nil"
    BY CountedType
  <2>2. obj' = [obj EXCEPT ![o] = r]
    BY <1>4 DEF Succeeds
  <2> HIDE DEF q
  <2>3. r \in ObjType /\ r.st = obj[o].st /\ r.ct = "nil" /\ r.tmr = TRUE
    <3>1. PICK b \in BOOLEAN : b = TRUE
      OBVIOUS
    <3>2. r = [q EXCEPT !.tmr = b]
      BY <3>1
    <3> HIDE DEF r
    <3>3. r \in ObjType /\ r.st = q.st /\ r.ct = q.ct /\ r.tmr = b
      BY <2>1, <3>2, WithTmr
    <3> QED
      BY <2>1, <3>1, <3>3
  <2> HIDE DEF r
  <2>4. /\ (Up' <=> Up) /\ turnc'.st = turnc.st
        /\ turnc' \in [st : {"none", "live", "freed"}, allocated : BOOLEAN]
    BY <1>2, <1>4 DEF Up
  <2>5. /\ r.st = "live" /\ ~(r.tmr /\ r.ct # "nil") /\ r.tmr /\ thErr' \subseteq Obj
        /\ \A x \in Obj : x # o => (x \in thErr' <=> x \in thErr)
    BY <1>1, <1>2, <1>4, <2>3
  <2> QED
    BY <1>1, <1>2, <1>4, <2>2, <2>3, <2>4, <2>5, OneObject
<1>5. ASSUME Again(o, scode), UNCHANGED turnc PROVE TurnInv'
  <2> DEFINE q == Counted(o, scode)
             r == [q EXCEPT !.ct = obj[o].ct]
  <2>1. q \in ObjType /\ q.st = obj[o].st /\ (q.tmr <=> obj[o].tmr)
    BY CountedType
  <2>2. obj' = [obj EXCEPT ![o] = r] /\ thErr' = thErr
    BY <1>5 DEF Again
  <2> HIDE DEF q
  <2>3. obj[o].ct \in Methods
    BY <1>1 DEF ObjType
  <2>4. r \in ObjType /\ r.st = obj[o].st /\ r.ct = obj[o].ct /\ r.tmr = q.tmr
    BY <2>1, <2>3, WithCt
  <2> HIDE DEF r
  <2>5. (Up' <=> Up) /\ turnc'.st = turnc.st
    BY <1>5 DEF Up
  <2>6. /\ r.st = "live" /\ ~(r.tmr /\ r.ct # "nil") /\ r.ct # "nil" /\ thErr' \subseteq Obj
        /\ \A x \in Obj : x # o => (x \in thErr' <=> x \in thErr)
    BY <1>1, <1>2, <2>1, <2>2, <2>4
  <2> QED
    BY <1>1, <1>2, <1>5, <2>2, <2>4, <2>5, <2>6, OneObject
<1> QED
  BY <1>3, <1>4, <1>5 DEF Response

(* The transaction fails. *)
LEMMA NoResponseInv ==
  ASSUME TurnInv, NEW o \in Obj, NoResponse(o)
  PROVE  TurnInv'
<1>1. /\ Up /\ obj[o].st = "live" /\ ~obj[o].tmr /\ obj[o] \in ObjType
      /\ UNCHANGED <<turnc, chanNr, number, bound>> /\ thErr' = thErr \cup {o}
  BY InFlightHeld DEF NoResponse
<1> DEFINE r == [obj[o] EXCEPT !.ct = "nil"]
<1>2. r \in ObjType /\ r.st = "live" /\ r.ct = "nil" /\ (r.tmr <=> obj[o].tmr)
  BY <1>1 DEF ObjType, Methods, Codes, Counts
<1>3. obj' = [obj EXCEPT ![o] = r]
  BY ObjTypes DEF NoResponse, TurnInv
<1> HIDE DEF r
<1>4. /\ thErr' \subseteq Obj /\ Up' /\ turnc'.st = turnc.st
      /\ turnc' \in [st : {"none", "live", "freed"}, allocated : BOOLEAN]
  BY <1>1 DEF TurnInv, TurnTypeOK, Up
<1> QED
  BY <1>1, <1>2, <1>3, <1>4, OneObject

(* The timeout handlers *)
LEMMA TurnTimeoutInv ==
  ASSUME TurnInv, NEW o \in Obj, TurnTimeout(o)
  PROVE  TurnInv'
<1>1. /\ Up /\ obj[o].st = "live" /\ obj[o].ct = "nil" /\ obj[o] \in ObjType
      /\ UNCHANGED <<turnc, chanNr, number, bound>>
  BY InFlightHeld DEF TurnTimeout, InFlight
<1>2. /\ thErr \subseteq Obj /\ Up' /\ turnc'.st = turnc.st
      /\ turnc' \in [st : {"none", "live", "freed"}, allocated : BOOLEAN]
  BY <1>1 DEF TurnInv, TurnTypeOK, Up
<1>3. CASE obj' = [obj EXCEPT ![o].tmr = FALSE] /\ thErr' = thErr \cup {o}
  <2> DEFINE r == [obj[o] EXCEPT !.tmr = FALSE]
  <2>1. r \in ObjType /\ r.st = "live" /\ r.ct = "nil" /\ r.tmr = FALSE
    BY <1>1, WithTmr
  <2>2. obj' = [obj EXCEPT ![o] = r]
    BY <1>3, ObjTypes DEF TurnInv
  <2> HIDE DEF r
  <2> QED
    BY <1>1, <1>2, <1>3, <2>1, <2>2, OneObject
<1>4. ASSUME NEW m \in Methods \ {"nil"}, UNCHANGED thErr,
             obj' = [obj EXCEPT ![o] = Requested(o, m, TRUE)]
      PROVE  TurnInv'
  <2> DEFINE r == Requested(o, m, TRUE)
  <2>1. r \in ObjType /\ r.st = "live" /\ r.ct = m /\ ~r.tmr
    BY RequestedType
  <2>2. obj' = [obj EXCEPT ![o] = r]
    BY <1>4
  <2> HIDE DEF r
  <2>3. /\ ~(r.tmr /\ r.ct # "nil") /\ r.ct # "nil" /\ thErr' \subseteq Obj
        /\ \A x \in Obj : x # o => (x \in thErr' <=> x \in thErr)
    BY <1>2, <1>4, <2>1
  <2>4. r.tmr \/ r.ct # "nil" \/ o \in thErr'
    BY <2>3
  <2>5. (Up' <=> Up) /\ (r.st = obj[o].st \/ (o \notin Chan /\ Up))
    BY <1>1, <1>2, <2>1
  <2> QED
    BY <1>1, <1>2, <2>1, <2>2, <2>3, <2>4, <2>5, OneObject
<1> QED
  BY <1>3, <1>4 DEF TurnTimeout, Methods

(* The destructor of the client *)
LEMMA TurnFreeInv ==
  ASSUME TurnInv, TurnFree
  PROVE  TurnInv'
<1>1. /\ obj' = [o \in Obj |-> NoObj] /\ thErr' = {} /\ UNCHANGED <<chanNr, number, bound>>
      /\ turnc' = [st |-> "freed", allocated |-> FALSE]
  BY DEF TurnFree
<1>2. \A o \in Obj : obj'[o].st = "none" /\ obj'[o].ct = "nil" /\ obj'[o].tmr = FALSE
  BY <1>1 DEF NoObj
<1>3. obj' \in [Obj -> ObjType]
  BY <1>1, NoObjType
<1>4. TurnTypeOK'
  BY <1>1, <1>3 DEF TurnInv, TurnTypeOK, ObjType, Methods, Codes, Counts
<1>5. Kept' /\ OnlyHeld'
  BY <1>2 DEF Kept, OnlyHeld, Held, InFlight
<1>6. NumbersApart' /\ NeverTwo'
  BY <1>1, <1>2 DEF TurnInv, NumbersApart, NeverTwo, Held, Obj
<1> QED
  BY <1>4, <1>5, <1>6 DEF TurnInv

(* Every step of the TURN client keeps the invariant. *)
LEMMA TurnNextInv == TurnInv /\ [TurnNext]_turnVars => TurnInv'
<1> SUFFICES ASSUME TurnInv, [TurnNext]_turnVars PROVE TurnInv'
  OBVIOUS
<1>1. CASE UNCHANGED turnVars
  BY <1>1 DEF turnVars, TurnInv, TurnTypeOK, Kept, OnlyHeld, NumbersApart, NeverTwo,
     Held, InFlight, Up
<1> QED
  BY <1>1, TurnAllocInv, TurnFreeInv, AddPermInv, AddChanInv, NoResponseInv,
     TurnTimeoutInv, ResponseInv DEF TurnNext

(* What is sent in a channel is taken as from the peer of the channel      *)
(* (turnc_send and turnc_recv).                                            *)
LEMMA ChannelsMeanPeers == TurnInv => ChannelFaithful
<1> SUFFICES ASSUME TurnInv PROVE ChannelFaithful
  OBVIOUS
<1>1. ASSUME NEW p \in TurnPeer PROVE Unwrap(Wrap(p)) = {p}
  <2>1. \A q \in TurnPeer : <<"chan", q>> \in Chan
    BY DEF Chan
  <2>2. \A q \in TurnPeer : <<"chan", p>> = <<"chan", q>> => p = q
    OBVIOUS
  <2>3. CASE Held(<<"chan", p>>)
    <3>1. Wrap(p) = <<"chan", number[<<"chan", p>>]>>
      BY <2>3 DEF Wrap
    <3>2. Unwrap(Wrap(p)) = {q \in TurnPeer : Held(<<"chan", q>>)
                               /\ number[<<"chan", q>>] = number[<<"chan", p>>]}
      BY <3>1 DEF Unwrap
    <3>3. \A q \in TurnPeer : Held(<<"chan", q>>)
             /\ number[<<"chan", q>>] = number[<<"chan", p>>] => q = p
      BY <2>1, <2>2, <2>3 DEF TurnInv, NumbersApart
    <3> QED
      BY <2>3, <3>2, <3>3
  <2>4. CASE ~Held(<<"chan", p>>)
    <3>1. Wrap(p) = <<"ind", p>>
      BY <2>4 DEF Wrap
    <3> QED
      BY <3>1 DEF Unwrap
  <2> QED
    BY <2>3, <2>4
<1> QED
  BY <1>1 DEF ChannelFaithful, TurnInv, NeverTwo

(* For all transactions, mappings, peers and limits, whatever a STUN or    *)
(* TURN server answers and when: a transaction belongs to one owner that   *)
(* is there, a mapping that is relied on is probed (stun/keepalive.c,      *)
(* sip/keepalive_udp.c), nothing on the relay expires unnoticed, and a     *)
(* channel number means one peer (turn/turnc.c, perm.c and chan.c).        *)
THEOREM ServersWatched == StunSpec /\ TurnSpec => []ServersSound
<1>1. StunInv => StunSafe /\ MappingWatched
  BY DEF StunInv, StunSafe, OwnersAgree
<1>2. TurnInv => KeptAlive
  BY DEF TurnInv, KeptAlive, Kept
<1>3. StunInv /\ TurnInv => ServersSound
  BY <1>1, <1>2, ChannelsMeanPeers DEF ServersSound
<1> QED
  BY <1>3, StunInitInv, StunNextInv, TurnInitInv, TurnNextInv, PTL DEF StunSpec, TurnSpec
=============================================================================
