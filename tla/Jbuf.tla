-------------------------------- MODULE Jbuf --------------------------------
(***************************************************************************)
(* The receiving side of a media stream: RTP packets come over a network   *)
(* that loses, duplicates and reorders them, go through the jitter buffer  *)
(* (re jbuf.c) and are handed to the decoder (baresip stream.c), which is  *)
(* told of losses.                                                         *)
(*                                                                         *)
(* Sequence numbers are taken modulo SeqSize (2^16 in the code).  A packet  *)
(* is its source and its number.  The sender numbers its packets without   *)
(* gaps and may start again with a new source and another first number; a  *)
(* packet is lost when it is more than Reorder numbers behind.             *)
(***************************************************************************)
EXTENDS Integers, Sequences, FiniteSets, SequencesExt, FiniteSetsExt

CONSTANTS
  SeqSize,       \* sequence numbers wrap here
  MinDelay,     \* frames that stay in the buffer (jb->min)
  MaxDelay,     \* frames that fit (jb->max)
  LossLimit,    \* a gap from here on is no loss (3000)
  LateLimit,    \* this far behind is late (100 = 2^16 - 0xff9c)
  Source,       \* synchronisation sources, in the order the sender uses them
  FirstSeq,     \* first numbers of the sender (any number in the code)
  Reorder       \* how far the network reorders packets

ASSUME JbufAssumption ==
  /\ SeqSize \in Nat /\ SeqSize % 2 = 0 /\ SeqSize > 0
  /\ MinDelay \in Nat /\ MaxDelay \in Nat \ {0} /\ MinDelay <= MaxDelay
  /\ LossLimit \in Nat /\ LateLimit \in Nat /\ LossLimit < SeqSize - LateLimit
  /\ Source \subseteq Nat /\ FirstSeq \subseteq 0 .. SeqSize - 1
  /\ Reorder \in Nat /\ 2 * Reorder < SeqSize

VARIABLES
  jb,           \* struct jbuf
  ssrc_rx,      \* source that is received
  pseq,         \* sequence number that lostcalc expects to follow
  told,         \* what the decoder was told of last
  sender,       \* source and next number of the sender
  net           \* packets in the network

vars == <<jb, ssrc_rx, pseq, told, sender, net>>

Seqno == 0 .. SeqSize - 1

(* No number: (uint32_t)-1 *)
None == -1

Jitter == [
  framel : Seq(Seqno),  \* the buffered frames
  n : Nat,
  pool : Nat,           \* free frames
  seq_put : Seqno,
  seq_get : Seqno,
  running : BOOLEAN]

(* Is x less than y?  The difference is taken as a signed number. *)
seq_less(x, y) == (x - y) % SeqSize >= SeqSize \div 2

----------------------------------------------------------------------------
(* The jitter buffer *)

jbuf_alloc == [framel |-> <<>>, n |-> 0, pool |-> MaxDelay, seq_put |-> 0,
               seq_get |-> 0, running |-> FALSE]

(* frame_alloc: a frame from the pool, or the oldest one is dropped. *)
frame_alloc(j) ==
  IF j.pool > 0 THEN [j EXCEPT !.pool = @ - 1, !.n = @ + 1]
                ELSE [j EXCEPT !.framel = Tail(@)]

(* frame_deref of a frame that is not, or no longer, in the list *)
frame_deref(j) == [j EXCEPT !.pool = @ + 1, !.n = @ - 1]

TooLate(j, seq) == j.running /\ seq_less((seq + j.n) % SeqSize, j.seq_put)

(* The place in the list after which seq belongs, searched from the tail *)
Place(framel, seq) ==
  Max({0} \cup {i \in DOMAIN framel : seq_less(framel[i], seq) \/ framel[i] = seq})

(* Mutant: a duplicate is not noticed. *)
jbuf_put_Dup(j, seq) ==
  IF TooLate(j, seq) THEN j
  ELSE LET k == frame_alloc(j)
           p == Place(k.framel, seq)
       IN [k EXCEPT !.framel = InsertAt(@, p + 1, seq),
                    !.running = TRUE, !.seq_put = seq]

(* Mutant: the frame of a duplicate does not return to the pool. *)
jbuf_put_Leak(j, seq) ==
  IF TooLate(j, seq) THEN j
  ELSE LET k == frame_alloc(j)
           p == Place(k.framel, seq)
       IN IF p > 0 /\ k.framel[p] = seq
          THEN k
          ELSE [k EXCEPT !.framel = InsertAt(@, p + 1, seq),
                         !.running = TRUE, !.seq_put = seq]

(* jbuf_put: a late packet is refused before a frame is taken for it, a    *)
(* duplicate after.                                                        *)
jbuf_put(j, seq) ==
  IF TooLate(j, seq) THEN j
  ELSE LET k == frame_alloc(j)
           p == Place(k.framel, seq)
       IN IF p > 0 /\ k.framel[p] = seq
          THEN frame_deref(k)
          ELSE [k EXCEPT !.framel = InsertAt(@, p + 1, seq),
                         !.running = TRUE, !.seq_put = seq]

(* Mutant: one frame more has to be there. *)
Ready_More(j) == j.n > MinDelay + 1 /\ j.framel # <<>>

(* jbuf_get returns a frame. *)
Ready(j) == j.n > MinDelay /\ j.framel # <<>>

jbuf_get(j) ==
  IF Ready(j)
  THEN frame_deref([j EXCEPT !.framel = Tail(@), !.seq_get = Head(j.framel)])
  ELSE j

jbuf_flush(j) ==
  [j EXCEPT !.framel = <<>>, !.n = 0, !.pool = @ + Len(j.framel), !.running = FALSE]

----------------------------------------------------------------------------
(* The stream *)

(* lostcalc: the packets lost before seq, or a negative number for one     *)
(* that was seen or is late; p is the number before.                       *)
lostcalc(p, seq) ==
  LET delta == (seq - p) % SeqSize
  IN CASE p = None -> 0
       [] p # None /\ delta = 0 -> -1
       [] p # None /\ delta \in 1 .. LossLimit - 1 -> delta - 1
       [] p # None /\ delta \in LossLimit .. SeqSize - LateLimit - 1 -> 0
       [] OTHER -> -2

(* s->pseq after lostcalc *)
NextPseq(p, seq) == IF lostcalc(p, seq) < 0 THEN p ELSE seq

(* rtp_recv with a jitter buffer: one packet in, at most one out.  When    *)
(* none comes out the decoder and lostcalc see an empty header.            *)
rtp_recv(pkt) ==
  LET flushed == IF ssrc_rx \notin {None, pkt.ssrc} THEN jbuf_flush(jb) ELSE jb
      put == jbuf_put(flushed, pkt.seq)
      seq == IF Ready(put) THEN Head(put.framel) ELSE 0
  IN /\ jb' = jbuf_get(put)
     /\ ssrc_rx' = pkt.ssrc
     /\ pseq' = NextPseq(pseq, seq)
     /\ told' = [seq |-> IF Ready(put) THEN seq ELSE None,
                 lost |-> lostcalc(pseq, seq) > 0]

(* stream_reset, when a call becomes active *)
stream_reset ==
  /\ jb' = jbuf_flush(jb)
  /\ UNCHANGED <<ssrc_rx, pseq, told, sender, net>>

----------------------------------------------------------------------------
(* The sender and the network *)

Behind(p) == (sender.seq - p.seq) % SeqSize

Send ==
  /\ sender' = [sender EXCEPT !.seq = (@ + 1) % SeqSize]
  /\ net' = {p \in net : p.ssrc # sender.ssrc \/ Behind(p) < Reorder}
              \cup {sender}
  /\ UNCHANGED <<jb, ssrc_rx, pseq, told>>

Lose(p) ==
  /\ p \in net /\ net' = net \ {p}
  /\ UNCHANGED <<jb, ssrc_rx, pseq, told, sender>>

(* A packet may stay in the network and come again. *)
Receive(p) ==
  /\ p \in net
  /\ net' \in {net, net \ {p}}
  /\ rtp_recv(p)
  /\ UNCHANGED sender

(* The sender starts again; packets of the old source are still under way. *)
Restart(s, seq) ==
  /\ s > sender.ssrc
  /\ sender' = [ssrc |-> s, seq |-> seq]
  /\ UNCHANGED <<jb, ssrc_rx, pseq, told, net>>

Init ==
  /\ jb = jbuf_alloc
  /\ ssrc_rx = None /\ pseq = None
  /\ told = [seq |-> None, lost |-> FALSE]
  /\ sender \in [ssrc : {s \in Source : \A t \in Source : s <= t}, seq : FirstSeq]
  /\ net = {}

Next ==
  \/ Send \/ stream_reset
  \/ \E p \in net : Lose(p) \/ Receive(p)
  \/ \E s \in Source, seq \in FirstSeq : Restart(s, seq)

Spec == Init /\ [][Next]_vars

----------------------------------------------------------------------------
(* struct jbuf and the parts of struct stream that receive are well formed. *)
TypeOK ==
  /\ jb \in Jitter
  /\ ssrc_rx \in Source \cup {None} /\ pseq \in Seqno \cup {None}
  /\ told \in [seq : Seqno \cup {None}, lost : BOOLEAN]
  /\ sender \in [ssrc : Source, seq : Seqno]
  /\ net \subseteq [ssrc : Source, seq : Seqno]

(* Every frame is in the list or in the pool, and n counts the list, also  *)
(* after duplicates that took the frame of another packet.                 *)
Balanced ==
  /\ TypeOK
  /\ jb.n = Len(jb.framel) /\ jb.n + jb.pool = MaxDelay

(* The buffered frames are sorted without duplicates, across the wrap of   *)
(* the numbers, in whatever order packets come: each is older than the     *)
(* next one.                                                               *)
Sorted == \A i \in 2 .. Len(jb.framel) : seq_less(jb.framel[i - 1], jb.framel[i])

(* With room for one frame more than the delay the stream never drops a    *)
(* buffered frame: it takes one out for each that it puts in.              *)
NoOverflow == MinDelay < MaxDelay => jb.pool > 0

(* A packet that arrives too late is not put into the buffer: while one    *)
(* source is received no frame comes out after a newer one.                *)
PlayedInOrder ==
  [][jb.running /\ ssrc_rx' = ssrc_rx /\ told'.seq # None /\ told.seq # None
       => ~seq_less(told'.seq, told.seq)]_vars

(* pseq is the sequence number of incoming RTP: it only changes to the     *)
(* number of a packet that comes out of the buffer.                        *)
PseqIncoming == [][pseq' # pseq => pseq' = told'.seq]_vars

(* The jitter buffer keeps its frames, in the order of their numbers, and  *)
(* within its limits (jbuf.c).                                             *)
JbufSound == Balanced /\ Sorted /\ NoOverflow
=============================================================================
