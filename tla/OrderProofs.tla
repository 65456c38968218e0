----------------------------- MODULE OrderProofs -----------------------------
(***************************************************************************)
(* Proofs about lists that are kept in order: the frames of the jitter     *)
(* buffer (Jbuf), which are sorted and counted exactly for every size of   *)
(* the buffer and of the sequence numbers, and the timers of the main loop *)
(* (EventLoop); about the numbers of RTP packets (Rtp), which are compared *)
(* modulo their range as the buffer's are; and about the keys of a call    *)
(* (Payloads), which are heard in the order they were pressed in.          *)
(*                                                                         *)
(* For the buffer the argument is about one of them: an operator of jbuf.c *)
(* takes a buffer that is `Sound' to one that is.                          *)
(*                                                                         *)
(* For RTP it is about one source: what is kept of it `Follows' the stream *)
(* as it was sent, whose numbers have no modulus, and `SinceReport' holds  *)
(* of what the last report took of it.                                     *)
(*                                                                         *)
(* For the keys, the buffer, the sender, the line and the receiver are     *)
(* each at a place of what a perfect line would tell (TelevInv).           *)
(***************************************************************************)
EXTENDS Jbuf, EventLoop, Rtp, Payloads, SequenceTheorems, FiniteSetTheorems,
        WellFoundedInduction, TLAPS

(* Each of the frames f is older than the next one. *)
Ascending(f) == \A i \in 2 .. Len(f) : seq_less(f[i - 1], f[i])

(* The buffer j between two calls *)
Sound(j) ==
  /\ j \in Jitter
  /\ j.n = Len(j.framel) /\ j.n + j.pool = MaxDelay
  /\ Ascending(j.framel)

(* The delay is never exceeded between two packets. *)
Delayed(j) == MinDelay < MaxDelay => j.n <= MinDelay

(* The inductive invariant *)
JbufInv == TypeOK /\ Sound(jb) /\ Delayed(jb)

----------------------------------------------------------------------------
(* A set of natural numbers has a least member. *)
LEMMA LeastNatural ==
  ASSUME NEW T \in SUBSET Nat, T # {}
  PROVE  \E x \in T : \A y \in T : x <= y
<1>1. PICK x \in T : \A y \in T : ~(<<y, x>> \in OpToRel(<, Nat))
  BY NatLessThanWellFounded, WFMin
<1>2. \A y \in T : ~(y < x)
  BY <1>1 DEF OpToRel
<1> QED
  BY <1>2

(* A bounded one has a greatest, which is Max. *)
LEMMA MaxOfBounded ==
  ASSUME NEW n \in Nat, NEW T \in SUBSET (0 .. n), T # {}
  PROVE  Max(T) \in T /\ \A y \in T : Max(T) >= y
<1> DEFINE U == {u \in 0 .. n : n - u \in T}
<1>1. U \in SUBSET Nat
  OBVIOUS
<1>2. U # {}
  <2>1. PICK x \in T : TRUE
    OBVIOUS
  <2>2. n - x \in 0 .. n /\ n - (n - x) = x
    BY <2>1
  <2> QED
    BY <2>2
<1>3. PICK u \in U : \A v \in U : u <= v
  BY <1>1, <1>2, LeastNatural
<1>4. \A y \in T : n - u >= y
  <2> TAKE y \in T
  <2>1. n - y \in 0 .. n /\ n - (n - y) = y
    OBVIOUS
  <2>2. u <= n - y
    BY <2>1, <1>3
  <2> QED
    BY <2>2
<1>5. n - u \in T
  OBVIOUS
<1> QED
  BY <1>4, <1>5 DEF Max

(* Differences of sequence numbers (seq_diff, seq_less in jbuf.c) *)
LEMMA SeqDiff ==
  ASSUME NEW x \in Seqno, NEW y \in Seqno
  PROVE  (x - y) % SeqSize = IF x >= y THEN x - y ELSE (x - y) + SeqSize
  BY JbufAssumption DEF Seqno

(* Of two numbers that differ one is less than the other. *)
LEMMA SeqTotal ==
  ASSUME NEW x \in Seqno, NEW y \in Seqno, x # y, ~seq_less(x, y)
  PROVE  seq_less(y, x)
<1>1. SeqSize \in Nat /\ SeqSize = 2 * (SeqSize \div 2) /\ SeqSize \div 2 \in Nat
  BY JbufAssumption
<1>2. x \in Nat /\ y \in Nat /\ x < SeqSize /\ y < SeqSize
  BY <1>1 DEF Seqno
<1> DEFINE h == SeqSize \div 2
<1>3. h \in Nat /\ SeqSize = 2 * h
  BY <1>1
<1>4. ~((IF x >= y THEN x - y ELSE (x - y) + SeqSize) >= h)
  BY SeqDiff DEF seq_less
<1> HIDE DEF h
<1>5. (IF y >= x THEN y - x ELSE (y - x) + SeqSize) >= h
  BY <1>2, <1>3, <1>4
<1> QED
  BY <1>5, SeqDiff DEF seq_less, h

----------------------------------------------------------------------------
(* The search of jbuf_put from the tail of the list stops behind the last  *)
(* frame that is not newer.                                                *)
LEMMA PlaceFound ==
  ASSUME NEW f \in Seq(Seqno), NEW s \in Seqno
  PROVE  /\ Place(f, s) \in 0 .. Len(f)
         /\ Place(f, s) > 0 => seq_less(f[Place(f, s)], s) \/ f[Place(f, s)] = s
         /\ \A i \in 1 .. Len(f) :
              i > Place(f, s) => ~seq_less(f[i], s) /\ f[i] # s
<1> DEFINE T == {0} \cup {i \in DOMAIN f : seq_less(f[i], s) \/ f[i] = s}
<1>1. Len(f) \in Nat /\ DOMAIN f = 1 .. Len(f)
  BY LenProperties
<1>2. T \in SUBSET (0 .. Len(f)) /\ T # {}
  BY <1>1
<1>3. Max(T) \in T /\ \A y \in T : Max(T) >= y
  BY <1>1, <1>2, MaxOfBounded
<1>4. Place(f, s) = Max(T)
  BY DEF Place
<1> HIDE DEF T
<1> DEFINE p == Max(T)
<1>5. p \in 0 .. Len(f)
  BY <1>2, <1>3
<1> HIDE DEF p
<1>6. p > 0 => p \in {i \in DOMAIN f : seq_less(f[i], s) \/ f[i] = s}
  BY <1>3, <1>5 DEF T, p
<1>7. ASSUME NEW i \in 1 .. Len(f), i > p
      PROVE  ~seq_less(f[i], s) /\ f[i] # s
  <2>1. i \notin T
    BY <1>1, <1>3, <1>5, <1>7 DEF p
  <2> QED
    BY <1>1, <2>1 DEF T
<1> QED
  BY <1>4, <1>5, <1>6, <1>7 DEF p

(* A number that is put at its place (list_insert_after) *)
LEMMA Inserted ==
  ASSUME NEW S, NEW f \in Seq(S), NEW s \in S, NEW p \in 0 .. Len(f)
  PROVE  /\ InsertAt(f, p + 1, s) \in Seq(S)
         /\ Len(InsertAt(f, p + 1, s)) = Len(f) + 1
         /\ \A i \in 1 .. Len(f) + 1 : InsertAt(f, p + 1, s)[i] =
              IF i <= p THEN f[i] ELSE IF i = p + 1 THEN s ELSE f[i - 1]
<1> DEFINE a == SubSeq(f, 1, p)
           b == SubSeq(f, p + 1, Len(f))
<1>1. Len(f) \in Nat /\ p \in Nat /\ p <= Len(f) /\ (p + 1) - 1 = p
  BY LenProperties
<1>2. \A i \in 1 .. Len(f) : f[i] \in S
  BY ElementOfSeq
<1>3. \A i \in 1 .. p : f[i] \in S
  BY <1>1, <1>2
<1>3a. \A i \in p + 1 .. Len(f) : f[i] \in S
  BY <1>1, <1>2
<1>4. a \in Seq(S) /\ Len(a) = p /\ \A i \in 1 .. p : a[i] = f[i]
  BY <1>1, <1>3, SubSeqProperties
<1>5. b \in Seq(S) /\ Len(b) = Len(f) - p /\ \A i \in 1 .. Len(f) - p : b[i] = f[p + i]
  <2>1. p + 1 \in Int /\ Len(f) \in Int
    BY <1>1
  <2>2. /\ b \in Seq(S)
        /\ Len(b) = IF p + 1 <= Len(f) THEN Len(f) - (p + 1) + 1 ELSE 0
        /\ \A i \in 1 .. Len(f) - (p + 1) + 1 : b[i] = f[(p + 1) + i - 1]
    BY <2>1, <1>3a, SubSeqProperties
  <2> HIDE DEF b
  <2>3. Len(b) = Len(f) - p
    BY <1>1, <2>2
  <2>4. \A i \in 1 .. Len(f) - p : i \in 1 .. Len(f) - (p + 1) + 1 /\ (p + 1) + i - 1 = p + i
    BY <1>1
  <2> QED
    BY <2>2, <2>3, <2>4
<1>6. <<s>> \in Seq(S) /\ Len(<<s>>) = 1 /\ <<s>>[1] = s
  OBVIOUS
<1> DEFINE c == a \o <<s>>
<1>7. InsertAt(f, p + 1, s) = c \o b
  BY <1>1 DEF InsertAt
<1> HIDE DEF a, b
<1>8. c \in Seq(S)
  BY <1>4, <1>6, ConcatProperties
<1>9. Len(c) = p + 1 /\ \A i \in 1 .. p + 1 : c[i] = IF i <= p THEN a[i] ELSE <<s>>[i - p]
  BY <1>4, <1>6, ConcatProperties
<1>10. Len(c) = p + 1 /\ (\A i \in 1 .. p : c[i] = f[i]) /\ c[p + 1] = s
  <2>1. \A i \in 1 .. p : i \in 1 .. p + 1 /\ i <= p
    BY <1>1
  <2>2. p + 1 \in 1 .. p + 1 /\ ~(p + 1 <= p) /\ (p + 1) - p = 1
    BY <1>1
  <2>3. \A i \in 1 .. p : c[i] = f[i]
    BY <2>1, <1>4, <1>9
  <2>4. c[p + 1] = s
    BY <2>2, <1>6, <1>9
  <2> QED
    BY <2>3, <2>4, <1>9
<1> HIDE DEF c
<1> DEFINE g == c \o b
<1>11. g \in Seq(S)
  BY <1>5, <1>8, ConcatProperties
<1>12. /\ Len(g) = Len(c) + Len(b)
       /\ \A i \in 1 .. Len(c) + Len(b) :
            g[i] = IF i <= Len(c) THEN c[i] ELSE b[i - Len(c)]
  BY <1>5, <1>8, ConcatProperties
<1>15. InsertAt(f, p + 1, s) = g
  BY <1>7
<1> HIDE DEF g
<1>13. \A i \in 1 .. Len(f) + 1 :
         g[i] = IF i <= p THEN f[i] ELSE IF i = p + 1 THEN s ELSE f[i - 1]
  <2> TAKE i \in 1 .. Len(f) + 1
  <2>1. i \in 1 .. Len(c) + Len(b)
    BY <1>1, <1>5, <1>10
  <2>2. g[i] = IF i <= p + 1 THEN c[i] ELSE b[i - (p + 1)]
    BY <2>1, <1>10, <1>12
  <2>3. CASE i <= p + 1
    BY <2>2, <2>3, <1>1, <1>10
  <2>4. CASE i > p + 1
    <3>1. i - (p + 1) \in 1 .. Len(f) - p /\ p + (i - (p + 1)) = i - 1
      BY <2>4, <1>1
    <3>2. b[i - (p + 1)] = f[i - 1]
      BY <3>1, <1>5
    <3>3. ~(i <= p + 1) /\ ~(i <= p) /\ i # p + 1
      BY <2>4, <1>1
    <3> QED
      BY <2>2, <3>2, <3>3
  <2> QED
    BY <2>3, <2>4, <1>1
<1>14. Len(g) = Len(f) + 1
  BY <1>1, <1>5, <1>10, <1>12
<1> QED
  BY <1>11, <1>13, <1>14, <1>15

(* What jbuf_put inserts keeps the list sorted. *)
LEMMA InsertAscending ==
  ASSUME NEW f \in Seq(Seqno), NEW s \in Seqno, Ascending(f),
         ~(Place(f, s) > 0 /\ f[Place(f, s)] = s)
  PROVE  Ascending(InsertAt(f, Place(f, s) + 1, s))
<1> DEFINE p == Place(f, s)
           g == InsertAt(f, p + 1, s)
<1>1. Len(f) \in Nat /\ \A i \in 1 .. Len(f) : f[i] \in Seqno
  BY LenProperties, ElementOfSeq
<1>2. /\ p \in 0 .. Len(f)
      /\ p > 0 => seq_less(f[p], s)
      /\ \A i \in 1 .. Len(f) : i > p => ~seq_less(f[i], s) /\ f[i] # s
  BY PlaceFound
<1> HIDE DEF p
<1>3. /\ Len(g) = Len(f) + 1
      /\ \A i \in 1 .. Len(f) + 1 :
           g[i] = IF i <= p THEN f[i] ELSE IF i = p + 1 THEN s ELSE f[i - 1]
  BY <1>2, Inserted
<1> HIDE DEF g
<1> SUFFICES ASSUME NEW i \in 2 .. Len(f) + 1
             PROVE  seq_less(g[i - 1], g[i])
  BY <1>3 DEF Ascending, p, g
<1>4. i \in 1 .. Len(f) + 1 /\ i - 1 \in 1 .. Len(f) /\ i - 1 \in 1 .. Len(f) + 1
  BY <1>1
<1>5. CASE i <= p
  <2>1. g[i - 1] = f[i - 1] /\ g[i] = f[i] /\ i \in 2 .. Len(f)
    BY <1>2, <1>3, <1>4, <1>5
  <2> QED
    BY <2>1 DEF Ascending
<1>6. CASE i = p + 1
  <2>1. g[i - 1] = f[p] /\ g[i] = s /\ p > 0
    BY <1>2, <1>3, <1>4, <1>6
  <2> QED
    BY <2>1, <1>2
<1>7. CASE i = p + 2
  <2>1. g[i - 1] = s /\ g[i] = f[p + 1] /\ p + 1 \in 1 .. Len(f) /\ p + 1 > p
    BY <1>2, <1>3, <1>4, <1>7
  <2>2. ~seq_less(f[p + 1], s) /\ f[p + 1] # s /\ f[p + 1] \in Seqno
    BY <1>1, <1>2, <2>1
  <2> QED
    BY <2>1, <2>2, SeqTotal
<1>8. CASE i > p + 2
  <2>1. /\ g[i - 1] = f[(i - 1) - 1] /\ g[i] = f[i - 1] /\ i - 1 \in 2 .. Len(f)
    BY <1>1, <1>2, <1>3, <1>4, <1>8
  <2> QED
    BY <2>1 DEF Ascending
<1> QED
  BY <1>1, <1>2, <1>4, <1>5, <1>6, <1>7, <1>8

----------------------------------------------------------------------------
(* The operators of jbuf.c *)

(* A list without its first frame is still sorted. *)
LEMMA TailAscending ==
  ASSUME NEW f \in Seq(Seqno), f # <<>>, Ascending(f)
  PROVE  /\ Tail(f) \in Seq(Seqno) /\ Len(Tail(f)) = Len(f) - 1
         /\ Ascending(Tail(f)) /\ Head(f) \in Seqno
<1> DEFINE g == Tail(f)
<1>1. g \in Seq(Seqno) /\ Head(f) \in Seqno
  BY HeadTailProperties
<1>2. Len(g) = Len(f) - 1 /\ \A i \in 1 .. Len(g) : g[i] = f[i + 1]
  BY HeadTailProperties
<1>3. Len(f) \in Nat
  BY LenProperties
<1> HIDE DEF g
<1>4. Ascending(g)
  <2> SUFFICES ASSUME NEW i \in 2 .. Len(g) PROVE seq_less(g[i - 1], g[i])
    BY DEF Ascending
  <2>1. /\ i \in 1 .. Len(g) /\ i - 1 \in 1 .. Len(g) /\ (i - 1) + 1 = i
        /\ i + 1 \in 2 .. Len(f) /\ (i + 1) - 1 = i
    BY <1>2, <1>3
  <2>2. g[i - 1] = f[i] /\ g[i] = f[i + 1]
    BY <2>1, <1>2
  <2> QED
    BY <2>1, <2>2 DEF Ascending
<1> QED
  BY <1>1, <1>2, <1>4 DEF g

(* frame_alloc takes a frame from the pool, or the oldest one of the list. *)
LEMMA FrameAlloc ==
  ASSUME NEW j, Sound(j)
  PROVE  LET k == frame_alloc(j)
         IN /\ k \in Jitter
            /\ k.n = Len(k.framel) + 1 /\ k.n + k.pool = MaxDelay
            /\ k.n <= j.n + 1 /\ Ascending(k.framel)
<1> DEFINE k == frame_alloc(j)
<1>1. /\ j.framel \in Seq(Seqno) /\ j.n \in Nat /\ j.pool \in Nat
      /\ j.n = Len(j.framel) /\ j.n + j.pool = MaxDelay /\ Ascending(j.framel)
      /\ MaxDelay \in Nat \ {0}
  BY JbufAssumption DEF Sound, Jitter
<1>2. CASE j.pool > 0
  <2>1. k = [j EXCEPT !.pool = j.pool - 1, !.n = j.n + 1]
    BY <1>2 DEF frame_alloc
  <2>2. j.pool - 1 \in Nat /\ j.n + 1 \in Nat /\ (j.n + 1) + (j.pool - 1) = MaxDelay
    BY <1>1, <1>2
  <2>3. /\ k \in Jitter /\ k.framel = j.framel /\ k.n = j.n + 1 /\ k.pool = j.pool - 1
    BY <2>1, <2>2 DEF Sound, Jitter
  <2> QED
    BY <2>2, <2>3, <1>1
<1>3. CASE ~(j.pool > 0)
  <2>1. k = [j EXCEPT !.framel = Tail(j.framel)]
    BY <1>3 DEF frame_alloc
  <2>2. j.framel # <<>>
    <3>1. Len(j.framel) > 0
      BY <1>1, <1>3
    <3> QED
      BY <3>1
  <2>3. /\ Tail(j.framel) \in Seq(Seqno) /\ Len(Tail(j.framel)) = Len(j.framel) - 1
        /\ Ascending(Tail(j.framel))
    BY <1>1, <2>2, TailAscending
  <2>4. /\ k \in Jitter /\ k.framel = Tail(j.framel) /\ k.n = j.n /\ k.pool = j.pool
    BY <2>1, <2>3 DEF Sound, Jitter
  <2>5. Len(k.framel) = j.n - 1 /\ Ascending(k.framel)
    BY <2>3, <2>4, <1>1
  <2> QED
    BY <2>4, <2>5, <1>1
<1> QED
  BY <1>2, <1>3

(* jbuf_put: late packets, duplicates and new packets all leave the buffer *)
(* sound, with at most one frame more.                                     *)
LEMMA PutSound ==
  ASSUME NEW j, Sound(j), NEW s \in Seqno
  PROVE  Sound(jbuf_put(j, s)) /\ jbuf_put(j, s).n <= j.n + 1
<1> DEFINE k == frame_alloc(j)
           p == Place(k.framel, s)
           g == InsertAt(k.framel, p + 1, s)
<1>0. j.n \in Nat
  BY DEF Sound, Jitter
<1>1. /\ k \in Jitter /\ k.framel \in Seq(Seqno) /\ k.n \in Nat /\ k.pool \in Nat
      /\ k.n = Len(k.framel) + 1 /\ k.n + k.pool = MaxDelay
      /\ k.n <= j.n + 1 /\ Ascending(k.framel)
  BY FrameAlloc DEF Jitter
<1>2. Len(k.framel) \in Nat
  BY <1>1, LenProperties
<1> HIDE DEF k
<1>3. CASE TooLate(j, s)
  <2>1. jbuf_put(j, s) = j
    BY <1>3 DEF jbuf_put
  <2> QED
    BY <2>1, <1>0
<1>4. CASE ~TooLate(j, s) /\ p > 0 /\ k.framel[p] = s
  <2>1. jbuf_put(j, s) = [k EXCEPT !.pool = k.pool + 1, !.n = k.n - 1]
    BY <1>4 DEF jbuf_put, frame_deref, k
  <2>2. k.pool + 1 \in Nat /\ k.n - 1 \in Nat /\ (k.n - 1) + (k.pool + 1) = MaxDelay
        /\ k.n - 1 = Len(k.framel) /\ k.n - 1 <= j.n + 1
    BY <1>0, <1>1, <1>2
  <2>3. /\ jbuf_put(j, s) \in Jitter
        /\ jbuf_put(j, s).framel = k.framel /\ jbuf_put(j, s).n = k.n - 1
        /\ jbuf_put(j, s).pool = k.pool + 1
    BY <2>1, <2>2, <1>1 DEF Jitter
  <2> QED
    BY <2>2, <2>3, <1>1 DEF Sound
<1>5. CASE ~TooLate(j, s) /\ ~(p > 0 /\ k.framel[p] = s)
  <2>1. jbuf_put(j, s) = [k EXCEPT !.framel = g, !.running = TRUE, !.seq_put = s]
    BY <1>5 DEF jbuf_put, k
  <2>2. p \in 0 .. Len(k.framel)
    BY <1>1, PlaceFound
  <2>3. g \in Seq(Seqno) /\ Len(g) = Len(k.framel) + 1
    BY <2>2, <1>1, Inserted
  <2>4. Ascending(g)
    BY <1>1, <1>5, InsertAscending
  <2> HIDE DEF g, p
  <2>5. /\ jbuf_put(j, s) \in Jitter
        /\ jbuf_put(j, s).framel = g /\ jbuf_put(j, s).n = k.n
        /\ jbuf_put(j, s).pool = k.pool
    BY <2>1, <2>3, <1>1 DEF Jitter
  <2> QED
    BY <2>3, <2>4, <2>5, <1>1 DEF Sound
<1> QED
  BY <1>3, <1>4, <1>5

(* jbuf_get takes the oldest frame as soon as there is one more than the   *)
(* delay.                                                                  *)
LEMMA GetSound ==
  ASSUME NEW j, Sound(j)
  PROVE  /\ Sound(jbuf_get(j))
         /\ j.n <= MinDelay + 1 => jbuf_get(j).n <= MinDelay
         /\ Ready(j) => Head(j.framel) \in Seqno
<1>1. /\ j \in Jitter /\ j.framel \in Seq(Seqno) /\ j.n \in Nat /\ j.pool \in Nat
      /\ j.n = Len(j.framel) /\ j.n + j.pool = MaxDelay /\ Ascending(j.framel)
      /\ MinDelay \in Nat
  BY JbufAssumption DEF Sound, Jitter
<1>2. CASE Ready(j)
  <2> DEFINE f == Tail(j.framel)
             h == Head(j.framel)
  <2>0. j.framel # <<>> /\ j.n > MinDelay
    BY <1>2 DEF Ready
  <2>1. /\ f \in Seq(Seqno) /\ Len(f) = Len(j.framel) - 1 /\ Ascending(f) /\ h \in Seqno
    BY <1>1, <2>0, TailAscending
  <2>2. jbuf_get(j) = [j EXCEPT !.framel = f, !.seq_get = h,
                                !.pool = j.pool + 1, !.n = j.n - 1]
    BY <1>2, <1>1 DEF jbuf_get, frame_deref, Jitter
  <2>3. j.n - 1 \in Nat /\ j.pool + 1 \in Nat /\ (j.n - 1) + (j.pool + 1) = MaxDelay
    BY <1>1, <2>0
  <2> HIDE DEF f, h
  <2>4. /\ jbuf_get(j) \in Jitter /\ jbuf_get(j).framel = f
        /\ jbuf_get(j).n = j.n - 1 /\ jbuf_get(j).pool = j.pool + 1
    BY <2>1, <2>2, <2>3, <1>1 DEF Jitter
  <2>5. Sound(jbuf_get(j))
    BY <2>1, <2>3, <2>4, <1>1 DEF Sound
  <2>6. j.n <= MinDelay + 1 => jbuf_get(j).n <= MinDelay
    BY <2>4, <1>1
  <2> QED
    BY <2>1, <2>5, <2>6 DEF h
<1>3. CASE ~Ready(j)
  <2>1. jbuf_get(j) = j
    BY <1>3 DEF jbuf_get
  <2>2. j.framel = <<>> => j.n = 0
    BY <1>1, EmptySeq
  <2>3. j.n <= MinDelay
    BY <1>1, <1>3, <2>2 DEF Ready
  <2> QED
    BY <2>1, <2>3, <1>3
<1> QED
  BY <1>2, <1>3

(* jbuf_flush gives every frame back to the pool. *)
LEMMA FlushSound ==
  ASSUME NEW j, Sound(j)
  PROVE  Sound(jbuf_flush(j)) /\ jbuf_flush(j).n = 0
<1> DEFINE k == jbuf_flush(j)
           e == <<>>
<1>1. /\ j \in Jitter /\ j.n \in Nat /\ j.pool \in Nat
      /\ j.n = Len(j.framel) /\ j.n + j.pool = MaxDelay
  BY DEF Sound, Jitter
<1>2. e \in Seq(Seqno) /\ Len(e) = 0
  BY EmptySeq
<1>3. k = [j EXCEPT !.framel = e, !.n = 0, !.pool = j.pool + Len(j.framel),
                    !.running = FALSE]
  BY DEF jbuf_flush
<1> HIDE DEF e, k
<1>4. j.pool + Len(j.framel) \in Nat /\ 0 + (j.pool + Len(j.framel)) = MaxDelay
  BY <1>1
<1>5. /\ k \in Jitter /\ k.framel = e /\ k.n = 0 /\ k.pool = j.pool + Len(j.framel)
  BY <1>1, <1>2, <1>3, <1>4 DEF Jitter
<1>6. Ascending(k.framel)
  <2>1. 2 .. Len(k.framel) = {}
    BY <1>2, <1>5
  <2> QED
    BY <2>1 DEF Ascending
<1>7. Len(k.framel) = 0 /\ k.n + k.pool = MaxDelay
  BY <1>2, <1>4, <1>5
<1>8. Sound(k)
  BY <1>5, <1>6, <1>7 DEF Sound
<1> QED
  BY <1>5, <1>8 DEF k

----------------------------------------------------------------------------
(* The stream *)

(* A buffer that is allocated is empty (jbuf_alloc). *)
LEMMA JbufInitInv == Init => JbufInv
<1> SUFFICES ASSUME Init PROVE JbufInv
  OBVIOUS
<1>1. <<>> \in Seq(Seqno) /\ Len(<<>>) = 0
  BY EmptySeq
<1>2. MaxDelay \in Nat /\ MinDelay \in Nat /\ 0 \in Seqno
  BY JbufAssumption DEF Seqno
<1>3. jb = [framel |-> <<>>, n |-> 0, pool |-> MaxDelay, seq_put |-> 0,
            seq_get |-> 0, running |-> FALSE]
  BY DEF Init, jbuf_alloc
<1>4. jb \in Jitter /\ jb.framel = <<>> /\ jb.n = 0 /\ jb.pool = MaxDelay
  BY <1>1, <1>2, <1>3 DEF Jitter
<1>5. Ascending(jb.framel)
  <2>1. 2 .. Len(jb.framel) = {}
    BY <1>1, <1>4
  <2> QED
    BY <2>1 DEF Ascending
<1>6. Sound(jb) /\ Delayed(jb)
  BY <1>1, <1>2, <1>4, <1>5 DEF Sound, Delayed
<1>7. sender \in [ssrc : Source, seq : Seqno]
  BY JbufAssumption DEF Init, Seqno
<1>8. TypeOK
  BY <1>4, <1>7 DEF Init, TypeOK
<1> QED
  BY <1>6, <1>8 DEF JbufInv

(* rtp_recv (stream.c): one packet in, at most one out *)
LEMMA ReceiveInv ==
  ASSUME JbufInv, NEW p \in net, Receive(p)
  PROVE  JbufInv'
<1> DEFINE flushed == IF ssrc_rx \notin {None, p.ssrc} THEN jbuf_flush(jb) ELSE jb
           put == jbuf_put(flushed, p.seq)
           seq == IF Ready(put) THEN Head(put.framel) ELSE 0
<1>0. p.seq \in Seqno /\ p.ssrc \in Source
  BY DEF JbufInv, TypeOK
<1>1. MaxDelay \in Nat /\ MinDelay \in Nat /\ 0 \in Seqno
  BY JbufAssumption DEF Seqno
<1>2. Sound(flushed) /\ (flushed = jb \/ flushed.n = 0)
  BY FlushSound DEF JbufInv
<1>3. flushed.n \in Nat /\ (MinDelay < MaxDelay => flushed.n <= MinDelay)
  <2>1. flushed.n \in Nat
    BY <1>2 DEF Sound, Jitter
  <2> QED
    BY <2>1, <1>1, <1>2 DEF JbufInv, Delayed
<1> HIDE DEF flushed
<1>4. Sound(put) /\ put.n <= flushed.n + 1
  BY <1>0, <1>2, PutSound
<1>5. put.n \in Nat
  BY <1>4 DEF Sound, Jitter
<1> HIDE DEF put
<1>6. /\ Sound(jbuf_get(put))
      /\ put.n <= MinDelay + 1 => jbuf_get(put).n <= MinDelay
      /\ Ready(put) => Head(put.framel) \in Seqno
  BY <1>4, GetSound
<1>7. seq \in Seqno
  BY <1>1, <1>6
<1> HIDE DEF seq
<1>8. /\ jb' = jbuf_get(put) /\ ssrc_rx' = p.ssrc /\ pseq' = NextPseq(pseq, seq)
      /\ told' = [seq |-> IF Ready(put) THEN seq ELSE None,
                  lost |-> lostcalc(pseq, seq) > 0]
      /\ net' \in {net, net \ {p}} /\ sender' = sender
  BY DEF Receive, rtp_recv, flushed, put, seq
<1>9. Sound(jb') /\ Delayed(jb')
  <2>1. MinDelay < MaxDelay => put.n <= MinDelay + 1
    BY <1>1, <1>3, <1>4, <1>5
  <2> QED
    BY <2>1, <1>6, <1>8 DEF Delayed
<1>10. pseq' \in Seqno \cup {None}
  BY <1>7, <1>8 DEF NextPseq, JbufInv, TypeOK
<1>11. told' \in [seq : Seqno \cup {None}, lost : BOOLEAN]
  BY <1>7, <1>8
<1>12. net' \subseteq [ssrc : Source, seq : Seqno]
  BY <1>8 DEF JbufInv, TypeOK
<1>13. jb' \in Jitter
  BY <1>9 DEF Sound
<1> QED
  BY <1>0, <1>8, <1>9, <1>10, <1>11, <1>12, <1>13 DEF JbufInv, TypeOK

(* Every step keeps the invariant. *)
LEMMA JbufNextInv == JbufInv /\ [Next]_vars => JbufInv'
<1> SUFFICES ASSUME JbufInv, [Next]_vars PROVE JbufInv'
  OBVIOUS
<1>0. /\ sender.ssrc \in Source /\ sender.seq \in Seqno
      /\ SeqSize \in Nat /\ SeqSize > 0
  BY JbufAssumption DEF JbufInv, TypeOK
<1>1. CASE Send
  <2>1. (sender.seq + 1) % SeqSize \in Seqno
    BY <1>0 DEF Seqno
  <2>2. sender' \in [ssrc : Source, seq : Seqno]
    BY <1>1, <2>1 DEF Send, JbufInv, TypeOK
  <2>3. net' \subseteq [ssrc : Source, seq : Seqno]
    BY <1>1 DEF Send, JbufInv, TypeOK
  <2> QED
    BY <1>1, <2>2, <2>3 DEF Send, JbufInv, TypeOK, Delayed
<1>2. CASE stream_reset
  <2>1. Sound(jb') /\ jb'.n = 0
    BY <1>2, FlushSound DEF stream_reset, JbufInv
  <2>2. jb' \in Jitter /\ Delayed(jb')
    BY <2>1, JbufAssumption DEF Sound, Delayed
  <2> QED
    BY <1>2, <2>1, <2>2 DEF stream_reset, JbufInv, TypeOK
<1>3. ASSUME NEW p \in net, Lose(p) PROVE JbufInv'
  BY <1>3 DEF Lose, JbufInv, TypeOK, Delayed
<1>4. ASSUME NEW p \in net, Receive(p) PROVE JbufInv'
  BY <1>4, ReceiveInv
<1>5. ASSUME NEW s \in Source, NEW seq \in FirstSeq, Restart(s, seq) PROVE JbufInv'
  <2>1. seq \in Seqno
    BY JbufAssumption DEF Seqno
  <2>2. sender' \in [ssrc : Source, seq : Seqno]
    BY <1>5, <2>1 DEF Restart
  <2> QED
    BY <1>5, <2>2 DEF Restart, JbufInv, TypeOK, Delayed
<1>6. CASE UNCHANGED vars
  BY <1>6 DEF vars, JbufInv, TypeOK, Delayed
<1> QED
  BY <1>1, <1>2, <1>3, <1>4, <1>5, <1>6 DEF Next

(* In every state the program can be in the jitter buffer has all its      *)
(* frames in the list or in the pool and counts them, the list is sorted   *)
(* without duplicates across the wrap of the sequence numbers, and with    *)
(* room for one frame more than the delay none is ever dropped: for every  *)
(* size of the buffer, every delay and every (even) number of sequence     *)
(* numbers, whatever the network does (jbuf_put, jbuf_get, jbuf_flush).    *)
THEOREM JitterBuffer == Spec => []JbufSound
<1>1. Spec => []JbufInv
  BY JbufInitInv, JbufNextInv, PTL DEF Spec
<1>2. JbufInv => JbufSound
  <2> SUFFICES ASSUME JbufInv PROVE JbufSound
    OBVIOUS
  <2>1. Balanced
    BY DEF JbufInv, Sound, Balanced
  <2>2. Sorted
    BY DEF JbufInv, Sound, Ascending, Sorted
  <2>3. jb.n \in Nat /\ jb.pool \in Nat /\ jb.n + jb.pool = MaxDelay
    BY DEF JbufInv, Sound, Jitter
  <2>4. NoOverflow
    BY <2>3, JbufAssumption DEF JbufInv, Delayed, NoOverflow
  <2> QED
    BY <2>1, <2>2, <2>4 DEF JbufSound
<1> QED
  BY <1>1, <1>2, PTL

----------------------------------------------------------------------------
(***************************************************************************)
(* The timers of the main loop (EventLoop): a list with entries that       *)
(* expire in order, in which no timer is twice.                            *)
(***************************************************************************)
Entry == [t : Timer, jfs : 0 .. MaxTime]

InTime(l) ==
  \A i, j \in 1 .. Len(l) : i < j => l[i].jfs <= l[j].jfs /\ l[i].t # l[j].t

(* The inductive invariant of the loop is TimersOrdered itself. *)
LoopRec ==
  [pc : {"top", "wait", "dispatch", "timers", "end"}, wake : Nat,
   polling : BOOLEAN, sig : BOOLEAN, update : BOOLEAN, n : Nat, i : Nat,
   jfs : Nat]

(* Min of a set of natural numbers *)
LEMMA MinOfNaturals ==
  ASSUME NEW T \in SUBSET Nat, T # {}
  PROVE  Min(T) \in T /\ \A y \in T : Min(T) <= y
BY LeastNatural DEF Min

(* The entries of a list *)
LEMMA EntryTypes ==
  ASSUME NEW l \in Seq(Entry)
  PROVE  /\ Len(l) \in Nat /\ DOMAIN l = 1 .. Len(l)
         /\ \A i \in 1 .. Len(l) : l[i] \in Entry /\ l[i].t \in Timer /\ l[i].jfs \in Nat
<1>1. \A i \in 1 .. Len(l) : l[i] \in Entry
  BY ElementOfSeq
<1>2. \A i \in 1 .. Len(l) : l[i].t \in Timer /\ l[i].jfs \in Nat
  BY <1>1, LoopAssumption DEF Entry
<1> QED
  BY <1>1, <1>2, LenProperties

(* A member of a list is taken out (list_unlink). *)
LEMMA Removed ==
  ASSUME NEW S, NEW f \in Seq(S), NEW p \in 1 .. Len(f)
  PROVE  /\ RemoveAt(f, p) \in Seq(S) /\ Len(RemoveAt(f, p)) = Len(f) - 1
         /\ \A i \in 1 .. Len(f) - 1 :
              RemoveAt(f, p)[i] = IF i < p THEN f[i] ELSE f[i + 1]
<1> DEFINE a == SubSeq(f, 1, p - 1)
           b == SubSeq(f, p + 1, Len(f))
           g == a \o b
<1>1. Len(f) \in Nat /\ p \in Nat /\ 1 <= p /\ p <= Len(f)
  BY LenProperties
<1>2. \A i \in 1 .. Len(f) : f[i] \in S
  BY ElementOfSeq
<1>3. \A i \in 1 .. p - 1 : f[i] \in S
  BY <1>1, <1>2
<1>4. \A i \in p + 1 .. Len(f) : f[i] \in S
  BY <1>1, <1>2
<1>5. a \in Seq(S) /\ Len(a) = p - 1 /\ \A i \in 1 .. p - 1 : a[i] = f[i]
  <2>1. 1 \in Int /\ p - 1 \in Int
    BY <1>1
  <2>2. /\ a \in Seq(S) /\ Len(a) = IF 1 <= p - 1 THEN (p - 1) - 1 + 1 ELSE 0
        /\ \A i \in 1 .. (p - 1) - 1 + 1 : a[i] = f[1 + i - 1]
    BY <2>1, <1>3, SubSeqProperties
  <2> HIDE DEF a
  <2>3. \A i \in 1 .. p - 1 : i \in 1 .. (p - 1) - 1 + 1 /\ 1 + i - 1 = i
    BY <1>1
  <2>4. Len(a) = p - 1
    BY <1>1, <2>2
  <2> QED
    BY <2>2, <2>3, <2>4
<1>6. b \in Seq(S) /\ Len(b) = Len(f) - p /\ \A i \in 1 .. Len(f) - p : b[i] = f[p + i]
  <2>1. p + 1 \in Int /\ Len(f) \in Int
    BY <1>1
  <2>2. /\ b \in Seq(S)
        /\ Len(b) = IF p + 1 <= Len(f) THEN Len(f) - (p + 1) + 1 ELSE 0
        /\ \A i \in 1 .. Len(f) - (p + 1) + 1 : b[i] = f[(p + 1) + i - 1]
    BY <2>1, <1>4, SubSeqProperties
  <2> HIDE DEF b
  <2>3. Len(b) = Len(f) - p
    <3>1. (IF p + 1 <= Len(f) THEN Len(f) - (p + 1) + 1 ELSE 0) = Len(f) - p
      BY <1>1
    <3> QED
      BY <2>2, <3>1
  <2>4. \A i \in 1 .. Len(f) - p : i \in 1 .. Len(f) - (p + 1) + 1 /\ (p + 1) + i - 1 = p + i
    BY <1>1
  <2> QED
    BY <2>2, <2>3, <2>4
<1>7. RemoveAt(f, p) = g
  BY DEF RemoveAt
<1> HIDE DEF a, b
<1>8. /\ g \in Seq(S) /\ Len(g) = Len(a) + Len(b)
      /\ \A i \in 1 .. Len(a) + Len(b) : g[i] = IF i <= Len(a) THEN a[i] ELSE b[i - Len(a)]
  BY <1>5, <1>6, ConcatProperties
<1> HIDE DEF g
<1>9. Len(g) = Len(f) - 1
  BY <1>1, <1>5, <1>6, <1>8
<1>10. \A i \in 1 .. Len(f) - 1 : g[i] = IF i < p THEN f[i] ELSE f[i + 1]
  <2> TAKE i \in 1 .. Len(f) - 1
  <2>1. g[i] = IF i <= p - 1 THEN a[i] ELSE b[i - (p - 1)]
    BY <1>1, <1>5, <1>6, <1>8
  <2>2. CASE i < p
    BY <2>1, <2>2, <1>1, <1>5
  <2>3. CASE ~(i < p)
    <3>1. i - (p - 1) \in 1 .. Len(f) - p /\ p + (i - (p - 1)) = i + 1
      BY <2>3, <1>1
    <3>2. ~(i <= p - 1)
      BY <2>3, <1>1
    <3> QED
      BY <2>1, <2>3, <3>1, <3>2, <1>6
  <2> QED
    BY <2>2, <2>3
<1> QED
  BY <1>7, <1>8, <1>9, <1>10

(* A timer that is cancelled is not in the list any more, since it was     *)
(* there once at most, and the others stay in order.                       *)
LEMMA UnlinkInTime ==
  ASSUME NEW l \in Seq(Entry), InTime(l), NEW t
  PROVE  /\ Unlink(l, t) \in Seq(Entry) /\ InTime(Unlink(l, t))
         /\ \A i \in 1 .. Len(Unlink(l, t)) : Unlink(l, t)[i].t # t
<1> DEFINE at == {i \in DOMAIN l : l[i].t = t}
           u == Unlink(l, t)
<1>1. Len(l) \in Nat /\ DOMAIN l = 1 .. Len(l)
  BY EntryTypes
<1>2. CASE at = {}
  <2>1. u = l
    BY <1>2 DEF Unlink
  <2> QED
    BY <1>1, <1>2, <2>1
<1>3. CASE at # {}
  <2> DEFINE p == Min(at)
  <2>0. at \in SUBSET Nat
    BY <1>1
  <2>1. p \in at
    BY <1>3, <2>0, MinOfNaturals
  <2>2. u = RemoveAt(l, p)
    BY <1>3 DEF Unlink
  <2>3. p \in 1 .. Len(l) /\ l[p].t = t
    BY <1>1, <2>1
  <2> HIDE DEF p, u, at
  <2>4. /\ u \in Seq(Entry) /\ Len(u) = Len(l) - 1
        /\ \A i \in 1 .. Len(l) - 1 : u[i] = IF i < p THEN l[i] ELSE l[i + 1]
    BY <2>2, <2>3, Removed
  <2> DEFINE at2(i) == IF i < p THEN i ELSE i + 1
  <2>5. \A i \in 1 .. Len(u) : /\ at2(i) \in 1 .. Len(l) /\ at2(i) # p
                               /\ u[i] = l[at2(i)]
    BY <1>1, <2>3, <2>4
  <2>6. \A i, j \in 1 .. Len(u) : i < j => at2(i) < at2(j)
    BY <1>1, <2>3, <2>4
  <2> HIDE DEF at2
  <2>7. InTime(u)
    BY <2>5, <2>6 DEF InTime
  <2>8. \A i \in 1 .. Len(u) : u[i].t # t
    <3> TAKE i \in 1 .. Len(u)
    <3>1. at2(i) < p \/ p < at2(i)
      BY <2>3, <2>5, <1>1
    <3> QED
      BY <3>1, <2>3, <2>5 DEF InTime
  <2> QED
    BY <2>4, <2>7, <2>8 DEF u
<1> QED
  BY <1>2, <1>3

(* An entry that is put where those before it are not later and those      *)
(* behind it not earlier                                                   *)
LEMMA InsertInTime ==
  ASSUME NEW l \in Seq(Entry), InTime(l), NEW e \in Entry, NEW p \in 0 .. Len(l),
         \A i \in 1 .. Len(l) : l[i].t # e.t,
         \A i \in 1 .. Len(l) : i <= p => l[i].jfs <= e.jfs,
         \A i \in 1 .. Len(l) : i > p => e.jfs <= l[i].jfs
  PROVE  InsertAt(l, p + 1, e) \in Seq(Entry) /\ InTime(InsertAt(l, p + 1, e))
<1> DEFINE g == InsertAt(l, p + 1, e)
<1>1. Len(l) \in Nat /\ p \in Nat /\ p <= Len(l)
  BY EntryTypes
<1>2. /\ g \in Seq(Entry) /\ Len(g) = Len(l) + 1
      /\ \A i \in 1 .. Len(l) + 1 : g[i] =
           IF i <= p THEN l[i] ELSE IF i = p + 1 THEN e ELSE l[i - 1]
  BY Inserted
<1> HIDE DEF g
<1>3. ASSUME NEW i \in 1 .. Len(l) + 1, NEW j \in 1 .. Len(l) + 1, i < j
      PROVE  g[i].jfs <= g[j].jfs /\ g[i].t # g[j].t
  <2>1. CASE i <= p /\ j <= p
    BY <2>1, <1>1, <1>2, <1>3 DEF InTime
  <2>2. CASE i <= p /\ j = p + 1
    BY <2>2, <1>1, <1>2, <1>3
  <2>3. CASE i <= p /\ j > p + 1
    <3>1. i \in 1 .. Len(l) /\ j - 1 \in 1 .. Len(l) /\ i < j - 1
      BY <2>3, <1>1
    <3>2. g[i] = l[i]
      BY <2>3, <1>2
    <3>3. j # p + 1 /\ ~(j <= p)
      BY <2>3, <1>1
    <3>4. g[j] = l[j - 1]
      BY <3>3, <1>2
    <3> QED
      BY <3>1, <3>2, <3>4 DEF InTime
  <2>4. CASE i = p + 1
    <3>1. j - 1 \in 1 .. Len(l) /\ j - 1 > p /\ g[i] = e /\ g[j] = l[j - 1]
      BY <2>4, <1>1, <1>2, <1>3
    <3> QED
      BY <3>1
  <2>5. CASE i > p + 1
    <3>1. i - 1 \in 1 .. Len(l) /\ j - 1 \in 1 .. Len(l) /\ i - 1 < j - 1
      BY <2>5, <1>1, <1>3
    <3>2. g[i] = l[i - 1] /\ g[j] = l[j - 1]
      BY <2>5, <1>1, <1>2, <1>3
    <3> QED
      BY <3>1, <3>2 DEF InTime
  <2> QED
    BY <1>1, <1>3, <2>1, <2>2, <2>3, <2>4, <2>5
<1>4. InTime(g)
  BY <1>2, <1>3 DEF InTime
<1> QED
  BY <1>2, <1>4 DEF g

(* tmr_start: from whichever end the place is looked for, it is right.     *)
LEMMA StartInTime ==
  ASSUME NEW l \in Seq(Entry), InTime(l), NEW t \in Timer, NEW d \in Delays,
         now \in 0 .. MaxTime, now + d <= MaxTime
  PROVE  tmr_start(l, t, d) \in Seq(Entry) /\ InTime(tmr_start(l, t, d))
<1> DEFINE u == Unlink(l, t)
           jfs == now + d
           e == [t |-> t, jfs |-> jfs]
<1>1. u \in Seq(Entry) /\ InTime(u) /\ \A i \in 1 .. Len(u) : u[i].t # t
  BY UnlinkInTime
<1> HIDE DEF u
<1>2. /\ Len(u) \in Nat /\ DOMAIN u = 1 .. Len(u)
      /\ \A i \in 1 .. Len(u) : u[i].jfs \in Nat
  BY <1>1, EntryTypes
<1>3. e \in Entry /\ e.t = t /\ e.jfs = jfs /\ jfs \in Nat
  BY LoopAssumption DEF Entry
<1> HIDE DEF e, jfs
<1>4. ASSUME NEW p \in 0 .. Len(u),
             \A i \in 1 .. Len(u) : i <= p => u[i].jfs <= jfs,
             \A i \in 1 .. Len(u) : i > p => jfs <= u[i].jfs
      PROVE  InsertAt(u, p + 1, e) \in Seq(Entry) /\ InTime(InsertAt(u, p + 1, e))
  BY <1>1, <1>3, <1>4, InsertInTime
<1>5. CASE d = 0
  <2> DEFINE T == {Len(u) + 1} \cup {i \in DOMAIN u : u[i].jfs > jfs}
             b == Min(T)
             p == b - 1
  <2>1. T \in SUBSET Nat /\ T # {} /\ Len(u) + 1 \in T
    BY <1>2
  <2>2. b \in T /\ \A y \in T : b <= y
    BY <2>1, MinOfNaturals
  <2>3. Before(u, jfs) = b
    BY DEF Before
  <2> HIDE DEF b
  <2>4. b \in 1 .. Len(u) + 1
    BY <1>2, <2>2
  <2>5. \A i \in 1 .. Len(u) : i < b => u[i].jfs <= jfs
    <3> TAKE i \in 1 .. Len(u)
    <3> HAVE i < b
    <3>1. i \notin T
      BY <2>2, <2>4
    <3>2. ~(u[i].jfs > jfs)
      BY <3>1, <1>2
    <3> QED
      BY <3>2, <1>2, <1>3
  <2>6. ASSUME b <= Len(u) PROVE jfs <= u[b].jfs
    <3>1. b \in 1 .. Len(u) /\ u[b].jfs > jfs
      BY <1>2, <2>2, <2>4, <2>6
    <3> QED
      BY <3>1, <1>2, <1>3
  <2> HIDE DEF T
  <2>7. \A i \in 1 .. Len(u) : i >= b => jfs <= u[i].jfs
    <3> TAKE i \in 1 .. Len(u)
    <3> HAVE i >= b
    <3>1. b \in 1 .. Len(u) /\ jfs <= u[b].jfs /\ (i = b \/ b < i)
      BY <1>2, <2>4, <2>6
    <3>2. u[b].jfs <= u[i].jfs
      BY <3>1, <1>1, <1>2 DEF InTime
    <3> QED
      BY <3>1, <3>2, <1>2, <1>3
  <2>8. /\ p \in 0 .. Len(u) /\ p + 1 = b
        /\ \A i \in 1 .. Len(u) : (i <= p <=> i < b) /\ (i > p <=> i >= b)
    BY <1>2, <2>4
  <2> HIDE DEF p
  <2>9. tmr_start(l, t, d) = InsertAt(u, b, e)
    BY <1>5, <2>3 DEF tmr_start, u, e, jfs
  <2> QED
    BY <1>4, <2>5, <2>7, <2>8, <2>9
<1>6. CASE d # 0
  <2> DEFINE T == {0} \cup {i \in DOMAIN u : u[i].jfs <= jfs}
             p == Max(T)
  <2>1. T \in SUBSET (0 .. Len(u)) /\ T # {}
    BY <1>2
  <2>2. p \in T /\ \A y \in T : p >= y
    BY <1>2, <2>1, MaxOfBounded
  <2>3. After(u, jfs) = 1 + p
    BY DEF After
  <2> HIDE DEF p
  <2>4. p \in 0 .. Len(u)
    BY <2>1, <2>2
  <2>5. \A i \in 1 .. Len(u) : i > p => jfs <= u[i].jfs
    <3> TAKE i \in 1 .. Len(u)
    <3> HAVE i > p
    <3>1. i \notin T
      BY <1>2, <2>2, <2>4
    <3>2. ~(u[i].jfs <= jfs)
      BY <3>1, <1>2
    <3> QED
      BY <3>2, <1>2, <1>3
  <2>6. ASSUME p > 0 PROVE p \in 1 .. Len(u) /\ u[p].jfs <= jfs
    BY <1>2, <2>2, <2>4, <2>6
  <2> HIDE DEF T
  <2>7. \A i \in 1 .. Len(u) : i <= p => u[i].jfs <= jfs
    <3> TAKE i \in 1 .. Len(u)
    <3> HAVE i <= p
    <3>1. p \in 1 .. Len(u) /\ u[p].jfs <= jfs /\ (i = p \/ i < p)
      BY <1>2, <2>4, <2>6
    <3>2. u[i].jfs <= u[p].jfs
      BY <3>1, <1>1, <1>2 DEF InTime
    <3> QED
      BY <3>1, <3>2, <1>2, <1>3
  <2>8. 1 + p = p + 1
    BY <1>2, <2>4
  <2>9. tmr_start(l, t, d) = InsertAt(u, p + 1, e)
    BY <1>6, <2>3, <2>8 DEF tmr_start, u, e, jfs
  <2> QED
    BY <1>4, <2>4, <2>5, <2>7, <2>9
<1> QED
  BY <1>5, <1>6

(* The first timer is taken off the list (tmr_poll). *)
LEMMA TailInTime ==
  ASSUME NEW l \in Seq(Entry), InTime(l), l # <<>>
  PROVE  Tail(l) \in Seq(Entry) /\ InTime(Tail(l))
<1>1. Len(l) \in Nat
  BY EntryTypes
<1>2. Tail(l) \in Seq(Entry) /\ Len(Tail(l)) = Len(l) - 1
  BY HeadTailProperties
<1>3. \A i \in 1 .. Len(l) - 1 : Tail(l)[i] = l[i + 1]
  BY HeadTailProperties
<1>4. ASSUME NEW i \in 1 .. Len(l) - 1, NEW j \in 1 .. Len(l) - 1, i < j
      PROVE  Tail(l)[i].jfs <= Tail(l)[j].jfs /\ Tail(l)[i].t # Tail(l)[j].t
  <2>1. i + 1 \in 1 .. Len(l) /\ j + 1 \in 1 .. Len(l) /\ i + 1 < j + 1
    BY <1>1, <1>4
  <2> QED
    BY <2>1, <1>3 DEF InTime
<1> QED
  BY <1>2, <1>4 DEF InTime

(* The loop does not sleep past a timer. *)
Wakes ==
  loop.pc = "wait" => \A i \in 1 .. Len(tmrl) :
    loop.wake <= tmrl[i].jfs \/ loop.wake <= now

(* What TimersOrdered says, in parts *)
LEMMA LoopParts ==
  TimersOrdered <=>
    /\ loop \in LoopRec /\ fhs \in [Fd -> [flags : SUBSET Flags, open : BOOLEAN]]
    /\ now \in 0 .. MaxTime /\ owners \in 1 .. MaxOwner
    /\ tmrl \in Seq(Entry) /\ InTime(tmrl) /\ Wakes
BY DEF TimersOrdered, LoopTypeOK, LoopRec, Entry, InTime, Wakes

(* ... and after a step *)
LEMMA LoopMade ==
  ASSUME loop' \in LoopRec, fhs' \in [Fd -> [flags : SUBSET Flags, open : BOOLEAN]],
         now' \in 0 .. MaxTime, owners' \in 1 .. MaxOwner,
         tmrl' \in Seq(Entry), InTime(tmrl'), Wakes'
  PROVE  TimersOrdered'
BY DEF TimersOrdered, LoopTypeOK, LoopRec, Entry, InTime, Wakes

(* re_main is entered without timers. *)
LEMMA LoopInitInv == LoopInit => TimersOrdered
<1> SUFFICES ASSUME LoopInit PROVE TimersOrdered
  OBVIOUS
<1>1. loop \in LoopRec /\ loop.pc = "top"
  BY DEF LoopInit, LoopAt, LoopRec
<1>2. fhs \in [Fd -> [flags : SUBSET Flags, open : BOOLEAN]]
  BY DEF LoopInit, LoopAt, NoFh, Flags
<1>3. now \in 0 .. MaxTime /\ owners \in 1 .. MaxOwner
  BY LoopAssumption DEF LoopInit, LoopAt
<1>4. tmrl = <<>>
  BY DEF LoopInit, LoopAt
<1>5. tmrl \in Seq(Entry) /\ Len(tmrl) = 0
  BY <1>4, EmptySeq
<1>6. InTime(tmrl)
  BY <1>5 DEF InTime
<1> QED
  BY <1>1, <1>2, <1>3, <1>5, <1>6, LoopParts DEF Wakes

(* A handler of the user leaves the tables and the list in order.          *)
LEMMA HandlerInTime ==
  ASSUME TimersOrdered, NEW l \in Seq(Entry), InTime(l), HandlerDoes(l)
  PROVE  /\ fhs' \in [Fd -> [flags : SUBSET Flags, open : BOOLEAN]]
         /\ owners' \in 1 .. MaxOwner
         /\ tmrl' \in Seq(Entry) /\ InTime(tmrl')
<1>0. /\ fhs \in [Fd -> [flags : SUBSET Flags, open : BOOLEAN]]
      /\ now \in 0 .. MaxTime /\ owners \in 1 .. MaxOwner
  BY LoopParts
<1>1. ASSUME NEW f \in Fd, NEW flags \in SUBSET Flags
      PROVE  fd_listen(f, flags) \in [Fd -> [flags : SUBSET Flags, open : BOOLEAN]]
  BY <1>0 DEF fd_listen
<1>2. ASSUME NEW f \in Fd
      PROVE  fd_close(f) \in [Fd -> [flags : SUBSET Flags, open : BOOLEAN]]
  BY <1>0 DEF fd_close, NoFh
<1>3. {"r"} \in SUBSET Flags /\ {"w"} \in SUBSET Flags
  BY DEF Flags
<1>4. owners < MaxOwner => owners + 1 \in 1 .. MaxOwner
  BY <1>0, LoopAssumption
<1>5. CASE UNCHANGED <<fhs, owners>> /\ tmrl' = l
  BY <1>0, <1>5
<1>6. ASSUME NEW f \in Fd \ {0}, NEW again \in BOOLEAN, NEW flags \in {{"r"}, {"w"}},
             IF again THEN owners < MaxOwner /\ owners' = owners + 1
                           /\ fhs' = fd_listen(f, flags)
             ELSE owners' = owners /\ fhs' = fd_close(f),
             tmrl' = l
      PROVE  /\ fhs' \in [Fd -> [flags : SUBSET Flags, open : BOOLEAN]]
             /\ owners' \in 1 .. MaxOwner
             /\ tmrl' \in Seq(Entry) /\ InTime(tmrl')
  BY <1>0, <1>1, <1>2, <1>3, <1>4, <1>6
<1>7. CASE /\ Closed # {} /\ owners < MaxOwner /\ owners' = owners + 1
           /\ fhs' = fd_listen(CHOOSE f \in Closed : \A g \in Closed : f <= g, {"w"})
           /\ tmrl' = l
  <2>1. Closed \in SUBSET Nat /\ Closed \subseteq Fd
    BY LoopAssumption DEF Closed, Fd
  <2>2. \E f \in Closed : \A g \in Closed : f <= g
    BY <1>7, <2>1, LeastNatural
  <2>3. (CHOOSE f \in Closed : \A g \in Closed : f <= g) \in Fd
    BY <2>1, <2>2
  <2> QED
    BY <1>1, <1>3, <1>4, <1>7, <2>3
<1>8. ASSUME NEW t \in Timer, NEW d \in Delays, now + d <= MaxTime,
             tmrl' = tmr_start(l, t, d), UNCHANGED <<fhs, owners>>
      PROVE  /\ fhs' \in [Fd -> [flags : SUBSET Flags, open : BOOLEAN]]
             /\ owners' \in 1 .. MaxOwner
             /\ tmrl' \in Seq(Entry) /\ InTime(tmrl')
  BY <1>0, <1>8, StartInTime
<1>9. ASSUME NEW t \in Timer, tmrl' = Unlink(l, t), UNCHANGED <<fhs, owners>>
      PROVE  /\ fhs' \in [Fd -> [flags : SUBSET Flags, open : BOOLEAN]]
             /\ owners' \in 1 .. MaxOwner
             /\ tmrl' \in Seq(Entry) /\ InTime(tmrl')
  BY <1>0, <1>9, UnlinkInTime
<1> QED
  BY <1>5, <1>6, <1>7, <1>8, <1>9 DEF HandlerDoes

(* The records that the steps of re_main and fd_poll make                  *)
LEMMA LoopRecords ==
  ASSUME TimersOrdered
  PROVE  /\ PollTimers \in LoopRec /\ PollTimers.pc = "timers"
         /\ More => Advance \in LoopRec /\ Advance.pc \in {loop.pc, "timers"}
<1>1. loop \in LoopRec /\ now \in Nat /\ 0 \in Nat
  BY LoopParts, LoopAssumption
<1>2. PollTimers \in LoopRec /\ PollTimers.pc = "timers"
  BY <1>1 DEF PollTimers, LoopRec
<1>3. ASSUME More PROVE Advance \in LoopRec /\ Advance.pc \in {loop.pc, "timers"}
  <2>1. CASE loop.update
    <3>1. Advance = [PollTimers EXCEPT !.update = FALSE]
      BY <2>1 DEF Advance
    <3> QED
      BY <3>1, <1>2 DEF LoopRec
  <2>2. CASE ~loop.update
    <3>1. Advance = [loop EXCEPT !.n = @ - 1, !.i = @ + 1]
      BY <2>2 DEF Advance
    <3>2. loop.n - 1 \in Nat /\ loop.i + 1 \in Nat
      BY <1>1, <1>3 DEF More, LoopRec
    <3> QED
      BY <3>1, <3>2, <1>1 DEF LoopRec
  <2> QED
    BY <2>1, <2>2
<1> QED
  BY <1>2, <1>3

(* A step that leaves the list alone and does not go to sleep *)
LEMMA Awake ==
  ASSUME TimersOrdered, loop' \in LoopRec, loop'.pc # "wait",
         UNCHANGED <<fhs, tmrl, now, owners>>
  PROVE  TimersOrdered'
<1>1. /\ fhs' \in [Fd -> [flags : SUBSET Flags, open : BOOLEAN]]
      /\ now' \in 0 .. MaxTime /\ owners' \in 1 .. MaxOwner
      /\ tmrl' \in Seq(Entry) /\ InTime(tmrl')
  BY LoopParts
<1>2. Wakes'
  BY DEF Wakes
<1> QED
  BY <1>1, <1>2, LoopMade

(* Every step of the loop keeps the timers in order. *)
LEMMA LoopNextInv == TimersOrdered /\ [LoopNext]_loopVars => TimersOrdered'
<1> SUFFICES ASSUME TimersOrdered, [LoopNext]_loopVars PROVE TimersOrdered'
  OBVIOUS
<1>0. /\ loop \in LoopRec /\ fhs \in [Fd -> [flags : SUBSET Flags, open : BOOLEAN]]
      /\ now \in 0 .. MaxTime /\ owners \in 1 .. MaxOwner
      /\ tmrl \in Seq(Entry) /\ InTime(tmrl) /\ Wakes
      /\ MaxTime \in Nat
  BY LoopParts, LoopAssumption
<1>1. CASE LoopTop
  <2>1. UNCHANGED <<fhs, tmrl, now, owners>>
    BY <1>1 DEF LoopTop, Rest
  <2>2. CASE loop.sig \/ ~loop.polling
    <3>1. loop' \in LoopRec /\ loop'.pc = "end"
      BY <1>0, <1>1, <2>2 DEF LoopTop, LoopRec
    <3> QED
      BY <3>1, <2>1, Awake
  <2>3. CASE ~loop.sig /\ loop.polling
    <3>1. /\ Len(tmrl) \in Nat /\ (tmrl = <<>> <=> Len(tmrl) = 0)
          /\ \A i \in 1 .. Len(tmrl) : tmrl[i].jfs \in Nat
      BY <1>0, EntryTypes, EmptySeq
    <3>2. NextTimeout \in Nat
      BY <1>0, <3>1 DEF NextTimeout, Forever
    <3>3. \A i \in 1 .. Len(tmrl) : NextTimeout <= tmrl[i].jfs \/ NextTimeout <= now
      <4> TAKE i \in 1 .. Len(tmrl)
      <4>1. 1 \in 1 .. Len(tmrl) /\ (i = 1 \/ 1 < i) /\ tmrl # <<>>
        BY <3>1
      <4>2. tmrl[1].jfs <= tmrl[i].jfs
        BY <4>1, <3>1, <1>0 DEF InTime
      <4> QED
        BY <4>1, <4>2, <3>1, <1>0 DEF NextTimeout
    <3>4. loop' = [loop EXCEPT !.pc = "wait", !.wake = NextTimeout]
      BY <1>1, <2>3 DEF LoopTop
    <3>5. loop' \in LoopRec /\ loop'.wake = NextTimeout
      BY <1>0, <3>2, <3>4 DEF LoopRec
    <3>6. Wakes'
      BY <2>1, <3>3, <3>5 DEF Wakes
    <3> QED
      BY <1>0, <2>1, <3>5, <3>6, LoopMade
  <2> QED
    BY <2>2, <2>3
<1>2. CASE EpollWait
  <2>1. UNCHANGED <<fhs, tmrl, now, owners>>
    BY <1>2 DEF EpollWait, Rest
  <2>2. PICK S \in SUBSET Fd :
          loop' = [loop EXCEPT !.pc = "dispatch", !.n = Cardinality(S), !.i = 1, !.wake = 0]
    BY <1>2 DEF EpollWait
  <2>3. IsFiniteSet(Fd)
    BY LoopAssumption, FS_Interval DEF Fd
  <2>4. Cardinality(S) \in Nat
    BY <2>3, FS_Subset, FS_CardinalityType
  <2>5. loop' \in LoopRec /\ loop'.pc = "dispatch"
    BY <1>0, <2>2, <2>4 DEF LoopRec
  <2> QED
    BY <2>1, <2>5, Awake
<1>3. CASE EpollTimeout \/ EventsDone
  BY <1>3, LoopRecords, Awake DEF EpollTimeout, EventsDone, Rest
<1>4. CASE SkipEvent
  <2>1. UNCHANGED <<fhs, tmrl, now, owners>> /\ loop' = [loop EXCEPT !.i = @ + 1]
    BY <1>4 DEF SkipEvent, Rest
  <2>2. loop' \in LoopRec /\ loop'.pc = "dispatch"
    BY <1>0, <1>4, <2>1 DEF SkipEvent, LoopRec
  <2> QED
    BY <2>1, <2>2, Awake
<1>5. CASE NobodyListens
  <2>1. UNCHANGED <<fhs, tmrl, now, owners>> /\ loop' = Advance /\ More /\ loop.pc = "dispatch"
    BY <1>5 DEF NobodyListens, Rest
  <2> QED
    BY <2>1, LoopRecords, Awake
<1>6. CASE FdHandler
  <2>1. HandlerDoes(tmrl) /\ UNCHANGED now /\ More /\ loop.pc = "dispatch"
    BY <1>6 DEF FdHandler
  <2>2. PICK stop \in BOOLEAN : loop' = [Advance EXCEPT !.polling = @ /\ ~stop]
    BY <1>6 DEF FdHandler
  <2>3. Advance \in LoopRec /\ Advance.pc # "wait"
    BY <2>1, LoopRecords
  <2>4. loop' \in LoopRec /\ loop'.pc # "wait"
    BY <2>2, <2>3 DEF LoopRec
  <2>5. /\ fhs' \in [Fd -> [flags : SUBSET Flags, open : BOOLEAN]]
        /\ owners' \in 1 .. MaxOwner /\ tmrl' \in Seq(Entry) /\ InTime(tmrl')
    BY <1>0, <2>1, HandlerInTime
  <2>6. Wakes'
    BY <2>4 DEF Wakes
  <2> QED
    BY <1>0, <2>1, <2>4, <2>5, <2>6, LoopMade
<1>7. CASE TmrHandler
  <2>1. HandlerDoes(Tail(tmrl)) /\ UNCHANGED now /\ loop.pc = "timers" /\ tmrl # <<>>
    BY <1>7 DEF TmrHandler, Rest, Due
  <2>2. PICK stop \in BOOLEAN : loop' = [loop EXCEPT !.polling = @ /\ ~stop]
    BY <1>7 DEF TmrHandler
  <2>4. loop' \in LoopRec /\ loop'.pc # "wait"
    BY <1>0, <2>1, <2>2 DEF LoopRec
  <2>5. /\ fhs' \in [Fd -> [flags : SUBSET Flags, open : BOOLEAN]]
        /\ owners' \in 1 .. MaxOwner /\ tmrl' \in Seq(Entry) /\ InTime(tmrl')
    BY <1>0, <2>1, TailInTime, HandlerInTime
  <2>6. Wakes'
    BY <2>4 DEF Wakes
  <2> QED
    BY <1>0, <2>1, <2>4, <2>5, <2>6, LoopMade
<1>8. CASE TimersDone
  <2>1. UNCHANGED <<fhs, tmrl, now, owners>> /\ loop' = [loop EXCEPT !.pc = "top", !.jfs = 0]
    BY <1>8 DEF TimersDone, Rest
  <2>2. loop' \in LoopRec /\ loop'.pc = "top"
    BY <1>0, <2>1 DEF LoopRec
  <2> QED
    BY <2>1, <2>2, Awake
<1>9. CASE Signal
  <2>1. /\ UNCHANGED <<fhs, tmrl, now, owners>>
        /\ loop' = [loop EXCEPT !.sig = TRUE, !.wake = 0,
                                !.pc = IF loop.pc = "wait" THEN "top" ELSE loop.pc]
    BY <1>9 DEF Signal, Rest
  <2>2. loop' \in LoopRec /\ loop'.pc # "wait"
    BY <1>0, <2>1 DEF LoopRec
  <2> QED
    BY <2>1, <2>2, Awake
<1>10. CASE SignalLate
  <2>1. UNCHANGED <<fhs, tmrl, now, owners>> /\ loop' = [loop EXCEPT !.sig = TRUE]
    BY <1>10 DEF SignalLate, Rest
  <2>2. loop' \in LoopRec /\ loop'.pc = loop.pc /\ loop'.wake = loop.wake
    BY <1>0, <2>1 DEF LoopRec
  <2>3. Wakes'
    BY <1>0, <2>1, <2>2 DEF Wakes
  <2> QED
    BY <1>0, <2>1, <2>2, <2>3, LoopMade
<1>11. CASE mqueue_push
  <2>1. UNCHANGED <<loop, fhs, tmrl, now, owners>>
    BY <1>11 DEF mqueue_push
  <2> QED
    BY <1>0, <2>1, LoopMade DEF Wakes
<1>12. CASE Tick
  <2>1. UNCHANGED <<loop, fhs, tmrl, owners>> /\ now < MaxTime /\ now' = now + 1
    BY <1>12 DEF Tick
  <2>2. now' \in 0 .. MaxTime
    BY <1>0, <2>1
  <2>3. Wakes'
    <3>1. loop.wake \in Nat
      BY <1>0 DEF LoopRec
    <3>2. loop.wake <= now => loop.wake <= now'
      BY <1>0, <2>1, <3>1
    <3> QED
      BY <1>0, <2>1, <3>2 DEF Wakes
  <2> QED
    BY <1>0, <2>1, <2>2, <2>3, LoopMade
<1>13. CASE UNCHANGED loopVars
  <2>1. UNCHANGED <<loop, fhs, tmrl, now, owners>>
    BY <1>13 DEF loopVars
  <2> QED
    BY <1>0, <2>1, LoopMade DEF Wakes
<1> QED
  BY <1>1, <1>2, <1>3, <1>4, <1>5, <1>6, <1>7, <1>8, <1>9, <1>10, <1>11, <1>12, <1>13
     DEF LoopNext

(* Whatever the handlers of descriptors and timers start, cancel, close    *)
(* and open, the running timers are in the list once, in the order in      *)
(* which they expire, and the loop does not sleep past the first (tmr.c,   *)
(* main.c).                                                                *)
THEOREM TimersInOrder == LoopSpec => []TimersOrdered
BY LoopInitInv, LoopNextInv, PTL DEF LoopSpec

----------------------------------------------------------------------------
(* Numbers modulo the range of sequence numbers *)
LEMMA RtpDiv ==
  ASSUME NEW a \in Int
  PROVE  \E q \in Int, r \in 0 .. RtpSeqs - 1 :
           a % RtpSeqs = r /\ a = RtpSeqs * q + r
<1> DEFINE m == RtpSeqs
           q == a \div m
           r == a % m
           p == m * q
<1>1. m \in Int /\ m > 0
  BY RtpAssumption
<1> HIDE DEF m
<1>2. r \in 0 .. m - 1 /\ q \in Int
  BY <1>1
<1>3. r = a - p
  BY <1>1, Z3
<1>4. p = m * q
  OBVIOUS
<1> HIDE DEF q, p
<1>5. p \in Int
  BY <1>1, <1>2, <1>4
<1>6. \A x \in 0 .. m - 1 : x = a - p => a = p + x
  BY <1>1, <1>5
<1>7. a = p + r
  BY <1>2, <1>3, <1>6, Zenon
<1>8. a = m * q + r
  BY <1>4, <1>7, Zenon
<1>9. a % m = r
  OBVIOUS
<1> HIDE DEF r
<1> QED
  BY <1>2, <1>8, <1>9, Zenon DEF m

LEMMA RtpTimes ==
  ASSUME NEW a \in Int, NEW b \in Int
  PROVE  /\ RtpSeqs * a \in Int
         /\ RtpSeqs * (a - b) = RtpSeqs * a - RtpSeqs * b
         /\ RtpSeqs * (a + b) = RtpSeqs * a + RtpSeqs * b
<1>1. RtpSeqs \in Nat /\ RtpSeqs > 0
  BY RtpAssumption
<1> QED
  BY <1>1

(* Only zero is a multiple of the range and less than it. *)
LEMMA RtpMultiple ==
  ASSUME NEW k \in Int, RtpSeqs * k < RtpSeqs, RtpSeqs * k > 0 - RtpSeqs
  PROVE  k = 0
<1>1. RtpSeqs \in Nat /\ RtpSeqs > 0
  BY RtpAssumption
<1>2. CASE k >= 1
  BY <1>1, <1>2
<1>3. CASE k <= 0 - 1
  BY <1>1, <1>3
<1> QED
  BY <1>2, <1>3

LEMMA RtpRemainder ==
  ASSUME NEW q \in Int, NEW r \in 0 .. RtpSeqs - 1
  PROVE  (RtpSeqs * q + r) % RtpSeqs = r
<1>1. RtpSeqs \in Nat /\ RtpSeqs > 0
  BY RtpAssumption
<1> DEFINE a == RtpSeqs * q + r
<1>2. a \in Int
  BY <1>1
<1> HIDE DEF a
<1>3. PICK p \in Int, s \in 0 .. RtpSeqs - 1 :
        a % RtpSeqs = s /\ a = RtpSeqs * p + s
  BY <1>2, RtpDiv
<1>4. RtpSeqs * q + r = RtpSeqs * p + s
  BY <1>3 DEF a
<1>5. RtpSeqs * (q - p) = s - r
  BY <1>1, <1>4, RtpTimes
<1>6. q - p = 0
  <2>1. RtpSeqs * (q - p) < RtpSeqs /\ RtpSeqs * (q - p) > 0 - RtpSeqs
    BY <1>1, <1>5
  <2> QED
    BY <2>1, RtpMultiple
<1>7. RtpSeqs * (q - p) = 0
  BY <1>1, <1>6
<1>8. s = r
  BY <1>1, <1>5, <1>7
<1> QED
  BY <1>3, <1>8, Zenon DEF a

(* The remainders of numbers that are less than the range apart *)
LEMMA RtpApart ==
  ASSUME NEW n \in Int, NEW h \in Int, n - h < RtpSeqs, h - n < RtpSeqs
  PROVE  \E a, b \in 0 .. RtpSeqs - 1 :
           /\ n % RtpSeqs = a /\ h % RtpSeqs = b
           /\ a - b \in {n - h, n - h - RtpSeqs, n - h + RtpSeqs}
<1>1. RtpSeqs \in Nat /\ RtpSeqs > 0
  BY RtpAssumption
<1>2. PICK p \in Int, a \in 0 .. RtpSeqs - 1 :
        n % RtpSeqs = a /\ n = RtpSeqs * p + a
  BY RtpDiv
<1>3. PICK q \in Int, b \in 0 .. RtpSeqs - 1 :
        h % RtpSeqs = b /\ h = RtpSeqs * q + b
  BY RtpDiv
<1> DEFINE k == p - q
<1>4. n = RtpSeqs * p + a /\ h = RtpSeqs * q + b
  BY <1>2, <1>3
<1>5. k \in Int /\ RtpSeqs * k = (n - h) - (a - b)
  BY <1>1, <1>4, RtpTimes
<1> HIDE DEF k
<1>6. RtpSeqs * k < 2 * RtpSeqs /\ RtpSeqs * k > 0 - 2 * RtpSeqs
  BY <1>1, <1>5
<1>7. k \in {0 - 1, 0, 1}
  <2>1. ~(k >= 2)
    BY <1>1, <1>5, <1>6
  <2>2. ~(k <= 0 - 2)
    BY <1>1, <1>5, <1>6
  <2> QED
    BY <1>5, <2>1, <2>2
<1>8. RtpSeqs * 0 = 0 /\ RtpSeqs * 1 = RtpSeqs /\ RtpSeqs * (0 - 1) = 0 - RtpSeqs
  BY <1>1
<1>9. a - b \in {n - h, n - h - RtpSeqs, n - h + RtpSeqs}
  BY <1>1, <1>5, <1>7, <1>8
<1>10. n % RtpSeqs = a /\ h % RtpSeqs = b
  BY <1>2, <1>3
<1> QED
  BY <1>9, <1>10, Zenon

(* Differences of sequence numbers as source_update_seq takes them *)
LEMMA RtpDelta ==
  ASSUME NEW x \in 0 .. RtpSeqs - 1, NEW y \in 0 .. RtpSeqs - 1
  PROVE  (x - y) % RtpSeqs = IF x >= y THEN x - y ELSE (x - y) + RtpSeqs
<1>1. RtpSeqs \in Nat /\ RtpSeqs > 0
  BY RtpAssumption
<1>2. CASE x >= y
  <2>1. x - y \in 0 .. RtpSeqs - 1 /\ RtpSeqs * 0 + (x - y) = x - y
    BY <1>1, <1>2
  <2> QED
    BY <1>2, <2>1, RtpRemainder
<1>3. CASE ~(x >= y)
  <2>1. /\ x - y + RtpSeqs \in 0 .. RtpSeqs - 1 /\ 0 - 1 \in Int
        /\ RtpSeqs * (0 - 1) + (x - y + RtpSeqs) = x - y
    BY <1>1, <1>3
  <2> QED
    BY <1>3, <2>1, RtpRemainder
<1> QED
  BY <1>2, <1>3

(* Two numbers have one remainder when their difference has none. *)
LEMMA RtpSame ==
  ASSUME NEW x \in Int, NEW y \in Int
  PROVE  (x - y) % RtpSeqs = 0 <=> x % RtpSeqs = y % RtpSeqs
<1>1. RtpSeqs \in Nat /\ RtpSeqs > 0
  BY RtpAssumption
<1>2. PICK p \in Int, a \in 0 .. RtpSeqs - 1 :
        x % RtpSeqs = a /\ x = RtpSeqs * p + a
  BY RtpDiv
<1>3. PICK q \in Int, b \in 0 .. RtpSeqs - 1 :
        y % RtpSeqs = b /\ y = RtpSeqs * q + b
  BY RtpDiv
<1> DEFINE c == x - y
<1>4. c \in Int /\ c = x - y
  OBVIOUS
<1> HIDE DEF c
<1>5. PICK j \in Int, d \in 0 .. RtpSeqs - 1 :
        c % RtpSeqs = d /\ c = RtpSeqs * j + d
  BY <1>4, RtpDiv
<1>6. /\ x = RtpSeqs * p + a /\ y = RtpSeqs * q + b
      /\ x - y = RtpSeqs * j + d
  BY <1>2, <1>3, <1>4, <1>5
<1>7. ASSUME a = b PROVE d = 0
  <2>1. x - y = RtpSeqs * (p - q) + 0
    BY <1>1, <1>6, <1>7, RtpTimes
  <2>2. p - q \in Int /\ 0 \in 0 .. RtpSeqs - 1
    BY <1>1
  <2>3. (RtpSeqs * (p - q) + 0) % RtpSeqs = 0
    BY <2>2, RtpRemainder
  <2> QED
    BY <1>4, <1>5, <2>1, <2>3, Zenon
<1>8. ASSUME d = 0 PROVE a = b
  <2>1. x = RtpSeqs * (j + q) + b
    BY <1>1, <1>6, <1>8, RtpTimes
  <2>2. j + q \in Int
    OBVIOUS
  <2>3. (RtpSeqs * (j + q) + b) % RtpSeqs = b
    BY <2>2, RtpRemainder
  <2> QED
    BY <1>2, <2>1, <2>3, Zenon
<1>9. (x - y) % RtpSeqs = d /\ x % RtpSeqs = a /\ y % RtpSeqs = b
  BY <1>2, <1>3, <1>4, <1>5, Zenon
<1> QED
  BY <1>7, <1>8, <1>9, Zenon

(* The number after a remainder *)
LEMMA RtpAfter ==
  ASSUME NEW n \in Int
  PROVE  ((n % RtpSeqs) + 1) % RtpSeqs = (n + 1) % RtpSeqs
<1>1. RtpSeqs \in Nat /\ RtpSeqs > 0
  BY RtpAssumption
<1>2. PICK q \in Int, a \in 0 .. RtpSeqs - 1 :
        n % RtpSeqs = a /\ n = RtpSeqs * q + a
  BY RtpDiv
<1>3. (n + 1) - (a + 1) = RtpSeqs * q + 0
  <2>1. n = RtpSeqs * q + a /\ RtpSeqs * q \in Int
    BY <1>2, RtpTimes
  <2> QED
    BY <1>1, <2>1
<1>4. ((n + 1) - (a + 1)) % RtpSeqs = 0
  <2>1. 0 \in 0 .. RtpSeqs - 1
    BY <1>1
  <2>2. (RtpSeqs * q + 0) % RtpSeqs = 0
    BY <2>1, RtpRemainder
  <2> QED
    BY <1>3, <2>2, Zenon
<1>5. a + 1 \in Int /\ n + 1 \in Int
  BY <1>1
<1>6. (n + 1) % RtpSeqs = (a + 1) % RtpSeqs
  BY <1>4, <1>5, RtpSame
<1> QED
  BY <1>2, <1>6, Zenon
----------------------------------------------------------------------------
(* A source and what is known of its stream *)
RtpSource == [max_seq : 0 .. RtpSeqs - 1, cycles : Nat, base_seq : 0 .. RtpSeqs - 1,
           bad_seq : 0 .. RtpSeqs + 1, received : Nat, expected_prior : Nat,
           received_prior : Nat]
RtpStream == [first : Nat, hi : Nat, prev : Nat, jumped : BOOLEAN, got : Nat]

(* Since the last report, nothing was expected if nothing was received. *)
SinceReport(s) ==
  /\ s.received_prior <= s.received /\ s.expected_prior <= Expected(s)
  /\ s.received = s.received_prior => Expected(s) = s.expected_prior

(* The numbers of a source are those of its stream, of which it sees the   *)
(* remainders; a jump is remembered by the number that would confirm it.   *)
Follows(s, w) ==
  /\ s.max_seq = w.hi % RtpSeqs /\ s.base_seq = w.first % RtpSeqs
  /\ w.first <= w.hi /\ s.received = w.got
  /\ w.first % RtpSeqs # 0 => Expected(s) = w.hi - w.first + 1
  /\ s.bad_seq = IF w.jumped THEN (w.prev + 1) % RtpSeqs ELSE RtpSeqs + 1

(* What Seen makes of a stream that is known *)
SeenOf(w, n) ==
  IF n - w.hi >= MaxDropout
  THEN IF w.jumped /\ (w.prev + 1 - n) % RtpSeqs = 0 THEN Began(n)
       ELSE [w EXCEPT !.prev = n, !.jumped = TRUE]
  ELSE [w EXCEPT !.hi = IF n > @ THEN n ELSE @, !.got = @ + 1]

(* How far a number is ahead of the highest, as source_update_seq sees it *)
LEMMA Ahead ==
  ASSUME NEW n \in Int, NEW h \in Int,
         n - h < RtpSeqs - MaxMisorder + 1, h - n < MaxMisorder
  PROVE  \E a, b \in 0 .. RtpSeqs - 1 :
           /\ n % RtpSeqs = a /\ h % RtpSeqs = b
           /\ (a - b) % RtpSeqs = IF n >= h THEN n - h ELSE (n - h) + RtpSeqs
           /\ n >= h => n - h = IF a < b THEN a - b + RtpSeqs ELSE a - b
<1>1. /\ RtpSeqs \in Nat /\ RtpSeqs > 0 /\ MaxMisorder \in 1 .. RtpSeqs
  BY RtpAssumption
<1>2. n - h < RtpSeqs /\ h - n < RtpSeqs
  BY <1>1
<1>3. PICK a, b \in 0 .. RtpSeqs - 1 :
        /\ n % RtpSeqs = a /\ h % RtpSeqs = b
        /\ a - b \in {n - h, n - h - RtpSeqs, n - h + RtpSeqs}
  BY <1>2, RtpApart
<1>4. (a - b) % RtpSeqs = IF a >= b THEN a - b ELSE (a - b) + RtpSeqs
  BY RtpDelta
<1> DEFINE u == (a - b) % RtpSeqs
<1>5. u = IF a >= b THEN a - b ELSE (a - b) + RtpSeqs
  BY <1>4
<1>6. a - b \in {n - h, n - h - RtpSeqs, n - h + RtpSeqs}
  BY <1>3
<1> HIDE DEF u
<1>7. u = IF n >= h THEN n - h ELSE (n - h) + RtpSeqs
  BY <1>1, <1>2, <1>5, <1>6
<1>8. n >= h => n - h = IF a < b THEN a - b + RtpSeqs ELSE a - b
  BY <1>1, <1>2, <1>6
<1> QED
  BY <1>3, <1>7, <1>8, Zenon DEF u

(* The records with a field or more in another state *)
LEMMA SourceSet ==
  ASSUME NEW s \in RtpSource, NEW a \in 0 .. RtpSeqs - 1, NEW c \in Nat, NEW r \in Nat
  PROVE  [s EXCEPT !.max_seq = a, !.cycles = c, !.received = r] \in RtpSource
<1>1. [s EXCEPT !.max_seq = a] \in RtpSource
  BY DEF RtpSource
<1>2. \A x \in RtpSource : [x EXCEPT !.cycles = c] \in RtpSource
  BY DEF RtpSource
<1>3. \A x \in RtpSource : [x EXCEPT !.received = r] \in RtpSource
  BY DEF RtpSource
<1> QED
  BY <1>1, <1>2, <1>3, Zenon

LEMMA SourceBad ==
  ASSUME NEW s \in RtpSource, NEW e \in 0 .. RtpSeqs - 1
  PROVE  /\ [s EXCEPT !.bad_seq = e] \in RtpSource
         /\ [s EXCEPT !.base_seq = e, !.max_seq = e] \in RtpSource
<1>1. e \in 0 .. RtpSeqs + 1
  BY RtpAssumption
<1>2. [s EXCEPT !.bad_seq = e] \in RtpSource
  BY <1>1 DEF RtpSource
<1>3. [s EXCEPT !.base_seq = e] \in RtpSource
  BY DEF RtpSource
<1>4. \A x \in RtpSource : [x EXCEPT !.max_seq = e] \in RtpSource
  BY DEF RtpSource
<1> QED
  BY <1>2, <1>3, <1>4, Zenon

LEMMA StreamSet ==
  ASSUME NEW w \in RtpStream, NEW h \in Nat, NEW g \in Nat,
         NEW y, y = [w EXCEPT !.hi = h, !.got = g]
  PROVE  /\ y \in RtpStream /\ y.hi = h /\ y.got = g /\ y.first = w.first
         /\ y.prev = w.prev /\ y.jumped = w.jumped
BY DEF RtpStream

(* A packet in order, or ahead by less than a permissible gap *)
LEMMA FollowsOn ==
  ASSUME NEW s \in RtpSource, NEW w \in RtpStream, SinceReport(s), Follows(s, w),
         NEW a \in 0 .. RtpSeqs - 1, NEW n \in Nat, n % RtpSeqs = a, n >= w.hi,
         n - w.hi = IF a < s.max_seq THEN a - s.max_seq + RtpSeqs ELSE a - s.max_seq,
         NEW v, v = Received([s EXCEPT !.max_seq = a,
                      !.cycles = IF a < s.max_seq THEN @ + RtpSeqs ELSE @]),
         NEW y, y = [w EXCEPT !.hi = n, !.got = @ + 1]
  PROVE  v \in RtpSource /\ y \in RtpStream /\ SinceReport(v) /\ Follows(v, y)
<1>1. RtpSeqs \in Nat /\ RtpSeqs > 0
  BY RtpAssumption
<1>2. /\ s.max_seq \in 0 .. RtpSeqs - 1 /\ s.cycles \in Nat
      /\ s.base_seq \in 0 .. RtpSeqs - 1 /\ s.received \in Nat
      /\ s.expected_prior \in Nat /\ s.received_prior \in Nat
      /\ w.hi \in Nat /\ w.first \in Nat /\ w.got \in Nat
  BY DEF RtpSource, RtpStream
<1>3. /\ v.max_seq = a /\ v.base_seq = s.base_seq /\ v.bad_seq = s.bad_seq
      /\ v.cycles = (IF a < s.max_seq THEN s.cycles + RtpSeqs ELSE s.cycles)
      /\ v.received = s.received + 1
      /\ v.expected_prior = s.expected_prior /\ v.received_prior = s.received_prior
  BY DEF Received, RtpSource
<1>4. v.cycles \in Nat
  BY <1>1, <1>2, <1>3
<1>5. v \in RtpSource
  <2> DEFINE c == IF a < s.max_seq THEN s.cycles + RtpSeqs ELSE s.cycles
             g == s.received + 1
  <2>1. c \in Nat
    BY <1>3, <1>4
  <2>2. v = [s EXCEPT !.max_seq = a, !.cycles = c, !.received = g]
    BY <1>2 DEF Received, RtpSource
  <2>3. g \in Nat
    BY <1>2
  <2> HIDE DEF c, g
  <2>4. [s EXCEPT !.max_seq = a, !.cycles = c, !.received = g] \in RtpSource
    BY <2>1, <2>3, SourceSet
  <2> QED
    BY <2>2, <2>4, Zenon
<1>6. /\ y \in RtpStream /\ y.hi = n /\ y.first = w.first /\ y.prev = w.prev
      /\ y.jumped = w.jumped /\ y.got = w.got + 1
  <2> DEFINE g == w.got + 1
  <2>1. n \in Nat /\ g \in Nat
    BY <1>2
  <2>2. y = [w EXCEPT !.hi = n, !.got = g]
    OBVIOUS
  <2>3. g = w.got + 1
    OBVIOUS
  <2> HIDE DEF g
  <2>4. /\ y \in RtpStream /\ y.hi = n /\ y.got = g /\ y.first = w.first
        /\ y.prev = w.prev /\ y.jumped = w.jumped
    BY <2>1, <2>2 DEF RtpStream
  <2> QED
    BY <2>3, <2>4, Zenon
<1>7. Expected(v) = Expected(s) + (n - w.hi) /\ Expected(s) \in Int
  BY <1>1, <1>2, <1>3 DEF Expected
<1>8. SinceReport(v)
  BY <1>2, <1>3, <1>7 DEF SinceReport
<1>9. Follows(v, y)
  <2>1. v.received = y.got /\ y.first <= y.hi
    BY <1>2, <1>3, <1>6 DEF Follows
  <2>2. w.first % RtpSeqs # 0 => Expected(v) = y.hi - y.first + 1
    BY <1>2, <1>6, <1>7 DEF Follows
  <2> QED
    BY <1>3, <1>6, <2>1, <2>2 DEF Follows
<1> QED
  BY <1>5, <1>6, <1>8, <1>9

(* A new beginning: the first packet of a source, or one that confirms a   *)
(* jump                                                                    *)
LEMMA FollowsNew ==
  ASSUME NEW n \in Nat, NEW a \in 0 .. RtpSeqs - 1, n % RtpSeqs = a
  PROVE  LET v == Received(source_init_seq(a))
         IN  /\ v \in RtpSource /\ Began(n) \in RtpStream
             /\ SinceReport(v) /\ Follows(v, Began(n))
<1>1. RtpSeqs \in Nat /\ RtpSeqs > 0
  BY RtpAssumption
<1> DEFINE v == Received(source_init_seq(a))
           y == Began(n)
<1>2. /\ v.max_seq = a /\ v.base_seq = a /\ v.bad_seq = RtpSeqs + 1
      /\ v.cycles = 0 /\ v.received = 1
      /\ v.expected_prior = 0 /\ v.received_prior = 0
  BY DEF Received, source_init_seq, NoSource
<1>3. v \in RtpSource
  <2>1. NoSource \in RtpSource
    <3>1. 0 \in 0 .. RtpSeqs - 1 /\ RtpSeqs + 1 \in 0 .. RtpSeqs + 1
      BY <1>1
    <3> QED
      BY <3>1 DEF NoSource, RtpSource
  <2>2. source_init_seq(a) \in RtpSource
    BY <2>1, SourceBad DEF source_init_seq
  <2>3. \A x \in RtpSource : Received(x) \in RtpSource
    BY DEF Received, RtpSource
  <2> QED
    BY <2>2, <2>3
<1>4. /\ y.first = n /\ y.hi = n /\ y.prev = n /\ y.jumped = FALSE
      /\ y.got = 1 /\ y \in RtpStream
  BY DEF Began, RtpStream
<1>5. Expected(v) = 1
  BY <1>1, <1>2 DEF Expected
<1> HIDE DEF v, y
<1>6. SinceReport(v)
  BY <1>2, <1>5 DEF SinceReport
<1>7. n - n + 1 = 1
  OBVIOUS
<1>8. Follows(v, y)
  BY <1>2, <1>4, <1>5, <1>7 DEF Follows
<1> QED
  BY <1>3, <1>4, <1>6, <1>8 DEF v, y

(* source_update_seq follows the stream. *)
LEMMA UpdateFollows ==
  ASSUME NEW s \in RtpSource, NEW w \in RtpStream, SinceReport(s), Follows(s, w),
         NEW n \in Nat, w.hi - n < MaxMisorder,
         n - w.hi < RtpSeqs - MaxMisorder + 1
  PROVE  LET v == source_update_seq(s, n % RtpSeqs)
         IN  /\ v \in RtpSource /\ SeenOf(w, n) \in RtpStream
             /\ SinceReport(v) /\ Follows(v, SeenOf(w, n))
<1>1. /\ RtpSeqs \in Nat /\ MaxDropout \in 2 .. RtpSeqs
      /\ MaxMisorder \in 1 .. RtpSeqs /\ MaxDropout + MaxMisorder < RtpSeqs
  BY RtpAssumption
<1>2. /\ s.max_seq \in 0 .. RtpSeqs - 1 /\ w.hi \in Nat /\ w.prev \in Nat
      /\ s.received \in Nat /\ w.got \in Nat /\ w.jumped \in BOOLEAN
  BY DEF RtpSource, RtpStream
<1>3. PICK a, b \in 0 .. RtpSeqs - 1 :
        /\ n % RtpSeqs = a /\ w.hi % RtpSeqs = b
        /\ (a - b) % RtpSeqs = IF n >= w.hi THEN n - w.hi ELSE (n - w.hi) + RtpSeqs
        /\ n >= w.hi => n - w.hi = IF a < b THEN a - b + RtpSeqs ELSE a - b
  BY <1>2, Ahead
<1>4. s.max_seq = b
  BY <1>3 DEF Follows
<1> DEFINE u == (a - s.max_seq) % RtpSeqs
           v == source_update_seq(s, a)
           y == SeenOf(w, n)
<1>5. u = IF n >= w.hi THEN n - w.hi ELSE (n - w.hi) + RtpSeqs
  BY <1>3, <1>4
<1>6. v = IF u < MaxDropout
          THEN Received([s EXCEPT !.max_seq = a,
                 !.cycles = IF a < s.max_seq THEN @ + RtpSeqs ELSE @])
          ELSE IF u <= RtpSeqs - MaxMisorder
          THEN IF a = s.bad_seq THEN Received(source_init_seq(a))
               ELSE [s EXCEPT !.bad_seq = (a + 1) % RtpSeqs]
          ELSE Received(s)
  BY Zenon DEF source_update_seq, InOrder
<1> HIDE DEF u, v
<1>7. v \in RtpSource /\ y \in RtpStream /\ SinceReport(v) /\ Follows(v, y)
  <2>1. CASE n >= w.hi /\ n - w.hi < MaxDropout
    <3>1. /\ v = Received([s EXCEPT !.max_seq = a,
                    !.cycles = IF a < s.max_seq THEN @ + RtpSeqs ELSE @])
          /\ y = [w EXCEPT !.hi = n, !.got = @ + 1]
      <4> DEFINE h == IF n > w.hi THEN n ELSE w.hi
      <4>1. y = [w EXCEPT !.hi = h, !.got = @ + 1]
        BY <1>1, <1>2, <2>1 DEF SeenOf
      <4>2. h = n
        BY <1>2, <2>1
      <4> HIDE DEF h
      <4>3. y = [w EXCEPT !.hi = n, !.got = @ + 1]
        BY <4>1, <4>2, Zenon
      <4>4. u < MaxDropout
        BY <1>1, <1>2, <1>5, <2>1
      <4> QED
        BY <1>6, <4>3, <4>4
    <3>2. /\ n % RtpSeqs = a
          /\ n - w.hi = IF a < s.max_seq THEN a - s.max_seq + RtpSeqs ELSE a - s.max_seq
      BY <1>3, <1>4, <2>1
    <3> HIDE DEF y
    <3> QED
      BY <2>1, <3>1, <3>2, FollowsOn
  <2>2. CASE n - w.hi >= MaxDropout
    <3>1. n >= w.hi /\ ~(u < MaxDropout) /\ u <= RtpSeqs - MaxMisorder
      BY <1>1, <1>2, <1>5, <2>2
    <3>2. a = s.bad_seq <=> w.jumped /\ (w.prev + 1 - n) % RtpSeqs = 0
      <4>1. w.prev + 1 \in Int
        BY <1>2
      <4>2. (w.prev + 1 - n) % RtpSeqs = 0 <=> (w.prev + 1) % RtpSeqs = a
        <5>1. n \in Int /\ n % RtpSeqs = a
          BY <1>3
        <5>2. \A x \in Int : (x - n) % RtpSeqs = 0 <=> x % RtpSeqs = n % RtpSeqs
          BY <5>1, RtpSame
        <5>3. \A x \in Int : (x - n) % RtpSeqs = 0 <=> x % RtpSeqs = a
          BY <5>1, <5>2, Zenon
        <5>4. w.prev + 1 - n = (w.prev + 1) - n
          BY <1>2
        <5>5. ((w.prev + 1) - n) % RtpSeqs = 0 <=> (w.prev + 1) % RtpSeqs = a
          BY <4>1, <5>3, Zenon
        <5> QED
          BY <5>4, <5>5, Zenon
      <4>3. CASE w.jumped
        BY <4>2, <4>3 DEF Follows
      <4>4. CASE ~w.jumped
        <5>1. s.bad_seq = RtpSeqs + 1
          BY <4>4 DEF Follows
        <5> QED
          BY <1>1, <4>4, <5>1
      <4> QED
        BY <4>3, <4>4
    <3>3. CASE a = s.bad_seq
      <4>1. v = Received(source_init_seq(a)) /\ y = Began(n)
        BY <1>6, <2>2, <3>1, <3>2, <3>3 DEF SeenOf
      <4>2. n % RtpSeqs = a
        BY <1>3
      <4> HIDE DEF y
      <4> QED
        BY <4>1, <4>2, FollowsNew
    <3>4. CASE a # s.bad_seq
      <4>1. /\ v = [s EXCEPT !.bad_seq = (a + 1) % RtpSeqs]
            /\ y = [w EXCEPT !.prev = n, !.jumped = TRUE]
        BY <1>6, <2>2, <3>1, <3>2, <3>4 DEF SeenOf
      <4> HIDE DEF y
      <4>2. (a + 1) % RtpSeqs = (n + 1) % RtpSeqs
        BY <1>3, RtpAfter
      <4>3. PICK e \in 0 .. RtpSeqs - 1 : (a + 1) % RtpSeqs = e
        <5>1. a + 1 \in Int
          BY <1>1
        <5> QED
          BY <5>1, RtpDiv
      <4>4. v = [s EXCEPT !.bad_seq = e] /\ e = (n + 1) % RtpSeqs
        BY <4>1, <4>2, <4>3, Zenon
      <4>5. v \in RtpSource /\ y \in RtpStream
        <5>1. v \in RtpSource
          BY <4>4, SourceBad
        <5>2. y \in RtpStream
          BY <4>1 DEF RtpStream
        <5> QED
          BY <5>1, <5>2
      <4>6. /\ v.max_seq = s.max_seq /\ v.base_seq = s.base_seq
            /\ v.cycles = s.cycles /\ v.received = s.received
            /\ v.expected_prior = s.expected_prior
            /\ v.received_prior = s.received_prior /\ v.bad_seq = e
            /\ y.first = w.first /\ y.hi = w.hi /\ y.got = w.got
            /\ y.prev = n /\ y.jumped
        BY <4>1, <4>4 DEF RtpSource, RtpStream
      <4>7. Expected(v) = Expected(s)
        BY <4>6, Zenon DEF Expected
      <4>8. SinceReport(v)
        BY <4>6, <4>7 DEF SinceReport
      <4>9. Follows(v, y)
        BY <4>4, <4>6, <4>7, Zenon DEF Follows
      <4> QED
        BY <4>5, <4>8, <4>9
    <3> QED
      BY <3>3, <3>4
  <2>3. CASE n < w.hi
    <3>1. v = Received(s) /\ y = [w EXCEPT !.got = @ + 1]
      <4>1. ~(u < MaxDropout) /\ ~(u <= RtpSeqs - MaxMisorder)
        BY <1>1, <1>2, <1>5, <2>3
      <4>2. ~(n - w.hi >= MaxDropout) /\ ~(n > w.hi)
        BY <1>1, <1>2, <2>3
      <4>3. y = [w EXCEPT !.hi = w.hi, !.got = @ + 1]
        BY <4>2 DEF SeenOf
      <4>4. [w EXCEPT !.hi = w.hi, !.got = @ + 1] = [w EXCEPT !.got = @ + 1]
        BY DEF RtpStream
      <4> QED
        BY <1>6, <4>1, <4>3, <4>4
    <3> HIDE DEF y
    <3>2. v \in RtpSource /\ y \in RtpStream
      BY <1>2, <3>1 DEF RtpSource, RtpStream, Received
    <3>3. /\ v.max_seq = s.max_seq /\ v.base_seq = s.base_seq
          /\ v.cycles = s.cycles /\ v.received = s.received + 1
          /\ v.expected_prior = s.expected_prior
          /\ v.received_prior = s.received_prior /\ v.bad_seq = s.bad_seq
          /\ y.first = w.first /\ y.hi = w.hi /\ y.got = w.got + 1
          /\ y.prev = w.prev /\ y.jumped = w.jumped
      BY <3>1 DEF RtpSource, RtpStream, Received
    <3>4. Expected(v) = Expected(s)
      BY <3>3, Zenon DEF Expected
    <3>5. s.received_prior \in Nat /\ s.received \in Nat
      BY DEF RtpSource
    <3>6. SinceReport(v)
      BY <3>3, <3>4, <3>5 DEF SinceReport
    <3>7. Follows(v, y)
      BY <3>3, <3>4 DEF Follows
    <3> QED
      BY <3>2, <3>6, <3>7
  <2> QED
    BY <1>1, <1>2, <2>1, <2>2, <2>3
<1> QED
  BY <1>3, <1>7, Zenon DEF v

(* The first packet of a source: max_seq is the number before it. *)
LEMMA FirstFollows ==
  ASSUME NEW n \in 0 .. RtpSeqs - 1
  PROVE  LET v == source_update_seq(FirstOf(n), n)
         IN  /\ v \in RtpSource /\ Began(n) \in RtpStream
             /\ SinceReport(v) /\ Follows(v, Began(n))
<1>1. /\ RtpSeqs \in Nat /\ MaxDropout \in 2 .. RtpSeqs
      /\ MaxMisorder \in 1 .. RtpSeqs /\ MaxDropout + MaxMisorder < RtpSeqs
  BY RtpAssumption
<1>2. 1 \in 0 .. RtpSeqs - 1 /\ n \in Nat
  BY <1>1
<1> DEFINE d == IF n >= 1 THEN n - 1 ELSE (n - 1) + RtpSeqs
           c == IF n < d THEN RtpSeqs ELSE 0
           s == FirstOf(n)
           v == source_update_seq(s, n)
           y == Began(n)
<1>3. (n - 1) % RtpSeqs = d
  BY <1>2, RtpDelta
<1>4. d \in 0 .. RtpSeqs - 1 /\ c \in Nat /\ (n # 0 => c = 0)
  BY <1>1, <1>2
<1>5. (n - d) % RtpSeqs = 1
  <2>1. (n - d) % RtpSeqs = IF n >= d THEN n - d ELSE (n - d) + RtpSeqs
    BY <1>4, RtpDelta
  <2>2. (IF n >= d THEN n - d ELSE (n - d) + RtpSeqs) = 1
    BY <1>1, <1>2
  <2> QED
    BY <2>1, <2>2, Zenon
<1> HIDE DEF d
<1>6. n % RtpSeqs = n
  <2>1. RtpSeqs * 0 + n = n /\ 0 \in Int
    BY <1>1, <1>2
  <2> QED
    BY <2>1, RtpRemainder
<1>7. NoSource \in RtpSource
  <2>1. 0 \in 0 .. RtpSeqs - 1 /\ RtpSeqs + 1 \in 0 .. RtpSeqs + 1
    BY <1>1
  <2> QED
    BY <2>1 DEF NoSource, RtpSource
<1>8. s = [source_init_seq(n) EXCEPT !.max_seq = d]
  BY <1>3, Zenon DEF FirstOf
<1>9. source_init_seq(n) \in RtpSource
  BY <1>7, SourceBad DEF source_init_seq
<1>10. /\ s \in RtpSource /\ s.max_seq = d /\ s.base_seq = n /\ s.cycles = 0
       /\ s.received = 0 /\ s.expected_prior = 0 /\ s.received_prior = 0
       /\ s.bad_seq = RtpSeqs + 1
  <2>1. s \in RtpSource
    BY <1>4, <1>8, <1>9 DEF RtpSource
  <2> QED
    BY <1>8, <2>1 DEF source_init_seq, NoSource
<1> HIDE DEF s, c
<1>11. v = Received([s EXCEPT !.max_seq = n, !.cycles = c])
  <2>1. InOrder(s, 1)
    BY <1>1 DEF InOrder
  <2>2. (n - s.max_seq) % RtpSeqs = 1
    BY <1>5, <1>10, Zenon
  <2>3. v = Received([s EXCEPT !.max_seq = n,
              !.cycles = IF n < s.max_seq THEN @ + RtpSeqs ELSE @])
    BY <2>1, <2>2, Zenon DEF source_update_seq
  <2>4. (IF n < s.max_seq THEN s.cycles + RtpSeqs ELSE s.cycles) = c
    BY <1>1, <1>10 DEF c
  <2> QED
    BY <2>3, <2>4, Zenon
<1> HIDE DEF v
<1>12. v \in RtpSource
  <2>1. [s EXCEPT !.max_seq = n] \in RtpSource
    BY <1>10 DEF RtpSource
  <2>2. \A x \in RtpSource : [x EXCEPT !.cycles = c] \in RtpSource
    BY <1>4 DEF RtpSource
  <2>3. \A x \in RtpSource : Received(x) \in RtpSource
    BY DEF RtpSource, Received
  <2>4. [[s EXCEPT !.max_seq = n] EXCEPT !.cycles = c] \in RtpSource
    BY <2>1, <2>2, Zenon
  <2> QED
    BY <1>11, <2>3, <2>4, Zenon
<1>13. /\ v.max_seq = n /\ v.base_seq = n /\ v.cycles = c /\ v.received = 1
       /\ v.expected_prior = 0 /\ v.received_prior = 0 /\ v.bad_seq = RtpSeqs + 1
  <2>1. 0 + 1 = 1
    OBVIOUS
  <2> QED
    BY <1>10, <1>11, <2>1 DEF RtpSource, Received
<1>14. Expected(v) = c + 1
  BY <1>1, <1>2, <1>4, <1>13 DEF Expected
<1>15. /\ y \in RtpStream /\ y.first = n /\ y.hi = n /\ y.got = 1
       /\ y.jumped = FALSE
  BY <1>2 DEF Began, RtpStream
<1> HIDE DEF y
<1>16. SinceReport(v)
  BY <1>4, <1>13, <1>14 DEF SinceReport
<1>17. n - n + 1 = 1 /\ (n # 0 => c + 1 = 1)
  BY <1>1, <1>4
<1>18. Follows(v, y)
  <2>1. y.hi % RtpSeqs = n /\ y.first % RtpSeqs = n
    BY <1>6, <1>15, Zenon
  <2>2. y.first # 0 => Expected(v) = y.hi - y.first + 1
    BY <1>2, <1>14, <1>15, <1>17
  <2>3. y.first % RtpSeqs # 0 => y.first # 0
    BY <1>15, <2>1
  <2>4. v.max_seq = y.hi % RtpSeqs /\ v.base_seq = y.first % RtpSeqs
    BY <1>13, <2>1
  <2>5. y.first <= y.hi /\ v.received = y.got
    BY <1>2, <1>13, <1>15
  <2>6. v.bad_seq = IF y.jumped THEN (y.prev + 1) % RtpSeqs ELSE RtpSeqs + 1
    BY <1>13, <1>15
  <2> QED
    BY <2>2, <2>3, <2>4, <2>5, <2>6, Zenon DEF Follows
<1> QED
  BY <1>12, <1>15, <1>16, <1>18 DEF v, y, s

(* What was lost since the last report is less than what was expected. *)
LEMMA FractionFits ==
  ASSUME NEW s \in RtpSource, SinceReport(s)
  PROVE  ~(Fraction(s) > 255)
<1> DEFINE e == Expected(s) - s.expected_prior
           l == e - (s.received - s.received_prior)
<1>1. /\ s.expected_prior \in Nat /\ s.received \in Nat /\ s.received_prior \in Nat
      /\ Expected(s) \in Int
  BY RtpAssumption DEF RtpSource, Expected
<1>2. e \in Nat /\ l \in Int /\ (e # 0 => l < e)
  BY <1>1 DEF SinceReport
<1>3. Fraction(s) = IF e = 0 \/ l <= 0 THEN 0 ELSE (256 * l) \div e
  BY Zenon DEF Fraction
<1> HIDE DEF e, l
<1>4. CASE e = 0 \/ l <= 0
  BY <1>3, <1>4
<1>5. CASE ~(e = 0 \/ l <= 0)
  <2> DEFINE q == (256 * l) \div e
  <2>1. q \in Int /\ e > 0 /\ e \in Int
    BY <1>2, <1>5
  <2>2. (256 * l) % e = 256 * l - e * q
    BY <1>2, <2>1, Z3
  <2>3. (256 * l) % e >= 0
    BY <1>2, <2>1
  <2> DEFINE r == (256 * l) % e
  <2>4. PICK x \in Int : x = r
    BY <1>2, <2>1
  <2> HIDE DEF q, r
  <2>5. e * q <= 256 * l
    BY <1>2, <2>1, <2>2, <2>3
  <2>6. ~(q > 255)
    <3> SUFFICES ASSUME q >= 256 PROVE FALSE
      BY <2>1
    <3>1. e * q >= e * 256
      BY <1>2, <2>1
    <3> QED
      BY <1>2, <2>1, <2>5, <3>1
  <2> QED
    BY <1>3, <1>5, <2>6 DEF q
<1> QED
  BY <1>4, <1>5

(* A report is taken of a source. *)
LEMMA ReportedFits ==
  ASSUME NEW s \in RtpSource, NEW w \in RtpStream, SinceReport(s), Follows(s, w)
  PROVE  Reported(s) \in RtpSource /\ SinceReport(Reported(s)) /\ Follows(Reported(s), w)
<1> DEFINE v == Reported(s)
<1>1. /\ s.expected_prior \in Nat /\ s.received \in Nat /\ s.received_prior \in Nat
      /\ Expected(s) \in Int
  BY RtpAssumption DEF RtpSource, Expected
<1>2. Expected(s) \in Nat
  BY <1>1 DEF SinceReport
<1>3. v \in RtpSource
  BY <1>1, <1>2 DEF Reported, RtpSource
<1>4. /\ v.max_seq = s.max_seq /\ v.cycles = s.cycles /\ v.base_seq = s.base_seq
      /\ v.bad_seq = s.bad_seq /\ v.received = s.received
      /\ v.expected_prior = Expected(s) /\ v.received_prior = s.received
  BY DEF Reported, RtpSource
<1> HIDE DEF v
<1>5. Expected(v) = Expected(s)
  BY <1>4, Zenon DEF Expected
<1>6. SinceReport(v)
  BY <1>1, <1>4, <1>5 DEF SinceReport
<1>7. Follows(v, w)
  BY <1>4, <1>5, Zenon DEF Follows
<1> QED
  BY <1>3, <1>6, <1>7 DEF v

----------------------------------------------------------------------------
(* The members that are counted, and those of them that send *)
Members == {x \in Ssrc : mbr[x].st}
Senders == {x \in Ssrc : mbr[x].s}

RtpMember == [st : BOOLEAN, s : BOOLEAN, src : RtpSource]

(* The inductive invariant of an RTP session *)
RtpInv ==
  /\ mbr \in [Ssrc -> RtpMember] /\ sent \in [Ssrc -> RtpStream]
  /\ rtcp \in [memberc : 0 .. MaxMembers, senderc : 0 .. MaxMembers,
               tmr : BOOLEAN, cname : BOOLEAN, open : BOOLEAN]
  /\ IsFiniteSet(Members)
  /\ rtcp.memberc = Cardinality(Members) /\ rtcp.senderc = Cardinality(Senders)
  /\ report.count = report.blocks /\ report.fraction < 256
  /\ \A x \in Ssrc : mbr[x].s => /\ mbr[x].st /\ SinceReport(mbr[x].src)
                                 /\ Follows(mbr[x].src, sent[x])

LEMMA RtpInvImplies == RtpInv => RtpSound
<1> SUFFICES ASSUME RtpInv PROVE RtpSound
  OBVIOUS
<1>1. ReportSound
  <2>1. RtpTypeOK
    BY DEF RtpInv, RtpTypeOK, RtpMember, RtpSource
  <2>2. /\ rtcp.memberc = Cardinality({x \in Ssrc : mbr[x].st})
        /\ rtcp.senderc = Cardinality({x \in Ssrc : mbr[x].s})
    BY Zenon DEF RtpInv, Members, Senders
  <2>3. \A x \in Ssrc : mbr[x].s => mbr[x].st
    BY DEF RtpInv
  <2>4. report.count = report.blocks /\ report.fraction < 256
    BY DEF RtpInv
  <2> QED
    BY <2>1, <2>2, <2>3, <2>4 DEF ReportSound
<1>2. LossExact
  <2> SUFFICES ASSUME NEW x \in Ssrc, sent[x].first % RtpSeqs # 0, mbr[x].s
               PROVE  Exact(x)
    BY DEF LossExact, Exact
  <2>1. Follows(mbr[x].src, sent[x])
    BY DEF RtpInv
  <2>2. /\ Expected(mbr[x].src) = sent[x].hi - sent[x].first + 1
        /\ mbr[x].src.max_seq = sent[x].hi % RtpSeqs
        /\ mbr[x].src.received = sent[x].got
    BY <2>1, Zenon DEF Follows
  <2>3. source_calc_lost(mbr[x].src) = sent[x].hi - sent[x].first + 1 - sent[x].got
    <3> DEFINE e == Expected(mbr[x].src)
    <3>1. /\ sent[x].hi \in Int /\ sent[x].first \in Int /\ sent[x].got \in Int
      BY DEF RtpInv, RtpStream
    <3>2. source_calc_lost(mbr[x].src) = e - sent[x].got
      BY <2>2, Zenon DEF source_calc_lost
    <3>3. e = sent[x].hi - sent[x].first + 1
      BY <2>2, Zenon
    <3> HIDE DEF e
    <3> QED
      BY <3>1, <3>2, <3>3
  <2> QED
    BY <2>2, <2>3, Zenon DEF Exact
<1> QED
  BY <1>1, <1>2 DEF RtpSound

LEMMA RtpInitially == RtpInit => RtpInv
<1> SUFFICES ASSUME RtpInit PROVE RtpInv
  OBVIOUS
<1>1. NoSource \in RtpSource
  <2>1. 0 \in 0 .. RtpSeqs - 1 /\ RtpSeqs + 1 \in 0 .. RtpSeqs + 1
    BY RtpAssumption
  <2> QED
    BY <2>1 DEF NoSource, RtpSource
<1>2. mbr \in [Ssrc -> RtpMember] /\ sent \in [Ssrc -> RtpStream]
  BY <1>1 DEF RtpInit, NoMember, NoStream, RtpMember, RtpStream
<1>3. Members = {} /\ Senders = {}
  BY DEF RtpInit, NoMember, Members, Senders
<1>4. IsFiniteSet(Members) /\ Cardinality(Members) = 0 /\ Cardinality(Senders) = 0
  BY <1>3, FS_EmptySet
<1>5. \A x \in Ssrc : ~mbr[x].s
  BY DEF RtpInit, NoMember
<1>6. /\ rtcp \in [memberc : 0 .. MaxMembers, senderc : 0 .. MaxMembers,
                   tmr : BOOLEAN, cname : BOOLEAN, open : BOOLEAN]
      /\ rtcp.memberc = 0 /\ rtcp.senderc = 0
  BY RtpAssumption DEF RtpInit
<1>7. report.count = report.blocks /\ report.fraction < 256
  BY DEF RtpInit
<1> QED
  BY <1>2, <1>4, <1>5, <1>6, <1>7 DEF RtpInv

(* A source is found, or becomes a member, and perhaps a sender. *)
LEMMA RtpJoins ==
  ASSUME RtpInv, NEW x \in Ssrc, NEW m \in RtpMember, m.st, mbr[x].s => m.s, Found(x),
         mbr' = [mbr EXCEPT ![x] = m],
         rtcp' = [rtcp EXCEPT !.memberc = Counted(x),
                    !.senderc = IF m.s /\ ~mbr[x].s THEN @ + 1 ELSE @],
         sent' \in [Ssrc -> RtpStream], \A y \in Ssrc \ {x} : sent'[y] = sent[y],
         m.s => SinceReport(m.src) /\ Follows(m.src, sent'[x]),
         UNCHANGED report
  PROVE  RtpInv'
<1>1. mbr' \in [Ssrc -> RtpMember] /\ mbr'[x] = m
  BY DEF RtpInv
<1>2. \A y \in Ssrc \ {x} : mbr'[y] = mbr[y]
  BY DEF RtpInv
<1>3. Members' = Members \cup {x}
  BY <1>1, <1>2 DEF Members
<1>4. Senders' = IF m.s THEN Senders \cup {x} ELSE Senders
  BY <1>1, <1>2 DEF Senders
<1>5. Senders \subseteq Members /\ Senders' \subseteq Members'
  BY <1>1, <1>2, <1>3, <1>4 DEF RtpInv, Senders, Members
<1>6. /\ IsFiniteSet(Members) /\ IsFiniteSet(Senders)
      /\ rtcp.memberc = Cardinality(Members) /\ rtcp.senderc = Cardinality(Senders)
      /\ rtcp.memberc \in 0 .. MaxMembers /\ MaxMembers \in Nat
  BY <1>5, FS_Subset, RtpAssumption DEF RtpInv
<1>7. IsFiniteSet(Members') /\ IsFiniteSet(Senders')
  BY <1>3, <1>5, <1>6, FS_AddElement, FS_Subset
<1>8. Cardinality(Members') = Counted(x) /\ Counted(x) \in 0 .. MaxMembers
  <2>1. CASE mbr[x].st
    <3>1. Members' = Members
      BY <1>3, <2>1 DEF Members
    <3> QED
      BY <1>6, <2>1, <3>1 DEF Counted
  <2>2. CASE ~mbr[x].st
    <3>1. x \notin Members
      BY <2>2 DEF Members
    <3>2. Cardinality(Members') = Cardinality(Members) + 1
      BY <1>3, <1>6, <3>1, FS_AddElement
    <3>3. rtcp.memberc < MaxMembers
      BY <2>2 DEF Found
    <3> QED
      BY <1>6, <2>2, <3>2, <3>3 DEF Counted
  <2> QED
    BY <2>1, <2>2
<1> DEFINE c == IF m.s /\ ~mbr[x].s THEN rtcp.senderc + 1 ELSE rtcp.senderc
<1>9. Cardinality(Senders') = c /\ c \in 0 .. MaxMembers
  <2>1. Cardinality(Senders') \in Nat /\ Cardinality(Senders') <= Cardinality(Members')
    BY <1>5, <1>7, FS_Subset, FS_CardinalityType
  <2>2. Cardinality(Senders') = c
    <3>1. CASE m.s /\ ~mbr[x].s
      <4>1. x \notin Senders
        BY <3>1 DEF Senders
      <4>2. Cardinality(Senders \cup {x}) = Cardinality(Senders) + 1
        BY <1>6, <4>1, FS_AddElement
      <4>3. Senders' = Senders \cup {x}
        BY <1>4, <3>1, Zenon
      <4>4. c = Cardinality(Senders) + 1
        BY <1>6, <3>1
      <4> HIDE DEF c
      <4> QED
        BY <4>2, <4>3, <4>4, Zenon
    <3>2. CASE ~(m.s /\ ~mbr[x].s)
      <4>1. Senders' = Senders
        BY <1>4, <3>2 DEF Senders
      <4> QED
        BY <1>6, <3>2, <4>1
    <3> QED
      BY <3>1, <3>2
  <2> HIDE DEF c
  <2> QED
    BY <1>6, <1>8, <2>1, <2>2
<1>10. /\ rtcp' \in [memberc : 0 .. MaxMembers, senderc : 0 .. MaxMembers,
                    tmr : BOOLEAN, cname : BOOLEAN, open : BOOLEAN]
       /\ rtcp'.memberc = Counted(x) /\ rtcp'.senderc = c
  <2>1. rtcp' = [rtcp EXCEPT !.memberc = Counted(x), !.senderc = c]
    OBVIOUS
  <2> HIDE DEF c
  <2> QED
    BY <1>8, <1>9, <2>1 DEF RtpInv
<1> HIDE DEF c
<1>11. \A y \in Ssrc : mbr'[y].s => /\ mbr'[y].st /\ SinceReport(mbr'[y].src)
                                    /\ Follows(mbr'[y].src, sent'[y])
  BY <1>1, <1>2 DEF RtpInv
<1>12. report'.count = report'.blocks /\ report'.fraction < 256
  BY DEF RtpInv
<1> QED
  BY <1>1, <1>7, <1>8, <1>9, <1>10, <1>11, <1>12 DEF RtpInv

(* udp_recv_handler *)
LEMMA RtpArrives ==
  ASSUME RtpInv, NEW x \in Ssrc, NEW n \in Nat, Rtp(x, n)
  PROVE  RtpInv'
<1>1. /\ RtpSeqs \in Nat /\ RtpSeqs > 0 /\ MaxMisorder \in 1 .. RtpSeqs
      /\ FirstRtp \subseteq 0 .. RtpSeqs - 1
  BY RtpAssumption
<1>2. CASE ~Found(x)
  <2>1. Seen(x, n) = sent[x]
    BY <1>2 DEF Seen
  <2>2. sent' = sent
    BY <2>1 DEF Rtp, RtpInv
  <2>3. UNCHANGED <<mbr, rtcp, report>>
    BY <1>2 DEF Rtp, RtpReceive
  <2> QED
    BY <2>2, <2>3 DEF RtpInv, Members, Senders
<1>3. CASE Found(x)
  <2> DEFINE v == source_update_seq(IF mbr[x].s THEN mbr[x].src
                                    ELSE FirstOf(n % RtpSeqs), n % RtpSeqs)
             m == [st |-> TRUE, s |-> TRUE, src |-> v]
             y == Seen(x, n)
  <2>1. mbr[x] \in RtpMember /\ sent[x] \in RtpStream
    BY DEF RtpInv
  <2>2. v \in RtpSource /\ y \in RtpStream /\ SinceReport(v) /\ Follows(v, y)
    <3>1. CASE mbr[x].s
      <4> DEFINE s == mbr[x].src
                 w == sent[x]
      <4>1. s \in RtpSource /\ w \in RtpStream /\ SinceReport(s) /\ Follows(s, w)
        BY <2>1, <3>1 DEF RtpInv, RtpMember
      <4>2. n \in w.hi - MaxMisorder + 1 .. w.hi + RtpSeqs - MaxMisorder
        BY <3>1 DEF Rtp
      <4>3. y = SeenOf(w, n)
        BY <1>3, <3>1 DEF Seen, SeenOf
      <4>4. v = source_update_seq(s, n % RtpSeqs)
        BY <3>1, Zenon
      <4> HIDE DEF v, y, s, w
      <4>5. w.hi \in Nat
        BY <4>1 DEF RtpStream
      <4>6. w.hi - n < MaxMisorder /\ n - w.hi < RtpSeqs - MaxMisorder + 1
        BY <1>1, <4>2, <4>5
      <4>7. /\ source_update_seq(s, n % RtpSeqs) \in RtpSource
            /\ SeenOf(w, n) \in RtpStream
            /\ SinceReport(source_update_seq(s, n % RtpSeqs))
            /\ Follows(source_update_seq(s, n % RtpSeqs), SeenOf(w, n))
        BY <4>1, <4>6, UpdateFollows, Zenon
      <4> QED
        BY <4>3, <4>4, <4>7, Zenon
    <3>2. CASE ~mbr[x].s
      <4>1. n \in 0 .. RtpSeqs - 1
        BY <1>1, <3>2 DEF Rtp
      <4>2. y = Began(n)
        BY <1>3, <3>2 DEF Seen
      <4>3. n % RtpSeqs = n
        <5>1. RtpSeqs * 0 + n = n /\ 0 \in Int
          BY <1>1
        <5> QED
          BY <4>1, <5>1, RtpRemainder
      <4>4. v = source_update_seq(FirstOf(n), n)
        BY <3>2, <4>3, Zenon
      <4> HIDE DEF v, y
      <4>5. /\ source_update_seq(FirstOf(n), n) \in RtpSource
            /\ Began(n) \in RtpStream
            /\ SinceReport(source_update_seq(FirstOf(n), n))
            /\ Follows(source_update_seq(FirstOf(n), n), Began(n))
        BY <4>1, FirstFollows, Zenon
      <4> QED
        BY <4>2, <4>4, <4>5, Zenon
    <3> QED
      BY <3>1, <3>2
  <2>3. /\ mbr' = [mbr EXCEPT ![x] = m]
        /\ rtcp' = [rtcp EXCEPT !.memberc = Counted(x),
                      !.senderc = IF mbr[x].s THEN @ ELSE @ + 1]
        /\ sent' = [sent EXCEPT ![x] = y] /\ UNCHANGED report
    BY <1>3, Zenon DEF Rtp, RtpReceive
  <2> HIDE DEF v, y
  <2>4. m \in RtpMember /\ m.st /\ m.s /\ m.src = v
    BY <2>2 DEF RtpMember
  <2> HIDE DEF m
  <2>5. sent' \in [Ssrc -> RtpStream] /\ sent'[x] = y
        /\ \A z \in Ssrc \ {x} : sent'[z] = sent[z]
    BY <2>2, <2>3 DEF RtpInv
  <2>6. rtcp' = [rtcp EXCEPT !.memberc = Counted(x),
                   !.senderc = IF m.s /\ ~mbr[x].s THEN @ + 1 ELSE @]
    BY <2>3, <2>4
  <2>7. m.s => SinceReport(m.src) /\ Follows(m.src, sent'[x])
    BY <2>2, <2>4, <2>5
  <2>8. mbr' = [mbr EXCEPT ![x] = m] /\ UNCHANGED report
    BY <2>3
  <2> QED
    BY <1>3, <2>4, <2>5, <2>6, <2>7, <2>8, RtpJoins
<1> QED
  BY <1>2, <1>3

(* handle_incoming_sr and handle_incoming_rr *)
LEMMA RtpReports ==
  ASSUME RtpInv, NEW x \in Ssrc, RtcpReport(x)
  PROVE  RtpInv'
<1> DEFINE m == [NoMember EXCEPT !.st = TRUE]
<1>1. NoSource \in RtpSource
  <2>1. 0 \in 0 .. RtpSeqs - 1 /\ RtpSeqs + 1 \in 0 .. RtpSeqs + 1
    BY RtpAssumption
  <2> QED
    BY <2>1 DEF NoSource, RtpSource
<1>2. m \in RtpMember /\ m.st /\ ~m.s
  BY <1>1 DEF NoMember, RtpMember
<1>3. ~mbr[x].s
  BY DEF RtcpReport, RtpInv
<1>4. mbr' = [mbr EXCEPT ![x] = m] /\ UNCHANGED <<sent, report>> /\ Found(x)
  BY DEF RtcpReport
<1> HIDE DEF m
<1>5. rtcp' = [rtcp EXCEPT !.memberc = Counted(x),
                 !.senderc = IF m.s /\ ~mbr[x].s THEN @ + 1 ELSE @]
  BY <1>2 DEF RtcpReport, RtpInv
<1>6. sent' \in [Ssrc -> RtpStream] /\ \A y \in Ssrc \ {x} : sent'[y] = sent[y]
  BY <1>4 DEF RtpInv
<1>7. UNCHANGED report
  BY <1>4
<1> QED
  BY <1>2, <1>3, <1>4, <1>5, <1>6, <1>7, RtpJoins

(* handle_incoming_bye *)
LEMMA RtpLeaves ==
  ASSUME RtpInv, NEW x \in Ssrc, RtcpBye(x)
  PROVE  RtpInv'
<1>1. NoMember \in RtpMember /\ NoStream \in RtpStream /\ ~NoMember.st /\ ~NoMember.s
  <2>1. 0 \in 0 .. RtpSeqs - 1 /\ RtpSeqs + 1 \in 0 .. RtpSeqs + 1
    BY RtpAssumption
  <2> QED
    BY <2>1 DEF NoMember, NoStream, NoSource, RtpMember, RtpSource, RtpStream
<1>2. /\ mbr' \in [Ssrc -> RtpMember] /\ mbr'[x] = NoMember
      /\ \A y \in Ssrc \ {x} : mbr'[y] = mbr[y]
  BY <1>1 DEF RtpInv, RtcpBye
<1>3. /\ sent' \in [Ssrc -> RtpStream]
      /\ \A y \in Ssrc \ {x} : sent'[y] = sent[y]
  BY <1>1 DEF RtpInv, RtcpBye
<1>4. Members' = Members \ {x} /\ Senders' = Senders \ {x}
  BY <1>1, <1>2 DEF Members, Senders
<1>5. x \in Members /\ (x \in Senders <=> mbr[x].s) /\ Senders \subseteq Members
  BY DEF RtcpBye, Members, Senders, RtpInv
<1>6. /\ IsFiniteSet(Members) /\ IsFiniteSet(Senders)
      /\ rtcp.memberc = Cardinality(Members) /\ rtcp.senderc = Cardinality(Senders)
      /\ rtcp.memberc \in 0 .. MaxMembers /\ rtcp.senderc \in 0 .. MaxMembers
      /\ MaxMembers \in Nat
  BY <1>5, FS_Subset, RtpAssumption DEF RtpInv
<1>7. /\ IsFiniteSet(Members') /\ IsFiniteSet(Senders')
      /\ Cardinality(Members') = rtcp.memberc - 1
      /\ Cardinality(Members') \in Nat
  BY <1>4, <1>5, <1>6, FS_RemoveElement, FS_CardinalityType
<1> DEFINE c == IF mbr[x].s THEN rtcp.senderc - 1 ELSE rtcp.senderc
<1>8. Cardinality(Senders') = c /\ Cardinality(Senders') \in Nat
  <2>1. CASE mbr[x].s
    BY <1>4, <1>5, <1>6, <1>7, <2>1, FS_RemoveElement, FS_CardinalityType
  <2>2. CASE ~mbr[x].s
    <3>1. Senders' = Senders
      BY <1>4, <1>5, <2>2
    <3> QED
      BY <1>6, <2>2, <3>1
  <2> QED
    BY <2>1, <2>2
<1>9. c \in 0 .. MaxMembers /\ rtcp.memberc - 1 \in 0 .. MaxMembers
  BY <1>6, <1>7, <1>8
<1>10. /\ rtcp' \in [memberc : 0 .. MaxMembers, senderc : 0 .. MaxMembers,
                    tmr : BOOLEAN, cname : BOOLEAN, open : BOOLEAN]
       /\ rtcp'.memberc = rtcp.memberc - 1 /\ rtcp'.senderc = c
  <2> DEFINE d == rtcp.memberc - 1
  <2>1. rtcp' = [rtcp EXCEPT !.memberc = d, !.senderc = c]
    BY DEF RtcpBye, Leaves
  <2>2. d \in 0 .. MaxMembers
    BY <1>9
  <2> HIDE DEF c, d
  <2>3. /\ rtcp' \in [memberc : 0 .. MaxMembers, senderc : 0 .. MaxMembers,
                    tmr : BOOLEAN, cname : BOOLEAN, open : BOOLEAN]
       /\ rtcp'.memberc = d /\ rtcp'.senderc = c
    BY <1>9, <2>1, <2>2 DEF RtpInv
  <2> QED
    BY <2>3 DEF d
<1> HIDE DEF c
<1>11. \A y \in Ssrc : mbr'[y].s => /\ mbr'[y].st /\ SinceReport(mbr'[y].src)
                                    /\ Follows(mbr'[y].src, sent'[y])
  BY <1>1, <1>2, <1>3 DEF RtpInv
<1>12. report'.count = report'.blocks /\ report'.fraction < 256
  BY DEF RtpInv, RtcpBye
<1> QED
  BY <1>2, <1>3, <1>7, <1>8, <1>10, <1>11, <1>12 DEF RtpInv

(* timeout and send_rtcp_report *)
LEMMA RtpTimesOut ==
  ASSUME RtpInv, RtcpTimeout
  PROVE  RtpInv'
<1>1. \A x \in Ssrc : mbr[x] \in RtpMember /\ sent[x] \in RtpStream
  BY DEF RtpInv
<1>2. UNCHANGED <<rtcp, sent>>
  BY DEF RtcpTimeout
<1>3. \A x \in Ssrc : mbr'[x] = IF mbr[x].s
         THEN [mbr[x] EXCEPT !.src = Reported(mbr[x].src)] ELSE mbr[x]
  BY DEF RtcpTimeout
<1>4. ASSUME NEW x \in Ssrc, mbr[x].s
      PROVE  /\ mbr'[x] \in RtpMember /\ mbr'[x].st = mbr[x].st /\ mbr'[x].s
             /\ SinceReport(mbr'[x].src) /\ Follows(mbr'[x].src, sent[x])
  <2> DEFINE s == mbr[x].src
             w == sent[x]
             m == mbr[x]
  <2>1. s \in RtpSource /\ w \in RtpStream /\ SinceReport(s) /\ Follows(s, w)
    BY <1>1, <1>4 DEF RtpInv, RtpMember
  <2>2. mbr'[x] = [m EXCEPT !.src = Reported(s)] /\ m \in RtpMember /\ m.s
    BY <1>1, <1>3, <1>4
  <2>3. m.st = mbr[x].st
    OBVIOUS
  <2> HIDE DEF s, w, m
  <2>4. Reported(s) \in RtpSource /\ SinceReport(Reported(s)) /\ Follows(Reported(s), w)
    BY <2>1, ReportedFits
  <2>5. mbr'[x] \in RtpMember /\ mbr'[x].st = m.st /\ mbr'[x].s /\ mbr'[x].src = Reported(s)
    BY <2>2, <2>4 DEF RtpMember
  <2> QED
    BY <2>3, <2>4, <2>5, Zenon DEF w
<1>5. \A x \in Ssrc : /\ mbr'[x] \in RtpMember /\ mbr'[x].st = mbr[x].st
                      /\ mbr'[x].s = mbr[x].s
  <2> SUFFICES ASSUME NEW x \in Ssrc
               PROVE  /\ mbr'[x] \in RtpMember /\ mbr'[x].st = mbr[x].st
                      /\ mbr'[x].s = mbr[x].s
    OBVIOUS
  <2>1. CASE mbr[x].s
    <3>1. mbr'[x].s /\ mbr'[x] \in RtpMember /\ mbr'[x].st = mbr[x].st
      BY <1>4, <2>1
    <3>2. mbr'[x].s \in BOOLEAN /\ mbr[x].s \in BOOLEAN
      BY <1>1, <3>1 DEF RtpMember
    <3> QED
      BY <2>1, <3>1, <3>2
  <2>2. CASE ~mbr[x].s
    BY <1>1, <1>3, <2>2
  <2> QED
    BY <2>1, <2>2
<1>6. Members' = Members /\ Senders' = Senders
  BY <1>5 DEF Members, Senders
<1>7. mbr' \in [Ssrc -> RtpMember]
  <2>1. mbr' = [x \in Ssrc |-> mbr'[x]]
    BY DEF RtcpTimeout
  <2> QED
    BY <1>5, <2>1
<1>8. report'.count = report'.blocks /\ report'.fraction < 256
  <2>1. \A x \in Ssrc : mbr[x].s => ~(Fraction(mbr[x].src) > 255)
    <3> SUFFICES ASSUME NEW x \in Ssrc, mbr[x].s
                 PROVE  ~(Fraction(mbr[x].src) > 255)
      OBVIOUS
    <3>1. mbr[x].src \in RtpSource /\ SinceReport(mbr[x].src)
      BY <1>1 DEF RtpInv, RtpMember
    <3> QED
      BY <3>1, FractionFits
  <2>2. ~(\E x \in Senders : Fraction(mbr[x].src) > 255)
    BY <2>1, Zenon DEF Senders
  <2>3. report' = [count |-> rtcp.senderc, blocks |-> Cardinality(Senders),
          fraction |-> IF \E x \in Senders : Fraction(mbr[x].src) > 255 THEN 256 ELSE 0]
    BY Zenon DEF RtcpTimeout, Senders
  <2>4. /\ report'.count = rtcp.senderc /\ report'.blocks = Cardinality(Senders)
        /\ report'.fraction = 0
    BY <2>2, <2>3
  <2> QED
    BY <2>4 DEF RtpInv
<1>9. \A x \in Ssrc : mbr'[x].s => /\ mbr'[x].st /\ SinceReport(mbr'[x].src)
                                   /\ Follows(mbr'[x].src, sent'[x])
  BY <1>2, <1>4, <1>5 DEF RtpInv
<1>10. IsFiniteSet(Members) /\ sent \in [Ssrc -> RtpStream]
       /\ rtcp \in [memberc : 0 .. MaxMembers, senderc : 0 .. MaxMembers,
                    tmr : BOOLEAN, cname : BOOLEAN, open : BOOLEAN]
       /\ rtcp.memberc = Cardinality(Members) /\ rtcp.senderc = Cardinality(Senders)
  BY DEF RtpInv
<1> QED
  BY <1>2, <1>6, <1>7, <1>8, <1>9, <1>10 DEF RtpInv

(* destructor and sess_destructor *)
LEMMA RtpCloses ==
  ASSUME RtpInv, RtpClose
  PROVE  RtpInv'
<1>1. NoMember \in RtpMember /\ NoStream \in RtpStream /\ ~NoMember.st /\ ~NoMember.s
  <2>1. 0 \in 0 .. RtpSeqs - 1 /\ RtpSeqs + 1 \in 0 .. RtpSeqs + 1
    BY RtpAssumption
  <2> QED
    BY <2>1 DEF NoMember, NoStream, NoSource, RtpMember, RtpSource, RtpStream
<1>2. mbr' \in [Ssrc -> RtpMember] /\ sent' \in [Ssrc -> RtpStream]
  BY <1>1 DEF RtpClose
<1>3. \A x \in Ssrc : ~mbr'[x].st /\ ~mbr'[x].s
  BY <1>1 DEF RtpClose
<1>4. Members' = {} /\ Senders' = {}
  BY <1>3 DEF Members, Senders
<1>5. IsFiniteSet(Members') /\ Cardinality(Members') = 0 /\ Cardinality(Senders') = 0
  BY <1>4, FS_EmptySet
<1>6. /\ rtcp' \in [memberc : 0 .. MaxMembers, senderc : 0 .. MaxMembers,
                    tmr : BOOLEAN, cname : BOOLEAN, open : BOOLEAN]
      /\ rtcp'.memberc = 0 /\ rtcp'.senderc = 0
  <2>1. 0 \in 0 .. MaxMembers
    BY RtpAssumption
  <2>2. rtcp' = [rtcp EXCEPT !.open = FALSE, !.tmr = FALSE, !.memberc = 0, !.senderc = 0]
    BY DEF RtpClose
  <2>3. rtcp \in [memberc : 0 .. MaxMembers, senderc : 0 .. MaxMembers,
                  tmr : BOOLEAN, cname : BOOLEAN, open : BOOLEAN]
    BY DEF RtpInv
  <2> HIDE DEF RtpInv
  <2> QED
    BY <2>1, <2>2, <2>3
<1>7. report'.count = report'.blocks /\ report'.fraction < 256
  BY DEF RtpInv, RtpClose
<1> QED
  BY <1>2, <1>3, <1>5, <1>6, <1>7 DEF RtpInv

LEMMA RtpKeeps == RtpInv /\ [RtpNext]_rtpVars => RtpInv'
<1> SUFFICES ASSUME RtpInv, [RtpNext]_rtpVars PROVE RtpInv'
  OBVIOUS
<1>1. ASSUME NEW x \in Ssrc, NEW n \in 0 .. MaxSent, Rtp(x, n) PROVE RtpInv'
  <2>1. n \in Nat
    BY RtpAssumption
  <2> QED
    BY <1>1, <2>1, RtpArrives
<1>2. ASSUME NEW x \in Ssrc, RtcpReport(x) PROVE RtpInv'
  BY <1>2, RtpReports
<1>3. ASSUME NEW x \in Ssrc, RtcpBye(x) PROVE RtpInv'
  BY <1>3, RtpLeaves
<1>4. CASE RtcpTimeout
  BY <1>4, RtpTimesOut
<1>5. CASE RtpClose
  BY <1>5, RtpCloses
<1>6. ASSUME NEW e \in BOOLEAN, RtcpEnable(e) PROVE RtpInv'
  <2>1. UNCHANGED <<mbr, sent, report>>
    BY <1>6 DEF RtcpEnable
  <2>2. /\ rtcp' \in [memberc : 0 .. MaxMembers, senderc : 0 .. MaxMembers,
                      tmr : BOOLEAN, cname : BOOLEAN, open : BOOLEAN]
        /\ rtcp'.memberc = rtcp.memberc /\ rtcp'.senderc = rtcp.senderc
    BY <1>6 DEF RtcpEnable, RtpInv
  <2>3. Members' = Members /\ Senders' = Senders
    BY <2>1 DEF Members, Senders
  <2> QED
    BY <2>1, <2>2, <2>3 DEF RtpInv
<1>7. CASE UNCHANGED rtpVars
  BY <1>7 DEF rtpVars, RtpInv, Members, Senders
<1> QED
  BY <1>1, <1>2, <1>3, <1>4, <1>5, <1>6, <1>7 DEF RtpNext

(* Whatever is lost, duplicated, reordered or wrapped, and when a sender   *)
(* restarts, the packets expected of a source are those that were sent and *)
(* the lost those that did not come (source_update_seq, source_calc_lost); *)
(* a report says how many blocks it has, and members and senders are       *)
(* counted exactly (get_member, rtcp_sess_rx_rtp, handle_incoming_bye,     *)
(* send_rtcp_report).                                                      *)
THEOREM ReportsExact == RtpSpec => []RtpSound
<1>1. RtpInit => RtpInv
  BY RtpInitially
<1>2. RtpInv /\ [RtpNext]_rtpVars => RtpInv'
  BY RtpKeeps
<1>3. RtpInv => RtpSound
  BY RtpInvImplies
<1> QED
  BY <1>1, <1>2, <1>3, PTL DEF RtpSpec

----------------------------------------------------------------------------
(* Keys.  The buffer between the threads, what the sender makes of it, the *)
(* packets on the way and what was heard are each tied to a place in what  *)
(* a perfect line would tell: an odd place is the start of a key, the next *)
(* one its end.                                                            *)

(* Where telev_poll goes on, and what is or will be in the buffer when the *)
(* telev_send that is under way is done                                    *)
PollsAt == IF saved.on THEN saved.pos ELSE tel.pos
Written == IF saved.on THEN Append(tel.buf, saved.code) ELSE tel.buf

EventAt(log, x) ==
  IF x % 2 = 0 THEN [event |-> log[x \div 2], end |-> TRUE]
  ELSE [event |-> log[(x + 1) \div 2], end |-> FALSE]

(* Behind are the presses and releases that were not polled: n keys were,  *)
(* and f[i] are with those up to the entry at i.  The release of a key     *)
(* comes right behind it, or while it sounds.                              *)
Unpolled(b, at, state, log, cur, n, f) ==
  /\ b \in Seq(Key \cup {End}) /\ at \in 0 .. Len(b) /\ f \in [0 .. Len(b) -> Nat]
  /\ f[at] = n /\ f[Len(b)] = Len(log)
  /\ \A i \in at .. Len(b) : f[i] <= Len(log)
  /\ \A i \in at + 1 .. Len(b) :
       \/ b[i] # End /\ f[i] = f[i - 1] + 1 /\ b[i] = log[f[i]]
       \/ /\ b[i] = End /\ f[i] = f[i - 1]
          /\ IF i = at + 1 THEN state = "sending" ELSE b[i - 1] # End
  /\ cur # NoKey => IF at = Len(b) THEN state = "sending" ELSE b[Len(b)] # End

(* The place of the packet that was sent last, when n keys were taken out  *)
(* of the buffer, and how many packets of this place were sent at least    *)
PlaceSent(t, n) ==
  IF t.state = "sending" \/ (t.state = "ending" /\ t.txc = 0) THEN 2 * n - 1 ELSE 2 * n

Often(t) ==
  IF t.state = "idle" THEN EndMin
  ELSE IF t.state = "ending" /\ t.txc = 0 THEN DigitMin ELSE t.txc

(* ... before the next place has its turn *)
AtLeast(x) == IF x % 2 = 0 THEN EndMin ELSE DigitMin

Sounds(t, log, n) ==
  /\ t.state \in {"idle", "sending", "ending"} /\ t.txc \in Nat
  /\ t.state # "idle" => n > 0 /\ t.event = log[n]
  /\ t.state = "sending" => t.txc > 0

(* Of the places, h were heard, s was sent last and o times at least: what *)
(* is not on the way was lost without anything coming through since.       *)
OnAir(q, gone, h, s, o, log) ==
  \/ /\ Len(q) = 0
     /\ s = h \/ (s = h + 1 /\ o <= gone)
  \/ /\ Len(q) = 1 /\ s > 0 /\ q[1] = EventAt(log, s)
     /\ s = h \/ (s = h + 1 /\ o <= 1 + gone)
  \/ /\ Len(q) = 2 /\ s > 0 /\ q[2] = EventAt(log, s)
     /\ \/ s = h /\ q[1] = EventAt(log, s)
        \/ s = h + 1 /\ h > 0 /\ q[1] = EventAt(log, h) /\ o <= 1
        \/ s = h + 1 /\ q[1] = EventAt(log, s) /\ o <= 2 + gone
        \/ s = h + 2 /\ q[1] = EventAt(log, h + 1) /\ o <= 1 /\ AtLeast(h + 1) <= 1 + gone

(* The receiver remembers the place it heard last. *)
Remembered(e) == [event |-> IF e.end THEN NoKey ELSE e.event, end |-> e.end]

Hears(r, log, h) ==
  r = IF h = 0 THEN [event |-> NoKey, end |-> FALSE] ELSE Remembered(EventAt(log, h))

Fresh(r, e) == IF e.end THEN ~r.end ELSE e.event # r.event

TelEvents == [event : Key, end : BOOLEAN]

TelevTyped ==
  /\ tel \in [state : {"idle", "sending", "ending"}, event : Key \cup {NoKey}, txc : Nat,
             buf : Seq(Key \cup {End}), pos : Nat]
  /\ tel.pos \in 0 .. Len(tel.buf)
  /\ saved.on \in BOOLEAN
  /\ saved.on => saved.code \in Key \cup {End} /\ tel.pos = Len(tel.buf)
  /\ air \in [q : Seq(TelEvents), lost : 0 .. MaxLoss, fmt : BOOLEAN]
  /\ heard \in Seq(TelEvents)

Polled(n) == \E f : Unpolled(Written, PollsAt, tel.state, keys.log, keys.cur, n, f)

Told(n) ==
  /\ OnAir(air.q, air.lost, Len(heard), PlaceSent(tel, n), Often(tel), keys.log)
  /\ Hears(telrx, keys.log, Len(heard))
  /\ \A i \in 1 .. Len(heard) : heard[i] = EventAt(keys.log, i)

TelevInv ==
  /\ keys \in [log : Seq(Key), cur : Key \cup {NoKey}, raced : BOOLEAN]
  /\ ~keys.raced =>
       /\ TelevTyped
       /\ \E n \in Nat : /\ Polled(n) /\ Sounds(tel, keys.log, n)
                         /\ IF air.fmt THEN Told(n) ELSE air.q = <<>> /\ heard = <<>>

----------------------------------------------------------------------------
(* The buffer: a key is pressed, *)
LEMMA UnpolledPress ==
  ASSUME NEW b, NEW at, NEW state, NEW log \in Seq(Key), NEW cur, NEW n, NEW f,
         Unpolled(b, at, state, log, cur, n, f), NEW k \in Key
  PROVE  \E g : Unpolled(Append(b, k), at, state, Append(log, k), k, n, g)
<1> DEFINE L == Len(b)
           c == Append(b, k)
           l == Append(log, k)
           g == [i \in 0 .. L + 1 |-> IF i <= L THEN f[i] ELSE Len(log) + 1]
<1>1. /\ b \in Seq(Key \cup {End}) /\ L \in Nat /\ Len(log) \in Nat /\ at \in 0 .. L
      /\ k # End /\ f \in [0 .. L -> Nat]
  BY TelevAssumption, LenProperties DEF Unpolled
<1>2. /\ c \in Seq(Key \cup {End}) /\ Len(c) = L + 1 /\ c[L + 1] = k
      /\ \A i \in 1 .. L : c[i] = b[i]
  BY <1>1, AppendProperties
<1>3. /\ Len(l) = Len(log) + 1 /\ l[Len(log) + 1] = k /\ \A i \in 1 .. Len(log) : l[i] = log[i]
  BY <1>1, AppendProperties
<1>4. /\ g \in [0 .. L + 1 -> Nat] /\ g[L + 1] = Len(log) + 1
      /\ \A i \in 0 .. L : g[i] = f[i]
  BY <1>1
<1> HIDE DEF c, l, g
<1>5. \A i \in at .. L + 1 : g[i] <= Len(l)
  <2> TAKE i \in at .. L + 1
  <2>1. CASE i = L + 1
    BY <1>1, <1>3, <1>4, <2>1
  <2>2. CASE i # L + 1
    <3>1. i \in at .. L /\ i \in 0 .. L /\ f[i] \in Nat
      BY <1>1, <2>2
    <3>2. f[i] <= Len(log)
      BY <3>1 DEF Unpolled
    <3> QED
      BY <1>1, <1>3, <1>4, <3>1, <3>2
  <2> QED
    BY <2>1, <2>2
<1>6. ASSUME NEW i \in at + 1 .. L + 1
      PROVE  \/ c[i] # End /\ g[i] = g[i - 1] + 1 /\ c[i] = l[g[i]]
             \/ /\ c[i] = End /\ g[i] = g[i - 1]
                /\ IF i = at + 1 THEN state = "sending" ELSE c[i - 1] # End
  <2>1. CASE i = L + 1
    <3>1. g[i - 1] = Len(log)
      <4>1. f[L] = Len(log)
        BY DEF Unpolled
      <4> QED
        BY <1>1, <1>4, <2>1, <4>1
    <3> QED
      BY <1>1, <1>2, <1>3, <1>4, <2>1, <3>1
  <2>2. CASE i # L + 1
    <3>1. /\ i \in at + 1 .. L /\ i \in 1 .. L /\ i \in 0 .. L /\ i - 1 \in 0 .. L
          /\ i # at + 1 => i - 1 \in 1 .. L
          /\ i \in at .. L /\ i - 1 \in at .. L
      BY <1>1, <2>2
    <3>2. /\ c[i] = b[i] /\ g[i] = f[i] /\ g[i - 1] = f[i - 1]
          /\ i # at + 1 => c[i - 1] = b[i - 1]
      BY <1>2, <1>4, <3>1
    <3>3. \/ b[i] # End /\ f[i] = f[i - 1] + 1 /\ b[i] = log[f[i]]
          \/ /\ b[i] = End /\ f[i] = f[i - 1]
             /\ IF i = at + 1 THEN state = "sending" ELSE b[i - 1] # End
      BY <3>1 DEF Unpolled
    <3>4. f[i] <= Len(log) /\ f[i] \in Nat /\ f[i - 1] \in Nat
      BY <1>1, <3>1 DEF Unpolled
    <3>5. f[i] = f[i - 1] + 1 => l[f[i]] = log[f[i]]
      <4>1. f[i] = f[i - 1] + 1 => f[i] \in 1 .. Len(log)
        BY <1>1, <3>4
      <4> QED
        BY <1>3, <4>1
    <3> QED
      BY <3>2, <3>3, <3>5
  <2> QED
    BY <2>1, <2>2
<1>7. g[at] = n /\ at # L + 1 /\ at \in 0 .. L + 1
  <2>1. f[at] = n
    BY DEF Unpolled
  <2> QED
    BY <1>1, <1>4, <2>1
<1>8. Unpolled(c, at, state, l, k, n, g)
  BY <1>1, <1>2, <1>3, <1>4, <1>5, <1>6, <1>7 DEF Unpolled
<1> QED
  BY <1>8 DEF c, l

(* the key that is down is released, *)
LEMMA UnpolledRelease ==
  ASSUME NEW b, NEW at, NEW state, NEW log \in Seq(Key), NEW cur, NEW n, NEW f,
         Unpolled(b, at, state, log, cur, n, f), cur # NoKey
  PROVE  \E g : Unpolled(Append(b, End), at, state, log, NoKey, n, g)
<1> DEFINE L == Len(b)
           c == Append(b, End)
           g == [i \in 0 .. L + 1 |-> IF i <= L THEN f[i] ELSE Len(log)]
<1>1. /\ b \in Seq(Key \cup {End}) /\ L \in Nat /\ Len(log) \in Nat /\ at \in 0 .. L
      /\ f \in [0 .. L -> Nat]
  BY LenProperties DEF Unpolled
<1>2. /\ c \in Seq(Key \cup {End}) /\ Len(c) = L + 1 /\ c[L + 1] = End
      /\ \A i \in 1 .. L : c[i] = b[i]
  BY <1>1, AppendProperties
<1>4. /\ g \in [0 .. L + 1 -> Nat] /\ g[L + 1] = Len(log)
      /\ \A i \in 0 .. L : g[i] = f[i]
  BY <1>1
<1> HIDE DEF c, g
<1>5. \A i \in at .. L + 1 : g[i] <= Len(log)
  <2> TAKE i \in at .. L + 1
  <2>1. CASE i = L + 1
    BY <1>1, <1>4, <2>1
  <2>2. CASE i # L + 1
    <3>1. i \in at .. L /\ i \in 0 .. L
      BY <1>1, <2>2
    <3>2. f[i] <= Len(log)
      BY <3>1 DEF Unpolled
    <3> QED
      BY <1>4, <3>1, <3>2
  <2> QED
    BY <2>1, <2>2
<1>6. ASSUME NEW i \in at + 1 .. L + 1
      PROVE  \/ c[i] # End /\ g[i] = g[i - 1] + 1 /\ c[i] = log[g[i]]
             \/ /\ c[i] = End /\ g[i] = g[i - 1]
                /\ IF i = at + 1 THEN state = "sending" ELSE c[i - 1] # End
  <2>1. CASE i = L + 1
    <3>1. g[i - 1] = Len(log)
      <4>1. f[L] = Len(log)
        BY DEF Unpolled
      <4> QED
        BY <1>1, <1>4, <2>1, <4>1
    <3>2. IF at = L THEN state = "sending" ELSE b[L] # End
      BY DEF Unpolled
    <3>3. at # L => c[L] = b[L]
      BY <1>1, <1>2
    <3>4. (i = at + 1) = (at = L) /\ i - 1 = L
      BY <1>1, <2>1
    <3> QED
      BY <1>2, <1>4, <2>1, <3>1, <3>2, <3>3, <3>4
  <2>2. CASE i # L + 1
    <3>1. /\ i \in at + 1 .. L /\ i \in 1 .. L /\ i \in 0 .. L /\ i - 1 \in 0 .. L
          /\ i # at + 1 => i - 1 \in 1 .. L
      BY <1>1, <2>2
    <3>2. /\ c[i] = b[i] /\ g[i] = f[i] /\ g[i - 1] = f[i - 1]
          /\ i # at + 1 => c[i - 1] = b[i - 1]
      BY <1>2, <1>4, <3>1
    <3>3. \/ b[i] # End /\ f[i] = f[i - 1] + 1 /\ b[i] = log[f[i]]
          \/ /\ b[i] = End /\ f[i] = f[i - 1]
             /\ IF i = at + 1 THEN state = "sending" ELSE b[i - 1] # End
      BY <3>1 DEF Unpolled
    <3> QED
      BY <3>2, <3>3
  <2> QED
    BY <2>1, <2>2
<1>7. g[at] = n /\ at \in 0 .. L + 1
  <2>1. f[at] = n
    BY DEF Unpolled
  <2> QED
    BY <1>1, <1>4, <2>1
<1>8. Unpolled(c, at, state, log, NoKey, n, g)
  BY <1>1, <1>2, <1>4, <1>5, <1>6, <1>7 DEF Unpolled
<1> QED
  BY <1>8 DEF c

(* what is taken out: *)
LEMMA UnpolledNext ==
  ASSUME NEW b, NEW at, NEW state, NEW log \in Seq(Key), NEW cur, NEW n, NEW f,
         Unpolled(b, at, state, log, cur, n, f)
  PROVE  /\ n \in 0 .. Len(log) /\ at \in 0 .. Len(b)
         /\ at < Len(b) =>
              /\ IF b[at + 1] = End THEN state = "sending" /\ f[at + 1] = n
                 ELSE f[at + 1] = n + 1 /\ n + 1 \in 1 .. Len(log) /\ b[at + 1] = log[n + 1]
<1>1. /\ at \in 0 .. Len(b) /\ Len(b) \in Nat /\ Len(log) \in Nat /\ f[at] = n
      /\ n \in Nat
  BY LenProperties DEF Unpolled
<1>2. n <= Len(log)
  <2>1. at \in at .. Len(b)
    BY <1>1
  <2> QED
    BY <1>1, <2>1 DEF Unpolled
<1>3. ASSUME at < Len(b)
      PROVE  IF b[at + 1] = End THEN state = "sending" /\ f[at + 1] = n
             ELSE f[at + 1] = n + 1 /\ n + 1 \in 1 .. Len(log) /\ b[at + 1] = log[n + 1]
  <2>1. at + 1 \in at + 1 .. Len(b) /\ at + 1 \in at .. Len(b) /\ (at + 1) - 1 = at
    BY <1>1, <1>3
  <2>2. f[at + 1] <= Len(log)
    BY <2>1 DEF Unpolled
  <2>3. \/ b[at + 1] # End /\ f[at + 1] = f[at] + 1 /\ b[at + 1] = log[f[at + 1]]
        \/ b[at + 1] = End /\ f[at + 1] = f[at] /\ state = "sending"
    BY <2>1 DEF Unpolled
  <2> QED
    BY <1>1, <2>2, <2>3
<1> QED
  BY <1>1, <1>2, <1>3

(* a key, or the release of the one that sounds, *)
LEMMA UnpolledTake ==
  ASSUME NEW b, NEW at, NEW state, NEW log \in Seq(Key), NEW cur, NEW n, NEW f,
         Unpolled(b, at, state, log, cur, n, f), at < Len(b),
         NEW to, IF b[at + 1] = End THEN to = "ending" ELSE to = "sending"
  PROVE  Unpolled(b, at + 1, to, log, cur, f[at + 1], f)
<1>1. /\ b \in Seq(Key \cup {End}) /\ Len(b) \in Nat /\ at \in 0 .. Len(b) /\ at \in Nat
      /\ f \in [0 .. Len(b) -> Nat] /\ f[Len(b)] = Len(log)
  BY LenProperties DEF Unpolled
<1>2. at + 1 \in 0 .. Len(b)
  BY <1>1
<1>3. \A i \in at + 1 .. Len(b) : f[i] <= Len(log)
  <2> TAKE i \in at + 1 .. Len(b)
  <2>1. i \in at .. Len(b)
    BY <1>1
  <2> QED
    BY <2>1 DEF Unpolled
<1>4. ASSUME NEW i \in (at + 1) + 1 .. Len(b)
      PROVE  \/ b[i] # End /\ f[i] = f[i - 1] + 1 /\ b[i] = log[f[i]]
             \/ /\ b[i] = End /\ f[i] = f[i - 1]
                /\ IF i = (at + 1) + 1 THEN to = "sending" ELSE b[i - 1] # End
  <2>1. i \in at + 1 .. Len(b) /\ i # at + 1 /\ (i = (at + 1) + 1 => i - 1 = at + 1)
    BY <1>1
  <2>2. \/ b[i] # End /\ f[i] = f[i - 1] + 1 /\ b[i] = log[f[i]]
        \/ b[i] = End /\ f[i] = f[i - 1] /\ b[i - 1] # End
    BY <2>1 DEF Unpolled
  <2> QED
    BY <2>1, <2>2
<1>5. cur # NoKey => IF at + 1 = Len(b) THEN to = "sending" ELSE b[Len(b)] # End
  <2>1. cur # NoKey => b[Len(b)] # End
    <3>1. at # Len(b)
      BY <1>1
    <3> QED
      BY <3>1 DEF Unpolled
  <2> QED
    BY <2>1
<1> QED
  BY <1>1, <1>2, <1>3, <1>4, <1>5 DEF Unpolled

(* nothing, while the state changes: a key that sounds ends for another    *)
(* one, or its end was sent, *)
LEMMA UnpolledEnds ==
  ASSUME NEW b, NEW at, NEW state, NEW log \in Seq(Key), NEW cur, NEW n, NEW f,
         Unpolled(b, at, state, log, cur, n, f), NEW to,
         state # "sending" \/ (at < Len(b) /\ b[at + 1] # End)
  PROVE  Unpolled(b, at, to, log, cur, n, f)
<1>1. /\ b \in Seq(Key \cup {End}) /\ Len(b) \in Nat /\ at \in 0 .. Len(b)
  BY LenProperties DEF Unpolled
<1>2. ASSUME NEW i \in at + 1 .. Len(b)
      PROVE  \/ b[i] # End /\ f[i] = f[i - 1] + 1 /\ b[i] = log[f[i]]
             \/ /\ b[i] = End /\ f[i] = f[i - 1]
                /\ IF i = at + 1 THEN to = "sending" ELSE b[i - 1] # End
  <2>1. \/ b[i] # End /\ f[i] = f[i - 1] + 1 /\ b[i] = log[f[i]]
        \/ /\ b[i] = End /\ f[i] = f[i - 1]
           /\ IF i = at + 1 THEN state = "sending" ELSE b[i - 1] # End
    BY DEF Unpolled
  <2> QED
    BY <2>1
<1>3. cur # NoKey => at # Len(b) /\ b[Len(b)] # End
  <2>1. cur # NoKey => IF at = Len(b) THEN state = "sending" ELSE b[Len(b)] # End
    BY DEF Unpolled
  <2> QED
    BY <1>1, <2>1
<1> QED
  BY <1>2, <1>3 DEF Unpolled

(* and the buffer that is empty begins again. *)
LEMMA UnpolledReset ==
  ASSUME NEW b, NEW at, NEW state, NEW log \in Seq(Key), NEW cur, NEW n, NEW f,
         Unpolled(b, at, state, log, cur, n, f), at = Len(b), state # "sending", NEW to
  PROVE  \E g : Unpolled(<<>>, 0, to, log, cur, n, g)
<1> DEFINE g == [i \in 0 .. 0 |-> n]
<1>1. n = Len(log) /\ n \in Nat /\ cur = NoKey
  BY LenProperties DEF Unpolled
<1>2. <<>> \in Seq(Key \cup {End}) /\ Len(<<>>) = 0
  BY EmptySeq
<1>3. g \in [0 .. 0 -> Nat] /\ g[0] = n /\ 0 \in 0 .. 0
  BY <1>1
<1> HIDE DEF g
<1>4. (\A i \in 0 .. 0 : i = 0) /\ 0 + 1 .. 0 = {}
  OBVIOUS
<1> QED
  BY <1>1, <1>2, <1>3, <1>4 DEF Unpolled

----------------------------------------------------------------------------
(* What a perfect line tells at a place, and that it stays when more keys  *)
(* are pressed *)
LEMMA EventOfKey ==
  ASSUME NEW log, NEW n \in Nat \ {0}
  PROVE  /\ EventAt(log, 2 * n - 1) = [event |-> log[n], end |-> FALSE]
         /\ EventAt(log, 2 * n) = [event |-> log[n], end |-> TRUE]
<1>1. ((2 * n - 1) + 1) \div 2 = n /\ (2 * n - 1) % 2 # 0
  OBVIOUS
<1>2. (2 * n) \div 2 = n /\ (2 * n) % 2 = 0
  OBVIOUS
<1> QED
  BY <1>1, <1>2 DEF EventAt

LEMMA EventKept ==
  ASSUME NEW log \in Seq(Key), NEW k \in Key, NEW x \in 1 .. 2 * Len(log)
  PROVE  /\ EventAt(Append(log, k), x) = EventAt(log, x)
         /\ EventAt(log, x) \in TelEvents
<1>1. Len(log) \in Nat
  BY LenProperties
<1>2. /\ x % 2 = 0 => x \div 2 \in 1 .. Len(log)
      /\ x % 2 # 0 => (x + 1) \div 2 \in 1 .. Len(log)
  BY <1>1
<1>3. \A i \in 1 .. Len(log) : Append(log, k)[i] = log[i] /\ log[i] \in Key
  BY AppendProperties, ElementOfSeq
<1> QED
  BY <1>2, <1>3 DEF EventAt, TelEvents

LEMMA AtLeastNat == \A x \in Nat : AtLeast(x) \in Nat
BY TelevAssumption DEF AtLeast

LEMMA BelowTwo == \A m \in Nat : m < 2 => m \in {0, 1}
OBVIOUS

(* The line: another packet is sent, *)
LEMMA AirSends ==
  ASSUME NEW q \in Seq(TelEvents), NEW gone \in 0 .. MaxLoss, NEW h \in Nat, NEW s \in Nat,
         NEW o \in Nat, NEW log, OnAir(q, gone, h, s, o, log), Len(q) < 2,
         NEW t \in Nat, NEW p \in Nat, t > 0, EventAt(log, t) \in TelEvents,
         \/ t = s /\ p <= o + 1
         \/ t = s + 1 /\ p <= 1 /\ (s > 0 => AtLeast(s) <= o),
         MaxLoss < DigitMin, MaxLoss < EndMin
  PROVE  OnAir(Append(q, EventAt(log, t)), gone, h, t, p, log)
<1> DEFINE e == EventAt(log, t)
           r == Append(q, e)
<1>1. /\ Len(q) \in {0, 1} /\ Len(r) = Len(q) + 1 /\ r[Len(q) + 1] = e
      /\ \A i \in 1 .. Len(q) : r[i] = q[i]
  <2>1. Len(q) \in {0, 1}
    <3>1. Len(q) \in Nat
      BY LenProperties
    <3> QED
      BY <3>1, BelowTwo
  <2>2. e \in TelEvents
    OBVIOUS
  <2> HIDE DEF e
  <2>3. /\ Len(r) = Len(q) + 1 /\ r[Len(q) + 1] = e
        /\ \A i \in 1 .. Len(q) : r[i] = q[i]
    BY <2>2, AppendProperties
  <2> QED
    BY <2>1, <2>3
<1> HIDE DEF r
<1>2. AtLeast(s) \in Nat /\ AtLeast(s) > gone /\ gone \in Nat
  BY TelevAssumption DEF AtLeast
<1>3. CASE Len(q) = 0
  <2>1. s = h \/ (s = h + 1 /\ o <= gone)
    BY <1>3 DEF OnAir
  <2>2. t = h \/ (t = h + 1 /\ p <= 1 + gone)
    BY <1>2, <2>1
  <2>3. Len(r) = 1 /\ r[1] = EventAt(log, t)
    BY <1>1, <1>3
  <2> QED
    BY <2>2, <2>3 DEF OnAir, r
<1>4. CASE Len(q) = 1
  <2>1. s > 0 /\ q[1] = EventAt(log, s) /\ (s = h \/ (s = h + 1 /\ o <= 1 + gone))
    BY <1>4 DEF OnAir
  <2>2. Len(r) = 2 /\ r[2] = EventAt(log, t) /\ r[1] = EventAt(log, s)
    BY <1>1, <1>4, <2>1
  <2>3. \/ t = h /\ s = t
        \/ t = h + 1 /\ s = h /\ h > 0 /\ p <= 1
        \/ t = h + 1 /\ s = t /\ p <= 2 + gone
        \/ t = h + 2 /\ s = h + 1 /\ p <= 1 /\ AtLeast(h + 1) <= 1 + gone
    BY <1>2, <2>1
  <2> QED
    BY <2>2, <2>3 DEF OnAir, r
<1> QED
  BY <1>1, <1>3, <1>4

(* one is lost, *)
LEMMA AirLoses ==
  ASSUME NEW q \in Seq(TelEvents), NEW gone \in 0 .. MaxLoss, NEW h \in Nat, NEW s \in Nat,
         NEW o \in Nat, NEW log, OnAir(q, gone, h, s, o, log), q # <<>>, gone < MaxLoss,
         MaxLoss < DigitMin, MaxLoss < EndMin
  PROVE  OnAir(Tail(q), gone + 1, h, s, o, log)
<1> DEFINE r == Tail(q)
<1>1. /\ Len(q) \in {1, 2} /\ Len(r) = Len(q) - 1
      /\ Len(q) = 2 => r[1] = q[2]
  <2>1. Len(q) \in {1, 2}
    BY EmptySeq, LenProperties DEF OnAir
  <2>2. Len(r) = Len(q) - 1 /\ \A i \in 1 .. Len(r) : r[i] = q[i + 1]
    BY HeadTailProperties
  <2> QED
    BY <2>1, <2>2
<1> HIDE DEF r
<1>2. AtLeast(h + 1) \in Nat /\ AtLeast(h + 1) > gone + 1 /\ gone \in Nat
  BY TelevAssumption DEF AtLeast
<1>3. CASE Len(q) = 1
  <2>1. s = h \/ (s = h + 1 /\ o <= gone + 1)
    BY <1>2, <1>3 DEF OnAir
  <2> QED
    BY <1>1, <1>3, <2>1 DEF OnAir, r
<1>4. CASE Len(q) = 2
  <2>1. /\ s > 0 /\ q[2] = EventAt(log, s)
        /\ s = h \/ (s = h + 1 /\ o <= 1 + (gone + 1))
    BY <1>2, <1>4 DEF OnAir
  <2>2. Len(r) = 1 /\ r[1] = EventAt(log, s)
    BY <1>1, <1>4, <2>1
  <2> QED
    BY <2>1, <2>2 DEF OnAir, r
<1> QED
  BY <1>1, <1>3, <1>4

(* and one comes, of the place heard last or of the next one. *)
LEMMA AirHeard ==
  ASSUME NEW q \in Seq(TelEvents), NEW gone \in 0 .. MaxLoss, NEW h \in Nat, NEW s \in Nat,
         NEW o \in Nat, NEW log, OnAir(q, gone, h, s, o, log), q # <<>>
  PROVE  \E x \in {h, h + 1} : /\ x > 0 /\ x <= s /\ Head(q) = EventAt(log, x)
                               /\ OnAir(Tail(q), 0, x, s, o, log)
<1> DEFINE r == Tail(q)
<1>1. /\ Len(q) \in {1, 2} /\ Len(r) = Len(q) - 1
      /\ Len(q) = 2 => r[1] = q[2]
  <2>1. Len(q) \in {1, 2}
    BY EmptySeq, LenProperties DEF OnAir
  <2>2. Len(r) = Len(q) - 1 /\ \A i \in 1 .. Len(r) : r[i] = q[i + 1]
    BY HeadTailProperties
  <2> QED
    BY <2>1, <2>2
<1>2. Head(q) = q[1] /\ gone \in Nat
  BY HeadTailProperties
<1> HIDE DEF r
<1>3. CASE Len(q) = 1
  <2>1. s > 0 /\ q[1] = EventAt(log, s) /\ s \in {h, h + 1}
    BY <1>3 DEF OnAir
  <2>2. OnAir(r, 0, s, s, o, log)
    BY <1>1, <1>3 DEF OnAir
  <2> QED
    BY <1>2, <2>1, <2>2 DEF r
<1>4. CASE Len(q) = 2
  <2>0. Len(r) = 1 /\ r[1] = EventAt(log, s) /\ s > 0
    BY <1>1, <1>4 DEF OnAir
  <2>1. CASE s = h /\ q[1] = EventAt(log, s)
    <3>1. OnAir(r, 0, s, s, o, log)
      BY <2>0 DEF OnAir
    <3> QED
      BY <1>2, <2>0, <2>1, <3>1 DEF r
  <2>2. CASE s = h + 1 /\ h > 0 /\ q[1] = EventAt(log, h) /\ o <= 1
    <3>1. OnAir(r, 0, h, s, o, log)
      BY <2>0, <2>2 DEF OnAir
    <3> QED
      BY <1>2, <2>0, <2>2, <3>1 DEF r
  <2>3. CASE s = h + 1 /\ q[1] = EventAt(log, s)
    <3>1. OnAir(r, 0, s, s, o, log)
      BY <2>0 DEF OnAir
    <3> QED
      BY <1>2, <2>0, <2>3, <3>1 DEF r
  <2>4. CASE s = h + 2 /\ q[1] = EventAt(log, h + 1) /\ o <= 1
    <3>1. OnAir(r, 0, h + 1, s, o, log)
      BY <2>0, <2>4 DEF OnAir
    <3> QED
      BY <1>2, <2>0, <2>4, <3>1 DEF r
  <2>5. \/ s = h /\ q[1] = EventAt(log, s)
        \/ s = h + 1 /\ h > 0 /\ q[1] = EventAt(log, h) /\ o <= 1
        \/ s = h + 1 /\ q[1] = EventAt(log, s)
        \/ s = h + 2 /\ q[1] = EventAt(log, h + 1) /\ o <= 1
    BY <1>4 DEF OnAir
  <2> QED
    BY <2>1, <2>2, <2>3, <2>4, <2>5
<1> QED
  BY <1>1, <1>3, <1>4

(* More keys are pressed, which changes no place that was sent. *)
LEMMA AirKept ==
  ASSUME NEW q \in Seq(TelEvents), NEW gone, NEW h \in Nat, NEW s \in Nat, NEW o,
         NEW log \in Seq(Key), OnAir(q, gone, h, s, o, log), NEW k \in Key, s <= 2 * Len(log)
  PROVE  OnAir(q, gone, h, s, o, Append(log, k)) /\ h <= s
<1>1. Len(log) \in Nat
  BY LenProperties
<1>2. \A x \in 1 .. 2 * Len(log) : EventAt(Append(log, k), x) = EventAt(log, x)
  BY EventKept
<1>3. h <= s
  BY DEF OnAir
<1>4. /\ s > 0 => EventAt(Append(log, k), s) = EventAt(log, s)
      /\ h > 0 => EventAt(Append(log, k), h) = EventAt(log, h)
      /\ s = h + 2 => EventAt(Append(log, k), h + 1) = EventAt(log, h + 1)
  BY <1>1, <1>2, <1>3
<1> QED
  BY <1>3, <1>4 DEF OnAir

(* handle_telev tells a place once. *)
LEMMA HearsNext ==
  ASSUME NEW log \in Seq(Key), NEW h \in Nat, NEW r, Hears(r, log, h),
         NEW x \in {h, h + 1}, x > 0, x <= 2 * Len(log)
  PROVE  /\ Fresh(r, EventAt(log, x)) <=> x = h + 1
         /\ x = h => Remembered(EventAt(log, x)) = r
<1> DEFINE e == EventAt(log, x)
<1>1. Len(log) \in Nat
  BY LenProperties
<1>2. /\ x % 2 = 0 => x \div 2 \in 1 .. Len(log)
      /\ x % 2 # 0 => (x + 1) \div 2 \in 1 .. Len(log)
  BY <1>1
<1>3. /\ x % 2 = 0 => e.end = TRUE
      /\ x % 2 # 0 => e.end = FALSE /\ e.event \in Key /\ e.event # NoKey
  BY <1>2, ElementOfSeq, TelevAssumption DEF EventAt
<1>4. CASE x = h
  <2>1. r = Remembered(e)
    BY <1>4 DEF Hears
  <2>2. ~Fresh(r, e)
    BY <1>3, <2>1 DEF Fresh, Remembered
  <2> QED
    BY <1>4, <2>1, <2>2
<1>5. CASE x = h + 1
  <2>1. CASE x % 2 = 0
    <3>1. h # 0 /\ h % 2 # 0
      BY <1>5, <2>1
    <3>2. r.end = FALSE
      BY <3>1 DEF Hears, Remembered, EventAt
    <3> QED
      BY <1>3, <1>5, <2>1, <3>2 DEF Fresh
  <2>2. CASE x % 2 # 0
    <3>1. h % 2 = 0
      BY <1>5, <2>2
    <3>2. r.event = NoKey
      BY <3>1 DEF Hears, Remembered, EventAt
    <3> QED
      BY <1>3, <1>5, <2>2, <3>2 DEF Fresh
  <2> QED
    BY <2>1, <2>2
<1> QED
  BY <1>4, <1>5

----------------------------------------------------------------------------
(* The steps *)
LEMMA TelevInitially == TelevInit => TelevInv
<1> SUFFICES ASSUME TelevInit PROVE TelevInv
  OBVIOUS
<1> DEFINE f == [i \in 0 .. 0 |-> 0]
<1>1. /\ keys.log = <<>> /\ keys.cur = NoKey /\ tel.buf = <<>> /\ tel.pos = 0 /\ saved.on = FALSE
      /\ tel.state = "idle" /\ tel.txc = 0 /\ air.q = <<>> /\ air.lost = 0 /\ heard = <<>>
  BY DEF TelevInit, Quiet
<1>2. /\ <<>> \in Seq(Key) /\ <<>> \in Seq(Key \cup {End}) /\ <<>> \in Seq(TelEvents)
      /\ Len(<<>>) = 0
  BY EmptySeq
<1>3. keys \in [log : Seq(Key), cur : Key \cup {NoKey}, raced : BOOLEAN]
  BY <1>2 DEF TelevInit
<1>4. TelevTyped
  <2>1. tel \in [state : {"idle", "sending", "ending"}, event : Key \cup {NoKey}, txc : Nat,
                 buf : Seq(Key \cup {End}), pos : Nat]
    BY <1>2 DEF TelevInit
  <2>2. air \in [q : Seq(TelEvents), lost : 0 .. MaxLoss, fmt : BOOLEAN]
    BY <1>2, TelevAssumption DEF TelevInit
  <2>3. tel.pos \in 0 .. Len(tel.buf)
    BY <1>1, <1>2
  <2>4. heard \in Seq(TelEvents)
    BY <1>1, <1>2
  <2> QED
    BY <1>1, <2>1, <2>2, <2>3, <2>4 DEF TelevTyped
<1>5. f[0] = 0 /\ f \in [0 .. 0 -> Nat]
  OBVIOUS
<1> HIDE DEF f
<1>6. (\A i \in 0 .. 0 : i = 0) /\ 0 + 1 .. 0 = {} /\ 0 \in 0 .. 0
  OBVIOUS
<1>7. Unpolled(<<>>, 0, "idle", <<>>, NoKey, 0, f)
  BY <1>2, <1>5, <1>6 DEF Unpolled
<1>8. Polled(0)
  BY <1>1, <1>7 DEF Polled, Written, PollsAt
<1>9. Sounds(tel, keys.log, 0)
  BY <1>1 DEF Sounds
<1>10. Told(0)
  <2>1. PlaceSent(tel, 0) = 0
    BY <1>1 DEF PlaceSent
  <2>2. OnAir(air.q, air.lost, Len(heard), PlaceSent(tel, 0), Often(tel), keys.log)
    BY <1>1, <1>2, <2>1 DEF OnAir
  <2>3. Hears(telrx, keys.log, Len(heard))
    BY <1>1, <1>2 DEF Hears, TelevInit
  <2>4. 1 .. Len(heard) = {}
    BY <1>1, <1>2
  <2> QED
    BY <2>2, <2>3, <2>4 DEF Told
<1> QED
  BY <1>1, <1>3, <1>4, <1>8, <1>9, <1>10 DEF TelevInv

(* The places there are, and the numbers of a packet *)
LEMMA PlaceKnown ==
  ASSUME TelevInv, ~keys.raced, NEW n \in Nat, Polled(n), Sounds(tel, keys.log, n)
  PROVE  /\ n \in 0 .. Len(keys.log) /\ Len(keys.log) \in Nat /\ Len(heard) \in Nat
         /\ PlaceSent(tel, n) \in Nat /\ PlaceSent(tel, n) <= 2 * n
         /\ Often(tel) \in Nat
         /\ air.q \in Seq(TelEvents) /\ air.lost \in 0 .. MaxLoss /\ keys.log \in Seq(Key)
<1>1. /\ keys.log \in Seq(Key) /\ TelevTyped
  BY DEF TelevInv
<1>2. n \in 0 .. Len(keys.log)
  BY <1>1, UnpolledNext DEF Polled
<1>3. Len(keys.log) \in Nat /\ Len(heard) \in Nat
  BY <1>1, LenProperties DEF TelevTyped
<1>4. PlaceSent(tel, n) \in Nat /\ PlaceSent(tel, n) <= 2 * n
  <2>1. tel.state # "idle" => n > 0
    BY DEF Sounds
  <2> QED
    BY <2>1 DEF PlaceSent
<1>5. Often(tel) \in Nat
  BY TelevAssumption DEF Often, Sounds
<1>6. air.q \in Seq(TelEvents) /\ air.lost \in 0 .. MaxLoss
  BY <1>1 DEF TelevTyped
<1> QED
  BY <1>1, <1>2, <1>3, <1>4, <1>5, <1>6

(* What the network and the receiver know does not change with the buffer. *)
LEMMA ToldKept ==
  ASSUME TelevInv, ~keys.raced, NEW n \in Nat, Polled(n), Sounds(tel, keys.log, n), Told(n),
         UNCHANGED <<air, telrx, heard>>, tel'.state = tel.state, tel'.txc = tel.txc,
         keys'.log = keys.log \/ \E k \in Key : keys'.log = Append(keys.log, k)
  PROVE  Told(n)'
<1> DEFINE s == PlaceSent(tel, n)
           h == Len(heard)
<1>1. /\ n \in 0 .. Len(keys.log) /\ Len(keys.log) \in Nat /\ h \in Nat
      /\ s \in Nat /\ s <= 2 * n /\ Often(tel) \in Nat
      /\ air.q \in Seq(TelEvents) /\ air.lost \in 0 .. MaxLoss /\ keys.log \in Seq(Key)
  BY PlaceKnown
<1>2. /\ OnAir(air.q, air.lost, h, s, Often(tel), keys.log)
      /\ Hears(telrx, keys.log, h)
      /\ \A i \in 1 .. h : heard[i] = EventAt(keys.log, i)
  BY DEF Told
<1>3. s <= 2 * Len(keys.log)
  BY <1>1
<1>4. h <= s
  BY <1>1, <1>2 DEF OnAir
<1>5. PlaceSent(tel', n) = s /\ Often(tel') = Often(tel)
  BY DEF PlaceSent, Often
<1> HIDE DEF s
<1>6. CASE keys'.log = keys.log
  BY <1>2, <1>5, <1>6 DEF Told
<1>7. ASSUME NEW k \in Key, keys'.log = Append(keys.log, k)
      PROVE  Told(n)'
  <2>1. OnAir(air.q, air.lost, h, s, Often(tel), keys'.log)
    BY <1>1, <1>2, <1>3, <1>7, AirKept
  <2>2. \A i \in 1 .. h : i \in 1 .. 2 * Len(keys.log)
    BY <1>1, <1>3, <1>4
  <2>3. \A i \in 1 .. h : EventAt(keys'.log, i) = EventAt(keys.log, i)
    BY <1>1, <1>7, <2>2, EventKept
  <2>4. h = 0 \/ h \in 1 .. h
    BY <1>1
  <2>5. Hears(telrx, keys'.log, h)
    BY <1>2, <2>3, <2>4 DEF Hears
  <2>6. \A i \in 1 .. h : heard[i] = EventAt(keys'.log, i)
    BY <1>2, <2>3
  <2> QED
    BY <1>5, <2>1, <2>5, <2>6 DEF Told
<1> QED
  BY <1>6, <1>7

(* audio_send_digit and the first half of telev_send *)
LEMMA TelevPresses == ASSUME TelevInv, NEW k \in Key, Press(k) PROVE TelevInv'
<1>1. /\ ~saved.on /\ saved' = [on |-> TRUE, pos |-> tel.pos, code |-> k]
      /\ tel' = [tel EXCEPT !.pos = Len(tel.buf)]
      /\ keys' = [keys EXCEPT !.log = Append(@, k), !.cur = k]
      /\ UNCHANGED <<air, telrx, heard>>
  BY DEF Press, telev_send
<1>2. /\ keys' \in [log : Seq(Key), cur : Key \cup {NoKey}, raced : BOOLEAN]
      /\ keys'.log = Append(keys.log, k) /\ keys'.cur = k /\ keys'.raced = keys.raced
      /\ keys.log \in Seq(Key)
  BY <1>1, AppendProperties DEF TelevInv
<1>3. CASE keys.raced
  BY <1>2, <1>3 DEF TelevInv
<1>4. CASE ~keys.raced
  <2>1. /\ TelevTyped
        /\ \E n \in Nat : /\ Polled(n) /\ Sounds(tel, keys.log, n)
                          /\ IF air.fmt THEN Told(n) ELSE air.q = <<>> /\ heard = <<>>
    BY <1>4 DEF TelevInv
  <2>2. PICK n \in Nat : /\ Polled(n) /\ Sounds(tel, keys.log, n)
                         /\ IF air.fmt THEN Told(n) ELSE air.q = <<>> /\ heard = <<>>
    BY <2>1
  <2>3. /\ tel'.state = tel.state /\ tel'.txc = tel.txc /\ tel'.event = tel.event
        /\ tel'.buf = tel.buf /\ tel'.pos = Len(tel.buf) /\ Len(tel.buf) \in Nat
        /\ tel' \in [state : {"idle", "sending", "ending"}, event : Key \cup {NoKey},
                     txc : Nat, buf : Seq(Key \cup {End}), pos : Nat]
        /\ saved'.on = TRUE /\ saved'.pos = tel.pos /\ saved'.code = k
    BY <1>1, <2>1, LenProperties DEF TelevTyped
  <2>4. TelevTyped'
    BY <1>1, <2>1, <2>3 DEF TelevTyped
  <2>5. Polled(n)'
    <3>1. PICK f : Unpolled(tel.buf, tel.pos, tel.state, keys.log, keys.cur, n, f)
      BY <1>1, <2>2 DEF Polled, Written, PollsAt
    <3>2. \E g : Unpolled(Append(tel.buf, k), tel.pos, tel.state, Append(keys.log, k), k, n, g)
      BY <1>2, <3>1, UnpolledPress
    <3> QED
      BY <1>2, <2>3, <3>2 DEF Polled, Written, PollsAt
  <2>6. Sounds(tel, keys.log, n)'
    <3>1. n \in 0 .. Len(keys.log)
      BY <1>4, <2>2, PlaceKnown
    <3>2. n > 0 => keys'.log[n] = keys.log[n]
      <4>1. n > 0 => n \in 1 .. Len(keys.log)
        BY <3>1
      <4> QED
        BY <1>2, <4>1, AppendProperties
    <3> QED
      BY <2>2, <2>3, <3>2 DEF Sounds
  <2>7. (IF air.fmt THEN Told(n) ELSE air.q = <<>> /\ heard = <<>>)'
    <3>1. CASE air.fmt
      <4>1. Told(n)'
        BY <1>1, <1>2, <1>4, <2>2, <2>3, <3>1, ToldKept
      <4> QED
        BY <1>1, <3>1, <4>1
    <3>2. CASE ~air.fmt
      BY <1>1, <2>2, <3>2
    <3> QED
      BY <3>1, <3>2
  <2> QED
    BY <1>2, <2>4, <2>5, <2>6, <2>7 DEF TelevInv
<1> QED
  BY <1>3, <1>4

LEMMA TelevReleases == ASSUME TelevInv, Release PROVE TelevInv'
<1>1. /\ ~saved.on /\ saved' = [on |-> TRUE, pos |-> tel.pos, code |-> End]
      /\ tel' = [tel EXCEPT !.pos = Len(tel.buf)]
      /\ keys' = [keys EXCEPT !.cur = NoKey] /\ keys.cur # NoKey
      /\ UNCHANGED <<air, telrx, heard>>
  BY DEF Release, telev_send
<1>2. /\ keys' \in [log : Seq(Key), cur : Key \cup {NoKey}, raced : BOOLEAN]
      /\ keys'.log = keys.log /\ keys'.cur = NoKey /\ keys'.raced = keys.raced
      /\ keys.log \in Seq(Key)
  BY <1>1 DEF TelevInv
<1>3. CASE keys.raced
  BY <1>2, <1>3 DEF TelevInv
<1>4. CASE ~keys.raced
  <2>1. /\ TelevTyped
        /\ \E n \in Nat : /\ Polled(n) /\ Sounds(tel, keys.log, n)
                          /\ IF air.fmt THEN Told(n) ELSE air.q = <<>> /\ heard = <<>>
    BY <1>4 DEF TelevInv
  <2>2. PICK n \in Nat : /\ Polled(n) /\ Sounds(tel, keys.log, n)
                         /\ IF air.fmt THEN Told(n) ELSE air.q = <<>> /\ heard = <<>>
    BY <2>1
  <2>3. /\ tel'.state = tel.state /\ tel'.txc = tel.txc /\ tel'.event = tel.event
        /\ tel'.buf = tel.buf /\ tel'.pos = Len(tel.buf) /\ Len(tel.buf) \in Nat
        /\ tel' \in [state : {"idle", "sending", "ending"}, event : Key \cup {NoKey},
                     txc : Nat, buf : Seq(Key \cup {End}), pos : Nat]
        /\ saved'.on = TRUE /\ saved'.pos = tel.pos /\ saved'.code = End
    BY <1>1, <2>1, LenProperties DEF TelevTyped
  <2>4. TelevTyped'
    BY <1>1, <2>1, <2>3 DEF TelevTyped
  <2>5. Polled(n)'
    <3>1. PICK f : Unpolled(tel.buf, tel.pos, tel.state, keys.log, keys.cur, n, f)
      BY <1>1, <2>2 DEF Polled, Written, PollsAt
    <3>2. \E g : Unpolled(Append(tel.buf, End), tel.pos, tel.state, keys.log, NoKey, n, g)
      BY <1>1, <1>2, <3>1, UnpolledRelease
    <3> QED
      BY <1>2, <2>3, <3>2 DEF Polled, Written, PollsAt
  <2>6. Sounds(tel, keys.log, n)'
    BY <1>2, <2>2, <2>3 DEF Sounds
  <2>7. (IF air.fmt THEN Told(n) ELSE air.q = <<>> /\ heard = <<>>)'
    <3>1. CASE air.fmt
      <4>1. Told(n)'
        BY <1>1, <1>2, <1>4, <2>2, <2>3, <3>1, ToldKept
      <4> QED
        BY <1>1, <3>1, <4>1
    <3>2. CASE ~air.fmt
      BY <1>1, <2>2, <3>2
    <3> QED
      BY <3>1, <3>2
  <2> QED
    BY <1>2, <2>4, <2>5, <2>6, <2>7 DEF TelevInv
<1> QED
  BY <1>3, <1>4

(* The rest of telev_send *)
LEMMA TelevWrites == ASSUME TelevInv, SendRest PROVE TelevInv'
<1>1. /\ saved.on /\ saved' = Quiet
      /\ tel' = [tel EXCEPT !.pos = saved.pos,
                   !.buf = SubSeq(@, 1, tel.pos) \o <<saved.code>>]
      /\ UNCHANGED <<keys, air, telrx, heard>>
  BY DEF SendRest
<1>3. CASE keys.raced
  BY <1>1, <1>3 DEF TelevInv
<1>4. CASE ~keys.raced
  <2>1. /\ TelevTyped
        /\ \E n \in Nat : /\ Polled(n) /\ Sounds(tel, keys.log, n)
                          /\ IF air.fmt THEN Told(n) ELSE air.q = <<>> /\ heard = <<>>
    BY <1>4 DEF TelevInv
  <2>2. PICK n \in Nat : /\ Polled(n) /\ Sounds(tel, keys.log, n)
                         /\ IF air.fmt THEN Told(n) ELSE air.q = <<>> /\ heard = <<>>
    BY <2>1
  <2>3. PICK f : Unpolled(Append(tel.buf, saved.code), saved.pos, tel.state, keys.log, keys.cur,
                          n, f)
    BY <1>1, <2>2 DEF Polled, Written, PollsAt
  <2>4. /\ saved.code \in Key \cup {End} /\ tel.pos = Len(tel.buf)
        /\ tel.buf \in Seq(Key \cup {End})
    BY <1>1, <2>1 DEF TelevTyped
  <2>5. SubSeq(tel.buf, 1, tel.pos) \o <<saved.code>> = Append(tel.buf, saved.code)
    <3>1. SubSeq(tel.buf, 1, Len(tel.buf)) = tel.buf
      BY <2>4, SubSeqFull
    <3>2. Append(tel.buf, saved.code) = tel.buf \o <<saved.code>>
      BY <2>4, AppendIsConcat
    <3> QED
      BY <2>4, <3>1, <3>2
  <2>6. /\ saved.pos \in 0 .. Len(Append(tel.buf, saved.code))
        /\ Append(tel.buf, saved.code) \in Seq(Key \cup {End}) /\ saved.pos \in Nat
    <3>1. /\ Append(tel.buf, saved.code) \in Seq(Key \cup {End})
          /\ saved.pos \in 0 .. Len(Append(tel.buf, saved.code))
      BY <2>3 DEF Unpolled
    <3> QED
      BY <3>1, LenProperties
  <2>7. /\ tel'.state = tel.state /\ tel'.txc = tel.txc /\ tel'.event = tel.event
        /\ tel'.buf = Append(tel.buf, saved.code) /\ tel'.pos = saved.pos
        /\ tel' \in [state : {"idle", "sending", "ending"}, event : Key \cup {NoKey},
                     txc : Nat, buf : Seq(Key \cup {End}), pos : Nat]
        /\ saved'.on = FALSE
    BY <1>1, <2>1, <2>5, <2>6 DEF TelevTyped, Quiet
  <2>8. TelevTyped'
    BY <1>1, <2>1, <2>6, <2>7 DEF TelevTyped
  <2>9. Polled(n)'
    BY <1>1, <2>3, <2>7 DEF Polled, Written, PollsAt
  <2>10. Sounds(tel, keys.log, n)'
    BY <1>1, <2>2, <2>7 DEF Sounds
  <2>11. (IF air.fmt THEN Told(n) ELSE air.q = <<>> /\ heard = <<>>)'
    <3>1. CASE air.fmt
      <4>1. Told(n)'
        BY <1>1, <1>4, <2>2, <2>7, <3>1, ToldKept
      <4> QED
        BY <1>1, <3>1, <4>1
    <3>2. CASE ~air.fmt
      BY <1>1, <2>2, <3>2
    <3> QED
      BY <3>1, <3>2
  <2> QED
    BY <1>1, <2>8, <2>9, <2>10, <2>11 DEF TelevInv
<1> QED
  BY <1>3, <1>4

(* A packet of the next place, or of the last one again, leaves, if there  *)
(* is a format for it.                                                     *)
LEMMA ToldMore ==
  ASSUME TelevInv, ~keys.raced, MaxLoss < DigitMin, MaxLoss < EndMin, NEW n \in Nat,
         Polled(n), Sounds(tel, keys.log, n), Told(n), Len(air.q) < 2,
         keys'.log = keys.log, UNCHANGED <<telrx, heard>>, NEW m \in Nat,
         NEW event, NEW end, Transmit(event, end), air.fmt,
         m > 0, m <= Len(keys.log),
         PlaceSent(tel', m) \in Nat, PlaceSent(tel', m) > 0, PlaceSent(tel', m) <= 2 * m,
         [event |-> event, end |-> end] = EventAt(keys.log, PlaceSent(tel', m)),
         Often(tel') \in Nat,
         \/ PlaceSent(tel', m) = PlaceSent(tel, n) /\ Often(tel') <= Often(tel) + 1
         \/ /\ PlaceSent(tel', m) = PlaceSent(tel, n) + 1 /\ Often(tel') <= 1
            /\ PlaceSent(tel, n) > 0 => AtLeast(PlaceSent(tel, n)) <= Often(tel)
  PROVE  Told(m)' /\ air' \in [q : Seq(TelEvents), lost : 0 .. MaxLoss, fmt : BOOLEAN]
         /\ air'.fmt = air.fmt
<1> DEFINE s == PlaceSent(tel, n)
           t == PlaceSent(tel', m)
           e == EventAt(keys.log, t)
<1>1. /\ Len(keys.log) \in Nat /\ Len(heard) \in Nat /\ s \in Nat /\ Often(tel) \in Nat
      /\ air.q \in Seq(TelEvents) /\ air.lost \in 0 .. MaxLoss /\ keys.log \in Seq(Key)
  BY PlaceKnown
<1>2. air \in [q : Seq(TelEvents), lost : 0 .. MaxLoss, fmt : BOOLEAN]
  BY DEF TelevInv, TelevTyped
<1>3. air' = [air EXCEPT !.q = Append(air.q, e)]
  BY DEF Transmit
<1>4. t \in 1 .. 2 * Len(keys.log)
  BY <1>1
<1>5. e \in TelEvents
  <2>1. Key # {}
    <3>1. m \in 1 .. Len(keys.log)
      BY <1>1
    <3> QED
      BY <1>1, <3>1, ElementOfSeq
  <2> QED
    BY <1>1, <1>4, <2>1, EventKept
<1>6. /\ OnAir(air.q, air.lost, Len(heard), s, Often(tel), keys.log)
      /\ Hears(telrx, keys.log, Len(heard))
      /\ \A i \in 1 .. Len(heard) : heard[i] = EventAt(keys.log, i)
  BY DEF Told
<1>7. OnAir(Append(air.q, e), air.lost, Len(heard), t, Often(tel'), keys.log)
  <2> HIDE DEF s, t
  <2> QED
    BY <1>1, <1>4, <1>5, <1>6, AirSends DEF s, t
<1> HIDE DEF s, t, e
<1>8. Append(air.q, e) \in Seq(TelEvents)
  BY <1>1, <1>5, AppendProperties
<1>9. /\ air' \in [q : Seq(TelEvents), lost : 0 .. MaxLoss, fmt : BOOLEAN]
      /\ air'.q = Append(air.q, e) /\ air'.lost = air.lost /\ air'.fmt = air.fmt
  BY <1>2, <1>3, <1>8
<1> QED
  BY <1>6, <1>7, <1>9 DEF Told, t

(* A poll after n keys were taken out of the buffer: m are now, and the    *)
(* packet is of the place that was sent last, or of the next one.          *)
GoesOn(n, m) ==
  /\ m > 0 /\ m <= Len(keys.log)
  /\ \E g : Unpolled(tel'.buf, tel'.pos, tel'.state, keys.log, keys.cur, m, g)
  /\ Sounds(tel', keys.log, m)
  /\ tel' \in [state : {"idle", "sending", "ending"}, event : Key \cup {NoKey}, txc : Nat,
              buf : Seq(Key \cup {End}), pos : Nat]
  /\ PlaceSent(tel', m) \in Nat /\ PlaceSent(tel', m) > 0 /\ PlaceSent(tel', m) <= 2 * m
  /\ Often(tel') \in Nat
  /\ \/ PlaceSent(tel', m) = PlaceSent(tel, n) /\ Often(tel') <= Often(tel) + 1
     \/ /\ PlaceSent(tel', m) = PlaceSent(tel, n) + 1 /\ Often(tel') <= 1
        /\ PlaceSent(tel, n) > 0 => AtLeast(PlaceSent(tel, n)) <= Often(tel)
  /\ \E event, end : /\ Transmit(event, end)
                     /\ [event |-> event, end |-> end] = EventAt(keys.log, PlaceSent(tel', m))

LEMMA AtLeastOf ==
  ASSUME NEW n \in Nat
  PROVE  AtLeast(2 * n) = EndMin /\ (n > 0 => AtLeast(2 * n - 1) = DigitMin)
<1>1. (2 * n) % 2 = 0 /\ (n > 0 => (2 * n - 1) % 2 # 0)
  OBVIOUS
<1> QED
  BY <1>1 DEF AtLeast

(* A key begins, *)
LEMMA PollsIdle ==
  ASSUME tel \in [state : {"idle", "sending", "ending"}, event : Key \cup {NoKey}, txc : Nat,
                 buf : Seq(Key \cup {End}), pos : Nat],
         tel.pos \in 0 .. Len(tel.buf), keys.log \in Seq(Key),
         NEW n \in Nat, Sounds(tel, keys.log, n),
         NEW f, Unpolled(tel.buf, tel.pos, tel.state, keys.log, keys.cur, n, f), PollIdle
  PROVE  GoesOn(n, n + 1)
<1>1. /\ tel.state = "idle" /\ tel.pos < Len(tel.buf) /\ Len(tel.buf) \in Nat
      /\ Len(keys.log) \in Nat
      /\ Transmit(Next1, FALSE)
      /\ tel' = [tel EXCEPT !.pos = @ + 1, !.event = Next1, !.state = "sending", !.txc = 1]
  BY LenProperties DEF PollIdle, Waiting
<1>2. /\ tel.buf[tel.pos + 1] # End /\ f[tel.pos + 1] = n + 1 /\ n + 1 \in 1 .. Len(keys.log)
      /\ tel.buf[tel.pos + 1] = keys.log[n + 1] /\ Next1 = keys.log[n + 1]
  BY <1>1, UnpolledNext DEF Next1
<1>3. keys.log[n + 1] \in Key
  BY <1>2, ElementOfSeq
<1>4. /\ tel'.state = "sending" /\ tel'.txc = 1 /\ tel'.buf = tel.buf /\ tel'.pos = tel.pos + 1
      /\ tel'.event = keys.log[n + 1]
      /\ tel' \in [state : {"idle", "sending", "ending"}, event : Key \cup {NoKey}, txc : Nat,
                  buf : Seq(Key \cup {End}), pos : Nat]
  <2>1. tel' = [tel EXCEPT !.pos = tel.pos + 1, !.event = keys.log[n + 1], !.state = "sending",
                 !.txc = 1]
    BY <1>1, <1>2
  <2>2. tel.pos + 1 \in Nat
    OBVIOUS
  <2> QED
    BY <1>3, <2>1, <2>2
<1>5. Unpolled(tel'.buf, tel'.pos, tel'.state, keys.log, keys.cur, n + 1, f)
  <2>1. Unpolled(tel.buf, tel.pos + 1, "sending", keys.log, keys.cur, f[tel.pos + 1], f)
    BY <1>1, <1>2, UnpolledTake
  <2> QED
    BY <1>2, <1>4, <2>1
<1>6. Sounds(tel', keys.log, n + 1)
  BY <1>4 DEF Sounds
<1>7. PlaceSent(tel', n + 1) = 2 * (n + 1) - 1 /\ PlaceSent(tel, n) = 2 * n /\ Often(tel') = 1
      /\ Often(tel) = EndMin
  BY <1>1, <1>4 DEF PlaceSent, Often
<1>8. [event |-> Next1, end |-> FALSE] = EventAt(keys.log, PlaceSent(tel', n + 1))
  <2>1. n + 1 \in Nat \ {0}
    OBVIOUS
  <2>2. EventAt(keys.log, 2 * (n + 1) - 1) = [event |-> keys.log[n + 1], end |-> FALSE]
    BY <2>1, EventOfKey
  <2> QED
    BY <1>2, <1>7, <2>2
<1>9. AtLeast(PlaceSent(tel, n)) <= Often(tel)
  BY <1>7, AtLeastOf, TelevAssumption
<1>10. /\ PlaceSent(tel', n + 1) \in Nat /\ PlaceSent(tel', n + 1) > 0
       /\ PlaceSent(tel', n + 1) <= 2 * (n + 1) /\ PlaceSent(tel', n + 1) = PlaceSent(tel, n) + 1
       /\ Often(tel') \in Nat /\ Often(tel') <= 1 /\ n + 1 > 0 /\ n + 1 <= Len(keys.log)
  BY <1>1, <1>2, <1>7
<1> QED
  BY <1>1, <1>4, <1>5, <1>6, <1>8, <1>9, <1>10 DEF GoesOn

(* sounds on, until it was long enough and something waits, *)
LEMMA PollsSending ==
  ASSUME tel \in [state : {"idle", "sending", "ending"}, event : Key \cup {NoKey}, txc : Nat,
                 buf : Seq(Key \cup {End}), pos : Nat],
         tel.pos \in 0 .. Len(tel.buf), keys.log \in Seq(Key),
         NEW n \in Nat, Sounds(tel, keys.log, n),
         NEW f, Unpolled(tel.buf, tel.pos, tel.state, keys.log, keys.cur, n, f), PollSending
  PROVE  GoesOn(n, n)
<1>1. /\ tel.state = "sending" /\ Transmit(tel.event, FALSE)
      /\ tel' = IF tel.txc + 1 < DigitMin THEN [tel EXCEPT !.txc = @ + 1]
                ELSE IF ~Waiting THEN tel
                ELSE [tel EXCEPT !.state = "ending", !.txc = 0,
                        !.pos = IF Next1 = End THEN @ + 1 ELSE @]
      /\ Len(tel.buf) \in Nat /\ Len(keys.log) \in Nat
      /\ DigitMin \in Nat
  BY LenProperties, TelevAssumption DEF PollSending
<1>2. /\ n > 0 /\ n <= Len(keys.log) /\ tel.event = keys.log[n] /\ tel.txc \in Nat /\ tel.txc > 0
      /\ tel.pos < Len(tel.buf) /\ tel.buf[tel.pos + 1] = End => f[tel.pos + 1] = n
  BY <1>1, UnpolledNext DEF Sounds
<1>3. PlaceSent(tel, n) = 2 * n - 1 /\ Often(tel) = tel.txc
  BY <1>1, <1>2 DEF PlaceSent, Often
<1>4. /\ tel'.event = tel.event /\ tel'.buf = tel.buf
      /\ tel' \in [state : {"idle", "sending", "ending"}, event : Key \cup {NoKey}, txc : Nat,
                  buf : Seq(Key \cup {End}), pos : Nat]
      /\ \/ /\ tel'.state = "sending" /\ tel'.txc \in {tel.txc, tel.txc + 1} /\ tel'.pos = tel.pos
         \/ /\ tel'.state = "ending" /\ tel'.txc = 0 /\ tel.txc + 1 >= DigitMin
            /\ tel.pos < Len(tel.buf)
            /\ tel'.pos = IF tel.buf[tel.pos + 1] = End THEN tel.pos + 1 ELSE tel.pos
  <2>1. CASE tel.txc + 1 < DigitMin
    <3>1. tel' = [tel EXCEPT !.txc = tel.txc + 1] /\ tel.txc + 1 \in Nat
      BY <1>1, <1>2, <2>1
    <3> QED
      BY <1>1, <3>1
  <2>2. CASE ~(tel.txc + 1 < DigitMin) /\ ~Waiting
    BY <1>1, <2>2
  <2>3. CASE ~(tel.txc + 1 < DigitMin) /\ Waiting
    <3>1. tel.pos < Len(tel.buf) /\ tel.txc + 1 >= DigitMin
      BY <1>1, <1>2, <2>3 DEF Waiting
    <3>2. tel' = [tel EXCEPT !.state = "ending", !.txc = 0,
                    !.pos = IF tel.buf[tel.pos + 1] = End THEN tel.pos + 1 ELSE tel.pos]
      BY <1>1, <2>3 DEF Next1
    <3>3. (IF tel.buf[tel.pos + 1] = End THEN tel.pos + 1 ELSE tel.pos) \in Nat
      OBVIOUS
    <3> QED
      BY <3>1, <3>2, <3>3
  <2> QED
    BY <2>1, <2>2, <2>3
<1>5. Unpolled(tel'.buf, tel'.pos, tel'.state, keys.log, keys.cur, n, f)
  <2>1. CASE tel'.state = "sending"
    BY <1>1, <1>4, <2>1
  <2>2. CASE tel'.state = "ending" /\ tel.buf[tel.pos + 1] = End
    <3>1. tel.pos < Len(tel.buf)
      BY <1>4, <2>2
    <3>2. Unpolled(tel.buf, tel.pos + 1, "ending", keys.log, keys.cur, f[tel.pos + 1], f)
      BY <2>2, <3>1, UnpolledTake
    <3> QED
      BY <1>2, <1>4, <2>2, <3>1, <3>2
  <2>3. CASE tel'.state = "ending" /\ tel.buf[tel.pos + 1] # End
    <3>1. tel.pos < Len(tel.buf)
      BY <1>4, <2>3
    <3>2. Unpolled(tel.buf, tel.pos, "ending", keys.log, keys.cur, n, f)
      BY <2>3, <3>1, UnpolledEnds
    <3> QED
      BY <1>4, <2>3, <3>2
  <2> QED
    BY <1>4, <2>1, <2>2, <2>3
<1>6. Sounds(tel', keys.log, n)
  BY <1>2, <1>4 DEF Sounds
<1>7. PlaceSent(tel', n) = 2 * n - 1 /\ Often(tel') \in Nat /\ Often(tel') <= Often(tel) + 1
  BY <1>1, <1>2, <1>3, <1>4 DEF PlaceSent, Often
<1>8. [event |-> tel.event, end |-> FALSE] = EventAt(keys.log, PlaceSent(tel', n))
  <2>1. n \in Nat \ {0}
    BY <1>2
  <2>2. EventAt(keys.log, 2 * n - 1) = [event |-> keys.log[n], end |-> FALSE]
    BY <2>1, EventOfKey
  <2> QED
    BY <1>2, <1>7, <2>2
<1>9. /\ PlaceSent(tel', n) \in Nat /\ PlaceSent(tel', n) > 0 /\ PlaceSent(tel', n) <= 2 * n
      /\ PlaceSent(tel', n) = PlaceSent(tel, n)
  BY <1>2, <1>3, <1>7
<1> QED
  BY <1>1, <1>2, <1>4, <1>5, <1>6, <1>7, <1>8, <1>9 DEF GoesOn

(* and its end is sent. *)
LEMMA PollsEnding ==
  ASSUME tel \in [state : {"idle", "sending", "ending"}, event : Key \cup {NoKey}, txc : Nat,
                 buf : Seq(Key \cup {End}), pos : Nat],
         tel.pos \in 0 .. Len(tel.buf), keys.log \in Seq(Key),
         NEW n \in Nat, Sounds(tel, keys.log, n),
         NEW f, Unpolled(tel.buf, tel.pos, tel.state, keys.log, keys.cur, n, f), PollEnding
  PROVE  GoesOn(n, n)
<1>1. /\ tel.state = "ending" /\ Transmit(tel.event, TRUE)
      /\ tel' = IF ~Ended(tel) THEN [tel EXCEPT !.txc = @ + 1]
                ELSE IF Waiting THEN [tel EXCEPT !.state = "idle"]
                ELSE [tel EXCEPT !.state = "idle", !.pos = 0, !.buf = <<>>]
      /\ Len(tel.buf) \in Nat /\ Len(keys.log) \in Nat
      /\ DigitMin \in Nat /\ EndMin \in Nat /\ EndMin > 0 /\ DigitMin > 0
  <2>1. DigitMin \in Nat /\ EndMin \in Nat /\ EndMin > 0 /\ DigitMin > 0
    BY TelevAssumption
  <2>2. Len(tel.buf) \in Nat /\ Len(keys.log) \in Nat
    BY LenProperties
  <2> QED
    BY <2>1, <2>2 DEF PollEnding
<1>2. /\ n > 0 /\ n <= Len(keys.log) /\ tel.event = keys.log[n] /\ tel.txc \in Nat
  BY <1>1, UnpolledNext DEF Sounds
<1>3. <<>> \in Seq(Key \cup {End})
  BY EmptySeq
<1>4. /\ tel'.event = tel.event
      /\ tel' \in [state : {"idle", "sending", "ending"}, event : Key \cup {NoKey}, txc : Nat,
                  buf : Seq(Key \cup {End}), pos : Nat]
      /\ \/ /\ tel'.state = "ending" /\ tel'.txc = tel.txc + 1 /\ tel'.pos = tel.pos
            /\ tel'.buf = tel.buf
         \/ /\ tel'.state = "idle" /\ tel'.txc = tel.txc /\ tel.txc + 1 >= EndMin
            /\ tel'.pos = tel.pos /\ tel'.buf = tel.buf
         \/ /\ tel'.state = "idle" /\ tel'.txc = tel.txc /\ tel.txc + 1 >= EndMin
            /\ tel.pos = Len(tel.buf) /\ tel'.pos = 0 /\ tel'.buf = <<>>
  <2>1. CASE ~Ended(tel)
    <3>1. tel' = [tel EXCEPT !.txc = tel.txc + 1] /\ tel.txc + 1 \in Nat
      BY <1>1, <1>2, <2>1
    <3> QED
      BY <1>1, <3>1
  <2>2. CASE Ended(tel) /\ Waiting
    <3>1. tel' = [tel EXCEPT !.state = "idle"] /\ tel.txc + 1 >= EndMin
      BY <1>1, <2>2 DEF Ended
    <3> QED
      BY <3>1
  <2>3. CASE Ended(tel) /\ ~Waiting
    <3>1. tel' = [tel EXCEPT !.state = "idle", !.pos = 0, !.buf = <<>>] /\ tel.txc + 1 >= EndMin
      BY <1>1, <2>3 DEF Ended
    <3>2. tel.pos = Len(tel.buf)
      BY <1>1, <2>3 DEF Waiting
    <3> QED
      BY <1>3, <3>1, <3>2
  <2> QED
    BY <2>1, <2>2, <2>3
<1>5. \E g : Unpolled(tel'.buf, tel'.pos, tel'.state, keys.log, keys.cur, n, g)
  <2> DEFINE to == tel'.state
  <2> HIDE DEF to
  <2>1. CASE tel'.pos = tel.pos /\ tel'.buf = tel.buf
    <3>1. Unpolled(tel.buf, tel.pos, to, keys.log, keys.cur, n, f)
      BY <1>1, UnpolledEnds
    <3> QED
      BY <2>1, <3>1 DEF to
  <2>2. CASE tel.pos = Len(tel.buf) /\ tel'.pos = 0 /\ tel'.buf = <<>>
    <3>1. \E g : Unpolled(<<>>, 0, to, keys.log, keys.cur, n, g)
      BY <1>1, <2>2, UnpolledReset
    <3> QED
      BY <2>2, <3>1 DEF to
  <2> QED
    BY <1>4, <2>1, <2>2
<1>6. Sounds(tel', keys.log, n)
  BY <1>2, <1>4 DEF Sounds
<1>7. PlaceSent(tel', n) = 2 * n /\ Often(tel') \in Nat
  BY <1>1, <1>2, <1>4 DEF PlaceSent, Often
<1>8. \/ PlaceSent(tel', n) = PlaceSent(tel, n) /\ Often(tel') <= Often(tel) + 1
      \/ /\ PlaceSent(tel', n) = PlaceSent(tel, n) + 1 /\ Often(tel') <= 1
         /\ AtLeast(PlaceSent(tel, n)) <= Often(tel)
  <2>1. CASE tel.txc = 0
    <3>1. PlaceSent(tel, n) = 2 * n - 1 /\ Often(tel) = DigitMin
      BY <1>1, <2>1 DEF PlaceSent, Often
    <3>2. Often(tel') <= 1
      BY <1>1, <1>4, <2>1 DEF Often
    <3>3. AtLeast(PlaceSent(tel, n)) = DigitMin
      BY <1>2, <3>1, AtLeastOf
    <3>4. PlaceSent(tel', n) = PlaceSent(tel, n) + 1
      BY <1>2, <1>7, <3>1
    <3> QED
      BY <1>1, <3>1, <3>2, <3>3, <3>4
  <2>2. CASE tel.txc # 0
    <3>1. PlaceSent(tel, n) = 2 * n /\ Often(tel) = tel.txc
      BY <1>1, <2>2 DEF PlaceSent, Often
    <3>2. Often(tel') <= tel.txc + 1
      BY <1>1, <1>2, <1>4, <2>2 DEF Often
    <3> QED
      BY <1>7, <3>1, <3>2
  <2> QED
    BY <2>1, <2>2
<1>9. [event |-> tel.event, end |-> TRUE] = EventAt(keys.log, PlaceSent(tel', n))
  <2>1. n \in Nat \ {0}
    BY <1>2
  <2>2. EventAt(keys.log, 2 * n) = [event |-> keys.log[n], end |-> TRUE]
    BY <2>1, EventOfKey
  <2> QED
    BY <1>2, <1>7, <2>2
<1>10. PlaceSent(tel', n) \in Nat /\ PlaceSent(tel', n) > 0 /\ PlaceSent(tel', n) <= 2 * n
  BY <1>2, <1>7
<1> QED
  BY <1>1, <1>2, <1>4, <1>5, <1>6, <1>7, <1>8, <1>9, <1>10 DEF GoesOn

(* telev_poll, as long as no telev_send is under way *)
LEMMA TelevPolls ==
  ASSUME TelevInv, MaxLoss < DigitMin, MaxLoss < EndMin, telev_poll
  PROVE  TelevInv'
<1>1. /\ Len(air.q) < 2
      /\ PollIdle \/ PollSending \/ PollEnding
      /\ keys' = [keys EXCEPT !.raced = @ \/ saved.on]
      /\ UNCHANGED <<saved, telrx, heard>>
  BY DEF telev_poll
<1>2. /\ keys' \in [log : Seq(Key), cur : Key \cup {NoKey}, raced : BOOLEAN]
      /\ keys'.log = keys.log /\ keys'.cur = keys.cur
      /\ ~keys'.raced => ~keys.raced /\ ~saved.on
      /\ keys.log \in Seq(Key)
  <2>1. keys \in [log : Seq(Key), cur : Key \cup {NoKey}, raced : BOOLEAN]
    BY DEF TelevInv
  <2>2. keys'.raced = (keys.raced \/ saved.on)
    BY <1>1, <2>1
  <2> QED
    BY <1>1, <2>1, <2>2
<1>3. CASE keys'.raced
  BY <1>2, <1>3 DEF TelevInv
<1>4. CASE ~keys'.raced
  <2>1. /\ TelevTyped /\ ~keys.raced /\ ~saved.on
        /\ \E n \in Nat : /\ Polled(n) /\ Sounds(tel, keys.log, n)
                          /\ IF air.fmt THEN Told(n) ELSE air.q = <<>> /\ heard = <<>>
    BY <1>2, <1>4 DEF TelevInv
  <2>2. PICK n \in Nat : /\ Polled(n) /\ Sounds(tel, keys.log, n)
                         /\ IF air.fmt THEN Told(n) ELSE air.q = <<>> /\ heard = <<>>
    BY <2>1
  <2>3. PICK f : Unpolled(tel.buf, tel.pos, tel.state, keys.log, keys.cur, n, f)
    BY <2>1, <2>2 DEF Polled, Written, PollsAt
  <2>4. /\ n \in 0 .. Len(keys.log) /\ tel.pos \in 0 .. Len(tel.buf)
        /\ tel.pos < Len(tel.buf) =>
             /\ IF tel.buf[tel.pos + 1] = End THEN tel.state = "sending" /\ f[tel.pos + 1] = n
                ELSE /\ f[tel.pos + 1] = n + 1 /\ n + 1 \in 1 .. Len(keys.log)
                     /\ tel.buf[tel.pos + 1] = keys.log[n + 1]
    BY <1>2, <2>3, UnpolledNext
  <2>5. /\ tel \in [state : {"idle", "sending", "ending"}, event : Key \cup {NoKey}, txc : Nat,
                   buf : Seq(Key \cup {End}), pos : Nat]
        /\ Len(tel.buf) \in Nat /\ Len(keys.log) \in Nat
        /\ air \in [q : Seq(TelEvents), lost : 0 .. MaxLoss, fmt : BOOLEAN]
        /\ DigitMin \in Nat \ {0} /\ EndMin \in Nat \ {0}
    BY <1>2, <2>1, LenProperties, TelevAssumption DEF TelevTyped
  <2>6. \E m \in Nat : GoesOn(n, m)
    <3>1. CASE PollIdle
      BY <1>2, <2>2, <2>3, <2>4, <2>5, <3>1, PollsIdle
    <3>2. CASE PollSending
      BY <1>2, <2>2, <2>3, <2>4, <2>5, <3>2, PollsSending
    <3>3. CASE PollEnding
      BY <1>2, <2>2, <2>3, <2>4, <2>5, <3>3, PollsEnding
    <3> QED
      BY <1>1, <3>1, <3>2, <3>3
  <2>7. PICK m \in Nat : GoesOn(n, m)
    BY <2>6
  <2>8. PICK event, end : /\ Transmit(event, end)
                          /\ [event |-> event, end |-> end] = EventAt(keys.log, PlaceSent(tel', m))
    BY <2>7 DEF GoesOn
  <2>9. /\ (IF air.fmt THEN Told(m) ELSE air.q = <<>> /\ heard = <<>>)'
        /\ air' \in [q : Seq(TelEvents), lost : 0 .. MaxLoss, fmt : BOOLEAN]
    <3>1. CASE air.fmt
      <4>1. /\ Told(m)' /\ air'.fmt = air.fmt
            /\ air' \in [q : Seq(TelEvents), lost : 0 .. MaxLoss, fmt : BOOLEAN]
        BY <1>1, <1>2, <2>1, <2>2, <2>7, <2>8, <3>1, ToldMore DEF GoesOn
      <4> QED
        BY <3>1, <4>1
    <3>2. CASE ~air.fmt
      <4>1. air' = air
        BY <2>8, <3>2 DEF Transmit
      <4> QED
        BY <1>1, <2>2, <2>5, <3>2, <4>1
    <3> QED
      BY <3>1, <3>2
  <2>10. Polled(m)'
    BY <1>1, <1>2, <2>1, <2>7 DEF GoesOn, Polled, Written, PollsAt
  <2>11. TelevTyped'
    <3>1. tel'.pos \in 0 .. Len(tel'.buf)
      BY <2>7 DEF GoesOn, Unpolled
    <3> QED
      BY <1>1, <2>1, <2>7, <2>9, <3>1 DEF GoesOn, TelevTyped
  <2> QED
    BY <1>2, <2>7, <2>9, <2>10, <2>11 DEF GoesOn, TelevInv
<1> QED
  BY <1>3, <1>4

(* A packet is lost: MaxLoss in a row are fewer than there are of an event. *)
LEMMA TelevLoses ==
  ASSUME TelevInv, MaxLoss < DigitMin, MaxLoss < EndMin, TelevLose
  PROVE  TelevInv'
<1>1. /\ air.q # <<>> /\ air.lost < MaxLoss
      /\ air' = [air EXCEPT !.q = Tail(@), !.lost = @ + 1]
      /\ UNCHANGED <<keys, tel, saved, telrx, heard>>
  BY DEF TelevLose
<1>2. CASE keys.raced
  BY <1>1, <1>2 DEF TelevInv
<1>3. CASE ~keys.raced
  <2>1. /\ TelevTyped
        /\ \E n \in Nat : /\ Polled(n) /\ Sounds(tel, keys.log, n)
                          /\ IF air.fmt THEN Told(n) ELSE air.q = <<>> /\ heard = <<>>
    BY <1>3 DEF TelevInv
  <2>2. PICK n \in Nat : /\ Polled(n) /\ Sounds(tel, keys.log, n)
                         /\ IF air.fmt THEN Told(n) ELSE air.q = <<>> /\ heard = <<>>
    BY <2>1
  <2>3. Told(n) /\ air.fmt
    BY <1>1, <2>2
  <2>4. /\ Len(keys.log) \in Nat /\ Len(heard) \in Nat /\ PlaceSent(tel, n) \in Nat
        /\ Often(tel) \in Nat
        /\ air.q \in Seq(TelEvents) /\ air.lost \in 0 .. MaxLoss /\ keys.log \in Seq(Key)
    BY <1>3, <2>2, PlaceKnown
  <2>5. Tail(air.q) \in Seq(TelEvents)
    BY <1>1, <2>4, HeadTailProperties
  <2>6. air.lost + 1 \in 0 .. MaxLoss
    BY <1>1, <2>4, TelevAssumption
  <2>7. /\ air' \in [q : Seq(TelEvents), lost : 0 .. MaxLoss, fmt : BOOLEAN]
        /\ air'.q = Tail(air.q) /\ air'.lost = air.lost + 1 /\ air'.fmt = air.fmt
    <3>1. air \in [q : Seq(TelEvents), lost : 0 .. MaxLoss, fmt : BOOLEAN]
      BY <2>1 DEF TelevTyped
    <3> QED
      BY <1>1, <2>5, <2>6, <3>1
  <2>8. OnAir(Tail(air.q), air.lost + 1, Len(heard), PlaceSent(tel, n), Often(tel), keys.log)
    BY <1>1, <2>3, <2>4, AirLoses DEF Told
  <2>9. Told(n)'
    BY <1>1, <2>3, <2>7, <2>8 DEF Told
  <2>10. TelevTyped'
    BY <1>1, <2>1, <2>7 DEF TelevTyped
  <2>11. Polled(n)'
    BY <1>1, <2>2 DEF Polled, Written, PollsAt
  <2>12. Sounds(tel, keys.log, n)'
    BY <1>1, <2>2
  <2>13. keys' \in [log : Seq(Key), cur : Key \cup {NoKey}, raced : BOOLEAN]
    BY <1>1 DEF TelevInv
  <2> QED
    BY <2>3, <2>7, <2>9, <2>10, <2>11, <2>12, <2>13 DEF TelevInv
<1> QED
  BY <1>2, <1>3

(* handle_telev: the packet is of the place that was heard last or of the  *)
(* next one, and telev_recv tells the two apart.                           *)
LEMMA TelevHears == ASSUME TelevInv, HandleTelev PROVE TelevInv'
<1> DEFINE fmt == Head(air.q)
           fresh == IF fmt.end THEN ~telrx.end ELSE fmt.event # telrx.event
<1>1. /\ air.q # <<>>
      /\ heard' = IF fresh THEN Append(heard, fmt) ELSE heard
      /\ telrx' = IF ~fresh THEN telrx
                  ELSE [event |-> IF fmt.end THEN NoKey ELSE fmt.event, end |-> fmt.end]
      /\ air' = [air EXCEPT !.q = Tail(@), !.lost = 0]
      /\ UNCHANGED <<keys, tel, saved>>
  BY DEF HandleTelev
<1>2. fresh <=> Fresh(telrx, fmt)
  BY DEF Fresh
<1>3. telrx' = IF ~fresh THEN telrx ELSE Remembered(fmt)
  BY <1>1 DEF Remembered
<1> HIDE DEF fresh
<1>4. CASE keys.raced
  BY <1>1, <1>4 DEF TelevInv
<1>5. CASE ~keys.raced
  <2>1. /\ TelevTyped
        /\ \E n \in Nat : /\ Polled(n) /\ Sounds(tel, keys.log, n)
                          /\ IF air.fmt THEN Told(n) ELSE air.q = <<>> /\ heard = <<>>
    BY <1>5 DEF TelevInv
  <2>2. PICK n \in Nat : /\ Polled(n) /\ Sounds(tel, keys.log, n)
                         /\ IF air.fmt THEN Told(n) ELSE air.q = <<>> /\ heard = <<>>
    BY <2>1
  <2>3. Told(n) /\ air.fmt
    BY <1>1, <2>2
  <2>4. /\ n \in 0 .. Len(keys.log) /\ Len(keys.log) \in Nat /\ Len(heard) \in Nat
        /\ PlaceSent(tel, n) \in Nat /\ PlaceSent(tel, n) <= 2 * n /\ Often(tel) \in Nat
        /\ air.q \in Seq(TelEvents) /\ air.lost \in 0 .. MaxLoss /\ keys.log \in Seq(Key)
    BY <1>5, <2>2, PlaceKnown
  <2>5. Tail(air.q) \in Seq(TelEvents) /\ fmt \in TelEvents
    BY <1>1, <2>4, HeadTailProperties
  <2>6. /\ air' \in [q : Seq(TelEvents), lost : 0 .. MaxLoss, fmt : BOOLEAN]
        /\ air'.q = Tail(air.q) /\ air'.lost = 0 /\ air'.fmt = air.fmt
    <3>1. air \in [q : Seq(TelEvents), lost : 0 .. MaxLoss, fmt : BOOLEAN]
      BY <2>1 DEF TelevTyped
    <3>2. 0 \in 0 .. MaxLoss
      BY TelevAssumption
    <3> QED
      BY <1>1, <2>5, <3>1, <3>2
  <2>7. OnAir(air.q, air.lost, Len(heard), PlaceSent(tel, n), Often(tel), keys.log)
        /\ Hears(telrx, keys.log, Len(heard))
        /\ \A i \in 1 .. Len(heard) : heard[i] = EventAt(keys.log, i)
    BY <2>3 DEF Told
  <2>8. PICK x \in {Len(heard), Len(heard) + 1} :
          /\ x > 0 /\ x <= PlaceSent(tel, n) /\ fmt = EventAt(keys.log, x)
          /\ OnAir(Tail(air.q), 0, x, PlaceSent(tel, n), Often(tel), keys.log)
    <3>1. /\ air.q # <<>>
          /\ OnAir(air.q, air.lost, Len(heard), PlaceSent(tel, n), Often(tel), keys.log)
      BY <1>1, <2>7
    <3>2. \E x \in {Len(heard), Len(heard) + 1} :
             /\ x > 0 /\ x <= PlaceSent(tel, n) /\ Head(air.q) = EventAt(keys.log, x)
             /\ OnAir(Tail(air.q), 0, x, PlaceSent(tel, n), Often(tel), keys.log)
      BY <2>4, <3>1, AirHeard
    <3> QED
      BY <3>2
  <2>9. x <= 2 * Len(keys.log) /\ x \in Nat
    <3> HIDE DEF fmt
    <3>1. x \in Nat
      BY <2>4, <2>8
    <3> QED
      BY <2>4, <2>8, <3>1
  <2>10. /\ fresh <=> x = Len(heard) + 1
         /\ x = Len(heard) => Remembered(fmt) = telrx
    BY <1>2, <2>4, <2>7, <2>8, <2>9, HearsNext
  <2>11. /\ heard' \in Seq(TelEvents) /\ Len(heard') = x
         /\ \A i \in 1 .. x : heard'[i] = EventAt(keys.log, i)
    <3>1. CASE fresh
      <4>1. heard' = Append(heard, fmt) /\ heard \in Seq(TelEvents) /\ x = Len(heard) + 1
        BY <1>1, <2>1, <2>10, <3>1 DEF TelevTyped
      <4>2. /\ heard' \in Seq(TelEvents) /\ Len(heard') = Len(heard) + 1
            /\ heard'[Len(heard) + 1] = fmt
            /\ \A i \in 1 .. Len(heard) : heard'[i] = heard[i]
        BY <2>5, <4>1, AppendProperties
      <4>3. \A i \in 1 .. x : i = x \/ i \in 1 .. Len(heard)
        BY <2>4, <4>1
      <4> QED
        BY <2>7, <2>8, <4>1, <4>2, <4>3
    <3>2. CASE ~fresh
      <4>1. heard' = heard /\ x = Len(heard)
        BY <1>1, <2>8, <2>10, <3>2
      <4> QED
        BY <2>1, <2>7, <4>1 DEF TelevTyped
    <3> QED
      BY <3>1, <3>2
  <2>12. Hears(telrx', keys.log, x)
    <3>1. telrx' = Remembered(EventAt(keys.log, x))
      BY <1>3, <2>8, <2>10
    <3> QED
      BY <2>8, <3>1 DEF Hears
  <2>13. Told(n)'
    BY <1>1, <2>6, <2>8, <2>11, <2>12 DEF Told
  <2>14. TelevTyped'
    BY <1>1, <2>1, <2>6, <2>11 DEF TelevTyped
  <2>15. Polled(n)' /\ Sounds(tel, keys.log, n)'
    BY <1>1, <2>2 DEF Polled, Written, PollsAt
  <2>16. keys' \in [log : Seq(Key), cur : Key \cup {NoKey}, raced : BOOLEAN]
    BY <1>1 DEF TelevInv
  <2> QED
    BY <2>3, <2>6, <2>13, <2>14, <2>15, <2>16 DEF TelevInv
<1> QED
  BY <1>4, <1>5

LEMMA TelevStep ==
  ASSUME TelevInv, MaxLoss < DigitMin, MaxLoss < EndMin, [TelevNext]_televVars
  PROVE  TelevInv'
<1>1. CASE \E k \in Key : Press(k)
  BY <1>1, TelevPresses
<1>2. CASE Release
  BY <1>2, TelevReleases
<1>3. CASE SendRest
  BY <1>3, TelevWrites
<1>4. CASE telev_poll
  BY <1>4, TelevPolls
<1>5. CASE TelevLose
  BY <1>5, TelevLoses
<1>6. CASE HandleTelev
  BY <1>6, TelevHears
<1>7. CASE UNCHANGED televVars
  <2>1. UNCHANGED <<keys, tel, saved, air, telrx, heard>>
    BY <1>7 DEF televVars
  <2>2. TelevTyped' = TelevTyped
    BY <2>1 DEF TelevTyped
  <2>3. \A n \in Nat : /\ Polled(n)' = Polled(n) /\ Told(n)' = Told(n)
                      /\ Sounds(tel, keys.log, n)' = Sounds(tel, keys.log, n)
    BY <2>1 DEF Polled, Written, PollsAt, Told
  <2> QED
    BY <2>1, <2>2, <2>3 DEF TelevInv
<1> QED
  BY <1>1, <1>2, <1>3, <1>4, <1>5, <1>6, <1>7 DEF TelevNext

LEMMA TelevHeard == ASSUME TelevInv PROVE KeysHeard
<1> SUFFICES ASSUME ~keys.raced
             PROVE  IsPrefix(heard, Events(keys.log))
  BY DEF KeysHeard
<1>1. /\ TelevTyped
      /\ \E n \in Nat : /\ Polled(n) /\ Sounds(tel, keys.log, n)
                        /\ IF air.fmt THEN Told(n) ELSE air.q = <<>> /\ heard = <<>>
  BY DEF TelevInv
<1>2. PICK n \in Nat : /\ Polled(n) /\ Sounds(tel, keys.log, n)
                       /\ IF air.fmt THEN Told(n) ELSE air.q = <<>> /\ heard = <<>>
  BY <1>1
<1>3. /\ n \in 0 .. Len(keys.log) /\ Len(keys.log) \in Nat /\ Len(heard) \in Nat
      /\ PlaceSent(tel, n) \in Nat /\ PlaceSent(tel, n) <= 2 * n
  BY <1>2, PlaceKnown
<1> DEFINE L == 2 * Len(keys.log)
           e == Events(keys.log)
<1>4. /\ Len(heard) <= L
      /\ \A i \in 1 .. Len(heard) : heard[i] = EventAt(keys.log, i)
  <2>1. CASE air.fmt
    <3>1. Told(n)
      BY <1>2, <2>1
    <3>2. Len(heard) <= PlaceSent(tel, n)
      BY <1>3, <3>1 DEF Told, OnAir
    <3> QED
      BY <1>3, <3>1, <3>2 DEF Told
  <2>2. CASE ~air.fmt
    <3>1. heard = <<>>
      BY <1>2, <2>2
    <3> QED
      BY <1>3, <3>1, EmptySeq
  <2> QED
    BY <2>1, <2>2
<1>5. /\ e \in Seq(TelEvents) /\ Len(e) = L
      /\ \A i \in 1 .. L : e[i] = EventAt(keys.log, i)
  <2>1. DOMAIN e = 1 .. L /\ L \in Nat
    BY <1>3 DEF Events
  <2>2. ASSUME NEW i \in 1 .. L
        PROVE  e[i] = EventAt(keys.log, i)
    <3>1. e[i] = [event |-> keys.log[(i + 1) \div 2], end |-> i % 2 = 0]
      BY DEF Events
    <3>2. i % 2 = 0 => (i + 1) \div 2 = i \div 2
      BY <1>3
    <3> QED
      BY <3>1, <3>2 DEF EventAt
  <2>3. ASSUME NEW i \in 1 .. L
        PROVE  e[i] \in TelEvents
    <3>1. 1 \in 1 .. Len(keys.log)
      BY <1>3
    <3>2. keys.log \in Seq(Key) /\ keys.log[1] \in Key
      BY <3>1, ElementOfSeq DEF TelevInv
    <3> QED
      BY <2>2, <3>2, EventKept
  <2>4. e \in [1 .. L -> TelEvents]
    <3>1. e = [i \in 1 .. L |-> e[i]]
      BY DEF Events
    <3> HIDE DEF e, L
    <3> QED
      BY <2>3, <3>1
  <2>5. e \in Seq(TelEvents)
    BY <2>1, <2>4, SeqDef
  <2>6. Len(e) = L
    <3>1. Len(e) \in Nat /\ DOMAIN e = 1 .. Len(e)
      BY <2>5, LenProperties
    <3> HIDE DEF e, L
    <3> QED
      BY <2>1, <3>1
  <2> QED
    BY <2>2, <2>5, <2>6
<1> HIDE DEF e, L
<1> DEFINE p == SubSeq(heard, 1, Len(heard))
           r == SubSeq(e, 1, Len(heard))
<1>6. heard \in Seq(TelEvents) /\ p = heard
  BY <1>1, SubSeqFull DEF TelevTyped
<1>7. /\ r \in Seq(TelEvents) /\ Len(r) = Len(heard)
      /\ \A i \in 1 .. Len(heard) : r[i] = e[i]
  <2> DEFINE h == Len(heard)
  <2>1. \A i \in 1 .. h : e[i] \in TelEvents
    <3>1. \A i \in 1 .. h : i \in 1 .. Len(e)
      BY <1>3, <1>4, <1>5
    <3> QED
      BY <1>5, <3>1, ElementOfSeq
  <2>2. h \in Int /\ 1 \in Int /\ h >= 0
    BY <1>3
  <2> HIDE DEF h
  <2>3. /\ SubSeq(e, 1, h) \in Seq(TelEvents)
        /\ Len(SubSeq(e, 1, h)) = IF 1 <= h THEN h - 1 + 1 ELSE 0
        /\ \A i \in 1 .. h - 1 + 1 : SubSeq(e, 1, h)[i] = e[1 + i - 1]
    BY <2>1, <2>2, SubSeqProperties
  <2>4. h - 1 + 1 = h /\ (IF 1 <= h THEN h - 1 + 1 ELSE 0) = h
        /\ \A i \in 1 .. h : 1 + i - 1 = i
    BY <2>2
  <2> QED
    BY <2>3, <2>4 DEF h
<1> HIDE DEF r, p
<1>8. \A i \in 1 .. Len(heard) : heard[i] = r[i]
  <2>1. \A i \in 1 .. Len(heard) : i \in 1 .. L
    <3>1. L \in Nat
      BY <1>3 DEF L
    <3> QED
      BY <1>3, <1>4, <3>1
  <2> QED
    BY <1>4, <1>5, <1>7, <2>1
<1>9. heard = r
  BY <1>6, <1>7, <1>8, SeqEqual
<1> QED
  BY <1>4, <1>5, <1>6, <1>9 DEF IsPrefix, e, p, r

(* However short the presses are and whichever packets are lost, the peer  *)
(* hears the keys that were pressed, in order, each once and with its end: *)
(* telev_poll sends an event more often than the network loses in a row,   *)
(* and telev_recv tells the repetitions from the next event.  It holds as  *)
(* long as no press runs into a poll (telev_send moves the position of the *)
(* buffer that telev_poll reads).                                          *)
THEOREM KeysKept ==
  MaxLoss < DigitMin /\ MaxLoss < EndMin => (TelevSpec => []KeysHeard)
<1> SUFFICES ASSUME MaxLoss < DigitMin, MaxLoss < EndMin
             PROVE  TelevSpec => []KeysHeard
  OBVIOUS
<1>1. TelevInit => TelevInv
  BY TelevInitially
<1>2. TelevInv /\ [TelevNext]_televVars => TelevInv'
  BY TelevStep
<1>3. TelevInv => KeysHeard
  BY TelevHeard
<1> QED
  BY <1>1, <1>2, <1>3, PTL DEF TelevSpec
=============================================================================
