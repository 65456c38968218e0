-------------------------- MODULE TransportProofs --------------------------
(***************************************************************************)
(* Proofs about the connections under the SIP stack and about the paths to *)
(* a peer: the connections of the SIP transport, the DNS client, the       *)
(* connectivity checks of ICE and the discovery of NATs.                   *)
(***************************************************************************)
EXTENDS MCNet, SequenceTheorems, FiniteSetTheorems, TLAPS

(* A member of a list is taken out (list_unlink). *)
LEMMA Removed ==
  ASSUME NEW S, NEW f \in Seq(S), NEW p \in 1 .. Len(f)
  PROVE  /\ RemoveAt(f, p) \in Seq(S) /\ Len(RemoveAt(f, p)) = Len(f) - 1
         /\ \A i \in 1 .. Len(f) - 1 :
              RemoveAt(f, p)[i] = IF i < p THEN f[i] ELSE f[i + 1]
<1>1. Len(f) \in Nat
  BY LenProperties
<1>2. Len(RemoveAt(f, p)) = Len(f) - 1
  <2>1. Len(SubSeq(f, 1, p - 1)) = p - 1 /\ SubSeq(f, 1, p - 1) \in Seq(S)
    BY <1>1
  <2>2. Len(SubSeq(f, p + 1, Len(f))) = Len(f) - p /\ SubSeq(f, p + 1, Len(f)) \in Seq(S)
    BY <1>1
  <2>3. Len(RemoveAt(f, p)) = Len(SubSeq(f, 1, p - 1)) + Len(SubSeq(f, p + 1, Len(f)))
    BY <2>1, <2>2, ConcatProperties DEF RemoveAt
  <2>4. (p - 1) + (Len(f) - p) = Len(f) - 1
    BY <1>1
  <2> QED
    BY <2>1, <2>2, <2>3, <2>4
<1>3. \A i \in 1 .. Len(f) - 1 : RemoveAt(f, p)[i] = IF i < p THEN f[i] ELSE f[i + 1]
  <2> TAKE i \in 1 .. Len(f) - 1
  <2>1. CASE i < p
    <3> DEFINE a == SubSeq(f, 1, p - 1)
               b == SubSeq(f, p + 1, Len(f))
    <3>1. a \in Seq(S) /\ b \in Seq(S) /\ RemoveAt(f, p) = a \o b
      BY <1>1 DEF RemoveAt
    <3>2. Len(a) = p - 1 /\ Len(b) = Len(f) - p /\ a[i] = f[i]
      BY <1>1, <2>1
    <3> HIDE DEF a, b
    <3>3. i \in 1 .. Len(a) + Len(b) /\ i <= Len(a)
      BY <1>1, <2>1, <3>2
    <3>4. (a \o b)[i] = a[i]
      BY <3>1, <3>3, ConcatProperties
    <3> QED
      BY <2>1, <3>1, <3>2, <3>4
  <2>2. CASE ~(i < p)
    <3>1. Len(SubSeq(f, 1, p - 1)) = p - 1 /\ ~(i <= p - 1)
      BY <1>1, <2>2
    <3>2. i - (p - 1) \in 1 .. Len(f) - p /\ (p + 1) + (i - (p - 1)) - 1 = i + 1
      BY <1>1, <2>2
    <3>3. Len(SubSeq(f, p + 1, Len(f))) = Len(f) - p
      BY <1>1
    <3>4. RemoveAt(f, p)[i] = SubSeq(f, p + 1, Len(f))[i - (p - 1)]
      <4> DEFINE a == SubSeq(f, 1, p - 1)
                 b == SubSeq(f, p + 1, Len(f))
      <4>1. a \in Seq(S) /\ b \in Seq(S) /\ RemoveAt(f, p) = a \o b
        BY <1>1 DEF RemoveAt
      <4>2. Len(a) = p - 1 /\ Len(b) = Len(f) - p
        BY <3>1, <3>3
      <4> HIDE DEF a, b
      <4>3. \A j \in 1 .. Len(a) + Len(b) :
              (a \o b)[j] = IF j <= Len(a) THEN a[j] ELSE b[j - Len(a)]
        BY <4>1, ConcatProperties
      <4>4. i \in 1 .. Len(a) + Len(b)
        BY <1>1, <4>2
      <4>5. RemoveAt(f, p)[i] = b[i - (p - 1)]
        BY <3>1, <4>1, <4>2, <4>3, <4>4
      <4> QED
        BY <4>5 DEF b
    <3>5. SubSeq(f, p + 1, Len(f))[i - (p - 1)] = f[(p + 1) + (i - (p - 1)) - 1]
      BY <1>1, <3>2
    <3> QED
      BY <2>2, <3>2, <3>4, <3>5
  <2> QED
    BY <2>1, <2>2
<1>4. RemoveAt(f, p) \in Seq(S)
  BY DEF RemoveAt
<1> QED
  BY <1>2, <1>3, <1>4

(* The members of a list, and that none is there twice *)
El(l) == {l[i] : i \in 1 .. Len(l)}
NoTwice(l) == \A i, j \in 1 .. Len(l) : l[i] = l[j] => i = j

LEMMA ElFacts ==
  ASSUME NEW S, NEW l \in Seq(S)
  PROVE  /\ El(l) \subseteq S /\ Len(l) \in Nat
         /\ l = <<>> <=> El(l) = {}
         /\ l # <<>> => l[1] \in El(l) /\ 1 \in 1 .. Len(l)
<1>1. Len(l) \in Nat /\ \A i \in 1 .. Len(l) : l[i] \in S
  BY LenProperties, ElementOfSeq
<1>2. l = <<>> <=> Len(l) = 0
  BY EmptySeq
<1>3. Len(l) # 0 => 1 \in 1 .. Len(l)
  BY <1>1
<1>4. Len(l) = 0 => 1 .. Len(l) = {}
  BY <1>1
<1> QED
  BY <1>1, <1>2, <1>3, <1>4 DEF El

(* A list grows (list_append). *)
LEMMA Appended ==
  ASSUME NEW S, NEW l \in Seq(S), NEW x \in S, NoTwice(l), x \notin El(l)
  PROVE  /\ Append(l, x) \in Seq(S) /\ El(Append(l, x)) = El(l) \cup {x}
         /\ NoTwice(Append(l, x)) /\ Append(l, x) # <<>>
         /\ Len(Append(l, x)) = Len(l) + 1
<1> DEFINE m == Append(l, x)
<1>1. Len(l) \in Nat
  BY LenProperties
<1>2. /\ m \in Seq(S) /\ Len(m) = Len(l) + 1
      /\ \A i \in 1 .. Len(l) : m[i] = l[i]
      /\ m[Len(l) + 1] = x
  BY AppendProperties
<1> HIDE DEF m
<1>3. \A i \in 1 .. Len(m) : i \in 1 .. Len(l) \/ i = Len(l) + 1
  BY <1>1, <1>2
<1>4. (\A i \in 1 .. Len(l) : i \in 1 .. Len(m)) /\ Len(l) + 1 \in 1 .. Len(m)
  BY <1>1, <1>2
<1>5. El(m) = El(l) \cup {x}
  BY <1>2, <1>3, <1>4 DEF El
<1>6. NoTwice(m)
  <2> SUFFICES ASSUME NEW i \in 1 .. Len(m), NEW j \in 1 .. Len(m), m[i] = m[j] PROVE i = j
    BY DEF NoTwice
  <2>1. \A k \in 1 .. Len(l) : m[k] # x
    BY <1>2 DEF El
  <2> QED
    BY <1>2, <1>3, <2>1 DEF NoTwice
<1>7. m # <<>>
  BY <1>1, <1>2, EmptySeq
<1> QED
  BY <1>2, <1>5, <1>6, <1>7 DEF m

(* A member leaves. *)
LEMMA RemovedOnce ==
  ASSUME NEW S, NEW l \in Seq(S), NoTwice(l), NEW p \in 1 .. Len(l)
  PROVE  /\ RemoveAt(l, p) \in Seq(S) /\ El(RemoveAt(l, p)) = El(l) \ {l[p]}
         /\ NoTwice(RemoveAt(l, p)) /\ Len(RemoveAt(l, p)) = Len(l) - 1
<1> DEFINE m == RemoveAt(l, p)
<1>1. Len(l) \in Nat
  BY LenProperties
<1>2. /\ m \in Seq(S) /\ Len(m) = Len(l) - 1
      /\ \A i \in 1 .. Len(l) - 1 : m[i] = IF i < p THEN l[i] ELSE l[i + 1]
  BY Removed
<1> HIDE DEF m
<1> DEFINE old(i) == IF i < p THEN i ELSE i + 1
<1>3. \A i \in 1 .. Len(m) : old(i) \in 1 .. Len(l) /\ old(i) # p /\ m[i] = l[old(i)]
  BY <1>1, <1>2
<1>4. \A i, j \in 1 .. Len(m) : old(i) = old(j) => i = j
  BY <1>1, <1>2
<1>5. \A j \in 1 .. Len(l) : j # p => \E i \in 1 .. Len(m) : old(i) = j
  <2> SUFFICES ASSUME NEW j \in 1 .. Len(l), j # p
               PROVE  \E i \in 1 .. Len(m) : old(i) = j
    OBVIOUS
  <2>1. CASE j < p
    <3>1. j \in 1 .. Len(m) /\ old(j) = j
      BY <1>1, <1>2, <2>1
    <3> QED
      BY <3>1
  <2>2. CASE ~(j < p)
    <3>1. j - 1 \in 1 .. Len(m) /\ old(j - 1) = j
      BY <1>1, <1>2, <2>2
    <3> QED
      BY <3>1
  <2> QED
    BY <2>1, <2>2
<1> HIDE DEF old
<1>6. El(m) = El(l) \ {l[p]}
  <2>1. \A x \in El(m) : x \in El(l) /\ x # l[p]
    BY <1>3 DEF El, NoTwice
  <2>2. \A x \in El(l) : x # l[p] => x \in El(m)
    <3> SUFFICES ASSUME NEW j \in 1 .. Len(l), l[j] # l[p] PROVE l[j] \in El(m)
      BY DEF El
    <3>1. PICK i \in 1 .. Len(m) : old(i) = j
      BY <1>5
    <3> QED
      BY <1>3, <3>1 DEF El
  <2> QED
    BY <2>1, <2>2
<1>7. NoTwice(m)
  BY <1>3, <1>4 DEF NoTwice
<1> QED
  BY <1>2, <1>6, <1>7 DEF m

(* The first member leaves: what is left is the tail. *)
LEMMA RemovedFirst ==
  ASSUME NEW S, NEW l \in Seq(S), l # <<>>
  PROVE  RemoveAt(l, 1) = Tail(l) /\ Tail(l) \in Seq(S)
<1>1. Len(l) \in Nat /\ Len(l) # 0
  BY LenProperties, EmptySeq
<1>2. 1 \in 1 .. Len(l)
  BY <1>1
<1>3. /\ RemoveAt(l, 1) \in Seq(S) /\ Len(RemoveAt(l, 1)) = Len(l) - 1
      /\ \A i \in 1 .. Len(l) - 1 : RemoveAt(l, 1)[i] = IF i < 1 THEN l[i] ELSE l[i + 1]
  BY <1>2, Removed
<1>4. \A i \in 1 .. Len(l) - 1 : RemoveAt(l, 1)[i] = l[i + 1]
  BY <1>1, <1>3
<1>5. Tail(l) \in Seq(S) /\ Len(Tail(l)) = Len(l) - 1
      /\ \A i \in 1 .. Len(Tail(l)) : Tail(l)[i] = l[i + 1]
  BY HeadTailProperties
<1> QED
  BY <1>3, <1>4, <1>5, SeqEqual

(* What Unlink does to a queue *)
LEMMA Unlinked ==
  ASSUME NEW S, NEW l \in Seq(S), NoTwice(l), NEW t
  PROVE  /\ Unlink(l, t) \in Seq(S) /\ El(Unlink(l, t)) = El(l) \ {t}
         /\ NoTwice(Unlink(l, t))
         /\ l # <<>> /\ l[1] = t => Unlink(l, t) = Tail(l)
<1> DEFINE at == {i \in DOMAIN l : l[i] = t}
           p == CHOOSE i \in at : TRUE
<1>1. DOMAIN l = 1 .. Len(l) /\ Len(l) \in Nat
  BY LenProperties
<1>2. CASE at = {}
  <2>1. Unlink(l, t) = l /\ t \notin El(l)
    BY <1>1, <1>2 DEF Unlink, El
  <2>2. l = <<>> \/ l[1] \in El(l)
    BY ElFacts
  <2> QED
    BY <2>1, <2>2
<1>3. CASE at # {}
  <2>1. p \in 1 .. Len(l) /\ l[p] = t
    BY <1>1, <1>3
  <2>2. Unlink(l, t) = RemoveAt(l, p)
    BY <1>3 DEF Unlink
  <2> HIDE DEF p, at
  <2>3. l # <<>> /\ l[1] = t => p = 1
    BY <1>1, <2>1, ElFacts DEF NoTwice
  <2> QED
    BY <2>1, <2>2, <2>3, RemovedOnce, RemovedFirst
<1> QED
  BY <1>2, <1>3

(* The entry after the first one *)
LEMMA AfterFirst ==
  ASSUME NEW S, NEW l \in Seq(S), NoTwice(l), l # <<>>
  PROVE  /\ After(l, l[1]) = First(Tail(l))
         /\ Successor(l, l[1]) = HeadOf(Tail(l))
<1> DEFINE later == {i \in 2 .. Len(l) : l[i - 1] = l[1]}
<1>1. Len(l) \in Nat /\ Len(l) # 0
  BY LenProperties, EmptySeq
<1>2. Tail(l) \in Seq(S) /\ Len(Tail(l)) = Len(l) - 1
      /\ \A i \in 1 .. Len(Tail(l)) : Tail(l)[i] = l[i + 1]
  BY HeadTailProperties
<1>3. \A i \in later : i = 2
  <2> SUFFICES ASSUME NEW i \in 2 .. Len(l), l[i - 1] = l[1] PROVE i = 2
    OBVIOUS
  <2>1. i - 1 \in 1 .. Len(l) /\ 1 \in 1 .. Len(l)
    BY <1>1
  <2>2. i - 1 = 1
    BY <2>1 DEF NoTwice
  <2> QED
    BY <2>2
<1>4. CASE Len(l) = 1
  <2>1. later = {}
    BY <1>1, <1>4
  <2>2. Tail(l) = <<>>
    <3>1. Len(Tail(l)) = 0
      BY <1>2, <1>4
    <3> QED
      BY <1>2, <3>1, EmptySeq
  <2> QED
    BY <2>1, <2>2 DEF After, Successor, First, Successor, HeadOf
<1>5. CASE Len(l) # 1
  <2>1. 2 \in later
    <3>1. \A n \in Nat : n # 0 /\ n # 1 => 2 \in 2 .. n
      OBVIOUS
    <3>2. 2 \in 2 .. Len(l)
      BY <1>1, <1>5, <3>1
    <3>3. 2 - 1 = 1
      OBVIOUS
    <3> QED
      BY <3>2, <3>3
  <2>2. (CHOOSE i \in later : TRUE) = 2
    BY <2>1, <1>3
  <2>3. After(l, l[1]) = l[2] /\ Successor(l, l[1]) = l[2]
    BY <2>1, <2>2 DEF After, Successor
  <2>4. Tail(l)[1] = l[2] /\ Tail(l) # <<>>
    <3>1. 1 \in 1 .. Len(Tail(l)) /\ Len(Tail(l)) # 0 /\ 1 + 1 = 2
      BY <1>1, <1>2, <1>5
    <3>2. Tail(l) # <<>>
      BY <1>2, <3>1, EmptySeq
    <3> QED
      BY <1>2, <3>1, <3>2
  <2> QED
    BY <2>3, <2>4 DEF First, HeadOf
<1> QED
  BY <1>4, <1>5

----------------------------------------------------------------------------
(* The connections of the SIP transport *)

ConnType ==
  [st : {"none", "live", "freed"}, peer : Peer \cup {"nil"},
   tc : BOOLEAN, hashed : BOOLEAN, established : BOOLEAN, ql : Seq(Tx),
   tmr : BOOLEAN, tmr_ka : BOOLEAN, refs : Nat, held : 0 .. MaxHeld, flushed : BOOLEAN]
WalkType ==
  [op : {"none", "estab", "close"}, c : Conn \cup {NoConn},
   cur : Tx \cup {NoTx}, next : Tx \cup {NoTx}]
TxState == {"idle", "active", "canceled", "reply", "ended"}

(* What a connection is like: it is found while it has its socket, unless  *)
(* it was flushed.  The stack owns it as long as it has the socket and     *)
(* while conn_close works on it, and a flush takes one reference, of the   *)
(* stack or of a message.  One that is gone has nothing, and messages wait *)
(* on one that is connecting, or that a loop works on.                     *)
Own(x, closing) == IF x.tc \/ closing THEN 1 ELSE 0
Taken(x) == IF x.flushed THEN 1 ELSE 0
Fits(x, closing, walked) ==
  /\ x.hashed <=> x.tc /\ ~x.flushed
  /\ x.tmr \/ x.tmr_ka => x.tc
  /\ x.tc => x.st = "live" /\ ~closing
  /\ x.st # "live" => x.ql = <<>> /\ (x.held = 0 \/ x.flushed)
  /\ x.st = "live" => x.refs > 0 /\ x.refs + Taken(x) = x.held + Own(x, closing)
  /\ x.ql # <<>> /\ ~walked => x.tc /\ ~x.established
  /\ NoTwice(x.ql)

Closing(c) == walk.op = "close" /\ walk.c = c
ConnsFit == \A c \in Conn : Fits(conn[c], Closing(c), walk.c = c)

(* What a message is like *)
On(t, c) == t \in El(conn[c].ql)
TxsFit == \A t \in Tx :
  /\ \A c, d \in Conn : On(t, c) /\ On(t, d) => c = d
  /\ \A c \in Conn : On(t, c) => tx[t] # "idle"
  /\ qentp[t] => (\E c \in Conn : On(t, c)) /\ walk.cur # t
  /\ tx[t] \in {"active", "canceled"} /\ (\E c \in Conn : On(t, c)) =>
       qentp[t] \/ walk.cur = t

(* A loop works on the first entry, or will take it next: the queue it     *)
(* walks gets no new ones.                                                 *)
WalkFits ==
  /\ Idle => walk = NoWalk
  /\ ~Idle =>
       /\ walk.c \in Conn /\ Live(walk.c)
       /\ walk.op = "estab" => conn[walk.c].established /\ conn[walk.c].tc
       /\ walk.cur = NoTx => walk.next = First(conn[walk.c].ql)
       /\ walk.cur # NoTx => /\ conn[walk.c].ql # <<>> /\ conn[walk.c].ql[1] = walk.cur
                             /\ walk.next = First(Tail(conn[walk.c].ql))

KaFits == \A k \in Ka : ka[k] \in Conn =>
  /\ Live(ka[k])
  /\ Closing(ka[k]) \/ (conn[ka[k]].tc /\ conn[ka[k]].tmr_ka)

(* The inductive invariant of the transport *)
TranspInv ==
  TranspTypeOK /\ ~dangling /\ ConnsFit /\ TxsFit /\ WalkFits /\ KaFits

LEMMA TranspTypes ==
  TranspTypeOK <=>
    /\ conn \in [Conn -> ConnType] /\ tx \in [Tx -> TxState]
    /\ qentp \in [Tx -> BOOLEAN] /\ dangling \in BOOLEAN
    /\ ka \in [Ka -> Conn \cup {"none", "signalled"}] /\ walk \in WalkType
BY DEF TranspTypeOK, ConnType, TxState, WalkType

LEMMA TranspTypesNext ==
  TranspTypeOK' <=>
    /\ conn' \in [Conn -> ConnType] /\ tx' \in [Tx -> TxState]
    /\ qentp' \in [Tx -> BOOLEAN] /\ dangling' \in BOOLEAN
    /\ ka' \in [Ka -> Conn \cup {"none", "signalled"}] /\ walk' \in WalkType
BY DEF TranspTypeOK, ConnType, TxState, WalkType

LEMMA ConnFields ==
  ASSUME NEW x \in ConnType
  PROVE  /\ x.st \in {"none", "live", "freed"} /\ x.peer \in Peer \cup {"nil"}
         /\ x.tc \in BOOLEAN /\ x.hashed \in BOOLEAN /\ x.established \in BOOLEAN
         /\ x.ql \in Seq(Tx) /\ x.tmr \in BOOLEAN /\ x.tmr_ka \in BOOLEAN
         /\ x.refs \in Nat /\ x.held \in 0 .. MaxHeld /\ x.flushed \in BOOLEAN
BY DEF ConnType

(* One connection changes. *)
LEMMA ConnSet ==
  ASSUME conn \in [Conn -> ConnType], NEW c \in Conn, NEW r \in ConnType,
         conn' = [conn EXCEPT ![c] = r]
  PROVE  /\ conn' \in [Conn -> ConnType] /\ conn'[c] = r
         /\ \A d \in Conn : d # c => conn'[d] = conn[d]
OBVIOUS

LEMMA FreshType == Fresh \in ConnType
<1>1. 0 \in 0 .. MaxHeld /\ <<>> \in Seq(Tx)
  BY TranspAssumption, EmptySeq
<1> QED
  BY <1>1 DEF Fresh, ConnType

(* In the beginning there are no connections. *)
LEMMA TranspInitInv == TranspInit => TranspInv
<1> SUFFICES ASSUME TranspInit PROVE TranspInv
  OBVIOUS
<1>1. Fresh \in ConnType
  BY FreshType
<1>2. \A c \in Conn : conn[c] = Fresh
  BY DEF TranspInit
<1>3. TranspTypeOK
  <2>1. conn \in [Conn -> ConnType] /\ tx \in [Tx -> TxState] /\ qentp \in [Tx -> BOOLEAN]
    BY <1>1 DEF TranspInit, TxState
  <2>2. dangling \in BOOLEAN /\ ka \in [Ka -> Conn \cup {"none", "signalled"}]
    BY DEF TranspInit
  <2>3. walk \in WalkType
    BY DEF TranspInit, NoWalk, WalkType, NoTx, NoConn
  <2> QED
    BY <2>1, <2>2, <2>3, TranspTypes
<1>4. /\ Fresh.tc = FALSE /\ Fresh.hashed = FALSE /\ Fresh.tmr = FALSE /\ Fresh.tmr_ka = FALSE
      /\ Fresh.st = "none" /\ Fresh.held = 0 /\ Fresh.ql = <<>> /\ Fresh.flushed = FALSE
  BY DEF Fresh
<1>5. NoTwice(<<>>) /\ El(<<>>) = {}
  <2>1. Len(<<>>) = 0 /\ 1 .. 0 = {}
    BY EmptySeq
  <2> QED
    BY <2>1 DEF NoTwice, El
<1>6. ConnsFit
  BY <1>2, <1>4, <1>5 DEF ConnsFit, Fits
<1>7. TxsFit
  BY <1>2, <1>4, <1>5 DEF TxsFit, On, TranspInit
<1>8. WalkFits
  BY DEF WalkFits, Idle, TranspInit, NoWalk
<1>9. KaFits
  BY TranspAssumption DEF KaFits, TranspInit
<1> QED
  BY <1>3, <1>6, <1>7, <1>8, <1>9 DEF TranspInv, TranspInit

(* A connection changes in its timers and counts only, and the loops and   *)
(* the messages not at all.                                                *)
LEMMA OneConn ==
  ASSUME TranspInv, NEW c \in Conn, NEW r \in ConnType, conn' = [conn EXCEPT ![c] = r],
         UNCHANGED <<tx, qentp, walk, dangling>>,
         Fits(r, Closing(c), walk.c = c),
         r.ql = conn[c].ql, r.st = conn[c].st, r.peer = conn[c].peer, r.tc = conn[c].tc,
         r.established = conn[c].established,
         ka' \in [Ka -> Conn \cup {"none", "signalled"}], KaFits'
  PROVE  TranspInv'
<1>1. TranspTypeOK
  BY DEF TranspInv
<1>2. /\ conn' \in [Conn -> ConnType] /\ conn'[c] = r
      /\ \A d \in Conn : d # c => conn'[d] = conn[d]
  BY <1>1, ConnSet, TranspTypes
<1>3. TranspTypeOK'
  BY <1>1, <1>2, TranspTypes, TranspTypesNext
<1>4. \A d \in Conn : /\ conn'[d].ql = conn[d].ql /\ conn'[d].st = conn[d].st
                      /\ conn'[d].peer = conn[d].peer /\ conn'[d].tc = conn[d].tc
                      /\ conn'[d].established = conn[d].established
  BY <1>2
<1>5. ConnsFit'
  BY <1>2 DEF TranspInv, ConnsFit, Closing
<1>6. TxsFit'
  BY <1>4 DEF TranspInv, TxsFit, On
<1>7. WalkFits'
  BY <1>4 DEF TranspInv, WalkFits, Idle, Live
<1> QED
  BY <1>3, <1>5, <1>6, <1>7 DEF TranspInv

(* The keepalives stay where they are, on connections that stay as they are. *)
LEMMA KaKept ==
  ASSUME TranspInv, UNCHANGED <<ka, walk>>,
         \A d \in Conn : /\ conn'[d].st = conn[d].st /\ conn'[d].tc = conn[d].tc
                         /\ conn[d].tmr_ka => conn'[d].tmr_ka
  PROVE  KaFits'
<1> SUFFICES ASSUME NEW k \in Ka, ka'[k] \in Conn
             PROVE  /\ conn'[ka'[k]].st = "live"
                    /\ \/ walk'.op = "close" /\ walk'.c = ka'[k]
                       \/ conn'[ka'[k]].tc /\ conn'[ka'[k]].tmr_ka
  BY DEF KaFits, Live, Closing
<1>1. PICK d \in Conn : d = ka[k] /\ ka'[k] = d
  OBVIOUS
<1>2. conn[d].st = "live" /\ ((walk.op = "close" /\ walk.c = d) \/ (conn[d].tc /\ conn[d].tmr_ka))
  BY <1>1 DEF TranspInv, KaFits, Live, Closing
<1>3. conn'[d].st = "live" /\ ((walk'.op = "close" /\ walk'.c = d) \/ (conn'[d].tc /\ conn'[d].tmr_ka))
  BY <1>1, <1>2
<1> QED
  BY <1>1, <1>3

(* conn_keepalive_handler *)
LEMMA ConnKeepaliveInv ==
  ASSUME TranspInv, NEW c \in Conn, ConnKeepalive(c)
  PROVE  TranspInv'
<1> DEFINE r == [conn[c] EXCEPT !.tmr = TRUE]
<1>1. /\ conn \in [Conn -> ConnType] /\ conn[c] \in ConnType
      /\ ka \in [Ka -> Conn \cup {"none", "signalled"}] /\ Fits(conn[c], Closing(c), walk.c = c)
  BY TranspTypes DEF TranspInv, ConnsFit
<1>2. conn' = [conn EXCEPT ![c] = r] /\ UNCHANGED <<tx, qentp, ka, walk, dangling>> /\ conn[c].tmr_ka
  BY <1>1 DEF ConnKeepalive
<1>3. /\ r \in ConnType /\ r.st = conn[c].st /\ r.peer = conn[c].peer /\ r.tc = conn[c].tc
      /\ r.hashed = conn[c].hashed /\ r.established = conn[c].established
      /\ r.ql = conn[c].ql /\ r.tmr_ka = conn[c].tmr_ka /\ r.refs = conn[c].refs
      /\ r.held = conn[c].held /\ r.flushed = conn[c].flushed
  BY <1>1 DEF ConnType
<1> HIDE DEF r
<1>4. Fits(r, Closing(c), walk.c = c)
  BY <1>1, <1>2, <1>3 DEF Fits, Own, Taken
<1>5. KaFits'
  <2>1. conn'[c] = r /\ \A d \in Conn : d # c => conn'[d] = conn[d]
    BY <1>1, <1>2, <1>3
  <2>2. \A d \in Conn : /\ conn'[d].st = conn[d].st /\ conn'[d].tc = conn[d].tc
                        /\ conn[d].tmr_ka => conn'[d].tmr_ka
    BY <1>3, <2>1
  <2> QED
    BY <1>2, <2>2, KaKept
<1> QED
  BY <1>1, <1>2, <1>3, <1>4, <1>5, OneConn

(* tcp_recv_handler *)
LEMMA ReceivedInv ==
  ASSUME TranspInv, NEW c \in Conn, NEW keeps \in BOOLEAN, Received(c, keeps)
  PROVE  TranspInv'
<1> DEFINE n == IF keeps THEN conn[c].refs + 1 ELSE conn[c].refs
           h == IF keeps THEN conn[c].held + 1 ELSE conn[c].held
           q == [conn[c] EXCEPT !.tmr = FALSE]
           p == [q EXCEPT !.refs = n]
           r == [p EXCEPT !.held = h]
<1>1. /\ conn \in [Conn -> ConnType] /\ conn[c] \in ConnType
      /\ ka \in [Ka -> Conn \cup {"none", "signalled"}] /\ Fits(conn[c], Closing(c), walk.c = c)
  BY TranspTypes DEF TranspInv, ConnsFit
<1>2. conn' = [conn EXCEPT ![c] = r] /\ UNCHANGED <<tx, qentp, ka, walk, dangling>>
      /\ conn[c].tc /\ conn[c].st = "live"
  BY <1>1 DEF Received, Live, ConnType
<1>3. conn[c].refs > 0 /\ conn[c].refs + Taken(conn[c]) = conn[c].held + 1 /\ ~Closing(c)
  BY <1>1, <1>2 DEF Fits, Own
<1>4. /\ conn[c].refs \in Nat /\ conn[c].held \in 0 .. MaxHeld /\ MaxHeld \in Nat
      /\ keeps => conn[c].held < MaxHeld
  BY <1>1, ConnFields, TranspAssumption DEF Received
<1>5. n \in Nat /\ h \in 0 .. MaxHeld /\ n > 0 /\ n + Taken(conn[c]) = h + 1
  <2>1. Taken(conn[c]) \in 0 .. 1
    BY DEF Taken
  <2>2. CASE keeps
    BY <1>3, <1>4, <2>1, <2>2
  <2>3. CASE ~keeps
    BY <1>3, <1>4, <2>1, <2>3
  <2> QED
    BY <2>2, <2>3
<1> HIDE DEF n, h
<1>6. /\ q \in ConnType /\ q.st = conn[c].st /\ q.peer = conn[c].peer /\ q.tc = conn[c].tc
      /\ q.hashed = conn[c].hashed /\ q.established = conn[c].established
      /\ q.ql = conn[c].ql /\ q.tmr_ka = conn[c].tmr_ka /\ q.tmr = FALSE
      /\ q.flushed = conn[c].flushed
  BY <1>1 DEF ConnType
<1> HIDE DEF q
<1>7. /\ p \in ConnType /\ p.st = q.st /\ p.peer = q.peer /\ p.tc = q.tc
      /\ p.hashed = q.hashed /\ p.established = q.established
      /\ p.ql = q.ql /\ p.tmr_ka = q.tmr_ka /\ p.tmr = q.tmr /\ p.refs = n
      /\ p.flushed = q.flushed
  BY <1>5, <1>6 DEF ConnType
<1> HIDE DEF p
<1>8. /\ r \in ConnType /\ r.st = p.st /\ r.peer = p.peer /\ r.tc = p.tc
      /\ r.hashed = p.hashed /\ r.established = p.established
      /\ r.ql = p.ql /\ r.tmr_ka = p.tmr_ka /\ r.tmr = p.tmr /\ r.refs = p.refs /\ r.held = h
      /\ r.flushed = p.flushed
  BY <1>5, <1>7 DEF ConnType
<1> HIDE DEF r
<1>9. Fits(r, Closing(c), walk.c = c)
  <2>1. /\ r.tc /\ r.st = "live" /\ r.flushed = conn[c].flushed /\ r.hashed = conn[c].hashed
        /\ r.ql = conn[c].ql /\ r.established = conn[c].established /\ r.tc = conn[c].tc
        /\ r.tmr_ka = conn[c].tmr_ka /\ r.tmr = FALSE /\ r.refs = n /\ r.held = h
    BY <1>2, <1>6, <1>7, <1>8
  <2>2. r.refs > 0 /\ r.refs + Taken(r) = r.held + Own(r, Closing(c))
    BY <1>5, <2>1 DEF Taken, Own
  <2> QED
    BY <1>1, <1>3, <2>1, <2>2 DEF Fits
<1>10. KaFits'
  <2>1. conn'[c] = r /\ \A d \in Conn : d # c => conn'[d] = conn[d]
    BY <1>1, <1>2, <1>8
  <2>2. \A d \in Conn : /\ conn'[d].st = conn[d].st /\ conn'[d].tc = conn[d].tc
                        /\ conn[d].tmr_ka => conn'[d].tmr_ka
    BY <1>6, <1>7, <1>8, <2>1
  <2> QED
    BY <1>2, <2>2, KaKept
<1> QED
  BY <1>1, <1>2, <1>6, <1>7, <1>8, <1>9, <1>10, OneConn

(* What the invariant says of a keepalive, and what has to be said *)
LEMMA KaFact ==
  ASSUME TranspInv, NEW k \in Ka, NEW d \in Conn, ka[k] = d
  PROVE  conn[d].st = "live" /\ (Closing(d) \/ (conn[d].tc /\ conn[d].tmr_ka))
BY DEF TranspInv, KaFits, Live

LEMMA KaGoal ==
  ASSUME \A k \in Ka, d \in Conn : ka'[k] = d =>
           /\ conn'[d].st = "live"
           /\ (walk'.op = "close" /\ walk'.c = d) \/ (conn'[d].tc /\ conn'[d].tmr_ka)
  PROVE  KaFits'
BY DEF KaFits, Live, Closing

(* Between the loops *)
LEMMA IdleFact ==
  ASSUME TranspInv, Idle
  PROVE  /\ walk = NoWalk /\ walk.cur = NoTx /\ walk.op = "none"
         /\ \A d \in Conn : walk.c # d /\ ~Closing(d) /\ Fits(conn[d], FALSE, FALSE)
<1>1. walk = NoWalk
  BY DEF TranspInv, WalkFits
<1>2. walk.cur = NoTx /\ walk.op = "none" /\ walk.c = "nil"
  BY <1>1 DEF NoWalk, NoConn
<1>3. \A d \in Conn : d # "nil"
  BY TranspAssumption
<1>4. \A d \in Conn : walk.c # d /\ ~Closing(d)
  BY <1>2, <1>3 DEF Closing
<1>5. ASSUME NEW d \in Conn PROVE Fits(conn[d], FALSE, FALSE)
  <2>1. Fits(conn[d], Closing(d), walk.c = d)
    BY DEF TranspInv, ConnsFit
  <2>2. Closing(d) = FALSE /\ (walk.c = d) = FALSE
    BY <1>4 DEF Closing
  <2> QED
    BY <2>1, <2>2
<1> QED
  BY <1>1, <1>2, <1>4, <1>5

(* A stateful request is cancelled. *)
LEMMA ReleaseInv ==
  ASSUME TranspInv, NEW t \in Tx, Release(t)
  PROVE  TranspInv'
<1>1. /\ tx[t] = "active" /\ tx' = [tx EXCEPT ![t] = "canceled"]
      /\ UNCHANGED <<conn, qentp, ka, walk, dangling>>
  BY DEF Release
<1>2. TranspTypeOK
  BY DEF TranspInv
<1>3. tx \in [Tx -> TxState]
  BY <1>2, TranspTypes
<1>4. /\ tx' \in [Tx -> TxState] /\ tx'[t] = "canceled"
      /\ \A u \in Tx : u # t => tx'[u] = tx[u]
  BY <1>1, <1>3 DEF TxState
<1>5. TranspTypeOK'
  BY <1>1, <1>2, <1>4, TranspTypes, TranspTypesNext
<1>6. ConnsFit' /\ WalkFits' /\ KaFits' /\ ~dangling'
  BY <1>1 DEF TranspInv, ConnsFit, WalkFits, KaFits, Closing, Idle, Live
<1>7. TxsFit'
  BY <1>1, <1>4 DEF TranspInv, TxsFit, On
<1> QED
  BY <1>5, <1>6, <1>7 DEF TranspInv

(* sip_keepalive_start *)
LEMMA KaStartInv ==
  ASSUME TranspInv, NEW k \in Ka, NEW c \in Conn, KaStart(k, c)
  PROVE  TranspInv'
<1> DEFINE r == [conn[c] EXCEPT !.tmr_ka = TRUE]
<1>1. /\ conn \in [Conn -> ConnType] /\ conn[c] \in ConnType
      /\ ka \in [Ka -> Conn \cup {"none", "signalled"}] /\ Fits(conn[c], Closing(c), walk.c = c)
  BY TranspTypes DEF TranspInv, ConnsFit
<1>2. /\ conn' = [conn EXCEPT ![c] = r] /\ ka' = [ka EXCEPT ![k] = c]
      /\ UNCHANGED <<tx, qentp, walk, dangling>> /\ conn[c].tc /\ conn[c].st = "live"
  BY <1>1 DEF KaStart, Live
<1>3. /\ r \in ConnType /\ r.st = conn[c].st /\ r.peer = conn[c].peer /\ r.tc = conn[c].tc
      /\ r.hashed = conn[c].hashed /\ r.established = conn[c].established
      /\ r.ql = conn[c].ql /\ r.tmr = conn[c].tmr /\ r.refs = conn[c].refs
      /\ r.held = conn[c].held /\ r.flushed = conn[c].flushed /\ r.tmr_ka = TRUE
  BY <1>1 DEF ConnType
<1> HIDE DEF r
<1>4. Fits(r, Closing(c), walk.c = c)
  BY <1>1, <1>2, <1>3 DEF Fits, Own, Taken
<1>5. conn'[c] = r /\ \A d \in Conn : d # c => conn'[d] = conn[d]
  BY <1>1, <1>2, <1>3
<1>6. /\ ka' \in [Ka -> Conn \cup {"none", "signalled"}]
      /\ ka'[k] = c /\ \A j \in Ka : j # k => ka'[j] = ka[j]
  BY <1>1, <1>2
<1>7. KaFits'
  <2> SUFFICES ASSUME NEW j \in Ka, NEW d \in Conn, ka'[j] = d
               PROVE  /\ conn'[d].st = "live"
                      /\ \/ walk'.op = "close" /\ walk'.c = d
                         \/ conn'[d].tc /\ conn'[d].tmr_ka
    BY KaGoal
  <2>1. CASE d = c
    BY <1>2, <1>3, <1>5, <2>1
  <2>2. CASE d # c
    <3>1. ka[j] = d
      BY <1>6, <2>2
    <3> QED
      BY <1>2, <1>5, <2>2, <3>1, KaFact DEF Closing
  <2> QED
    BY <2>1, <2>2
<1> QED
  BY <1>1, <1>2, <1>3, <1>4, <1>6, <1>7, OneConn

(* The user of a keepalive lets go of it. *)
LEMMA KaStopInv ==
  ASSUME TranspInv, NEW k \in Ka, KaStop(k)
  PROVE  TranspInv'
<1>1. ka' = [ka EXCEPT ![k] = "none"] /\ UNCHANGED <<conn, tx, qentp, walk, dangling>>
  BY DEF KaStop
<1>2. TranspTypeOK
  BY DEF TranspInv
<1>3. ka \in [Ka -> Conn \cup {"none", "signalled"}]
  BY <1>2, TranspTypes
<1>4. /\ ka' \in [Ka -> Conn \cup {"none", "signalled"}]
      /\ ka'[k] = "none" /\ \A j \in Ka : j # k => ka'[j] = ka[j]
  BY <1>1, <1>3
<1>5. TranspTypeOK'
  BY <1>1, <1>2, <1>4, TranspTypes, TranspTypesNext
<1>6. ConnsFit' /\ WalkFits' /\ TxsFit' /\ ~dangling'
  BY <1>1 DEF TranspInv, ConnsFit, WalkFits, TxsFit, Closing, Idle, Live, On
<1>7. "none" \notin Conn
  BY TranspAssumption
<1>8. KaFits'
  <2> SUFFICES ASSUME NEW j \in Ka, NEW d \in Conn, ka'[j] = d
               PROVE  /\ conn'[d].st = "live"
                      /\ \/ walk'.op = "close" /\ walk'.c = d
                         \/ conn'[d].tc /\ conn'[d].tmr_ka
    BY KaGoal
  <2>1. ka[j] = d
    BY <1>4, <1>7
  <2> QED
    BY <1>1, <2>1, KaFact DEF Closing
<1> QED
  BY <1>5, <1>6, <1>8 DEF TranspInv

(* A loop over the queue of a connection starts. *)
LEMMA LoopStarts ==
  ASSUME TranspInv, Idle, NEW c \in Conn, NEW r \in ConnType, NEW op \in {"estab", "close"},
         conn' = [conn EXCEPT ![c] = r],
         walk' = [op |-> op, c |-> c, cur |-> NoTx, next |-> First(conn[c].ql)],
         UNCHANGED <<tx, qentp, ka, dangling>>,
         conn[c].st = "live", r.st = "live", r.ql = conn[c].ql, r.peer = conn[c].peer,
         r.tc => conn[c].tc, Fits(r, op = "close", TRUE),
         op = "estab" => r.established /\ r.tc /\ (conn[c].tmr_ka => r.tmr_ka)
  PROVE  TranspInv'
<1>1. TranspTypeOK /\ conn[c] \in ConnType
  BY TranspTypes DEF TranspInv
<1>2. /\ conn' \in [Conn -> ConnType] /\ conn'[c] = r
      /\ \A d \in Conn : d # c => conn'[d] = conn[d]
  BY <1>1, ConnSet, TranspTypes
<1>3. walk'.op = op /\ walk'.c = c /\ walk'.cur = NoTx /\ walk'.next = First(conn[c].ql)
  OBVIOUS
<1>4. walk' \in WalkType
  <2>1. First(conn[c].ql) \in Tx \cup {NoTx}
    <3>1. conn[c].ql \in Seq(Tx)
      BY <1>1, ConnFields
    <3> QED
      BY <3>1, ElFacts DEF First
  <2> QED
    BY <2>1 DEF WalkType
<1>5. TranspTypeOK'
  BY <1>1, <1>2, <1>4, TranspTypes, TranspTypesNext
<1>6. ConnsFit'
  <2> SUFFICES ASSUME NEW d \in Conn
               PROVE  Fits(conn'[d], walk'.op = "close" /\ walk'.c = d, walk'.c = d)
    BY DEF ConnsFit, Closing
  <2>1. CASE d = c
    <3>1. (walk'.op = "close" /\ walk'.c = d) = (op = "close") /\ (walk'.c = d) = TRUE
      BY <1>3, <2>1
    <3> QED
      BY <1>2, <2>1, <3>1
  <2>2. CASE d # c
    <3>1. (walk'.op = "close" /\ walk'.c = d) = FALSE /\ (walk'.c = d) = FALSE
      BY <1>3, <2>2
    <3> QED
      BY <1>2, <2>2, <3>1, IdleFact
  <2> QED
    BY <2>1, <2>2
<1>7. TxsFit'
  <2>1. walk'.cur = walk.cur
    BY <1>3, IdleFact
  <2>2. \A d \in Conn : conn'[d].ql = conn[d].ql
    BY <1>2
  <2> QED
    BY <2>1, <2>2 DEF TranspInv, TxsFit, On
<1>8. WalkFits'
  <2>1. conn'[c].ql = conn[c].ql /\ conn'[c].st = "live"
    BY <1>2
  <2>2. op = "estab" => conn'[c].established /\ conn'[c].tc
    BY <1>2
  <2> QED
    BY <1>3, <2>1, <2>2 DEF WalkFits, Idle, Live
<1>9. KaFits'
  <2> SUFFICES ASSUME NEW j \in Ka, NEW d \in Conn, ka'[j] = d
               PROVE  /\ conn'[d].st = "live"
                      /\ \/ walk'.op = "close" /\ walk'.c = d
                         \/ conn'[d].tc /\ conn'[d].tmr_ka
    BY KaGoal
  <2>1. conn[d].st = "live" /\ conn[d].tc /\ conn[d].tmr_ka
    BY KaFact, IdleFact
  <2>2. CASE d = c
    BY <1>2, <1>3, <2>1, <2>2
  <2>3. CASE d # c
    BY <1>2, <2>1, <2>3
  <2> QED
    BY <2>2, <2>3
<1> QED
  BY <1>5, <1>6, <1>7, <1>8, <1>9 DEF TranspInv

(* tcp_estab_handler *)
LEMMA EstabInv ==
  ASSUME TranspInv, NEW c \in Conn, Estab(c)
  PROVE  TranspInv'
<1> DEFINE r == [conn[c] EXCEPT !.established = TRUE]
<1>1. conn \in [Conn -> ConnType] /\ conn[c] \in ConnType
  BY TranspTypes DEF TranspInv
<1>2. /\ conn' = [conn EXCEPT ![c] = r] /\ UNCHANGED <<tx, qentp, ka, dangling>>
      /\ conn[c].tc /\ conn[c].st = "live" /\ Idle
      /\ walk' = [op |-> "estab", c |-> c, cur |-> NoTx, next |-> First(conn[c].ql)]
  BY <1>1 DEF Estab, Live
<1>3. /\ r \in ConnType /\ r.st = conn[c].st /\ r.peer = conn[c].peer /\ r.tc = conn[c].tc
      /\ r.hashed = conn[c].hashed /\ r.established = TRUE
      /\ r.ql = conn[c].ql /\ r.tmr_ka = conn[c].tmr_ka /\ r.refs = conn[c].refs
      /\ r.held = conn[c].held /\ r.flushed = conn[c].flushed /\ r.tmr = conn[c].tmr
  BY <1>1 DEF ConnType
<1> HIDE DEF r
<1>4. Fits(conn[c], FALSE, FALSE)
  BY <1>2, IdleFact
<1>5. Fits(r, FALSE, TRUE)
  BY <1>2, <1>3, <1>4 DEF Fits, Own, Taken
<1>6. Fits(r, "estab" = "close", TRUE)
  BY <1>5
<1> QED
  BY <1>2, <1>3, <1>6, LoopStarts

(* conn_close *)
LEMMA ConnCloseInv ==
  ASSUME TranspInv, NEW c \in Conn, Idle, conn[c].st = "live", conn[c].tc, conn_close(c),
         UNCHANGED <<tx, qentp, ka, dangling>>
  PROVE  TranspInv'
<1> DEFINE a == [conn[c] EXCEPT !.tc = FALSE]
           b == [a EXCEPT !.tmr = FALSE]
           e == [b EXCEPT !.tmr_ka = FALSE]
           r == [e EXCEPT !.hashed = FALSE]
<1>1. conn \in [Conn -> ConnType] /\ conn[c] \in ConnType
  BY TranspTypes DEF TranspInv
<1>2. /\ conn' = [conn EXCEPT ![c] = r]
      /\ walk' = [op |-> "close", c |-> c, cur |-> NoTx, next |-> First(conn[c].ql)]
  BY <1>1 DEF conn_close, ConnType
<1>3. /\ a \in ConnType /\ a.st = conn[c].st /\ a.peer = conn[c].peer /\ a.tc = FALSE
      /\ a.ql = conn[c].ql /\ a.refs = conn[c].refs /\ a.held = conn[c].held
      /\ a.flushed = conn[c].flushed
  BY <1>1 DEF ConnType
<1> HIDE DEF a
<1>4. /\ b \in ConnType /\ b.st = a.st /\ b.peer = a.peer /\ b.tc = a.tc /\ b.tmr = FALSE
      /\ b.ql = a.ql /\ b.refs = a.refs /\ b.held = a.held /\ b.flushed = a.flushed
  BY <1>3 DEF ConnType
<1> HIDE DEF b
<1>5. /\ e \in ConnType /\ e.st = b.st /\ e.peer = b.peer /\ e.tc = b.tc /\ e.tmr = b.tmr
      /\ e.ql = b.ql /\ e.refs = b.refs /\ e.held = b.held /\ e.tmr_ka = FALSE
      /\ e.flushed = b.flushed
  BY <1>4 DEF ConnType
<1> HIDE DEF e
<1>6. /\ r \in ConnType /\ r.st = e.st /\ r.peer = e.peer /\ r.tc = e.tc /\ r.tmr = e.tmr
      /\ r.ql = e.ql /\ r.refs = e.refs /\ r.held = e.held /\ r.tmr_ka = e.tmr_ka
      /\ r.flushed = e.flushed
      /\ r.hashed = FALSE
  BY <1>5 DEF ConnType
<1> HIDE DEF r
<1>7. Fits(conn[c], FALSE, FALSE)
  BY IdleFact
<1>8. Fits(r, TRUE, TRUE)
  BY <1>3, <1>4, <1>5, <1>6, <1>7 DEF Fits, Own, Taken
<1>9. Fits(r, "close" = "close", TRUE)
  BY <1>8
<1>10. r.st = "live" /\ r.ql = conn[c].ql /\ r.peer = conn[c].peer /\ ~r.tc /\ r \in ConnType
  BY <1>3, <1>4, <1>5, <1>6
<1> QED
  BY <1>2, <1>9, <1>10, LoopStarts

LEMMA ClosedInv ==
  ASSUME TranspInv, NEW c \in Conn, Closed(c) \/ ConnTimer(c)
  PROVE  TranspInv'
<1>1. Idle /\ conn[c].st = "live" /\ conn_close(c) /\ UNCHANGED <<tx, qentp, ka, dangling>>
  BY DEF Closed, ConnTimer, Live
<1>2. Fits(conn[c], FALSE, FALSE)
  BY <1>1, IdleFact
<1>3. conn[c].tc
  BY <1>2 DEF Closed, ConnTimer, Fits
<1> QED
  BY <1>1, <1>3, ConnCloseInv

(* The queues a message is in, as the model says it *)
LEMMA QueuedOn ==
  ASSUME NEW t, NEW c \in Conn
  PROVE  c \in Queued(t) <=> On(t, c)
BY DEF Queued, On, El

(* A loop takes the first entry. *)
LEMMA WalkEnterInv ==
  ASSUME TranspInv, WalkEnter
  PROVE  TranspInv'
<1>1. PICK t : t = walk.next
  OBVIOUS
<1>2. PICK c : c = walk.c
  OBVIOUS
<1>3. /\ ~Idle /\ walk.cur = NoTx /\ t # NoTx
      /\ walk' = [walk EXCEPT !.cur = t, !.next = After(conn[c].ql, t)]
      /\ dangling' = (dangling \/ c \notin Queued(t))
      /\ qentp' = [qentp EXCEPT ![t] = FALSE]
      /\ \/ tx' = tx
         \/ tx' = [tx EXCEPT ![t] = IF @ = "reply" THEN @ ELSE "ended"]
      /\ UNCHANGED <<conn, ka>>
  BY <1>1, <1>2 DEF WalkEnter
<1>4. TranspTypeOK
  BY DEF TranspInv
<1>5. /\ c \in Conn /\ conn[c].st = "live" /\ t = First(conn[c].ql)
      /\ walk.op = "estab" => conn[c].established /\ conn[c].tc
  BY <1>1, <1>2, <1>3 DEF TranspInv, WalkFits, Live
<1>6. conn[c] \in ConnType /\ conn[c].ql \in Seq(Tx) /\ NoTwice(conn[c].ql)
  <2>1. conn[c] \in ConnType
    BY <1>4, <1>5, TranspTypes
  <2>2. Fits(conn[c], Closing(c), walk.c = c)
    BY <1>5 DEF TranspInv, ConnsFit
  <2> QED
    BY <2>1, <2>2, ConnFields DEF Fits
<1>7. conn[c].ql # <<>> /\ t = conn[c].ql[1]
  BY <1>3, <1>5 DEF First
<1>8. t \in El(conn[c].ql) /\ t \in Tx
  <2>1. conn[c].ql[1] \in El(conn[c].ql) /\ El(conn[c].ql) \subseteq Tx
    BY <1>6, <1>7, ElFacts
  <2> QED
    BY <1>7, <2>1
<1>9. After(conn[c].ql, t) = First(Tail(conn[c].ql))
  BY <1>6, <1>7, AfterFirst
<1>10. /\ walk \in WalkType /\ tx \in [Tx -> TxState] /\ qentp \in [Tx -> BOOLEAN]
       /\ conn \in [Conn -> ConnType] /\ ka \in [Ka -> Conn \cup {"none", "signalled"}]
  BY <1>4, TranspTypes
<1>11. First(Tail(conn[c].ql)) \in Tx \cup {NoTx}
  <2>1. Tail(conn[c].ql) \in Seq(Tx)
    BY <1>6, <1>7, RemovedFirst
  <2> QED
    BY <2>1, ElFacts DEF First
<1>12. /\ walk'.op = walk.op /\ walk'.c = walk.c /\ walk'.cur = t
       /\ walk'.next = First(Tail(conn[c].ql)) /\ walk' \in WalkType
  BY <1>3, <1>8, <1>9, <1>10, <1>11 DEF WalkType
<1>13. ~dangling'
  <2>1. c \in Queued(t)
    BY <1>5, <1>8, QueuedOn DEF On
  <2> QED
    BY <1>3, <2>1 DEF TranspInv
<1>14. /\ tx' \in [Tx -> TxState] /\ tx'[t] # "idle" /\ (tx'[t] = tx[t] \/ tx'[t] = "ended")
       /\ \A u \in Tx : u # t => tx'[u] = tx[u]
  <2>1. tx[t] # "idle" /\ tx[t] \in TxState
    BY <1>5, <1>8, <1>10 DEF TranspInv, TxsFit, On
  <2> QED
    BY <1>3, <1>8, <1>10, <2>1 DEF TxState
<1>15. /\ qentp' \in [Tx -> BOOLEAN] /\ ~qentp'[t]
       /\ \A u \in Tx : u # t => qentp'[u] = qentp[u]
  BY <1>3, <1>8, <1>10
<1>16. TranspTypeOK'
  BY <1>3, <1>4, <1>10, <1>12, <1>13, <1>14, <1>15, TranspTypesNext
<1>17. ConnsFit'
  BY <1>3, <1>12 DEF TranspInv, ConnsFit, Closing
<1>18. TxsFit'
  <2> SUFFICES ASSUME NEW u \in Tx
               PROVE  /\ \A x, y \in Conn : On(u, x)' /\ On(u, y)' => x = y
                      /\ \A x \in Conn : On(u, x)' => tx'[u] # "idle"
                      /\ qentp'[u] => (\E x \in Conn : On(u, x)') /\ walk'.cur # u
                      /\ tx'[u] \in {"active", "canceled"} /\ (\E x \in Conn : On(u, x)') =>
                           qentp'[u] \/ walk'.cur = u
    BY DEF TxsFit
  <2>1. \A x \in Conn : On(u, x)' <=> On(u, x)
    BY <1>3 DEF On
  <2>2. walk.cur # u
    BY <1>3, TranspAssumption DEF NoTx
  <2>3. CASE u = t
    BY <1>12, <1>14, <1>15, <2>1, <2>3 DEF TranspInv, TxsFit
  <2>4. CASE u # t
    BY <1>12, <1>14, <1>15, <2>1, <2>2, <2>4 DEF TranspInv, TxsFit
  <2> QED
    BY <2>3, <2>4
<1>19. WalkFits'
  BY <1>2, <1>3, <1>5, <1>7, <1>12 DEF WalkFits, Idle, Live
<1>20. KaFits'
  BY <1>3, <1>12 DEF TranspInv, KaFits, Live, Closing
<1> QED
  BY <1>13, <1>16, <1>17, <1>18, <1>19, <1>20 DEF TranspInv

(* The entry it worked on is freed. *)
LEMMA WalkLeaveInv ==
  ASSUME TranspInv, WalkLeave
  PROVE  TranspInv'
<1>1. PICK t : t = walk.cur
  OBVIOUS
<1>2. PICK c : c = walk.c
  OBVIOUS
<1>3. /\ ~Idle /\ t # NoTx /\ conn' = [conn EXCEPT ![c].ql = Unlink(@, t)]
      /\ walk' = [walk EXCEPT !.cur = NoTx] /\ UNCHANGED <<tx, qentp, ka, dangling>>
  BY <1>1, <1>2 DEF WalkLeave
<1>4. TranspTypeOK
  BY DEF TranspInv
<1>5. /\ c \in Conn /\ conn[c].st = "live" /\ conn[c].ql # <<>> /\ conn[c].ql[1] = t
      /\ walk.next = First(Tail(conn[c].ql))
      /\ walk.op = "estab" => conn[c].established /\ conn[c].tc
  BY <1>1, <1>2, <1>3 DEF TranspInv, WalkFits, Live
<1>6. conn[c] \in ConnType /\ Fits(conn[c], Closing(c), walk.c = c)
  BY <1>4, <1>5, TranspTypes DEF TranspInv, ConnsFit
<1>7. conn[c].ql \in Seq(Tx) /\ NoTwice(conn[c].ql)
  BY <1>6, ConnFields DEF Fits
<1>8. PICK l : l = Unlink(conn[c].ql, t)
  OBVIOUS
<1>9. l \in Seq(Tx) /\ El(l) = El(conn[c].ql) \ {t} /\ NoTwice(l) /\ l = Tail(conn[c].ql)
  <2>1. PICK q \in Seq(Tx) : q = conn[c].ql
    BY <1>7
  <2>2. NoTwice(q) /\ q # <<>> /\ q[1] = t
    BY <1>5, <1>7, <2>1
  <2>3. Unlink(q, t) \in Seq(Tx) /\ El(Unlink(q, t)) = El(q) \ {t} /\ NoTwice(Unlink(q, t))
    BY <2>2, Unlinked
  <2>4. Unlink(q, t) = Tail(q)
    BY <2>2, Unlinked
  <2> QED
    BY <1>8, <2>1, <2>3, <2>4
<1> DEFINE r == [conn[c] EXCEPT !.ql = l]
<1>10. conn' = [conn EXCEPT ![c] = r]
  BY <1>3, <1>8
<1>11. /\ r \in ConnType /\ r.st = conn[c].st /\ r.peer = conn[c].peer /\ r.tc = conn[c].tc
       /\ r.hashed = conn[c].hashed /\ r.established = conn[c].established
       /\ r.ql = l /\ r.tmr_ka = conn[c].tmr_ka /\ r.refs = conn[c].refs
       /\ r.held = conn[c].held /\ r.flushed = conn[c].flushed /\ r.tmr = conn[c].tmr
  BY <1>6, <1>9 DEF ConnType
<1> HIDE DEF r
<1>12. /\ conn' \in [Conn -> ConnType] /\ conn'[c] = r
       /\ \A d \in Conn : d # c => conn'[d] = conn[d]
  BY <1>4, <1>5, <1>10, <1>11, ConnSet, TranspTypes
<1>13. /\ walk'.op = walk.op /\ walk'.c = walk.c /\ walk'.cur = NoTx /\ walk'.next = walk.next
       /\ walk' \in WalkType
  BY <1>3, <1>4, TranspTypes DEF WalkType
<1>14. TranspTypeOK'
  BY <1>3, <1>4, <1>12, <1>13, TranspTypes, TranspTypesNext
<1>15. ConnsFit'
  <2> SUFFICES ASSUME NEW d \in Conn PROVE Fits(conn'[d], Closing(d), walk.c = d)
    BY <1>13 DEF ConnsFit, Closing
  <2>1. CASE d = c
    <3>1. Fits(r, Closing(c), walk.c = c)
      BY <1>2, <1>5, <1>6, <1>9, <1>11 DEF Fits, Own, Taken
    <3> QED
      BY <1>12, <2>1, <3>1
  <2>2. CASE d # c
    BY <1>12, <2>2 DEF TranspInv, ConnsFit
  <2> QED
    BY <2>1, <2>2
<1>16. TxsFit'
  <2> SUFFICES ASSUME NEW u \in Tx
               PROVE  /\ \A x, y \in Conn : On(u, x)' /\ On(u, y)' => x = y
                      /\ \A x \in Conn : On(u, x)' => tx'[u] # "idle"
                      /\ qentp'[u] => (\E x \in Conn : On(u, x)') /\ walk'.cur # u
                      /\ tx'[u] \in {"active", "canceled"} /\ (\E x \in Conn : On(u, x)') =>
                           qentp'[u] \/ walk'.cur = u
    BY DEF TxsFit
  <2>1. \A x \in Conn : On(u, x)' => On(u, x)
    BY <1>9, <1>11, <1>12 DEF On
  <2>2. walk'.cur # u
    BY <1>13, TranspAssumption DEF NoTx
  <2>3. CASE u = t
    <3>1. ~qentp[u] /\ On(u, c)
      <4>1. t \in El(conn[c].ql)
        BY <1>5, <1>7, ElFacts
      <4> QED
        BY <1>1, <2>3, <4>1 DEF TranspInv, TxsFit, On
    <3>2. \A x \in Conn : ~On(u, x)'
      <4>1. ~On(u, c)'
        BY <1>9, <1>11, <1>12, <2>3 DEF On
      <4>2. \A x \in Conn : On(u, x) => x = c
        BY <1>5, <3>1 DEF TranspInv, TxsFit
      <4> QED
        BY <2>1, <4>1, <4>2
    <3> QED
      BY <1>3, <3>1, <3>2
  <2>4. CASE u # t
    <3>1. \A x \in Conn : On(u, x)' <=> On(u, x)
      BY <1>9, <1>11, <1>12, <2>4 DEF On
    <3> QED
      BY <1>1, <1>3, <2>2, <2>4, <3>1 DEF TranspInv, TxsFit
  <2> QED
    BY <2>3, <2>4
<1>17. WalkFits'
  <2>1. conn'[c].ql = Tail(conn[c].ql) /\ conn'[c].st = "live"
        /\ (walk.op = "estab" => conn'[c].established /\ conn'[c].tc)
    BY <1>5, <1>9, <1>11, <1>12
  <2> QED
    BY <1>2, <1>3, <1>5, <1>13, <2>1 DEF WalkFits, Idle, Live
<1>18. KaFits'
  <2> SUFFICES ASSUME NEW j \in Ka, NEW d \in Conn, ka'[j] = d
               PROVE  /\ conn'[d].st = "live"
                      /\ \/ walk'.op = "close" /\ walk'.c = d
                         \/ conn'[d].tc /\ conn'[d].tmr_ka
    BY KaGoal
  <2>1. conn[d].st = "live" /\ (Closing(d) \/ (conn[d].tc /\ conn[d].tmr_ka))
    BY <1>3, KaFact
  <2> QED
    BY <1>11, <1>12, <1>13, <2>1 DEF Closing
<1> QED
  BY <1>3, <1>14, <1>15, <1>16, <1>17, <1>18 DEF TranspInv

(* A loop ends. *)
LEMMA WalkEndInv ==
  ASSUME TranspInv, WalkEnd
  PROVE  TranspInv'
<1>1. PICK c : c = walk.c
  OBVIOUS
<1>2. /\ ~Idle /\ walk.cur = NoTx /\ walk.next = NoTx /\ walk' = NoWalk
      /\ UNCHANGED <<tx, qentp, dangling>>
  BY DEF WalkEnd
<1>3. TranspTypeOK
  BY DEF TranspInv
<1>4. /\ c \in Conn /\ conn[c].st = "live" /\ First(conn[c].ql) = NoTx
  BY <1>1, <1>2 DEF TranspInv, WalkFits, Live
<1>5. conn[c] \in ConnType /\ Fits(conn[c], Closing(c), walk.c = c)
  BY <1>3, <1>4, TranspTypes DEF TranspInv, ConnsFit
<1>6. conn[c].ql = <<>>
  <2>1. conn[c].ql \in Seq(Tx)
    BY <1>5, ConnFields
  <2>2. conn[c].ql # <<>> => conn[c].ql[1] \in Tx
    BY <2>1, ElFacts
  <2> QED
    BY <1>4, <2>2, TranspAssumption DEF First, NoTx
<1>7. walk'.op = "none" /\ walk'.c = "nil" /\ walk'.cur = NoTx /\ walk' \in WalkType /\ Idle'
  BY <1>2 DEF NoWalk, NoConn, WalkType, Idle
<1>8. \A d \in Conn : d # "nil"
  BY TranspAssumption
<1>9. WalkFits'
  BY <1>2, <1>7 DEF WalkFits
<1>10. ASSUME \A d \in Conn : Fits(conn'[d], FALSE, FALSE) PROVE ConnsFit'
  <2>1. \A d \in Conn : (walk'.op = "close" /\ walk'.c = d) = FALSE /\ (walk'.c = d) = FALSE
    BY <1>7, <1>8
  <2> QED
    BY <1>10, <2>1 DEF ConnsFit, Closing
<1>11. \A d \in Conn : d # c => Fits(conn[d], FALSE, FALSE)
  <2> SUFFICES ASSUME NEW d \in Conn, d # c PROVE Fits(conn[d], FALSE, FALSE)
    OBVIOUS
  <2>1. Fits(conn[d], Closing(d), walk.c = d)
    BY DEF TranspInv, ConnsFit
  <2>2. Closing(d) = FALSE /\ (walk.c = d) = FALSE
    BY <1>1 DEF Closing
  <2> QED
    BY <2>1, <2>2
<1>12. ASSUME \A d \in Conn : conn'[d].ql = conn[d].ql PROVE TxsFit'
  BY <1>2, <1>7, <1>12 DEF TranspInv, TxsFit, On
<1>13. CASE walk.op = "estab" /\ UNCHANGED <<conn, ka>>
  <2>1. Fits(conn[c], FALSE, FALSE)
    <3>1. Closing(c) = FALSE /\ (walk.c = c) = TRUE
      BY <1>1, <1>13 DEF Closing
    <3>2. Fits(conn[c], FALSE, TRUE)
      BY <1>5, <3>1
    <3> QED
      BY <1>6, <3>2 DEF Fits, Own, Taken
  <2>2. ConnsFit'
    BY <1>10, <1>11, <1>13, <2>1
  <2>3. TxsFit'
    BY <1>12, <1>13
  <2>4. KaFits'
    BY <1>13 DEF TranspInv, KaFits, Live, Closing
  <2>5. TranspTypeOK'
    BY <1>2, <1>3, <1>7, <1>13, TranspTypes, TranspTypesNext
  <2> QED
    BY <1>2, <1>9, <2>2, <2>3, <2>4, <2>5 DEF TranspInv
<1>14. CASE /\ walk.op = "close" /\ ka' = Signal(c, "signalled")
            /\ conn' = [conn EXCEPT ![c].refs = @ - 1, ![c].st =
                          IF conn[c].refs = 1 THEN "freed" ELSE @]
  <2>1. Closing(c) = TRUE /\ (walk.c = c) = TRUE
    BY <1>1, <1>14 DEF Closing
  <2>2. Fits(conn[c], TRUE, TRUE)
    BY <1>5, <2>1
  <2>3. /\ ~conn[c].tc /\ ~conn[c].hashed /\ ~conn[c].tmr /\ ~conn[c].tmr_ka
        /\ conn[c].refs > 0 /\ conn[c].refs + Taken(conn[c]) = conn[c].held + 1
    BY <1>4, <2>2 DEF Fits, Own
  <2>4. conn[c].refs \in Nat /\ conn[c].held \in Nat
    BY <1>5, TranspAssumption, ConnFields
  <2> DEFINE n == conn[c].refs - 1
             s == IF conn[c].refs = 1 THEN "freed" ELSE conn[c].st
             q == [conn[c] EXCEPT !.refs = n]
             r == [q EXCEPT !.st = s]
  <2>5. conn' = [conn EXCEPT ![c] = r]
    BY <1>5, <1>14 DEF ConnType
  <2>6. /\ n \in Nat /\ n + Taken(conn[c]) = conn[c].held
        /\ (s = "freed" /\ (conn[c].held = 0 \/ conn[c].flushed)) \/ (s = "live" /\ n > 0)
    BY <1>4, <2>3, <2>4 DEF Taken
  <2> HIDE DEF n, s
  <2>7. /\ q \in ConnType /\ q.peer = conn[c].peer /\ q.tc = conn[c].tc
        /\ q.hashed = conn[c].hashed /\ q.ql = conn[c].ql /\ q.tmr_ka = conn[c].tmr_ka
        /\ q.tmr = conn[c].tmr /\ q.refs = n /\ q.held = conn[c].held /\ q.flushed = conn[c].flushed
    BY <1>5, <2>6 DEF ConnType
  <2> HIDE DEF q
  <2>8. /\ r \in ConnType /\ r.peer = q.peer /\ r.tc = q.tc
        /\ r.hashed = q.hashed /\ r.ql = q.ql /\ r.tmr_ka = q.tmr_ka
        /\ r.tmr = q.tmr /\ r.refs = q.refs /\ r.held = q.held /\ r.flushed = q.flushed /\ r.st = s
    BY <2>6, <2>7 DEF ConnType
  <2> HIDE DEF r
  <2>9. Fits(r, FALSE, FALSE)
    <3>1. NoTwice(conn[c].ql)
      BY <2>2 DEF Fits
    <3>2. ~r.tc /\ ~r.hashed /\ ~r.tmr /\ ~r.tmr_ka /\ r.ql = <<>> /\ NoTwice(r.ql)
      BY <1>6, <2>3, <2>7, <2>8, <3>1
    <3>3. /\ r.refs = n /\ r.held = conn[c].held /\ r.flushed = conn[c].flushed /\ r.st = s
          /\ r.flushed \in BOOLEAN
      BY <1>5, <2>7, <2>8, ConnFields
    <3>4. /\ r.refs \in Nat /\ r.refs + Taken(r) = r.held + Own(r, FALSE)
          /\ (r.st = "freed" /\ (r.held = 0 \/ r.flushed)) \/ (r.st = "live" /\ r.refs > 0)
      BY <2>4, <2>6, <3>2, <3>3 DEF Own, Taken
    <3> QED
      BY <3>2, <3>4 DEF Fits
  <2>10. /\ conn' \in [Conn -> ConnType] /\ conn'[c] = r
         /\ \A d \in Conn : d # c => conn'[d] = conn[d]
    BY <1>3, <1>4, <2>5, <2>8, ConnSet, TranspTypes
  <2>11. ConnsFit'
    BY <1>10, <1>11, <2>9, <2>10
  <2>12. TxsFit'
    BY <1>12, <2>7, <2>8, <2>10
  <2>13. /\ ka' \in [Ka -> Conn \cup {"none", "signalled"}]
         /\ \A k \in Ka, d \in Conn : ka'[k] = d => ka[k] = d /\ d # c
    <3>1. ka \in [Ka -> Conn \cup {"none", "signalled"}]
      BY <1>3, TranspTypes
    <3>2. "signalled" \notin Conn
      BY TranspAssumption
    <3> QED
      BY <1>14, <3>1, <3>2 DEF Signal
  <2>14. KaFits'
    <3> SUFFICES ASSUME NEW j \in Ka, NEW d \in Conn, ka'[j] = d
                 PROVE  /\ conn'[d].st = "live"
                        /\ \/ walk'.op = "close" /\ walk'.c = d
                           \/ conn'[d].tc /\ conn'[d].tmr_ka
      BY KaGoal
    <3>1. ka[j] = d /\ d # c
      BY <2>13
    <3>2. ~Closing(d)
      BY <1>1, <3>1 DEF Closing
    <3>3. conn[d].st = "live" /\ conn[d].tc /\ conn[d].tmr_ka
      BY <3>1, <3>2, KaFact
    <3> QED
      BY <2>10, <3>1, <3>3
  <2>16. TranspTypeOK'
    BY <1>2, <1>3, <1>7, <2>10, <2>13, TranspTypes, TranspTypesNext
  <2> QED
    BY <1>2, <1>9, <2>11, <2>12, <2>14, <2>16 DEF TranspInv
<1> QED
  BY <1>1, <1>13, <1>14 DEF WalkEnd, Signalled

(* A queue with one entry *)
LEMMA OneEntry ==
  ASSUME NEW t
  PROVE  El(<<t>>) = {t} /\ NoTwice(<<t>>)
BY DEF El, NoTwice

(* A new connection *)
LEMMA ConnOpened ==
  ASSUME TranspInv, NEW c \in Conn, conn[c].st = "none", NEW p \in Peer,
         NEW r \in ConnType, conn' = [conn EXCEPT ![c] = r], UNCHANGED <<ka, walk>>,
         r.st = "live", r.peer = p, r.tc = TRUE, Fits(r, FALSE, FALSE)
  PROVE  /\ conn' \in [Conn -> ConnType] /\ conn'[c] = r
         /\ \A d \in Conn : d # c => conn'[d] = conn[d]
         /\ conn[c].ql = <<>>
         /\ ConnsFit' /\ WalkFits' /\ KaFits'
<1>1. TranspTypeOK /\ conn[c] \in ConnType /\ Fits(conn[c], Closing(c), walk.c = c)
  BY TranspTypes DEF TranspInv, ConnsFit
<1>2. /\ conn' \in [Conn -> ConnType] /\ conn'[c] = r
      /\ \A d \in Conn : d # c => conn'[d] = conn[d]
  BY <1>1, ConnSet, TranspTypes
<1>3. conn[c].ql = <<>> /\ ~conn[c].tc
  BY <1>1 DEF Fits
<1>4. walk.c # c
  <2>1. CASE Idle
    BY <2>1, IdleFact
  <2>2. CASE ~Idle
    BY <2>2 DEF TranspInv, WalkFits, Live
  <2> QED
    BY <2>1, <2>2
<1>5. ConnsFit'
  <2> SUFFICES ASSUME NEW d \in Conn PROVE Fits(conn'[d], Closing(d), walk.c = d)
    BY DEF ConnsFit, Closing
  <2>1. CASE d = c
    <3>1. Closing(c) = FALSE /\ (walk.c = c) = FALSE
      BY <1>4 DEF Closing
    <3> QED
      BY <1>2, <2>1, <3>1
  <2>2. CASE d # c
    BY <1>2, <2>2 DEF TranspInv, ConnsFit
  <2> QED
    BY <2>1, <2>2
<1>6. WalkFits'
  <2>1. CASE Idle
    BY <2>1 DEF TranspInv, WalkFits, Idle
  <2>2. CASE ~Idle
    <3>1. walk.c \in Conn /\ conn'[walk.c] = conn[walk.c]
      BY <1>2, <1>4, <2>2 DEF TranspInv, WalkFits
    <3> QED
      BY <2>2, <3>1 DEF TranspInv, WalkFits, Idle, Live
  <2> QED
    BY <2>1, <2>2
<1>7. KaFits'
  <2> SUFFICES ASSUME NEW j \in Ka, NEW d \in Conn, ka'[j] = d
               PROVE  /\ conn'[d].st = "live"
                      /\ \/ walk'.op = "close" /\ walk'.c = d
                         \/ conn'[d].tc /\ conn'[d].tmr_ka
    BY KaGoal
  <2>1. conn[d].st = "live" /\ (Closing(d) \/ (conn[d].tc /\ conn[d].tmr_ka))
    BY KaFact
  <2>2. d # c
    BY <2>1
  <2> QED
    BY <1>2, <2>1, <2>2 DEF Closing
<1> QED
  BY <1>2, <1>3, <1>5, <1>6, <1>7

(* A connection that is opened *)
LEMMA OpenedFields ==
  ASSUME NEW p \in Peer, NEW q,
         q = [Fresh EXCEPT !.st = "live", !.peer = p, !.tc = TRUE, !.hashed = TRUE, !.refs = 1]
  PROVE  /\ q \in ConnType /\ q.st = "live" /\ q.peer = p /\ q.tc = TRUE /\ q.hashed = TRUE
         /\ q.established = FALSE
         /\ q.ql = <<>> /\ q.tmr = FALSE /\ q.tmr_ka = FALSE /\ q.refs = 1 /\ q.held = 0
         /\ q.flushed = FALSE
<1> DEFINE a == [Fresh EXCEPT !.st = "live"]
           b == [a EXCEPT !.peer = p]
           e == [b EXCEPT !.tc = TRUE]
           f == [e EXCEPT !.hashed = TRUE]
           g == [f EXCEPT !.refs = 1]
<1>1. /\ Fresh \in ConnType /\ Fresh.st = "none" /\ Fresh.peer = "nil" /\ Fresh.tc = FALSE
      /\ Fresh.hashed = FALSE /\ Fresh.established = FALSE
      /\ Fresh.ql = <<>> /\ Fresh.tmr = FALSE /\ Fresh.tmr_ka = FALSE /\ Fresh.refs = 0
      /\ Fresh.held = 0
      /\ Fresh.flushed = FALSE
  BY FreshType DEF Fresh
<1>2. q = g
  BY DEF Fresh
<1>3. /\ a \in ConnType /\ a.st = "live" /\ a.peer = "nil" /\ a.tc = FALSE /\ a.hashed = FALSE
      /\ a.established = FALSE
      /\ a.ql = <<>> /\ a.tmr = FALSE /\ a.tmr_ka = FALSE /\ a.refs = 0 /\ a.held = 0
      /\ a.flushed = FALSE
  BY <1>1 DEF ConnType
<1> HIDE DEF a
<1>4. /\ b \in ConnType /\ b.st = "live" /\ b.peer = p /\ b.tc = FALSE /\ b.hashed = FALSE
      /\ b.established = FALSE
      /\ b.ql = <<>> /\ b.tmr = FALSE /\ b.tmr_ka = FALSE /\ b.refs = 0 /\ b.held = 0
      /\ b.flushed = FALSE
  BY <1>3 DEF ConnType
<1> HIDE DEF b
<1>5. /\ e \in ConnType /\ e.st = "live" /\ e.peer = p /\ e.tc = TRUE /\ e.hashed = FALSE
      /\ e.established = FALSE
      /\ e.ql = <<>> /\ e.tmr = FALSE /\ e.tmr_ka = FALSE /\ e.refs = 0 /\ e.held = 0
      /\ e.flushed = FALSE
  BY <1>4 DEF ConnType
<1> HIDE DEF e
<1>6. /\ f \in ConnType /\ f.st = "live" /\ f.peer = p /\ f.tc = TRUE /\ f.hashed = TRUE
      /\ f.established = FALSE
      /\ f.ql = <<>> /\ f.tmr = FALSE /\ f.tmr_ka = FALSE /\ f.refs = 0 /\ f.held = 0
      /\ f.flushed = FALSE
  BY <1>5 DEF ConnType
<1> HIDE DEF f
<1>7. /\ g \in ConnType /\ g.st = "live" /\ g.peer = p /\ g.tc = TRUE /\ g.hashed = TRUE
      /\ g.established = FALSE
      /\ g.ql = <<>> /\ g.tmr = FALSE /\ g.tmr_ka = FALSE /\ g.refs = 1 /\ g.held = 0
      /\ g.flushed = FALSE
  BY <1>6 DEF ConnType
<1> HIDE DEF g
<1> QED
  BY <1>2, <1>7

(* tcp_connect_handler *)
LEMMA AcceptInv ==
  ASSUME TranspInv, NEW c \in Conn, NEW p \in Peer, Accept(c, p)
  PROVE  TranspInv'
<1>1. PICK q : q = [Fresh EXCEPT !.st = "live", !.peer = p, !.tc = TRUE, !.hashed = TRUE, !.refs = 1]
  OBVIOUS
<1> DEFINE r == [q EXCEPT !.tmr = TRUE]
<1>2. /\ conn[c].st = "none" /\ conn' = [conn EXCEPT ![c] = r]
      /\ UNCHANGED <<tx, qentp, ka, walk, dangling>>
  BY <1>1 DEF Accept, Fresh
<1>3. /\ q \in ConnType /\ q.st = "live" /\ q.peer = p /\ q.tc = TRUE /\ q.hashed = TRUE
      /\ q.established = FALSE
      /\ q.ql = <<>> /\ q.tmr = FALSE /\ q.tmr_ka = FALSE /\ q.refs = 1 /\ q.held = 0
      /\ q.flushed = FALSE
  BY <1>1, OpenedFields
<1>4. /\ r \in ConnType /\ r.st = "live" /\ r.peer = p /\ r.tc = TRUE /\ r.hashed = TRUE
      /\ r.established = FALSE
      /\ r.ql = <<>> /\ r.tmr = TRUE /\ r.tmr_ka = FALSE /\ r.refs = 1 /\ r.held = 0
      /\ r.flushed = FALSE
  BY <1>3 DEF ConnType
<1> HIDE DEF r
<1>5. NoTwice(<<>>)
  BY EmptySeq DEF NoTwice
<1>6. Fits(r, FALSE, FALSE)
  BY <1>4, <1>5 DEF Fits, Own, Taken
<1>7. /\ conn' \in [Conn -> ConnType] /\ conn'[c] = r
      /\ \A d \in Conn : d # c => conn'[d] = conn[d]
      /\ conn[c].ql = <<>>
      /\ ConnsFit' /\ WalkFits' /\ KaFits'
  BY <1>2, <1>4, <1>6, ConnOpened
<1>8. TxsFit'
  <2>1. \A d \in Conn : conn'[d].ql = conn[d].ql
    BY <1>4, <1>7
  <2> QED
    BY <1>2, <2>1 DEF TranspInv, TxsFit, On
<1>9. TranspTypeOK'
  BY <1>2, <1>7, TranspTypes, TranspTypesNext DEF TranspInv
<1> QED
  BY <1>2, <1>7, <1>8, <1>9 DEF TranspInv

(* A message that was not sent before starts to wait, on one connection, *)
(* or goes out at once.                                                  *)
LEMMA Waits ==
  ASSUME TranspInv, NEW t \in Tx, tx[t] = "idle", NEW owned \in BOOLEAN, NEW C \in SUBSET Conn,
         \A x, y \in C : x = y,
         \A u \in Tx, d \in Conn : On(u, d)' <=> On(u, d) \/ (u = t /\ d \in C),
         tx' = [tx EXCEPT ![t] = IF owned THEN "active" ELSE "reply"],
         C # {} => qentp' = [qentp EXCEPT ![t] = owned], C = {} => qentp' = qentp,
         UNCHANGED <<walk, dangling>>
  PROVE  TxsFit' /\ tx' \in [Tx -> TxState] /\ qentp' \in [Tx -> BOOLEAN] /\ ~dangling'
<1>1. tx \in [Tx -> TxState] /\ qentp \in [Tx -> BOOLEAN] /\ ~dangling
  BY TranspTypes DEF TranspInv
<1>2. /\ tx' \in [Tx -> TxState] /\ tx'[t] = (IF owned THEN "active" ELSE "reply")
      /\ \A u \in Tx : u # t => tx'[u] = tx[u]
  BY <1>1 DEF TxState
<1>3. /\ qentp' \in [Tx -> BOOLEAN] /\ (C # {} => qentp'[t] = owned)
      /\ (C = {} => qentp'[t] = qentp[t])
      /\ \A u \in Tx : u # t => qentp'[u] = qentp[u]
  BY <1>1
<1>4. \A d \in Conn : ~On(t, d)
  BY DEF TranspInv, TxsFit
<1>5. ~qentp[t]
  BY <1>4 DEF TranspInv, TxsFit
<1>6. walk.cur # t
  <2>1. CASE Idle
    BY <2>1, IdleFact, TranspAssumption DEF NoTx
  <2>2. CASE ~Idle
    <3> SUFFICES ASSUME walk.cur = t PROVE FALSE
      OBVIOUS
    <3>1. walk.cur # NoTx
      BY TranspAssumption DEF NoTx
    <3>2. PICK c \in Conn : c = walk.c /\ conn[c].ql # <<>> /\ conn[c].ql[1] = t
      BY <2>2, <3>1 DEF TranspInv, WalkFits
    <3>3. conn[c] \in ConnType
      BY <3>2, TranspTypes DEF TranspInv
    <3>4. conn[c].ql \in Seq(Tx)
      BY <3>3, ConnFields
    <3>5. t \in El(conn[c].ql)
      BY <3>2, <3>4, ElFacts
    <3> QED
      BY <1>4, <3>2, <3>5 DEF On
  <2> QED
    BY <2>1, <2>2
<1>7. TxsFit'
  <2> SUFFICES ASSUME NEW u \in Tx
               PROVE  /\ \A x, y \in Conn : On(u, x)' /\ On(u, y)' => x = y
                      /\ \A x \in Conn : On(u, x)' => tx'[u] # "idle"
                      /\ qentp'[u] => (\E x \in Conn : On(u, x)') /\ walk'.cur # u
                      /\ tx'[u] \in {"active", "canceled"} /\ (\E x \in Conn : On(u, x)') =>
                           qentp'[u] \/ walk'.cur = u
    BY DEF TxsFit
  <2>1. CASE u = t
    <3>1. \A x \in Conn : On(u, x)' <=> x \in C
      BY <1>4, <2>1
    <3>2. CASE C = {}
      BY <1>2, <1>3, <1>5, <2>1, <3>1, <3>2
    <3>3. CASE C # {}
      <4>1. PICK c \in Conn : c \in C
        BY <3>3
      <4>2. CASE owned
        <5>1. qentp'[u] /\ tx'[u] = "active"
          BY <1>2, <1>3, <2>1, <3>3, <4>2
        <5> QED
          BY <1>6, <2>1, <3>1, <4>1, <5>1
      <4>3. CASE ~owned
        <5>1. ~qentp'[u] /\ tx'[u] = "reply"
          BY <1>2, <1>3, <2>1, <3>3, <4>3
        <5> QED
          BY <3>1, <5>1
      <4> QED
        BY <4>2, <4>3
    <3> QED
      BY <3>2, <3>3
  <2>2. CASE u # t
    <3>1. \A x \in Conn : On(u, x)' <=> On(u, x)
      BY <2>2
    <3>2. tx'[u] = tx[u] /\ qentp'[u] = qentp[u] /\ walk' = walk
      BY <1>2, <1>3, <2>2
    <3> QED
      BY <3>1, <3>2 DEF TranspInv, TxsFit
  <2> QED
    BY <2>1, <2>2
<1> QED
  BY <1>1, <1>2, <1>3, <1>7

(* sip_transp_send: the connection is there. *)
LEMMA SendsNow ==
  ASSUME TranspInv, NEW t \in Tx, tx[t] = "idle", NEW owned \in BOOLEAN,
         tx' = [tx EXCEPT ![t] = IF owned THEN "active" ELSE "reply"],
         UNCHANGED <<conn, qentp, ka, walk, dangling>>
  PROVE  TranspInv'
<1>1. PICK C \in SUBSET Conn : C = {}
  OBVIOUS
<1>2. TxsFit' /\ tx' \in [Tx -> TxState] /\ qentp' \in [Tx -> BOOLEAN] /\ ~dangling'
  <2>1. \A u \in Tx, d \in Conn : On(u, d)' <=> On(u, d) \/ (u = t /\ d \in C)
    BY <1>1 DEF On
  <2>2. (\A x, y \in C : x = y) /\ (C # {} => qentp' = [qentp EXCEPT ![t] = owned])
        /\ (C = {} => qentp' = qentp) /\ UNCHANGED <<walk, dangling>>
    BY <1>1
  <2> QED
    BY <2>1, <2>2, Waits
<1>3. ConnsFit' /\ WalkFits' /\ KaFits'
  BY DEF TranspInv, ConnsFit, WalkFits, KaFits, Closing, Idle, Live
<1>4. TranspTypeOK'
  BY <1>2, TranspTypes, TranspTypesNext DEF TranspInv
<1> QED
  BY <1>2, <1>3, <1>4 DEF TranspInv

(* conn_send: the message waits on a connection that is being established. *)
LEMMA EnqueuedInv ==
  ASSUME TranspInv, NEW t \in Tx, tx[t] = "idle", NEW owned \in BOOLEAN,
         NEW p \in Peer, NEW c \in conn_find(p), ~conn[c].established, Enqueued(c, t, owned),
         tx' = [tx EXCEPT ![t] = IF owned THEN "active" ELSE "reply"],
         UNCHANGED <<ka, walk, dangling>>
  PROVE  TranspInv'
<1>1. c \in Conn /\ conn[c].st = "live" /\ conn[c].hashed
  BY DEF conn_find, Live
<1>2. /\ conn \in [Conn -> ConnType] /\ conn[c] \in ConnType
      /\ Fits(conn[c], Closing(c), walk.c = c)
  BY <1>1, TranspTypes DEF TranspInv, ConnsFit
<1>3. conn[c].tc /\ ~Closing(c) /\ NoTwice(conn[c].ql) /\ conn[c].ql \in Seq(Tx)
  BY <1>1, <1>2, ConnFields DEF Fits
<1>4. walk.c # c
  <2>1. CASE Idle
    BY <1>1, <2>1, IdleFact
  <2>2. CASE ~Idle
    <3>1. walk.op \in {"none", "estab", "close"}
      BY TranspTypes DEF TranspInv, WalkType
    <3> QED
      BY <1>3, <2>2, <3>1 DEF TranspInv, WalkFits, Closing, Idle
  <2> QED
    BY <2>1, <2>2
<1>5. t \notin El(conn[c].ql)
  BY <1>1 DEF TranspInv, TxsFit, On
<1>6. PICK l : l = Append(conn[c].ql, t)
  OBVIOUS
<1>7. l \in Seq(Tx) /\ El(l) = El(conn[c].ql) \cup {t} /\ NoTwice(l)
  <2>1. PICK q \in Seq(Tx) : q = conn[c].ql
    BY <1>3
  <2>2. NoTwice(q) /\ t \notin El(q)
    BY <1>3, <1>5, <2>1
  <2>3. Append(q, t) \in Seq(Tx) /\ El(Append(q, t)) = El(q) \cup {t} /\ NoTwice(Append(q, t))
    BY <2>2, Appended
  <2> QED
    BY <1>6, <2>1, <2>3
<1> DEFINE r == [conn[c] EXCEPT !.ql = l]
<1>8. conn' = [conn EXCEPT ![c] = r] /\ qentp' = [qentp EXCEPT ![t] = owned]
  BY <1>6 DEF Enqueued
<1>9. /\ r \in ConnType /\ r.st = conn[c].st /\ r.peer = conn[c].peer /\ r.tc = conn[c].tc
      /\ r.hashed = conn[c].hashed /\ r.established = conn[c].established
      /\ r.ql = l /\ r.tmr_ka = conn[c].tmr_ka /\ r.refs = conn[c].refs
      /\ r.held = conn[c].held /\ r.flushed = conn[c].flushed /\ r.tmr = conn[c].tmr
  BY <1>2, <1>7 DEF ConnType
<1> HIDE DEF r
<1>10. /\ conn' \in [Conn -> ConnType] /\ conn'[c] = r
       /\ \A d \in Conn : d # c => conn'[d] = conn[d]
  BY <1>1, <1>2, <1>8, <1>9, ConnSet
<1>11. ConnsFit'
  <2> SUFFICES ASSUME NEW d \in Conn PROVE Fits(conn'[d], Closing(d), walk.c = d)
    BY DEF ConnsFit, Closing
  <2>1. CASE d = c
    <3>1. Fits(r, Closing(c), walk.c = c)
      BY <1>1, <1>2, <1>3, <1>7, <1>9 DEF Fits, Own, Taken
    <3> QED
      BY <1>10, <2>1, <3>1
  <2>2. CASE d # c
    BY <1>10, <2>2 DEF TranspInv, ConnsFit
  <2> QED
    BY <2>1, <2>2
<1>12. TxsFit' /\ tx' \in [Tx -> TxState] /\ qentp' \in [Tx -> BOOLEAN] /\ ~dangling'
  <2>1. PICK C \in SUBSET Conn : C = {c}
    BY <1>1
  <2>2. \A u \in Tx, d \in Conn : On(u, d)' <=> On(u, d) \/ (u = t /\ d \in C)
    BY <1>7, <1>9, <1>10, <2>1 DEF On
  <2>3. (\A x, y \in C : x = y) /\ (C # {} => qentp' = [qentp EXCEPT ![t] = owned])
        /\ (C = {} => qentp' = qentp) /\ UNCHANGED <<walk, dangling>>
    BY <1>8, <2>1
  <2> QED
    BY <2>2, <2>3, Waits
<1>13. WalkFits'
  <2>1. CASE Idle
    BY <2>1 DEF TranspInv, WalkFits, Idle
  <2>2. CASE ~Idle
    <3>1. walk.c \in Conn /\ conn'[walk.c] = conn[walk.c]
      BY <1>4, <1>10, <2>2 DEF TranspInv, WalkFits
    <3> QED
      BY <2>2, <3>1 DEF TranspInv, WalkFits, Idle, Live
  <2> QED
    BY <2>1, <2>2
<1>14. KaFits'
  <2>1. \A d \in Conn : /\ conn'[d].st = conn[d].st /\ conn'[d].tc = conn[d].tc
                        /\ conn[d].tmr_ka => conn'[d].tmr_ka
    BY <1>9, <1>10
  <2> QED
    BY <2>1, KaKept
<1>16. TranspTypeOK'
  BY <1>10, <1>12, TranspTypes, TranspTypesNext DEF TranspInv
<1> QED
  BY <1>11, <1>12, <1>13, <1>14, <1>16 DEF TranspInv

(* conn_send: a connection is made for the message. *)
LEMMA ConnectingInv ==
  ASSUME TranspInv, NEW t \in Tx, tx[t] = "idle", NEW owned \in BOOLEAN,
         NEW p \in Peer, conn_find(p) = {}, NEW c \in Conn, Connecting(c, p, t, owned),
         tx' = [tx EXCEPT ![t] = IF owned THEN "active" ELSE "reply"],
         UNCHANGED <<ka, walk, dangling>>
  PROVE  TranspInv'
<1>1. PICK q : q = [Fresh EXCEPT !.st = "live", !.peer = p, !.tc = TRUE, !.hashed = TRUE, !.refs = 1]
  OBVIOUS
<1>2. /\ q \in ConnType /\ q.st = "live" /\ q.peer = p /\ q.tc = TRUE /\ q.hashed = TRUE
      /\ q.established = FALSE
      /\ q.ql = <<>> /\ q.tmr = FALSE /\ q.tmr_ka = FALSE /\ q.refs = 1 /\ q.held = 0
      /\ q.flushed = FALSE
  BY <1>1, OpenedFields, ZenonT(60)
<1>3. PICK l : l = <<t>>
  OBVIOUS
<1> DEFINE r == [q EXCEPT !.ql = l]
<1>4. /\ conn[c].st = "none" /\ conn' = [conn EXCEPT ![c] = r]
      /\ qentp' = [qentp EXCEPT ![t] = owned]
  BY <1>1, <1>3 DEF Connecting, Fresh
<1>5. l \in Seq(Tx) /\ El(l) = {t} /\ NoTwice(l)
  BY <1>3, OneEntry
<1>6. /\ r \in ConnType /\ r.st = "live" /\ r.peer = p /\ r.tc = TRUE /\ r.hashed = TRUE
      /\ r.established = FALSE
      /\ r.ql = l /\ r.tmr = FALSE /\ r.tmr_ka = FALSE /\ r.refs = 1 /\ r.held = 0
      /\ r.flushed = FALSE
  BY <1>2, <1>5 DEF ConnType
<1> HIDE DEF r
<1>7. Fits(r, FALSE, FALSE)
  BY <1>5, <1>6 DEF Fits, Own, Taken
<1>8. /\ conn' \in [Conn -> ConnType] /\ conn'[c] = r
      /\ \A d \in Conn : d # c => conn'[d] = conn[d]
      /\ conn[c].ql = <<>>
      /\ ConnsFit' /\ WalkFits' /\ KaFits'
  BY <1>4, <1>6, <1>7, ConnOpened
<1>9. TxsFit' /\ tx' \in [Tx -> TxState] /\ qentp' \in [Tx -> BOOLEAN] /\ ~dangling'
  <2>1. PICK C \in SUBSET Conn : C = {c}
    OBVIOUS
  <2>2. El(conn[c].ql) = {}
    BY <1>8 DEF El
  <2>3. \A u \in Tx, d \in Conn : On(u, d)' <=> On(u, d) \/ (u = t /\ d \in C)
    BY <1>5, <1>6, <1>8, <2>1, <2>2 DEF On
  <2>4. (\A x, y \in C : x = y) /\ (C # {} => qentp' = [qentp EXCEPT ![t] = owned])
        /\ (C = {} => qentp' = qentp) /\ UNCHANGED <<walk, dangling>>
    BY <1>4, <2>1
  <2> QED
    BY <2>3, <2>4, Waits
<1>10. TranspTypeOK'
  BY <1>8, <1>9, TranspTypes, TranspTypesNext DEF TranspInv
<1> QED
  BY <1>8, <1>9, <1>10 DEF TranspInv

(* sip_transp_send *)
LEMMA SendInv ==
  ASSUME TranspInv, NEW t \in Tx, NEW p \in Peer, NEW owned \in BOOLEAN, Send(t, p, owned)
  PROVE  TranspInv'
<1>1. /\ tx[t] = "idle" /\ tx' = [tx EXCEPT ![t] = IF owned THEN "active" ELSE "reply"]
      /\ UNCHANGED <<ka, walk, dangling>>
  BY DEF Send
<1>2. CASE UNCHANGED <<conn, qentp>>
  <2>1. UNCHANGED <<conn, qentp, ka, walk, dangling>>
    BY <1>1, <1>2
  <2> QED
    BY <1>1, <2>1, SendsNow
<1>3. CASE \E c \in conn_find(p) : ~conn[c].established /\ Enqueued(c, t, owned)
  BY <1>1, <1>3, EnqueuedInv
<1>4. CASE conn_find(p) = {} /\ \E c \in Conn : Connecting(c, p, t, owned)
  BY <1>1, <1>4, ConnectingInv
<1> QED
  BY <1>2, <1>3, <1>4 DEF Send

(* A transaction ends and takes its entry along. *)
LEMMA TxEndsInv ==
  ASSUME TranspInv, NEW t \in Tx, TxEnds(t)
  PROVE  TranspInv'
<1>1. /\ Idle /\ tx[t] \in {"active", "canceled"} /\ tx' = [tx EXCEPT ![t] = "ended"]
      /\ conn' = [c \in Conn |-> IF qentp[t] THEN [conn[c] EXCEPT !.ql = Unlink(@, t)] ELSE conn[c]]
      /\ qentp' = [qentp EXCEPT ![t] = FALSE] /\ UNCHANGED <<ka, walk, dangling>>
  BY DEF TxEnds
<1>2. /\ conn \in [Conn -> ConnType] /\ tx \in [Tx -> TxState] /\ qentp \in [Tx -> BOOLEAN]
  BY TranspTypes DEF TranspInv
<1>3. walk.cur # t
  BY <1>1, IdleFact, TranspAssumption DEF NoTx
<1>4. ASSUME NEW c \in Conn
      PROVE  /\ conn'[c] \in ConnType /\ conn'[c].st = conn[c].st /\ conn'[c].peer = conn[c].peer
             /\ conn'[c].tc = conn[c].tc /\ conn'[c].hashed = conn[c].hashed
             /\ conn'[c].established = conn[c].established /\ conn'[c].tmr = conn[c].tmr
             /\ conn'[c].tmr_ka = conn[c].tmr_ka /\ conn'[c].refs = conn[c].refs
             /\ conn'[c].held = conn[c].held /\ NoTwice(conn'[c].ql)
             /\ conn'[c].flushed = conn[c].flushed
             /\ El(conn'[c].ql) = El(conn[c].ql) \ {t}
  <2>1. conn[c] \in ConnType /\ Fits(conn[c], FALSE, FALSE)
    BY <1>1, <1>2, IdleFact
  <2>2. conn[c].ql \in Seq(Tx) /\ NoTwice(conn[c].ql)
    BY <2>1, ConnFields DEF Fits
  <2>3. CASE ~qentp[t]
    <3>1. t \notin El(conn[c].ql)
      BY <1>1, <1>3, <2>3 DEF TranspInv, TxsFit, On
    <3>2. conn'[c] = conn[c]
      BY <1>1, <2>3
    <3> QED
      BY <2>1, <2>2, <3>1, <3>2
  <2>4. CASE qentp[t]
    <3>1. PICK q \in Seq(Tx) : q = conn[c].ql
      BY <2>2
    <3>2. NoTwice(q)
      BY <2>2, <3>1
    <3>3. PICK l : l = Unlink(q, t)
      OBVIOUS
    <3>4. l \in Seq(Tx) /\ El(l) = El(q) \ {t} /\ NoTwice(l)
      BY <3>2, <3>3, Unlinked
    <3> DEFINE r == [conn[c] EXCEPT !.ql = l]
    <3>5. conn'[c] = r
      BY <1>1, <2>4, <3>1, <3>3
    <3>6. /\ r \in ConnType /\ r.st = conn[c].st /\ r.peer = conn[c].peer /\ r.tc = conn[c].tc
          /\ r.hashed = conn[c].hashed /\ r.established = conn[c].established
          /\ r.ql = l /\ r.tmr_ka = conn[c].tmr_ka /\ r.refs = conn[c].refs
          /\ r.held = conn[c].held /\ r.flushed = conn[c].flushed /\ r.tmr = conn[c].tmr
      BY <2>1, <3>4 DEF ConnType
    <3> HIDE DEF r
    <3> QED
      BY <3>1, <3>4, <3>5, <3>6
  <2> QED
    BY <2>3, <2>4
<1>5. conn' \in [Conn -> ConnType]
  BY <1>1, <1>4
<1>6. /\ tx' \in [Tx -> TxState] /\ tx'[t] = "ended" /\ \A u \in Tx : u # t => tx'[u] = tx[u]
  BY <1>1, <1>2 DEF TxState
<1>7. /\ qentp' \in [Tx -> BOOLEAN] /\ ~qentp'[t] /\ \A u \in Tx : u # t => qentp'[u] = qentp[u]
  BY <1>1, <1>2
<1>8. TranspTypeOK'
  BY <1>1, <1>5, <1>6, <1>7, TranspTypes, TranspTypesNext DEF TranspInv
<1>9. ConnsFit'
  <2> SUFFICES ASSUME NEW c \in Conn PROVE Fits(conn'[c], Closing(c), walk.c = c)
    BY <1>1 DEF ConnsFit, Closing
  <2>1. Fits(conn[c], Closing(c), walk.c = c)
    BY DEF TranspInv, ConnsFit
  <2>2. conn[c].ql \in Seq(Tx) /\ conn'[c].ql \in Seq(Tx)
    BY <1>2, <1>5, ConnFields
  <2>3. conn[c].ql = <<>> => conn'[c].ql = <<>>
    <3>1. conn[c].ql = <<>> <=> El(conn[c].ql) = {}
      BY <2>2, ElFacts
    <3>2. conn'[c].ql = <<>> <=> El(conn'[c].ql) = {}
      BY <2>2, ElFacts
    <3> QED
      BY <1>4, <3>1, <3>2
  <2>4. /\ conn'[c].st = conn[c].st /\ conn'[c].tc = conn[c].tc /\ conn'[c].hashed = conn[c].hashed
        /\ conn'[c].established = conn[c].established /\ conn'[c].tmr = conn[c].tmr
        /\ conn'[c].tmr_ka = conn[c].tmr_ka /\ conn'[c].refs = conn[c].refs
        /\ conn'[c].held = conn[c].held /\ NoTwice(conn'[c].ql)
        /\ conn'[c].flushed = conn[c].flushed
    BY <1>4
  <2> QED
    BY <2>1, <2>3, <2>4 DEF Fits, Own, Taken
<1>10. TxsFit'
  <2> SUFFICES ASSUME NEW u \in Tx
               PROVE  /\ \A x, y \in Conn : On(u, x)' /\ On(u, y)' => x = y
                      /\ \A x \in Conn : On(u, x)' => tx'[u] # "idle"
                      /\ qentp'[u] => (\E x \in Conn : On(u, x)') /\ walk'.cur # u
                      /\ tx'[u] \in {"active", "canceled"} /\ (\E x \in Conn : On(u, x)') =>
                           qentp'[u] \/ walk'.cur = u
    BY DEF TxsFit
  <2>1. CASE u = t
    <3>1. \A x \in Conn : ~On(u, x)'
      BY <1>4, <2>1 DEF On
    <3> QED
      BY <1>7, <2>1, <3>1
  <2>2. CASE u # t
    <3>1. \A x \in Conn : On(u, x)' <=> On(u, x)
      BY <1>4, <2>2 DEF On
    <3>2. tx'[u] = tx[u] /\ qentp'[u] = qentp[u] /\ walk' = walk
      BY <1>1, <1>6, <1>7, <2>2
    <3> QED
      BY <3>1, <3>2 DEF TranspInv, TxsFit
  <2> QED
    BY <2>1, <2>2
<1>11. WalkFits'
  BY <1>1 DEF TranspInv, WalkFits, Idle
<1>12. KaFits'
  <2>1. \A d \in Conn : /\ conn'[d].st = conn[d].st /\ conn'[d].tc = conn[d].tc
                        /\ conn[d].tmr_ka => conn'[d].tmr_ka
    BY <1>4
  <2> QED
    BY <1>1, <2>1, KaKept
<1> QED
  BY <1>1, <1>8, <1>9, <1>10, <1>11, <1>12 DEF TranspInv

(* A connection that was freed, with some messages that still point to it *)
LEMMA FreedFields ==
  ASSUME NEW c \in Conn, conn \in [Conn -> ConnType], NEW n \in 0 .. MaxHeld,
         NEW r, r = Destroyed(c, n), n = 0 \/ conn[c].flushed
  PROVE  /\ r \in ConnType /\ Fits(r, FALSE, FALSE) /\ r.ql = <<>> /\ El(r.ql) = {} /\ ~r.tc
<1> DEFINE a == [Fresh EXCEPT !.st = "freed"]
           b == [a EXCEPT !.held = n]
           e == [b EXCEPT !.flushed = conn[c].flushed]
<1>1. r = e
  BY DEF Destroyed, Fresh
<1>2. /\ Fresh \in ConnType /\ Fresh.tc = FALSE /\ Fresh.hashed = FALSE
      /\ Fresh.tmr = FALSE /\ Fresh.tmr_ka = FALSE /\ Fresh.ql = <<>>
  BY FreshType DEF Fresh
<1>3. /\ a \in ConnType /\ a.st = "freed" /\ a.tc = FALSE /\ a.hashed = FALSE
      /\ a.tmr = FALSE /\ a.tmr_ka = FALSE /\ a.ql = <<>>
  BY <1>2 DEF ConnType
<1> HIDE DEF a
<1>4. /\ b \in ConnType /\ b.st = "freed" /\ b.tc = FALSE /\ b.hashed = FALSE
      /\ b.tmr = FALSE /\ b.tmr_ka = FALSE /\ b.ql = <<>> /\ b.held = n
  BY <1>3 DEF ConnType
<1> HIDE DEF b
<1>5. conn[c].flushed \in BOOLEAN
  BY ConnFields
<1>6. /\ e \in ConnType /\ e.st = "freed" /\ e.tc = FALSE /\ e.hashed = FALSE
      /\ e.tmr = FALSE /\ e.tmr_ka = FALSE /\ e.ql = <<>> /\ e.held = n
      /\ e.flushed = conn[c].flushed
  BY <1>4, <1>5 DEF ConnType
<1> HIDE DEF e
<1>7. NoTwice(<<>>) /\ El(<<>>) = {}
  BY EmptySeq DEF NoTwice, El
<1>8. e.held = 0 \/ e.flushed
  BY <1>6
<1>9. Fits(e, FALSE, FALSE)
  BY <1>6, <1>7, <1>8 DEF Fits
<1> QED
  BY <1>1, <1>6, <1>7, <1>9

(* Connections go (conn_destructor): their entries and their keepalives    *)
(* are forgotten, and on those that stay nothing is.                       *)
LEMMA Gone ==
  ASSUME TranspInv, Idle, NEW G \in SUBSET Conn, conn' \in [Conn -> ConnType],
         \A c \in Conn : Fits(conn'[c], FALSE, FALSE),
         \A c \in G : El(conn'[c].ql) = {},
         \A c \in Conn : c \notin G =>
           /\ conn'[c].ql = conn[c].ql /\ conn'[c].st = conn[c].st
           /\ conn'[c].tc = conn[c].tc /\ conn'[c].tmr_ka = conn[c].tmr_ka,
         Forget(G), UNCHANGED <<tx, walk, dangling>>
  PROVE  TranspInv'
<1>1. TranspTypeOK /\ conn \in [Conn -> ConnType] /\ qentp \in [Tx -> BOOLEAN]
      /\ ka \in [Ka -> Conn \cup {"none", "signalled"}]
  BY TranspTypes DEF TranspInv
<1>2. /\ qentp' \in [Tx -> BOOLEAN]
      /\ \A t \in Tx : qentp'[t] <=> qentp[t] /\ \A c \in G : ~On(t, c)
  <2>1. qentp' = [t \in Tx |-> qentp[t] /\ Queued(t) \cap G = {}]
    BY DEF Forget
  <2>2. \A t \in Tx : Queued(t) \cap G = {} <=> \A c \in G : ~On(t, c)
    BY QueuedOn
  <2> QED
    BY <1>1, <2>1, <2>2
<1>3. /\ ka' \in [Ka -> Conn \cup {"none", "signalled"}]
      /\ \A k \in Ka, d \in Conn : ka'[k] = d => ka[k] = d /\ d \notin G
  <2>1. "none" \notin Conn
    BY TranspAssumption
  <2> QED
    BY <1>1, <2>1 DEF Forget
<1>4. TranspTypeOK'
  BY <1>1, <1>2, <1>3, TranspTypes, TranspTypesNext
<1>5. ConnsFit'
  <2> SUFFICES ASSUME NEW c \in Conn PROVE Fits(conn'[c], Closing(c), walk.c = c)
    BY DEF ConnsFit, Closing
  <2>1. Closing(c) = FALSE /\ (walk.c = c) = FALSE
    BY IdleFact DEF Closing
  <2> QED
    BY <2>1
<1>6. TxsFit'
  <2> SUFFICES ASSUME NEW u \in Tx
               PROVE  /\ \A x, y \in Conn : On(u, x)' /\ On(u, y)' => x = y
                      /\ \A x \in Conn : On(u, x)' => tx'[u] # "idle"
                      /\ qentp'[u] => (\E x \in Conn : On(u, x)') /\ walk'.cur # u
                      /\ tx'[u] \in {"active", "canceled"} /\ (\E x \in Conn : On(u, x)') =>
                           qentp'[u] \/ walk'.cur = u
    BY DEF TxsFit
  <2>1. \A x \in Conn : On(u, x)' <=> On(u, x) /\ x \notin G
    BY DEF On
  <2>2. /\ \A x, y \in Conn : On(u, x) /\ On(u, y) => x = y
        /\ \A x \in Conn : On(u, x) => tx[u] # "idle"
        /\ qentp[u] => (\E x \in Conn : On(u, x)) /\ walk.cur # u
        /\ tx[u] \in {"active", "canceled"} /\ (\E x \in Conn : On(u, x)) =>
             qentp[u] \/ walk.cur = u
    BY DEF TranspInv, TxsFit
  <2> QED
    BY <1>2, <2>1, <2>2
<1>7. WalkFits'
  BY DEF TranspInv, WalkFits, Idle
<1>8. KaFits'
  <2> SUFFICES ASSUME NEW j \in Ka, NEW d \in Conn, ka'[j] = d
               PROVE  /\ conn'[d].st = "live"
                      /\ \/ walk'.op = "close" /\ walk'.c = d
                         \/ conn'[d].tc /\ conn'[d].tmr_ka
    BY KaGoal
  <2>1. ka[j] = d /\ d \notin G
    BY <1>3
  <2>2. conn[d].st = "live" /\ conn[d].tc /\ conn[d].tmr_ka
    BY <2>1, KaFact, IdleFact
  <2> QED
    BY <2>1, <2>2
<1> QED
  BY <1>4, <1>5, <1>6, <1>7, <1>8 DEF TranspInv

(* A held message is released, and it is not the last to let go. *)
LEMMA MsgLeaves ==
  ASSUME TranspInv, Idle, NEW c \in Conn, conn[c].st = "live", conn[c].held > 0, conn[c].refs # 1,
         conn' = [conn EXCEPT ![c].held = @ - 1, ![c].refs = @ - 1],
         UNCHANGED <<tx, qentp, ka, walk, dangling>>
  PROVE  TranspInv'
<1>1. /\ conn \in [Conn -> ConnType] /\ conn[c] \in ConnType
      /\ ka \in [Ka -> Conn \cup {"none", "signalled"}]
  BY TranspTypes DEF TranspInv
<1> DEFINE h == conn[c].held - 1
           n == conn[c].refs - 1
           q == [conn[c] EXCEPT !.held = h]
           r == [q EXCEPT !.refs = n]
<1>2. conn' = [conn EXCEPT ![c] = r]
  BY <1>1 DEF ConnType
<1>3. Fits(conn[c], FALSE, FALSE)
  BY IdleFact
<1>4. conn[c].refs \in Nat /\ conn[c].held \in 0 .. MaxHeld /\ MaxHeld \in Nat
  BY <1>1, ConnFields, TranspAssumption
<1>5. conn[c].refs > 0 /\ conn[c].refs + Taken(conn[c]) = conn[c].held + Own(conn[c], FALSE)
  BY <1>3 DEF Fits
<1>6. conn[c].flushed \in BOOLEAN /\ conn[c].tc \in BOOLEAN
  BY <1>1, ConnFields
<1>7. /\ h \in 0 .. MaxHeld /\ n \in Nat /\ n > 0
      /\ n + Taken(conn[c]) = h + Own(conn[c], FALSE)
  BY <1>4, <1>5, <1>6 DEF Taken, Own
<1> HIDE DEF h, n
<1>8. /\ q \in ConnType /\ q.st = conn[c].st /\ q.peer = conn[c].peer /\ q.tc = conn[c].tc
      /\ q.hashed = conn[c].hashed /\ q.established = conn[c].established
      /\ q.ql = conn[c].ql /\ q.tmr_ka = conn[c].tmr_ka /\ q.tmr = conn[c].tmr /\ q.held = h
      /\ q.flushed = conn[c].flushed
  BY <1>1, <1>7 DEF ConnType
<1> HIDE DEF q
<1>9. /\ r \in ConnType /\ r.st = q.st /\ r.peer = q.peer /\ r.tc = q.tc
      /\ r.hashed = q.hashed /\ r.established = q.established
      /\ r.ql = q.ql /\ r.tmr_ka = q.tmr_ka /\ r.tmr = q.tmr /\ r.held = q.held /\ r.refs = n
      /\ r.flushed = q.flushed
  BY <1>7, <1>8 DEF ConnType
<1> HIDE DEF r
<1>10. Fits(r, Closing(c), walk.c = c)
  <2>1. Taken(r) = Taken(conn[c]) /\ Own(r, FALSE) = Own(conn[c], FALSE)
    BY <1>8, <1>9 DEF Taken, Own
  <2>2. r.refs > 0 /\ r.refs + Taken(r) = r.held + Own(r, FALSE)
    BY <1>7, <1>8, <1>9, <2>1
  <2>3. Fits(r, FALSE, FALSE)
    BY <1>3, <1>8, <1>9, <2>2 DEF Fits
  <2>4. Closing(c) = FALSE /\ (walk.c = c) = FALSE
    BY IdleFact DEF Closing
  <2> QED
    BY <2>3, <2>4
<1>11. KaFits'
  <2>1. conn'[c] = r /\ \A d \in Conn : d # c => conn'[d] = conn[d]
    BY <1>1, <1>2, <1>9
  <2>2. \A d \in Conn : /\ conn'[d].st = conn[d].st /\ conn'[d].tc = conn[d].tc
                        /\ conn[d].tmr_ka => conn'[d].tmr_ka
    BY <1>8, <1>9, <2>1
  <2> QED
    BY <2>2, KaKept
<1>12. /\ r.ql = conn[c].ql /\ r.st = conn[c].st /\ r.peer = conn[c].peer /\ r.tc = conn[c].tc
       /\ r.established = conn[c].established /\ r \in ConnType
       /\ ka' \in [Ka -> Conn \cup {"none", "signalled"}]
  BY <1>1, <1>8, <1>9
<1> QED
  BY <1>2, <1>10, <1>11, <1>12, OneConn

(* A message lets go of a connection that was freed. *)
LEMMA MsgLate ==
  ASSUME TranspInv, Idle, NEW c \in Conn, conn[c].st # "live", conn[c].held > 0,
         conn' = [conn EXCEPT ![c].held = @ - 1], UNCHANGED <<tx, qentp, ka, walk, dangling>>
  PROVE  TranspInv'
<1>1. /\ conn \in [Conn -> ConnType] /\ conn[c] \in ConnType
      /\ ka \in [Ka -> Conn \cup {"none", "signalled"}]
  BY TranspTypes DEF TranspInv
<1> DEFINE h == conn[c].held - 1
           r == [conn[c] EXCEPT !.held = h]
<1>2. conn' = [conn EXCEPT ![c] = r]
  BY <1>1 DEF ConnType
<1>3. Fits(conn[c], FALSE, FALSE)
  BY IdleFact
<1>4. conn[c].held \in 0 .. MaxHeld /\ MaxHeld \in Nat
  BY <1>1, ConnFields, TranspAssumption
<1>5. h \in 0 .. MaxHeld /\ conn[c].flushed
  <2>1. conn[c].flushed
    BY <1>3, <1>4 DEF Fits
  <2> QED
    BY <1>4, <2>1
<1> HIDE DEF h
<1>6. /\ r \in ConnType /\ r.st = conn[c].st /\ r.peer = conn[c].peer /\ r.tc = conn[c].tc
      /\ r.hashed = conn[c].hashed /\ r.established = conn[c].established
      /\ r.ql = conn[c].ql /\ r.tmr_ka = conn[c].tmr_ka /\ r.tmr = conn[c].tmr /\ r.held = h
      /\ r.flushed = conn[c].flushed /\ r.refs = conn[c].refs
  BY <1>1, <1>5 DEF ConnType
<1> HIDE DEF r
<1>7. Fits(r, Closing(c), walk.c = c)
  <2>1. Fits(r, FALSE, FALSE)
    BY <1>3, <1>5, <1>6 DEF Fits
  <2>2. Closing(c) = FALSE /\ (walk.c = c) = FALSE
    BY IdleFact DEF Closing
  <2> QED
    BY <2>1, <2>2
<1>8. KaFits'
  <2>1. conn'[c] = r /\ \A d \in Conn : d # c => conn'[d] = conn[d]
    BY <1>1, <1>2, <1>6
  <2>2. \A d \in Conn : /\ conn'[d].st = conn[d].st /\ conn'[d].tc = conn[d].tc
                        /\ conn[d].tmr_ka => conn'[d].tmr_ka
    BY <1>6, <2>1
  <2> QED
    BY <2>2, KaKept
<1> QED
  BY <1>1, <1>2, <1>6, <1>7, <1>8, OneConn

(* The last message lets go. *)
LEMMA MsgLast ==
  ASSUME TranspInv, Idle, NEW c \in Conn, conn[c].st = "live", conn[c].held > 0, conn[c].refs = 1,
         conn' = [conn EXCEPT ![c] = Destroyed(c, conn[c].held - 1)], Forget({c}),
         UNCHANGED <<tx, walk, dangling>>
  PROVE  TranspInv'
<1>1. conn \in [Conn -> ConnType] /\ conn[c] \in ConnType /\ Fits(conn[c], FALSE, FALSE)
  BY TranspTypes, IdleFact DEF TranspInv
<1>2. conn[c].held \in 0 .. MaxHeld /\ MaxHeld \in Nat /\ conn[c].flushed \in BOOLEAN
  BY <1>1, ConnFields, TranspAssumption
<1>3. 1 + Taken(conn[c]) = conn[c].held + Own(conn[c], FALSE)
  BY <1>1 DEF Fits
<1>4. PICK n \in 0 .. MaxHeld : n = conn[c].held - 1
  BY <1>2
<1>5. n = 0 \/ conn[c].flushed
  BY <1>2, <1>3, <1>4 DEF Own, Taken
<1>6. PICK r : r = Destroyed(c, n)
  OBVIOUS
<1>7. r \in ConnType /\ Fits(r, FALSE, FALSE) /\ El(r.ql) = {}
  BY <1>1, <1>5, <1>6, FreedFields
<1>8. conn' = [conn EXCEPT ![c] = r]
  BY <1>4, <1>6
<1>9. /\ conn' \in [Conn -> ConnType] /\ conn'[c] = r
      /\ \A d \in Conn : d # c => conn'[d] = conn[d]
  BY <1>1, <1>7, <1>8, ConnSet
<1>10. \A d \in Conn : Fits(conn'[d], FALSE, FALSE)
  BY <1>7, <1>9, IdleFact
<1>11. PICK G \in SUBSET Conn : G = {c}
  OBVIOUS
<1>12. /\ \A d \in G : El(conn'[d].ql) = {}
       /\ \A d \in Conn : d \notin G =>
            /\ conn'[d].ql = conn[d].ql /\ conn'[d].st = conn[d].st
            /\ conn'[d].tc = conn[d].tc /\ conn'[d].tmr_ka = conn[d].tmr_ka
       /\ Forget(G)
  BY <1>7, <1>9, <1>11
<1> QED
  BY <1>9, <1>10, <1>12, Gone

(* A held message is released. *)
LEMMA MsgFreedInv ==
  ASSUME TranspInv, NEW c \in Conn, MsgFreed(c)
  PROVE  TranspInv'
BY MsgLeaves, MsgLate, MsgLast DEF MsgFreed, Live

(* What a flush makes of a connection that a message keeps *)
LEMMA FlushedFields ==
  ASSUME TranspInv, Idle, NEW c \in Found, c \notin Unheld,
         NEW r, r = [conn[c] EXCEPT !.hashed = FALSE, !.refs = @ - 1, !.flushed = TRUE]
  PROVE  /\ r \in ConnType /\ Fits(r, FALSE, FALSE) /\ r.ql = conn[c].ql /\ r.st = conn[c].st
         /\ r.tc = conn[c].tc /\ r.tmr_ka = conn[c].tmr_ka
<1>1. /\ conn \in [Conn -> ConnType] /\ conn[c] \in ConnType /\ Fits(conn[c], FALSE, FALSE)
      /\ conn[c].st = "live" /\ conn[c].hashed /\ conn[c].refs # 1
  BY TranspTypes, IdleFact DEF TranspInv, Found, Unheld, Live
<1>2. conn[c].refs \in Nat /\ conn[c].held \in 0 .. MaxHeld /\ MaxHeld \in Nat
  BY <1>1, ConnFields, TranspAssumption
<1>3. conn[c].tc /\ ~conn[c].flushed /\ conn[c].refs = conn[c].held + 1
  <2>1. /\ conn[c].tc /\ ~conn[c].flushed
        /\ conn[c].refs + Taken(conn[c]) = conn[c].held + Own(conn[c], FALSE)
    BY <1>1 DEF Fits
  <2> QED
    BY <1>2, <2>1 DEF Taken, Own
<1> DEFINE n == conn[c].refs - 1
           a == [conn[c] EXCEPT !.hashed = FALSE]
           b == [a EXCEPT !.refs = n]
           e == [b EXCEPT !.flushed = TRUE]
<1>4. n \in Nat /\ n > 0 /\ n = conn[c].held
  BY <1>1, <1>2, <1>3
<1>5. r = e
  BY <1>1 DEF ConnType
<1> HIDE DEF n
<1>6. /\ a \in ConnType /\ a.st = conn[c].st /\ a.tc = conn[c].tc /\ a.hashed = FALSE
      /\ a.established = conn[c].established /\ a.ql = conn[c].ql /\ a.tmr = conn[c].tmr
      /\ a.tmr_ka = conn[c].tmr_ka /\ a.held = conn[c].held
  BY <1>1 DEF ConnType
<1> HIDE DEF a
<1>7. /\ b \in ConnType /\ b.st = a.st /\ b.tc = a.tc /\ b.hashed = a.hashed
      /\ b.established = a.established /\ b.ql = a.ql /\ b.tmr = a.tmr
      /\ b.tmr_ka = a.tmr_ka /\ b.held = a.held /\ b.refs = n
  BY <1>4, <1>6 DEF ConnType
<1> HIDE DEF b
<1>8. /\ e \in ConnType /\ e.st = b.st /\ e.tc = b.tc /\ e.hashed = b.hashed
      /\ e.established = b.established /\ e.ql = b.ql /\ e.tmr = b.tmr
      /\ e.tmr_ka = b.tmr_ka /\ e.held = b.held /\ e.refs = b.refs /\ e.flushed = TRUE
  BY <1>7 DEF ConnType
<1> HIDE DEF e
<1>9. Fits(e, FALSE, FALSE)
  <2>1. /\ e.st = "live" /\ e.tc /\ e.hashed = FALSE /\ e.flushed = TRUE /\ e.refs = n
        /\ e.held = conn[c].held /\ e.ql = conn[c].ql /\ e.established = conn[c].established
    BY <1>1, <1>3, <1>6, <1>7, <1>8
  <2>2. Taken(e) = 1 /\ Own(e, FALSE) = 1
    BY <2>1 DEF Taken, Own
  <2>3. e.refs > 0 /\ e.refs + Taken(e) = e.held + Own(e, FALSE)
    BY <1>4, <2>1, <2>2
  <2> QED
    BY <1>1, <1>3, <2>1, <2>3 DEF Fits
<1> QED
  BY <1>5, <1>6, <1>7, <1>8, <1>9

(* sip_transp_flush: the connections go that only the stack refers to, the *)
(* others stay for their messages.                                         *)
LEMMA FlushInv ==
  ASSUME TranspInv, Flush
  PROVE  TranspInv'
<1>1. /\ Idle /\ conn' = [c \in Conn |-> IF c \in Found THEN FlushOne(c) ELSE conn[c]]
      /\ Forget(Unheld) /\ UNCHANGED <<tx, walk, dangling>>
  BY DEF Flush
<1>2. conn \in [Conn -> ConnType] /\ 0 \in 0 .. MaxHeld
  BY TranspTypes, TranspAssumption DEF TranspInv
<1>3. Unheld \in SUBSET Conn /\ Unheld \subseteq Found /\ Found \subseteq Conn
  BY DEF Unheld, Found
<1>4. ASSUME NEW c \in Unheld
      PROVE  conn'[c] \in ConnType /\ Fits(conn'[c], FALSE, FALSE) /\ El(conn'[c].ql) = {}
  <2>1. PICK r : r = Destroyed(c, 0)
    OBVIOUS
  <2>2. c \in Conn /\ conn'[c] = r
    BY <1>1, <1>3, <2>1 DEF FlushOne
  <2>3. r \in ConnType /\ Fits(r, FALSE, FALSE) /\ El(r.ql) = {}
    BY <1>2, <2>1, <2>2, FreedFields
  <2> QED
    BY <2>2, <2>3
<1>5. ASSUME NEW c \in Conn, c \notin Unheld
      PROVE  /\ conn'[c] \in ConnType /\ Fits(conn'[c], FALSE, FALSE)
             /\ conn'[c].ql = conn[c].ql /\ conn'[c].st = conn[c].st
             /\ conn'[c].tc = conn[c].tc /\ conn'[c].tmr_ka = conn[c].tmr_ka
  <2>1. CASE c \in Found
    <3>1. PICK r : r = [conn[c] EXCEPT !.hashed = FALSE, !.refs = @ - 1, !.flushed = TRUE]
      OBVIOUS
    <3>2. conn'[c] = r
      BY <1>1, <1>5, <2>1, <3>1 DEF FlushOne
    <3>3. /\ r \in ConnType /\ Fits(r, FALSE, FALSE) /\ r.ql = conn[c].ql /\ r.st = conn[c].st
          /\ r.tc = conn[c].tc /\ r.tmr_ka = conn[c].tmr_ka
      BY <1>1, <1>5, <2>1, <3>1, FlushedFields
    <3> QED
      BY <3>2, <3>3
  <2>2. CASE c \notin Found
    <3>1. conn'[c] = conn[c]
      BY <1>1, <2>2
    <3>2. conn[c] \in ConnType /\ Fits(conn[c], FALSE, FALSE)
      BY <1>1, <1>2, IdleFact
    <3> QED
      BY <3>1, <3>2
  <2> QED
    BY <2>1, <2>2
<1>6. conn' \in [Conn -> ConnType]
  BY <1>1, <1>4, <1>5
<1>7. \A c \in Conn : Fits(conn'[c], FALSE, FALSE)
  BY <1>4, <1>5
<1> QED
  BY <1>1, <1>3, <1>4, <1>5, <1>6, <1>7, Gone

LEMMA TranspNextInv ==
  ASSUME TranspInv, [TranspNext]_transpVars
  PROVE  TranspInv'
<1>1. CASE WalkEnter
  BY <1>1, WalkEnterInv
<1>2. CASE WalkLeave
  BY <1>2, WalkLeaveInv
<1>3. CASE WalkEnd
  BY <1>3, WalkEndInv
<1>4. CASE Flush
  BY <1>4, FlushInv
<1>5. CASE \E t \in Tx : TxEnds(t) \/ Release(t)
  BY <1>5, TxEndsInv, ReleaseInv
<1>6. CASE \E t \in Tx, p \in Peer, owned \in BOOLEAN : Send(t, p, owned)
  BY <1>6, SendInv
<1>7. CASE \E c \in Conn : \/ Closed(c) \/ ConnTimer(c) \/ ConnKeepalive(c)
                           \/ Estab(c) \/ MsgFreed(c)
                           \/ \E keeps \in BOOLEAN : Received(c, keeps)
                           \/ \E p \in Peer : Accept(c, p)
                           \/ \E k \in Ka : KaStart(k, c)
  BY <1>7, ClosedInv, ConnKeepaliveInv, EstabInv, MsgFreedInv, ReceivedInv, AcceptInv, KaStartInv
<1>8. CASE \E k \in Ka : KaStop(k)
  BY <1>8, KaStopInv
<1>9. CASE UNCHANGED transpVars
  BY <1>9 DEF transpVars, TranspInv, TranspTypeOK, ConnsFit, TxsFit, WalkFits, KaFits,
       Closing, On, Idle, Live
<1> QED
  BY <1>1, <1>2, <1>3, <1>4, <1>5, <1>6, <1>7, <1>8, <1>9 DEF TranspNext

(* At most one: the counts of the property *)
LEMMA AtMostOne ==
  ASSUME NEW S, \A x, y \in S : x = y
  PROVE  Cardinality(S) <= 1
<1>1. CASE S = {}
  BY <1>1, FS_EmptySet
<1>2. CASE S # {}
  <2>1. PICK x : S = {x}
    BY <1>2
  <2>2. Cardinality({x}) = 1
    BY FS_Singleton
  <2> QED
    BY <2>1, <2>2
<1> QED
  BY <1>1, <1>2

LEMMA TranspInvSound == TranspInv => TransportSound
<1> SUFFICES ASSUME TranspInv PROVE TransportSound
  OBVIOUS
<1>1. conn \in [Conn -> ConnType]
  BY TranspTypes DEF TranspInv
<1>2. SockValid
  <2> SUFFICES ASSUME NEW c \in Conn, conn[c].held > 0, ~(conn[c].flushed /\ ~conn[c].tc)
               PROVE  Live(c) /\ conn[c].refs >= conn[c].held
    BY DEF SockValid
  <2>1. Fits(conn[c], Closing(c), walk.c = c)
    BY DEF TranspInv, ConnsFit
  <2>2. /\ conn[c].held \in 0 .. MaxHeld /\ MaxHeld \in Nat /\ conn[c].refs \in Nat
        /\ conn[c].flushed \in BOOLEAN /\ conn[c].tc \in BOOLEAN
    BY <1>1, ConnFields, TranspAssumption
  <2>3. conn[c].st = "live"
    BY <2>1, <2>2 DEF Fits
  <2>4. conn[c].refs + Taken(conn[c]) = conn[c].held + Own(conn[c], Closing(c))
    BY <2>1, <2>3 DEF Fits
  <2>5. /\ Taken(conn[c]) \in 0 .. 1 /\ Own(conn[c], Closing(c)) \in 0 .. 1
        /\ Taken(conn[c]) <= Own(conn[c], Closing(c))
    BY DEF Taken, Own
  <2> QED
    BY <2>2, <2>3, <2>4, <2>5 DEF Live
<1>3. ASSUME NEW t \in Tx
      PROVE  /\ Cardinality(Queued(t)) <= 1
             /\ \A c \in Queued(t) : Live(c) /\ tx[t] # "idle"
             /\ qentp[t] => Queued(t) # {} /\ walk.cur # t
             /\ tx[t] \in {"active", "canceled"} /\ Queued(t) # {} => qentp[t] \/ walk.cur = t
  <2>1. Queued(t) \subseteq Conn /\ \A c \in Conn : c \in Queued(t) <=> On(t, c)
    BY QueuedOn DEF Queued
  <2>2. \A x, y \in Queued(t) : x = y
    BY <2>1 DEF TranspInv, TxsFit
  <2>3. Cardinality(Queued(t)) <= 1
    BY <2>2, AtMostOne
  <2>4. \A c \in Queued(t) : Live(c)
    <3> SUFFICES ASSUME NEW c \in Conn, On(t, c), ~Live(c) PROVE FALSE
      BY <2>1
    <3>1. conn[c].ql = <<>>
      BY DEF TranspInv, ConnsFit, Fits, Live
    <3> QED
      BY <3>1 DEF On, El
  <2> QED
    BY <2>1, <2>3, <2>4 DEF TranspInv, TxsFit
<1>4. TransportSafe
  BY <1>2, <1>3 DEF TransportSafe, TranspInv
<1>5. ASSUME NEW c \in Conn
      PROVE  /\ conn[c].ql # <<>> /\ walk.c # c => conn[c].tc /\ ~conn[c].established
             /\ Kal(c) # {} => Live(c) /\ (walk.c = c \/ (conn[c].tc /\ conn[c].tmr_ka))
             /\ Live(c) => conn[c].hashed \/ walk.c = c \/ conn[c].held > 0
  <2>1. conn[c].ql # <<>> /\ walk.c # c => conn[c].tc /\ ~conn[c].established
    BY DEF TranspInv, ConnsFit, Fits
  <2>2. Kal(c) # {} => Live(c) /\ (walk.c = c \/ (conn[c].tc /\ conn[c].tmr_ka))
    BY KaFact DEF Kal, Live, Closing
  <2>3. ASSUME Live(c), ~conn[c].hashed, walk.c # c PROVE conn[c].held > 0
    <3>1. Fits(conn[c], Closing(c), walk.c = c) /\ ~Closing(c) /\ conn[c].st = "live"
      BY <2>3 DEF TranspInv, ConnsFit, Closing, Live
    <3>2. /\ conn[c].refs > 0
          /\ conn[c].refs + Taken(conn[c]) = conn[c].held + Own(conn[c], Closing(c))
          /\ conn[c].tc => conn[c].flushed
      BY <2>3, <3>1 DEF Fits
    <3>3. /\ conn[c].held \in 0 .. MaxHeld /\ MaxHeld \in Nat /\ conn[c].refs \in Nat
      BY <1>1, ConnFields, TranspAssumption
    <3>4. /\ Taken(conn[c]) \in 0 .. 1 /\ Own(conn[c], Closing(c)) \in 0 .. 1
          /\ Own(conn[c], Closing(c)) <= Taken(conn[c])
      BY <3>1, <3>2 DEF Taken, Own
    <3> QED
      BY <3>2, <3>3, <3>4
  <2> QED
    BY <2>1, <2>2, <2>3
<1>6. ASSUME NEW p \in Peer, NEW c \in conn_find(p) PROVE conn[c].tc
  BY DEF conn_find, TranspInv, ConnsFit, Fits
<1>7. NothingStranded
  BY <1>5, <1>6 DEF NothingStranded
<1> QED
  BY <1>4, <1>7 DEF TransportSound

(* The connections of the SIP stack, their queues and their keepalives     *)
(* (sip/transp.c, sip/keepalive.c), over connects, closes, messages that   *)
(* are held and flushes in any order: no message that is held refers to a  *)
(* freed connection (but for one that was flushed under the message and    *)
(* then closed), no loop goes on with a freed entry, a message is in the   *)
(* queue of at most one connection and its transaction knows of it exactly *)
(* then, nothing waits on a connection that no one will establish or       *)
(* empty, and no connection is kept for no one.                            *)
THEOREM TransportKept == TranspSpec => []TransportSound
<1>1. TranspInit => TranspInv
  BY TranspInitInv
<1>2. TranspInv /\ [TranspNext]_transpVars => TranspInv'
  BY TranspNextInv
<1>3. TranspInv => TransportSound
  BY TranspInvSound
<1> QED
  BY <1>1, <1>2, <1>3, PTL DEF TranspSpec

----------------------------------------------------------------------------
(* The DNS client *)

QType ==
  [st : {"none", "live", "told", "canceled", "failed"}, proto : {"udp", "tcp"},
   ntx : Nat, tmr : BOOLEAN, tc : TcpConn \cup {Nil}]
TcType ==
  [st : {"none", "live", "freed"}, srv : 0 .. Servers, conn : BOOLEAN,
   connected : BOOLEAN, ql : Seq(Query), tmr : BOOLEAN, refs : Nat]
FrameType ==
  [op : {"close", "send"}, tc : TcpConn \cup {Nil}, q : Query \cup {Nil},
   by : {"query", "fail"}, err : BOOLEAN]

(* What a connection is like, with the queries that wait on it: the list   *)
(* holds each of them once, the count is theirs and its own; a dead one is *)
(* being closed.                                                           *)
TcGood(x, W, closing) ==
  /\ NoTwice(x.ql) /\ El(x.ql) = W
  /\ x.st = "live" => x.refs = 1 + Len(x.ql) /\ x.tmr
  /\ x.st # "live" => x.ql = <<>>
  /\ x.st = "live" /\ ~x.conn => closing

(* What a query is like: it waits on a connection, for its timer, or for   *)
(* a call under way that names it.                                         *)
QGood(x, named) ==
  /\ x.tc # Nil => x.st = "live" /\ x.proto = "tcp" /\ x.tmr
  /\ x.st = "none" => x.proto = "udp"
  /\ x.st = "live" /\ x.proto = "udp" => x.tmr
  /\ x.st = "live" /\ x.proto = "tcp" /\ x.tc = Nil => named

ClosesIn(s, c) == \E f \in El(s) : f.op = "close" /\ f.tc = c
NamedIn(s, q) == \E f \in El(s) : f.q = q

(* A call under way: tcpconn_close works on a dead connection, with the    *)
(* head of its list as the next query; send_tcp works on a live query that *)
(* waits nowhere.                                                          *)
FrameGood(f, Q, T) ==
  /\ f.op = "close" => /\ f.tc \in TcpConn /\ T[f.tc].st = "live" /\ ~T[f.tc].conn
                       /\ f.q = HeadOf(T[f.tc].ql)
  /\ f.op = "send" => /\ f.q \in Query /\ Q[f.q].st = "live" /\ Q[f.q].proto = "tcp"
                      /\ Q[f.q].tc = Nil

(* No two calls work on the same. *)
Apart(f, g) ==
  /\ f.op = "close" /\ g.op = "close" => f.tc # g.tc
  /\ f.op = "send" /\ g.op = "send" => f.q # g.q
AllApart(s) == \A i, j \in 1 .. Len(s) : i # j => Apart(s[i], s[j])

TcsFit == \A c \in TcpConn : TcGood(dtc[c], Waiting(c), ClosesIn(stack, c))
QueriesFit == \A q \in Query : QGood(dq[q], NamedIn(stack, q))
StackFits == (\A f \in El(stack) : FrameGood(f, dq, dtc)) /\ AllApart(stack)

(* The inductive invariant of the DNS client *)
DnsInv == DnsTypeOK /\ ~twice /\ TcsFit /\ QueriesFit /\ StackFits

LEMMA DnsTypes ==
  DnsTypeOK <=>
    /\ dq \in [Query -> QType] /\ dtc \in [TcpConn -> TcType]
    /\ srvc \in 0 .. Servers /\ twice \in BOOLEAN /\ stack \in Seq(FrameType)
BY DEF DnsTypeOK, QType, TcType, FrameType

LEMMA DnsTypesNext ==
  DnsTypeOK' <=>
    /\ dq' \in [Query -> QType] /\ dtc' \in [TcpConn -> TcType]
    /\ srvc' \in 0 .. Servers /\ twice' \in BOOLEAN /\ stack' \in Seq(FrameType)
BY DEF DnsTypeOK, QType, TcType, FrameType

LEMMA QFields ==
  ASSUME NEW x \in QType
  PROVE  /\ x.st \in {"none", "live", "told", "canceled", "failed"} /\ x.proto \in {"udp", "tcp"}
         /\ x.ntx \in Nat /\ x.tmr \in BOOLEAN /\ x.tc \in TcpConn \cup {Nil}
BY DEF QType

LEMMA TcFields ==
  ASSUME NEW x \in TcType
  PROVE  /\ x.st \in {"none", "live", "freed"} /\ x.srv \in 0 .. Servers /\ x.conn \in BOOLEAN
         /\ x.connected \in BOOLEAN /\ x.ql \in Seq(Query) /\ x.tmr \in BOOLEAN /\ x.refs \in Nat
BY DEF TcType

LEMMA FrameFields ==
  ASSUME NEW f \in FrameType
  PROVE  /\ f.op \in {"close", "send"} /\ f.tc \in TcpConn \cup {Nil} /\ f.q \in Query \cup {Nil}
         /\ f.by \in {"query", "fail"} /\ f.err \in BOOLEAN
BY DEF FrameType

(* The calls under way: the innermost and the rest *)
LEMMA Pushed ==
  ASSUME NEW F, NEW r \in Seq(F), NEW f \in F
  PROVE  /\ <<f>> \o r \in Seq(F) /\ <<f>> \o r # <<>> /\ (<<f>> \o r)[1] = f
         /\ Tail(<<f>> \o r) = r /\ El(<<f>> \o r) = {f} \cup El(r)
         /\ AllApart(<<f>> \o r) <=> AllApart(r) /\ \A g \in El(r) : Apart(f, g)
<1> DEFINE m == <<f>> \o r
<1>1. Len(r) \in Nat
  BY LenProperties
<1>2. <<f>> \in Seq(F) /\ Len(<<f>>) = 1 /\ <<f>>[1] = f
  OBVIOUS
<1>3. m \in Seq(F) /\ Len(m) = 1 + Len(r)
  BY <1>2, ConcatProperties
<1>4. \A i \in 1 .. 1 + Len(r) : m[i] = IF i <= 1 THEN <<f>>[i] ELSE r[i - 1]
  BY <1>2, ConcatProperties
<1> HIDE DEF m
<1>5. m[1] = f
  BY <1>1, <1>2, <1>4
<1>6. \A i \in 1 .. Len(r) : i + 1 \in 1 .. Len(m) /\ m[i + 1] = r[i]
  <2> TAKE i \in 1 .. Len(r)
  <2>1. i + 1 \in 1 .. 1 + Len(r) /\ ~(i + 1 <= 1) /\ (i + 1) - 1 = i
    BY <1>1
  <2> QED
    BY <1>3, <1>4, <2>1
<1>7. \A i \in 1 .. Len(m) : i = 1 \/ (i - 1 \in 1 .. Len(r) /\ m[i] = r[i - 1])
  <2> TAKE i \in 1 .. Len(m)
  <2>1. i = 1 \/ (i - 1 \in 1 .. Len(r) /\ ~(i <= 1) /\ i \in 1 .. 1 + Len(r))
    BY <1>1, <1>3
  <2> QED
    BY <1>4, <2>1
<1>8. 1 \in 1 .. Len(m)
  BY <1>1, <1>3
<1>9. El(m) = {f} \cup El(r)
  BY <1>5, <1>6, <1>7, <1>8 DEF El
<1>10. m # <<>>
  BY <1>1, <1>3, EmptySeq
<1>11. Tail(m) = r
  <2>1. Tail(m) \in Seq(F) /\ Len(Tail(m)) = Len(m) - 1
        /\ \A i \in 1 .. Len(Tail(m)) : Tail(m)[i] = m[i + 1]
    BY <1>3, <1>10, HeadTailProperties
  <2>2. Len(Tail(m)) = Len(r)
    BY <1>1, <1>3, <2>1
  <2> QED
    BY <1>6, <2>1, <2>2, SeqEqual
<1>12. ASSUME AllApart(m) PROVE AllApart(r) /\ \A g \in El(r) : Apart(f, g)
  <2>1. ASSUME NEW i \in 1 .. Len(r), NEW j \in 1 .. Len(r), i # j PROVE Apart(r[i], r[j])
    <3>1. i + 1 \in 1 .. Len(m) /\ j + 1 \in 1 .. Len(m) /\ i + 1 # j + 1
      BY <1>1, <1>6, <2>1
    <3> QED
      BY <1>6, <1>12, <3>1 DEF AllApart
  <2>2. ASSUME NEW i \in 1 .. Len(r) PROVE Apart(f, r[i])
    <3>1. i + 1 \in 1 .. Len(m) /\ 1 # i + 1
      BY <1>1, <1>6
    <3> QED
      BY <1>5, <1>6, <1>8, <1>12, <3>1 DEF AllApart
  <2> QED
    BY <2>1, <2>2 DEF AllApart, El
<1>13. ASSUME AllApart(r), \A g \in El(r) : Apart(f, g) PROVE AllApart(m)
  <2> SUFFICES ASSUME NEW i \in 1 .. Len(m), NEW j \in 1 .. Len(m), i # j PROVE Apart(m[i], m[j])
    BY DEF AllApart
  <2>1. CASE i = 1
    <3>1. j - 1 \in 1 .. Len(r) /\ m[j] = r[j - 1]
      BY <1>7, <2>1
    <3>2. Apart(f, r[j - 1])
      BY <1>13, <3>1 DEF El
    <3> QED
      BY <1>5, <2>1, <3>1, <3>2
  <2>2. CASE j = 1
    <3>1. i - 1 \in 1 .. Len(r) /\ m[i] = r[i - 1]
      BY <1>7, <2>2
    <3>2. Apart(f, r[i - 1])
      BY <1>13, <3>1 DEF El
    <3> QED
      BY <1>5, <2>2, <3>1, <3>2 DEF Apart
  <2>3. CASE i # 1 /\ j # 1
    <3>1. i - 1 \in 1 .. Len(r) /\ m[i] = r[i - 1] /\ j - 1 \in 1 .. Len(r) /\ m[j] = r[j - 1]
      BY <1>7, <2>3
    <3>2. i - 1 # j - 1
      BY <1>1, <1>3
    <3> QED
      BY <1>13, <3>1, <3>2 DEF AllApart
  <2> QED
    BY <2>1, <2>2, <2>3
<1>14. AllApart(m) <=> AllApart(r) /\ \A g \in El(r) : Apart(f, g)
  BY <1>12, <1>13
<1>15. m \in Seq(F) /\ m # <<>> /\ m[1] = f /\ Tail(m) = r /\ El(m) = {f} \cup El(r)
  BY <1>3, <1>5, <1>9, <1>10, <1>11
<1> QED
  BY <1>14, <1>15 DEF m

LEMMA TopAndRest ==
  ASSUME NEW F, NEW s \in Seq(F), s # <<>>
  PROVE  /\ s[1] \in F /\ Tail(s) \in Seq(F) /\ s = <<s[1]>> \o Tail(s)
         /\ \A g \in F : [s EXCEPT ![1] = g] = <<g>> \o Tail(s)
<1>1. Len(s) \in Nat /\ Len(s) # 0 /\ 1 \in 1 .. Len(s)
  BY LenProperties, EmptySeq, ElFacts
<1>2. Tail(s) \in Seq(F) /\ Len(Tail(s)) = Len(s) - 1
      /\ \A i \in 1 .. Len(Tail(s)) : Tail(s)[i] = s[i + 1]
  BY HeadTailProperties
<1>3. s[1] \in F
  BY <1>1, ElementOfSeq
<1>4. ASSUME NEW g \in F, NEW t \in Seq(F), Len(t) = Len(s), t[1] = g,
             \A i \in 1 .. Len(s) : i # 1 => t[i] = s[i]
      PROVE  t = <<g>> \o Tail(s)
  <2> DEFINE m == <<g>> \o Tail(s)
  <2>1. <<g>> \in Seq(F) /\ Len(<<g>>) = 1 /\ <<g>>[1] = g
    OBVIOUS
  <2>2. m \in Seq(F) /\ Len(m) = 1 + Len(Tail(s))
    BY <1>2, <2>1, ConcatProperties
  <2>3. \A i \in 1 .. 1 + Len(Tail(s)) : m[i] = IF i <= 1 THEN <<g>>[i] ELSE Tail(s)[i - 1]
    BY <1>2, <2>1, ConcatProperties
  <2> HIDE DEF m
  <2>4. Len(m) = Len(t)
    BY <1>1, <1>2, <1>4, <2>2
  <2>5. ASSUME NEW i \in 1 .. Len(t) PROVE m[i] = t[i]
    <3>1. i \in 1 .. 1 + Len(Tail(s))
      BY <1>1, <1>2, <1>4
    <3>2. CASE i = 1
      <4>1. i <= 1
        BY <3>2
      <4> QED
        BY <1>4, <2>1, <2>3, <3>1, <3>2, <4>1
    <3>3. CASE i # 1
      <4>1. ~(i <= 1) /\ i - 1 \in 1 .. Len(Tail(s)) /\ (i - 1) + 1 = i /\ i \in 1 .. Len(s)
        BY <1>1, <1>2, <1>4, <3>3
      <4>2. m[i] = Tail(s)[i - 1]
        BY <2>3, <3>1, <4>1
      <4>3. Tail(s)[i - 1] = s[i]
        BY <1>2, <4>1
      <4> QED
        BY <1>4, <3>3, <4>1, <4>2, <4>3
    <3> QED
      BY <3>2, <3>3
  <2>6. m = t
    BY <1>4, <2>2, <2>4, <2>5, SeqEqual
  <2> QED
    BY <2>6 DEF m
<1>5. s = <<s[1]>> \o Tail(s)
  BY <1>3, <1>4
<1>6. ASSUME NEW g \in F PROVE [s EXCEPT ![1] = g] = <<g>> \o Tail(s)
  <2> DEFINE t == [s EXCEPT ![1] = g]
  <2>1. t \in Seq(F) /\ Len(t) = Len(s)
    BY <1>1, ExceptSeq
  <2>2. t[1] = g /\ \A i \in 1 .. Len(s) : i # 1 => t[i] = s[i]
    BY <1>1, ExceptSeq
  <2> HIDE DEF t
  <2>3. t = <<g>> \o Tail(s)
    BY <1>4, <2>1, <2>2
  <2> QED
    BY <2>3 DEF t
<1> QED
  BY <1>2, <1>3, <1>5, <1>6

(* A list that names no one twice has as many places as members. *)
LEMMA ElCount ==
  ASSUME NEW S, NEW l \in Seq(S), NoTwice(l)
  PROVE  Cardinality(El(l)) = Len(l)
<1>1. Len(l) \in Nat
  BY LenProperties
<1> DEFINE f == [i \in 1 .. Len(l) |-> l[i]]
<1>2. f \in Bijection(1 .. Len(l), El(l))
  BY DEF Bijection, Injection, Surjection, IsInjective, El, NoTwice
<1>3. ExistsBijection(1 .. Len(l), El(l))
  BY <1>2 DEF ExistsBijection
<1> QED
  BY <1>1, <1>3, FS_CountingElements

(* What has to be said of the next state *)
LEMMA DnsGoal ==
  ASSUME dq' \in [Query -> QType], dtc' \in [TcpConn -> TcType], srvc' \in 0 .. Servers,
         twice' = FALSE, stack' \in Seq(FrameType),
         \A c \in TcpConn : TcGood(dtc'[c], {q \in Query : dq'[q].tc = c}, ClosesIn(stack', c)),
         \A q \in Query : QGood(dq'[q], NamedIn(stack', q)),
         \A f \in El(stack') : FrameGood(f, dq', dtc'), AllApart(stack')
  PROVE  DnsInv'
<1>1. DnsTypeOK' /\ ~twice'
  BY DnsTypesNext
<1>2. TcsFit'
  BY DEF TcsFit, Waiting
<1>3. QueriesFit'
  BY DEF QueriesFit
<1>4. StackFits'
  BY DEF StackFits
<1> QED
  BY <1>1, <1>2, <1>3, <1>4 DEF DnsInv

LEMMA NotNil == (\A c \in TcpConn : c # Nil) /\ (\A q \in Query : q # Nil)
BY DnsAssumption DEF Nil

(* What the invariant says of a connection, a query and a call under way *)
LEMMA TcFact ==
  ASSUME DnsInv, NEW c \in TcpConn
  PROVE  /\ dtc[c] \in TcType /\ dtc[c].ql \in Seq(Query) /\ NoTwice(dtc[c].ql)
         /\ TcGood(dtc[c], Waiting(c), ClosesIn(stack, c))
         /\ \A q \in Query : q \in El(dtc[c].ql) <=> dq[q].tc = c
<1>1. dtc[c] \in TcType
  BY DnsTypes DEF DnsInv
<1>2. TcGood(dtc[c], Waiting(c), ClosesIn(stack, c))
  BY DEF DnsInv, TcsFit
<1>3. NoTwice(dtc[c].ql) /\ El(dtc[c].ql) = Waiting(c)
  BY <1>2 DEF TcGood
<1> QED
  BY <1>1, <1>2, <1>3, TcFields DEF Waiting

LEMMA QFact ==
  ASSUME DnsInv, NEW q \in Query
  PROVE  dq[q] \in QType /\ QGood(dq[q], NamedIn(stack, q))
BY DnsTypes DEF DnsInv, QueriesFit

LEMMA FrameFact ==
  ASSUME DnsInv, NEW f \in El(stack)
  PROVE  /\ f \in FrameType /\ f.op \in {"close", "send"}
         /\ f.op = "close" =>
              /\ f.tc \in TcpConn /\ dtc[f.tc].st = "live" /\ ~dtc[f.tc].conn
              /\ f.q = HeadOf(dtc[f.tc].ql)
              /\ f.q # Nil => f.q \in Query /\ dq[f.q].tc = f.tc
         /\ f.op = "send" => /\ f.q \in Query /\ dq[f.q].st = "live" /\ dq[f.q].proto = "tcp"
                             /\ dq[f.q].tc = Nil
<1>1. stack \in Seq(FrameType)
  BY DnsTypes DEF DnsInv
<1>2. f \in FrameType
  BY <1>1, ElFacts
<1>3. FrameGood(f, dq, dtc)
  BY DEF DnsInv, StackFits
<1>4. ASSUME f.op = "close", f.q # Nil PROVE f.q \in Query /\ dq[f.q].tc = f.tc
  <2>1. PICK c \in TcpConn : c = f.tc /\ f.q = HeadOf(dtc[c].ql)
    BY <1>3, <1>4 DEF FrameGood
  <2>2. dtc[c].ql # <<>> /\ f.q = dtc[c].ql[1]
    BY <1>4, <2>1 DEF HeadOf
  <2>3. dtc[c].ql \in Seq(Query)
    BY TcFact
  <2>4. f.q \in El(dtc[c].ql) /\ El(dtc[c].ql) \subseteq Query
    BY <2>2, <2>3, ElFacts
  <2> QED
    BY <2>1, <2>4, TcFact
<1> QED
  BY <1>2, <1>3, <1>4, FrameFields DEF FrameGood

(* One query changes. *)
LEMMA OneQuery ==
  ASSUME dq \in [Query -> QType], NEW q \in Query, NEW r \in QType, dq' = [dq EXCEPT ![q] = r]
  PROVE  /\ dq' \in [Query -> QType] /\ dq'[q] = r
         /\ \A u \in Query : u # q => dq'[u] = dq[u]
         /\ \A d \in TcpConn : {u \in Query : dq'[u].tc = d} =
              IF r.tc = d THEN Waiting(d) \cup {q} ELSE Waiting(d) \ {q}
<1>1. /\ dq' \in [Query -> QType] /\ dq'[q] = r
      /\ \A u \in Query : u # q => dq'[u] = dq[u]
  OBVIOUS
<1>2. ASSUME NEW d \in TcpConn
      PROVE  {u \in Query : dq'[u].tc = d} =
               IF r.tc = d THEN Waiting(d) \cup {q} ELSE Waiting(d) \ {q}
  <2>1. CASE r.tc = d
    BY <1>1, <2>1 DEF Waiting
  <2>2. CASE r.tc # d
    BY <1>1, <2>2 DEF Waiting
  <2> QED
    BY <2>1, <2>2
<1> QED
  BY <1>1, <1>2

(* One connection changes. *)
LEMMA OneTc ==
  ASSUME dtc \in [TcpConn -> TcType], NEW c \in TcpConn, NEW y \in TcType,
         dtc' = [dtc EXCEPT ![c] = y]
  PROVE  /\ dtc' \in [TcpConn -> TcType] /\ dtc'[c] = y
         /\ \A d \in TcpConn : d # c => dtc'[d] = dtc[d]
OBVIOUS

(* A query that has ended *)
LEMMA Ended ==
  ASSUME NEW how \in {"told", "canceled", "failed"}, NEW r, r = [NoQuery EXCEPT !.st = how]
  PROVE  r \in QType /\ r.st = how /\ r.tc = Nil /\ \A b \in BOOLEAN : QGood(r, b)
<1>1. r \in QType /\ r.st = how /\ r.tc = Nil
  BY DEF NoQuery, QType
<1> QED
  BY <1>1 DEF QGood

(* In the beginning *)
LEMMA DnsInitInv == DnsInit => DnsInv
<1> SUFFICES ASSUME DnsInit PROVE DnsInv
  OBVIOUS
<1>1. /\ dq = [q \in Query |-> NoQuery] /\ dtc = [c \in TcpConn |-> NoTc]
      /\ srvc \in 1 .. Servers /\ stack = <<>> /\ twice = FALSE
  BY DEF DnsInit
<1>2. NoQuery \in QType /\ NoQuery.tc = Nil /\ NoQuery.st = "none" /\ NoQuery.proto = "udp"
  BY DEF NoQuery, QType
<1>3. NoTc \in TcType /\ NoTc.ql = <<>> /\ NoTc.st = "none"
  <2>1. 0 \in 0 .. Servers /\ <<>> \in Seq(Query)
    BY DnsAssumption, EmptySeq
  <2> QED
    BY <2>1 DEF NoTc, TcType
<1>4. NoTwice(<<>>) /\ El(<<>>) = {} /\ AllApart(<<>>) /\ <<>> \in Seq(FrameType)
  BY EmptySeq DEF NoTwice, El, AllApart
<1>5. DnsTypeOK
  <2>1. srvc \in 0 .. Servers
    BY <1>1, DnsAssumption
  <2> QED
    BY <1>1, <1>2, <1>3, <1>4, <2>1, DnsTypes
<1>6. TcsFit
  <2> SUFFICES ASSUME NEW c \in TcpConn PROVE TcGood(dtc[c], Waiting(c), ClosesIn(stack, c))
    BY DEF TcsFit
  <2>1. Waiting(c) = {}
    BY <1>1, <1>2, NotNil DEF Waiting
  <2>2. dtc[c].ql = <<>> /\ dtc[c].st = "none"
    BY <1>1, <1>3
  <2> QED
    BY <1>4, <2>1, <2>2 DEF TcGood
<1>7. QueriesFit
  BY <1>1, <1>2 DEF QueriesFit, QGood
<1>8. StackFits
  BY <1>1, <1>4 DEF StackFits
<1> QED
  BY <1>1, <1>5, <1>6, <1>7, <1>8 DEF DnsInv

(* A query that is on no connection, and that no call works on, changes. *)
LEMMA UdpStep ==
  ASSUME DnsInv, NEW q \in Query, NEW r \in QType, dq' = [dq EXCEPT ![q] = r],
         dq[q].tc = Nil, r.tc = Nil, dq[q].st # "live" \/ dq[q].proto = "udp",
         QGood(r, FALSE), UNCHANGED <<dtc, srvc, stack>>, twice' = FALSE
  PROVE  DnsInv'
<1>1. dq \in [Query -> QType] /\ dtc \in [TcpConn -> TcType] /\ srvc \in 0 .. Servers
      /\ stack \in Seq(FrameType)
  BY DnsTypes DEF DnsInv
<1>2. /\ dq' \in [Query -> QType] /\ dq'[q] = r
      /\ \A u \in Query : u # q => dq'[u] = dq[u]
  BY <1>1, OneQuery
<1>3. \A d \in TcpConn : {u \in Query : dq'[u].tc = d} = Waiting(d)
  BY <1>2, NotNil DEF Waiting
<1>4. \A c \in TcpConn : TcGood(dtc'[c], {u \in Query : dq'[u].tc = c}, ClosesIn(stack', c))
  BY <1>3 DEF DnsInv, TcsFit
<1>5. \A u \in Query : QGood(dq'[u], NamedIn(stack', u))
  <2> SUFFICES ASSUME NEW u \in Query PROVE QGood(dq'[u], NamedIn(stack, u))
    OBVIOUS
  <2>1. CASE u = q
    <3>1. QGood(r, NamedIn(stack, q))
      BY DEF QGood
    <3> QED
      BY <1>2, <2>1, <3>1
  <2>2. CASE u # q
    BY <1>2, <2>2, QFact
  <2> QED
    BY <2>1, <2>2
<1>6. \A f \in El(stack') : FrameGood(f, dq', dtc')
  <2> SUFFICES ASSUME NEW f \in El(stack) PROVE FrameGood(f, dq', dtc)
    OBVIOUS
  <2>1. f.op = "send" => f.q \in Query /\ f.q # q
    BY FrameFact
  <2> QED
    BY <1>2, <2>1, FrameFact DEF FrameGood
<1>7. AllApart(stack')
  BY DEF DnsInv, StackFits
<1> QED
  BY <1>1, <1>2, <1>4, <1>5, <1>6, <1>7, DnsGoal

(* send_udp *)
LEMMA SendUdpInv ==
  ASSUME DnsInv, NEW q \in Query, NEW how \in {"told", "failed"}, SendUdp(q, how),
         dq[q].st = "none" \/ (dq[q].st = "live" /\ dq[q].proto = "udp"),
         UNCHANGED <<dtc, srvc, stack>>
  PROVE  DnsInv'
<1>1. dq[q] \in QType /\ QGood(dq[q], NamedIn(stack, q)) /\ srvc \in 0 .. Servers /\ twice = FALSE
  BY QFact, DnsTypes DEF DnsInv
<1>2. dq[q].tc = Nil /\ dq[q].proto = "udp"
  BY <1>1 DEF QGood
<1>3. twice' = FALSE
  BY <1>1 DEF SendUdp
<1>4. CASE \E n \in 1 .. srvc : dq' = [dq EXCEPT ![q].st = "live", ![q].ntx = @ + n, ![q].tmr = TRUE]
  <2>1. PICK n \in 1 .. srvc :
          dq' = [dq EXCEPT ![q].st = "live", ![q].ntx = @ + n, ![q].tmr = TRUE]
    BY <1>4
  <2>2. PICK m \in Nat : m = dq[q].ntx + n
    <3>1. dq[q].ntx \in Nat /\ n \in Nat
      BY <1>1, <2>1, QFields
    <3> QED
      BY <3>1
  <2> DEFINE a == [dq[q] EXCEPT !.st = "live"]
             b == [a EXCEPT !.ntx = m]
             r == [b EXCEPT !.tmr = TRUE]
  <2>3. dq \in [Query -> QType]
    BY DnsTypes DEF DnsInv
  <2>4. dq' = [dq EXCEPT ![q] = r]
    BY <1>1, <2>1, <2>2, <2>3 DEF QType
  <2>5. a \in QType /\ a.st = "live" /\ a.proto = dq[q].proto /\ a.tc = dq[q].tc
    BY <1>1 DEF QType
  <2> HIDE DEF a
  <2>6. b \in QType /\ b.st = a.st /\ b.proto = a.proto /\ b.tc = a.tc
    BY <2>2, <2>5 DEF QType
  <2> HIDE DEF b
  <2>7. r \in QType /\ r.st = b.st /\ r.proto = b.proto /\ r.tc = b.tc /\ r.tmr = TRUE
    BY <2>6 DEF QType
  <2> HIDE DEF r
  <2>8. QGood(r, FALSE) /\ r.tc = Nil
    BY <1>2, <2>5, <2>6, <2>7 DEF QGood
  <2> QED
    BY <1>2, <1>3, <2>4, <2>7, <2>8, UdpStep
<1>5. CASE dq' = [dq EXCEPT ![q] = [NoQuery EXCEPT !.st = how]]
  <2>1. PICK r : r = [NoQuery EXCEPT !.st = how]
    OBVIOUS
  <2>2. r \in QType /\ r.tc = Nil /\ QGood(r, FALSE)
    BY <2>1, Ended
  <2>3. dq' = [dq EXCEPT ![q] = r]
    BY <1>5, <2>1
  <2> QED
    BY <1>2, <1>3, <2>2, <2>3, UdpStep
<1> QED
  BY <1>4, <1>5 DEF SendUdp

(* A query over UDP ends. *)
LEMMA EndUdpInv ==
  ASSUME DnsInv, NEW q \in Query, NEW how \in {"told", "canceled", "failed"}, End(q, how), LiveQ(q),
         dq[q].proto = "udp", UNCHANGED <<dtc, srvc, stack>>
  PROVE  DnsInv'
<1>1. dq[q] \in QType /\ QGood(dq[q], NamedIn(stack, q)) /\ twice = FALSE
  BY QFact, DnsTypes DEF DnsInv
<1>2. dq[q].tc = Nil
  BY <1>1 DEF QGood
<1>3. twice' = FALSE /\ dq' = [dq EXCEPT ![q] = [NoQuery EXCEPT !.st = how]]
  BY <1>1 DEF End
<1>4. PICK r : r = [NoQuery EXCEPT !.st = how]
  OBVIOUS
<1>5. r \in QType /\ r.tc = Nil /\ QGood(r, FALSE)
  BY <1>4, Ended
<1>6. dq' = [dq EXCEPT ![q] = r]
  BY <1>3, <1>4
<1> QED
  BY <1>2, <1>3, <1>5, <1>6, UdpStep

LEMMA UdpInv ==
  ASSUME DnsInv, NEW q \in Query, QueryUdp(q) \/ UdpTimer(q) \/ ReplyUdp(q)
  PROVE  DnsInv'
<1>1. CASE QueryUdp(q)
  BY <1>1, SendUdpInv DEF QueryUdp
<1>2. CASE UdpTimer(q)
  BY <1>2, SendUdpInv, EndUdpInv DEF UdpTimer, LiveQ
<1>3. CASE ReplyUdp(q)
  BY <1>3, EndUdpInv DEF ReplyUdp
<1> QED
  BY <1>1, <1>2, <1>3

(* A query leaves the list of its connection (list_unlink). *)
LEMMA Left ==
  ASSUME NEW S, NEW l \in Seq(S), NoTwice(l), NEW t \in El(l)
  PROVE  /\ Without(l, t) \in Seq(S) /\ El(Without(l, t)) = El(l) \ {t} /\ NoTwice(Without(l, t))
         /\ Len(l) \in Nat /\ Len(l) # 0 /\ Len(Without(l, t)) = Len(l) - 1
         /\ l # <<>> /\ (l[1] = t => Without(l, t) = Tail(l))
<1> DEFINE at == {i \in DOMAIN l : l[i] = t}
           p == CHOOSE i \in at : TRUE
<1>1. DOMAIN l = 1 .. Len(l) /\ Len(l) \in Nat
  BY LenProperties
<1>2. at # {}
  BY <1>1 DEF El
<1>3. p \in 1 .. Len(l) /\ l[p] = t
  BY <1>1, <1>2
<1>4. Without(l, t) = RemoveAt(l, p)
  BY <1>2 DEF Without
<1> HIDE DEF p, at
<1>5. Len(l) # 0 /\ l # <<>>
  <2>1. Len(l) # 0
    BY <1>1, <1>3
  <2> QED
    BY <2>1, EmptySeq
<1>6. l[1] = t => p = 1
  BY <1>1, <1>3, <1>5, ElFacts DEF NoTwice
<1>7. /\ RemoveAt(l, p) \in Seq(S) /\ El(RemoveAt(l, p)) = El(l) \ {l[p]}
      /\ NoTwice(RemoveAt(l, p)) /\ Len(RemoveAt(l, p)) = Len(l) - 1
  BY <1>3, RemovedOnce
<1>8. p = 1 => RemoveAt(l, p) = Tail(l)
  BY <1>5, RemovedFirst
<1> QED
  BY <1>1, <1>3, <1>4, <1>5, <1>6, <1>7, <1>8

(* What a connection is then like: its own reference is left. *)
LEMMA LeftTc ==
  ASSUME NEW x \in TcType, x.st = "live", x.refs = 1 + Len(x.ql), NoTwice(x.ql), x.tmr,
         NEW q \in El(x.ql), NEW y, y = Dropped([x EXCEPT !.ql = Without(@, q)])
  PROVE  /\ y \in TcType /\ y.st = "live" /\ y.conn = x.conn /\ y.tmr
         /\ y.ql = Without(x.ql, q) /\ NoTwice(y.ql) /\ El(y.ql) = El(x.ql) \ {q}
         /\ y.refs = 1 + Len(y.ql)
<1>1. x.ql \in Seq(Query) /\ x.refs \in Nat
  BY TcFields
<1>2. PICK l \in Seq(Query) : l = x.ql
  BY <1>1
<1>3. NoTwice(l) /\ q \in El(l)
  BY <1>2
<1>4. PICK m : m = Without(l, q)
  OBVIOUS
<1>5. /\ m \in Seq(Query) /\ El(m) = El(l) \ {q} /\ NoTwice(m)
      /\ Len(l) \in Nat /\ Len(l) # 0 /\ Len(m) = Len(l) - 1
  BY <1>3, <1>4, Left
<1>6. PICK n : n = x.refs - 1
  OBVIOUS
<1>7. n \in Nat /\ n = 1 + Len(m) /\ x.refs # 1
  <2>1. \A k \in Nat : k # 0 => (1 + k) - 1 \in Nat /\ (1 + k) - 1 = 1 + (k - 1) /\ 1 + k # 1
    OBVIOUS
  <2> QED
    BY <1>2, <1>5, <1>6, <2>1
<1> DEFINE a == [x EXCEPT !.ql = m]
           b == [a EXCEPT !.refs = n]
<1>8. /\ a \in TcType /\ a.st = x.st /\ a.conn = x.conn /\ a.tmr = x.tmr /\ a.ql = m
      /\ a.refs = x.refs
  BY <1>5 DEF TcType
<1>9. a = [x EXCEPT !.ql = Without(@, q)]
  BY <1>2, <1>4
<1> HIDE DEF a
<1>10. y = b
  BY <1>6, <1>7, <1>8, <1>9 DEF Dropped
<1>11. /\ b \in TcType /\ b.st = a.st /\ b.conn = a.conn /\ b.tmr = a.tmr /\ b.ql = a.ql
       /\ b.refs = n
  BY <1>7, <1>8 DEF TcType
<1> HIDE DEF b
<1>12. y \in TcType /\ y.st = "live" /\ y.conn = x.conn /\ y.tmr /\ y.ql = m /\ y.refs = n
  BY <1>8, <1>10, <1>11
<1> QED
  BY <1>2, <1>4, <1>5, <1>7, <1>12

(* The same where the query waits *)
LEMMA LeavesTc ==
  ASSUME DnsInv, NEW q \in Query, NEW c \in TcpConn, dq[q].tc = c,
         NEW y, y = Dropped([dtc[c] EXCEPT !.ql = Without(@, q)])
  PROVE  /\ y \in TcType /\ y.st = "live" /\ y.conn = dtc[c].conn /\ y.tmr
         /\ y.ql = Without(dtc[c].ql, q) /\ NoTwice(y.ql) /\ El(y.ql) = Waiting(c) \ {q}
         /\ y.refs = 1 + Len(y.ql) /\ dtc[c].st = "live" /\ dq[q].st = "live"
         /\ q \in El(dtc[c].ql)
<1>1. PICK x \in TcType : x = dtc[c]
  BY TcFact
<1>2. x.ql \in Seq(Query) /\ NoTwice(x.ql) /\ TcGood(x, Waiting(c), ClosesIn(stack, c)) /\ q \in El(x.ql)
  BY <1>1, TcFact
<1>3. x.ql # <<>>
  BY <1>2 DEF El
<1>4. x.st = "live" /\ x.refs = 1 + Len(x.ql) /\ x.tmr /\ El(x.ql) = Waiting(c)
  BY <1>2, <1>3 DEF TcGood
<1>5. y = Dropped([x EXCEPT !.ql = Without(@, q)])
  BY <1>1
<1>6. /\ y \in TcType /\ y.st = "live" /\ y.conn = x.conn /\ y.tmr
      /\ y.ql = Without(x.ql, q) /\ NoTwice(y.ql) /\ El(y.ql) = El(x.ql) \ {q}
      /\ y.refs = 1 + Len(y.ql)
  BY <1>2, <1>4, <1>5, LeftTc
<1>7. dq[q].st = "live"
  BY QFact, NotNil DEF QGood
<1> QED
  BY <1>1, <1>2, <1>4, <1>6, <1>7

(* query_abort *)
LEMMA Aborted ==
  ASSUME DnsInv, NEW q \in Query, NEW c \in TcpConn, dq[q].tc = c,
         NEW y, y = Dropped([dtc[c] EXCEPT !.ql = Without(@, q)])
  PROVE  query_abort(dtc, q) = [dtc EXCEPT ![c] = y]
<1>1. dtc \in [TcpConn -> TcType]
  BY DnsTypes DEF DnsInv
<1> QED
  BY <1>1 DEF query_abort

(* Between the calls *)
LEMMA QuietFact ==
  ASSUME Quiet
  PROVE  El(stack) = {} /\ AllApart(stack) /\ \A c : ~ClosesIn(stack, c) /\ ~NamedIn(stack, c)
<1>1. El(<<>>) = {} /\ AllApart(<<>>)
  BY EmptySeq DEF El, AllApart
<1> QED
  BY <1>1 DEF Quiet, ClosesIn, NamedIn

(* A query over TCP ends, by its timer, its user or its answer. *)
LEMMA EndTcpInv ==
  ASSUME DnsInv, Quiet, NEW q \in Query, NEW c \in TcpConn, dq[q].tc = c,
         NEW how \in {"told", "canceled"}, End(q, how), dtc' = query_abort(dtc, q),
         UNCHANGED <<srvc, stack>>
  PROVE  DnsInv'
<1>1. dq \in [Query -> QType] /\ dtc \in [TcpConn -> TcType] /\ srvc \in 0 .. Servers
      /\ stack \in Seq(FrameType) /\ twice = FALSE
  BY DnsTypes DEF DnsInv
<1>2. PICK y : y = Dropped([dtc[c] EXCEPT !.ql = Without(@, q)])
  OBVIOUS
<1>3. /\ y \in TcType /\ y.st = "live" /\ y.conn = dtc[c].conn /\ y.tmr
      /\ NoTwice(y.ql) /\ El(y.ql) = Waiting(c) \ {q}
      /\ y.refs = 1 + Len(y.ql) /\ dtc[c].st = "live" /\ dq[q].st = "live"
  BY <1>2, LeavesTc
<1>4. dtc' = [dtc EXCEPT ![c] = y]
  BY <1>2, Aborted
<1>5. PICK r : r = [NoQuery EXCEPT !.st = how]
  OBVIOUS
<1>6. r \in QType /\ r.tc = Nil /\ \A b \in BOOLEAN : QGood(r, b)
  BY <1>5, Ended
<1>7. dq' = [dq EXCEPT ![q] = r] /\ twice' = FALSE
  BY <1>1, <1>3, <1>5 DEF End, LiveQ
<1>8. /\ dq' \in [Query -> QType] /\ dq'[q] = r
      /\ \A u \in Query : u # q => dq'[u] = dq[u]
      /\ \A d \in TcpConn : {u \in Query : dq'[u].tc = d} = Waiting(d) \ {q}
  BY <1>1, <1>6, <1>7, OneQuery, NotNil
<1>9. /\ dtc' \in [TcpConn -> TcType] /\ dtc'[c] = y
      /\ \A d \in TcpConn : d # c => dtc'[d] = dtc[d]
  BY <1>1, <1>3, <1>4, OneTc
<1>10. ASSUME NEW d \in TcpConn
       PROVE  TcGood(dtc'[d], {u \in Query : dq'[u].tc = d}, ClosesIn(stack', d))
  <2>1. CASE d = c
    <3>1. dtc[c].conn
      BY <1>3, TcFact, QuietFact DEF TcGood
    <3>2. TcGood(y, Waiting(c) \ {q}, ClosesIn(stack, c))
      BY <1>3, <3>1 DEF TcGood
    <3> QED
      BY <1>8, <1>9, <2>1, <3>2
  <2>2. CASE d # c
    <3>1. q \notin Waiting(d)
      BY <2>2 DEF Waiting
    <3>2. {u \in Query : dq'[u].tc = d} = Waiting(d)
      BY <1>8, <3>1
    <3>3. TcGood(dtc[d], Waiting(d), ClosesIn(stack, d))
      BY TcFact
    <3>4. dtc'[d] = dtc[d] /\ stack' = stack
      BY <1>9, <2>2
    <3> QED
      BY <3>2, <3>3, <3>4
  <2> QED
    BY <2>1, <2>2
<1>11. ASSUME NEW u \in Query PROVE QGood(dq'[u], NamedIn(stack', u))
  <2>1. NamedIn(stack, u) = FALSE
    BY QuietFact DEF NamedIn
  <2>2. CASE u = q
    BY <1>6, <1>8, <2>1, <2>2
  <2>3. CASE u # q
    BY <1>8, <2>3, QFact
  <2> QED
    BY <2>2, <2>3
<1> QED
  BY <1>1, <1>7, <1>8, <1>9, <1>10, <1>11, QuietFact, DnsGoal

LEMMA TcpTimerInv ==
  ASSUME DnsInv, NEW q \in Query, TcpTimer(q)
  PROVE  DnsInv'
<1>1. /\ Quiet /\ dq[q].st = "live" /\ dq[q].proto = "tcp" /\ End(q, "told")
      /\ dtc' = query_abort(dtc, q) /\ UNCHANGED <<srvc, stack>>
  BY DEF TcpTimer, LiveQ
<1>2. dq[q].tc \in TcpConn
  <2>1. dq[q].tc # Nil
    BY <1>1, QFact, QuietFact DEF QGood
  <2> QED
    BY <2>1, QFact, QFields
<1> QED
  BY <1>1, <1>2, EndTcpInv

LEMMA CancelInv ==
  ASSUME DnsInv, NEW q \in Query, Cancel(q)
  PROVE  DnsInv'
<1>1. /\ LiveQ(q) /\ dq[q].st = "live" /\ (Quiet \/ dq[q].proto = "udp") /\ End(q, "canceled")
      /\ dtc' = query_abort(dtc, q) /\ UNCHANGED <<srvc, stack>>
  BY DEF Cancel, LiveQ
<1>2. dq[q] \in QType /\ QGood(dq[q], NamedIn(stack, q)) /\ dtc \in [TcpConn -> TcType]
  BY QFact, DnsTypes DEF DnsInv
<1>3. CASE dq[q].proto = "udp"
  <2>1. dq[q].tc = Nil
    BY <1>2, <1>3 DEF QGood
  <2>2. dtc' = dtc
    BY <1>1, <1>2, <2>1, NotNil DEF query_abort
  <2> QED
    BY <1>1, <1>3, <2>2, EndUdpInv
<1>4. CASE dq[q].proto # "udp"
  <2>1. dq[q].proto = "tcp" /\ Quiet
    BY <1>1, <1>2, <1>4, QFields
  <2>2. dq[q].tc # Nil
    BY <1>1, <1>2, <2>1, QuietFact DEF QGood
  <2>3. dq[q].tc \in TcpConn
    BY <1>2, <2>2, QFields
  <2> QED
    BY <1>1, <2>1, <2>3, EndTcpInv
<1> QED
  BY <1>3, <1>4

LEMMA HeadType ==
  ASSUME NEW l \in Seq(Query)
  PROVE  HeadOf(l) \in Query \cup {Nil} /\ (HeadOf(l) = Nil <=> l = <<>>)
<1>1. l # <<>> => l[1] \in Query
  BY ElFacts
<1> QED
  BY <1>1, NotNil DEF HeadOf

LEMMA OneFrame ==
  ASSUME NEW f \in FrameType
  PROVE  <<f>> \in Seq(FrameType) /\ El(<<f>>) = {f} /\ AllApart(<<f>>)
BY DEF El, AllApart

(* tcpconn_close is called. *)
LEMMA CloseStarts ==
  ASSUME DnsInv, Quiet, NEW c \in TcpConn, NEW z \in TcType, dtc' = [dtc EXCEPT ![c] = z],
         z.st = "live", ~z.conn, z.tmr, NoTwice(z.ql), z.refs = 1 + Len(z.ql),
         El(z.ql) = {u \in Query : dq'[u].tc = c},
         stack' = <<[op |-> "close", tc |-> c, q |-> HeadOf(z.ql), by |-> "fail", err |-> FALSE]>>,
         dq' \in [Query -> QType], \A u \in Query : QGood(dq'[u], FALSE),
         \A d \in TcpConn : d # c => {u \in Query : dq'[u].tc = d} = Waiting(d),
         srvc' = srvc, twice' = FALSE
  PROVE  DnsInv'
<1>1. dtc \in [TcpConn -> TcType] /\ srvc \in 0 .. Servers
  BY DnsTypes DEF DnsInv
<1>2. PICK f : f = [op |-> "close", tc |-> c, q |-> HeadOf(z.ql), by |-> "fail", err |-> FALSE]
  OBVIOUS
<1>3. f \in FrameType /\ f.op = "close" /\ f.tc = c /\ f.q = HeadOf(z.ql)
  <2>1. HeadOf(z.ql) \in Query \cup {Nil}
    BY TcFields, HeadType
  <2> QED
    BY <1>2, <2>1 DEF FrameType
<1>4. stack' = <<f>> /\ stack' \in Seq(FrameType) /\ El(stack') = {f} /\ AllApart(stack')
  BY <1>2, <1>3, OneFrame
<1>5. /\ dtc' \in [TcpConn -> TcType] /\ dtc'[c] = z
      /\ \A d \in TcpConn : d # c => dtc'[d] = dtc[d]
  BY <1>1, OneTc
<1>6. ASSUME NEW d \in TcpConn
      PROVE  TcGood(dtc'[d], {u \in Query : dq'[u].tc = d}, ClosesIn(stack', d))
  <2>1. CASE d = c
    <3>1. ClosesIn(stack', c)
      BY <1>3, <1>4 DEF ClosesIn
    <3>2. TcGood(z, {u \in Query : dq'[u].tc = c}, ClosesIn(stack', c))
      BY <3>1 DEF TcGood
    <3> QED
      BY <1>5, <2>1, <3>2
  <2>2. CASE d # c
    <3>1. TcGood(dtc[d], Waiting(d), ClosesIn(stack, d)) /\ ~ClosesIn(stack, d)
      BY TcFact, QuietFact
    <3>2. TcGood(dtc[d], Waiting(d), ClosesIn(stack', d))
      BY <3>1 DEF TcGood
    <3> QED
      BY <1>5, <2>2, <3>2
  <2> QED
    BY <2>1, <2>2
<1>7. ASSUME NEW u \in Query PROVE QGood(dq'[u], NamedIn(stack', u))
  <2>1. QGood(dq'[u], FALSE)
    OBVIOUS
  <2> QED
    BY <2>1 DEF QGood
<1>8. \A g \in El(stack') : FrameGood(g, dq', dtc')
  BY <1>3, <1>4, <1>5 DEF FrameGood
<1> QED
  BY <1>1, <1>4, <1>5, <1>6, <1>7, <1>8, DnsGoal

(* Between the calls a query is good on its own. *)
LEMMA QuietQuery ==
  ASSUME DnsInv, Quiet, NEW u \in Query
  PROVE  QGood(dq[u], FALSE)
<1>1. QGood(dq[u], NamedIn(stack, u)) /\ ~NamedIn(stack, u)
  BY QFact, QuietFact
<1> QED
  BY <1>1 DEF QGood

LEMMA TcFailsInv ==
  ASSUME DnsInv, NEW c \in TcpConn, TcFails(c)
  PROVE  DnsInv'
<1> DEFINE z == [dtc[c] EXCEPT !.conn = FALSE]
<1>1. dtc \in [TcpConn -> TcType] /\ dq \in [Query -> QType] /\ twice = FALSE
  BY DnsTypes DEF DnsInv
<1>2. dtc[c] \in TcType /\ TcGood(dtc[c], Waiting(c), ClosesIn(stack, c))
  BY TcFact
<1>3. /\ Quiet /\ dtc[c].st = "live" /\ dtc' = [dtc EXCEPT ![c] = z]
      /\ stack' = <<[op |-> "close", tc |-> c, q |-> HeadOf(dtc[c].ql), by |-> "fail", err |-> FALSE]>>
      /\ UNCHANGED <<dq, srvc, twice>>
  BY DEF TcFails, Dead, CloseFrame
<1>4. /\ z \in TcType /\ z.st = dtc[c].st /\ z.conn = FALSE /\ z.ql = dtc[c].ql
      /\ z.tmr = dtc[c].tmr /\ z.refs = dtc[c].refs
  BY <1>2 DEF TcType
<1> HIDE DEF z
<1>5. /\ z.tmr /\ NoTwice(z.ql) /\ z.refs = 1 + Len(z.ql) /\ El(z.ql) = {u \in Query : dq'[u].tc = c}
      /\ z.st = "live" /\ ~z.conn
  BY <1>2, <1>3, <1>4 DEF TcGood, Waiting
<1>6. \A d \in TcpConn : d # c => {u \in Query : dq'[u].tc = d} = Waiting(d)
  BY <1>3 DEF Waiting
<1>7. dq' \in [Query -> QType] /\ \A u \in Query : QGood(dq'[u], FALSE)
  BY <1>1, <1>3, QuietQuery
<1>8. stack' = <<[op |-> "close", tc |-> c, q |-> HeadOf(z.ql), by |-> "fail", err |-> FALSE]>>
  BY <1>3, <1>4
<1> QED
  BY <1>1, <1>3, <1>4, <1>5, <1>6, <1>7, <1>8, CloseStarts

(* reply_recv over TCP *)
LEMMA ReplyTcpInv ==
  ASSUME DnsInv, NEW c \in TcpConn, NEW q \in Query, NEW bad \in BOOLEAN, ReplyTcp(c, q, bad)
  PROVE  DnsInv'
<1>1. Quiet /\ dq[q].tc = c /\ End(q, "told") /\ srvc' = srvc
  BY DEF ReplyTcp
<1>2. CASE ~bad
  <2>1. dtc' = query_abort(dtc, q) /\ stack' = stack
    BY <1>2 DEF ReplyTcp
  <2> QED
    BY <1>1, <2>1, EndTcpInv
<1>3. CASE bad
  <2>1. dtc \in [TcpConn -> TcType] /\ dq \in [Query -> QType] /\ twice = FALSE
    BY DnsTypes DEF DnsInv
  <2>2. PICK y : y = Dropped([dtc[c] EXCEPT !.ql = Without(@, q)])
    OBVIOUS
  <2>3. /\ y \in TcType /\ y.st = "live" /\ y.tmr
        /\ NoTwice(y.ql) /\ El(y.ql) = Waiting(c) \ {q}
        /\ y.refs = 1 + Len(y.ql) /\ dq[q].st = "live"
    BY <1>1, <2>2, LeavesTc
  <2>4. PICK T : T = query_abort(dtc, q)
    OBVIOUS
  <2>5. T = [dtc EXCEPT ![c] = y]
    BY <1>1, <2>2, <2>4, Aborted
  <2>6. T[c] = y
    BY <2>1, <2>5
  <2> DEFINE z == [y EXCEPT !.conn = FALSE]
  <2>7. /\ stack' = <<[op |-> "close", tc |-> c, by |-> "fail", q |-> HeadOf(T[c].ql), err |-> FALSE]>>
        /\ dtc' = [T EXCEPT ![c].conn = FALSE]
    BY <1>3, <2>4 DEF ReplyTcp
  <2>8. dtc' = [dtc EXCEPT ![c] = z]
    BY <2>1, <2>5, <2>7
  <2>9. /\ z \in TcType /\ z.st = y.st /\ z.conn = FALSE /\ z.ql = y.ql
        /\ z.tmr = y.tmr /\ z.refs = y.refs
    BY <2>3 DEF TcType
  <2> HIDE DEF z
  <2>10. PICK r : r = [NoQuery EXCEPT !.st = "told"]
    OBVIOUS
  <2>11. r \in QType /\ r.tc = Nil /\ QGood(r, FALSE)
    BY <2>10, Ended
  <2>12. dq' = [dq EXCEPT ![q] = r] /\ twice' = FALSE
    BY <1>1, <2>1, <2>3, <2>10 DEF End, LiveQ
  <2>13. /\ dq' \in [Query -> QType] /\ dq'[q] = r
         /\ \A u \in Query : u # q => dq'[u] = dq[u]
         /\ \A d \in TcpConn : {u \in Query : dq'[u].tc = d} = Waiting(d) \ {q}
    BY <2>1, <2>11, <2>12, OneQuery, NotNil
  <2>14. \A u \in Query : QGood(dq'[u], FALSE)
    <3> SUFFICES ASSUME NEW u \in Query PROVE QGood(dq'[u], FALSE)
      OBVIOUS
    <3>1. CASE u = q
      BY <2>11, <2>13, <3>1
    <3>2. CASE u # q
      BY <1>1, <2>13, <3>2, QuietQuery
    <3> QED
      BY <3>1, <3>2
  <2>15. \A d \in TcpConn : d # c => {u \in Query : dq'[u].tc = d} = Waiting(d)
    <3> SUFFICES ASSUME NEW d \in TcpConn, d # c
                 PROVE  {u \in Query : dq'[u].tc = d} = Waiting(d)
      OBVIOUS
    <3>1. q \notin Waiting(d)
      BY <1>1 DEF Waiting
    <3> QED
      BY <2>13, <3>1
  <2>16. stack' = <<[op |-> "close", tc |-> c, q |-> HeadOf(z.ql), by |-> "fail", err |-> FALSE]>>
    BY <2>6, <2>7, <2>9
  <2>17. z.tmr /\ NoTwice(z.ql) /\ z.refs = 1 + Len(z.ql) /\ z.st = "live" /\ ~z.conn
         /\ El(z.ql) = {u \in Query : dq'[u].tc = c}
    BY <2>3, <2>9, <2>13
  <2> QED
    BY <1>1, <2>8, <2>9, <2>12, <2>13, <2>14, <2>15, <2>16, <2>17, CloseStarts
<1> QED
  BY <1>2, <1>3

(* tcp_estab_handler *)
LEMMA TcEstabInv ==
  ASSUME DnsInv, NEW c \in TcpConn, TcEstab(c)
  PROVE  DnsInv'
<1> DEFINE a == [dtc[c] EXCEPT !.connected = TRUE]
           z == [a EXCEPT !.tmr = TRUE]
<1>1. /\ dtc \in [TcpConn -> TcType] /\ dq \in [Query -> QType] /\ twice = FALSE
      /\ srvc \in 0 .. Servers /\ stack \in Seq(FrameType)
  BY DnsTypes DEF DnsInv
<1>2. dtc[c] \in TcType /\ TcGood(dtc[c], Waiting(c), ClosesIn(stack, c))
  BY TcFact
<1>3. Quiet /\ dtc' = [dtc EXCEPT ![c] = z] /\ UNCHANGED <<dq, srvc, stack, twice>>
  BY <1>1, <1>2 DEF TcEstab, TcType
<1>4. /\ a \in TcType /\ a.st = dtc[c].st /\ a.conn = dtc[c].conn /\ a.ql = dtc[c].ql
      /\ a.refs = dtc[c].refs
  BY <1>2 DEF TcType
<1> HIDE DEF a
<1>5. /\ z \in TcType /\ z.st = a.st /\ z.conn = a.conn /\ z.ql = a.ql
      /\ z.refs = a.refs /\ z.tmr = TRUE
  BY <1>4 DEF TcType
<1> HIDE DEF z
<1>6. TcGood(z, Waiting(c), ClosesIn(stack, c))
  BY <1>2, <1>4, <1>5 DEF TcGood
<1>7. /\ dtc' \in [TcpConn -> TcType] /\ dtc'[c] = z
      /\ \A d \in TcpConn : d # c => dtc'[d] = dtc[d]
  BY <1>1, <1>3, <1>5, OneTc
<1>8. ASSUME NEW d \in TcpConn
      PROVE  TcGood(dtc'[d], {u \in Query : dq'[u].tc = d}, ClosesIn(stack', d))
  <2>1. {u \in Query : dq'[u].tc = d} = Waiting(d) /\ stack' = stack
    BY <1>3 DEF Waiting
  <2>2. TcGood(dtc'[d], Waiting(d), ClosesIn(stack, d))
    BY <1>6, <1>7, TcFact
  <2> QED
    BY <2>1, <2>2
<1>9. \A u \in Query : QGood(dq'[u], NamedIn(stack', u))
  BY <1>3 DEF DnsInv, QueriesFit
<1>10. El(stack') = {} /\ AllApart(stack')
  BY <1>3, QuietFact
<1> QED
  BY <1>1, <1>3, <1>7, <1>8, <1>9, <1>10, DnsGoal

(* dnsc_srv_set *)
LEMMA SrvSetInv ==
  ASSUME DnsInv, NEW n \in 0 .. Servers, SrvSet(n)
  PROVE  DnsInv'
<1>1. srvc' = n /\ UNCHANGED <<dq, dtc, stack, twice>>
  BY DEF SrvSet
<1>2. DnsTypeOK'
  BY <1>1, DnsTypes, DnsTypesNext DEF DnsInv
<1> QED
  BY <1>1, <1>2 DEF DnsInv, TcsFit, QueriesFit, StackFits, Waiting

(* dnsc_destructor *)
LEMMA DnsCloseInv ==
  ASSUME DnsInv, DnsClose
  PROVE  DnsInv'
<1>1. /\ Quiet /\ srvc' = srvc /\ stack' = stack /\ twice' = twice
      /\ dq' = [q \in Query |-> IF dq[q].st = "live" THEN [NoQuery EXCEPT !.st = "told"]
                                ELSE [NoQuery EXCEPT !.st = "failed"]]
      /\ dtc' = [c \in TcpConn |-> [NoTc EXCEPT !.st = "freed"]]
  BY DEF DnsClose, LiveQ
<1>2. srvc \in 0 .. Servers /\ stack \in Seq(FrameType) /\ twice = FALSE
  BY DnsTypes DEF DnsInv
<1>3. PICK t : t = [NoQuery EXCEPT !.st = "told"]
  OBVIOUS
<1>4. PICK e : e = [NoQuery EXCEPT !.st = "failed"]
  OBVIOUS
<1>5. PICK z : z = [NoTc EXCEPT !.st = "freed"]
  OBVIOUS
<1>6. /\ t \in QType /\ t.tc = Nil /\ \A b \in BOOLEAN : QGood(t, b)
      /\ e \in QType /\ e.tc = Nil /\ \A b \in BOOLEAN : QGood(e, b)
  BY <1>3, <1>4, Ended
<1>7. z \in TcType /\ z.st = "freed" /\ z.ql = <<>>
  <2>1. 0 \in 0 .. Servers /\ <<>> \in Seq(Query)
    BY DnsAssumption, EmptySeq
  <2> QED
    BY <1>5, <2>1 DEF NoTc, TcType
<1>8. (\A q \in Query : dq'[q] = t \/ dq'[q] = e) /\ dq' \in [Query -> QType]
  BY <1>1, <1>3, <1>4, <1>6
<1>9. (\A c \in TcpConn : dtc'[c] = z) /\ dtc' \in [TcpConn -> TcType]
  BY <1>1, <1>5, <1>7
<1>10. ASSUME NEW d \in TcpConn
       PROVE  TcGood(dtc'[d], {u \in Query : dq'[u].tc = d}, ClosesIn(stack', d))
  <2>1. {u \in Query : dq'[u].tc = d} = {}
    BY <1>6, <1>8, NotNil
  <2>2. NoTwice(<<>>) /\ El(<<>>) = {}
    BY EmptySeq DEF NoTwice, El
  <2>3. TcGood(z, {}, ClosesIn(stack', d))
    BY <1>7, <2>2 DEF TcGood
  <2> QED
    BY <1>9, <2>1, <2>3
<1>11. ASSUME NEW u \in Query PROVE QGood(dq'[u], NamedIn(stack', u))
  <2>1. NamedIn(stack', u) \in BOOLEAN
    BY DEF NamedIn
  <2> QED
    BY <1>6, <1>8, <2>1
<1>12. El(stack') = {} /\ AllApart(stack')
  BY <1>1, QuietFact
<1> QED
  BY <1>1, <1>2, <1>8, <1>9, <1>10, <1>11, <1>12, DnsGoal

(* query over TCP *)
LEMMA QueryTcpInv ==
  ASSUME DnsInv, NEW q \in Query, QueryTcp(q)
  PROVE  DnsInv'
<1>1. /\ dtc \in [TcpConn -> TcType] /\ dq \in [Query -> QType] /\ twice = FALSE
      /\ srvc \in 0 .. Servers
  BY DnsTypes DEF DnsInv
<1>2. PICK r : r = [NoQuery EXCEPT !.st = "live", !.proto = "tcp"]
  OBVIOUS
<1>3. r \in QType /\ r.st = "live" /\ r.proto = "tcp" /\ r.tc = Nil
  BY <1>2 DEF NoQuery, QType
<1>4. PICK f : f = SendFrame(q, "query")
  OBVIOUS
<1>5. f \in FrameType /\ f.op = "send" /\ f.q = q
  BY <1>4 DEF SendFrame, FrameType
<1>6. /\ Quiet /\ dq[q].st = "none" /\ dq' = [dq EXCEPT ![q] = r] /\ stack' = <<f>>
      /\ UNCHANGED <<dtc, srvc, twice>>
  BY <1>2, <1>4 DEF QueryTcp
<1>7. dq[q].tc = Nil
  BY <1>6, QFact DEF QGood
<1>8. /\ dq' \in [Query -> QType] /\ dq'[q] = r
      /\ \A u \in Query : u # q => dq'[u] = dq[u]
  BY <1>1, <1>3, <1>6, OneQuery
<1>9. \A d \in TcpConn : {u \in Query : dq'[u].tc = d} = Waiting(d)
  BY <1>3, <1>7, <1>8, NotNil DEF Waiting
<1>10. stack' \in Seq(FrameType) /\ El(stack') = {f} /\ AllApart(stack')
  BY <1>5, <1>6, OneFrame
<1>11. ASSUME NEW d \in TcpConn
       PROVE  TcGood(dtc'[d], {u \in Query : dq'[u].tc = d}, ClosesIn(stack', d))
  <2>1. TcGood(dtc[d], Waiting(d), ClosesIn(stack, d)) /\ ~ClosesIn(stack, d)
    BY <1>6, TcFact, QuietFact
  <2>2. TcGood(dtc[d], Waiting(d), ClosesIn(stack', d))
    BY <2>1 DEF TcGood
  <2>3. dtc'[d] = dtc[d]
    BY <1>6
  <2> QED
    BY <1>9, <2>2, <2>3
<1>12. ASSUME NEW u \in Query PROVE QGood(dq'[u], NamedIn(stack', u))
  <2>1. CASE u = q
    <3>1. NamedIn(stack', q)
      BY <1>5, <1>10 DEF NamedIn
    <3> QED
      BY <1>3, <1>8, <2>1, <3>1 DEF QGood
  <2>2. CASE u # q
    <3>1. QGood(dq[u], FALSE)
      BY <1>6, QuietQuery
    <3>2. QGood(dq[u], NamedIn(stack', u))
      BY <3>1 DEF QGood
    <3> QED
      BY <1>8, <2>2, <3>2
  <2> QED
    BY <2>1, <2>2
<1>13. \A g \in El(stack') : FrameGood(g, dq', dtc')
  BY <1>3, <1>5, <1>8, <1>10 DEF FrameGood
<1> QED
  BY <1>1, <1>6, <1>8, <1>10, <1>11, <1>12, <1>13, DnsGoal

(* The innermost call and the others *)
LEMMA TopFact ==
  ASSUME DnsInv, ~Quiet
  PROVE  /\ Top \in FrameType /\ Top \in El(stack) /\ Tail(stack) \in Seq(FrameType)
         /\ El(stack) = {Top} \cup El(Tail(stack)) /\ AllApart(Tail(stack))
         /\ \A g \in El(Tail(stack)) : Apart(Top, g)
         /\ \A g \in FrameType : [stack EXCEPT ![1] = g] = <<g>> \o Tail(stack)
<1>1. stack \in Seq(FrameType) /\ stack # <<>> /\ AllApart(stack)
  BY DnsTypes DEF DnsInv, Quiet, StackFits
<1>2. /\ stack[1] \in FrameType /\ Tail(stack) \in Seq(FrameType)
      /\ stack = <<stack[1]>> \o Tail(stack)
      /\ \A g \in FrameType : [stack EXCEPT ![1] = g] = <<g>> \o Tail(stack)
  BY <1>1, TopAndRest
<1>3. PICK f \in FrameType : f = stack[1]
  BY <1>2
<1>4. PICK r \in Seq(FrameType) : r = Tail(stack)
  BY <1>2
<1>5. /\ El(<<f>> \o r) = {f} \cup El(r)
      /\ AllApart(<<f>> \o r) <=> AllApart(r) /\ \A g \in El(r) : Apart(f, g)
  BY Pushed
<1>6. stack = <<f>> \o r
  BY <1>2, <1>3, <1>4
<1>7. El(stack) = {f} \cup El(r) /\ AllApart(r) /\ \A g \in El(r) : Apart(f, g)
  BY <1>1, <1>5, <1>6
<1> QED
  BY <1>2, <1>3, <1>4, <1>7 DEF Top

(* The query that send_tcp works on is named by this call alone. *)
LEMMA SendFact ==
  ASSUME DnsInv, ~Quiet, Top.op = "send"
  PROVE  /\ Top.q \in Query /\ dq[Top.q] \in QType /\ dq[Top.q].st = "live"
         /\ dq[Top.q].proto = "tcp" /\ dq[Top.q].tc = Nil
         /\ \A g \in El(Tail(stack)) : g \in El(stack) /\ g.q # Top.q
         /\ \A c \in TcpConn : ClosesIn(stack, c) <=> ClosesIn(Tail(stack), c)
         /\ \A u \in Query : u # Top.q /\ NamedIn(stack, u) => NamedIn(Tail(stack), u)
<1>1. /\ Top.q \in Query /\ dq[Top.q].st = "live" /\ dq[Top.q].proto = "tcp" /\ dq[Top.q].tc = Nil
  BY TopFact, FrameFact
<1>2. ASSUME NEW g \in El(Tail(stack)) PROVE g \in El(stack) /\ g.q # Top.q
  <2>1. g \in El(stack) /\ Apart(Top, g)
    BY TopFact
  <2>2. CASE g.op = "send"
    BY <2>1, <2>2 DEF Apart
  <2>3. CASE g.op = "close"
    <3>1. g.q = Nil \/ dq[g.q].tc = g.tc
      BY <2>1, <2>3, FrameFact
    <3>2. g.tc # Nil
      BY <2>1, <2>3, FrameFact, NotNil
    <3> QED
      BY <1>1, <2>1, <3>1, <3>2, NotNil
  <2> QED
    BY <2>1, <2>2, <2>3, FrameFact
<1>3. \A c \in TcpConn : ClosesIn(stack, c) <=> ClosesIn(Tail(stack), c)
  BY TopFact DEF ClosesIn
<1>4. \A u \in Query : u # Top.q /\ NamedIn(stack, u) => NamedIn(Tail(stack), u)
  BY TopFact DEF NamedIn
<1> QED
  BY <1>1, <1>2, <1>3, <1>4, QFact

(* send_tcp fails: the query ends. *)
LEMMA SendEnds ==
  ASSUME DnsInv, ~Quiet, Top.op = "send", NEW how \in {"failed", "told"},
         dq' = [dq EXCEPT ![Top.q] = [NoQuery EXCEPT !.st = how]], stack' = Tail(stack),
         UNCHANGED <<dtc, srvc, twice>>
  PROVE  DnsInv'
<1>1. PICK q \in Query : q = Top.q
  BY SendFact
<1>2. /\ dq[q].tc = Nil /\ \A g \in El(stack') : g \in El(stack) /\ g.q # q
      /\ \A c \in TcpConn : ClosesIn(stack, c) <=> ClosesIn(stack', c)
      /\ \A u \in Query : u # q /\ NamedIn(stack, u) => NamedIn(stack', u)
  BY <1>1, SendFact
<1>3. /\ dtc \in [TcpConn -> TcType] /\ dq \in [Query -> QType] /\ twice = FALSE
      /\ srvc \in 0 .. Servers
  BY DnsTypes DEF DnsInv
<1>4. PICK r : r = [NoQuery EXCEPT !.st = how]
  OBVIOUS
<1>5. r \in QType /\ r.tc = Nil /\ \A b \in BOOLEAN : QGood(r, b)
  BY <1>4, Ended
<1>6. dq' = [dq EXCEPT ![q] = r]
  BY <1>1, <1>4
<1>7. /\ dq' \in [Query -> QType] /\ dq'[q] = r
      /\ \A u \in Query : u # q => dq'[u] = dq[u]
  BY <1>3, <1>5, <1>6, OneQuery
<1>8. \A d \in TcpConn : {u \in Query : dq'[u].tc = d} = Waiting(d)
  BY <1>2, <1>5, <1>7, NotNil DEF Waiting
<1>9. ASSUME NEW d \in TcpConn
      PROVE  TcGood(dtc'[d], {u \in Query : dq'[u].tc = d}, ClosesIn(stack', d))
  <2>1. TcGood(dtc[d], Waiting(d), ClosesIn(stack, d)) /\ (ClosesIn(stack, d) <=> ClosesIn(stack', d))
    BY <1>2, TcFact
  <2>2. TcGood(dtc[d], Waiting(d), ClosesIn(stack', d))
    BY <2>1 DEF TcGood
  <2> QED
    BY <1>8, <2>2
<1>10. ASSUME NEW u \in Query PROVE QGood(dq'[u], NamedIn(stack', u))
  <2>1. CASE u = q
    <3>1. NamedIn(stack', u) \in BOOLEAN
      BY DEF NamedIn
    <3> QED
      BY <1>5, <1>7, <2>1, <3>1
  <2>2. CASE u # q
    <3>1. QGood(dq[u], NamedIn(stack, u)) /\ (NamedIn(stack, u) => NamedIn(stack', u))
      BY <1>2, <2>2, QFact
    <3>2. QGood(dq[u], NamedIn(stack', u))
      BY <3>1 DEF QGood
    <3> QED
      BY <1>7, <2>2, <3>2
  <2> QED
    BY <2>1, <2>2
<1>11. \A g \in El(stack') : FrameGood(g, dq', dtc')
  <2> SUFFICES ASSUME NEW g \in El(stack') PROVE FrameGood(g, dq', dtc)
    OBVIOUS
  <2>1. g \in El(stack) /\ g.q # q
    BY <1>2
  <2> QED
    BY <1>7, <2>1, FrameFact DEF FrameGood
<1>12. stack' \in Seq(FrameType) /\ AllApart(stack')
  BY TopFact
<1> QED
  BY <1>3, <1>7, <1>9, <1>10, <1>11, <1>12, DnsGoal

(* send_tcp: the query joins those that wait on a connection that is not   *)
(* being closed, an old one or a new one.                                  *)
LEMMA SendJoins ==
  ASSUME DnsInv, ~Quiet, Top.op = "send", NEW c \in TcpConn, NEW x \in TcType,
         x.st = "live", x.conn, x.tmr, NoTwice(x.ql), El(x.ql) = Waiting(c), x.refs = 1 + Len(x.ql),
         ~ClosesIn(stack, c), NEW n \in Nat,
         dq' = [dq EXCEPT ![Top.q].ntx = n, ![Top.q].tc = c, ![Top.q].tmr = TRUE],
         dtc' = Joins([dtc EXCEPT ![c] = x], c, Top.q),
         stack' = Tail(stack), UNCHANGED <<srvc, twice>>
  PROVE  DnsInv'
<1>1. PICK q \in Query : q = Top.q
  BY SendFact
<1>2. /\ dq[q].tc = Nil /\ dq[q] \in QType /\ dq[q].st = "live" /\ dq[q].proto = "tcp"
      /\ \A g \in El(stack') : g \in El(stack) /\ g.q # q
      /\ \A d \in TcpConn : ClosesIn(stack, d) <=> ClosesIn(stack', d)
      /\ \A u \in Query : u # q /\ NamedIn(stack, u) => NamedIn(stack', u)
  BY <1>1, SendFact
<1>3. /\ dtc \in [TcpConn -> TcType] /\ dq \in [Query -> QType] /\ twice = FALSE
      /\ srvc \in 0 .. Servers
  BY DnsTypes DEF DnsInv
<1> DEFINE a == [dq[q] EXCEPT !.ntx = n]
           b == [a EXCEPT !.tc = c]
           r == [b EXCEPT !.tmr = TRUE]
<1>4. dq' = [dq EXCEPT ![q] = r]
  BY <1>1, <1>2, <1>3 DEF QType
<1>5. a \in QType /\ a.st = "live" /\ a.proto = "tcp"
  BY <1>2 DEF QType
<1> HIDE DEF a
<1>6. b \in QType /\ b.st = a.st /\ b.proto = a.proto /\ b.tc = c
  BY <1>5 DEF QType
<1> HIDE DEF b
<1>7. r \in QType /\ r.st = b.st /\ r.proto = b.proto /\ r.tc = b.tc /\ r.tmr = TRUE
  BY <1>6 DEF QType
<1> HIDE DEF r
<1>8. /\ dq' \in [Query -> QType] /\ dq'[q] = r
      /\ \A u \in Query : u # q => dq'[u] = dq[u]
      /\ \A d \in TcpConn : {u \in Query : dq'[u].tc = d} =
           IF r.tc = d THEN Waiting(d) \cup {q} ELSE Waiting(d) \ {q}
  BY <1>3, <1>4, <1>7, OneQuery
<1>9. \A d \in TcpConn : q \notin Waiting(d)
  BY <1>2, NotNil DEF Waiting
<1>10. PICK l \in Seq(Query) : l = x.ql
  BY TcFields
<1>11. NoTwice(l) /\ q \notin El(l)
  BY <1>9, <1>10
<1>12. PICK m : m = Append(l, q)
  OBVIOUS
<1>13. m \in Seq(Query) /\ El(m) = El(l) \cup {q} /\ NoTwice(m) /\ Len(m) = Len(l) + 1
  BY <1>11, <1>12, Appended
<1>14. PICK k : k = x.refs + 1
  OBVIOUS
<1>15. k \in Nat /\ k = 1 + Len(m)
  <2>1. x.refs \in Nat /\ Len(l) \in Nat
    BY TcFields, LenProperties
  <2>2. k \in Nat
    BY <1>14, <2>1
  <2>3. PICK j \in Nat : j = Len(l)
    BY <2>1
  <2>4. x.refs = 1 + j /\ Len(m) = j + 1
    BY <1>10, <1>13, <2>3
  <2>5. k = (1 + j) + 1 /\ (1 + j) + 1 = 1 + (j + 1)
    BY <1>14, <2>4
  <2> QED
    BY <2>2, <2>4, <2>5
<1> DEFINE e == [x EXCEPT !.ql = m]
           y == [e EXCEPT !.refs = k]
<1>16. dtc' = [dtc EXCEPT ![c] = y]
  BY <1>1, <1>3, <1>10, <1>12, <1>14 DEF Joins, TcType
<1>17. e \in TcType /\ e.st = x.st /\ e.conn = x.conn /\ e.tmr = x.tmr /\ e.ql = m
  BY <1>13 DEF TcType
<1> HIDE DEF e
<1>18. y \in TcType /\ y.st = e.st /\ y.conn = e.conn /\ y.tmr = e.tmr /\ y.ql = e.ql /\ y.refs = k
  BY <1>15, <1>17 DEF TcType
<1> HIDE DEF y
<1>19. /\ dtc' \in [TcpConn -> TcType] /\ dtc'[c] = y
       /\ \A d \in TcpConn : d # c => dtc'[d] = dtc[d]
  BY <1>3, <1>16, <1>18, OneTc
<1>20. ASSUME NEW d \in TcpConn
       PROVE  TcGood(dtc'[d], {u \in Query : dq'[u].tc = d}, ClosesIn(stack', d))
  <2>1. CASE d = c
    <3>1. {u \in Query : dq'[u].tc = c} = Waiting(c) \cup {q}
      BY <1>6, <1>7, <1>8
    <3>2. El(y.ql) = Waiting(c) \cup {q} /\ NoTwice(y.ql)
      BY <1>10, <1>13, <1>17, <1>18
    <3>3. TcGood(y, Waiting(c) \cup {q}, ClosesIn(stack', c))
      BY <1>15, <1>17, <1>18, <3>2 DEF TcGood
    <3> QED
      BY <1>19, <2>1, <3>1, <3>3
  <2>2. CASE d # c
    <3>1. {u \in Query : dq'[u].tc = d} = Waiting(d)
      BY <1>6, <1>7, <1>8, <1>9, <2>2
    <3>2. TcGood(dtc[d], Waiting(d), ClosesIn(stack, d)) /\ (ClosesIn(stack, d) <=> ClosesIn(stack', d))
      BY <1>2, TcFact
    <3>3. TcGood(dtc[d], Waiting(d), ClosesIn(stack', d))
      BY <3>2 DEF TcGood
    <3> QED
      BY <1>19, <2>2, <3>1, <3>3
  <2> QED
    BY <2>1, <2>2
<1>21. ASSUME NEW u \in Query PROVE QGood(dq'[u], NamedIn(stack', u))
  <2>1. CASE u = q
    <3>1. QGood(r, NamedIn(stack', u))
      BY <1>5, <1>6, <1>7, NotNil DEF QGood
    <3> QED
      BY <1>8, <2>1, <3>1
  <2>2. CASE u # q
    <3>1. QGood(dq[u], NamedIn(stack, u)) /\ (NamedIn(stack, u) => NamedIn(stack', u))
      BY <1>2, <2>2, QFact
    <3>2. QGood(dq[u], NamedIn(stack', u))
      BY <3>1 DEF QGood
    <3> QED
      BY <1>8, <2>2, <3>2
  <2> QED
    BY <2>1, <2>2
<1>22. \A g \in El(stack') : FrameGood(g, dq', dtc')
  <2> SUFFICES ASSUME NEW g \in El(stack') PROVE FrameGood(g, dq', dtc')
    OBVIOUS
  <2>1. g \in El(stack) /\ g.q # q
    BY <1>2
  <2>2. g.op = "close" => g.tc # c
    BY <2>1 DEF ClosesIn
  <2>3. CASE g.op = "close"
    <3>1. /\ g.tc \in TcpConn /\ dtc[g.tc].st = "live" /\ ~dtc[g.tc].conn
          /\ g.q = HeadOf(dtc[g.tc].ql)
      BY <2>1, <2>3, FrameFact
    <3>2. dtc'[g.tc] = dtc[g.tc]
      BY <1>19, <2>2, <2>3, <3>1
    <3> QED
      BY <2>3, <3>1, <3>2 DEF FrameGood
  <2>4. CASE g.op = "send"
    <3>1. /\ g.q \in Query /\ dq[g.q].st = "live" /\ dq[g.q].proto = "tcp" /\ dq[g.q].tc = Nil
      BY <2>1, <2>4, FrameFact
    <3>2. dq'[g.q] = dq[g.q]
      BY <1>8, <2>1, <3>1
    <3> QED
      BY <2>4, <3>1, <3>2 DEF FrameGood
  <2> QED
    BY <2>1, <2>3, <2>4, FrameFact
<1>23. stack' \in Seq(FrameType) /\ AllApart(stack')
  BY TopFact
<1> QED
  BY <1>3, <1>8, <1>19, <1>20, <1>21, <1>22, <1>23, DnsGoal

(* send_tcp goes on with the next server. *)
LEMMA SendAgain ==
  ASSUME DnsInv, ~Quiet, Top.op = "send", NEW n \in Nat, NEW f, f = [Top EXCEPT !.err = TRUE],
         dq' = [dq EXCEPT ![Top.q].ntx = n]
  PROVE  /\ f \in FrameType /\ f.op = "send" /\ f.q = Top.q
         /\ [stack EXCEPT ![1].err = TRUE] = <<f>> \o Tail(stack)
         /\ <<f>> \o Tail(stack) \in Seq(FrameType)
         /\ El(<<f>> \o Tail(stack)) = {f} \cup El(Tail(stack)) /\ AllApart(<<f>> \o Tail(stack))
         /\ dq' \in [Query -> QType]
         /\ \A u \in Query : /\ dq'[u].st = dq[u].st /\ dq'[u].proto = dq[u].proto
                             /\ dq'[u].tc = dq[u].tc
         /\ \A d \in TcpConn : {u \in Query : dq'[u].tc = d} = Waiting(d)
         /\ \A s : (\A u \in Query : NamedIn(stack, u) => NamedIn(s, u)) =>
              \A u \in Query : QGood(dq'[u], NamedIn(s, u))
<1>1. PICK q \in Query : q = Top.q
  BY SendFact
<1>2. dq[q].tc = Nil /\ dq[q] \in QType /\ dq[q].st = "live" /\ dq[q].proto = "tcp"
  BY <1>1, SendFact
<1>3. dq \in [Query -> QType]
  BY DnsTypes DEF DnsInv
<1>4. Top \in FrameType
  BY TopFact
<1>5. f \in FrameType /\ f.op = Top.op /\ f.q = Top.q
  BY <1>4 DEF FrameType
<1>6. [stack EXCEPT ![1].err = TRUE] = <<f>> \o Tail(stack)
  <2>1. [stack EXCEPT ![1].err = TRUE] = [stack EXCEPT ![1] = f]
    BY DEF Top
  <2> QED
    BY <1>5, <2>1, TopFact
<1>7. /\ <<f>> \o Tail(stack) \in Seq(FrameType)
      /\ El(<<f>> \o Tail(stack)) = {f} \cup El(Tail(stack)) /\ AllApart(<<f>> \o Tail(stack))
  <2>1. PICK r \in Seq(FrameType) : r = Tail(stack)
    BY TopFact
  <2>2. AllApart(r) /\ \A g \in El(r) : Apart(f, g)
    BY <1>5, <2>1, TopFact DEF Apart
  <2>3. /\ <<f>> \o r \in Seq(FrameType) /\ El(<<f>> \o r) = {f} \cup El(r)
        /\ AllApart(<<f>> \o r) <=> AllApart(r) /\ \A g \in El(r) : Apart(f, g)
    BY <1>5, Pushed
  <2> QED
    BY <2>1, <2>2, <2>3
<1> DEFINE r == [dq[q] EXCEPT !.ntx = n]
<1>8. dq' = [dq EXCEPT ![q] = r]
  BY <1>1
<1>9. r \in QType /\ r.st = dq[q].st /\ r.proto = dq[q].proto /\ r.tc = dq[q].tc
  BY <1>2 DEF QType
<1> HIDE DEF r
<1>10. /\ dq' \in [Query -> QType] /\ dq'[q] = r
       /\ \A u \in Query : u # q => dq'[u] = dq[u]
  BY <1>3, <1>8, <1>9, OneQuery
<1>11. \A u \in Query : /\ dq'[u].st = dq[u].st /\ dq'[u].proto = dq[u].proto
                        /\ dq'[u].tc = dq[u].tc
  BY <1>9, <1>10
<1>12. \A d \in TcpConn : {u \in Query : dq'[u].tc = d} = Waiting(d)
  BY <1>11 DEF Waiting
<1>13. ASSUME NEW s, \A u \in Query : NamedIn(stack, u) => NamedIn(s, u), NEW u \in Query
       PROVE  QGood(dq'[u], NamedIn(s, u))
  <2>1. CASE u = q
    <3>1. NamedIn(stack, q)
      BY <1>1, TopFact DEF NamedIn
    <3>2. NamedIn(s, u)
      BY <1>13, <2>1, <3>1
    <3> QED
      BY <1>2, <1>9, <1>10, <2>1, <3>2 DEF QGood
  <2>2. CASE u # q
    <3>1. QGood(dq[u], NamedIn(stack, u)) /\ (NamedIn(stack, u) => NamedIn(s, u))
      BY <1>13, QFact
    <3>2. QGood(dq[u], NamedIn(s, u))
      BY <3>1 DEF QGood
    <3> QED
      BY <1>10, <2>2, <3>2
  <2> QED
    BY <2>1, <2>2
<1> QED
  BY <1>5, <1>6, <1>7, <1>10, <1>11, <1>12, <1>13

LEMMA SendAgainInv ==
  ASSUME DnsInv, ~Quiet, Top.op = "send", NEW n \in Nat, dq' = [dq EXCEPT ![Top.q].ntx = n],
         stack' = [stack EXCEPT ![1].err = TRUE], UNCHANGED <<dtc, srvc, twice>>
  PROVE  DnsInv'
<1>1. PICK f : f = [Top EXCEPT !.err = TRUE]
  OBVIOUS
<1>2. /\ f \in FrameType /\ f.op = "send" /\ f.q = Top.q
      /\ stack' \in Seq(FrameType) /\ El(stack') = {f} \cup El(Tail(stack)) /\ AllApart(stack')
      /\ dq' \in [Query -> QType]
      /\ \A u \in Query : /\ dq'[u].st = dq[u].st /\ dq'[u].proto = dq[u].proto
                          /\ dq'[u].tc = dq[u].tc
      /\ \A d \in TcpConn : {u \in Query : dq'[u].tc = d} = Waiting(d)
      /\ \A s : (\A u \in Query : NamedIn(stack, u) => NamedIn(s, u)) =>
           \A u \in Query : QGood(dq'[u], NamedIn(s, u))
  BY <1>1, SendAgain
<1>3. /\ dtc \in [TcpConn -> TcType] /\ twice = FALSE /\ srvc \in 0 .. Servers
  BY DnsTypes DEF DnsInv
<1>4. El(stack) = {Top} \cup El(Tail(stack))
  BY TopFact
<1>5. \A u \in Query : NamedIn(stack, u) => NamedIn(stack', u)
  BY <1>2, <1>4 DEF NamedIn
<1>6. \A u \in Query : QGood(dq'[u], NamedIn(stack', u))
  BY <1>2, <1>5
<1>7. ASSUME NEW d \in TcpConn
      PROVE  TcGood(dtc'[d], {u \in Query : dq'[u].tc = d}, ClosesIn(stack', d))
  <2>1. ClosesIn(stack, d) => ClosesIn(stack', d)
    BY <1>2, <1>4 DEF ClosesIn
  <2>2. TcGood(dtc[d], Waiting(d), ClosesIn(stack', d))
    BY <2>1, TcFact DEF TcGood
  <2> QED
    BY <1>2, <2>2
<1>8. \A g \in El(stack') : FrameGood(g, dq', dtc')
  <2> SUFFICES ASSUME NEW g \in El(stack') PROVE FrameGood(g, dq', dtc)
    OBVIOUS
  <2>1. CASE g = f
    BY <1>2, <2>1, SendFact DEF FrameGood
  <2>2. CASE g # f
    <3>1. g \in El(stack)
      BY <1>2, <1>4, <2>2
    <3> QED
      BY <1>2, <3>1, FrameFact DEF FrameGood
  <2> QED
    BY <2>1, <2>2
<1> QED
  BY <1>2, <1>3, <1>6, <1>7, <1>8, DnsGoal

(* send_tcp closes the connection that it could not write on. *)
LEMMA SendCloses ==
  ASSUME DnsInv, ~Quiet, Top.op = "send", NEW n \in Nat, dq' = [dq EXCEPT ![Top.q].ntx = n],
         NEW c \in TcpConn, dtc[c].st = "live", dtc[c].conn, dtc' = Dead(c),
         stack' = <<CloseFrame(c)>> \o [stack EXCEPT ![1].err = TRUE], UNCHANGED <<srvc, twice>>
  PROVE  DnsInv'
<1>1. PICK f : f = [Top EXCEPT !.err = TRUE]
  OBVIOUS
<1>2. PICK s : s = <<f>> \o Tail(stack)
  OBVIOUS
<1>3. /\ f \in FrameType /\ f.op = "send" /\ f.q = Top.q
      /\ s \in Seq(FrameType) /\ El(s) = {f} \cup El(Tail(stack)) /\ AllApart(s)
      /\ [stack EXCEPT ![1].err = TRUE] = s
      /\ dq' \in [Query -> QType]
      /\ \A u \in Query : /\ dq'[u].st = dq[u].st /\ dq'[u].proto = dq[u].proto
                          /\ dq'[u].tc = dq[u].tc
      /\ \A d \in TcpConn : {u \in Query : dq'[u].tc = d} = Waiting(d)
      /\ \A t : (\A u \in Query : NamedIn(stack, u) => NamedIn(t, u)) =>
           \A u \in Query : QGood(dq'[u], NamedIn(t, u))
  BY <1>1, <1>2, SendAgain
<1>4. /\ dtc \in [TcpConn -> TcType] /\ twice = FALSE /\ srvc \in 0 .. Servers
  BY DnsTypes DEF DnsInv
<1>5. El(stack) = {Top} \cup El(Tail(stack))
  BY TopFact
<1>6. dtc[c] \in TcType /\ dtc[c].ql \in Seq(Query) /\ TcGood(dtc[c], Waiting(c), ClosesIn(stack, c))
  BY TcFact
<1> DEFINE z == [dtc[c] EXCEPT !.conn = FALSE]
<1>7. dtc' = [dtc EXCEPT ![c] = z]
  BY DEF Dead
<1>8. /\ z \in TcType /\ z.st = dtc[c].st /\ z.conn = FALSE /\ z.ql = dtc[c].ql
      /\ z.tmr = dtc[c].tmr /\ z.refs = dtc[c].refs
  BY <1>6 DEF TcType
<1> HIDE DEF z
<1>9. /\ dtc' \in [TcpConn -> TcType] /\ dtc'[c] = z
      /\ \A d \in TcpConn : d # c => dtc'[d] = dtc[d]
  BY <1>4, <1>7, <1>8, OneTc
<1>10. PICK h : h = CloseFrame(c)
  OBVIOUS
<1>11. h \in FrameType /\ h.op = "close" /\ h.tc = c /\ h.q = HeadOf(dtc[c].ql)
  <2>1. HeadOf(dtc[c].ql) \in Query \cup {Nil}
    BY <1>6, HeadType
  <2> QED
    BY <1>10, <2>1 DEF CloseFrame, FrameType
<1>12. \A g \in El(s) : g.op = "close" => g \in El(stack) /\ g.tc # c
  <2> SUFFICES ASSUME NEW g \in El(s), g.op = "close" PROVE g \in El(stack) /\ g.tc # c
    OBVIOUS
  <2>1. g \in El(stack)
    BY <1>3, <1>5
  <2> QED
    BY <2>1, FrameFact
<1>13. stack' = <<h>> \o s /\ stack' \in Seq(FrameType) /\ El(stack') = {h} \cup El(s) /\ AllApart(stack')
  <2>1. /\ <<h>> \o s \in Seq(FrameType) /\ El(<<h>> \o s) = {h} \cup El(s)
        /\ AllApart(<<h>> \o s) <=> AllApart(s) /\ \A g \in El(s) : Apart(h, g)
    BY <1>3, <1>11, Pushed
  <2>2. \A g \in El(s) : Apart(h, g)
    BY <1>11, <1>12 DEF Apart
  <2> QED
    BY <1>3, <1>10, <2>1, <2>2
<1>14. \A u \in Query : QGood(dq'[u], NamedIn(stack', u))
  <2>1. \A u \in Query : NamedIn(stack, u) => NamedIn(stack', u)
    BY <1>3, <1>5, <1>13 DEF NamedIn
  <2> QED
    BY <1>3, <2>1
<1>15. ASSUME NEW d \in TcpConn
       PROVE  TcGood(dtc'[d], {u \in Query : dq'[u].tc = d}, ClosesIn(stack', d))
  <2>1. CASE d = c
    <3>1. ClosesIn(stack', c)
      BY <1>11, <1>13 DEF ClosesIn
    <3>2. TcGood(z, Waiting(c), ClosesIn(stack', c))
      BY <1>6, <1>8, <3>1 DEF TcGood
    <3> QED
      BY <1>3, <1>9, <2>1, <3>2
  <2>2. CASE d # c
    <3>1. ClosesIn(stack, d) => ClosesIn(stack', d)
      BY <1>3, <1>5, <1>13 DEF ClosesIn
    <3>2. TcGood(dtc[d], Waiting(d), ClosesIn(stack', d))
      BY <3>1, TcFact DEF TcGood
    <3> QED
      BY <1>3, <1>9, <2>2, <3>2
  <2> QED
    BY <2>1, <2>2
<1>16. \A g \in El(stack') : FrameGood(g, dq', dtc')
  <2> SUFFICES ASSUME NEW g \in El(stack') PROVE FrameGood(g, dq', dtc')
    OBVIOUS
  <2>1. CASE g = h
    BY <1>8, <1>9, <1>11, <2>1 DEF FrameGood
  <2>2. CASE g = f
    BY <1>3, <2>2, SendFact DEF FrameGood
  <2>3. CASE g # h /\ g # f
    <3>1. g \in El(stack) /\ g \in El(s)
      BY <1>3, <1>5, <1>13, <2>3
    <3>2. g.op = "close" => g.tc # c
      BY <1>12, <3>1
    <3> QED
      BY <1>3, <1>9, <3>1, <3>2, FrameFact DEF FrameGood
  <2> QED
    BY <2>1, <2>2, <2>3
<1> QED
  BY <1>3, <1>4, <1>9, <1>13, <1>14, <1>15, <1>16, DnsGoal

LEMMA NoTcType == NoTc \in TcType /\ NoTc.ql = <<>>
<1>1. 0 \in 0 .. Servers /\ <<>> \in Seq(Query)
  BY DnsAssumption, EmptySeq
<1> QED
  BY <1>1 DEF NoTc, TcType

LEMMA FreedTc ==
  ASSUME NEW y, y = [NoTc EXCEPT !.st = "freed"]
  PROVE  y \in TcType /\ y.st = "freed" /\ y.ql = <<>>
BY NoTcType DEF TcType

(* tcpconn_alloc *)
LEMMA OpenedTc ==
  ASSUME NEW n \in 1 .. Servers,
         NEW x, x = [NoTc EXCEPT !.st = "live", !.srv = n, !.conn = TRUE, !.tmr = TRUE, !.refs = 1]
  PROVE  /\ x \in TcType /\ x.st = "live" /\ x.conn /\ x.tmr /\ x.ql = <<>> /\ x.refs = 1
<1> DEFINE a == [NoTc EXCEPT !.st = "live"]
           b == [a EXCEPT !.srv = n]
           d == [b EXCEPT !.conn = TRUE]
           e == [d EXCEPT !.tmr = TRUE]
           y == [e EXCEPT !.refs = 1]
<1>1. x = y
  BY DEF NoTc
<1>2. n \in 0 .. Servers /\ 1 \in Nat
  BY DnsAssumption
<1>3. a \in TcType /\ a.st = "live" /\ a.ql = <<>>
  BY NoTcType DEF TcType
<1> HIDE DEF a
<1>4. b \in TcType /\ b.st = "live" /\ b.ql = <<>>
  BY <1>2, <1>3 DEF TcType
<1> HIDE DEF b
<1>5. d \in TcType /\ d.st = "live" /\ d.ql = <<>> /\ d.conn
  BY <1>4 DEF TcType
<1> HIDE DEF d
<1>6. e \in TcType /\ e.st = "live" /\ e.ql = <<>> /\ e.conn /\ e.tmr
  BY <1>5 DEF TcType
<1> HIDE DEF e
<1>7. y \in TcType /\ y.st = "live" /\ y.ql = <<>> /\ y.conn /\ y.tmr /\ y.refs = 1
  BY <1>2, <1>6 DEF TcType
<1> HIDE DEF y
<1> QED
  BY <1>1, <1>7

(* send_tcp, one turn of its loop *)
LEMMA SendTcpInv ==
  ASSUME DnsInv, SendTcp
  PROVE  DnsInv'
<1>1. ~Quiet /\ Top.op = "send" /\ srvc' = srvc
  BY DEF SendTcp
<1>2. PICK q \in Query : q = Top.q /\ dq[q] \in QType
  BY <1>1, SendFact
<1>3. PICK n : n = dq[q].ntx + 1
  OBVIOUS
<1>4. /\ n \in Nat /\ srvc \in 0 .. Servers /\ dtc \in [TcpConn -> TcType]
      /\ dq[q].ntx < srvc => n \in 1 .. Servers
  <2>1. dq[q].ntx \in Nat /\ srvc \in 0 .. Servers /\ dtc \in [TcpConn -> TcType]
    BY <1>2, QFields, DnsTypes DEF DnsInv
  <2> QED
    BY <1>3, <2>1, DnsAssumption
<1>5. ASSUME NEW c, NEW T, Returns(q, c, T, n, TRUE), T = dtc PROVE DnsInv'
  <2>1. PICK how \in {"failed", "told"} : how = IF Top.by = "query" THEN "failed" ELSE "told"
    OBVIOUS
  <2>2. /\ dq' = [dq EXCEPT ![q] = [NoQuery EXCEPT !.st = how]] /\ dtc' = dtc
        /\ stack' = Tail(stack) /\ twice' = twice
    BY <1>5, <2>1 DEF Returns
  <2> QED
    BY <1>1, <1>2, <2>2, SendEnds
<1>6. ASSUME NEW c \in ConnTo(n), Returns(q, c, dtc, n, FALSE) PROVE DnsInv'
  <2>1. c \in TcpConn /\ dtc[c].st = "live" /\ dtc[c].conn
    BY <1>6 DEF ConnTo
  <2>2. PICK x \in TcType : x = dtc[c]
    BY <2>1, TcFact
  <2>3. TcGood(x, Waiting(c), ClosesIn(stack, c))
    BY <2>1, <2>2, TcFact
  <2>4. /\ x.st = "live" /\ x.conn /\ x.tmr /\ NoTwice(x.ql) /\ El(x.ql) = Waiting(c)
        /\ x.refs = 1 + Len(x.ql)
    BY <2>1, <2>2, <2>3 DEF TcGood
  <2>5. ~ClosesIn(stack, c)
    BY <2>1, FrameFact DEF ClosesIn
  <2>6. [dtc EXCEPT ![c] = x] = dtc
    BY <1>4, <2>2
  <2>7. /\ dq' = [dq EXCEPT ![q].ntx = n, ![q].tc = c, ![q].tmr = TRUE]
        /\ dtc' = Joins([dtc EXCEPT ![c] = x], c, q) /\ stack' = Tail(stack) /\ twice' = twice
    BY <1>6, <2>6 DEF Returns
  <2> QED
    BY <1>1, <1>2, <1>4, <2>1, <2>4, <2>5, <2>7, SendJoins
<1>7. ASSUME dq[q].ntx < srvc, NEW c \in TcpConn, dtc[c].st = "none",
             Returns(q, c, Opened(c, n), n, FALSE)
      PROVE  DnsInv'
  <2>1. PICK x : x = [NoTc EXCEPT !.st = "live", !.srv = n, !.conn = TRUE, !.tmr = TRUE, !.refs = 1]
    OBVIOUS
  <2>2. /\ x \in TcType /\ x.st = "live" /\ x.conn /\ x.tmr /\ x.ql = <<>> /\ x.refs = 1
    BY <1>4, <1>7, <2>1, OpenedTc
  <2>3. Waiting(c) = {} /\ El(<<>>) = {} /\ NoTwice(<<>>) /\ Len(<<>>) = 0
    <3>1. dtc[c].ql = <<>> /\ El(dtc[c].ql) = Waiting(c)
      BY <1>7, TcFact DEF TcGood
    <3>2. El(<<>>) = {} /\ NoTwice(<<>>) /\ Len(<<>>) = 0
      BY EmptySeq DEF El, NoTwice
    <3> QED
      BY <3>1, <3>2
  <2>4. NoTwice(x.ql) /\ El(x.ql) = Waiting(c) /\ x.refs = 1 + Len(x.ql)
    BY <2>2, <2>3
  <2>5. ~ClosesIn(stack, c)
    BY <1>7, FrameFact DEF ClosesIn
  <2>6. /\ dq' = [dq EXCEPT ![q].ntx = n, ![q].tc = c, ![q].tmr = TRUE]
        /\ dtc' = Joins([dtc EXCEPT ![c] = x], c, q) /\ stack' = Tail(stack) /\ twice' = twice
    BY <1>7, <2>1 DEF Returns, Opened
  <2> QED
    BY <1>1, <1>2, <1>4, <2>2, <2>4, <2>5, <2>6, SendJoins
<1>8. CASE dq[q].ntx >= srvc /\ Returns(q, Nil, dtc, n, TRUE)
  BY <1>5, <1>8
<1>9. CASE /\ dq[q].ntx < srvc /\ ConnTo(n) = {}
           /\ \/ \E c \in TcpConn : dtc[c].st = "none" /\ Returns(q, c, Opened(c, n), n, FALSE)
              \/ /\ dq' = [dq EXCEPT ![q].ntx = n] /\ stack' = [stack EXCEPT ![1].err = TRUE]
                 /\ UNCHANGED <<dtc, twice>>
  <2>1. CASE \E c \in TcpConn : dtc[c].st = "none" /\ Returns(q, c, Opened(c, n), n, FALSE)
    BY <1>7, <1>9, <2>1
  <2>2. CASE /\ dq' = [dq EXCEPT ![q].ntx = n] /\ stack' = [stack EXCEPT ![1].err = TRUE]
             /\ UNCHANGED <<dtc, twice>>
    BY <1>1, <1>2, <1>4, <2>2, SendAgainInv
  <2> QED
    BY <1>9, <2>1, <2>2
<1>10. CASE /\ dq[q].ntx < srvc
            /\ \E c \in ConnTo(n) :
                 \/ ~dtc[c].connected /\ Returns(q, c, dtc, n, Top.err)
                 \/ dtc[c].connected /\ Returns(q, c, dtc, n, FALSE)
                 \/ /\ dtc[c].connected
                    /\ dq' = [dq EXCEPT ![q].ntx = n] /\ dtc' = Dead(c)
                    /\ stack' = <<CloseFrame(c)>> \o [stack EXCEPT ![1].err = TRUE]
                    /\ UNCHANGED twice
  <2>1. PICK c \in ConnTo(n) :
          \/ Returns(q, c, dtc, n, Top.err) \/ Returns(q, c, dtc, n, FALSE)
          \/ /\ dq' = [dq EXCEPT ![q].ntx = n] /\ dtc' = Dead(c)
             /\ stack' = <<CloseFrame(c)>> \o [stack EXCEPT ![1].err = TRUE]
             /\ UNCHANGED twice
    BY <1>10
  <2>2. Top.err = TRUE \/ Top.err = FALSE
    BY <1>1, TopFact, FrameFields
  <2>3. CASE Returns(q, c, dtc, n, Top.err)
    <3>1. Returns(q, c, dtc, n, TRUE) \/ Returns(q, c, dtc, n, FALSE)
      BY <2>2, <2>3
    <3> QED
      BY <1>5, <1>6, <3>1
  <2>4. CASE Returns(q, c, dtc, n, FALSE)
    BY <1>6, <2>4
  <2>5. CASE /\ dq' = [dq EXCEPT ![q].ntx = n] /\ dtc' = Dead(c)
             /\ stack' = <<CloseFrame(c)>> \o [stack EXCEPT ![1].err = TRUE]
             /\ UNCHANGED twice
    <3>1. c \in TcpConn /\ dtc[c].st = "live" /\ dtc[c].conn
      BY DEF ConnTo
    <3> QED
      BY <1>1, <1>2, <1>4, <2>5, <3>1, SendCloses
  <2> QED
    BY <2>1, <2>3, <2>4, <2>5
<1> QED
  BY <1>2, <1>3, <1>8, <1>9, <1>10 DEF SendTcp

(* The connection that tcpconn_close works on: its first query leaves it,  *)
(* and the call goes on with the next one.                                 *)
LEMMA CloseFact ==
  ASSUME DnsInv, ~Quiet, Top.op = "close"
  PROVE  /\ Top.tc \in TcpConn /\ dtc[Top.tc].st = "live" /\ ~dtc[Top.tc].conn
         /\ Top.q = HeadOf(dtc[Top.tc].ql)
         /\ Top.q # Nil => Top.q \in Query /\ dq[Top.q].tc = Top.tc
         /\ \A g \in El(Tail(stack)) :
              /\ g \in El(stack) /\ (g.op = "close" => g.tc # Top.tc)
              /\ Top.q # Nil => g.q # Top.q
         /\ \A d \in TcpConn : d # Top.tc /\ ClosesIn(stack, d) => ClosesIn(Tail(stack), d)
         /\ \A u \in Query : u # Top.q /\ NamedIn(stack, u) => NamedIn(Tail(stack), u)
<1>1. /\ Top.tc \in TcpConn /\ dtc[Top.tc].st = "live" /\ ~dtc[Top.tc].conn
      /\ Top.q = HeadOf(dtc[Top.tc].ql)
      /\ Top.q # Nil => Top.q \in Query /\ dq[Top.q].tc = Top.tc
  BY TopFact, FrameFact
<1>2. ASSUME NEW g \in El(Tail(stack))
      PROVE  /\ g \in El(stack) /\ (g.op = "close" => g.tc # Top.tc)
             /\ Top.q # Nil => g.q # Top.q
  <2>1. g \in El(stack) /\ (g.op = "close" => g.tc # Top.tc)
    BY TopFact DEF Apart
  <2>2. ASSUME Top.q # Nil PROVE g.q # Top.q
    <3>1. CASE g.op = "close"
      BY <1>1, <2>1, <2>2, <3>1, FrameFact
    <3>2. CASE g.op = "send"
      BY <1>1, <2>1, <2>2, <3>2, FrameFact, NotNil
    <3> QED
      BY <2>1, <3>1, <3>2, FrameFact
  <2> QED
    BY <2>1, <2>2
<1>3. \A d \in TcpConn : d # Top.tc /\ ClosesIn(stack, d) => ClosesIn(Tail(stack), d)
  BY TopFact DEF ClosesIn
<1>4. \A u \in Query : u # Top.q /\ NamedIn(stack, u) => NamedIn(Tail(stack), u)
  BY TopFact DEF NamedIn
<1> QED
  BY <1>1, <1>2, <1>3, <1>4

LEMMA CloseGoesOn ==
  ASSUME DnsInv, ~Quiet, Top.op = "close", Top.q # Nil
  PROVE  \E c \in TcpConn, q \in Query, y \in TcType, f \in FrameType :
           /\ c = Top.tc /\ q = Top.q /\ y.st = "live" /\ ~y.conn /\ y.tmr
           /\ NoTwice(y.ql) /\ El(y.ql) = Waiting(c) \ {q} /\ y.refs = 1 + Len(y.ql)
           /\ dq[q].st = "live" /\ FailQuery(c, q) = [dtc EXCEPT ![c] = y]
           /\ f.op = "close" /\ f.tc = c /\ f.q = HeadOf(y.ql)
           /\ [stack EXCEPT ![1].q = Successor(dtc[c].ql, q)] = <<f>> \o Tail(stack)
           /\ <<f>> \o Tail(stack) \in Seq(FrameType)
           /\ El(<<f>> \o Tail(stack)) = {f} \cup El(Tail(stack)) /\ AllApart(<<f>> \o Tail(stack))
<1>1. PICK c \in TcpConn : c = Top.tc
  BY CloseFact
<1>2. PICK q \in Query : q = Top.q
  BY CloseFact
<1>3. PICK y : y = Dropped([dtc[c] EXCEPT !.ql = Without(@, q)])
  OBVIOUS
<1>4. /\ dtc[c].st = "live" /\ ~dtc[c].conn /\ q = HeadOf(dtc[c].ql) /\ dq[q].tc = c /\ q # Nil
  BY <1>1, <1>2, CloseFact, NotNil
<1>5. /\ y \in TcType /\ y.st = "live" /\ y.conn = dtc[c].conn /\ y.tmr
      /\ y.ql = Without(dtc[c].ql, q) /\ NoTwice(y.ql) /\ El(y.ql) = Waiting(c) \ {q}
      /\ y.refs = 1 + Len(y.ql) /\ dq[q].st = "live" /\ q \in El(dtc[c].ql)
  BY <1>4, <1>3, LeavesTc
<1>6. PICK l \in Seq(Query) : l = dtc[c].ql
  BY TcFact
<1>7. NoTwice(l) /\ l # <<>> /\ l[1] = q /\ q \in El(l)
  <2>1. NoTwice(l) /\ HeadOf(l) = q /\ q \in El(l)
    BY <1>4, <1>5, <1>6, TcFact
  <2> QED
    BY <1>4, <2>1 DEF HeadOf
<1>8. Without(l, q) = Tail(l)
  BY <1>7, Left
<1>9. Successor(l, q) = HeadOf(Tail(l))
  BY <1>7, AfterFirst
<1>10. HeadOf(y.ql) = Successor(dtc[c].ql, q)
  BY <1>5, <1>6, <1>8, <1>9
<1>11. HeadOf(y.ql) \in Query \cup {Nil}
  BY <1>5, TcFields, HeadType
<1>12. Top \in FrameType
  BY TopFact
<1> DEFINE f == [Top EXCEPT !.q = HeadOf(y.ql)]
<1>13. f \in FrameType /\ f.op = "close" /\ f.tc = c /\ f.q = HeadOf(y.ql)
  <2>1. f \in FrameType /\ f.op = Top.op /\ f.tc = Top.tc /\ f.q = HeadOf(y.ql)
    BY <1>11, <1>12 DEF FrameType
  <2> QED
    BY <1>1, <2>1
<1>14. [stack EXCEPT ![1].q = Successor(dtc[c].ql, q)] = <<f>> \o Tail(stack)
  <2>1. PICK w : w = Successor(dtc[c].ql, q)
    OBVIOUS
  <2>2. f = [Top EXCEPT !.q = w]
    BY <1>10, <2>1
  <2>3. [stack EXCEPT ![1].q = w] = [stack EXCEPT ![1] = f]
    BY <2>2 DEF Top
  <2> HIDE DEF f
  <2> QED
    BY <1>13, <2>1, <2>3, TopFact
<1> HIDE DEF f
<1>15. /\ <<f>> \o Tail(stack) \in Seq(FrameType)
       /\ El(<<f>> \o Tail(stack)) = {f} \cup El(Tail(stack)) /\ AllApart(<<f>> \o Tail(stack))
  <2>1. PICK r \in Seq(FrameType) : r = Tail(stack)
    BY TopFact
  <2>2. AllApart(r) /\ \A g \in El(r) : Apart(f, g)
    BY <1>1, <1>13, <2>1, TopFact DEF Apart
  <2>3. /\ <<f>> \o r \in Seq(FrameType) /\ El(<<f>> \o r) = {f} \cup El(r)
        /\ AllApart(<<f>> \o r) <=> AllApart(r) /\ \A g \in El(r) : Apart(f, g)
    BY <1>13, Pushed
  <2> QED
    BY <2>1, <2>2, <2>3
<1>16. FailQuery(c, q) = [dtc EXCEPT ![c] = y]
  BY <1>3 DEF FailQuery
<1> QED
  BY <1>1, <1>2, <1>4, <1>5, <1>13, <1>14, <1>15, <1>16

(* A turn of the loop: the query no longer waits, and other calls than     *)
(* this one may be under way in it.                                        *)
LEMMA CloseGoal ==
  ASSUME DnsInv, ~Quiet, Top.op = "close", NEW c \in TcpConn, c = Top.tc, NEW q \in Query, q = Top.q,
         NEW y \in TcType, y.st = "live", ~y.conn, y.tmr, NoTwice(y.ql), El(y.ql) = Waiting(c) \ {q},
         y.refs = 1 + Len(y.ql), dtc' = [dtc EXCEPT ![c] = y],
         NEW f \in FrameType, f.op = "close", f.tc = c, f.q = HeadOf(y.ql),
         dq' \in [Query -> QType], \A u \in Query : u # q => dq'[u] = dq[u],
         dq'[q].tc = Nil, QGood(dq'[q], NamedIn(stack', q)),
         f \in El(stack'), \A g \in El(Tail(stack)) : g \in El(stack'),
         \A g \in El(stack') : g = f \/ g \in El(Tail(stack)) \/ FrameGood(g, dq', dtc'),
         stack' \in Seq(FrameType), AllApart(stack'), srvc' = srvc, twice' = FALSE
  PROVE  DnsInv'
<1>1. /\ dq[q].tc = c
      /\ \A g \in El(Tail(stack)) : g \in El(stack) /\ (g.op = "close" => g.tc # c) /\ g.q # q
      /\ \A d \in TcpConn : d # c /\ ClosesIn(stack, d) => ClosesIn(Tail(stack), d)
      /\ \A u \in Query : u # q /\ NamedIn(stack, u) => NamedIn(Tail(stack), u)
  BY CloseFact, NotNil
<1>2. dtc \in [TcpConn -> TcType] /\ srvc \in 0 .. Servers
  BY DnsTypes DEF DnsInv
<1>3. /\ dtc' \in [TcpConn -> TcType] /\ dtc'[c] = y
      /\ \A d \in TcpConn : d # c => dtc'[d] = dtc[d]
  BY <1>2, OneTc
<1>4. \A d \in TcpConn : {u \in Query : dq'[u].tc = d} = Waiting(d) \ {q}
  BY NotNil DEF Waiting
<1>5. \A g : g = f \/ g \in El(Tail(stack)) => g \in El(stack')
  OBVIOUS
<1>6. ASSUME NEW d \in TcpConn
       PROVE  TcGood(dtc'[d], {u \in Query : dq'[u].tc = d}, ClosesIn(stack', d))
  <2>1. CASE d = c
    <3>1. ClosesIn(stack', c)
      BY <1>5 DEF ClosesIn
    <3>2. TcGood(y, Waiting(c) \ {q}, ClosesIn(stack', c))
      BY <3>1 DEF TcGood
    <3> QED
      BY <1>3, <1>4, <2>1, <3>2
  <2>2. CASE d # c
    <3>1. q \notin Waiting(d)
      BY <1>1, <2>2 DEF Waiting
    <3>2. {u \in Query : dq'[u].tc = d} = Waiting(d)
      BY <1>4, <3>1
    <3>3. ClosesIn(stack, d) => ClosesIn(stack', d)
      BY <1>1, <1>5, <2>2 DEF ClosesIn
    <3>4. TcGood(dtc[d], Waiting(d), ClosesIn(stack', d))
      BY <3>3, TcFact DEF TcGood
    <3>5. dtc'[d] = dtc[d]
      BY <1>3, <2>2
    <3> QED
      BY <3>2, <3>4, <3>5
  <2> QED
    BY <2>1, <2>2
<1>7. ASSUME NEW u \in Query PROVE QGood(dq'[u], NamedIn(stack', u))
  <2>1. CASE u = q
    BY <1>4, <2>1
  <2>2. CASE u # q
    <3>1. NamedIn(stack, u) => NamedIn(stack', u)
      BY <1>1, <1>5, <2>2 DEF NamedIn
    <3>2. QGood(dq[u], NamedIn(stack', u))
      BY <3>1, QFact DEF QGood
    <3> QED
      BY <1>4, <2>2, <3>2
  <2> QED
    BY <2>1, <2>2
<1>8. \A g \in El(stack') : FrameGood(g, dq', dtc')
  <2> SUFFICES ASSUME NEW g \in El(stack') PROVE FrameGood(g, dq', dtc')
    OBVIOUS
  <2>1. CASE FrameGood(g, dq', dtc')
    BY <2>1
  <2>2. CASE g = f
    BY <1>3, <2>2 DEF FrameGood
  <2>3. CASE g \in El(Tail(stack)) /\ g.op = "close"
    <3>1. /\ g.tc \in TcpConn /\ dtc[g.tc].st = "live" /\ ~dtc[g.tc].conn
          /\ g.q = HeadOf(dtc[g.tc].ql)
      BY <1>1, <2>3, FrameFact
    <3>2. dtc'[g.tc] = dtc[g.tc]
      BY <1>1, <1>3, <2>3, <3>1
    <3> QED
      BY <2>3, <3>1, <3>2 DEF FrameGood
  <2>4. CASE g \in El(Tail(stack)) /\ g.op = "send"
    <3>1. /\ g.q \in Query /\ dq[g.q].st = "live" /\ dq[g.q].proto = "tcp" /\ dq[g.q].tc = Nil
      BY <1>1, <2>4, FrameFact
    <3>2. dq'[g.q] = dq[g.q]
      BY <1>1, <1>4, <2>4, <3>1
    <3> QED
      BY <2>4, <3>1, <3>2 DEF FrameGood
  <2> QED
    BY <1>1, <2>1, <2>2, <2>3, <2>4, FrameFact
<1> QED
  BY <1>2, <1>3, <1>4, <1>6, <1>7, <1>8, DnsGoal

LEMMA CloseStepInv ==
  ASSUME DnsInv, CloseStep
  PROVE  DnsInv'
<1>1. ~Quiet /\ Top.op = "close" /\ Top.q # Nil /\ srvc' = srvc /\ dtc' = FailQuery(Top.tc, Top.q)
  BY DEF CloseStep
<1>2. PICK c \in TcpConn, q \in Query, y \in TcType, f \in FrameType :
        /\ c = Top.tc /\ q = Top.q /\ y.st = "live" /\ ~y.conn /\ y.tmr
        /\ NoTwice(y.ql) /\ El(y.ql) = Waiting(c) \ {q} /\ y.refs = 1 + Len(y.ql)
        /\ dq[q].st = "live" /\ FailQuery(c, q) = [dtc EXCEPT ![c] = y]
        /\ f.op = "close" /\ f.tc = c /\ f.q = HeadOf(y.ql)
        /\ [stack EXCEPT ![1].q = Successor(dtc[c].ql, q)] = <<f>> \o Tail(stack)
        /\ <<f>> \o Tail(stack) \in Seq(FrameType)
        /\ El(<<f>> \o Tail(stack)) = {f} \cup El(Tail(stack)) /\ AllApart(<<f>> \o Tail(stack))
  BY <1>1, CloseGoesOn
<1>3. PICK s : s = <<f>> \o Tail(stack)
  OBVIOUS
<1>4. /\ twice = FALSE /\ dq \in [Query -> QType] /\ dq[q] \in QType /\ QGood(dq[q], NamedIn(stack, q))
  BY QFact, DnsTypes DEF DnsInv
<1>5. dtc' = [dtc EXCEPT ![c] = y]
  BY <1>1, <1>2
<1>6. /\ [stack EXCEPT ![1].q = Successor(dtc[c].ql, q)] = s
      /\ s \in Seq(FrameType) /\ El(s) = {f} \cup El(Tail(stack)) /\ AllApart(s)
  BY <1>2, <1>3
<1>7. /\ c = Top.tc /\ q = Top.q /\ y.st = "live" /\ ~y.conn /\ y.tmr
      /\ NoTwice(y.ql) /\ El(y.ql) = Waiting(c) \ {q} /\ y.refs = 1 + Len(y.ql)
      /\ f.op = "close" /\ f.tc = c /\ f.q = HeadOf(y.ql)
      /\ ~Quiet /\ Top.op = "close" /\ srvc' = srvc
  BY <1>1, <1>2
<1>8. CASE End(q, "told") /\ stack' = s
  <2>1. PICK r : r = [NoQuery EXCEPT !.st = "told"]
    OBVIOUS
  <2>2. r \in QType /\ r.tc = Nil /\ \A b \in BOOLEAN : QGood(r, b)
    BY <2>1, Ended
  <2>3. dq' = [dq EXCEPT ![q] = r] /\ twice' = FALSE
    BY <1>2, <1>4, <1>8, <2>1 DEF End, LiveQ
  <2>4. NamedIn(stack', q) \in BOOLEAN
    BY DEF NamedIn
  <2>5. dq' \in [Query -> QType] /\ dq'[q] = r /\ \A u \in Query : u # q => dq'[u] = dq[u]
    BY <1>4, <2>2, <2>3, OneQuery
  <2>6. dq'[q].tc = Nil /\ QGood(dq'[q], NamedIn(stack', q))
    BY <2>2, <2>4, <2>5
  <2>7. /\ f \in El(stack') /\ \A g \in El(Tail(stack)) : g \in El(stack')
        /\ \A g \in El(stack') : g = f \/ g \in El(Tail(stack)) \/ FrameGood(g, dq', dtc')
    BY <1>6, <1>8
  <2>8. twice' = FALSE /\ stack' \in Seq(FrameType) /\ AllApart(stack')
    BY <1>6, <1>8, <2>3
  <2> QED
    BY <1>5, <1>7, <2>5, <2>6, <2>7, <2>8, CloseGoal
<1>9. CASE dq' = [dq EXCEPT ![q].tc = Nil] /\ stack' = <<SendFrame(q, "fail")>> \o s
            /\ twice' = twice
  <2> DEFINE r == [dq[q] EXCEPT !.tc = Nil]
  <2>1. dq' = [dq EXCEPT ![q] = r]
    BY <1>9
  <2>2. r \in QType /\ r.tc = Nil /\ r.st = dq[q].st /\ r.proto = dq[q].proto /\ r.tmr = dq[q].tmr
    BY <1>4 DEF QType
  <2> HIDE DEF r
  <2>3. dq[q].tc \in TcpConn /\ dq[q].tc # Nil
    BY <1>1, <1>2, CloseFact, NotNil
  <2>4. r.st = "live" /\ r.proto = "tcp" /\ r.tmr
    BY <1>4, <2>2, <2>3 DEF QGood
  <2>5. PICK h : h = SendFrame(q, "fail")
    OBVIOUS
  <2>6. h \in FrameType /\ h.op = "send" /\ h.q = q
    BY <2>5 DEF SendFrame, FrameType
  <2>7. \A g \in El(s) : Apart(h, g)
    <3>1. \A g \in El(Tail(stack)) : g.q # q
      BY <1>1, <1>2, CloseFact, NotNil
    <3> QED
      BY <1>2, <1>6, <2>6, <3>1 DEF Apart
  <2>8. /\ <<h>> \o s \in Seq(FrameType) /\ El(<<h>> \o s) = {h} \cup El(s)
        /\ AllApart(<<h>> \o s) <=> AllApart(s) /\ \A g \in El(s) : Apart(h, g)
    BY <1>6, <2>6, Pushed
  <2>9. stack' = <<h>> \o s
    BY <1>9, <2>5
  <2>10. /\ stack' \in Seq(FrameType) /\ AllApart(stack')
         /\ El(stack') = {h} \cup ({f} \cup El(Tail(stack)))
    BY <1>6, <2>7, <2>8, <2>9
  <2>11. NamedIn(stack', q)
    BY <2>6, <2>10 DEF NamedIn
  <2>12. dq' \in [Query -> QType] /\ dq'[q] = r /\ \A u \in Query : u # q => dq'[u] = dq[u]
    BY <1>4, <2>1, <2>2, OneQuery
  <2>13. dq'[q].tc = Nil /\ QGood(dq'[q], NamedIn(stack', q))
    BY <2>2, <2>4, <2>11, <2>12 DEF QGood
  <2>14. FrameGood(h, dq', dtc')
    BY <2>2, <2>4, <2>6, <2>12 DEF FrameGood
  <2>15. /\ f \in El(stack') /\ \A g \in El(Tail(stack)) : g \in El(stack')
         /\ \A g \in El(stack') : g = f \/ g \in El(Tail(stack)) \/ FrameGood(g, dq', dtc')
    BY <2>10, <2>14
  <2>16. twice' = FALSE /\ stack' \in Seq(FrameType) /\ AllApart(stack')
    BY <1>4, <1>9, <2>10
  <2> QED
    BY <1>5, <1>7, <2>12, <2>13, <2>15, <2>16, CloseGoal
<1>10. LET on == [stack EXCEPT ![1].q = Successor(dtc[c].ql, q)]
       IN IF dq[q].ntx >= srvc THEN End(q, "told") /\ stack' = on
          ELSE /\ dq' = [dq EXCEPT ![q].tc = Nil]
               /\ stack' = <<SendFrame(q, "fail")>> \o on
               /\ twice' = twice
  BY <1>2 DEF CloseStep
<1> QED
  BY <1>6, <1>8, <1>9, <1>10

(* tcpconn_close returns: no query waits, and the connection is freed. *)
LEMMA CloseEndInv ==
  ASSUME DnsInv, CloseEnd
  PROVE  DnsInv'
<1>1. /\ ~Quiet /\ Top.op = "close" /\ Top.q = Nil /\ stack' = Tail(stack)
      /\ dtc' = [dtc EXCEPT ![Top.tc] = Dropped(@)] /\ dq' = dq /\ srvc' = srvc /\ twice' = twice
  BY DEF CloseEnd
<1>2. PICK c \in TcpConn : c = Top.tc
  BY <1>1, CloseFact
<1>3. /\ dtc[c].st = "live" /\ HeadOf(dtc[c].ql) = Nil
      /\ \A g \in El(stack') : g \in El(stack) /\ (g.op = "close" => g.tc # c)
      /\ \A d \in TcpConn : d # c /\ ClosesIn(stack, d) => ClosesIn(stack', d)
  BY <1>1, <1>2, CloseFact
<1>4. \A u \in Query : NamedIn(stack, u) => NamedIn(stack', u)
  BY <1>1, CloseFact, NotNil
<1>5. /\ dtc \in [TcpConn -> TcType] /\ dq \in [Query -> QType] /\ srvc \in 0 .. Servers
      /\ twice = FALSE
  BY DnsTypes DEF DnsInv
<1>6. PICK x \in TcType : x = dtc[c]
  BY <1>5
<1>7. x.ql = <<>> /\ TcGood(x, Waiting(c), ClosesIn(stack, c))
  BY <1>3, <1>6, TcFact, HeadType
<1>8. El(<<>>) = {} /\ NoTwice(<<>>) /\ Len(<<>>) = 0
  BY EmptySeq DEF El, NoTwice
<1>9. x.refs = 1 /\ Waiting(c) = {}
  <2>1. x.st = "live" /\ x.refs = 1 + Len(x.ql) /\ El(x.ql) = Waiting(c)
    BY <1>3, <1>6, <1>7 DEF TcGood
  <2>2. Len(x.ql) = 0
    BY <1>7, <1>8
  <2>3. x.refs = 1
    BY <2>1, <2>2
  <2> QED
    BY <1>7, <1>8, <2>1, <2>3
<1> DEFINE y == [NoTc EXCEPT !.st = "freed"]
<1>10. dtc' = [dtc EXCEPT ![c] = y]
  BY <1>1, <1>2, <1>6, <1>9 DEF Dropped
<1>11. y \in TcType /\ y.st = "freed" /\ y.ql = <<>>
  BY FreedTc
<1> HIDE DEF y
<1>12. /\ dtc' \in [TcpConn -> TcType] /\ dtc'[c] = y
       /\ \A d \in TcpConn : d # c => dtc'[d] = dtc[d]
  BY <1>5, <1>10, <1>11, OneTc
<1>13. \A d \in TcpConn : {u \in Query : dq'[u].tc = d} = Waiting(d)
  BY <1>1 DEF Waiting
<1>14. ASSUME NEW d \in TcpConn
       PROVE  TcGood(dtc'[d], {u \in Query : dq'[u].tc = d}, ClosesIn(stack', d))
  <2>1. CASE d = c
    <3>1. TcGood(y, Waiting(c), ClosesIn(stack', c))
      BY <1>8, <1>9, <1>11 DEF TcGood
    <3> QED
      BY <1>12, <1>13, <2>1, <3>1
  <2>2. CASE d # c
    <3>1. ClosesIn(stack, d) => ClosesIn(stack', d)
      BY <1>3, <2>2
    <3>2. TcGood(dtc[d], Waiting(d), ClosesIn(stack', d))
      BY <3>1, TcFact DEF TcGood
    <3> QED
      BY <1>12, <1>13, <2>2, <3>2
  <2> QED
    BY <2>1, <2>2
<1>15. ASSUME NEW u \in Query PROVE QGood(dq'[u], NamedIn(stack', u))
  <2>1. NamedIn(stack, u) => NamedIn(stack', u)
    BY <1>4
  <2>2. QGood(dq[u], NamedIn(stack', u))
    BY <2>1, QFact DEF QGood
  <2> QED
    BY <1>1, <2>2
<1>16. \A g \in El(stack') : FrameGood(g, dq', dtc')
  <2> SUFFICES ASSUME NEW g \in El(stack') PROVE FrameGood(g, dq', dtc')
    OBVIOUS
  <2>1. CASE g.op = "close"
    <3>1. /\ g.tc \in TcpConn /\ dtc[g.tc].st = "live" /\ ~dtc[g.tc].conn
          /\ g.q = HeadOf(dtc[g.tc].ql)
      BY <1>3, <2>1, FrameFact
    <3>2. dtc'[g.tc] = dtc[g.tc]
      BY <1>3, <1>12, <2>1, <3>1
    <3> QED
      BY <2>1, <3>1, <3>2 DEF FrameGood
  <2>2. CASE g.op = "send"
    <3>1. /\ g.q \in Query /\ dq[g.q].st = "live" /\ dq[g.q].proto = "tcp" /\ dq[g.q].tc = Nil
      BY <1>3, <2>2, FrameFact
    <3> QED
      BY <1>1, <2>2, <3>1 DEF FrameGood
  <2> QED
    BY <1>3, <2>1, <2>2, FrameFact
<1>17. stack' \in Seq(FrameType) /\ AllApart(stack')
  BY <1>1, TopFact
<1> QED
  BY <1>1, <1>5, <1>12, <1>14, <1>15, <1>16, <1>17, DnsGoal

LEMMA DnsStays == ASSUME DnsInv, UNCHANGED dnsVars PROVE DnsInv'
BY DEF DnsInv, dnsVars, DnsTypeOK, TcsFit, QueriesFit, StackFits, Waiting

LEMMA DnsNextInv == DnsInv /\ [DnsNext]_dnsVars => DnsInv'
<1> SUFFICES ASSUME DnsInv, [DnsNext]_dnsVars PROVE DnsInv'
  OBVIOUS
<1>1. CASE \E q \in Query : \/ QueryUdp(q) \/ QueryTcp(q) \/ Cancel(q) \/ UdpTimer(q)
                            \/ TcpTimer(q) \/ ReplyUdp(q)
                            \/ \E c \in TcpConn, bad \in BOOLEAN : ReplyTcp(c, q, bad)
  BY <1>1, UdpInv, QueryTcpInv, CancelInv, TcpTimerInv, ReplyTcpInv
<1>2. CASE \E c \in TcpConn : TcFails(c) \/ TcEstab(c)
  BY <1>2, TcFailsInv, TcEstabInv
<1>3. CASE \E n \in 0 .. Servers : SrvSet(n)
  BY <1>3, SrvSetInv
<1>4. CASE UNCHANGED dnsVars
  BY <1>4, DnsStays
<1> QED
  BY <1>1, <1>2, <1>3, <1>4, SendTcpInv, CloseStepInv, CloseEndInv, DnsCloseInv DEF DnsNext

LEMMA DnsInvSound == DnsInv => DnsSound
<1> SUFFICES ASSUME DnsInv PROVE DnsSound
  OBVIOUS
<1>1. DnsTypeOK /\ ~twice /\ stack \in Seq(FrameType)
  BY DnsTypes DEF DnsInv
<1>2. ASSUME NEW c \in TcpConn
      PROVE  /\ dtc[c].st = "live" => dtc[c].refs = 1 + Cardinality(Waiting(c))
             /\ dtc[c].st # "live" => Waiting(c) = {}
             /\ {dtc[c].ql[i] : i \in 1 .. Len(dtc[c].ql)} = Waiting(c)
             /\ Len(dtc[c].ql) = Cardinality(Waiting(c))
  <2>1. PICK l \in Seq(Query) : l = dtc[c].ql
    BY TcFact
  <2>2. /\ NoTwice(l) /\ El(l) = Waiting(c)
        /\ dtc[c].st = "live" => dtc[c].refs = 1 + Len(l)
        /\ dtc[c].st # "live" => l = <<>>
    BY <2>1, TcFact DEF TcGood
  <2>3. Cardinality(El(l)) = Len(l)
    BY <2>2, ElCount
  <2>4. l = <<>> => El(l) = {}
    BY ElFacts
  <2>5. {l[i] : i \in 1 .. Len(l)} = Waiting(c)
    BY <2>2 DEF El
  <2> QED
    BY <2>1, <2>2, <2>3, <2>4, <2>5
<1>3. ASSUME NEW i \in 1 .. Len(stack)
      PROVE  /\ stack[i].op = "close" => dtc[stack[i].tc].st = "live" /\ ~dtc[stack[i].tc].conn
             /\ stack[i].op = "send" => LiveQ(stack[i].q) /\ dq[stack[i].q].tc = Nil
             /\ stack[i].op = "close" /\ stack[i].q # Nil => dq[stack[i].q].tc = stack[i].tc
  <2>1. PICK f : f = stack[i]
    OBVIOUS
  <2>2. f \in El(stack)
    BY <2>1 DEF El
  <2>3. /\ f.op = "close" => dtc[f.tc].st = "live" /\ ~dtc[f.tc].conn
        /\ f.op = "send" => LiveQ(f.q) /\ dq[f.q].tc = Nil
        /\ f.op = "close" /\ f.q # Nil => dq[f.q].tc = f.tc
    BY <2>2, FrameFact DEF LiveQ
  <2> QED
    BY <2>1, <2>3
<1>4. DnsSafe
  BY <1>1, <1>2, <1>3 DEF DnsSafe
<1>5. ASSUME NEW q \in Query, LiveQ(q), \A i \in 1 .. Len(stack) : stack[i].q # q
      PROVE  /\ dq[q].tmr
             /\ dq[q].proto = "tcp" =>
                  \E c \in TcpConn : /\ dq[q].tc = c /\ dtc[c].st = "live" /\ dtc[c].tmr
                                     /\ Quiet => dtc[c].conn
  <2>1. ~NamedIn(stack, q)
    BY <1>5 DEF NamedIn, El
  <2>2. dq[q].st = "live" /\ dq[q] \in QType /\ QGood(dq[q], NamedIn(stack, q))
    BY <1>5, QFact DEF LiveQ
  <2>3. CASE dq[q].proto = "udp"
    BY <2>2, <2>3 DEF QGood
  <2>4. CASE dq[q].proto = "tcp"
    <3>1. dq[q].tc # Nil /\ dq[q].tmr
      BY <2>1, <2>2, <2>4 DEF QGood
    <3>2. PICK c \in TcpConn : c = dq[q].tc
      BY <2>2, <3>1, QFields
    <3>3. q \in El(dtc[c].ql) /\ TcGood(dtc[c], Waiting(c), ClosesIn(stack, c))
      BY <3>2, TcFact
    <3>4. dtc[c].ql # <<>>
      BY <3>3 DEF El
    <3>5. dtc[c].st = "live" /\ dtc[c].tmr /\ (~dtc[c].conn => ClosesIn(stack, c))
      BY <3>3, <3>4 DEF TcGood
    <3>6. Quiet => dtc[c].conn
      BY <3>5, QuietFact
    <3> QED
      BY <3>1, <3>2, <3>5, <3>6
  <2> QED
    BY <2>2, <2>3, <2>4, QFields
<1>6. QueryWatched
  BY <1>5 DEF QueryWatched
<1> QED
  BY <1>4, <1>6 DEF DnsSound

(* The DNS client (dns/client.c): no handler is called twice; a connection *)
(* has the references of the queries in its list and its own, so that      *)
(* none of the calls of tcpconn_close and send_tcp, nested as deep as they *)
(* may be, works on one that is freed or on a query that has ended; and a  *)
(* query that has not ended has its timer, and over TCP a connection that  *)
(* is not dead, or is in the hands of a call under way.                    *)
THEOREM DnsKept == DnsSpec => []DnsSound
<1>1. DnsInit => DnsInv
  BY DnsInitInv
<1>2. DnsInv /\ [DnsNext]_dnsVars => DnsInv'
  BY DnsNextInv
<1>3. DnsInv => DnsSound
  BY DnsInvSound
<1> QED
  BY <1>1, <1>2, <1>3, PTL DEF DnsSpec

----------------------------------------------------------------------------
(* The connectivity checks of ICE *)

IceRec ==
  [state : {"null", "running", "completed", "failed"},
   tmr : BOOLEAN, role : {"controlling", "controlled"},
   cp : [Cp -> PairRec], sel : [Component -> Cp \cup {NoCp}],
   concluded : [Component -> BOOLEAN], ka : [Component -> BOOLEAN],
   told : {"no", "ok", "fail"}]

(* A selected pair is a valid one of its component, and a concluded        *)
(* component has one and keeps it alive.                                   *)
Chosen(s) == \A c \in Component :
  /\ s.sel[c] # NoCp => s.cp[s.sel[c]].list = "valid" /\ s.cp[s.sel[c]].comp = c
  /\ s.concluded[c] => s.sel[c] # NoCp /\ s.ka[c]

(* A pair that is in a list has a component, and only such a pair has a    *)
(* transaction.                                                            *)
Placed(s) == \A o \in Cp :
  /\ s.cp[o].list # "none" => s.cp[o].comp \in Component
  /\ s.cp[o].ct => s.cp[o].list # "none"

(* The user was told of success when all components had a valid pair; and  *)
(* before the checks start nothing was selected or told.                   *)
ToldRight(s) ==
  /\ s.told = "ok" => Missing(s) = {}
  /\ s.state = "null" => /\ s.told # "ok" /\ \A o \in Cp : s.cp[o].list = "none"
                         /\ \A c \in Component : s.sel[c] = NoCp /\ ~s.concluded[c]

IceGood(s) == s \in IceRec /\ Chosen(s) /\ Placed(s) /\ ToldRight(s)

(* A running check list has its timer or a check under way. *)
Watched(s) == s.state = "running" => s.tmr \/ \E o \in Cp : s.cp[o].ct

(* The inductive invariant of the checks *)
IceInv ==
  /\ IceGood(ice) /\ nom \in Nomination /\ reqs \in 0 .. MaxReq /\ sendfail \in BOOLEAN
  /\ nom = "aggressive" /\ ~sendfail => Watched(ice)

(* The lists of t are those of s. *)
SameLists(s, t) ==
  \A o \in Cp : t.cp[o].list = s.cp[o].list /\ t.cp[o].comp = s.cp[o].comp

(* t is s after checks were sent or given up. *)
Checked(s, t) ==
  /\ t \in IceRec /\ SameLists(s, t)
  /\ \A o \in Cp : /\ s.cp[o].ct => t.cp[o].ct
                   /\ t.cp[o].ct => s.cp[o].ct \/ s.cp[o].list # "none"
  /\ t.sel = s.sel /\ t.concluded = s.concluded /\ t.ka = s.ka /\ t.told = s.told
  /\ t.tmr = s.tmr /\ t.state \in {s.state, "completed"}

(* The pair of the highest priority is one of them. *)
LEMMA FirstIsOne ==
  ASSUME NEW s \in IceRec, NEW set \in SUBSET Cp, set # {}
  PROVE  FirstPair(s, set) \in set
<1>1. \A o \in set : Pprio(s.cp[o]) \in 0 .. 7
  BY DEF Pprio, IceRec, PairRec
<1> DEFINE K == {k \in 0 .. 7 : \E o \in set : Pprio(s.cp[o]) = k}
<1>2. K # {} /\ K \subseteq 0 .. 7
  BY <1>1
<1>3. \E m \in K : \A k \in K : m >= k
  <2> HIDE DEF K
  <2> DEFINE Below(n) == \A k \in K : k <= n
  <2>7. Below(7)
    BY <1>2
  <2>6. 7 \in K \/ Below(6)
    BY <1>2, <2>7
  <2>5. (6 \in K /\ Below(6)) \/ 7 \in K \/ Below(5)
    BY <1>2, <2>6
  <2>4. (\E m \in 5 .. 7 : m \in K /\ Below(m)) \/ Below(4)
    BY <1>2, <2>5, <2>7
  <2>3. (\E m \in 4 .. 7 : m \in K /\ Below(m)) \/ Below(3)
    BY <1>2, <2>4
  <2>2. (\E m \in 3 .. 7 : m \in K /\ Below(m)) \/ Below(2)
    BY <1>2, <2>3
  <2>1. (\E m \in 2 .. 7 : m \in K /\ Below(m)) \/ Below(1)
    BY <1>2, <2>2
  <2>0. (\E m \in 1 .. 7 : m \in K /\ Below(m)) \/ Below(0)
    BY <1>2, <2>1
  <2>8. (\E m \in 1 .. 7 : m \in K /\ Below(m)) \/ (0 \in K /\ Below(0))
    <3>1. PICK k \in K : k \in 0 .. 7
      BY <1>2
    <3>2. Below(0) => k = 0
      BY <3>1
    <3> QED
      BY <2>0, <3>1, <3>2
  <2> QED
    BY <1>2, <2>8
<1>4. \E o \in set : \A q \in set : Pprio(s.cp[o]) >= Pprio(s.cp[q])
  BY <1>1, <1>3
<1> QED
  BY <1>4 DEF FirstPair

(* t is s with another pair in the place of o. *)
OnePair(s, o, p, t) ==
  /\ t \in IceRec /\ t.cp[o] = p /\ \A q \in Cp \ {o} : t.cp[q] = s.cp[q]
  /\ t.sel = s.sel /\ t.concluded = s.concluded /\ t.ka = s.ka
  /\ t.told = s.told /\ t.tmr = s.tmr /\ t.state = s.state

LEMMA PairSet ==
  \A s \in IceRec, o \in Cp, p \in PairRec :
    OnePair(s, o, p, [s EXCEPT !.cp = [s.cp EXCEPT ![o] = p]])
BY DEF IceRec, OnePair

LEMMA SetStateOne ==
  ASSUME NEW s \in IceRec, NEW o \in Cp,
         NEW st \in {"frozen", "waiting", "inprogress", "succeeded", "failed"}
  PROVE  \E p \in PairRec :
           /\ p.list = s.cp[o].list /\ p.comp = s.cp[o].comp /\ p.ct = s.cp[o].ct
           /\ p.l = s.cp[o].l /\ p.r = s.cp[o].r
           /\ OnePair(s, o, p, SetState(s, o, st))
<1> DEFINE p == [s.cp[o] EXCEPT !.state = st]
<1>1. s.cp[o] \in PairRec
  BY DEF IceRec
<1>2. /\ p \in PairRec /\ p.list = s.cp[o].list /\ p.comp = s.cp[o].comp
      /\ p.ct = s.cp[o].ct /\ p.l = s.cp[o].l /\ p.r = s.cp[o].r
  BY <1>1 DEF PairRec
<1>3. SetState(s, o, st) = [s EXCEPT !.cp = [s.cp EXCEPT ![o] = p]]
  BY DEF SetState
<1> HIDE DEF p
<1>4. OnePair(s, o, p, [s EXCEPT !.cp = [s.cp EXCEPT ![o] = p]])
  BY <1>2, PairSet
<1>5. OnePair(s, o, p, SetState(s, o, st))
  BY <1>3, <1>4, Zenon
<1> QED
  BY <1>2, <1>5

LEMMA SetStateChecked ==
  ASSUME NEW s \in IceRec, NEW o \in Cp,
         NEW st \in {"frozen", "waiting", "inprogress", "succeeded", "failed"}
  PROVE  Checked(s, SetState(s, o, st))
<1> DEFINE t == SetState(s, o, st)
<1>1. PICK p \in PairRec : /\ p.list = s.cp[o].list /\ p.comp = s.cp[o].comp
                           /\ p.ct = s.cp[o].ct /\ OnePair(s, o, p, t)
  BY SetStateOne
<1> HIDE DEF t
<1>2. \A q \in Cp : /\ t.cp[q].list = s.cp[q].list /\ t.cp[q].comp = s.cp[q].comp
                    /\ t.cp[q].ct = s.cp[q].ct
  BY <1>1 DEF OnePair
<1>3. Checked(s, t)
  BY <1>1, <1>2 DEF Checked, SameLists, OnePair
<1> QED
  BY <1>3 DEF t

(* icem_conncheck_send *)
LEMMA SendChecked ==
  ASSUME NEW s \in IceRec, NEW o \in Cp, NEW fail \in BOOLEAN, s.cp[o].list # "none"
  PROVE  /\ Checked(s, IceSend(s, o, fail)) /\ IceSend(s, o, fail).state = s.state
         /\ fail \/ IceSend(s, o, fail).cp[o].ct
<1> DEFINE p == [s.cp[o] EXCEPT !.state = "inprogress", !.ct = @ \/ ~fail]
           t == IceSend(s, o, fail)
<1>1. s.cp[o] \in PairRec
  BY DEF IceRec
<1>2. /\ p \in PairRec /\ p.list = s.cp[o].list /\ p.comp = s.cp[o].comp
      /\ p.ct = (s.cp[o].ct \/ ~fail)
  BY <1>1 DEF PairRec
<1>3. t = [s EXCEPT !.cp = [s.cp EXCEPT ![o] = p]]
  BY <1>1 DEF IceSend, IceRec, PairRec
<1> HIDE DEF p, t
<1>4. OnePair(s, o, p, t)
  <2>1. OnePair(s, o, p, [s EXCEPT !.cp = [s.cp EXCEPT ![o] = p]])
    BY <1>2, PairSet
  <2> QED
    BY <1>3, <2>1, Zenon
<1>5. SameLists(s, t)
  BY <1>2, <1>4 DEF SameLists, OnePair
<1>6. \A q \in Cp : /\ s.cp[q].ct => t.cp[q].ct
                    /\ t.cp[q].ct => s.cp[q].ct \/ s.cp[q].list # "none"
  BY <1>2, <1>4 DEF OnePair
<1>7. Checked(s, t) /\ t.state = s.state /\ (fail \/ t.cp[o].ct)
  BY <1>2, <1>4, <1>5, <1>6 DEF Checked, OnePair
<1> QED
  BY <1>7 DEF t

LEMMA CheckedTrans ==
  ASSUME NEW s, NEW t, NEW u, Checked(s, t), Checked(t, u)
  PROVE  Checked(s, u)
BY DEF Checked, SameLists

(* do_check *)
LEMMA DoCheckChecked ==
  ASSUME NEW s \in IceRec, NEW o \in Cp, NEW fail \in BOOLEAN, s.cp[o].list # "none"
  PROVE  /\ Checked(s, DoCheck(s, o, fail))
         /\ fail \/ DoCheck(s, o, fail).cp[o].ct
<1> DEFINE t == IceSend(s, o, fail)
<1>1. Checked(s, t) /\ (fail \/ t.cp[o].ct) /\ t \in IceRec
  BY SendChecked DEF Checked
<1> HIDE DEF t
<1>2. Checked(t, SetState(t, o, "failed"))
  BY <1>1, SetStateChecked
<1>3. Checked(s, SetState(t, o, "failed"))
  BY <1>1, <1>2, CheckedTrans
<1>4. fail \/ SetState(t, o, "failed").cp[o].ct
  BY <1>1, <1>2 DEF Checked
<1>5. DoCheck(s, o, fail) \in {SetState(t, o, "failed"), t}
  BY DEF DoCheck, t
<1> QED
  BY <1>1, <1>3, <1>4, <1>5

(* icem_conncheck_schedule_check: a check is under way afterwards, or all  *)
(* are over.                                                               *)
LEMMA ScheduleChecked ==
  ASSUME NEW s \in IceRec, NEW fail \in BOOLEAN
  PROVE  /\ Checked(s, ScheduleCheck(s, fail))
         /\ \/ fail \/ ScheduleCheck(s, fail).state = "completed"
            \/ \E o \in Cp : ScheduleCheck(s, fail).cp[o].ct
<1> DEFINE waiting == InState(s, CheckL(s), "waiting")
           frozen == InState(s, CheckL(s), "frozen")
           done == [s EXCEPT !.state = "completed"]
<1>1. /\ waiting \subseteq Cp /\ frozen \subseteq Cp
      /\ \A o \in waiting \cup frozen : s.cp[o].list # "none"
  BY DEF InState, CheckL
<1>2. Checked(s, done) /\ done.state = "completed"
  BY DEF Checked, SameLists, IceRec
<1>3. /\ waiting # {} => FirstPair(s, waiting) \in waiting
      /\ frozen # {} => FirstPair(s, frozen) \in frozen
  BY <1>1, FirstIsOne
<1>4. ScheduleCheck(s, fail) = IF waiting # {} THEN DoCheck(s, FirstPair(s, waiting), fail)
        ELSE IF frozen # {} THEN DoCheck(s, FirstPair(s, frozen), fail) ELSE done
  BY DEF ScheduleCheck
<1> HIDE DEF waiting, frozen, done
<1>5. CASE waiting # {}
  BY <1>1, <1>3, <1>4, <1>5, DoCheckChecked
<1>6. CASE waiting = {} /\ frozen # {}
  BY <1>1, <1>3, <1>4, <1>6, DoCheckChecked
<1>7. CASE waiting = {} /\ frozen = {}
  BY <1>2, <1>4, <1>7
<1> QED
  BY <1>5, <1>6, <1>7

(* t is s after more than checks: a pair stays in a list, a valid one in   *)
(* that of the valid ones.                                                 *)
Moved(s, t) ==
  /\ t \in IceRec /\ Placed(t)
  /\ \A o \in Cp : s.cp[o].list # "none" =>
       /\ t.cp[o].list # "none" /\ t.cp[o].comp = s.cp[o].comp
       /\ s.cp[o].list = "valid" => t.cp[o].list = "valid"
  /\ t.sel = s.sel /\ t.concluded = s.concluded /\ t.ka = s.ka /\ t.told = s.told
  /\ t.state \in {s.state, "completed"}

(* No check of s is stopped in t. *)
Watching(s, t) ==
  /\ t.tmr = s.tmr /\ t.state = s.state
  /\ \A o \in Cp : s.cp[o].ct => t.cp[o].ct

Started(s) == IceGood(s) /\ s.state # "null"

LEMMA CheckedMoved ==
  ASSUME NEW s, NEW t, Placed(s), Checked(s, t)
  PROVE  Moved(s, t)
<1>1. SameLists(s, t) /\ t \in IceRec
  BY DEF Checked
<1>2. Placed(t)
  BY <1>1 DEF Placed, Checked, SameLists
<1> QED
  BY <1>1, <1>2 DEF Moved, Checked, SameLists

LEMMA MovedTrans ==
  ASSUME NEW s, NEW t, NEW u, Moved(s, t), Moved(t, u)
  PROVE  Moved(s, u)
BY DEF Moved

(* A component that has a valid pair keeps it. *)
LEMMA MissingKept ==
  ASSUME NEW s, NEW t, \A o \in Cp : s.cp[o].list = "valid" =>
           t.cp[o].list = "valid" /\ t.cp[o].comp = s.cp[o].comp
  PROVE  Missing(t) \subseteq Missing(s)
BY DEF Missing, OfComp, ValidL

LEMMA MovedGood ==
  ASSUME NEW s, NEW t, Started(s), Moved(s, t)
  PROVE  Started(t)
<1>1. t \in IceRec /\ Placed(t) /\ t.state # "null" /\ s \in IceRec
  BY DEF Started, IceGood, Moved
<1>2. Chosen(t)
  <2> SUFFICES ASSUME NEW c \in Component
               PROVE  /\ t.sel[c] # NoCp => t.cp[t.sel[c]].list = "valid"
                                            /\ t.cp[t.sel[c]].comp = c
                      /\ t.concluded[c] => t.sel[c] # NoCp /\ t.ka[c]
    BY DEF Chosen
  <2>1. s.sel[c] \in Cp \cup {NoCp}
    BY <1>1 DEF IceRec
  <2>2. /\ s.sel[c] # NoCp => s.cp[s.sel[c]].list = "valid" /\ s.cp[s.sel[c]].comp = c
        /\ s.concluded[c] => s.sel[c] # NoCp /\ s.ka[c]
    BY DEF Started, IceGood, Chosen
  <2> QED
    BY <2>1, <2>2 DEF Moved
<1>3. ToldRight(t)
  <2>1. Missing(t) \subseteq Missing(s)
    BY MissingKept DEF Moved
  <2> QED
    BY <1>1, <2>1 DEF ToldRight, Moved, Started, IceGood
<1> QED
  BY <1>1, <1>2, <1>3 DEF Started, IceGood

LEMMA SameListsMissing ==
  ASSUME NEW s, NEW t, SameLists(s, t)
  PROVE  Missing(t) = Missing(s)
BY DEF SameLists, Missing, OfComp, ValidL

(* concluding_ice and icem_comp_keepalive: the component that concludes    *)
(* has a selected pair that is kept alive.                                 *)
LEMMA ConcludeGood ==
  ASSUME NEW s, NEW c \in Component, NEW fail \in BOOLEAN, Started(s)
  PROVE  Started(Conclude(s, c, fail)) /\ SameLists(s, Conclude(s, c, fail))
<1> DEFINE best == InState(s, OfComp(s, ValidL(s), c), "succeeded")
           b == FirstPair(s, best)
           selected == [s EXCEPT !.sel[c] = b]
           x == IF nom = "regular" THEN ScheduleCheck(IceSend(selected, b, fail), fail)
                ELSE selected
           done == IF s.concluded[c] \/ best = {} THEN s
                   ELSE [x EXCEPT !.concluded[c] = TRUE]
           t == IF done.sel[c] = NoCp THEN done ELSE [done EXCEPT !.ka[c] = TRUE]
<1>0. Conclude(s, c, fail) = t
  BY DEF Conclude
<1>1. s \in IceRec /\ Chosen(s) /\ Placed(s) /\ ToldRight(s) /\ s.state # "null"
  BY DEF Started, IceGood
<1>2. best \subseteq Cp /\ \A o \in best : s.cp[o].list = "valid" /\ s.cp[o].comp = c
  BY DEF InState, OfComp, ValidL
<1>3. CASE s.concluded[c] \/ best = {}
  <2>1. done = s
    BY <1>3
  <2>2. CASE s.sel[c] = NoCp
    BY <1>0, <2>1, <2>2 DEF SameLists
  <2>3. CASE s.sel[c] # NoCp
    <3> DEFINE u == [s EXCEPT !.ka[c] = TRUE]
    <3>1. t = u
      <4> HIDE DEF done
      <4> QED
        BY <2>1, <2>3, Zenon
    <3>2. /\ u \in IceRec /\ u.cp = s.cp /\ u.sel = s.sel /\ u.concluded = s.concluded
          /\ u.told = s.told /\ u.state = s.state
          /\ \A d \in Component : s.ka[d] => u.ka[d]
      BY <1>1 DEF IceRec
    <3> HIDE DEF u
    <3>3. Chosen(u) /\ Placed(u) /\ SameLists(s, u)
      BY <1>1, <3>2 DEF Chosen, Placed, SameLists
    <3>4. Missing(u) = Missing(s)
      BY <3>3, SameListsMissing
    <3>5. ToldRight(u)
      BY <1>1, <3>2, <3>4 DEF ToldRight
    <3>6. Started(u)
      BY <1>1, <3>2, <3>3, <3>5 DEF Started, IceGood
    <3> HIDE DEF t
    <3> QED
      BY <1>0, <3>1, <3>3, <3>6
  <2> QED
    BY <2>2, <2>3
<1>4. CASE ~s.concluded[c] /\ best # {}
  <2>1. b \in best /\ b \in Cp /\ b # NoCp /\ s.cp[b].list = "valid" /\ s.cp[b].comp = c
    BY <1>1, <1>2, <1>4, FirstIsOne, IceAssumption DEF NoCp
  <2> HIDE DEF best, b
  <2>2. /\ selected \in IceRec /\ selected.cp = s.cp /\ selected.sel[c] = b
        /\ \A d \in Component \ {c} : selected.sel[d] = s.sel[d]
        /\ selected.concluded = s.concluded /\ selected.ka = s.ka
        /\ selected.told = s.told /\ selected.state = s.state
    BY <1>1, <2>1 DEF IceRec
  <2> HIDE DEF selected
  <2>3. Checked(selected, x)
    <3>1. CASE nom = "regular"
      <4>1. Checked(selected, IceSend(selected, b, fail))
        BY <2>1, <2>2, SendChecked
      <4>2. IceSend(selected, b, fail) \in IceRec
        BY <4>1 DEF Checked
      <4>3. Checked(IceSend(selected, b, fail), ScheduleCheck(IceSend(selected, b, fail), fail))
        BY <4>2, ScheduleChecked
      <4>4. Checked(selected, ScheduleCheck(IceSend(selected, b, fail), fail))
        BY <4>1, <4>3, CheckedTrans
      <4> QED
        BY <3>1, <4>4
    <3>2. CASE nom # "regular"
      BY <2>2, <3>2 DEF Checked, SameLists
    <3> QED
      BY <3>1, <3>2
  <2> HIDE DEF x
  <2> DEFINE y == [x EXCEPT !.concluded = [x.concluded EXCEPT ![c] = TRUE],
                            !.ka = [x.ka EXCEPT ![c] = TRUE]]
  <2>4. x \in IceRec /\ x.sel = selected.sel
    BY <2>3 DEF Checked
  <2>5. t = y
    <3>1. done = [x EXCEPT !.concluded[c] = TRUE]
      BY <1>4
    <3>2. done.sel[c] = b /\ done.ka = x.ka
      BY <2>2, <2>4, <3>1 DEF IceRec
    <3>3. t = [done EXCEPT !.ka[c] = TRUE]
      BY <2>1, <3>2
    <3> HIDE DEF t, done
    <3> QED
      BY <2>4, <3>1, <3>3 DEF IceRec
  <2>6. /\ y \in IceRec /\ y.cp = x.cp /\ y.sel = selected.sel /\ y.told = s.told
        /\ y.concluded[c] /\ y.ka[c] /\ y.state \in {s.state, "completed"}
        /\ \A d \in Component \ {c} : /\ y.concluded[d] = s.concluded[d]
                                      /\ y.ka[d] = s.ka[d]
    BY <2>2, <2>3, <2>4 DEF IceRec, Checked
  <2> HIDE DEF y, t
  <2>7. SameLists(s, y)
    BY <2>2, <2>3, <2>6 DEF Checked, SameLists
  <2>8. Placed(y)
    BY <1>1, <2>2, <2>3, <2>6, <2>7 DEF Placed, Checked, SameLists
  <2>9. Chosen(y)
    <3>1. ASSUME NEW d \in Component
          PROVE  y.sel[d] # NoCp => s.cp[y.sel[d]].list = "valid" /\ s.cp[y.sel[d]].comp = d
      BY <1>1, <2>1, <2>2, <2>6 DEF Chosen
    <3>2. ASSUME NEW d \in Component
          PROVE  y.sel[d] \in Cp \cup {NoCp}
      BY <2>6 DEF IceRec
    <3>3. ASSUME NEW d \in Component
          PROVE  y.concluded[d] => y.sel[d] # NoCp /\ y.ka[d]
      BY <1>1, <2>1, <2>2, <2>6 DEF Chosen
    <3> QED
      BY <2>7, <3>1, <3>2, <3>3 DEF Chosen, SameLists
  <2>10. Missing(y) = Missing(s)
    BY <2>7, SameListsMissing
  <2>11. ToldRight(y) /\ y.state # "null"
    BY <1>1, <2>6, <2>10 DEF ToldRight
  <2>12. Started(y)
    BY <2>6, <2>8, <2>9, <2>11 DEF Started, IceGood
  <2> QED
    BY <1>0, <2>5, <2>7, <2>12
<1> QED
  BY <1>3, <1>4

LEMMA ConcludesGood ==
  ASSUME NEW s, NEW c, NEW fail \in BOOLEAN, Started(s)
  PROVE  Started(Concludes(s, c, fail)) /\ SameLists(s, Concludes(s, c, fail))
BY ConcludeGood DEF Concludes, SameLists

(* icem_checklist_update: the user is told what the lists say. *)
LEMMA UpdateGood ==
  ASSUME NEW s, NEW fail \in BOOLEAN, Started(s)
  PROVE  /\ Started(Update(s, fail))
         /\ Update(s, fail) = s \/ Update(s, fail).state # "running"
<1> DEFINE t == Concludes(s, 1, fail)
           u == Concludes(t, 2, fail)
           v == [u EXCEPT !.state = IF Missing(s) # {} THEN "failed" ELSE "completed",
                          !.told = IF Missing(s) # {} THEN "fail" ELSE "ok"]
<1>1. Started(t) /\ SameLists(s, t)
  BY ConcludesGood
<1>2. Started(u) /\ SameLists(t, u)
  BY <1>1, ConcludesGood
<1>3. Update(s, fail) = IF ~IsCompleted(s) THEN s ELSE v
  BY DEF Update
<1> HIDE DEF t, u
<1>4. Missing(u) = Missing(s)
  BY <1>1, <1>2, SameListsMissing
<1>5. u \in IceRec
  BY <1>2 DEF Started, IceGood
<1>6. /\ v \in IceRec /\ v.cp = u.cp /\ v.sel = u.sel /\ v.ka = u.ka
      /\ v.concluded = u.concluded /\ v.state \in {"failed", "completed"}
      /\ v.told = "ok" => Missing(s) = {}
  BY <1>5 DEF IceRec
<1> HIDE DEF v
<1>7. Chosen(v) /\ Placed(v) /\ SameLists(u, v)
  BY <1>2, <1>6 DEF Started, IceGood, Chosen, Placed, SameLists
<1>8. Missing(v) = Missing(u)
  BY <1>7, SameListsMissing
<1>9. ToldRight(v)
  BY <1>4, <1>6, <1>8 DEF ToldRight
<1>10. Started(v)
  BY <1>6, <1>7, <1>9 DEF Started, IceGood
<1> QED
  BY <1>3, <1>6, <1>10

(* pace_next: a list that still runs has a check under way. *)
LEMMA PaceNextGood ==
  ASSUME NEW s, NEW fail \in BOOLEAN, IceGood(s)
  PROVE  IceGood(PaceNext(s, fail)) /\ (fail \/ Watched(PaceNext(s, fail)))
<1>1. CASE s.state # "running"
  BY <1>1 DEF PaceNext, Watched
<1>2. CASE s.state = "running"
  <2> DEFINE t == ScheduleCheck(s, fail)
  <2>1. s \in IceRec /\ Placed(s) /\ Started(s)
    BY <1>2 DEF IceGood, Started
  <2>2. Checked(s, t) /\ (fail \/ t.state = "completed" \/ \E o \in Cp : t.cp[o].ct)
    BY <2>1, ScheduleChecked
  <2>3. PaceNext(s, fail) = Update(t, fail)
    BY <1>2 DEF PaceNext
  <2> HIDE DEF t
  <2>4. Started(t)
    BY <2>1, <2>2, CheckedMoved, MovedGood
  <2>5. Started(Update(t, fail)) /\ (Update(t, fail) = t \/ Update(t, fail).state # "running")
    BY <2>4, UpdateGood
  <2> QED
    BY <2>2, <2>3, <2>5 DEF Watched, Started
<1> QED
  BY <1>1, <1>2

(* icem_conncheck_stop and the update after it *)
LEMMA StopGood ==
  ASSUME NEW s, NEW fail \in BOOLEAN, Started(s)
  PROVE  Started(Stop(s, fail))
<1> DEFINE q(o) == IF o \notin CheckL(s) THEN s.cp[o]
                   ELSE [s.cp[o] EXCEPT !.ct = FALSE,
                           !.state = IF @ = "succeeded" THEN @ ELSE "failed"]
           t == [s EXCEPT !.state = "completed", !.tmr = FALSE,
                          !.cp = [o \in Cp |-> q(o)]]
<1>1. s \in IceRec /\ Placed(s) /\ Stop(s, fail) = Update(t, fail)
  BY DEF Started, IceGood, Stop
<1>2. \A o \in Cp : /\ q(o) \in PairRec /\ q(o).list = s.cp[o].list
                    /\ q(o).comp = s.cp[o].comp /\ (q(o).ct => s.cp[o].ct)
  <2> SUFFICES ASSUME NEW o \in Cp
               PROVE  /\ q(o) \in PairRec /\ q(o).list = s.cp[o].list
                      /\ q(o).comp = s.cp[o].comp /\ (q(o).ct => s.cp[o].ct)
    OBVIOUS
  <2>1. s.cp[o] \in PairRec
    BY <1>1 DEF IceRec
  <2> QED
    BY <2>1 DEF PairRec
<1> HIDE DEF q
<1>3. /\ t \in IceRec /\ \A o \in Cp : t.cp[o] = q(o)
      /\ t.sel = s.sel /\ t.concluded = s.concluded /\ t.ka = s.ka /\ t.told = s.told
      /\ t.state = "completed"
  BY <1>1, <1>2 DEF IceRec
<1> HIDE DEF t
<1>4. Moved(s, t)
  BY <1>1, <1>2, <1>3 DEF Moved, Placed
<1>5. Started(t)
  BY <1>4, MovedGood
<1> QED
  BY <1>1, <1>5, UpdateGood

(* A placed pair takes a state and, maybe, its place in the valid list. *)
LEMMA OnePairMoved ==
  ASSUME NEW s, NEW o \in Cp, NEW p \in PairRec, NEW t, Placed(s),
         OnePair(s, o, p, t), p.list # "none", p.comp \in Component,
         s.cp[o].list = "valid" => p.list = "valid",
         s.cp[o].list # "none" => p.comp = s.cp[o].comp
  PROVE  Moved(s, t)
<1>1. Placed(t)
  BY DEF Placed, OnePair
<1> QED
  BY <1>1 DEF Moved, OnePair

(* icem_candpair_make_valid *)
LEMMA MakeValidMoved ==
  ASSUME NEW s \in IceRec, NEW o \in Cp, Placed(s), s.cp[o].list # "none"
  PROVE  /\ Moved(s, MakeValid(s, o)) /\ Watching(s, MakeValid(s, o))
         /\ MakeValid(s, o).cp[o].list = "valid"
         /\ MakeValid(s, o).cp[o].comp = s.cp[o].comp
<1> DEFINE p == [s.cp[o] EXCEPT !.state = "succeeded", !.list = "valid"]
           t == MakeValid(s, o)
<1>1. s.cp[o] \in PairRec
  BY DEF IceRec
<1>2. /\ p \in PairRec /\ p.list = "valid" /\ p.comp = s.cp[o].comp
      /\ p.ct = s.cp[o].ct
  BY <1>1 DEF PairRec
<1>3. t = [s EXCEPT !.cp = [s.cp EXCEPT ![o] = p]]
  BY <1>1 DEF MakeValid, IceRec, PairRec
<1> HIDE DEF p, t
<1>4. OnePair(s, o, p, t)
  <2>1. OnePair(s, o, p, [s EXCEPT !.cp = [s.cp EXCEPT ![o] = p]])
    BY <1>2, PairSet
  <2> QED
    BY <1>3, <2>1, Zenon
<1>5. p.comp \in Component
  BY <1>2 DEF Placed
<1>6. Moved(s, t)
  BY <1>2, <1>4, <1>5, OnePairMoved
<1>7. /\ Moved(s, t) /\ Watching(s, t)
      /\ t.cp[o].list = "valid" /\ t.cp[o].comp = s.cp[o].comp
  BY <1>2, <1>4, <1>6 DEF OnePair, Watching
<1> QED
  BY <1>7 DEF t

(* icem_candpair_alloc, icem_candpair_clone: of an object that is free *)
LEMMA AllocMoved ==
  ASSUME NEW s \in IceRec, NEW o \in Cp, Placed(s), s.cp[o].list = "none",
         NEW list \in {"check", "valid"}, NEW c \in Component,
         NEW l \in {"h", "x"}, NEW r \in {"r", "p"},
         NEW st \in {"waiting", "succeeded"}
  PROVE  /\ Moved(s, Alloc(s, o, list, c, l, r, st))
         /\ Watching(s, Alloc(s, o, list, c, l, r, st))
         /\ \A q \in Cp \ {o} : Alloc(s, o, list, c, l, r, st).cp[q] = s.cp[q]
         /\ Alloc(s, o, list, c, l, r, st).cp[o].list = list
         /\ Alloc(s, o, list, c, l, r, st).cp[o].comp = c
<1> DEFINE p == [list |-> list, comp |-> c, l |-> l, r |-> r, state |-> st, ct |-> FALSE]
           t == Alloc(s, o, list, c, l, r, st)
<1>1. p \in PairRec /\ p.list = list /\ p.comp = c /\ p.ct = FALSE
  BY DEF PairRec
<1>2. t = [s EXCEPT !.cp = [s.cp EXCEPT ![o] = p]]
  BY DEF Alloc
<1> HIDE DEF p, t
<1>3. OnePair(s, o, p, t)
  <2>1. OnePair(s, o, p, [s EXCEPT !.cp = [s.cp EXCEPT ![o] = p]])
    BY <1>1, PairSet
  <2> QED
    BY <1>2, <2>1, Zenon
<1>4. Moved(s, t)
  BY <1>1, <1>3, OnePairMoved
<1>5. ~s.cp[o].ct
  BY DEF Placed
<1>6. /\ Moved(s, t) /\ Watching(s, t) /\ \A q \in Cp \ {o} : t.cp[q] = s.cp[q]
      /\ t.cp[o].list = list /\ t.cp[o].comp = c
  BY <1>1, <1>3, <1>4, <1>5 DEF OnePair, Watching
<1> QED
  BY <1>6 DEF t

(* construct_valid_pair: of the component of the pair *)
LEMMA ValidPairMoved ==
  ASSUME NEW s \in IceRec, NEW o \in Cp, NEW mapped \in {"h", "x"}, Placed(s),
         s.cp[o].list # "none", mapped # s.cp[o].l => Free(s) # {}
  PROVE  LET v == ValidPair(s, o, mapped)
         IN /\ v.o \in Cp /\ Moved(s, v.s)
            /\ v.s.cp[v.o].list # "none" /\ v.s.cp[v.o].comp = s.cp[o].comp
<1> DEFINE p == s.cp[o]
           same == {q \in OfComp(s, ValidL(s), p.comp) :
                      s.cp[q].l = mapped /\ s.cp[q].r = p.r}
           n == CHOOSE q \in Free(s) : TRUE
           a == Alloc(s, n, "valid", p.comp, mapped, p.r, "succeeded")
           v == ValidPair(s, o, mapped)
<1>1. v = IF mapped = p.l THEN [s |-> MakeValid(s, o), o |-> o]
          ELSE IF same # {} THEN [s |-> s, o |-> FirstPair(s, same)]
          ELSE [s |-> SetState(a, o, "failed"), o |-> n]
  BY DEF ValidPair
<1>2. p \in PairRec /\ p.comp \in Component
  BY DEF IceRec, Placed
<1>3. CASE mapped = p.l
  <2>1. v.s = MakeValid(s, o) /\ v.o = o
    BY <1>1, <1>3
  <2> HIDE DEF v
  <2>2. /\ Moved(s, MakeValid(s, o)) /\ MakeValid(s, o).cp[o].list = "valid"
        /\ MakeValid(s, o).cp[o].comp = s.cp[o].comp
    BY MakeValidMoved
  <2>3. /\ v.o \in Cp /\ Moved(s, v.s)
        /\ v.s.cp[v.o].list # "none" /\ v.s.cp[v.o].comp = s.cp[o].comp
    BY <2>1, <2>2
  <2> QED
    BY <2>3 DEF v
<1>4. CASE mapped # p.l /\ same # {}
  <2>1. v.s = s /\ v.o = FirstPair(s, same)
    BY <1>1, <1>4
  <2>2. same \subseteq Cp /\ \A q \in same : s.cp[q].list = "valid" /\ s.cp[q].comp = p.comp
    BY DEF OfComp, ValidL
  <2> HIDE DEF v, same
  <2>3. FirstPair(s, same) \in same
    BY <1>4, <2>2, FirstIsOne
  <2>4. Moved(s, s)
    BY DEF Moved
  <2>5. /\ v.o \in Cp /\ Moved(s, v.s)
        /\ v.s.cp[v.o].list # "none" /\ v.s.cp[v.o].comp = s.cp[o].comp
    BY <2>1, <2>2, <2>3, <2>4
  <2> QED
    BY <2>5 DEF v
<1>5. CASE mapped # p.l /\ same = {}
  <2>1. v.s = SetState(a, o, "failed") /\ v.o = n
    BY <1>1, <1>5
  <2>2. n \in Cp /\ s.cp[n].list = "none" /\ n # o
    <3>1. n \in Free(s)
      BY <1>5
    <3> QED
      BY <3>1 DEF Free
  <2>3. p.r \in {"r", "p"}
    BY <1>2 DEF PairRec
  <2> HIDE DEF v, n, same
  <2>4. /\ Moved(s, a) /\ a.cp[n].list = "valid" /\ a.cp[n].comp = p.comp
        /\ a.cp[o] = s.cp[o]
    <3> HIDE DEF p, a
    <3>1. /\ Moved(s, Alloc(s, n, "valid", p.comp, mapped, p.r, "succeeded"))
          /\ Alloc(s, n, "valid", p.comp, mapped, p.r, "succeeded").cp[n].list = "valid"
          /\ Alloc(s, n, "valid", p.comp, mapped, p.r, "succeeded").cp[n].comp = p.comp
          /\ \A q \in Cp \ {n} :
               Alloc(s, n, "valid", p.comp, mapped, p.r, "succeeded").cp[q] = s.cp[q]
      BY <1>2, <2>2, <2>3, AllocMoved
    <3> QED
      BY <2>2, <3>1 DEF a
  <2> HIDE DEF a
  <2>5. Checked(a, SetState(a, o, "failed")) /\ Placed(a)
    BY <2>4, SetStateChecked DEF Moved
  <2>6. Moved(s, SetState(a, o, "failed"))
    BY <2>4, <2>5, CheckedMoved, MovedTrans
  <2>7. /\ v.o \in Cp /\ Moved(s, v.s)
        /\ v.s.cp[v.o].list # "none" /\ v.s.cp[v.o].comp = s.cp[o].comp
    BY <2>1, <2>2, <2>4, <2>5, <2>6 DEF Checked, SameLists
  <2> QED
    BY <2>7 DEF v
<1> QED
  BY <1>3, <1>4, <1>5

(* A valid pair of a component becomes its selected one. *)
LEMMA SelectGood ==
  ASSUME NEW s, NEW c \in Component, NEW o \in Cp, Started(s),
         s.cp[o].list = "valid", s.cp[o].comp = c
  PROVE  Started([s EXCEPT !.sel[c] = o])
<1> DEFINE t == [s EXCEPT !.sel[c] = o]
<1>1. s \in IceRec /\ Chosen(s) /\ Placed(s) /\ ToldRight(s) /\ s.state # "null"
  BY DEF Started, IceGood
<1>2. o # NoCp
  BY IceAssumption DEF NoCp
<1>3. /\ t \in IceRec /\ t.cp = s.cp /\ t.sel[c] = o /\ t.told = s.told
      /\ \A d \in Component \ {c} : t.sel[d] = s.sel[d]
      /\ t.concluded = s.concluded /\ t.ka = s.ka /\ t.state = s.state
  BY <1>1 DEF IceRec
<1> HIDE DEF t
<1>4. Chosen(t)
  BY <1>1, <1>2, <1>3 DEF Chosen
<1>5. Placed(t) /\ SameLists(s, t)
  BY <1>1, <1>3 DEF Placed, SameLists
<1>6. Missing(t) = Missing(s)
  BY <1>5, SameListsMissing
<1>7. ToldRight(t)
  BY <1>1, <1>3, <1>6 DEF ToldRight
<1>8. Started(t)
  BY <1>1, <1>3, <1>4, <1>5, <1>7 DEF Started, IceGood
<1> QED
  BY <1>8 DEF t

(* handle_success *)
LEMMA HandleSuccessGood ==
  ASSUME NEW s, NEW o \in Cp, NEW mapped \in {"h", "x"}, NEW fail \in BOOLEAN,
         Started(s), s.cp[o].list # "none", mapped # s.cp[o].l => Free(s) # {}
  PROVE  Started(HandleSuccess(s, o, mapped, fail))
<1> DEFINE v == ValidPair(s, o, mapped)
           m == MakeValid(v.s, v.o)
<1>1. s \in IceRec /\ Placed(s) /\ s.cp[o].comp \in Component
  BY DEF Started, IceGood, Placed
<1>2. /\ v.o \in Cp /\ Moved(s, v.s)
      /\ v.s.cp[v.o].list # "none" /\ v.s.cp[v.o].comp = s.cp[o].comp
  BY <1>1, ValidPairMoved
<1>3. HandleSuccess(s, o, mapped, fail) = Stop([m EXCEPT !.sel[s.cp[o].comp] = v.o], fail)
  BY DEF HandleSuccess
<1> HIDE DEF v
<1>4. v.s \in IceRec /\ Placed(v.s)
  BY <1>2 DEF Moved
<1>5. Moved(v.s, m) /\ m.cp[v.o].list = "valid" /\ m.cp[v.o].comp = s.cp[o].comp
  BY <1>2, <1>4, MakeValidMoved
<1> HIDE DEF m
<1>6. Started(m)
  BY <1>2, <1>5, MovedTrans, MovedGood
<1>7. Started([m EXCEPT !.sel[s.cp[o].comp] = v.o])
  BY <1>1, <1>2, <1>5, <1>6, SelectGood
<1> QED
  BY <1>3, <1>7, StopGood

(* triggered_check: no check is stopped. *)
LEMMA TriggeredMoved ==
  ASSUME NEW s \in IceRec, NEW c \in Component, NEW l \in {"h", "x", "nil"},
         NEW r \in {"r", "p"}, NEW fail \in BOOLEAN, Placed(s), Free(s) # {}
  PROVE  Moved(s, Triggered(s, c, l, r, fail)) /\ Watching(s, Triggered(s, c, l, r, fail))
<1> DEFINE same == {o \in OfComp(s, CheckL(s), c) : s.cp[o].l = l /\ s.cp[o].r = r}
           n == CHOOSE q \in Free(s) : TRUE
           a == Alloc(s, n, "check", c, l, r, "waiting")
           f == FirstPair(s, same)
           t == Triggered(s, c, l, r, fail)
<1>1. t = IF l = "nil" THEN s
          ELSE IF same = {} THEN IceSend(a, n, fail)
          ELSE IF s.cp[f].state \in {"failed", "frozen", "waiting"}
          THEN IceSend(s, f, fail)
          ELSE s
  BY DEF Triggered
<1>2. n \in Cp /\ s.cp[n].list = "none"
  <2>1. n \in Free(s)
    OBVIOUS
  <2> QED
    BY <2>1 DEF Free
<1>3. same \subseteq Cp /\ \A o \in same : s.cp[o].list # "none"
  BY DEF OfComp, CheckL
<1> HIDE DEF t, same, n
<1>4. ASSUME t = s
      PROVE  Moved(s, t) /\ Watching(s, t)
  <2>1. Moved(s, s) /\ Watching(s, s)
    BY DEF Moved, Watching
  <2> QED
    BY <1>4, <2>1, Zenon
<1>5. ASSUME l # "nil" /\ same = {}
      PROVE  Moved(s, t) /\ Watching(s, t)
  <2>1. l \in {"h", "x"}
    BY <1>5
  <2>2. Moved(s, a) /\ Watching(s, a) /\ a.cp[n].list = "check"
    BY <1>2, <2>1, AllocMoved
  <2> HIDE DEF a
  <2>3. a \in IceRec /\ Placed(a)
    BY <2>2 DEF Moved
  <2>4. Checked(a, IceSend(a, n, fail)) /\ IceSend(a, n, fail).state = a.state
    BY <1>2, <2>2, <2>3, SendChecked
  <2>5. Moved(a, IceSend(a, n, fail)) /\ Watching(a, IceSend(a, n, fail))
    BY <2>3, <2>4, CheckedMoved DEF Watching, Checked
  <2>6. Moved(s, IceSend(a, n, fail))
    BY <2>2, <2>5, MovedTrans
  <2>7. Watching(s, IceSend(a, n, fail))
    BY <2>2, <2>5 DEF Watching
  <2>8. t = IceSend(a, n, fail)
    BY <1>1, <1>5
  <2> QED
    BY <2>6, <2>7, <2>8, Zenon
<1>6. ASSUME l # "nil" /\ same # {} /\ t # s
      PROVE  Moved(s, t) /\ Watching(s, t)
  <2>1. f \in same
    BY <1>3, <1>6, FirstIsOne
  <2>2. t = IceSend(s, f, fail)
    BY <1>1, <1>6
  <2> HIDE DEF f
  <2>3. Checked(s, IceSend(s, f, fail)) /\ IceSend(s, f, fail).state = s.state
    BY <1>3, <2>1, SendChecked
  <2>4. Moved(s, IceSend(s, f, fail)) /\ Watching(s, IceSend(s, f, fail))
    BY <2>3, CheckedMoved DEF Watching, Checked
  <2> QED
    BY <2>2, <2>4, Zenon
<1>7. Moved(s, t) /\ Watching(s, t)
  <2>1. l = "nil" => t = s
    BY <1>1
  <2> QED
    BY <2>1, <1>4, <1>5, <1>6, Zenon
<1> QED
  BY <1>7 DEF t

(* lookup_candpair: a pair of the component, in one of the lists *)
LEMMA LookupPlaced ==
  ASSUME NEW s \in IceRec, NEW c, NEW r, NEW o, o = Lookup(s, c, r), o # NoCp
  PROVE  o \in Cp /\ s.cp[o].list # "none" /\ s.cp[o].comp = c
<1> DEFINE in(list) == {q \in OfComp(s, list, c) : s.cp[q].r = r}
<1>1. /\ in(CheckL(s)) \subseteq Cp /\ in(ValidL(s)) \subseteq Cp
      /\ \A q \in in(CheckL(s)) \cup in(ValidL(s)) :
           s.cp[q].list # "none" /\ s.cp[q].comp = c
  BY DEF OfComp, CheckL, ValidL
<1>2. o = IF in(CheckL(s)) # {} THEN FirstPair(s, in(CheckL(s)))
          ELSE IF in(ValidL(s)) # {} THEN FirstPair(s, in(ValidL(s))) ELSE NoCp
  BY DEF Lookup
<1> HIDE DEF in
<1>3. /\ in(CheckL(s)) # {} => FirstPair(s, in(CheckL(s))) \in in(CheckL(s))
      /\ in(ValidL(s)) # {} => FirstPair(s, in(ValidL(s))) \in in(ValidL(s))
  BY <1>1, FirstIsOne
<1> QED
  BY <1>1, <1>2, <1>3

(* handle_stun: only a nomination stops a check, and with aggressive       *)
(* nomination none does.                                                   *)
LEMMA HandleStunGood ==
  ASSUME NEW s, NEW c \in Component, NEW r \in {"r", "p"}, NEW use \in BOOLEAN,
         NEW fail \in BOOLEAN, Started(s), Free(s) # {}
  PROVE  /\ Started(HandleStun(s, c, r, use, fail))
         /\ nom # "regular" => Watching(s, HandleStun(s, c, r, use, fail))
<1> DEFINE found == Lookup(s, c, r)
           l == IF found # NoCp THEN s.cp[found].l ELSE LookupLcand(s, c)
           s1 == Triggered(s, c, l, r, fail)
           o == IF found # NoCp THEN found ELSE Lookup(s1, c, r)
           s2 == MakeValid(s1, o)
           t == HandleStun(s, c, r, use, fail)
<1>1. t = IF ~use \/ o = NoCp THEN s1
          ELSE IF nom = "regular" THEN [s2 EXCEPT !.cp[o].ct = FALSE, !.sel[c] = o]
          ELSE s2
  BY DEF HandleStun
<1>2. s \in IceRec /\ Placed(s)
  BY DEF Started, IceGood
<1>3. l \in {"h", "x", "nil"}
  <2>1. found # NoCp => found \in Cp
    BY <1>2, LookupPlaced
  <2> QED
    BY <1>2, <2>1 DEF IceRec, PairRec, LookupLcand
<1> HIDE DEF t, found, l
<1>4. Moved(s, s1) /\ Watching(s, s1)
  BY <1>2, <1>3, TriggeredMoved
<1> HIDE DEF s1
<1>5. Started(s1) /\ s1 \in IceRec /\ Placed(s1)
  BY <1>4, MovedGood DEF Moved
<1>6. CASE t = s1
  BY <1>4, <1>5, <1>6 DEF t
<1>7. CASE use /\ o # NoCp
  <2>1. o \in Cp /\ s1.cp[o].list # "none" /\ s1.cp[o].comp = c
    <3>1. CASE found # NoCp
      <4>1. found \in Cp /\ s.cp[found].list # "none" /\ s.cp[found].comp = c
        BY <1>2, <3>1, LookupPlaced DEF found
      <4> QED
        BY <1>4, <3>1, <4>1 DEF Moved
    <3>2. CASE found = NoCp
      <4>1. o = Lookup(s1, c, r)
        BY <3>2
      <4> HIDE DEF o
      <4> QED
        BY <1>5, <1>7, <4>1, LookupPlaced
    <3> QED
      BY <3>1, <3>2
  <2> HIDE DEF o
  <2>2. /\ Moved(s1, s2) /\ Watching(s1, s2) /\ s2.cp[o].list = "valid"
        /\ s2.cp[o].comp = c
    BY <1>5, <2>1, MakeValidMoved
  <2> HIDE DEF s2
  <2>3. Started(s2) /\ Watching(s, s2)
    BY <1>4, <1>5, <2>2, MovedGood DEF Watching
  <2>4. CASE nom # "regular"
    BY <1>1, <1>7, <2>3, <2>4 DEF t
  <2>5. CASE nom = "regular"
    <3> DEFINE p == [s2.cp[o] EXCEPT !.ct = FALSE]
               u == [s2 EXCEPT !.cp = [s2.cp EXCEPT ![o] = p]]
    <3>1. s2 \in IceRec /\ Placed(s2) /\ s2.cp[o] \in PairRec
      BY <2>1, <2>3 DEF Started, IceGood, IceRec
    <3>2. p \in PairRec /\ p.list = "valid" /\ p.comp = c /\ p.ct = FALSE
      BY <2>2, <3>1 DEF PairRec
    <3>3. t = [u EXCEPT !.sel[c] = o]
      BY <1>1, <1>7, <2>1, <2>5, <3>1 DEF IceRec
    <3> HIDE DEF p
    <3>4. OnePair(s2, o, p, u)
      BY <2>1, <3>1, <3>2, PairSet
    <3> HIDE DEF u
    <3>5. Moved(s2, u) /\ u.cp[o].list = "valid" /\ u.cp[o].comp = c
      BY <2>1, <2>2, <3>1, <3>2, <3>4, OnePairMoved DEF OnePair
    <3>6. Started(u)
      BY <2>3, <3>5, MovedGood
    <3>7. Started(t)
      BY <2>1, <3>3, <3>5, <3>6, SelectGood
    <3> QED
      BY <2>5, <3>7 DEF t
  <2> QED
    BY <2>4, <2>5
<1> QED
  BY <1>1, <1>6, <1>7

----------------------------------------------------------------------------
(* The actions of the connectivity checks keep the invariant. *)

LEMMA IceInitInv == IceInit => IceInv
<1> SUFFICES ASSUME IceInit PROVE IceInv
  OBVIOUS
<1>1. NoPair \in PairRec /\ NoPair.list = "none" /\ NoPair.ct = FALSE
  BY DEF NoPair, PairRec
<1>2. /\ ice \in IceRec /\ ice.state = "null" /\ ice.told = "no"
      /\ \A o \in Cp : ice.cp[o] = NoPair
      /\ \A c \in Component : ice.sel[c] = NoCp /\ ~ice.concluded[c]
  BY <1>1 DEF IceInit, IceRec
<1>3. Chosen(ice) /\ Placed(ice) /\ ToldRight(ice)
  BY <1>1, <1>2 DEF Chosen, Placed, ToldRight
<1>4. IceGood(ice) /\ Watched(ice)
  BY <1>2, <1>3 DEF IceGood, Watched
<1>5. nom \in Nomination /\ reqs \in 0 .. MaxReq /\ sendfail \in BOOLEAN
  <2>1. nom \in Nomination /\ reqs = 0 /\ sendfail = FALSE
    BY Zenon DEF IceInit
  <2>2. MaxReq \in Nat
    BY IceAssumption
  <2>3. 0 \in 0 .. MaxReq
    BY <2>2
  <2> QED
    BY <2>1, <2>3
<1> QED
  BY <1>4, <1>5 DEF IceInv

LEMMA ConncheckStartInv ==
  ASSUME IceInv, NEW first \in BOOLEAN, ConncheckStart(first)
  PROVE  IceInv'
<1> DEFINE obj == CHOOSE f \in [Component -> Cp] :
                    \A c, d \in Component : c # d => f[c] # f[d]
           st(c) == IF first /\ \A d \in Component : c <= d THEN "waiting" ELSE "frozen"
           pair(c) == [NoPair EXCEPT !.list = "check", !.comp = c, !.state = st(c)]
           q(o) == IF \E c \in Component : obj[c] = o
                   THEN pair(CHOOSE c \in Component : obj[c] = o) ELSE NoPair
<1>1. PICK role \in {"controlling", "controlled"} :
        ice' = [ice EXCEPT !.state = "running", !.tmr = TRUE, !.role = role,
                           !.cp = [o \in Cp |-> q(o)]]
  BY Zenon DEF ConncheckStart
<1>2. IceGood(ice) /\ ice \in IceRec /\ ice.state = "null"
  BY DEF IceInv, IceGood, ConncheckStart
<1>3. \A o \in Cp : q(o) \in PairRec /\ ~q(o).ct
                    /\ (q(o).list # "none" => q(o).comp \in Component)
  <2> HIDE DEF obj
  <2>1. NoPair \in PairRec /\ NoPair.list = "none" /\ NoPair.ct = FALSE
    BY DEF NoPair, PairRec
  <2>2. \A c : st(c) \in {"waiting", "frozen"}
    OBVIOUS
  <2> HIDE DEF st
  <2>3. \A c \in Component : pair(c) \in PairRec /\ pair(c).comp = c /\ pair(c).ct = FALSE
    BY <2>2 DEF NoPair, PairRec
  <2> HIDE DEF pair
  <2> QED
    BY <2>1, <2>3
<1> HIDE DEF q
<1>4. /\ ice' \in IceRec /\ ice'.state = "running" /\ ice'.tmr
      /\ ice'.sel = ice.sel /\ ice'.concluded = ice.concluded /\ ice'.ka = ice.ka
      /\ ice'.told = ice.told /\ \A o \in Cp : ice'.cp[o] = q(o)
  BY <1>1, <1>2, <1>3 DEF IceRec
<1>5. /\ \A c \in Component : ice.sel[c] = NoCp /\ ~ice.concluded[c]
      /\ ice.told # "ok"
  BY <1>2 DEF IceGood, ToldRight
<1>6. Chosen(ice') /\ Placed(ice') /\ ToldRight(ice') /\ Watched(ice')
  BY <1>3, <1>4, <1>5 DEF Chosen, Placed, ToldRight, Watched
<1> QED
  BY <1>4, <1>6 DEF IceInv, IceGood, ConncheckStart

LEMMA PaceTimeoutInv ==
  ASSUME IceInv, NEW fail \in BOOLEAN, PaceTimeout(fail)
  PROVE  IceInv'
<1> DEFINE s == [ice EXCEPT !.tmr = FALSE]
<1>1. ice \in IceRec /\ Chosen(ice) /\ Placed(ice) /\ ToldRight(ice)
  BY DEF IceInv, IceGood
<1>2. /\ s \in IceRec /\ s.cp = ice.cp /\ s.sel = ice.sel /\ s.ka = ice.ka
      /\ s.concluded = ice.concluded /\ s.told = ice.told /\ s.state = ice.state
  BY <1>1 DEF IceRec
<1>3. ice' = PaceNext(s, fail) /\ sendfail' = (sendfail \/ fail)
      /\ UNCHANGED <<nom, reqs>>
  BY DEF PaceTimeout, Step
<1> HIDE DEF s
<1>4. Missing(s) = Missing(ice)
  BY <1>2, SameListsMissing DEF SameLists
<1>5. IceGood(s)
  BY <1>1, <1>2, <1>4 DEF IceGood, Chosen, Placed, ToldRight
<1>6. IceGood(ice') /\ (fail \/ Watched(ice'))
  BY <1>3, <1>5, PaceNextGood
<1> QED
  BY <1>3, <1>6 DEF IceInv

LEMMA SwitchedGood ==
  ASSUME NEW s, IceGood(s)
  PROVE  /\ IceGood(Switched(s)) /\ Switched(s).state = s.state
         /\ Switched(s).tmr = s.tmr /\ Switched(s).cp = s.cp
<1> DEFINE t == Switched(s)
<1>1. s \in IceRec /\ Chosen(s) /\ Placed(s) /\ ToldRight(s)
  BY DEF IceGood
<1>2. /\ t \in IceRec /\ t.cp = s.cp /\ t.sel = s.sel /\ t.ka = s.ka /\ t.tmr = s.tmr
      /\ t.concluded = s.concluded /\ t.told = s.told /\ t.state = s.state
  BY <1>1 DEF IceRec, Switched
<1> HIDE DEF t
<1>3. Missing(t) = Missing(s)
  BY <1>2, SameListsMissing DEF SameLists
<1>4. IceGood(t)
  BY <1>1, <1>2, <1>3 DEF IceGood, Chosen, Placed, ToldRight
<1> QED
  BY <1>2, <1>4 DEF t

LEMMA ConncheckResponseInv ==
  ASSUME IceInv, NEW o \in Cp, NEW how \in {"h", "x", "conflict", "error"},
         NEW fail \in BOOLEAN, ConncheckResponse(o, how, fail)
  PROVE  IceInv'
<1> DEFINE p == [ice.cp[o] EXCEPT !.ct = FALSE]
           s == [ice EXCEPT !.cp[o].ct = FALSE]
           handled == CASE how \in {"h", "x"} -> HandleSuccess(s, o, how, fail)
                        [] how = "conflict" -> IceSend(Switched(s), o, fail)
                        [] OTHER -> SetState(s, o, "failed")
<1>1. /\ ice \in IceRec /\ Placed(ice) /\ Started(ice) /\ ice.cp[o].list # "none"
      /\ ice.cp[o] \in PairRec
  BY DEF IceInv, IceGood, Started, ToldRight, Placed, ConncheckResponse, IceRec
<1>2. /\ ice' = PaceNext(handled, fail) /\ sendfail' = (sendfail \/ fail)
      /\ UNCHANGED <<nom, reqs>>
      /\ how \in {"h", "x"} \ {ice.cp[o].l} => Free(ice) # {}
  BY Zenon DEF ConncheckResponse, Step
<1>3. /\ p \in PairRec /\ p.list = ice.cp[o].list /\ p.comp = ice.cp[o].comp
      /\ p.l = ice.cp[o].l
  BY <1>1 DEF PairRec
<1>4. s = [ice EXCEPT !.cp = [ice.cp EXCEPT ![o] = p]]
  BY <1>1 DEF IceRec
<1> HIDE DEF p, s
<1>5. OnePair(ice, o, p, s)
  <2>1. OnePair(ice, o, p, [ice EXCEPT !.cp = [ice.cp EXCEPT ![o] = p]])
    BY <1>1, <1>3, PairSet
  <2> QED
    BY <1>4, <2>1, Zenon
<1>6. p.comp \in Component
  BY <1>1, <1>3 DEF Placed
<1>7. Moved(ice, s)
  BY <1>1, <1>3, <1>5, <1>6, OnePairMoved
<1>8. Started(s) /\ s \in IceRec /\ Placed(s) /\ s.cp[o].list # "none"
  BY <1>1, <1>3, <1>5, <1>7, MovedGood DEF Moved, OnePair
<1>9. IceGood(handled)
  <2>1. CASE how \in {"h", "x"}
    <3>1. how # s.cp[o].l => Free(s) # {}
      <4>1. \A q \in Free(ice) : q \in Free(s)
        BY <1>1, <1>3, <1>5 DEF Free, OnePair
      <4> QED
        BY <1>2, <1>3, <1>5, <2>1, <4>1 DEF OnePair
    <3>2. Started(HandleSuccess(s, o, how, fail))
      BY <1>8, <2>1, <3>1, HandleSuccessGood
    <3>3. handled = HandleSuccess(s, o, how, fail)
      BY <2>1
    <3> HIDE DEF handled
    <3> QED
      BY <3>2, <3>3 DEF Started
  <2>2. CASE how = "conflict"
    <3>1. /\ Started(Switched(s)) /\ Switched(s) \in IceRec /\ Placed(Switched(s))
          /\ Switched(s).cp[o].list # "none"
      BY <1>8, SwitchedGood DEF Started, IceGood
    <3>2. Checked(Switched(s), IceSend(Switched(s), o, fail))
      BY <3>1, SendChecked
    <3>3. Started(IceSend(Switched(s), o, fail))
      BY <3>1, <3>2, CheckedMoved, MovedGood
    <3>4. handled = IceSend(Switched(s), o, fail)
      BY <2>2
    <3> HIDE DEF handled
    <3> QED
      BY <3>3, <3>4 DEF Started
  <2>3. CASE how = "error"
    <3>1. Checked(s, SetState(s, o, "failed"))
      BY <1>8, SetStateChecked
    <3>2. Started(SetState(s, o, "failed"))
      BY <1>8, <3>1, CheckedMoved, MovedGood
    <3>3. handled = SetState(s, o, "failed")
      BY <2>3
    <3> HIDE DEF handled
    <3> QED
      BY <3>2, <3>3 DEF Started
  <2> QED
    BY <2>1, <2>2, <2>3
<1> HIDE DEF handled
<1>10. IceGood(ice') /\ (fail \/ Watched(ice'))
  BY <1>2, <1>9, PaceNextGood
<1> QED
  BY <1>2, <1>10 DEF IceInv

LEMMA PeerRequestInv ==
  ASSUME IceInv, NEW c \in Component, NEW r \in {"r", "p"}, NEW use \in BOOLEAN,
         NEW conflict \in BOOLEAN, NEW fail \in BOOLEAN,
         PeerRequest(c, r, use, conflict, fail)
  PROVE  IceInv'
<1> DEFINE s == IF conflict THEN Switched(ice) ELSE ice
<1>1. IceGood(ice) /\ ice.state # "null" /\ Free(ice) # {} /\ reqs < MaxReq
  BY DEF IceInv, PeerRequest
<1>2. /\ ice' = IF s.state = "running" THEN HandleStun(s, c, r, use, fail) ELSE s
      /\ sendfail' = (sendfail \/ fail) /\ UNCHANGED nom /\ reqs' = reqs + 1
  BY Zenon DEF PeerRequest, Step
<1>3. /\ IceGood(s) /\ s.state = ice.state /\ s.tmr = ice.tmr /\ s.cp = ice.cp
  BY <1>1, SwitchedGood
<1> HIDE DEF s
<1>4. Started(s) /\ Free(s) # {}
  BY <1>1, <1>3 DEF Started, Free
<1>5. IceGood(ice') /\ (nom # "regular" => Watching(s, ice'))
  <2>1. CASE s.state = "running"
    BY <1>2, <1>4, <2>1, HandleStunGood DEF Started
  <2>2. CASE s.state # "running"
    BY <1>2, <1>3, <2>2 DEF Watching
  <2> QED
    BY <2>1, <2>2
<1>6. nom = "aggressive" /\ ~sendfail => Watched(ice')
  BY <1>3, <1>5 DEF IceInv, Watched, Watching
<1>7. reqs' \in 0 .. MaxReq
  BY <1>1, <1>2, IceAssumption DEF IceInv
<1> QED
  BY <1>2, <1>5, <1>6, <1>7 DEF IceInv

LEMMA IceNextInv == IceInv /\ [IceNext]_iceVars => IceInv'
<1> SUFFICES ASSUME IceInv, [IceNext]_iceVars
             PROVE  IceInv'
  OBVIOUS
<1>1. CASE \E first \in BOOLEAN : ConncheckStart(first)
  BY <1>1, ConncheckStartInv
<1>2. CASE \E fail \in BOOLEAN : PaceTimeout(fail)
  BY <1>2, PaceTimeoutInv
<1>3. CASE \E fail \in BOOLEAN, o \in Cp, how \in {"h", "x", "conflict", "error"} :
             ConncheckResponse(o, how, fail)
  BY <1>3, ConncheckResponseInv
<1>4. CASE \E fail \in BOOLEAN, c \in Component, r \in {"r", "p"},
              use, conflict \in BOOLEAN : PeerRequest(c, r, use, conflict, fail)
  BY <1>4, PeerRequestInv
<1>5. CASE UNCHANGED iceVars
  <2>1. ice' = ice /\ nom' = nom /\ reqs' = reqs /\ sendfail' = sendfail
    BY <1>5 DEF iceVars
  <2> QED
    BY <2>1 DEF IceInv
<1> QED
  BY <1>1, <1>2, <1>3, <1>4, <1>5 DEF IceNext

LEMMA IceInvSound == IceInv => SelectedValid /\ RunningWatched
<1> SUFFICES ASSUME IceInv PROVE SelectedValid /\ RunningWatched
  OBVIOUS
<1>1. IceTypeOK
  BY DEF IceInv, IceGood, IceRec, IceTypeOK
<1>2. Chosen(ice) /\ (ice.told = "ok" => Missing(ice) = {})
  BY DEF IceInv, IceGood, ToldRight
<1>3. SelectedValid
  BY <1>1, <1>2 DEF SelectedValid, Chosen, Missing
<1>4. RunningWatched
  BY DEF RunningWatched, IceInv, Watched
<1> QED
  BY <1>3, <1>4

----------------------------------------------------------------------------
(* The NAT behaviour discovery *)

TestRec == [st : {"none", "run"}, phase : 0 .. 3, req : BOOLEAN,
            conn : BOOLEAN, map : [1 .. 3 -> {"nil", "laddr", "m", "m2", "m3"}]]

BdRes == {"unknown", "yes", "no", "indep", "addr", "addrport"}

(* The mapping test knows what the servers it has asked saw, and goes on   *)
(* only when that leaves the question open.                                *)
MapTest(r) ==
  /\ r.req \/ r.conn => r.phase # 0
  /\ \A i \in 1 .. 3 : i < r.phase => r.map[i] = MappedAt(ServerAt(i)[1], ServerAt(i)[2])
  /\ r.phase \in {2, 3} => kind # "none"
  /\ r.phase = 3 => kind \in {"addr", "addrport"}

(* The last question of the filtering test is only asked when the NAT      *)
(* filters, or an answer was lost.                                         *)
FilterTest(r) == r.phase = 3 /\ ~bdLost => kind \in {"addr", "addrport"}

TrueKind == IF kind = "none" THEN "indep" ELSE kind

Results(res) ==
  /\ res["nm"] \in {"unknown", TrueKind}
  /\ ~bdLost => res["nf"] \in {"unknown", TrueKind}

(* The interval in which the lifetime is sought *)
LifeBounds(n) ==
  /\ 1 <= n.min /\ n.min <= n.cur /\ (n.max > 0 => n.cur <= n.max)
  /\ honest /\ Lifetime >= 1 => n.min <= Lifetime /\ (n.max > 0 => Lifetime < n.max)

(* The inductive invariant of the discovery *)
NatBdInv ==
  /\ NatBdTypeOK /\ MapTest(test["nm"]) /\ FilterTest(test["nf"])
  /\ Results(natbd.res) /\ LifeBounds(nl)

LEMMA TestNames == Test = {"nh", "nm", "nf", "ga"}
BY DEF Test, BdTests

LEMMA NatBdInitInv == NatBdInit => NatBdInv
<1> SUFFICES ASSUME NatBdInit PROVE NatBdInv
  OBVIOUS
<1>1. NoTest \in TestRec /\ NoTest.phase = 0 /\ NoTest.req = FALSE /\ NoTest.conn = FALSE
  BY DEF NoTest, TestRec
<1>2. test = [t \in Test |-> NoTest]
  BY DEF NatBdInit
<1>3. test \in [Test -> TestRec]
  BY <1>1, <1>2
<1>4. nl = [st |-> "none", min |-> 1, cur |-> Interval, max |-> 0,
            ctx |-> FALSE, cty |-> FALSE, tmr |-> FALSE]
      /\ Interval \in Nat \ {0} /\ Lifetime \in Nat
  BY LifetimeAssumption DEF NatBdInit
<1>5. /\ nl \in [st : {"none", "run"}, min : Nat, cur : Nat, max : Nat,
                 ctx : BOOLEAN, cty : BOOLEAN, tmr : BOOLEAN]
      /\ LifeBounds(nl)
  BY <1>4 DEF LifeBounds
<1>6. /\ natbd \in [tmr : BOOLEAN, inited : BOOLEAN, terminated : BOOLEAN,
                    leak : BOOLEAN, uaf : BOOLEAN, res : [Test -> BdRes]]
      /\ \A t \in Test : natbd.res[t] = "unknown"
  BY DEF NatBdInit, BdRes
<1>7. /\ bdProto \in {"udp", "tcp"} /\ kind \in Kind /\ watch \in Watch
      /\ bdLost \in BOOLEAN /\ honest \in BOOLEAN
  BY DEF NatBdInit
<1>8. NatBdTypeOK
  BY <1>3, <1>5, <1>6, <1>7 DEF NatBdTypeOK, TestRec, BdRes
<1>9. MapTest(test["nm"]) /\ FilterTest(test["nf"]) /\ Results(natbd.res)
  BY <1>1, <1>2, <1>6, TestNames DEF MapTest, FilterTest, Results
<1> QED
  BY <1>5, <1>8, <1>9 DEF NatBdInv

(* natbd_start: a test goes on, or it starts with its first question. *)
LEMMA TestStartsKept ==
  ASSUME NatBdInv, NEW fails
  PROVE  /\ TestStarts(fails) \in [Test -> TestRec]
         /\ MapTest(TestStarts(fails)["nm"]) /\ FilterTest(TestStarts(fails)["nf"])
<1> DEFINE r == [NoTest EXCEPT !.st = "run", !.phase = 1]
           s == TestStarts(fails)
<1>1. test \in [Test -> TestRec]
  BY DEF NatBdInv, NatBdTypeOK, TestRec
<1>2. r \in TestRec /\ r.phase = 1
  <2>1. NoTest \in TestRec
    BY DEF NoTest, TestRec
  <2>2. /\ 1 \in 0 .. 3
        /\ \A x \in TestRec : [x EXCEPT !.st = "run"] \in TestRec
        /\ \A x \in TestRec, k \in 0 .. 3 :
             [x EXCEPT !.phase = k] \in TestRec /\ [x EXCEPT !.phase = k].phase = k
    BY DEF TestRec
  <2>3. r = [[NoTest EXCEPT !.st = "run"] EXCEPT !.phase = 1]
    BY DEF NoTest
  <2> QED
    BY <2>1, <2>2, <2>3
<1> HIDE DEF r
<1>3. \A t : Ask(r, t) \in TestRec /\ Ask(r, t).phase = 1
  BY <1>2 DEF Ask, TestRec
<1>4. \A t \in Test : s[t] = test[t] \/ (s[t] \in TestRec /\ s[t].phase = 1)
  BY <1>2, <1>3 DEF TestStarts, r
<1>5. s \in [Test -> TestRec]
  <2>1. s = [t \in Test |-> s[t]]
    BY DEF TestStarts
  <2> HIDE DEF s
  <2> QED
    BY <1>1, <1>4, <2>1
<1> HIDE DEF s
<1>6. MapTest(s["nm"]) /\ FilterTest(s["nf"])
  <2>1. \A x \in TestRec : x.phase = 1 => MapTest(x) /\ FilterTest(x)
    BY DEF MapTest, FilterTest, TestRec
  <2>2. MapTest(test["nm"]) /\ FilterTest(test["nf"])
    BY DEF NatBdInv
  <2>3. "nm" \in Test /\ "nf" \in Test
    BY TestNames
  <2>4. s["nm"] = test["nm"] \/ MapTest(s["nm"])
    BY <1>4, <2>1, <2>3
  <2>5. s["nf"] = test["nf"] \/ FilterTest(s["nf"])
    BY <1>4, <2>1, <2>3
  <2>6. MapTest(s["nm"])
    BY <2>2, <2>4, Zenon
  <2>7. FilterTest(s["nf"])
    BY <2>2, <2>5, Zenon
  <2> QED
    BY <2>6, <2>7
<1> QED
  BY <1>5, <1>6 DEF s

(* The types of the module *)
BdRec == [tmr : BOOLEAN, inited : BOOLEAN, terminated : BOOLEAN,
          leak : BOOLEAN, uaf : BOOLEAN, res : [Test -> BdRes]]

NlRec == [st : {"none", "run"}, min : Nat, cur : Nat, max : Nat,
          ctx : BOOLEAN, cty : BOOLEAN, tmr : BOOLEAN]

(* What NatBdTypeOK says of the variables that only NatBdClose and the     *)
(* handlers of a test change                                               *)
LEMMA NatBdTypes ==
  NatBdTypeOK <=> /\ bdProto \in {"udp", "tcp"} /\ kind \in Kind
                  /\ test \in [Test -> TestRec] /\ natbd \in BdRec
                  /\ watch \in Watch /\ bdLost \in BOOLEAN /\ honest \in BOOLEAN
                  /\ nl \in NlRec
BY DEF NatBdTypeOK, TestRec, BdRec, NlRec, BdRes

(* A step after which the parts of the invariant hold *)
Fixed == UNCHANGED <<watch, bdProto, kind>>

LEMMA NatBdFromParts ==
  ASSUME NatBdInv, Fixed, bdLost' \in BOOLEAN, honest' \in BOOLEAN,
         test' \in [Test -> TestRec], natbd' \in BdRec, nl' \in NlRec,
         MapTest(test["nm"])', FilterTest(test["nf"])', Results(natbd.res)',
         LifeBounds(nl)'
  PROVE  NatBdInv'
<1>1. NatBdTypeOK'
  BY DEF Fixed, NatBdInv, NatBdTypeOK, TestRec, BdRec, NlRec, BdRes
<1> QED
  BY <1>1 DEF NatBdInv

(* A step that leaves the lifetime test alone keeps its part. *)
LEMMA LifeKept ==
  ASSUME NatBdInv, UNCHANGED <<nl, honest>>
  PROVE  LifeBounds(nl)' /\ nl' \in NlRec /\ honest' \in BOOLEAN
BY DEF NatBdInv, LifeBounds, NatBdTypeOK, NlRec

(* A step that leaves the other tests alone keeps theirs. *)
LEMMA TestsKept ==
  ASSUME NatBdInv, UNCHANGED <<kind, test, bdLost>>
  PROVE  /\ MapTest(test["nm"])' /\ FilterTest(test["nf"])'
         /\ test' \in [Test -> TestRec] /\ bdLost' \in BOOLEAN
<1>1. /\ MapTest(test["nm"]) /\ FilterTest(test["nf"]) /\ bdLost \in BOOLEAN
      /\ test \in [Test -> TestRec]
  BY NatBdTypes DEF NatBdInv
<1> QED
  BY <1>1 DEF MapTest, FilterTest, MappedAt

LEMMA ResultsKept ==
  ASSUME NatBdInv, natbd' \in BdRec, natbd'.res = natbd.res, kind' = kind, bdLost' = bdLost
  PROVE  Results(natbd.res)'
BY DEF NatBdInv, Results, TrueKind

(* A test that tells its result, truly, is freed. *)
LEMMA ToldKept ==
  ASSUME NatBdInv, NEW t \in Test, NEW v \in BdRes, NEW leak \in BOOLEAN, NEW uaf \in BOOLEAN,
         Fixed, UNCHANGED <<nl, honest>>, bdLost' \in BOOLEAN, bdLost => bdLost',
         test' = [test EXCEPT ![t] = NoTest],
         natbd' = [natbd EXCEPT !.leak = leak, !.res[t] = v, !.uaf = uaf],
         t = "nm" => v \in {"unknown", TrueKind} \/ v = natbd.res[t],
         t = "nf" /\ ~bdLost' => v \in {"unknown", TrueKind} \/ v = natbd.res[t]
  PROVE  NatBdInv'
<1>1. NoTest \in TestRec /\ NoTest.phase = 0 /\ NoTest.req = FALSE /\ NoTest.conn = FALSE
  BY DEF NoTest, TestRec
<1>2. /\ test \in [Test -> TestRec] /\ natbd \in BdRec /\ MapTest(test["nm"])
      /\ FilterTest(test["nf"]) /\ Results(natbd.res)
  BY NatBdTypes DEF NatBdInv
<1>3. test' \in [Test -> TestRec] /\ natbd' \in BdRec
  BY <1>1, <1>2 DEF BdRec
<1>4. /\ test'["nm"] \in {test["nm"], NoTest} /\ test'["nf"] \in {test["nf"], NoTest}
  BY <1>2, TestNames
<1>5. kind' = kind
  BY DEF Fixed
<1>6. MapTest(test["nm"])'
  BY <1>1, <1>2, <1>4, <1>5 DEF MapTest, MappedAt
<1>7. FilterTest(test["nf"])'
  BY <1>1, <1>2, <1>4, <1>5 DEF FilterTest
<1>8. natbd'.res = [natbd.res EXCEPT ![t] = v] /\ natbd.res \in [Test -> BdRes]
  BY <1>2 DEF BdRec
<1>9. Results(natbd.res)'
  <2>1. natbd'.res["nm"] = IF t = "nm" THEN v ELSE natbd.res["nm"]
    BY <1>8, TestNames
  <2>2. natbd'.res["nf"] = IF t = "nf" THEN v ELSE natbd.res["nf"]
    BY <1>8, TestNames
  <2>3. TrueKind' = TrueKind
    BY <1>5 DEF TrueKind
  <2> QED
    BY <1>2, <2>1, <2>2, <2>3 DEF Results
<1> QED
  BY <1>3, <1>6, <1>7, <1>9, LifeKept, NatBdFromParts

(* A step of a test that stays, with what it still has to ask *)
LEMMA GoesOnKept ==
  ASSUME NatBdInv, NEW t \in Test, NEW r \in TestRec, Fixed,
         UNCHANGED <<nl, honest, natbd>>, bdLost' \in BOOLEAN, bdLost => bdLost',
         test' = [test EXCEPT ![t] = r],
         t = "nm" => MapTest(r)', t = "nf" => FilterTest(r)'
  PROVE  NatBdInv'
<1>1. /\ test \in [Test -> TestRec] /\ natbd \in BdRec /\ MapTest(test["nm"])
      /\ FilterTest(test["nf"]) /\ Results(natbd.res)
  BY NatBdTypes DEF NatBdInv
<1>2. test' \in [Test -> TestRec] /\ natbd' \in BdRec /\ kind' = kind /\ natbd' = natbd
  BY <1>1 DEF Fixed
<1>3. /\ test'["nm"] = IF t = "nm" THEN r ELSE test["nm"]
      /\ test'["nf"] = IF t = "nf" THEN r ELSE test["nf"]
  BY <1>1, TestNames
<1>4. MapTest(test["nm"])'
  BY <1>1, <1>2, <1>3 DEF MapTest, MappedAt
<1>5. FilterTest(test["nf"])'
  BY <1>1, <1>2, <1>3 DEF FilterTest
<1>6. Results(natbd.res)'
  BY <1>1, <1>2 DEF Results, TrueKind
<1> QED
  BY <1>2, <1>4, <1>5, <1>6, LifeKept, NatBdFromParts

LEMMA TellInv ==
  ASSUME NatBdInv, NEW t \in Test, Fixed, UNCHANGED <<nl, honest, bdLost>>,
         Tell(t, TRUE, "unknown")
  PROVE  NatBdInv'
<1> DEFINE v == IF t = "nh" /\ test[t].req THEN "no" ELSE Kept(t, TRUE, "unknown")
           leak == natbd.leak \/ test[t].req
<1>1. /\ test \in [Test -> TestRec] /\ natbd \in BdRec /\ bdLost \in BOOLEAN
  BY NatBdTypes DEF NatBdInv
<1>2. v \in BdRes /\ leak \in BOOLEAN /\ natbd.uaf \in BOOLEAN
  BY <1>1 DEF Kept, BdRec, BdRes, TestRec
<1>3. t # "nh" => v = natbd.res[t]
  BY DEF Kept
<1>4. natbd' = [natbd EXCEPT !.leak = leak, !.res[t] = v, !.uaf = natbd.uaf]
  BY <1>1 DEF Tell, BdRec
<1>5. test' = [test EXCEPT ![t] = NoTest]
  BY DEF Tell
<1> HIDE DEF v, leak
<1> QED
  BY <1>1, <1>2, <1>3, <1>4, <1>5, ToldKept

LEMMA TellLastInv ==
  ASSUME NatBdInv, NEW t \in Test, NEW err \in BOOLEAN, NEW type \in BdRes,
         NEW uaf \in BOOLEAN, Fixed, UNCHANGED <<nl, honest>>, bdLost' \in BOOLEAN,
         bdLost => bdLost', TellLast(t, err, type, uaf),
         t = "nm" /\ ~err => type \in {"unknown", TrueKind},
         t = "nf" /\ ~err /\ ~bdLost' => type \in {"unknown", TrueKind}
  PROVE  NatBdInv'
<1> DEFINE v == Kept(t, err, type)
           u == natbd.uaf \/ uaf
<1>1. /\ test \in [Test -> TestRec] /\ natbd \in BdRec
  BY NatBdTypes DEF NatBdInv
<1>2. v \in BdRes /\ natbd.leak \in BOOLEAN /\ u \in BOOLEAN
  BY <1>1 DEF Kept, BdRec, BdRes
<1>3. t # "nh" => v = IF err THEN natbd.res[t] ELSE type
  BY DEF Kept
<1>4. natbd' = [natbd EXCEPT !.leak = natbd.leak, !.res[t] = v, !.uaf = u]
  BY <1>1 DEF TellLast, BdRec
<1>5. test' = [test EXCEPT ![t] = NoTest]
  BY DEF TellLast
<1> HIDE DEF v, u
<1> QED
  BY <1>2, <1>3, <1>4, <1>5, ToldKept

LEMMA DnsHandlerInv ==
  ASSUME NatBdInv, NEW err \in BOOLEAN, NEW fails, DnsHandler(err, fails)
  PROVE  NatBdInv'
<1>1. Fixed /\ UNCHANGED <<bdLost, honest>>
  BY DEF DnsHandler, Fixed
<1>2. /\ natbd \in BdRec /\ nl \in NlRec /\ LifeBounds(nl)
  BY NatBdTypes DEF NatBdInv
<1>3. natbd' \in BdRec /\ natbd'.res = natbd.res
  BY <1>2 DEF DnsHandler, BdRec
<1>4. nl' \in NlRec /\ nl'.min = nl.min /\ nl'.cur = nl.cur /\ nl'.max = nl.max
  BY <1>2 DEF DnsHandler, NlRec
<1>5. LifeBounds(nl)' /\ honest' \in BOOLEAN /\ bdLost' \in BOOLEAN
  BY <1>1, <1>2, <1>4 DEF LifeBounds, NatBdInv, NatBdTypeOK
<1>6. Results(natbd.res)'
  BY <1>1, <1>3, ResultsKept DEF Fixed
<1>7. /\ test' \in [Test -> TestRec] /\ MapTest(test["nm"])' /\ FilterTest(test["nf"])'
  <2>1. kind' = kind /\ bdLost' = bdLost
    BY <1>1 DEF Fixed
  <2>2. CASE test' = test
    BY <2>1, <2>2, TestsKept
  <2>3. CASE test' = TestStarts(fails)
    <3> DEFINE s == TestStarts(fails)
    <3>1. s \in [Test -> TestRec] /\ MapTest(s["nm"]) /\ FilterTest(s["nf"])
      BY TestStartsKept
    <3> HIDE DEF s
    <3>2. test' = s
      BY <2>3 DEF s
    <3> QED
      BY <2>1, <3>1, <3>2 DEF MapTest, FilterTest, MappedAt
  <2> QED
    BY <2>2, <2>3 DEF DnsHandler
<1> QED
  BY <1>1, <1>3, <1>4, <1>5, <1>6, <1>7, NatBdFromParts

LEMMA BdTimeoutInv ==
  ASSUME NatBdInv, NEW fails, BdTimeout(fails)
  PROVE  NatBdInv'
<1> DEFINE s == TestStarts(fails)
<1>1. Fixed /\ UNCHANGED <<bdLost, honest, nl, natbd>> /\ test' = s /\ kind' = kind
  BY DEF BdTimeout, Fixed
<1>2. s \in [Test -> TestRec] /\ MapTest(s["nm"]) /\ FilterTest(s["nf"])
  BY TestStartsKept
<1> HIDE DEF s
<1>3. /\ test' \in [Test -> TestRec] /\ MapTest(test["nm"])' /\ FilterTest(test["nf"])'
  BY <1>1, <1>2 DEF MapTest, FilterTest, MappedAt
<1>4. natbd' \in BdRec /\ bdLost' \in BOOLEAN
  BY <1>1, NatBdTypes DEF NatBdInv
<1>5. Results(natbd.res)'
  BY <1>1, <1>4, ResultsKept
<1> QED
  BY <1>1, <1>3, <1>4, <1>5, LifeKept, NatBdFromParts

LEMMA TcpEstabInv ==
  ASSUME NatBdInv, NEW t \in Test, TcpEstab(t)
  PROVE  NatBdInv'
<1> DEFINE r == [test[t] EXCEPT !.req = TRUE]
<1>1. /\ test \in [Test -> TestRec] /\ MapTest(test["nm"]) /\ FilterTest(test["nf"])
      /\ bdLost \in BOOLEAN
  BY NatBdTypes DEF NatBdInv
<1>2. Fixed /\ UNCHANGED <<nl, honest, natbd, bdLost>> /\ kind' = kind /\ test[t].conn
      /\ test' = [test EXCEPT ![t] = r]
  BY <1>1 DEF TcpEstab, Fixed, TestRec
<1>3. test[t] \in TestRec
  BY <1>1
<1>4. r \in TestRec /\ r.phase = test[t].phase /\ r.map = test[t].map
  BY <1>3 DEF TestRec
<1> HIDE DEF r
<1> PICK y \in TestRec : y = r
  BY <1>4
<1>5. t = "nm" => MapTest(y)'
  BY <1>1, <1>2, <1>4 DEF MapTest, MappedAt
<1>6. t = "nf" => FilterTest(y)'
  BY <1>1, <1>2, <1>4 DEF FilterTest
<1> QED
  BY <1>1, <1>2, <1>5, <1>6, GoesOnKept

LEMMA BdTcpCloseInv ==
  ASSUME NatBdInv, NEW t \in Test, NEW err \in BOOLEAN, BdTcpClose(t, err)
  PROVE  NatBdInv'
<1>1. Fixed /\ UNCHANGED <<nl, honest, bdLost>> /\ kind' = kind
  BY DEF BdTcpClose, Fixed
<1>2. CASE err
  BY <1>1, <1>2, TellInv DEF BdTcpClose
<1>3. CASE ~err
  <2> DEFINE r == [test[t] EXCEPT !.conn = FALSE]
  <2>1. /\ test \in [Test -> TestRec] /\ MapTest(test["nm"]) /\ FilterTest(test["nf"])
        /\ bdLost \in BOOLEAN
    BY NatBdTypes DEF NatBdInv
  <2>2. UNCHANGED natbd /\ test' = [test EXCEPT ![t] = r]
    BY <1>3, <2>1 DEF BdTcpClose, TestRec
  <2>3. test[t] \in TestRec
    BY <2>1
  <2>4. /\ r \in TestRec /\ r.phase = test[t].phase /\ r.map = test[t].map
        /\ r.req = test[t].req /\ r.conn = FALSE
    BY <2>3 DEF TestRec
  <2> HIDE DEF r
  <2> PICK y \in TestRec : y = r
    BY <2>4
  <2>5. t = "nm" => MapTest(y)'
    BY <1>1, <2>1, <2>4 DEF MapTest, MappedAt
  <2>6. t = "nf" => FilterTest(y)'
    BY <1>1, <2>1, <2>4 DEF FilterTest
  <2> QED
    BY <1>1, <2>1, <2>2, <2>5, <2>6, GoesOnKept
<1> QED
  BY <1>2, <1>3

LEMMA MappingResponseInv ==
  ASSUME NatBdInv, NEW ok \in BOOLEAN, MappingResponse(ok)
  PROVE  NatBdInv'
<1> DEFINE r == test["nm"]
           m == MappedAt(ServerAt(r.phase)[1], ServerAt(r.phase)[2])
           map == [r.map EXCEPT ![r.phase] = m]
           type == MappingType(map, r.phase)
           x == [r EXCEPT !.phase = @ + 1, !.map = map, !.req = FALSE, !.conn = FALSE]
<1>1. /\ test \in [Test -> TestRec] /\ MapTest(r) /\ r.req /\ bdLost \in BOOLEAN
      /\ kind \in Kind
  BY NatBdTypes DEF NatBdInv, MappingResponse
<1>2. Fixed /\ UNCHANGED <<nl, honest, bdLost>> /\ kind' = kind
  BY DEF MappingResponse, Fixed
<1>3. \/ TellLast("nm", TRUE, "unknown", FALSE)
      \/ type # "more" /\ TellLast("nm", FALSE, type, r.phase = 3)
      \/ type = "more" /\ test' = [test EXCEPT !["nm"] = Ask(x, "nm")] /\ UNCHANGED natbd
  BY DEF MappingResponse
<1>4. r \in TestRec /\ "nm" \in Test
  BY <1>1, TestNames
<1> HIDE DEF r
<1>5. r.phase \in 1 .. 3 /\ r.map \in [1 .. 3 -> {"nil", "laddr", "m", "m2", "m3"}]
  BY <1>1, <1>4 DEF MapTest, TestRec
<1>6. m \in {"laddr", "m", "m2", "m3"}
  BY DEF MappedAt
<1> HIDE DEF m
<1>7. /\ map \in [1 .. 3 -> {"nil", "laddr", "m", "m2", "m3"}]
      /\ map[r.phase] = m /\ \A i \in 1 .. 3 : i # r.phase => map[i] = r.map[i]
  BY <1>5, <1>6
<1> HIDE DEF map
<1>8. \A i \in 1 .. 3 : i <= r.phase => map[i] = MappedAt(ServerAt(i)[1], ServerAt(i)[2])
  BY <1>1, <1>5, <1>7 DEF MapTest, m
<1>9. /\ ServerAt(1) = <<1, 1>> /\ ServerAt(2) = <<2, 1>> /\ ServerAt(3) = <<2, 2>>
  BY DEF ServerAt
<1>10. type # "more" => type = TrueKind
  <2>1. CASE r.phase = 1
    BY <1>8, <1>9, <2>1 DEF MappingType, MappedAt, TrueKind
  <2>2. CASE r.phase = 2
    <3>1. kind # "none"
      BY <1>1, <2>2 DEF MapTest
    <3>2. map[1] = MappedAt(1, 1) /\ map[2] = MappedAt(2, 1)
      BY <1>8, <1>9, <2>2
    <3> QED
      BY <1>1, <2>2, <3>1, <3>2 DEF MappingType, MappedAt, TrueKind, Kind
  <2>3. CASE r.phase = 3
    <3>1. kind \in {"addr", "addrport"}
      BY <1>1, <2>3 DEF MapTest
    <3>2. map[2] = MappedAt(2, 1) /\ map[3] = MappedAt(2, 2)
      BY <1>8, <1>9, <2>3
    <3> QED
      BY <2>3, <3>1, <3>2 DEF MappingType, MappedAt, TrueKind
  <2> QED
    BY <1>5, <2>1, <2>2, <2>3
<1>11. type = "more" => /\ r.phase \in {1, 2} /\ kind # "none"
                        /\ r.phase = 2 => kind \in {"addr", "addrport"}
  <2>1. CASE r.phase = 1
    <3>1. map[1] = MappedAt(1, 1)
      BY <1>8, <1>9, <2>1
    <3> QED
      BY <2>1, <3>1 DEF MappingType, MappedAt
  <2>2. CASE r.phase = 2
    <3>1. kind # "none"
      BY <1>1, <2>2 DEF MapTest
    <3>2. map[1] = MappedAt(1, 1) /\ map[2] = MappedAt(2, 1)
      BY <1>8, <1>9, <2>2
    <3> QED
      BY <1>1, <2>2, <3>1, <3>2 DEF MappingType, MappedAt, Kind
  <2>3. CASE r.phase = 3
    BY <2>3 DEF MappingType
  <2> QED
    BY <1>5, <2>1, <2>2, <2>3
<1>12. type \in {"indep", "addr", "addrport", "more"}
  BY DEF MappingType
<1> HIDE DEF type
<1>13. CASE TellLast("nm", TRUE, "unknown", FALSE)
  BY <1>1, <1>2, <1>4, <1>13, TellLastInv DEF BdRes
<1>14. CASE type # "more" /\ TellLast("nm", FALSE, type, r.phase = 3)
  <2>1. type \in BdRes
    BY <1>12, <1>14 DEF BdRes
  <2>2. (r.phase = 3) \in BOOLEAN
    OBVIOUS
  <2> QED
    BY <1>1, <1>2, <1>4, <1>10, <1>14, <2>1, <2>2, TellLastInv
<1>15. CASE type = "more" /\ test' = [test EXCEPT !["nm"] = Ask(x, "nm")] /\ UNCHANGED natbd
  <2>1. x \in TestRec /\ x.phase = r.phase + 1 /\ x.map = map
    <3>1. r.phase + 1 \in 0 .. 3
      BY <1>11, <1>15
    <3>2. PICK k \in 0 .. 3, f \in [1 .. 3 -> {"nil", "laddr", "m", "m2", "m3"}] :
            k = r.phase + 1 /\ f = map
      BY <1>7, <3>1
    <3>3. x = [r EXCEPT !.phase = k, !.map = f, !.req = FALSE, !.conn = FALSE]
      BY <3>2
    <3> HIDE DEF x
    <3>4. x \in TestRec /\ x.phase = k /\ x.map = f
      BY <1>4, <3>3 DEF TestRec
    <3> QED
      BY <3>2, <3>4
  <2> HIDE DEF x
  <2>2. /\ Ask(x, "nm") \in TestRec /\ Ask(x, "nm").phase = r.phase + 1
        /\ Ask(x, "nm").map = map
    BY <2>1 DEF Ask, TestRec
  <2>3. PICK y \in TestRec : y = Ask(x, "nm")
    BY <2>2
  <2>4. MapTest(y)
    BY <1>5, <1>8, <1>11, <1>15, <2>2, <2>3 DEF MapTest
  <2>5. MapTest(y)'
    BY <1>2, <2>4 DEF MapTest, MappedAt
  <2> QED
    BY <1>1, <1>2, <1>4, <1>15, <2>3, <2>5, GoesOnKept
<1> QED
  BY <1>3, <1>13, <1>14, <1>15

LEMMA FilteringResponseInv ==
  ASSUME NatBdInv, NEW how \in {"ok", "timeout", "refused", "bad"}, FilteringResponse(how)
  PROVE  NatBdInv'
<1> DEFINE type == FilterType(test["nf"].phase, how = "ok")
<1>1. /\ test \in [Test -> TestRec] /\ FilterTest(test["nf"]) /\ bdLost \in BOOLEAN
      /\ kind \in Kind /\ test["nf"].req
  BY NatBdTypes DEF NatBdInv, FilteringResponse
<1>2. PICK r \in TestRec : r = test["nf"]
  BY <1>1, TestNames
<1>3. Fixed /\ UNCHANGED <<nl, honest>> /\ kind' = kind
  BY DEF FilteringResponse, Fixed
<1>4. /\ how # "timeout" => Passes(r.phase)
      /\ bdLost' = (bdLost \/ (how \in {"timeout", "refused"} /\ Passes(r.phase)))
      /\ \/ TellLast("nf", TRUE, "unknown", FALSE)
         \/ how # "bad" /\ type # "more" /\ TellLast("nf", FALSE, type, FALSE)
         \/ /\ how \in {"ok", "timeout"} /\ type = "more"
            /\ test' = [test EXCEPT !["nf"].phase = @ + 1] /\ UNCHANGED natbd
  BY <1>2 DEF FilteringResponse
<1>5. type = FilterType(r.phase, how = "ok")
  BY <1>2
<1> HIDE DEF type
<1>6. bdLost' \in BOOLEAN /\ (bdLost => bdLost') /\ "nf" \in Test
  BY <1>1, <1>4, TestNames DEF Passes
<1>7. r.phase \in 0 .. 3
  BY DEF TestRec
<1>8. how # "bad" /\ type # "more" /\ ~bdLost' => type \in {"unknown", TrueKind}
  <2> HAVE how # "bad" /\ type # "more" /\ ~bdLost'
  <2>1. CASE r.phase = 2
    <3>1. how = "ok" /\ type = "indep"
      BY <1>5, <2>1 DEF FilterType
    <3>2. kind \in {"none", "indep"}
      BY <1>4, <2>1, <3>1 DEF Passes
    <3> QED
      BY <3>1, <3>2 DEF TrueKind
  <2>2. CASE r.phase = 3
    <3>1. kind \in {"addr", "addrport"}
      BY <1>1, <1>2, <1>6, <2>2 DEF FilterTest
    <3>2. CASE how = "ok"
      BY <1>4, <1>5, <2>2, <3>1, <3>2 DEF Passes, FilterType, TrueKind
    <3>3. CASE how = "timeout"
      BY <1>4, <1>5, <2>2, <3>1, <3>3 DEF Passes, FilterType, TrueKind
    <3>4. how # "refused"
      BY <1>4
    <3> QED
      BY <3>2, <3>3, <3>4
  <2>3. CASE r.phase \in {0, 1}
    BY <1>5, <2>3 DEF FilterType
  <2> QED
    BY <1>7, <2>1, <2>2, <2>3
<1>9. type \in {"indep", "addr", "addrport", "more", "unknown"}
  BY <1>5 DEF FilterType
<1>10. CASE TellLast("nf", TRUE, "unknown", FALSE)
  BY <1>3, <1>6, <1>10, TellLastInv DEF BdRes
<1>11. CASE how # "bad" /\ type # "more" /\ TellLast("nf", FALSE, type, FALSE)
  <2>1. type \in BdRes
    BY <1>9, <1>11 DEF BdRes
  <2>2. PICK v \in BdRes : v = type
    BY <2>1
  <2>3. TellLast("nf", FALSE, v, FALSE)
    BY <1>11, <2>2
  <2>4. ~bdLost' => v \in {"unknown", TrueKind}
    BY <1>8, <1>11, <2>2
  <2> QED
    BY <1>3, <1>6, <2>3, <2>4, TellLastInv
<1>12. CASE /\ how \in {"ok", "timeout"} /\ type = "more"
            /\ test' = [test EXCEPT !["nf"].phase = @ + 1] /\ UNCHANGED natbd
  <2>1. r.phase \in 0 .. 2 /\ (r.phase = 2 => how = "timeout")
    BY <1>5, <1>7, <1>12 DEF FilterType
  <2>2. PICK k \in 0 .. 3 : k = r.phase + 1
    BY <2>1
  <2>3. PICK y : y = [r EXCEPT !.phase = k]
    OBVIOUS
  <2>4. y \in TestRec /\ y.phase = k
    BY <2>3 DEF TestRec
  <2>5. test' = [test EXCEPT !["nf"] = y]
    BY <1>2, <1>12, <2>2, <2>3
  <2>6. FilterTest(y)'
    <3>1. ASSUME k = 3, ~bdLost'
          PROVE  ~Passes(2)
      <4>1. r.phase = 2
        BY <2>1, <2>2, <3>1
      <4>2. how = "timeout"
        BY <2>1, <4>1
      <4>3. ~Passes(r.phase)
        BY <1>4, <3>1, <4>2
      <4> QED
        BY <4>1, <4>3, Zenon
    <3>2. ~Passes(2) => kind \in {"addr", "addrport"}
      BY <1>1 DEF Passes, Kind
    <3> QED
      BY <1>3, <2>4, <3>1, <3>2 DEF FilterTest
  <2> QED
    BY <1>3, <1>6, <1>12, <2>4, <2>5, <2>6, GoesOnKept
<1> QED
  BY <1>4, <1>10, <1>11, <1>12

LEMMA HairpinResponseInv ==
  ASSUME NatBdInv, NEW ok \in BOOLEAN, HairpinResponse(ok)
  PROVE  NatBdInv'
<1>1. /\ test \in [Test -> TestRec] /\ bdLost \in BOOLEAN /\ "nh" \in Test
  BY NatBdTypes, TestNames DEF NatBdInv
<1>2. Fixed /\ UNCHANGED <<nl, honest, bdLost>>
  BY DEF HairpinResponse, Fixed
<1>3. CASE test["nh"].phase = 1 /\ ok
  <2>1. PICK y : y = [test["nh"] EXCEPT !.phase = 2]
    OBVIOUS
  <2>2. test["nh"] \in TestRec
    BY <1>1
  <2>3. y \in TestRec
    BY <2>1, <2>2 DEF TestRec
  <2>4. test' = [test EXCEPT !["nh"] = y] /\ UNCHANGED natbd
    BY <1>1, <1>3, <2>1 DEF HairpinResponse
  <2> QED
    BY <1>1, <1>2, <2>3, <2>4, GoesOnKept
<1>4. CASE ~(test["nh"].phase = 1 /\ ok)
  <2>1. PICK err \in BOOLEAN, v \in BdRes :
          err = (test["nh"].phase = 1) /\ v = IF ok THEN "yes" ELSE "no"
    BY DEF BdRes
  <2>2. TellLast("nh", err, v, FALSE)
    BY <1>4, <2>1 DEF HairpinResponse
  <2> QED
    BY <1>1, <1>2, <2>2, TellLastInv
<1> QED
  BY <1>3, <1>4

LEMMA GenalgResponseInv ==
  ASSUME NatBdInv, NEW ok \in BOOLEAN, NEW same \in BOOLEAN, GenalgResponse(ok, same)
  PROVE  NatBdInv'
<1>1. bdLost \in BOOLEAN /\ "ga" \in Test
  BY NatBdTypes, TestNames DEF NatBdInv
<1>2. Fixed /\ UNCHANGED <<nl, honest, bdLost>>
  BY DEF GenalgResponse, Fixed
<1>3. PICK err \in BOOLEAN, v \in BdRes : err = ~ok /\ v = IF same THEN "no" ELSE "yes"
  BY DEF BdRes
<1>4. TellLast("ga", err, v, FALSE)
  BY <1>3 DEF GenalgResponse
<1> QED
  BY <1>1, <1>2, <1>4, TellLastInv

LEMMA NatbdCloseInv ==
  ASSUME NatBdInv, NatbdClose
  PROVE  NatBdInv'
<1>1. Fixed /\ UNCHANGED <<bdLost, honest>> /\ kind' = kind
  BY DEF NatbdClose, Fixed
<1>2. /\ natbd \in BdRec /\ nl \in NlRec /\ LifeBounds(nl)
      /\ bdLost \in BOOLEAN /\ honest \in BOOLEAN
  BY NatBdTypes DEF NatBdInv
<1>3. natbd' \in BdRec /\ natbd'.res = natbd.res
  BY <1>2 DEF NatbdClose, BdRec
<1>4. nl' \in NlRec /\ nl'.min = nl.min /\ nl'.cur = nl.cur /\ nl'.max = nl.max
  BY <1>2 DEF NatbdClose, NlRec
<1>5. LifeBounds(nl)'
  BY <1>1, <1>2, <1>4 DEF LifeBounds
<1>6. NoTest \in TestRec /\ NoTest.phase = 0 /\ NoTest.req = FALSE /\ NoTest.conn = FALSE
  BY DEF NoTest, TestRec
<1>7. test' = [t \in Test |-> NoTest]
  BY DEF NatbdClose
<1>8. /\ test' \in [Test -> TestRec] /\ test'["nm"] = NoTest /\ test'["nf"] = NoTest
  BY <1>6, <1>7, TestNames
<1>9. MapTest(test["nm"])' /\ FilterTest(test["nf"])'
  BY <1>6, <1>8 DEF MapTest, FilterTest
<1>10. Results(natbd.res)'
  BY <1>1, <1>3, ResultsKept
<1> QED
  BY <1>1, <1>2, <1>3, <1>4, <1>5, <1>8, <1>9, <1>10, NatBdFromParts

(* A step of the lifetime test alone *)
LEMMA LifeStep ==
  ASSUME NatBdInv, Fixed, UNCHANGED <<test, natbd, bdLost>>, honest' \in BOOLEAN,
         nl' \in NlRec, LifeBounds(nl)'
  PROVE  NatBdInv'
<1>1. kind' = kind
  BY DEF Fixed
<1>2. natbd' \in BdRec
  BY NatBdTypes DEF NatBdInv
<1>3. Results(natbd.res)'
  BY <1>1, <1>2, ResultsKept
<1> QED
  BY <1>1, <1>2, <1>3, TestsKept, NatBdFromParts

(* The bounds after binding_expired and binding_ok *)
LEMMA BindingExpiredFields ==
  ASSUME NEW n \in NlRec, n.min <= n.cur, 1 <= n.min
  PROVE  /\ BindingExpired(n) \in NlRec /\ BindingExpired(n).min = n.min
         /\ BindingExpired(n).max = n.cur
         /\ n.min <= BindingExpired(n).cur /\ BindingExpired(n).cur <= n.cur
<1>1. n.min \in Nat /\ n.cur \in Nat
  BY DEF NlRec
<1>2. PICK k : k = (n.min + n.cur) \div 2
  OBVIOUS
<1>3. k \in Nat /\ n.min <= k /\ k <= n.cur
  BY <1>1, <1>2
<1>4. BindingExpired(n) = [n EXCEPT !.max = n.cur, !.cur = k, !.tmr = FALSE, !.ctx = TRUE]
  BY <1>2 DEF BindingExpired, StartTest, NlRec
<1>5. PICK m \in Nat : m = n.cur
  BY <1>1
<1> QED
  BY <1>3, <1>4, <1>5 DEF NlRec

LEMMA BindingOkFields ==
  ASSUME NEW n \in NlRec, n.min <= n.cur, 1 <= n.min, n.max > 0 => n.cur <= n.max
  PROVE  /\ BindingOk(n) \in NlRec /\ BindingOk(n).min = n.cur
         /\ BindingOk(n).max = n.max
         /\ n.cur <= BindingOk(n).cur
         /\ n.max > 0 => BindingOk(n).cur <= n.max
<1>1. n.min \in Nat /\ n.cur \in Nat /\ n.max \in Nat
  BY DEF NlRec
<1>2. PICK k : k = IF n.max > 0 THEN (n.cur + n.max) \div 2 ELSE 2 * n.cur
  OBVIOUS
<1>3. k \in Nat /\ n.cur <= k /\ (n.max > 0 => k <= n.max)
  BY <1>1, <1>2
<1>4. (IF n.cur > 1 THEN n.cur ELSE 1) = n.cur
  BY <1>1
<1>5. PICK m \in Nat : m = n.cur
  BY <1>1
<1>6. BindingOk(n) = [n EXCEPT !.min = m, !.cur = k, !.tmr = FALSE, !.ctx = TRUE]
  BY <1>2, <1>4, <1>5 DEF BindingOk, StartTest, NlRec
<1> QED
  BY <1>3, <1>5, <1>6 DEF NlRec

(* The lifetime test: the ends move towards each other as the probes say.  *)
LEMMA LifeStepInv ==
  ASSUME NatBdInv,
         \/ \E ok \in BOOLEAN : ResponseX(ok)
         \/ \E err \in BOOLEAN : LifetimeTimeout(err)
         \/ \E a \in {"ok", "timeout", "bad"} : ResponseY(a)
         \/ RecvY
  PROVE  NatBdInv'
<1>1. /\ nl \in NlRec /\ LifeBounds(nl) /\ honest \in BOOLEAN /\ Lifetime \in Nat
      /\ nl.min \in Nat /\ nl.cur \in Nat /\ nl.max \in Nat
  BY NatBdTypes, LifetimeAssumption DEF NatBdInv, NlRec
<1>2. /\ 1 <= nl.min /\ nl.min <= nl.cur /\ (nl.max > 0 => nl.cur <= nl.max)
      /\ honest /\ Lifetime >= 1 => nl.min <= Lifetime /\ (nl.max > 0 => Lifetime < nl.max)
  BY <1>1 DEF LifeBounds
<1>3. Fixed /\ UNCHANGED <<test, natbd, bdLost>>
  BY DEF ResponseX, LifetimeTimeout, ResponseY, RecvY, Fixed
<1> DEFINE Same(n) == n \in NlRec /\ n.min = nl.min /\ n.cur = nl.cur /\ n.max = nl.max
<1>4. ASSUME NEW n, Same(n)
      PROVE  /\ BindingExpired(n) \in NlRec /\ BindingExpired(n).min = nl.min
             /\ BindingExpired(n).max = nl.cur
             /\ nl.min <= BindingExpired(n).cur /\ BindingExpired(n).cur <= nl.cur
  BY <1>2, <1>4, BindingExpiredFields
<1>5. ASSUME NEW n, Same(n)
      PROVE  /\ BindingOk(n) \in NlRec /\ BindingOk(n).min = nl.cur
             /\ BindingOk(n).max = nl.max /\ nl.cur <= BindingOk(n).cur
             /\ nl.max > 0 => BindingOk(n).cur <= nl.max
  BY <1>2, <1>5, BindingOkFields
<1>6. ASSUME Same(nl'), honest' \in BOOLEAN, honest' => honest
      PROVE  nl' \in NlRec /\ LifeBounds(nl)'
  BY <1>2, <1>6 DEF LifeBounds
<1>7. ASSUME NEW n, Same(n), nl' = BindingExpired(n), honest' \in BOOLEAN,
             honest' => honest /\ Lifetime < nl.cur
      PROVE  nl' \in NlRec /\ LifeBounds(nl)'
  <2>1. PICK b : b = BindingExpired(n)
    OBVIOUS
  <2>2. /\ b \in NlRec /\ b.min = nl.min /\ b.max = nl.cur /\ nl.min <= b.cur
        /\ b.cur <= nl.cur /\ b.cur \in Nat
    BY <1>4, <1>7, <2>1 DEF NlRec
  <2>3. nl' = b
    BY <1>7, <2>1
  <2> QED
    BY <1>1, <1>2, <1>7, <2>2, <2>3 DEF LifeBounds
<1>8. ASSUME NEW n, Same(n), nl' = BindingOk(n), honest' \in BOOLEAN, honest' => honest,
             nl.cur <= Lifetime
      PROVE  nl' \in NlRec /\ LifeBounds(nl)'
  <2>1. PICK b : b = BindingOk(n)
    OBVIOUS
  <2>2. /\ b \in NlRec /\ b.min = nl.cur /\ b.max = nl.max /\ nl.cur <= b.cur
        /\ (nl.max > 0 => b.cur <= nl.max) /\ b.cur \in Nat
    BY <1>5, <1>8, <2>1 DEF NlRec
  <2>3. nl' = b
    BY <1>8, <2>1
  <2> QED
    BY <1>1, <1>2, <1>8, <2>2, <2>3 DEF LifeBounds
<1>9. Same(nl)
  BY <1>1
<1>10. ASSUME NEW ok \in BOOLEAN, ResponseX(ok)
       PROVE  NatBdInv'
  <2>1. honest' \in BOOLEAN /\ (honest' => honest /\ ok) /\ (ok => (honest' = honest))
    BY <1>1, <1>10 DEF ResponseX
  <2>2. CASE ok
    <3>1. Same(nl') /\ (honest' => honest)
      BY <1>1, <1>10, <2>1, <2>2 DEF ResponseX, NlRec
    <3> QED
      BY <1>3, <1>6, <2>1, <3>1, LifeStep
  <2>3. CASE ~ok
    <3>1. nl' = BindingExpired(nl) /\ ~honest'
      BY <1>10, <2>1, <2>3 DEF ResponseX
    <3> HIDE DEF Same
    <3> QED
      BY <1>3, <1>7, <1>9, <2>1, <3>1, LifeStep
  <2> QED
    BY <2>2, <2>3
<1>11. ASSUME NEW err \in BOOLEAN, LifetimeTimeout(err)
       PROVE  NatBdInv'
  <2>1. honest' = honest
    BY <1>11 DEF LifetimeTimeout
  <2>2. Same(nl')
    BY <1>1, <1>11 DEF LifetimeTimeout, StartTest, NlRec
  <2> HIDE DEF Same
  <2> QED
    BY <1>1, <1>3, <1>6, <2>1, <2>2, LifeStep
<1>12. ASSUME NEW a \in {"ok", "timeout", "bad"}, ResponseY(a)
       PROVE  NatBdInv'
  <2>1. PICK n : n = [nl EXCEPT !.cty = FALSE]
    OBVIOUS
  <2>2. Same(n)
    BY <1>1, <2>1 DEF NlRec
  <2>3. /\ honest' = (honest /\ (a = "timeout" => nl.cur > Lifetime))
        /\ a = "ok" => nl.cur <= Lifetime
        /\ a = "ok" => nl' = BindingOk(n)
        /\ a = "timeout" => nl' = BindingExpired(n)
        /\ a = "bad" => nl' = n
    BY <1>12, <2>1 DEF ResponseY
  <2>4. honest' \in BOOLEAN /\ (honest' => honest) /\ (a = "timeout" /\ honest' => Lifetime < nl.cur)
    BY <1>1, <2>3
  <2> HIDE DEF Same
  <2>5. CASE a = "ok"
    BY <1>3, <1>8, <2>2, <2>3, <2>4, <2>5, LifeStep
  <2>6. CASE a = "timeout"
    BY <1>3, <1>7, <2>2, <2>3, <2>4, <2>6, LifeStep
  <2>7. CASE a = "bad"
    <3>1. Same(nl')
      BY <2>2, <2>3, <2>7
    <3> QED
      BY <1>3, <1>6, <2>4, <3>1, LifeStep
  <2> QED
    BY <2>5, <2>6, <2>7
<1>13. ASSUME RecvY
       PROVE  NatBdInv'
  <2>1. nl' = BindingExpired(nl) /\ honest' = FALSE
    BY <1>13 DEF RecvY
  <2> HIDE DEF Same
  <2> QED
    BY <1>3, <1>7, <1>9, <2>1, LifeStep
<1> QED
  BY <1>10, <1>11, <1>12, <1>13

LEMMA NatBdNextInv == NatBdInv /\ [NatBdNext]_bdVars => NatBdInv'
<1> SUFFICES ASSUME NatBdInv, [NatBdNext]_bdVars
             PROVE  NatBdInv'
  OBVIOUS
<1>1. CASE \E err \in BOOLEAN, f \in {{}, {"nm"}, {"nf", "nh"}} : DnsHandler(err, f)
  BY <1>1, DnsHandlerInv
<1>2. CASE \E f \in {{}, {"nm"}, {"nf", "nh"}} : BdTimeout(f)
  BY <1>2, BdTimeoutInv
<1>3. CASE \E t \in Test : TcpEstab(t) \/ \E err \in BOOLEAN : BdTcpClose(t, err)
  BY <1>3, TcpEstabInv, BdTcpCloseInv
<1>4. CASE \E ok \in BOOLEAN : MappingResponse(ok) \/ HairpinResponse(ok)
  BY <1>4, MappingResponseInv, HairpinResponseInv
<1>5. CASE \E a \in {"ok", "timeout", "refused", "bad"} : FilteringResponse(a)
  BY <1>5, FilteringResponseInv
<1>6. CASE \E ok, same \in BOOLEAN : GenalgResponse(ok, same)
  BY <1>6, GenalgResponseInv
<1>7. CASE \/ \E ok \in BOOLEAN : ResponseX(ok)
           \/ \E err \in BOOLEAN : LifetimeTimeout(err)
           \/ \E a \in {"ok", "timeout", "bad"} : ResponseY(a)
           \/ RecvY
  BY <1>7, LifeStepInv
<1>8. CASE NatbdClose
  BY <1>8, NatbdCloseInv
<1>9. CASE UNCHANGED bdVars
  <2>1. Fixed /\ UNCHANGED <<test, natbd, bdLost, nl, honest>>
    BY <1>9 DEF bdVars, Fixed
  <2>2. LifeBounds(nl)' /\ nl' \in NlRec /\ honest' \in BOOLEAN
    BY <2>1, LifeKept
  <2> QED
    BY <2>1, <2>2, LifeStep
<1> QED
  BY <1>1, <1>2, <1>3, <1>4, <1>5, <1>6, <1>7, <1>8, <1>9 DEF NatBdNext

LEMMA NatBdInvTrue == NatBdInv => DiscoveryTrue
BY DEF NatBdInv, Results, TrueKind, LifeBounds, DiscoveryTrue

(* The checks of ICE (ice/connchk.c, chklist.c) select a valid pair of     *)
(* their component, say that they succeeded only when every component has  *)
(* one, and always wait for their timer or an answer; and the discovery    *)
(* (natbd/*.c) reports the mapping, the filtering and the lifetime that    *)
(* the NAT has.                                                            *)
THEOREM PathsSound == IceSpec /\ NatBdSpec => []PathSound
<1>1. IceInit => IceInv
  BY IceInitInv
<1>2. IceInv /\ [IceNext]_iceVars => IceInv'
  BY IceNextInv
<1>3. NatBdInit => NatBdInv
  BY NatBdInitInv
<1>4. NatBdInv /\ [NatBdNext]_bdVars => NatBdInv'
  BY NatBdNextInv
<1>5. IceInv /\ NatBdInv => PathSound
  BY IceInvSound, NatBdInvTrue DEF PathSound
<1> QED
  BY <1>1, <1>2, <1>3, <1>4, <1>5, PTL DEF IceSpec, NatBdSpec
=============================================================================
