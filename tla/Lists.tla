------------------------------- MODULE Lists -------------------------------
(***************************************************************************)
(* The containers every module of the library is built on: doubly linked   *)
(* lists (list/list.c), hash tables of them (hash/hash.c) and reference    *)
(* counted memory (mem/mem.c).  A link element is part of an object; the   *)
(* object's destructor unlinks it.  The pointers are modelled as they are, *)
(* seqs is what the lists should hold.                                     *)
(***************************************************************************)
EXTENDS Integers, FiniteSets, SequencesExt

CONSTANTS
  Elem,        \* objects, each with one link element
  Bsize,       \* buckets of the hash table, which are lists
  Key,         \* the hash key of an object
  Prio,        \* what list_sort compares
  Threshold    \* mem_threshold_set: blocks that can be allocated

ASSUME ListsAssumption ==
  /\ Bsize \in Nat \ {0} /\ Threshold \in Nat
  /\ Key \in [Elem -> Nat] /\ Prio \in [Elem -> Nat]

List == 0 .. Bsize - 1
NoLe == "nil"
NoList == -1

VARIABLES
  lp,          \* the pointers: head and tail, and next, prev, list of a le
  nrefs,       \* references of an object, 0 when it is not allocated
  memstat,     \* memstat.blocks_cur
  seqs         \* the lists as sequences

listVars == <<lp, nrefs, memstat, seqs>>

ListsInit ==
  /\ lp = [head |-> [l \in List |-> NoLe], tail |-> [l \in List |-> NoLe],
           next |-> [e \in Elem |-> NoLe], prev |-> [e \in Elem |-> NoLe],
           list |-> [e \in Elem |-> NoList]]
  /\ nrefs = [e \in Elem |-> 0] /\ memstat = 0
  /\ seqs = [l \in List |-> <<>>]

----------------------------------------------------------------------------
(* Setting a pointer of an element that is not there changes nothing. *)
SetNext(p, e, v) == IF e = NoLe THEN p ELSE [p EXCEPT !.next[e] = v]
SetPrev(p, e, v) == IF e = NoLe THEN p ELSE [p EXCEPT !.prev[e] = v]

list_append(p, l, e) ==
  SetNext([p EXCEPT !.prev[e] = p.tail[l], !.next[e] = NoLe, !.list[e] = l,
             !.head[l] = IF @ = NoLe THEN e ELSE @, !.tail[l] = e],
          p.tail[l], e)

list_prepend(p, l, e) ==
  SetPrev([p EXCEPT !.prev[e] = NoLe, !.next[e] = p.head[l], !.list[e] = l,
             !.tail[l] = IF @ = NoLe THEN e ELSE @, !.head[l] = e],
          p.head[l], e)

list_insert_before(p, l, le, e) ==
  LET q == IF p.prev[le] # NoLe THEN SetNext(p, p.prev[le], e)
           ELSE IF p.head[l] = le THEN [p EXCEPT !.head[l] = e] ELSE p
  IN [q EXCEPT !.prev[e] = p.prev[le], !.next[e] = le, !.list[e] = l,
               !.prev[le] = e]

list_insert_after(p, l, le, e) ==
  LET q == IF p.next[le] # NoLe THEN SetPrev(p, p.next[le], e)
           ELSE IF p.tail[l] = le THEN [p EXCEPT !.tail[l] = e] ELSE p
  IN [q EXCEPT !.prev[e] = le, !.next[e] = p.next[le], !.list[e] = l,
               !.next[le] = e]

(* Mutant: the tail stays when the last element goes. *)
list_unlink_Tail(p, e) ==
  IF p.list[e] = NoList THEN p
  ELSE LET l == p.list[e]
           q == IF p.prev[e] # NoLe THEN SetNext(p, p.prev[e], p.next[e])
                ELSE [p EXCEPT !.head[l] = p.next[e]]
           r == SetPrev(q, p.next[e], p.prev[e])
       IN [r EXCEPT !.next[e] = NoLe, !.prev[e] = NoLe, !.list[e] = NoList]

list_unlink(p, e) ==
  IF p.list[e] = NoList THEN p
  ELSE LET l == p.list[e]
           q == IF p.prev[e] # NoLe THEN SetNext(p, p.prev[e], p.next[e])
                ELSE [p EXCEPT !.head[l] = p.next[e]]
           r == IF p.next[e] # NoLe THEN SetPrev(q, p.next[e], p.prev[e])
                ELSE [q EXCEPT !.tail[l] = p.prev[e]]
       IN [r EXCEPT !.next[e] = NoLe, !.prev[e] = NoLe, !.list[e] = NoList]

(* list_apply with a handler that never says stop, forwards or backwards:  *)
(* the next element is read before the handler of this one is called.      *)
list_apply(p, l, fwd) ==
  LET to(e) == IF fwd THEN p.next[e] ELSE p.prev[e]
      walk[n \in 0 .. Cardinality(Elem)] ==
        IF n = 0 THEN IF fwd THEN <<p.head[l]>> ELSE <<p.tail[l]>>
        ELSE LET w == walk[n - 1]
             IN IF w[Len(w)] = NoLe THEN w ELSE Append(w, to(w[Len(w)]))
  IN SelectSeq(walk[Cardinality(Elem)], LAMBDA e : e # NoLe)

(* list_sort, one pass: an element that is not in order with the next one  *)
(* is unlinked and inserted after it.                                      *)
SortStep(acc) ==
  LET e == acc.le
      n == acc.p.next[e]
  IN IF e = NoLe THEN acc
     ELSE IF n = NoLe THEN acc
     ELSE IF Prio[e] >= Prio[n] THEN [acc EXCEPT !.le = n]
     ELSE [acc EXCEPT !.p = list_insert_after(list_unlink(acc.p, e),
                                              acc.p.list[e], n, e)]

SortPass(p, l) ==
  MapThenFoldSet(LAMBDA x, acc : SortStep(acc), [p |-> p, le |-> p.head[l]],
                 LAMBDA x : x, LAMBDA S : CHOOSE x \in S : TRUE, Elem).p

(* list_sort: passes until one changes nothing; no more than elements are  *)
(* needed.                                                                 *)
list_sort(p, l) ==
  MapThenFoldSet(LAMBDA x, acc : SortPass(acc, l), p,
                 LAMBDA x : x, LAMBDA S : CHOOSE x \in S : TRUE, Elem)

(* list_flush and list_clear, and the elements on the way *)
Emptied(p, l) ==
  LET gone == {e \in Elem : p.list[e] = l}
  IN [head |-> [p.head EXCEPT ![l] = NoLe], tail |-> [p.tail EXCEPT ![l] = NoLe],
      next |-> [e \in Elem |-> IF e \in gone THEN NoLe ELSE p.next[e]],
      prev |-> [e \in Elem |-> IF e \in gone THEN NoLe ELSE p.prev[e]],
      list |-> [e \in Elem |-> IF e \in gone THEN NoList ELSE p.list[e]]]

(* hash_append, hash_lookup and hash_list: the bucket of a key *)
Bucket(e) == Key[e] % Bsize

(* hash_valid_size: the least power of two that is not below size *)
hash_valid_size(size) ==
  CHOOSE v \in {2 ^ x : x \in 0 .. 31} :
    /\ v >= size \/ v = 2 ^ 31
    /\ \A w \in {2 ^ x : x \in 0 .. 31} : w < v => w < size

----------------------------------------------------------------------------
Live == {e \in Elem : nrefs[e] > 0}
Linked == {e \in Elem : lp.list[e] # NoList}
Without(s, e) == SelectSeq(s, LAMBDA x : x # e)
At(s, e) == CHOOSE i \in 1 .. Len(s) : s[i] = e

(* mem_alloc and mem_zalloc: nothing is allocated beyond the threshold. *)
MemAlloc(e) ==
  /\ nrefs[e] = 0 /\ memstat < Threshold
  /\ nrefs' = [nrefs EXCEPT ![e] = 1] /\ memstat' = memstat + 1
  /\ UNCHANGED <<lp, seqs>>

MemRef(e) ==
  /\ nrefs[e] = 1
  /\ nrefs' = [nrefs EXCEPT ![e] = 2]
  /\ UNCHANGED <<lp, memstat, seqs>>

(* Mutant: an object is freed while it is linked. *)
Destroyed_Linked(p, e) == p

(* A destroy handler of the library's objects *)
Destroyed(p, e) == list_unlink(p, e)

(* mem_deref: the last reference runs the destroy handler. *)
MemDeref(e) ==
  /\ e \in Live
  /\ nrefs' = [nrefs EXCEPT ![e] = @ - 1]
  /\ IF nrefs[e] > 1 THEN UNCHANGED <<lp, memstat, seqs>>
     ELSE /\ lp' = Destroyed(lp, e) /\ memstat' = memstat - 1
          /\ seqs' = [l \in List |-> Without(seqs[l], e)]

(* Linking: an element that is linked already is left alone. *)
Link(e, p, l, s) ==
  /\ e \in Live \ Linked
  /\ lp' = p /\ seqs' = [seqs EXCEPT ![l] = s]
  /\ UNCHANGED <<nrefs, memstat>>

ListAppend(l, e) == Link(e, list_append(lp, l, e), l, Append(seqs[l], e))
HashAppend(e) == ListAppend(Bucket(e), e)
ListPrepend(l, e) == Link(e, list_prepend(lp, l, e), l, <<e>> \o seqs[l])

ListInsert(le, e, after) ==
  /\ le \in Linked /\ e # le
  /\ LET l == lp.list[le]
         i == At(seqs[l], le)
     IN IF after THEN Link(e, list_insert_after(lp, l, le, e), l,
                           InsertAt(seqs[l], i + 1, e))
        ELSE Link(e, list_insert_before(lp, l, le, e), l, InsertAt(seqs[l], i, e))

ListUnlink(e) ==
  /\ e \in Linked
  /\ lp' = list_unlink(lp, e)
  /\ seqs' = [seqs EXCEPT ![lp.list[e]] = Without(@, e)]
  /\ UNCHANGED <<nrefs, memstat>>

(* Elements of equal rank keep their order. *)
StableSorted(s) ==
  CHOOSE t \in [1 .. Len(s) -> {s[i] : i \in 1 .. Len(s)}] :
    /\ \A i, j \in 1 .. Len(s) : i < j => t[i] # t[j]
    /\ \A i, j \in 1 .. Len(s) : i < j =>
         \/ Prio[t[i]] > Prio[t[j]]
         \/ Prio[t[i]] = Prio[t[j]] /\ At(s, t[i]) < At(s, t[j])

ListSort(l) ==
  /\ seqs[l] # <<>>
  /\ lp' = list_sort(lp, l) /\ seqs' = [seqs EXCEPT ![l] = StableSorted(@)]
  /\ UNCHANGED <<nrefs, memstat>>

(* list_flush gives up a reference of every object, list_clear of none;    *)
(* hash_flush and hash_clear do so for every bucket.                       *)
Drop(ls, flush) ==
  LET gone == {e \in Linked : lp.list[e] \in ls}
      left(e) == IF flush /\ e \in gone THEN nrefs[e] - 1 ELSE nrefs[e]
      p == IF Cardinality(ls) = 1 THEN Emptied(lp, CHOOSE l \in ls : TRUE)
           ELSE MapThenFoldSet(LAMBDA l, q : Emptied(q, l), lp, LAMBDA l : l,
                               LAMBDA S : CHOOSE l \in S : TRUE, ls)
  IN /\ gone # {}
     /\ lp' = p /\ nrefs' = [e \in Elem |-> left(e)]
     /\ memstat' = Cardinality({e \in Elem : left(e) > 0})
     /\ seqs' = [l \in List |-> IF l \in ls THEN <<>> ELSE seqs[l]]

ListsNext ==
  \/ \E e \in Elem : MemAlloc(e) \/ MemRef(e) \/ MemDeref(e) \/ HashAppend(e)
                     \/ ListUnlink(e)
  \/ \E e \in Elem, l \in List : ListAppend(l, e) \/ ListPrepend(l, e)
  \/ \E le, e \in Elem, after \in BOOLEAN : ListInsert(le, e, after)
  \/ \E l \in List : ListSort(l)
  \/ \E ls \in {{l} : l \in List} \cup {List}, flush \in BOOLEAN : Drop(ls, flush)

----------------------------------------------------------------------------
Reversed(s) == [i \in 1 .. Len(s) |-> s[Len(s) + 1 - i]]

(* The pointers always describe the lists the callers meant to have, read  *)
(* from either end; only allocated objects are on them, each in one place, *)
(* and memory is accounted for (list.c, hash.c, mem.c).                    *)
ListsSound ==
  /\ lp \in [head : [List -> Elem \cup {NoLe}], tail : [List -> Elem \cup {NoLe}],
       next : [Elem -> Elem \cup {NoLe}], prev : [Elem -> Elem \cup {NoLe}],
       list : [Elem -> List \cup {NoList}]]
  /\ \A l \in List : /\ list_apply(lp, l, TRUE) = seqs[l]
                     /\ list_apply(lp, l, FALSE) = Reversed(seqs[l])
                     /\ \A i \in 1 .. Len(seqs[l]) : lp.list[seqs[l][i]] = l
  /\ Linked \subseteq Live
  /\ \A e \in Elem \ Linked : lp.next[e] = NoLe /\ lp.prev[e] = NoLe
  /\ memstat = Cardinality(Live) /\ memstat <= Threshold
=============================================================================
