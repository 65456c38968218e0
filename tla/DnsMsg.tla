------------------------------- MODULE DnsMsg -------------------------------
(***************************************************************************)
(* DNS messages: dns/dname.c, rr.c, cstr.c, hdr.c and rrlist.c.  A message *)
(* is a sequence of octets.  The name of a record, and the names in its    *)
(* data, end in a pointer to an earlier place of the message as soon as    *)
(* what is left of them is already there; the table of those places is the *)
(* hash table that dns_rr_encode is given.  The records that were decoded  *)
(* are then searched, following CNAMEs, and sorted.  A message may also be *)
(* one that no encoder made: any octets where names are expected, and      *)
(* records with an octet changed or the end missing.                       *)
(*                                                                         *)
(* A name is the sequence of its labels, a label a sequence of letters, in *)
(* ASCII; names compare without case.                                      *)
(***************************************************************************)
EXTENDS Integers, Sequences, FiniteSets, SequencesExt

CONSTANTS
  Rrs,           \* resource records
  Headers,       \* message headers
  MaxRr,         \* records of a message
  Starts,        \* places of the buffer at which the message starts
  OffsetMask,    \* OFFSET_MASK
  CompLoop,      \* COMP_LOOP
  NameBuf,       \* sizeof(buf) of dns_dname_decode
  CnameMax,      \* CNAME_RECURSE_MAX
  TtlOffs,       \* ttl_offs of dns_rr_encode
  ForeignLen,    \* length of a message that was not made by an encoder
  ForeignOctets, \* the octets it has
  ChangedOctets  \* what an octet of an encoded record may be changed to

VARIABLES
  dmsg,          \* the message: header, number of records, start, and who
                 \* made it
  denc,          \* the buffer and the table of names
  rrl,           \* the records that were encoded
  ddec           \* the decoder: position, records so far, state

dnsMsgVars == <<dmsg, denc, rrl, ddec>>

Folded(name) ==
  [i \in DOMAIN name |->
    [j \in DOMAIN name[i] |-> IF name[i][j] >= 97 THEN name[i][j] - 32 ELSE name[i][j]]]

Num(w, v) == [i \in 1 .. w |-> (v \div 256^(w - i)) % 256]
(* Of four octets, the lower 30 bits: nothing depends on the others.       *)
NumAt(buf, w, pos) ==
  FoldLeft(LAMBDA v, i : 256 * (v % 2^22) + buf[pos + i], 0, [i \in 1 .. w |-> i])

----------------------------------------------------------------------------
(* dns_hdr_encode and dns_hdr_decode *)
Bits == <<"rcode", "z", "ra", "rd", "tc", "aa", "opcode", "qr">>
BitsAt == <<0, 4, 7, 8, 9, 10, 11, 15>>
BitsMask == <<16, 8, 2, 2, 2, 2, 16, 2>>

dns_hdr_encode(hdr, nans) ==
  Num(2, hdr.id)
  \o Num(2, FoldLeft(LAMBDA v, i : v + hdr[Bits[i]] * 2^BitsAt[i], 0, [i \in 1 .. 8 |-> i]))
  \o Num(2, 0) \o Num(2, nans) \o Num(2, 0) \o Num(2, 0)

dns_hdr_decode(buf, pos) ==
  LET flags == NumAt(buf, 2, pos + 2) IN
  [f \in ToSet(Bits) \cup {"id"} |->
    IF f = "id" THEN NumAt(buf, 2, pos)
    ELSE LET i == CHOOSE i \in 1 .. 8 : Bits[i] = f IN
         (flags \div 2^BitsAt[i]) % BitsMask[i]]

----------------------------------------------------------------------------
(* dname_lookup: the place of a name, without case *)
Places(e, name) == {p \in e.places : p.name = Folded(name)}

(* Mutant: a place that no pointer can hold is remembered too. *)
dname_append_Far(e, name, start) ==
  IF Places(e, name) # {} THEN e
  ELSE [e EXCEPT !.places = @ \cup {[name |-> Folded(name), pos |-> Len(e.buf) - start]}]

(* dname_append, of a name that is not there yet *)
dname_append(e, name, start) ==
  IF Places(e, name) # {} \/ Len(e.buf) - start > OffsetMask THEN e
  ELSE [e EXCEPT !.places = @ \cup {[name |-> Folded(name), pos |-> Len(e.buf) - start]}]

Write(e, octets) == [e EXCEPT !.buf = @ \o octets]

(* dname_encode_pointer *)
Pointer(e, name) ==
  LET p == CHOOSE p \in Places(e, name) : TRUE IN
  Num(2, 192 * 256 + p.pos)

(* One turn of the loop of dns_dname_encode, for the label where suffix    *)
(* begins: the rest is a pointer, or the label is written.                 *)
EncodeLabel(e, suffix, start, comp) ==
  IF e.done THEN e
  ELSE IF comp /\ Places(e, suffix) # {}
  THEN [Write(e, Pointer(e, suffix)) EXCEPT !.done = TRUE]
  ELSE Write(dname_append(e, suffix, start), <<Len(suffix[1])>> \o suffix[1])

dns_dname_encode(e, name, start, comp) ==
  IF name = <<>>
  THEN IF comp /\ Places(e, name) # {} THEN Write(e, Pointer(e, name))
       ELSE Write(dname_append(e, name, start), <<0>>)
  ELSE LET f == FoldLeft(LAMBDA g, i : EncodeLabel(g, SubSeq(name, i, Len(name)), start, comp),
                         [e EXCEPT !.done = FALSE], [i \in DOMAIN name |-> i])
       IN  IF f.done THEN f ELSE Write(f, <<0>>)

(* Mutant: pointers are followed without end. *)
Looping_Never(d) == FALSE

(* The decoder of a name: d.pos is mb->pos, d.back the place after the     *)
(* first pointer, d.i how much of buf is written; d.full says that a label *)
(* came when all of buf but the last octet was.                            *)
Looping(d) == d.loopc > CompLoop

(* The room is counted without sign: less than none is any.                *)
Room(d) == NameBuf - d.i - 2
NoRoom(d, len) == Room(d) >= 0 /\ len > Room(d)

(* A pointer whose second octet is missing reads as 0, and is not passed.  *)
FollowPointer(buf, start, d) ==
  LET there == d.pos + 2 <= Len(buf)
      offset == IF there THEN NumAt(buf, 2, d.pos) % (OffsetMask + 1) ELSE 0
  IN [d EXCEPT !.loopc = @ + 1, !.comp = TRUE, !.pos = offset + start,
        !.back = IF d.comp THEN @ ELSE IF there THEN d.pos + 2 ELSE d.pos]

DecodeLabel(buf, start, d) ==
  LET len == buf[d.pos + 1]
      err == [d EXCEPT !.st = "err"]
  IN
  IF d.pos >= Len(buf) THEN err
  ELSE IF len = 0 THEN [d EXCEPT !.st = "ok", !.pos = @ + 1, !.i = @ + 1]
  ELSE IF len >= 192 THEN IF Looping(d) THEN err ELSE FollowPointer(buf, start, d)
  ELSE IF len > Len(buf) - d.pos - 1 \/ NoRoom(d, len) THEN err
  ELSE [d EXCEPT !.pos = @ + 1 + len, !.full = @ \/ d.i = NameBuf - 1,
          !.i = @ + len + (IF d.i > 0 THEN 1 ELSE 0),
          !.name = Append(@, SubSeq(buf, d.pos + 2, d.pos + 1 + len))]

(* The loop; a name that is read with the most pointers there can be, all  *)
(* of the message after each, has ended.                                   *)
RECURSIVE DecodeName(_, _, _, _)
DecodeName(buf, start, d, turns) ==
  IF d.st # "more" \/ turns = 0 THEN d
  ELSE DecodeName(buf, start, DecodeLabel(buf, start, d), turns - 1)

(* Mutant: reading goes on where the pointer led to. *)
AfterName_There(d) == d.pos

(* After a name with a pointer, reading goes on behind the first one. *)
AfterName(d) == IF d.comp THEN d.back ELSE d.pos

(* What the reader is told of a name, and what is checked of it *)
NameRead(d) ==
  [ok |-> d.st = "ok", name |-> d.name, pos |-> AfterName(d),
   ended |-> d.st # "more", within |-> d.i <= NameBuf, full |-> d.full]

dns_dname_decode(buf, pos, start) ==
  NameRead(DecodeName(buf, start,
             [pos |-> pos, i |-> 0, loopc |-> 0, comp |-> FALSE, back |-> 0,
              name |-> <<>>, st |-> "more", full |-> FALSE],
             (CompLoop + 2) * (Len(buf) + 1)))

----------------------------------------------------------------------------
(* The data of a record: fields of w octets, strings and names.            *)
(* comp says whether a name may end in a pointer.                          *)
Fields(type) ==
  CASE type = "a" -> <<[k |-> "num", w |-> 4]>>
    [] type = "aaaa" -> <<[k |-> "num", w |-> 16]>>
    [] type \in {"ns", "cname", "ptr"} -> <<[k |-> "name", comp |-> TRUE]>>
    [] type = "soa" ->
         <<[k |-> "name", comp |-> TRUE], [k |-> "name", comp |-> TRUE],
           [k |-> "num", w |-> 20]>>
    [] type = "mx" -> <<[k |-> "num", w |-> 2], [k |-> "name", comp |-> TRUE]>>
    [] type = "srv" ->
         <<[k |-> "num", w |-> 2], [k |-> "num", w |-> 2], [k |-> "num", w |-> 2],
           [k |-> "name", comp |-> FALSE]>>
    [] type = "naptr" ->
         <<[k |-> "num", w |-> 2], [k |-> "num", w |-> 2], [k |-> "str"], [k |-> "str"],
           [k |-> "str"], [k |-> "name", comp |-> FALSE]>>
    [] OTHER -> <<>>

TypeCode ==
  [a |-> 1, ns |-> 2, cname |-> 5, soa |-> 6, ptr |-> 12, mx |-> 15, aaaa |-> 28,
   srv |-> 33, naptr |-> 35]

TypeOf(code) ==
  IF \E t \in DOMAIN TypeCode : TypeCode[t] = code
  THEN CHOOSE t \in DOMAIN TypeCode : TypeCode[t] = code ELSE "other"

(* A number wider than 4 octets is one value, repeated in every word. *)
Wide(w, v) == IF w <= 4 THEN Num(w, v) ELSE FlattenSeq([i \in 1 .. w \div 4 |-> Num(4, v)])

(* dns_cstr_encode is the "str" case: the length and the letters. *)
EncodeField(e, field, value, start) ==
  CASE field.k = "num" -> Write(e, Wide(field.w, value))
    [] field.k = "str" -> Write(e, <<Len(value)>> \o value)
    [] field.k = "name" -> dns_dname_encode(e, value, start, field.comp)

Ttl(rr) == IF rr.ttl > TtlOffs THEN rr.ttl - TtlOffs ELSE 0

(* The length of the data is filled in when the data is there. *)
dns_rr_encode(e, rr, start) ==
  LET h == Write(dns_dname_encode(e, rr.name, start, TRUE),
                 Num(2, TypeCode[rr.type]) \o Num(2, 1) \o Num(4, Ttl(rr)) \o Num(2, 0))
      at == Len(h.buf)
      d == FoldLeft(LAMBDA f, i : EncodeField(f, Fields(rr.type)[i], rr.data[i], start),
                    h, [i \in DOMAIN rr.data |-> i])
      len == Num(2, Len(d.buf) - at)
  IN  [d EXCEPT !.buf[at - 1] = len[1], !.buf[at] = len[2]]

WithName(r, n) ==
  [r EXCEPT !.ok = n.ok, !.pos = n.pos, !.data = Append(@, n.name), !.names = @ \cup {n}]

(* One field: there must be room for it in what is left of the buffer. *)
DecodeField(buf, start, r, field) ==
  IF ~r.ok THEN r
  ELSE CASE field.k = "num" ->
         IF Len(buf) - r.pos < field.w THEN [r EXCEPT !.ok = FALSE]
         ELSE [r EXCEPT !.pos = @ + field.w,
                 !.data = Append(@, NumAt(buf, IF field.w > 4 THEN 4 ELSE field.w, r.pos))]
    [] field.k = "str" ->
         IF Len(buf) - r.pos < 1 \/ Len(buf) - r.pos - 1 < buf[r.pos + 1]
         THEN [r EXCEPT !.ok = FALSE]
         ELSE [r EXCEPT !.pos = @ + 1 + buf[r.pos + 1],
                 !.data = Append(@, SubSeq(buf, r.pos + 2, r.pos + 1 + buf[r.pos + 1]))]
    [] field.k = "name" -> WithName(r, dns_dname_decode(buf, r.pos, start))

FixedLength(type, rdlen) ==
  (type = "a" => rdlen = 4) /\ (type = "aaaa" => rdlen = 16)

NoRr(names) == [ok |-> FALSE, names |-> names]

(* The record with its data r; that of a type that is not known is passed. *)
RrRead(buf, n, type, rdlen, r) ==
  IF ~r.ok THEN NoRr(r.names)
  ELSE [ok |-> TRUE, names |-> r.names,
        pos |-> r.pos + (IF type = "other" THEN rdlen ELSE 0),
        rr |-> [name |-> n.name, type |-> type, ttl |-> NumAt(buf, 4, n.pos + 4),
                data |-> r.data]]

(* Behind the name n: addresses have their length, that of other data is   *)
(* not looked at.                                                          *)
RrBehind(buf, start, n) ==
  IF ~n.ok \/ Len(buf) - n.pos < 10 THEN NoRr({n})
  ELSE LET type == TypeOf(NumAt(buf, 2, n.pos))
           rdlen == NumAt(buf, 2, n.pos + 8)
       IN
       IF Len(buf) - n.pos - 10 < rdlen \/ ~FixedLength(type, rdlen) THEN NoRr({n})
       ELSE RrRead(buf, n, type, rdlen,
              FoldLeft(LAMBDA s, f : DecodeField(buf, start, s, f),
                       [ok |-> TRUE, pos |-> n.pos + 10, data |-> <<>>, names |-> {n}],
                       Fields(type)))

dns_rr_decode(buf, pos, start) == RrBehind(buf, start, dns_dname_decode(buf, pos, start))

(* dns_rr_cmp: names without case, the rest exactly *)
dns_rr_cmp(r1, r2) ==
  /\ r1.type = r2.type /\ Folded(r1.name) = Folded(r2.name)
  /\ \A i \in DOMAIN r1.data :
       IF Fields(r1.type)[i].k = "name" THEN Folded(r1.data[i]) = Folded(r2.data[i])
       ELSE r1.data[i] = r2.data[i]

----------------------------------------------------------------------------
(* rrlist_apply with find_handler: records of the type, or CNAMEs, of the  *)
(* name; a CNAME is followed in the whole list, and counts for the ones    *)
(* after it as well.  0 is NULL.                                           *)
Names(list) ==
  {Folded(list[i].name) : i \in DOMAIN list}
  \cup {Folded(list[i].data[1]) : i \in {j \in DOMAIN list : list[j].type = "cname"}}

(* Mutant: a CNAME leads to the records behind it only. *)
FollowFrom_Next(i) == i + 1

FollowFrom(i) == 1

dns_rrlist_find(list, name, type) ==
  LET apply[depth \in 0 .. CnameMax + 1, n \in Names(list), from \in 1 .. Len(list) + 1] ==
        IF depth > CnameMax THEN 0
        ELSE FoldLeft(
          LAMBDA a, i :
            IF a.r # 0 \/ Folded(list[i].name) # n \/ i < from THEN a
            ELSE IF list[i].type = type THEN [a EXCEPT !.r = i]
            ELSE IF list[i].type = "cname" /\ a.depth <= CnameMax
            THEN [r |-> apply[a.depth + 1, Folded(list[i].data[1]), FollowFrom(i)],
                  depth |-> a.depth + 1]
            ELSE a,
          [r |-> 0, depth |-> depth], [i \in DOMAIN list |-> i]).r
  IN  apply[0, name, 1]

(* std_sort_handler: may r1 stand before r2? *)
std_sort_handler(type, r1, r2) ==
  IF type # r1.type THEN type # r2.type
  ELSE IF type # r2.type THEN TRUE
  ELSE CASE type = "mx" -> r1.data[1] <= r2.data[1]
         [] type = "srv" ->
              IF r1.data[1] = r2.data[1] THEN r1.data[2] # 0 => r2.data[2] # 0
              ELSE r1.data[1] < r2.data[1]
         [] type = "naptr" ->
              IF r1.data[1] = r2.data[1] THEN r1.data[2] <= r2.data[2]
              ELSE r1.data[1] < r2.data[1]
         [] OTHER -> TRUE

(* list_sort, as dns_rrlist_sort uses it: neighbours change places until   *)
(* none has to; the first one that has to, in every step here.             *)
OutOfOrder(list, type) ==
  {i \in 1 .. Len(list) - 1 : ~std_sort_handler(type, list[i], list[i + 1])}

Swap(list, i) == [list EXCEPT ![i] = list[i + 1], ![i + 1] = list[i]]

----------------------------------------------------------------------------
DnsMsgInit ==
  /\ dmsg \in [hdr : Headers, nans : 1 .. MaxRr, start : Starts, by : {"encoder"}]
  /\ denc = [buf |-> [i \in 1 .. dmsg.start |-> 0] \o dns_hdr_encode(dmsg.hdr, dmsg.nans),
             places |-> {}, done |-> FALSE]
  /\ rrl = <<>>
  /\ ddec = [st |-> "none", pos |-> 0, got |-> <<>>, left |-> 0, hdr |-> dmsg.hdr,
             type |-> "a", names |-> {}]

EncodeRr ==
  /\ ddec.st = "none" /\ Len(rrl) < dmsg.nans
  /\ \E rr \in Rrs :
       /\ denc' = dns_rr_encode(denc, rr, dmsg.start)
       /\ rrl' = Append(rrl, rr)
  /\ UNCHANGED <<dmsg, ddec>>

(* A message of one record that is not what an encoder makes: one octet    *)
(* after the header is another, or it ends before the record does.         *)
ForeignRr ==
  /\ ddec.st = "none" /\ dmsg.nans = 1 /\ Len(rrl) = 1 /\ dmsg.by = "encoder"
  /\ \E at \in dmsg.start + 13 .. Len(denc.buf) :
       denc' \in {[denc EXCEPT !.buf[at] = o] : o \in ChangedOctets}
                 \cup {[denc EXCEPT !.buf = SubSeq(@, 1, at - 1)]}
  /\ dmsg' = [dmsg EXCEPT !.by = "other"]
  /\ UNCHANGED <<rrl, ddec>>

(* Names, one after the other as in a question or the data of a record, of *)
(* which nothing is known.                                                 *)
ForeignNames ==
  /\ ddec.st = "none" /\ dmsg.nans = 1 /\ rrl = <<>>
  /\ \E buf \in [1 .. ForeignLen -> ForeignOctets] : denc' = [denc EXCEPT !.buf = buf]
  /\ dmsg' = [dmsg EXCEPT !.by = "other"]
  /\ ddec' = [ddec EXCEPT !.st = "names", !.pos = dmsg.start]
  /\ UNCHANGED rrl

DecodeNames ==
  /\ ddec.st = "names"
  /\ \E n \in {dns_dname_decode(denc.buf, ddec.pos, dmsg.start)} :
       ddec' = [ddec EXCEPT !.names = {n}, !.st = IF n.ok THEN @ ELSE "failed",
                  !.pos = IF n.ok THEN n.pos ELSE @]
  /\ UNCHANGED <<dmsg, denc, rrl>>

(* The header is read; it says how many records there are. *)
DecodeHdr ==
  /\ ddec.st = "none" /\ Len(rrl) = dmsg.nans
  /\ ddec' = [ddec EXCEPT !.st = "rrs", !.pos = dmsg.start + 12,
                !.left = NumAt(denc.buf, 2, dmsg.start + 6),
                !.hdr = dns_hdr_decode(denc.buf, dmsg.start)]
  /\ UNCHANGED <<dmsg, denc, rrl>>

DecodeRr ==
  /\ ddec.st = "rrs" /\ ddec.left > 0
  /\ \E r \in {dns_rr_decode(denc.buf, ddec.pos, dmsg.start)} :
       ddec' = IF r.ok THEN [ddec EXCEPT !.pos = r.pos, !.got = Append(@, r.rr),
                               !.left = @ - 1, !.names = r.names]
               ELSE [ddec EXCEPT !.st = "failed", !.names = r.names]
  /\ UNCHANGED <<dmsg, denc, rrl>>

(* dns_rrlist_sort *)
SortRrs ==
  /\ ddec.st = "rrs" /\ ddec.left = 0 /\ dmsg.by = "encoder"
  /\ \E type \in {"mx", "srv", "naptr", "a"} :
       ddec' = [ddec EXCEPT !.st = "sort", !.type = type]
  /\ UNCHANGED <<dmsg, denc, rrl>>

SwapRrs ==
  /\ ddec.st = "sort"
  /\ LET bad == OutOfOrder(ddec.got, ddec.type) IN
     ddec' = IF bad = {} THEN [ddec EXCEPT !.st = "sorted"]
             ELSE [ddec EXCEPT !.got = Swap(@, CHOOSE i \in bad : \A j \in bad : i <= j)]
  /\ UNCHANGED <<dmsg, denc, rrl>>

DnsMsgNext ==
  \/ EncodeRr \/ DecodeHdr \/ DecodeRr \/ SortRrs \/ SwapRrs
  \/ ForeignRr \/ ForeignNames \/ DecodeNames

DnsMsgSpec == DnsMsgInit /\ [][DnsMsgNext]_dnsMsgVars

----------------------------------------------------------------------------
(* What was encoded is what is decoded, with the time to live that is left *)
(* of it: a name that was cut short by a pointer reads as it was written,  *)
(* whichever record the pointer leads into, and reading goes on where the  *)
(* next field begins.                                                      *)
Readable == dmsg.by = "encoder" =>
  /\ ddec.st # "failed"
  /\ ddec.st = "rrs" =>
       /\ ddec.hdr = [f \in DOMAIN ddec.hdr |-> dmsg.hdr[f]]
       /\ ddec.left + Len(ddec.got) = Len(rrl)
       /\ \A i \in DOMAIN ddec.got :
            dns_rr_cmp(ddec.got[i], rrl[i]) /\ ddec.got[i].ttl = Ttl(rrl[i])
       /\ ddec.left = 0 => ddec.pos = Len(denc.buf)

(* Whatever a message says, reading stays within it, a name that points to *)
(* itself ends, and one that is too long for buf is refused, unless its    *)
(* labels fill all of buf but the last octet and another one follows:      *)
(* dns_dname_decode, on which the length of names depends (dname.c:188).   *)
NamesBounded ==
  /\ ddec.pos <= Len(denc.buf)
  /\ \A n \in ddec.names : n.ended /\ (n.within \/ n.full)

(* What buf needs: nothing is written behind it.  The room is an unsigned  *)
(* number that wraps when one octet is left, so that it is not checked.    *)
NamesWithin == \A n \in ddec.names : n.within

(* The names that CNAMEs lead to *)
RECURSIVE Aliases(_, _)
Aliases(list, S) ==
  LET T == S \cup {Folded(list[i].data[1]) :
                   i \in {j \in DOMAIN list : list[j].type = "cname" /\ Folded(list[j].name) \in S}}
  IN  IF T = S THEN S ELSE Aliases(list, T)

(* A record is found if and only if the name or one of its aliases has     *)
(* one, CNAMEs that lead back to where they came from included.            *)
Findable ==
  ddec.st = "sorted" =>
    \A n \in Names(ddec.got), type \in {"a", "srv"} :
      LET r == dns_rrlist_find(ddec.got, n, type)
          there == {i \in DOMAIN ddec.got :
                      ddec.got[i].type = type /\ Folded(ddec.got[i].name) \in Aliases(ddec.got, {n})}
      IN  IF there = {} THEN r = 0 ELSE r \in there

(* Sorting keeps every record, puts those of the type first, and those in  *)
(* the order of preference: every one before all that it may precede.      *)
Preferred ==
  ddec.st = "sorted" =>
    /\ \A i, j \in DOMAIN ddec.got :
         i < j => std_sort_handler(ddec.type, ddec.got[i], ddec.got[j])
    /\ \A i \in DOMAIN rrl :
         Cardinality({j \in DOMAIN ddec.got : dns_rr_cmp(ddec.got[j], rrl[i])})
           = Cardinality({j \in DOMAIN rrl : dns_rr_cmp(rrl[j], rrl[i])})

(* A DNS message reads as it was written, and its records are found and    *)
(* sorted: dns_rr_encode against dns_rr_decode, with dns_rrlist_find and   *)
(* dns_rrlist_sort on what was decoded.  Another one is read without       *)
(* leaving it.                                                             *)
DnsMsgSound == Readable /\ NamesBounded /\ Findable /\ Preferred
=============================================================================
