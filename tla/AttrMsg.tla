------------------------------ MODULE AttrMsg -------------------------------
(***************************************************************************)
(* Messages that are a list of attributes, each with a type and a length:  *)
(* STUN and BFCP.                                                          *)
(***************************************************************************)
EXTENDS Naturals, Sequences, FiniteSets, SequencesExt

(***************************************************************************)
(* STUN messages on the wire: stun/msg.c, attr.c, hdr.c and addr.c.  Two   *)
(* questions are asked of them.  The decoder is a walk over the bytes of a *)
(* datagram whose length fields are whatever the sender put there: dec is  *)
(* its state, one step is one attribute.  The encoder writes the header    *)
(* up to three times, because MESSAGE-INTEGRITY and FINGERPRINT are        *)
(* computed over a header that already counts them: wire is a message that *)
(* was encoded, and perhaps changed on its way.  An HMAC and a CRC are     *)
(* ideal: two are equal when what they were computed from is.              *)
(***************************************************************************)
CONSTANTS
  MaxWords,    \* hdr.len of a received message, in words of 4 bytes
  MaxExtra,    \* bytes of the datagram behind the message
  MaxAttr      \* attributes of an encoded message

ASSUME StunMsgAssumption ==
  MaxWords \in Nat /\ MaxExtra \in Nat /\ MaxAttr \in Nat

MiSize == 24
FpSize == 8
SizeMax == 2 ^ 16  \* stands for the range of size_t

VARIABLES
  dec,         \* the mbuf and the loop of stun_msg_decode
  wire         \* a message that was encoded

stunMsgVars == <<dec, wire>>

NoWire == [st |-> "none", attrs |-> <<>>, len |-> 0, key |-> "nil", fp |-> FALSE,
           changed |-> FALSE]

StunMsgInit ==
  /\ dec = [st |-> "none", left |-> 0, extra |-> 0, unknown |-> 0]
  /\ wire = NoWire

----------------------------------------------------------------------------
(* size_t: mbuf_get_left is never negative. *)
Unsigned(a, b) == IF a >= b THEN a - b ELSE SizeMax + a - b

Kinds == {"addr4", "addr6", "badaddr", "u32", "str", "mi", "err", "unk", "u16",
          "data", "u8", "none", "u64", "optional", "required"}

(* stun_attr_decode, its switch: what the value of an attribute must       *)
(* satisfy, and how many bytes are read.  An address is not held against   *)
(* the length of its attribute, only against what is left.                 *)
AttrBad(kind, len, left) ==
  CASE kind = "addr4" -> left < 8 [] kind = "addr6" -> left < 20
    [] kind = "badaddr" -> TRUE [] kind = "u32" -> len # 4
    [] kind = "mi" -> len # 20 [] kind = "err" -> len < 4
    [] kind = "u16" -> len < 2 [] kind = "u8" -> len < 1
    [] kind = "none" -> len > 0 [] kind = "u64" -> len # 8
    [] OTHER -> FALSE

AttrReads(kind, len) ==
  CASE kind = "addr4" -> 8 [] kind = "addr6" -> 20 [] kind = "u16" -> 2
    [] kind = "unk" -> 2 * (len \div 2) [] kind = "u8" -> 1 [] OTHER -> len

(* Mutant: the length is not held against the datagram. *)
Truncated_Never(len, left) == FALSE

Truncated(len, left) == left < len

(* The padding, as far as there are bytes *)
Padding(read, left) ==
  LET pad == (4 - (read % 4)) % 4 IN IF pad > left THEN left ELSE pad

(* stun_hdr_decode, left bytes behind the header: a message is a number of *)
(* words, and all there.                                                   *)
StunHdrDecode(len, left) ==
  /\ dec.st = "none" /\ wire.st = "none"
  /\ dec' = IF len % 4 # 0 \/ left < len THEN [dec EXCEPT !.st = "bad"]
            ELSE [dec EXCEPT !.st = "run", !.left = left, !.extra = left - len]
  /\ UNCHANGED wire

(* stun_attr_decode, and its place in the loop of stun_msg_decode *)
StunAttrDecode(kind, len) ==
  /\ dec.st = "run" /\ Unsigned(dec.left, dec.extra) >= 4
  /\ LET left == Unsigned(dec.left, 4)
         read == AttrReads(kind, len)
         rest == Unsigned(left, read)
     IN dec' = IF dec.left < 4 THEN [dec EXCEPT !.st = "bad"]
               ELSE IF Truncated(len, left) \/ AttrBad(kind, len, left)
               THEN [dec EXCEPT !.st = "bad"]
               ELSE [dec EXCEPT !.left = rest - Padding(read, rest),
                       !.unknown = IF kind = "required" THEN 1 ELSE @]
  /\ UNCHANGED wire

(* The end of stun_msg_decode *)
StunMsgDecoded ==
  /\ dec.st = "run" /\ Unsigned(dec.left, dec.extra) < 4
  /\ dec' = [dec EXCEPT !.st = "ok"]
  /\ UNCHANGED wire

----------------------------------------------------------------------------
(* stun_attr_encode: 4 bytes of header, the value and its padding *)
AttrSize(a) == 4 + 4 * ((a.len + 3) \div 4)

Bytes(attrs) ==
  LET sum[i \in 0 .. Len(attrs)] ==
        IF i = 0 THEN 0 ELSE sum[i - 1] + AttrSize(attrs[i])
  IN sum[Len(attrs)]

Attr(type, len, val) == [type |-> type, len |-> len, val |-> val]

(* HMAC-SHA1 with a key, CRC-32: over the length in the header and the     *)
(* bytes behind it                                                         *)
Hmac(key, len, attrs) == <<"hmac", key, len, attrs>>
Crc(len, attrs) == <<"crc", len, attrs>>

(* Mutant: the header does not count the fingerprint when it is computed. *)
FpLen_Before(attrs) == Bytes(attrs)

(* The length in the header when the fingerprint is computed *)
FpLen(attrs) == Bytes(attrs) + FpSize

(* stun_msg_vencode: the header counts an attribute before the attribute   *)
(* is there.                                                               *)
stun_msg_vencode(attrs, key, fp) ==
  LET len == Bytes(attrs) + MiSize
      withMi == IF key = "nil" THEN attrs
                ELSE Append(attrs, Attr("mi", 20, Hmac(key, len, attrs)))
      withFp == IF ~fp THEN withMi
                ELSE Append(withMi, Attr("fp", 4, Crc(FpLen(withMi), withMi)))
  IN [st |-> "sent", attrs |-> withFp, len |-> Bytes(withFp), key |-> key,
      fp |-> fp, changed |-> FALSE]

(* The attributes that lie in the first n bytes *)
Prefix(attrs, n) ==
  LET k == CHOOSE i \in 0 .. Len(attrs) :
             /\ Bytes(SubSeq(attrs, 1, i)) <= n
             /\ \A j \in 0 .. Len(attrs) : Bytes(SubSeq(attrs, 1, j)) <= n => j <= i
  IN SubSeq(attrs, 1, k)

First(w, type) ==
  IF \E i \in DOMAIN w.attrs : w.attrs[i].type = type
  THEN w.attrs[CHOOSE i \in DOMAIN w.attrs : w.attrs[i].type = type
         /\ \A j \in 1 .. i - 1 : w.attrs[j].type # type].val
  ELSE "nil"

(* stun_msg_chk_mi: with a fingerprint the header is written back as it    *)
(* was before the fingerprint.                                             *)
stun_msg_chk_mi(w, key) ==
  LET mi == First(w, "mi")
      len == IF First(w, "fp") # "nil" THEN w.len - FpSize ELSE w.len
  IN IF mi = "nil" THEN "eproto"
     ELSE IF mi = Hmac(key, len, Prefix(w.attrs, len - MiSize)) THEN "ok"
     ELSE "ebadmsg"

(* stun_msg_chk_fingerprint *)
stun_msg_chk_fingerprint(w) ==
  LET fp == First(w, "fp")
  IN IF fp = "nil" THEN "eproto"
     ELSE IF fp = Crc(w.len, Prefix(w.attrs, w.len - FpSize)) THEN "ok"
     ELSE "ebadmsg"

(* stun_request, stun_reply, stun_ereply and stun_indication encode; a     *)
(* value is 0 until it is changed.                                         *)
StunSend(lens, key, fp) ==
  /\ wire.st = "none" /\ dec.st = "none"
  /\ wire' = stun_msg_vencode([i \in DOMAIN lens |-> Attr("any", lens[i], 0)],
                              key, fp)
  /\ UNCHANGED dec

(* The network: a value is changed, or an attribute is added at the end    *)
(* with the length corrected, or the fingerprint is taken off.             *)
ChangeValue(i) ==
  /\ wire.st = "sent" /\ i \in DOMAIN wire.attrs /\ wire.attrs[i].type = "any"
  /\ wire' = [wire EXCEPT !.attrs[i].val = 1, !.changed = TRUE]
  /\ UNCHANGED dec

AddAttr(len) ==
  /\ wire.st = "sent" /\ Len(wire.attrs) <= MaxAttr + 1
  /\ wire' = [wire EXCEPT !.attrs = Append(@, Attr("any", len, 1)),
                !.len = @ + AttrSize(Attr("any", len, 1)), !.changed = TRUE]
  /\ UNCHANGED dec

StripFp ==
  /\ wire.st = "sent" /\ wire.fp /\ ~wire.changed
  /\ wire' = [wire EXCEPT !.attrs = SubSeq(@, 1, Len(@) - 1),
                !.len = @ - FpSize, !.fp = FALSE]
  /\ UNCHANGED dec

StunMsgNext ==
  \/ \E len \in 0 .. 4 * MaxWords, left \in 0 .. 4 * MaxWords + MaxExtra :
       StunHdrDecode(len, left)
  \/ \E kind \in Kinds, len \in 0 .. 4 * MaxWords : StunAttrDecode(kind, len)
  \/ StunMsgDecoded
  \/ \E n \in 0 .. MaxAttr : \E lens \in [1 .. n -> {0, 3, 8}] :
       \E key \in {"nil", "k"}, fp \in BOOLEAN : StunSend(lens, key, fp)
  \/ \E i \in 1 .. MaxAttr : ChangeValue(i)
  \/ \E len \in {0, 5} : AddAttr(len)
  \/ StripFp

----------------------------------------------------------------------------
(* Whatever the length fields of a datagram say, the decoder reads no byte *)
(* behind its end, and a message it accepts ends exactly where its header  *)
(* says, so that nothing behind it was taken for an attribute (msg.c).     *)
DecodeWithin ==
  /\ dec.left <= 4 * MaxWords + MaxExtra
  /\ dec.st = "ok" => dec.left = dec.extra

(* A message is verified by who has the key exactly when it is what was    *)
(* sent, with or without its fingerprint (stun_msg_chk_mi).                *)
IntegrityExact ==
  wire.st = "sent" =>
    /\ wire.len = Bytes(wire.attrs)
    /\ wire.key = "k" => (stun_msg_chk_mi(wire, "k") = "ok") <=> ~wire.changed
    /\ stun_msg_chk_mi(wire, "k2") # "ok"
    /\ wire.fp => (stun_msg_chk_fingerprint(wire) = "ok") <=> ~wire.changed

----------------------------------------------------------------------------
(***************************************************************************)
(* BFCP messages: bfcp/msg.c, attr.c and hdr.c.  An attribute is flat, or  *)
(* a group: a number followed by further attributes in a fixed order, most *)
(* of them optional.  The encoder counts a group into the length of its    *)
(* header; the decoder does not look at that length: what follows belongs  *)
(* to the group as long as it is of the type that comes next in the group. *)
(*                                                                         *)
(* A message on the wire is the sequence of its attribute headers, each    *)
(* with the depth at which it was encoded; the decoder keeps a stack of    *)
(* the groups it is in, and takes one header a step.                       *)
(***************************************************************************)
CONSTANTS
  MaxBfcpAttr,    \* attributes of a message
  MaxBfcpHdr,     \* attribute headers of a message, those in groups included
  Floors,         \* numbers of floors in a FLOOR-REQUEST-INFO
  StrLens         \* lengths of strings

VARIABLES
  attrs,          \* the message: what was encoded
  bdec            \* the decoder: "none", or where it is

bfcpMsgVars == <<attrs, bdec>>

Hdr(type, depth, len) == [type |-> type, depth |-> depth, len |-> len]

----------------------------------------------------------------------------
(* bfcp_attr_encode *)

(* Strings have their length, padded to words on the wire. *)
Str(type, depth) == {<<Hdr(type, depth, 2 + n)>> : n \in StrLens}
U16(type, depth) == {<<Hdr(type, depth, 4)>>}
Optional(S) == S \cup {<<>>}

Padded(n) == 4 * ((n + 3) \div 4)

(* The parts of a group, in the order of attr_decode *)
PartsOf(type) ==
  CASE type \in {"bfi", "rbi"} -> <<"dname", "uri">>
    [] type \in {"frs", "ors"} -> <<"reqstat", "statinfo">>
    [] type = "fri" -> <<"ors", "frs", "bfi", "rbi", "prio", "ppi">>
    [] OTHER -> <<>>

Grouped(type) == PartsOf(type) # <<>>

(* What a header itself takes: a group is a header and a number. *)
Own(h) == IF Grouped(h.type) THEN 4 ELSE Padded(h.len)

Size(seq) == FoldLeft(LAMBDA n, h : n + Own(h), 0, seq)

(* A group: its length is all of it, padding included. *)
Group(type, depth, parts) ==
  {<<[Hdr(type, depth, 4) EXCEPT !.len = 4 + Size(p)]>> \o p : p \in parts}

Pairs(S, T) == {s \o t : s \in S, t \in T}

UserInfo(type, d) ==
  Group(type, d, Pairs(Optional(Str("dname", d + 1)), Optional(Str("uri", d + 1))))

ReqStatus(type, d) ==
  Group(type, d, Pairs(Optional(U16("reqstat", d + 1)), Optional(Str("statinfo", d + 1))))

(* As many statuses as there are floors, all alike *)
FloorStatuses ==
  UNION {{FlattenSeq([i \in 1 .. n |-> s]) : s \in ReqStatus("frs", 1)} : n \in Floors}

FloorRequestInfo ==
  Group("fri", 0,
    Pairs(Pairs(Optional(ReqStatus("ors", 1)), FloorStatuses),
          Pairs(Pairs(Optional(UserInfo("bfi", 1)), Optional(UserInfo("rbi", 1))),
                Pairs(U16("prio", 1), Optional(Str("ppi", 1))))))

Attribute ==
  U16("floorid", 0) \cup U16("prio", 0) \cup U16("reqstat", 0)
  \cup Str("dname", 0) \cup Str("uri", 0) \cup Str("ppi", 0) \cup Str("statinfo", 0)
  \cup UserInfo("bfi", 0) \cup UserInfo("rbi", 0)
  \cup ReqStatus("frs", 0) \cup ReqStatus("ors", 0) \cup FloorRequestInfo

----------------------------------------------------------------------------
(* decn and decv: a part is there if the next header is of its type; a     *)
(* status of a floor may be followed by another.  The part of the group    *)
(* that the header is, or 0 if it is none of the rest.                     *)
PartAt(g, type) ==
  LET at == {i \in g.next .. Len(PartsOf(g.type)) : PartsOf(g.type)[i] = type} IN
  IF at = {} THEN 0 ELSE CHOOSE i \in at : TRUE

(* Mutant: one status of a floor only. *)
AfterPart_One(g, i) == [g EXCEPT !.next = i + 1]

AfterPart(g, i) == [g EXCEPT !.next = IF PartsOf(g.type)[i] = "frs" THEN i ELSE i + 1]

(* The depth at which a header is taken: the innermost group that looks    *)
(* for it; groups further in are complete.                                 *)
DepthOf(stack, type) ==
  LET in == {d \in 1 .. Len(stack) : PartAt(stack[d], type) # 0} IN
  IF in = {} THEN 0 ELSE CHOOSE d \in in : \A e \in in : e <= d

BfcpMsgInit == attrs = <<>> /\ bdec = [st |-> "none"]

(* bfcp_msg_vencode: attributes one after the other *)
BfcpEncode ==
  /\ bdec.st = "none"
  /\ Cardinality({i \in DOMAIN attrs : attrs[i].depth = 0}) < MaxBfcpAttr
  /\ \E a \in Attribute :
       /\ Len(attrs) + Len(a) <= MaxBfcpHdr
       /\ attrs' = attrs \o a
  /\ UNCHANGED bdec

(* bfcp_msg_decode: the header says how much is to come. *)
BfcpDecode ==
  /\ bdec.st = "none" /\ attrs # <<>>
  /\ bdec' = [st |-> "attrs", n |-> 0, stack |-> <<>>, depths |-> <<>>,
              left |-> Size(attrs)]
  /\ UNCHANGED attrs

(* attr_decode, one header: its length must not exceed what is left; a     *)
(* flat attribute is read whole, with its padding, a group opens.          *)
BfcpAttrDecode ==
  /\ bdec.st = "attrs" /\ bdec.left >= 2
  /\ LET h == attrs[bdec.n + 1]
         d == DepthOf(bdec.stack, h.type)
         outer == IF d = 0 THEN <<>>
                  ELSE Append(SubSeq(bdec.stack, 1, d - 1),
                              AfterPart(bdec.stack[d], PartAt(bdec.stack[d], h.type)))
     IN bdec' =
          IF bdec.left < h.len THEN [bdec EXCEPT !.st = "badmsg"]
          ELSE [bdec EXCEPT !.n = @ + 1,
                  !.depths = Append(@, d),
                  !.left = @ - Own(h),
                  !.stack = IF Grouped(h.type)
                            THEN Append(outer, [type |-> h.type, next |-> 1]) ELSE outer]
  /\ UNCHANGED attrs

BfcpDecoded ==
  /\ bdec.st = "attrs" /\ bdec.left < 2
  /\ bdec' = [bdec EXCEPT !.st = "done"]
  /\ UNCHANGED attrs

BfcpMsgNext == BfcpEncode \/ BfcpDecode \/ BfcpAttrDecode \/ BfcpDecoded

BfcpMsgSpec == BfcpMsgInit /\ [][BfcpMsgNext]_bfcpMsgVars

----------------------------------------------------------------------------
(* The headers that a group before them takes for its own: an attribute of *)
(* the message that a group right before it looks for and does not have.   *)
Swallowed(i) ==
  \E j \in 1 .. i - 1 :
    /\ attrs[j].depth >= attrs[i].depth
    /\ Grouped(attrs[j].type)
    /\ \A k \in j + 1 .. i - 1 : attrs[k].depth > attrs[j].depth
    /\ \E p \in DOMAIN PartsOf(attrs[j].type) :
         /\ PartsOf(attrs[j].type)[p] = attrs[i].type
         /\ \A k \in j + 1 .. i - 1 : attrs[k].depth = attrs[j].depth + 1 =>
              \E q \in DOMAIN PartsOf(attrs[j].type) :
                PartsOf(attrs[j].type)[q] = attrs[k].type /\ (q < p \/ attrs[i].type = "frs")

(* A message that was encoded is decoded, every attribute at its depth,    *)
(* with nothing left over, unless an attribute follows a group that could  *)
(* have it for a part; and nothing but such an attribute is misplaced.     *)
RoundTrip ==
  /\ bdec.st # "badmsg"
  /\ bdec.st = "done" =>
       /\ bdec.n = Len(attrs) /\ bdec.left = 0
       /\ (\A i \in DOMAIN attrs : ~Swallowed(i)) =>
            \A i \in DOMAIN attrs : bdec.depths[i] = attrs[i].depth
=============================================================================
