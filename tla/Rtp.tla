-------------------------------- MODULE Rtp ---------------------------------
(***************************************************************************)
(* The RTCP session of an RTP socket: rtp/sess.c, source.c, member.c and   *)
(* the receiving side of rtp.c.  Sources come, are counted as members and  *)
(* senders, and go with a BYE; for each the sequence numbers of the        *)
(* packets that arrive are extended beyond their 16 bits, which is what    *)
(* losses are computed from.                                               *)
(*                                                                         *)
(* RtpSeqs, MaxDropout and MaxMisorder stand for 2^16, 3000 and 100.  The  *)
(* sender and the network are the environment: they number packets without *)
(* a modulus, lose, duplicate and reorder them, and a sender may restart   *)
(* with a number far ahead.  sent is what a perfect receiver would know.   *)
(***************************************************************************)
EXTENDS Integers, FiniteSets, Sequences

CONSTANTS
  Ssrc,        \* synchronization sources
  RtpSeqs,      \* RTP_SEQ_MOD
  MaxDropout, MaxMisorder,
  MaxMembers,  \* MAX_MEMBERS
  FirstRtp,    \* numbers that a stream may start with
  MaxSent, MaxGot  \* bounds on the numbers and the packets of a run

ASSUME RtpAssumption ==
  /\ RtpSeqs \in Nat /\ MaxDropout \in 2 .. RtpSeqs /\ MaxMisorder \in 1 .. RtpSeqs
  /\ MaxDropout + MaxMisorder < RtpSeqs
  /\ FirstRtp \subseteq 0 .. RtpSeqs - 1
  /\ MaxMembers \in Nat /\ MaxSent \in Nat

VARIABLES
  mbr,         \* struct rtp_member, with its struct rtp_source
  rtcp,        \* the counters and the timer of struct rtcp_sess
  sent,        \* the environment, per source
  report       \* the blocks of the last report, and its count

rtpVars == <<mbr, rtcp, sent, report>>

NoSource == [max_seq |-> 0, cycles |-> 0, base_seq |-> 0, bad_seq |-> RtpSeqs + 1,
             received |-> 0, expected_prior |-> 0, received_prior |-> 0]
NoMember == [st |-> FALSE, s |-> FALSE, src |-> NoSource]
NoStream == [first |-> 0, hi |-> 0, prev |-> 0, jumped |-> FALSE, got |-> 0]

RtpInit ==
  /\ mbr = [x \in Ssrc |-> NoMember]
  /\ rtcp = [memberc |-> 0, senderc |-> 0, tmr |-> FALSE, cname |-> FALSE, open |-> TRUE]
  /\ sent = [x \in Ssrc |-> NoStream]
  /\ report = [count |-> 0, blocks |-> 0, fraction |-> 0]

----------------------------------------------------------------------------
source_init_seq(seq) ==
  [NoSource EXCEPT !.base_seq = seq, !.max_seq = seq]

Received(s) == [s EXCEPT !.received = @ + 1]

(* Mutant: a reordered packet from before a wrap counts as a new cycle. *)
InOrder_Any(s, udelta) == udelta < MaxDropout \/ udelta > RtpSeqs - MaxMisorder

(* In order, with permissible gap *)
InOrder(s, udelta) == udelta < MaxDropout

(* source_update_seq; probation is not used. *)
source_update_seq(s, seq) ==
  LET udelta == (seq - s.max_seq) % RtpSeqs
  IN IF InOrder(s, udelta)
     THEN Received([s EXCEPT !.max_seq = seq,
            !.cycles = IF seq < s.max_seq THEN @ + RtpSeqs ELSE @])
     ELSE IF udelta <= RtpSeqs - MaxMisorder
     THEN IF seq = s.bad_seq THEN Received(source_init_seq(seq))
          ELSE [s EXCEPT !.bad_seq = (seq + 1) % RtpSeqs]
     ELSE Received(s)

(* source_calc_lost: 24 bits are more than enough here. *)
Expected(s) == s.cycles + s.max_seq - s.base_seq + 1
source_calc_lost(s) == Expected(s) - s.received

(* source_calc_fraction_lost, before it becomes a byte *)
Fraction(s) ==
  LET expected == Expected(s) - s.expected_prior
      lost == expected - (s.received - s.received_prior)
  IN IF expected = 0 \/ lost <= 0 THEN 0 ELSE (256 * lost) \div expected

Reported(s) == [s EXCEPT !.expected_prior = Expected(s), !.received_prior = s.received]

----------------------------------------------------------------------------
(* get_member: one more, unless the table is full *)
Found(x) == mbr[x].st \/ rtcp.memberc < MaxMembers
Counted(x) == IF mbr[x].st THEN rtcp.memberc ELSE rtcp.memberc + 1

(* The first packet of a source: rtcp_sess_rx_rtp.  max_seq is 16 bits. *)
FirstOf(seq) == [source_init_seq(seq) EXCEPT !.max_seq = (seq - 1) % RtpSeqs]

(* rtcp_sess_rx_rtp *)
RtpReceive(x, n) ==
  LET seq == n % RtpSeqs
      s == IF mbr[x].s THEN mbr[x].src ELSE FirstOf(seq)
  IN IF ~Found(x) THEN UNCHANGED <<mbr, rtcp>>
     ELSE /\ mbr' = [mbr EXCEPT ![x] =
               [st |-> TRUE, s |-> TRUE, src |-> source_update_seq(s, seq)]]
          /\ rtcp' = [rtcp EXCEPT !.memberc = Counted(x),
               !.senderc = IF mbr[x].s THEN @ ELSE @ + 1]

Began(n) == [first |-> n, hi |-> n, prev |-> n, jumped |-> FALSE, got |-> 1]

(* What is known of a stream that is seen from number n on, or that goes   *)
(* on with it: a jump is believed when the number after the last jump's,   *)
(* of which only 16 bits are seen, follows.                                *)
Seen(x, n) ==
  LET w == sent[x]
  IN IF ~Found(x) THEN w
     ELSE IF ~mbr[x].s THEN Began(n)
     ELSE IF n - w.hi >= MaxDropout
     THEN IF w.jumped /\ (w.prev + 1 - n) % RtpSeqs = 0 THEN Began(n)
          ELSE [w EXCEPT !.prev = n, !.jumped = TRUE]
     ELSE [w EXCEPT !.hi = IF n > @ THEN n ELSE @, !.got = @ + 1]

(* udp_recv_handler: any packet of the network that is not older than the  *)
(* order is watched, and no farther ahead than can be told from it         *)
Rtp(x, n) ==
  /\ rtcp.open /\ sent[x].got < MaxGot
  /\ IF mbr[x].s
     THEN /\ n \in sent[x].hi - MaxMisorder + 1 .. sent[x].hi + RtpSeqs - MaxMisorder
          /\ n >= sent[x].first
     ELSE n \in FirstRtp
  /\ RtpReceive(x, n)
  /\ sent' = [sent EXCEPT ![x] = Seen(x, n)]
  /\ UNCHANGED report

(* handle_incoming_sr and handle_incoming_rr *)
RtcpReport(x) ==
  /\ rtcp.open /\ ~mbr[x].st /\ Found(x)
  /\ mbr' = [mbr EXCEPT ![x] = [NoMember EXCEPT !.st = TRUE]]
  /\ rtcp' = [rtcp EXCEPT !.memberc = Counted(x)]
  /\ UNCHANGED <<sent, report>>

(* Mutant: a sender that leaves is still counted as one. *)
Leaves_Sender(x) == [rtcp EXCEPT !.memberc = @ - 1]

Leaves(x) == [rtcp EXCEPT !.memberc = @ - 1,
                          !.senderc = IF mbr[x].s THEN @ - 1 ELSE @]

(* handle_incoming_bye *)
RtcpBye(x) ==
  /\ rtcp.open /\ mbr[x].st
  /\ mbr' = [mbr EXCEPT ![x] = NoMember]
  /\ rtcp' = Leaves(x)
  /\ sent' = [sent EXCEPT ![x] = NoStream]
  /\ UNCHANGED report

(* rtcp_enable *)
RtcpEnable(enabled) ==
  /\ rtcp.open /\ rtcp.tmr # enabled
  /\ rtcp' = [rtcp EXCEPT !.tmr = enabled, !.cname = TRUE]
  /\ UNCHANGED <<mbr, sent, report>>

(* timeout, send_rtcp_report, mk_sr and sender_apply_handler: the header   *)
(* says senderc, a block is written for every member that is a source.     *)
RtcpTimeout ==
  /\ rtcp.open /\ rtcp.tmr
  /\ LET from == {x \in Ssrc : mbr[x].s}
     IN /\ report' = [count |-> rtcp.senderc, blocks |-> Cardinality(from),
             fraction |-> IF \E x \in from : Fraction(mbr[x].src) > 255 THEN 256 ELSE 0]
        /\ mbr' = [x \in Ssrc |-> IF x \in from
                     THEN [mbr[x] EXCEPT !.src = Reported(@)] ELSE mbr[x]]
  /\ UNCHANGED <<rtcp, sent>>

(* destructor and sess_destructor *)
RtpClose ==
  /\ rtcp.open
  /\ rtcp' = [rtcp EXCEPT !.open = FALSE, !.tmr = FALSE, !.memberc = 0, !.senderc = 0]
  /\ mbr' = [x \in Ssrc |-> NoMember]
  /\ sent' = [x \in Ssrc |-> NoStream]
  /\ UNCHANGED report

RtpNext ==
  \/ \E x \in Ssrc : \/ \E n \in 0 .. MaxSent : Rtp(x, n)
                     \/ RtcpReport(x) \/ RtcpBye(x)
  \/ RtcpTimeout \/ RtpClose
  \/ \E e \in BOOLEAN : RtcpEnable(e)

RtpSpec == RtpInit /\ [][RtpNext]_rtpVars

----------------------------------------------------------------------------
RtpTypeOK ==
  /\ mbr \in [Ssrc -> [st : BOOLEAN, s : BOOLEAN, src : [max_seq : 0 .. RtpSeqs - 1,
       cycles : Nat, base_seq : 0 .. RtpSeqs - 1, bad_seq : 0 .. RtpSeqs + 1,
       received : Nat, expected_prior : Nat, received_prior : Nat]]]
  /\ rtcp \in [memberc : 0 .. MaxMembers, senderc : 0 .. MaxMembers,
               tmr : BOOLEAN, cname : BOOLEAN, open : BOOLEAN]

(* A report says how many blocks it has: members and senders are counted   *)
(* exactly, whoever sends first, falls silent, leaves or does not fit into *)
(* the table; and the fraction that was lost fits into its byte.           *)
ReportSound ==
  /\ RtpTypeOK
  /\ rtcp.memberc = Cardinality({x \in Ssrc : mbr[x].st})
  /\ rtcp.senderc = Cardinality({x \in Ssrc : mbr[x].s})
  /\ \A x \in Ssrc : mbr[x].s => mbr[x].st
  /\ report.count = report.blocks /\ report.fraction < 256

Exact(x) ==
  LET s == mbr[x].src
      w == sent[x]
  IN mbr[x].s => /\ Expected(s) = w.hi - w.first + 1
                 /\ s.max_seq = w.hi % RtpSeqs
                 /\ source_calc_lost(s) = w.hi - w.first + 1 - w.got

(* Whatever is lost, duplicated, reordered or wrapped, and when a sender   *)
(* restarts, the number of packets expected is the number that was sent,   *)
(* unless the stream began with number 0 (source_update_seq).              *)
LossExact == \A x \in Ssrc : sent[x].first % RtpSeqs # 0 => Exact(x)

(* What a receiver reports of a source is what was lost of it, whatever    *)
(* order and wrap of its numbers, and reports and members agree.           *)
RtpSound == ReportSound /\ LossExact

(* The loss of every stream is the "Cumul. no. pkts lost" of re_rtp.h. *)
LossOfFirst == \A x \in Ssrc : Exact(x)

----------------------------------------------------------------------------
(***************************************************************************)
(* RTCP packets on the wire: rtp/pkt.c, sdes.c, fb.c and rr.c, and the     *)
(* loop of rtcp_recv_handler (rtp.c) over a compound packet.  No packet    *)
(* says to the next where it starts: the decoder stops behind what it      *)
(* read, and the encoder pads, so both must agree on every size.  rtcpWire *)
(* is a compound of the encoder, rx the decoder in it, or in a datagram of *)
(* somebody else, whose lengths and counts are anything.                   *)
(***************************************************************************)
SeqOps == INSTANCE SequencesExt

CONSTANTS
  MaxMsgs,     \* packets of a compound
  Counts,      \* blocks, chunks, sources or feedback items of a packet
  Texts,       \* lengths of an SDES item or of a reason
  Lengths,     \* hdr.length of a foreign packet
  Sizes        \* bytes of a foreign datagram

ASSUME RtcpMsgAssumption ==
  /\ MaxMsgs \in Nat /\ Counts \subseteq Nat /\ Texts \subseteq Nat
  /\ Lengths \subseteq Nat /\ Sizes \subseteq Nat

VARIABLES
  rtcpWire,        \* the packets that were encoded, in order
  rx           \* struct mbuf, and the packets that were decoded

rtcpMsgVars == <<rtcpWire, rx>>

HdrSize == 4
SrcSize == 4

(* struct rtcp_msg: texts are the SDES items of each chunk, the reason of  *)
(* a BYE (at most one), or the words of an APP.                            *)
Pkt(pt, count, texts) == [pt |-> pt, count |-> count, texts |-> texts]

RtcpMsgInit ==
  /\ rtcpWire = <<>>
  /\ rx = [st |-> "none", pos |-> 0, end |-> 0, n |-> 0, own |-> TRUE]

----------------------------------------------------------------------------
Up(n) == 4 * ((n + 3) \div 4)
SumOf(s) == SeqOps!FoldLeft(LAMBDA x, y : x + y, 0, s)

(* rtcp_sdes_encode: an END, and up to a word *)
rtcp_sdes_encode(items) ==
  Up(SrcSize + SumOf([i \in DOMAIN items |-> 2 + items[i]]) + 1)

(* The body of a packet, before it is padded: the switch of rtcp_vencode,  *)
(* and rtcp_rr_encode, rtcp_rtpfb_gnack_encode and rtcp_psfb_sli_encode.   *)
Body(m) ==
  CASE m.pt = "SR" -> 24 + 24 * m.count
    [] m.pt = "RR" -> SrcSize + 24 * m.count
    [] m.pt = "SDES" -> m.count * rtcp_sdes_encode(m.texts)
    [] m.pt = "BYE" -> 4 * m.count + SumOf([i \in DOMAIN m.texts |-> 1 + m.texts[i]])
    [] m.pt = "APP" -> 8 + 4 * m.count
    [] m.pt = "FIR" -> 4
    [] m.pt = "NACK" -> 8
    [] m.pt \in {"GNACK", "SLI"} -> 8 + 4 * m.count
    [] m.pt = "PLI" -> 8

(* Mutant: a packet is not padded. *)
rtcp_vencode_NoPad(m) == HdrSize + Body(m)

rtcp_vencode(m) == HdrSize + Up(Body(m))

(* Where packet i of the compound ends *)
Bound(i) == SumOf([j \in 1 .. i |-> rtcp_vencode(rtcpWire[j])])

----------------------------------------------------------------------------
(* Decoding is written as the number of bytes that are left after it. *)
Bad == -1
Need(n, left) == IF left < n THEN Bad ELSE left - n
Then(left, n) == IF left = Bad THEN Bad ELSE Need(n, left)

(* rtcp_sdes_decode: items, as long as there are bytes, and an END *)
Item(left, len) == IF left \in {Bad, 0} THEN left ELSE Need(2 + len, left)
Slurp(start, left) ==
  LET pad == (4 - ((start - left) % 4)) % 4 IN IF pad > left THEN 0 ELSE left - pad

rtcp_sdes_decode(left, items) ==
  LET src == Then(left, SrcSize)
      end == IF src = Bad THEN Bad ELSE SeqOps!FoldLeft(Item, src, items)
  IN IF end = Bad THEN Bad
     ELSE Slurp(left, IF end = 0 THEN 0 ELSE end - 1)

Repeat(left, n, op(_)) == SeqOps!FoldLeft(LAMBDA acc, i : op(acc), left, [i \in 1 .. n |-> i])

Block(left) == Then(left, 24)

(* A reason: the byte of its length is read, as 0 behind the end. *)
Reason(m, left) ==
  IF left = Bad THEN Bad
  ELSE IF left = 0 THEN 0
  ELSE Need(1 + (IF m.texts = <<>> THEN 0 ELSE m.texts[1]), left)

(* Mutant: the length of the packet is not looked at for a reason. *)
HasReason_Left(m, rem, left) == left > 0

HasReason(m, rem, left) == rem > 4 * m.count

(* The switch of rtcp_decode: left bytes behind the header, rem of them    *)
(* are the packet's by its own word.                                       *)
Decoded(m, rem, left) ==
  CASE m.pt = "SR" -> Repeat(Then(left, 24), m.count, Block)
    [] m.pt = "RR" -> Repeat(Then(left, SrcSize), m.count, Block)
    [] m.pt = "SDES" -> Repeat(left, m.count, LAMBDA l : IF l = Bad THEN Bad
                                ELSE rtcp_sdes_decode(l, m.texts))
    [] m.pt = "BYE" ->
         LET rest == Then(left, 4 * m.count)
         IN IF HasReason(m, rem, rest) THEN Reason(m, rest) ELSE rest
    [] m.pt = "APP" ->
         LET rest == Then(left, 8)
         IN IF rem > 8 THEN Then(rest, rem - 8) ELSE rest
    [] m.pt = "FIR" -> Then(left, 4)
    [] m.pt = "NACK" -> Then(left, 8)
    [] m.pt \in {"GNACK", "SLI"} ->
         IF Then(left, 8) = Bad \/ rem < 8 THEN Bad ELSE Then(left, rem)
    [] m.pt \in {"PLI", "fb"} -> Then(left, 8)
    [] OTHER -> left - rem

(* rtcp_decode: one packet from the buffer *)
rtcp_decode(m, length, all) ==
  LET left == Then(all, HdrSize)
      rem == 4 * length
      rest == IF left = Bad \/ m.pt = "version" THEN Bad
              ELSE IF left < rem THEN Bad ELSE Decoded(m, rem, left)
  IN IF rest = Bad THEN Bad ELSE Slurp(all, rest)

----------------------------------------------------------------------------
Reports == {Pkt(pt, c, <<>>) : pt \in {"SR", "RR", "APP", "GNACK", "SLI"}, c \in Counts}
Fixed == {Pkt(pt, 0, <<>>) : pt \in {"FIR", "NACK", "PLI"}}
Named == {Pkt("SDES", c, <<t, u>>) : c \in Counts, t \in Texts, u \in Texts}
           \cup {Pkt("BYE", c, t) : c \in Counts, t \in {<<>>} \cup {<<x>> : x \in Texts}}
Encoded == Reports \cup Fixed \cup Named
Foreign == Encoded \cup {Pkt(pt, 0, <<>>) : pt \in {"fb", "unknown", "version"}}

(* mk_sr, mk_sdes, rtcp_send_app, ...: one more packet of a compound *)
RtcpEncode(m) ==
  /\ rx.st = "none" /\ Len(rtcpWire) < MaxMsgs
  /\ rtcpWire' = Append(rtcpWire, m)
  /\ UNCHANGED rx

(* A datagram arrives, ours or not. *)
RtcpArrive(own, size) ==
  /\ rx.st = "none" /\ own = (rtcpWire # <<>>)
  /\ rx' = [rx EXCEPT !.st = "run", !.own = own, !.end = IF own THEN Bound(Len(rtcpWire)) ELSE size]
  /\ UNCHANGED rtcpWire

Consumed(left) ==
  rx' = IF left = Bad THEN [rx EXCEPT !.st = "done"]
        ELSE [rx EXCEPT !.pos = rx.end - left, !.n = @ + 1]

(* The loop of rtcp_recv_handler: what stands at pos is our next packet,   *)
(* or anything.                                                            *)
RtcpRecv ==
  /\ rx.st = "run"
  /\ IF rx.own /\ rx.pos < rx.end
     THEN LET m == rtcpWire[rx.n + 1]
          IN Consumed(rtcp_decode(m, (rtcp_vencode(m) - HdrSize) \div 4, rx.end - rx.pos))
     ELSE \E m \in Foreign, length \in Lengths :
            Consumed(rtcp_decode(m, length, rx.end - rx.pos))
  /\ UNCHANGED rtcpWire

RtcpMsgNext ==
  \/ \E m \in Encoded : RtcpEncode(m)
  \/ \E own \in BOOLEAN, size \in Sizes : RtcpArrive(own, size)
  \/ RtcpRecv

----------------------------------------------------------------------------
(* A compound of the encoder is decoded packet by packet to its end: every *)
(* packet is found where the encoder put it, whatever precedes it.  And    *)
(* whatever the lengths and counts of a datagram say, the decoder stays in *)
(* it and every turn of the loop takes at least a header, so that it ends  *)
(* (rtcp_vencode, rtcp_decode, rtcp_recv_handler).                         *)
RtcpInStep ==
  /\ rx.pos <= rx.end /\ HdrSize * rx.n <= rx.pos
  /\ rx.own => /\ rx.n <= Len(rtcpWire)
               /\ rx.pos = Bound(rx.n)
               /\ rx.st = "done" => rx.n = Len(rtcpWire)
=============================================================================
