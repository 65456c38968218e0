------------------------------ MODULE Payloads ------------------------------
(***************************************************************************)
(* Payloads of RTP packets: the telephone events of an audio stream, the   *)
(* pictures of a video stream, and the sound that the audio codecs code.   *)
(***************************************************************************)
EXTENDS Integers, Sequences, FiniteSets, SequencesExt

(***************************************************************************)
(* Keys of a call as telephone events: telev/telev.c, and the part of      *)
(* audio.c that sends and hears them.  The main thread queues presses and  *)
(* releases in a buffer (telev_send), the thread of the audio source takes *)
(* them out (telev_poll, from ausrc_read_handler), and each is a train of  *)
(* packets that the network may partly lose.                               *)
(*                                                                         *)
(* telev_send moves the position of the buffer to its end, writes, and     *)
(* moves it back, without a lock: it is two steps here, and raced says     *)
(* that the other thread was in between.  DigitMin stands for              *)
(* TXC_DIGIT_MIN.                                                          *)
(***************************************************************************)
CONSTANTS
  Key,         \* keys that telev_digit2code knows
  DigitMin, EndMin,  \* TXC_DIGIT_MIN, TXC_END
  MaxLoss,     \* packets in a row that the network may lose
  MaxKeys      \* bound on the keys of a run

NoKey == "none"
End == "end"       \* EVENT_END

ASSUME TelevAssumption ==
  /\ DigitMin \in Nat \ {0} /\ EndMin \in Nat \ {0} /\ MaxLoss \in Nat
  /\ MaxKeys \in Nat /\ NoKey \notin Key /\ End \notin Key

VARIABLES
  keys,        \* what was pressed and released, and cur_key
  tel,         \* the sending half of struct telev; buf, pos are its mbuf
  saved,       \* the local variable of a telev_send that is under way
  air,         \* packets on their way, and the last losses in a row
  telrx,       \* the receiving half of struct telev
  heard        \* the events that were reported

televVars == <<keys, tel, saved, air, telrx, heard>>

Quiet == [on |-> FALSE, pos |-> 0, code |-> NoKey]

TelevInit ==
  /\ keys = [log |-> <<>>, cur |-> NoKey, raced |-> FALSE]
  /\ tel = [state |-> "idle", event |-> NoKey, txc |-> 0, buf |-> <<>>, pos |-> 0]
  /\ saved = Quiet
  /\ \E f \in BOOLEAN : air = [q |-> <<>>, lost |-> 0, fmt |-> f]
  /\ telrx = [event |-> NoKey, end |-> FALSE]
  /\ heard = <<>>

----------------------------------------------------------------------------
(* telev_send, its first half *)
telev_send(code) ==
  /\ saved' = [on |-> TRUE, pos |-> tel.pos, code |-> code]
  /\ tel' = [tel EXCEPT !.pos = Len(tel.buf)]

(* The rest of telev_send: the byte is written where pos stands, and pos   *)
(* is what it was before.                                                  *)
SendRest ==
  /\ saved.on
  /\ tel' = [tel EXCEPT !.pos = saved.pos,
               !.buf = SubSeq(@, 1, tel.pos) \o <<saved.code>>]
  /\ saved' = Quiet
  /\ UNCHANGED <<keys, air, telrx, heard>>

(* audio_send_digit: a key is pressed, or released. *)
Press(k) ==
  /\ ~saved.on /\ Len(keys.log) < MaxKeys
  /\ telev_send(k)
  /\ keys' = [keys EXCEPT !.log = Append(@, k), !.cur = k]
  /\ UNCHANGED <<air, telrx, heard>>

Release ==
  /\ ~saved.on /\ keys.cur # NoKey
  /\ telev_send(End)
  /\ keys' = [keys EXCEPT !.cur = NoKey]
  /\ UNCHANGED <<air, telrx, heard>>

----------------------------------------------------------------------------
Waiting == tel.pos < Len(tel.buf)
Next1 == tel.buf[tel.pos + 1]

(* check_telev and stream_send: nothing leaves without a negotiated format *)
Transmit(event, end) ==
  air' = IF air.fmt THEN [air EXCEPT !.q = Append(@, [event |-> event, end |-> end])]
         ELSE air

(* telev_poll in IDLE *)
PollIdle ==
  /\ tel.state = "idle" /\ Waiting
  /\ Transmit(Next1, FALSE)
  /\ tel' = [tel EXCEPT !.pos = @ + 1, !.event = Next1, !.state = "sending", !.txc = 1]

(* A key sounds at least DigitMin packets, and until the next entry; an    *)
(* END is taken out with it, another key is left for IDLE.                 *)
PollSending ==
  /\ tel.state = "sending"
  /\ Transmit(tel.event, FALSE)
  /\ tel' = IF tel.txc + 1 < DigitMin THEN [tel EXCEPT !.txc = @ + 1]
            ELSE IF ~Waiting THEN tel
            ELSE [tel EXCEPT !.state = "ending", !.txc = 0,
                    !.pos = IF Next1 = End THEN @ + 1 ELSE @]

(* Mutant: the end of an event is sent once. *)
Ended_Once(t) == t.txc + 1 >= 1

Ended(t) == t.txc + 1 >= EndMin

(* telev_poll in ENDING: an empty buffer starts from its beginning again. *)
PollEnding ==
  /\ tel.state = "ending"
  /\ Transmit(tel.event, TRUE)
  /\ tel' = IF ~Ended(tel) THEN [tel EXCEPT !.txc = @ + 1]
            ELSE IF Waiting THEN [tel EXCEPT !.state = "idle"]
            ELSE [tel EXCEPT !.state = "idle", !.pos = 0, !.buf = <<>>]

telev_poll ==
  /\ Len(air.q) < 2
  /\ PollIdle \/ PollSending \/ PollEnding
  /\ keys' = [keys EXCEPT !.raced = @ \/ saved.on]
  /\ UNCHANGED <<saved, telrx, heard>>

----------------------------------------------------------------------------
(* The network loses, and keeps the order that the jitter buffer restores. *)
TelevLose ==
  /\ air.q # <<>> /\ air.lost < MaxLoss
  /\ air' = [air EXCEPT !.q = Tail(@), !.lost = @ + 1]
  /\ UNCHANGED <<keys, tel, saved, telrx, heard>>

(* handle_telev and telev_recv: the first packet of an event and the first *)
(* of its ends are told.                                                   *)
HandleTelev ==
  /\ air.q # <<>>
  /\ LET fmt == Head(air.q)
         fresh == IF fmt.end THEN ~telrx.end ELSE fmt.event # telrx.event
     IN /\ heard' = IF fresh THEN Append(heard, fmt) ELSE heard
        /\ telrx' = IF ~fresh THEN telrx
                    ELSE [event |-> IF fmt.end THEN NoKey ELSE fmt.event, end |-> fmt.end]
  /\ air' = [air EXCEPT !.q = Tail(@), !.lost = 0]
  /\ UNCHANGED <<keys, tel, saved>>

TelevNext ==
  \/ \E k \in Key : Press(k)
  \/ Release \/ SendRest \/ telev_poll \/ TelevLose \/ HandleTelev

TelevSpec == TelevInit /\ [][TelevNext]_televVars

----------------------------------------------------------------------------
(* What a perfect line would tell: each key that was pressed, and its end *)
Events(log) ==
  [i \in 1 .. 2 * Len(log) |->
     [event |-> log[(i + 1) \div 2], end |-> i % 2 = 0]]

(* The peer hears the keys that were pressed, each once, in their order    *)
(* and each with its end, the same key twice too: however short the        *)
(* presses are, and whichever packets are lost, as long as not all ends of *)
(* an event are (telev_poll, telev_recv), and no press ran into a poll.    *)
KeysHeard == ~keys.raced => IsPrefix(heard, Events(keys.log))

(* The same, when the source calls from any thread (ausrc_read_handler). *)
KeysHeardAlways == IsPrefix(heard, Events(keys.log))

----------------------------------------------------------------------------
(***************************************************************************)
(* Pictures in packets, as the codec modules of baresip send and take them *)
(* (avcodec: H.263, H.264 and MPEG-4; vpx: VP8).  A picture is cut into    *)
(* packets of at most MAX_RTP_SIZE bytes, the last of which is marked; the *)
(* receiver puts what comes one behind the other, and decodes when a       *)
(* marked packet comes.  Packets are lost.                                 *)
(*                                                                         *)
(* A picture of H.264 is a sequence of units, the others are one unit.     *)
(* Byte k of unit i of picture p is <<p, i, k>>; byte 0 of a unit is its   *)
(* start sequence and header, which H.264 rebuilds at the receiver.        *)
(***************************************************************************)
CONSTANTS
  MaxRtp,        \* MAX_RTP_SIZE
  UnitSize,      \* sizes of units
  MaxUnits,      \* units of an H.264 picture
  MaxPics,       \* pictures sent
  PicDim         \* sizes of pictures: the encoder is made for one of them

VARIABLES
  vcodec,        \* "h263", "h264", "mpeg4", "vp8"
  encsz,         \* the size the encoder is open for, or "none"
  pic,           \* the picture sent last: [n, units]
  line,          \* packets on the way
  decmb,         \* what the receiver has put together
  got_keyframe,
  lost,          \* packets were lost
  torn,          \* ... or a picture came without its mark, since the last mark
  shown          \* what was decoded last

pktVars == <<vcodec, encsz, pic, line, decmb, got_keyframe, lost, torn, shown>>

UnitKinds == {"sps", "slice"}

Nothing == [n |-> 0, units |-> <<>>, data |-> <<>>, torn |-> FALSE]

PktInit ==
  /\ vcodec \in {"h263", "h264", "mpeg4", "vp8"}
  /\ encsz = "none"
  /\ pic = [n |-> 0, units |-> <<>>]
  /\ line = <<>> /\ decmb = <<>>
  /\ got_keyframe = (vcodec = "vp8")
  /\ lost = FALSE /\ torn = FALSE
  /\ shown = Nothing

----------------------------------------------------------------------------
(* Bytes a to b of a unit *)
PicBytes(p, i, a, b) == [k \in 1 .. b - a + 1 |-> <<p, i, a + k - 1>>]

Packet(kind, start, fu, m, data) ==
  [kind |-> kind, start |-> start, fu |-> fu, m |-> m, data |-> data]

(* general_packetize: a packet is the last one if it is not full. *)
general_packetize(p, u) ==
  LET count == (u.size + MaxRtp - 1) \div MaxRtp
      upto(j) == IF j * MaxRtp < u.size THEN j * MaxRtp ELSE u.size
      left(j) == u.size - (j - 1) * MaxRtp
  IN [j \in 1 .. count |->
        Packet(u.kind, j = 1, FALSE, left(j) < MaxRtp,
               PicBytes(p, 1, (j - 1) * MaxRtp + 1, upto(j)))]

(* h263_packetize: the same, behind a header with the type of the picture *)
h263_packetize(p, u) == general_packetize(p, u)

(* vpx_packetize: the same, behind a descriptor with the picture number *)
vpx_packetize(p, u) == general_packetize(p, u)

(* Mutant: all fragments have the start bit. *)
FuStart_Every(j) == TRUE

(* The start bit of fragment j of a unit *)
FuStart(j) == j = 1

(* h264_nal_send: a unit that fits is a packet; one that does not goes in  *)
(* fragments with a header of two bytes.                                   *)
h264_nal_send(p, i, u, marker) ==
  IF u.size <= MaxRtp
  THEN <<Packet(u.kind, TRUE, FALSE, marker, PicBytes(p, i, 1, u.size))>>
  ELSE LET sz == MaxRtp - 2
           count == (u.size + sz - 1) \div sz
           upto(j) == IF j * sz < u.size THEN j * sz ELSE u.size
       IN [j \in 1 .. count |->
             Packet(u.kind, FuStart(j), TRUE, marker /\ j = count,
                    PicBytes(p, i, (j - 1) * sz + 1, upto(j)))]

(* h264_packetize: one unit after the other, the last one marked *)
h264_packetize(p, units) ==
  FlattenSeq([i \in 1 .. Len(units) |->
                h264_nal_send(p, i, units[i], i = Len(units))])

Packets(p, units) ==
  CASE vcodec = "h264" -> h264_packetize(p, units)
    [] vcodec = "vp8" -> vpx_packetize(p, units[1])
    [] vcodec = "h263" -> h263_packetize(p, units[1])
    [] OTHER -> general_packetize(p, units[1])

Units == {[kind |-> k, size |-> z] : k \in UnitKinds, z \in UnitSize}

(* enc and enc_x264: the encoder is opened again for pictures of another   *)
(* size; if that fails, nothing is sent.                                   *)
EncodePic ==
  /\ line = <<>> /\ pic.n < MaxPics
  /\ \E z \in PicDim :
       \/ /\ encsz # z /\ encsz # "none"
          /\ encsz' = "none"
          /\ UNCHANGED <<pic, line>>
       \/ /\ encsz' = z
          /\ \E k \in 1 .. (IF vcodec = "h264" THEN MaxUnits ELSE 1) :
             \E units \in [1 .. k -> Units] :
               /\ pic' = [n |-> pic.n + 1, units |-> units]
               /\ line' = Packets(pic.n + 1, units)
  /\ UNCHANGED <<vcodec, decmb, got_keyframe, lost, torn, shown>>

LosePkt ==
  /\ line # <<>>
  /\ line' = Tail(line)
  /\ lost' = TRUE /\ torn' = TRUE
  /\ UNCHANGED <<vcodec, encsz, pic, decmb, got_keyframe, shown>>

----------------------------------------------------------------------------
(* dec_h263, dec_h264 and dec_mpeg4: what shows that pictures can begin.   *)
(* Of H.264 only a parameter set that came in one packet does.             *)
Keyframe(k) ==
  CASE vcodec = "h264" -> k.kind = "sps" /\ ~k.fu
    [] vcodec = "h263" -> k.kind = "sps"
    [] OTHER -> TRUE

(* h264_decode writes the start of a unit where a unit starts; the others  *)
(* have it in their bytes.                                                 *)
Assembled(k) ==
  (IF vcodec = "h264" /\ k.start THEN <<<<k.data[1][1], k.data[1][2], 0>>>> ELSE <<>>)
  \o k.data

(* ffdecode and the dec of vpx, for the next packet *)
DecodePkt ==
  /\ line # <<>>
  /\ line' = Tail(line)
  /\ LET k == Head(line)
         mb == decmb \o Assembled(k)
         key == got_keyframe \/ Keyframe(k)
     IN /\ got_keyframe' = key
        /\ decmb' = IF k.m THEN <<>> ELSE mb
        /\ shown' = IF k.m /\ key
                    THEN [n |-> pic.n, units |-> pic.units, data |-> mb, torn |-> torn]
                    ELSE Nothing
        /\ torn' = (~k.m /\ (torn \/ line' = <<>>))
  /\ UNCHANGED <<vcodec, encsz, pic, lost>>

PktNext == EncodePic \/ LosePkt \/ DecodePkt

PktSpec == PktInit /\ [][PktNext]_pktVars

----------------------------------------------------------------------------
Whole(p, units) ==
  FlattenSeq([i \in 1 .. Len(units) |->
                PicBytes(p, i, IF vcodec = "h264" THEN 0 ELSE 1, units[i].size)])

(* However many packets were lost before, once a marked one has come, the  *)
(* next picture that comes whole is decoded whole, and nothing of the      *)
(* broken ones with it; a picture whose last packet is full has no mark,   *)
(* and counts as broken.                                                   *)
PicturesWhole ==
  shown.n # 0 /\ ~shown.torn =>
    shown.data = Whole(shown.n, shown.units)

(* As long as nothing is lost, what is decoded is the picture sent last.   *)
PictureAlone == ~lost /\ shown.n # 0 => shown.data = Whole(shown.n, shown.units)

----------------------------------------------------------------------------
(***************************************************************************)
(* Sound in packets: the codec modules, the loop of audio.c that           *)
(* calls them, and the buffers they write (re_mbuf.h and mbuf.c).  Each    *)
(* codec makes room in the buffer and moves its positions in its own way;  *)
(* the libraries that code a frame are external, they succeed or fail.     *)
(*                                                                         *)
(* A buffer is what struct mbuf has, and in the place of its bytes the     *)
(* pieces that were written: [at, len, fr], where fr is the interval of    *)
(* the frames of a packet that the piece holds, <<0, 0>> for a piece that  *)
(* conceals a loss.  A piece that is written over is gone; out says that   *)
(* something was written behind the buffer.  A packet is positions in its  *)
(* bytes and the frames still in it.                                       *)
(***************************************************************************)
CONSTANTS
  AuCodec,       \* the codecs of a run
  SizeT,         \* size_t counts modulo this
  MaxCalls,      \* the calls of a decoder for one packet: 64 in the code
  MaxFrames,     \* frames of a packet
  Ptimes         \* packet times that a session may ask for

VARIABLES
  acodec,        \* the codec
  acst,          \* struct aucodec_st: what it holds, and what it remembers
  rxmb, txmb,    \* rx.mb and tx.mb of struct audio
  pkt,           \* the packet that is decoded
  acall,         \* audio_stream_decode or encode_rtp_send, how far it is
  plc            \* the filter chain has the filter plc

codecVars == <<acodec, acst, rxmb, txmb, pkt, acall, plc>>

NewBuf(n) == [size |-> n, pos |-> 0, end |-> 0, data |-> {}, out |-> FALSE]
NoPkt == [null |-> TRUE, pos |-> 0, end |-> 0, next |-> 1, last |-> 0]
NoCodec == [st |-> "none", ptime |-> 0, held |-> {}, dec_bytes |-> 0, mode_dec |-> 20,
            got_packet |-> FALSE]
PreSz == 16        \* STREAM_PRESZ

CodecInit ==
  /\ acodec \in AuCodec /\ plc \in BOOLEAN
  /\ acst = NoCodec
  /\ rxmb = NewBuf(4 * 320) /\ txmb = NewBuf(PreSz + 320)
  /\ pkt = NoPkt
  /\ acall = [st |-> "idle", n |-> 0, of |-> 0, lib |-> FALSE]

----------------------------------------------------------------------------
(* The inline functions of re_mbuf.h *)
mbuf_get_left(mb) == (mb.end - mb.pos) % SizeT
mbuf_get_space(mb) == (mb.size - mb.pos) % SizeT
mbuf_rewind(mb) == [mb EXCEPT !.pos = 0, !.end = 0, !.data = {}]

(* What an encoder or decoder writes behind pos, itself or its library *)
Put(mb, len, fr) ==
  [mb EXCEPT !.out = @ \/ mb.pos + len > mb.size,
     !.data = {p \in @ : p.at + p.len <= mb.pos \/ mb.pos + len <= p.at}
              \union {[at |-> mb.pos, len |-> len, fr |-> fr]}]

(* mbuf_resize: what is behind the new end is gone. *)
mbuf_resize(mb, size) ==
  [mb EXCEPT !.size = size, !.data = {p \in @ : p.at + p.len <= size}]

(* Space for need bytes, or a buffer of to bytes *)
MakeRoom(mb, need, to) == IF mbuf_get_space(mb) < need THEN mbuf_resize(mb, to) ELSE mb
Full(mb, need, mem) == mbuf_get_space(mb) < need /\ ~mem

(* mbuf_write_mem: a buffer that is too small is doubled. *)
mbuf_write_mem(mb, len, fr) ==
  LET rsize == mb.pos + len
      dsize == IF mb.size = 0 THEN 512 ELSE 2 * mb.size
      big == IF rsize <= mb.size THEN mb
             ELSE mbuf_resize(mb, IF rsize > dsize THEN rsize ELSE dsize)
  IN [Put(big, len, fr) EXCEPT !.pos = rsize, !.end = IF @ > rsize THEN @ ELSE rsize]

Grow(mb, n) == [mb EXCEPT !.end = @ + n]
Shift(mb, n) == [mb EXCEPT !.pos = @ + n]

(* The frames still in the packet; all of them are taken, or the next k.   *)
FramesLeft(p) == <<p.next, p.last>>
Fr(p) == IF mbuf_get_left(p) = 0 THEN <<0, 0>> ELSE FramesLeft(p)
Frames(p) == [i \in 1 .. p.last - p.next + 1 |-> p.next + i - 1]
Taken(p, bytes, k) == [p EXCEPT !.pos = @ + bytes, !.next = @ + k]
Drained(p) == [p EXCEPT !.pos = p.end, !.next = p.last + 1]

----------------------------------------------------------------------------
(* Decoders.  A call c has a buffer mb, a packet p (null if one was lost), *)
(* the state st, and err once it has failed; mem says whether memory can   *)
(* be had, good how many frames the library makes before it fails.  lib is *)
(* a failure of the library that the codec goes on after.                  *)
Fail(c) == [c EXCEPT !.err = TRUE]

g711_decode(c, mem, good) ==
  LET n == 2 * mbuf_get_left(c.p)
  IN CASE n = 0 -> c
       [] n # 0 /\ Full(c.mb, n, mem) -> Fail(c)
       [] OTHER -> [c EXCEPT !.p = Drained(@),
                      !.mb = mbuf_write_mem(MakeRoom(@, n, @.size + n), n, FramesLeft(c.p))]

g722_decode(c, mem, good) ==
  LET n == 4 * mbuf_get_left(c.p)
      mb == MakeRoom(c.mb, n, 2 * (c.mb.pos + n))
  IN CASE n = 0 -> c
       [] n # 0 /\ Full(c.mb, n, mem) -> Fail(c)
       [] OTHER -> [c EXCEPT !.p = Drained(@), !.lib = good = 0,
                      !.mb = IF good = 0 THEN mb ELSE Grow(Put(mb, n, FramesLeft(c.p)), n)]

(* speex: a packet holds any number of frames. *)
speex_dec(c, mem, good) ==
  LET n == 320
      mb == MakeRoom(c.mb, n, c.mb.size + n)
      frame(d, i) ==
        IF d.err \/ i > good THEN d
        ELSE IF Full(d.mb, n, mem) THEN Fail(d)
        ELSE [d EXCEPT !.mb =
                 Shift(Grow(Put(MakeRoom(@, n, @.size + n), n, <<i, i>>), n), n)]
  IN CASE Full(c.mb, n, mem) -> Fail(c)
       [] ~Full(c.mb, n, mem) /\ mbuf_get_left(c.p) = 0 ->
            [c EXCEPT !.mb = Grow(Put(mb, n, <<0, 0>>), n)]
       [] OTHER -> [FoldLeft(frame, [c EXCEPT !.mb = mb], Frames(c.p)) EXCEPT
                      !.p = Drained(@), !.lib = good < c.p.last]

(* celt: the frames of a packet with their lengths; pos does not move. *)
celt_decode(c, mem, good) ==
  LET n == 640
      decode_frame(d, i) ==
        IF d.err THEN d
        ELSE IF Full(d.mb, n, mem) THEN Fail(d)
        ELSE [d EXCEPT !.mb = Grow(Put(MakeRoom(@, n, @.size + n), n, <<i, i>>), n),
                       !.p = Taken(@, 41, 1)]
  IN IF mbuf_get_left(c.p) = 0 THEN Fail(c)
     ELSE [FoldLeft(decode_frame, c, Frames(c.p)) EXCEPT !.lib = good < c.p.last]

(* ilbc: a packet is a block, or a block is made up; src moves in both. *)
ilbc_do_dec(c, mem) ==
  LET n == IF c.st.mode_dec = 20 THEN 320 ELSE 480
      block == IF mbuf_get_left(c.p) = 0 THEN 0 ELSE 1
  IN IF Full(c.mb, n, mem) THEN Fail(c)
     ELSE [c EXCEPT !.mb = mbuf_write_mem(MakeRoom(@, n, @.pos + n), n,
                                          <<block * c.p.next, block * c.p.next>>),
                    !.p = IF @.null THEN @ ELSE Taken(@, c.st.dec_bytes, block)]

(* ilbc: the size of a packet tells the mode; a size is remembered even if *)
(* it is none of a mode.                                                   *)
ilbc_decode(c, mem, good) ==
  LET left == mbuf_get_left(c.p)
      new == left # 0 /\ left # c.st.dec_bytes
      st == IF ~new THEN c.st
            ELSE [c.st EXCEPT !.dec_bytes = left,
                    !.mode_dec = IF left = 38 THEN 20 ELSE IF left = 50 THEN 30 ELSE @]
  IN IF new /\ left \notin {38, 50} THEN [Fail(c) EXCEPT !.st = st]
     ELSE ilbc_do_dec([c EXCEPT !.st = st], mem)

opus_decode(c, mem, good) ==
  LET n == 3840
      mb == MakeRoom(c.mb, n, c.mb.pos + n)
  IN CASE mbuf_get_left(c.p) = 0 /\ ~c.st.got_packet -> c
       [] (mbuf_get_left(c.p) # 0 \/ c.st.got_packet) /\ Full(c.mb, n, mem) -> Fail(c)
       [] OTHER ->
            IF good = 0 THEN [Fail(c) EXCEPT !.mb = mb]
            ELSE [c EXCEPT !.mb = Grow(Put(mb, n, Fr(c.p)), n), !.p = Drained(@),
                           !.st.got_packet = TRUE]

(* silk: if the library fails, what it was offered counts as its answer. *)
silk_decode(c, mem, good) ==
  LET n == 960
      mb == MakeRoom(c.mb, n, n)
  IN IF Full(c.mb, n, mem) THEN Fail(c)
     ELSE [c EXCEPT !.p = Drained(@), !.lib = good = 0,
                    !.mb = IF good = 0 THEN Grow(mb, 2 * (mbuf_get_space(mb) \div 2))
                           ELSE Grow(Put(mb, n, Fr(c.p)), n)]

(* amr: frames of 640 bytes, but those of the narrow band have 320. *)
amr_decode(c, mem, len) ==
  CASE c.p.null -> c
    [] ~c.p.null /\ Full(c.mb, 640, mem) -> Fail(c)
    [] OTHER -> [c EXCEPT !.p = Drained(@),
                   !.mb = Grow(Put(MakeRoom(@, 640, @.pos + 640), len, FramesLeft(c.p)), 640)]

decode_wb(c, mem, good) == amr_decode(c, mem, 640)
decode_nb(c, mem, good) == amr_decode(c, mem, 320)

g7221_decode(c, mem, good) ==
  LET n == 640
      mb == MakeRoom(c.mb, n, 2 * (c.mb.pos + n))
  IN IF Full(c.mb, n, mem) THEN Fail(c)
     ELSE [c EXCEPT !.p = Drained(@), !.lib = good = 0,
                    !.mb = IF good = 0 THEN mb ELSE Grow(Put(mb, n, Fr(c.p)), n)]

(* gsm: one frame in a call; pos does not move. *)
gsm_decode(c, mem, good) ==
  LET left == mbuf_get_left(c.p)
  IN CASE left = 0 -> c
       [] left # 0 /\ (left < 33 \/ mbuf_get_space(c.mb) < 320 \/ c.p.next > good) ->
            Fail(c)
       [] OTHER -> [c EXCEPT !.p = Taken(@, 33, 1),
                      !.mb = Grow(Put(@, 320, <<c.p.next, c.p.next>>), 320)]

(* bv32: whole frames; a rest that is none is never taken. *)
bv32_decode(c, mem, good) ==
  LET n == 160
      nframe == mbuf_get_left(c.p) \div 20
      mb == MakeRoom(c.mb, n * nframe, c.mb.size + n * nframe)
      frame(d, i) ==
        [d EXCEPT !.mb = Shift([Put(@, n, <<i, i>>) EXCEPT !.end = d.mb.pos + n], n),
                  !.p = Taken(@, 20, 1)]
  IN CASE Full(c.mb, n * nframe, mem) -> Fail(c)
       [] ~Full(c.mb, n * nframe, mem) /\ mbuf_get_left(c.p) = 0 ->
            [c EXCEPT !.mb = Grow(Put(mb, n, <<0, 0>>), n)]
       [] OTHER -> [FoldLeft(frame, [c EXCEPT !.mb = mb], Frames(c.p)) EXCEPT
                      !.mb.pos = c.mb.pos]

(* l16: sample after sample until nothing is left; of a single byte        *)
(* nothing is ever read, and the call does not return.                     *)
l16_decode(c, mem, good) ==
  LET n == 2 * (mbuf_get_left(c.p) \div 2)
      fits == c.mb.pos + n <= c.mb.size \/ mem
  IN CASE mbuf_get_left(c.p) % 2 = 1 -> [c EXCEPT !.stuck = TRUE]
       [] mbuf_get_left(c.p) = 0 -> c
       [] OTHER -> [c EXCEPT !.p = Drained(@), !.err = ~fits,
                      !.mb = IF fits THEN mbuf_write_mem(@, n, FramesLeft(c.p)) ELSE @]

isac_decode(c, mem, good) ==
  LET n == 640
      full == c.mb.pos + n > c.mb.size /\ ~mem
  IN IF good = 0 THEN Fail(c)
     ELSE [c EXCEPT !.p = Drained(@), !.err = full,
                    !.mb = IF full THEN @ ELSE mbuf_write_mem(@, n, Fr(c.p))]

dech(c, mem, good) ==
  CASE acodec = "g711" -> g711_decode(c, mem, good)
    [] acodec = "g722" -> g722_decode(c, mem, good)
    [] acodec = "speex" -> speex_dec(c, mem, good)
    [] acodec = "celt" -> celt_decode(c, mem, good)
    [] acodec = "ilbc" -> ilbc_decode(c, mem, good)
    [] acodec = "opus" -> opus_decode(c, mem, good)
    [] acodec = "silk" -> silk_decode(c, mem, good)
    [] acodec = "amr_wb" -> decode_wb(c, mem, good)
    [] acodec = "amr_nb" -> decode_nb(c, mem, good)
    [] acodec = "g7221" -> g7221_decode(c, mem, good)
    [] acodec = "gsm" -> gsm_decode(c, mem, good)
    [] acodec = "bv32" -> bv32_decode(c, mem, good)
    [] acodec = "l16" -> l16_decode(c, mem, good)
    [] acodec = "isac" -> isac_decode(c, mem, good)

----------------------------------------------------------------------------
(* Encoders: p is what the source has, frames of sound.  What they write   *)
(* is one piece, with all frames that it codes.                            *)
g711_encode(c, mem, good) ==
  LET n == mbuf_get_left(c.p) \div 2
  IN CASE n = 0 -> c
       [] n # 0 /\ Full(c.mb, n, mem) -> Fail(c)
       [] OTHER -> [c EXCEPT !.p = Drained(@),
                      !.mb = LET mb == Put(MakeRoom(@, n, @.size + n), n, FramesLeft(c.p))
                             IN [mb EXCEPT !.pos = @ + n, !.end = mb.pos + n]]

(* A codec that writes len bytes behind pos, after it has made room for    *)
(* max bytes                                                               *)
Coded(c, max, to, len, mem) ==
  IF Full(c.mb, max, mem) THEN Fail(c)
  ELSE [c EXCEPT !.p = Drained(@),
                 !.mb = Grow(Put(MakeRoom(@, max, to), len, Fr(c.p)), len)]

g722_encode(c, mem, good) ==
  LET n == mbuf_get_left(c.p) \div 4
  IN IF good = 0 \/ n = 0 THEN [c EXCEPT !.p = Drained(@), !.lib = TRUE]
     ELSE Coded(c, n, 2 * (c.mb.pos + n), n, mem)

(* speex: nothing to code is coded as silence. *)
speex_enc(c, mem, good) ==
  IF mbuf_get_space(c.mb) < 128 THEN Fail(c)
  ELSE Coded(c, 0, 0, IF mbuf_get_left(c.p) = 0 THEN 1 ELSE 38 * c.p.last, mem)

celt_encode(c, mem, good) ==
  LET len == 41 * c.p.last
  IN IF c.p.last = 0 \/ good < c.p.last \/ (c.mb.pos + len > c.mb.size /\ ~mem) THEN Fail(c)
     ELSE [c EXCEPT !.p = Drained(@), !.mb = mbuf_write_mem(@, len, FramesLeft(c.p))]

ilbc_encode(c, mem, good) ==
  IF mbuf_get_space(c.mb) < 38 THEN Fail(c) ELSE Coded(c, 0, 0, 38, mem)

opus_encode(c, mem, good) ==
  CASE mbuf_get_left(c.p) = 0 -> c
    [] mbuf_get_left(c.p) # 0 /\ (c.p.last # 1 \/ good = 0) -> Fail(c)
    [] OTHER -> Coded(c, 1500, c.mb.pos + 1500, 160, mem)

silk_encode(c, mem, good) == Coded(c, 250, c.mb.pos + 250, 160, mem)

(* amr: a frame and no more *)
encode_wb(c, mem, good) ==
  CASE mbuf_get_left(c.p) = 0 -> c
    [] mbuf_get_left(c.p) # 0 /\ (c.p.last # 1 \/ good = 0) -> Fail(c)
    [] OTHER -> Coded(c, 61, c.mb.pos + 61, 61, mem)

encode_nb(c, mem, good) ==
  CASE mbuf_get_left(c.p) = 0 -> c
    [] mbuf_get_left(c.p) # 0 /\ (c.p.last # 1 \/ good = 0) -> Fail(c)
    [] OTHER -> Coded(c, 61, c.mb.pos + 61, 13, mem)

g7221_encode(c, mem, good) ==
  IF good = 0 THEN [c EXCEPT !.p = Drained(@), !.lib = TRUE]
  ELSE Coded(c, 640, 2 * (c.mb.pos + 640), 80, mem)

(* gsm: the first frame of what there is *)
gsm_encode(c, mem, good) ==
  IF mbuf_get_left(c.p) < 320 \/ mbuf_get_space(c.mb) < 33 THEN Fail(c)
  ELSE [c EXCEPT !.mb = Grow(Put(@, 33, <<c.p.next, c.p.next>>), 33),
                 !.p = Taken(@, 320, 1)]

bv32_encode(c, mem, good) ==
  LET len == 20 * c.p.last
  IN IF len = 0 THEN c ELSE Coded(c, len, c.mb.size + len, len, mem)

l16_encode(c, mem, good) ==
  LET n == mbuf_get_left(c.p)
  IN IF n = 0 THEN c
     ELSE IF c.mb.pos + n > c.mb.size /\ ~mem THEN Fail(c)
     ELSE [c EXCEPT !.p = Drained(@), !.mb = mbuf_write_mem(@, n, FramesLeft(c.p))]

(* isac: the library may want more sound before it gives a packet. *)
isac_encode(c, mem, good) ==
  IF good = 0 THEN [c EXCEPT !.p = Drained(@), !.lib = TRUE]
  ELSE [c EXCEPT !.p = Drained(@), !.mb = mbuf_write_mem(@, 100, FramesLeft(c.p))]

ench(c, mem, good) ==
  CASE acodec = "g711" -> g711_encode(c, mem, good)
    [] acodec = "g722" -> g722_encode(c, mem, good)
    [] acodec = "speex" -> speex_enc(c, mem, good)
    [] acodec = "celt" -> celt_encode(c, mem, good)
    [] acodec = "ilbc" -> ilbc_encode(c, mem, good)
    [] acodec = "opus" -> opus_encode(c, mem, good)
    [] acodec = "silk" -> silk_encode(c, mem, good)
    [] acodec = "amr_wb" -> encode_wb(c, mem, good)
    [] acodec = "amr_nb" -> encode_nb(c, mem, good)
    [] acodec = "g7221" -> g7221_encode(c, mem, good)
    [] acodec = "gsm" -> gsm_encode(c, mem, good)
    [] acodec = "bv32" -> bv32_encode(c, mem, good)
    [] acodec = "l16" -> l16_encode(c, mem, good)
    [] acodec = "isac" -> isac_encode(c, mem, good)

----------------------------------------------------------------------------
(* The alloc and the destructor of a codec: which packet times it takes (0 *)
(* is none given, as for a decoder), what it makes and in which order, and *)
(* what its destructor gives back.                                         *)
Makes(ok, seq, frees) == [ok |-> ok, seq |-> seq, frees |-> frees \union {"ac"}]

speex_alloc(ptime) == Makes(ptime % 20 = 0, <<"enc", "ebits", "dec", "dbits">>,
                            {"ebits", "enc", "dbits", "dec"})
celt_alloc(ptime) == Makes(TRUE, <<"mode", "enc", "dec">>, {"mode", "enc", "dec"})
ilbc_alloc(ptime) == Makes(ptime \in {0, 20, 30}, <<>>, {})
opus_alloc(ptime) == Makes(TRUE, <<"enc", "dec">>, {"enc", "dec"})
silk_alloc(ptime) == Makes(TRUE, <<"enc", "dec">>, {"dec", "enc"})
amr_alloc(ptime) == Makes(TRUE, <<"enc", "dec">>, {"enc", "dec"})
gsm_alloc(ptime) == Makes(TRUE, <<"enc", "dec">>, {"enc", "dec"})
isac_alloc(ptime) == Makes(TRUE, <<"inst">>, {"inst"})
g711_alloc(ptime) == Makes(TRUE, <<>>, {})
g722_alloc(ptime) == Makes(TRUE, <<>>, {})
g7221_alloc(ptime) == Makes(TRUE, <<>>, {})
bv32_alloc(ptime) == Makes(TRUE, <<>>, {})
l16_alloc(ptime) == Makes(TRUE, <<>>, {})

alloch(ptime) ==
  CASE acodec = "speex" -> speex_alloc(ptime)
    [] acodec = "celt" -> celt_alloc(ptime)
    [] acodec = "ilbc" -> ilbc_alloc(ptime)
    [] acodec = "opus" -> opus_alloc(ptime)
    [] acodec = "silk" -> silk_alloc(ptime)
    [] acodec \in {"amr_nb", "amr_wb"} -> amr_alloc(ptime)
    [] acodec = "gsm" -> gsm_alloc(ptime)
    [] acodec = "isac" -> isac_alloc(ptime)
    [] acodec = "g711" -> g711_alloc(ptime)
    [] acodec = "g722" -> g722_alloc(ptime)
    [] acodec = "g7221" -> g7221_alloc(ptime)
    [] acodec = "bv32" -> bv32_alloc(ptime)
    [] acodec = "l16" -> l16_alloc(ptime)

CodecAlloc ==
  /\ acst.st = "none"
  /\ \E t \in Ptimes \union {0} :
       /\ alloch(t).ok
       /\ acst' = [NoCodec EXCEPT !.st = "making", !.ptime = t, !.held = {"ac"}]
  /\ UNCHANGED <<acodec, rxmb, txmb, pkt, acall, plc>>

(* The next thing is made, or all are; silk reads the packet time of its   *)
(* encoder, which a decoder has none of.                                   *)
CodecMake ==
  /\ acst.st = "making"
  /\ LET seq == alloch(acst.ptime).seq
         n == Cardinality(acst.held)
     IN acst' = IF n <= Len(seq) THEN [acst EXCEPT !.held = @ \union {seq[n]}]
                ELSE [acst EXCEPT !.st = IF acodec = "silk" /\ acst.ptime = 0
                                         THEN "crashed" ELSE "up"]
  /\ UNCHANGED <<acodec, rxmb, txmb, pkt, acall, plc>>

(* Something could not be made, or the last reference is gone: destructor *)
CodecFree ==
  /\ acst.st = "making" \/ (acst.st = "up" /\ acall.st \in {"idle", "played", "sent"})
  /\ acst' = [NoCodec EXCEPT !.held = acst.held \ alloch(acst.ptime).frees]
  /\ acall' = [acall EXCEPT !.st = "idle"]
  /\ UNCHANGED <<acodec, rxmb, txmb, pkt, plc>>

----------------------------------------------------------------------------
(* Bytes of a coded frame, and of a frame of sound *)
CodedSize ==
  CASE acodec = "speex" -> {38} [] acodec = "celt" -> {41} [] acodec = "ilbc" -> {38, 50}
    [] acodec = "gsm" -> {33} [] acodec = "bv32" -> {20} [] acodec = "l16" -> {320}
    [] OTHER -> {160}

PcmSize ==
  CASE acodec \in {"g711", "speex", "ilbc", "gsm", "amr_nb", "l16"} -> 320
    [] acodec = "bv32" -> 160 [] acodec = "opus" -> 3840 [] OTHER -> 640

(* Packets hold many frames, or as many as the library takes at once.  The *)
(* last frame of some may be followed by a byte.                           *)
DecFrames ==
  IF acodec \in {"opus", "silk", "amr_nb", "amr_wb", "g7221", "isac"} THEN 1 ELSE MaxFrames
EncFrames == IF acodec \in {"isac", "ilbc"} THEN 1 ELSE 2
Extra == IF acodec \in {"g711", "gsm", "bv32", "l16"} THEN {0, 1} ELSE {0}

Source1(k, bytes) == [null |-> FALSE, pos |-> 0, end |-> bytes, next |-> 1, last |-> k]

(* stream_recv_handler and audio_stream_decode up to its loop: a packet,   *)
(* an empty one, or word that one is lost                                  *)
RecvAudio ==
  /\ acst.st = "up" /\ acall.st \in {"idle", "played", "sent"}
  /\ \/ pkt' = NoPkt
     \/ \E k \in 0 .. DecFrames, z \in CodedSize, x \in Extra :
          pkt' = Source1(k, k * z + x)
  /\ rxmb' = mbuf_rewind(rxmb)
  /\ acall' = [st |-> "decode", n |-> MaxCalls, of |-> pkt'.last, lib |-> FALSE]
  /\ UNCHANGED <<acodec, acst, txmb, plc>>

Call(mb, p) ==
  [mb |-> mb, p |-> p, st |-> acst, err |-> FALSE, lib |-> FALSE, stuck |-> FALSE]

(* The condition of the loop of audio_stream_decode *)
Again(r) == acall.n > 0 /\ mbuf_get_left(r.p) # 0 /\ ~r.err

(* One call in the loop of audio_stream_decode *)
DecodeAudio ==
  /\ acall.st = "decode"
  /\ \E mem \in BOOLEAN, good \in {0, 1, MaxFrames} :
       LET r == dech(Call(rxmb, pkt), mem, good)
       IN /\ rxmb' = r.mb /\ pkt' = r.p /\ acst' = r.st
          /\ acall' = [acall EXCEPT !.lib = @ \/ r.lib, !.n = IF @ > 0 THEN @ - 1 ELSE @,
                         !.st = IF r.stuck THEN "stuck" ELSE IF Again(r) THEN @
                                ELSE IF r.err THEN "idle" ELSE "decoded"]
  /\ UNCHANGED <<acodec, txmb, plc>>

(* dec of the filter plc: nothing decoded is made up. *)
PlcDec(mb, mem) ==
  LET psize == 640
  IN CASE mb.end \div 2 # 0 -> [mb EXCEPT !.end = 2 * (@ \div 2)]
       [] mb.end \div 2 = 0 /\ Full(mb, psize, mem) -> mb
       [] OTHER -> [Put(MakeRoom(mb, psize, psize), psize, <<0, 0>>) EXCEPT !.end = psize]

(* The rest of audio_stream_decode: the filters, and all up to end is      *)
(* handed to the player.                                                   *)
PlayAudio ==
  /\ acall.st = "decoded"
  /\ \E mem \in BOOLEAN :
       LET mb == [rxmb EXCEPT !.pos = 0]
       IN rxmb' = IF plc THEN PlcDec(mb, mem) ELSE mb
  /\ acall' = [acall EXCEPT !.st = "played"]
  /\ UNCHANGED <<acodec, acst, txmb, pkt, plc>>

(* encode_rtp_send: what the encoder wrote behind the space for the header *)
(* is sent.                                                                *)
EncodeAudio ==
  /\ acst.st = "up" /\ acall.st \in {"idle", "played", "sent"}
  /\ \E k \in 0 .. EncFrames, mem \in BOOLEAN, good \in {0, 1, MaxFrames} :
       LET r == ench(Call([txmb EXCEPT !.pos = PreSz, !.end = PreSz, !.data = {}],
                          Source1(k, k * PcmSize)), mem, good)
           mb == [r.mb EXCEPT !.pos = PreSz]
       IN /\ txmb' = mb /\ acst' = r.st
          /\ acall' = [st |-> IF ~r.err /\ mbuf_get_left(mb) # 0 THEN "sent" ELSE "idle",
                       n |-> 0, of |-> k, lib |-> r.lib]
  /\ UNCHANGED <<acodec, rxmb, pkt, plc>>

CodecNext ==
  \/ CodecAlloc \/ CodecMake \/ CodecFree
  \/ RecvAudio \/ DecodeAudio \/ PlayAudio \/ EncodeAudio

----------------------------------------------------------------------------
(* The frames 1 to last, each once and in order, are what the buffer holds *)
(* from a byte on.                                                         *)
FramesInOrder(mb, from, last) ==
  /\ \A p \in mb.data :
       \/ p.at = from /\ p.fr[1] = 1
       \/ \E q \in mb.data : q.at + q.len = p.at /\ q.fr[2] + 1 = p.fr[1]
  /\ \E p \in mb.data : p.at + p.len = mb.end /\ p.fr[2] = last

(* Where the codecs do not keep this: frames after the first are written   *)
(* over it (gsm, celt), a packet of a size that was refused once is taken  *)
(* for one frame (ilbc), a frame is told to be longer than it is (amr_nb), *)
(* only the first of several frames is coded (gsm).                        *)
Broken ==
  \/ acodec \in {"gsm", "celt", "ilbc"} /\ acall.of > 1 /\ acall.st = "played"
  \/ acodec = "amr_nb" /\ acall.st = "played"
  \/ acodec = "gsm" /\ acall.of > 1 /\ acall.st = "sent"

(* Whatever sizes packets have, and however often memory or a library      *)
(* fails: nothing is written outside the buffers (the decoders and         *)
(* encoders of the codec modules, mbuf_resize), a codec that could not be  *)
(* made or is released holds nothing (their destructors), and what is      *)
(* played and sent is all frames of the packet, each once and in their     *)
(* order.                                                                  *)
CodecsSound ==
  /\ ~rxmb.out /\ ~txmb.out
  /\ acst.st = "none" => acst.held = {}
  /\ acall.of > 0 /\ ~acall.lib /\ ~Broken =>
       /\ acall.st = "played" => rxmb.end <= rxmb.size /\ FramesInOrder(rxmb, 0, acall.of)
       /\ acall.st = "sent" => txmb.end <= txmb.size /\ FramesInOrder(txmb, PreSz, acall.of)

(* What a reader would expect: the same of all codecs and packets; all     *)
(* calls return (l16_decode does not, for an odd size), and a decoder      *)
(* alone can be made (silk_alloc).                                         *)
CodecsSoundAlways ==
  /\ CodecsSound
  /\ acall.of > 0 /\ ~acall.lib =>
       /\ acall.st = "played" => FramesInOrder(rxmb, 0, acall.of)
       /\ acall.st = "sent" => FramesInOrder(txmb, PreSz, acall.of)
  /\ acall.st # "stuck" /\ acst.st # "crashed"
=============================================================================
