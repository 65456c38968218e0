------------------------------ MODULE Streams -------------------------------
(***************************************************************************)
(* The two streams of a call, and the threads that work on them: sound and *)
(* pictures.                                                               *)
(***************************************************************************)
EXTENDS Integers, Sequences, FiniteSets

(***************************************************************************)
(* The audio stream of a call: audio.c.  The main thread sets codecs,      *)
(* starts and stops; the thread of the source, the thread of the player    *)
(* and, by mode, a thread that sends packets use the same objects without  *)
(* a lock of their own.  What keeps them apart is the order in which       *)
(* things are stopped and freed, so an operation of the main thread is a   *)
(* list of steps, todo, and the other threads move between any two.        *)
(*                                                                         *)
(* A device is stopped by the last mem_deref of it, which waits until its  *)
(* thread has left the handler (external: the drivers of modules/).        *)
(***************************************************************************)
CONSTANTS
  Codec,       \* struct aucodec
  Srate,       \* get_srate of each
  AudioMode,   \* enum audio_mode: "poll", "thread", "tmr"
  SrcFirst,    \* config.audio.src_first
  Filters      \* whether aufilt_list is not empty

ASSUME AudioAssumption ==
  /\ Srate \in [Codec -> Nat \ {0}] /\ SrcFirst \in BOOLEAN /\ Filters \in BOOLEAN
  /\ AudioMode \subseteq {"poll", "thread", "tmr"}

VARIABLES
  au,          \* struct audio
  todo,        \* what is left of the main thread's operation
  inside,      \* per thread, the objects that its handler is using
  harm         \* what was last taken from a thread that was using it, and
               \* when; whether an allocation failed, ever or in this operation

audioVars == <<au, todo, inside, harm>>

NoCodec == "none"
Threads == {"src", "play", "tx"}

AudioInit ==
  /\ \E m \in AudioMode :
       au = [mode |-> m, enc |-> NoCodec, dec |-> NoCodec, shared |-> FALSE,
             ausrc |-> 0, auplay |-> 0, txab |-> FALSE, rxab |-> FALSE,
             fc |-> FALSE, run |-> FALSE, tmr |-> FALSE]
  /\ todo = <<>>
  /\ inside = [t \in Threads |-> {}]
  /\ harm = [taken |-> {}, failed |-> FALSE, err |-> FALSE]

Rate(c) == IF c = NoCodec THEN 0 ELSE Srate[c]

----------------------------------------------------------------------------
(* The objects of a handler: ausrc_read_handler with poll_aubuf_tx and     *)
(* encode_rtp_send, auplay_write_handler, tx_thread.                       *)
Encodes == {"txab"} \cup (IF au.fc THEN {"fc"} ELSE {})
             \cup (IF au.enc # NoCodec THEN {"enc"} ELSE {})
Uses(t) ==
  CASE t = "src" -> IF au.mode = "poll" THEN Encodes ELSE {"txab"}
    [] t = "play" -> {"rxab"}
    [] t = "tx" -> Encodes

Runs(t) ==
  CASE t = "src" -> au.ausrc # 0
    [] t = "play" -> au.auplay # 0
    [] t = "tx" -> au.mode = "thread" /\ au.run

Enter(t) ==
  /\ Runs(t) /\ inside[t] = {}
  /\ inside' = [inside EXCEPT ![t] = Uses(t)]
  /\ UNCHANGED <<au, todo, harm>>

Leave(t) ==
  /\ inside[t] # {}
  /\ inside' = [inside EXCEPT ![t] = {}]
  /\ UNCHANGED <<au, todo, harm>>

(* What the main thread is about when it takes o: the end of the stream, a *)
(* codec of the encoder's rate, or another rate.                           *)
Why(o) ==
  LET c == Head(todo)[2]
  IN IF c = NoCodec THEN "end"
     ELSE IF o = "enc" /\ Rate(c) = Rate(au.enc) THEN "codec" ELSE "rate"

(* o goes, whoever is using it: the handlers keep no reference of their    *)
(* own, and read the pointer more than once.                               *)
Taken(o) ==
  LET users == {t \in Threads : o \in inside[t]}
  IN harm' = [harm EXCEPT !.taken = IF users = {} THEN @ ELSE {<<o, t, Why(o)>> : t \in users}]

----------------------------------------------------------------------------
(* A step and its codec; "end" is where an operation that failed goes on *)
Do(ops, c) == [i \in DOMAIN ops |-> <<ops[i], c>>]

(* audio_start: a device starts only once, and with its codec. *)
StartScript ==
  IF SrcFirst THEN <<"fc+", "src+", "play+">> ELSE <<"fc+", "play+", "src+">>

(* Mutant: the filters go before the devices. *)
StopScript_Filters ==
  <<"join", "fc-", "src-", "play-", "txab-", "rxab-">>

(* audio_stop: "audio device must be stopped first" *)
StopScript == <<"join", "src-", "play-", "fc-", "txab-", "rxab-">>

(* Mutant: the source goes on at the old rate. *)
Reset_Never(old, c) == FALSE

(* Whether a change of codec changes what the device must do *)
Reset(old, c) == old # NoCodec /\ Rate(old) # Rate(c)

(* audio_encoder_set *)
EncoderScript(c) ==
  Do(IF Reset(au.enc, c) THEN <<"src-", "enc-", "enc+">> \o StartScript \o <<"end">>
     ELSE <<"enc-", "enc+", "end">>, c)

(* audio_decoder_set *)
DecoderScript(c) ==
  Do(IF Reset(au.dec, c)
     THEN <<"dec-", "dec+", "play-", "fc-">> \o StartScript \o <<"end">>
     ELSE <<"dec-", "dec+", "end">>, c)

Begin(script) ==
  /\ todo' = script /\ harm' = [harm EXCEPT !.err = FALSE]
  /\ UNCHANGED <<au, inside>>

(* call_stream_start: both, and start if neither failed *)
CallStreamStart(c) ==
  /\ todo = <<>>
  /\ Begin(EncoderScript(c) \o DecoderScript(c)
             \o Do(<<"check">> \o StartScript \o <<"end">>, c))

(* call_stream_stop *)
CallStreamStop ==
  /\ todo = <<>>
  /\ Begin(Do(StopScript, NoCodec))

(* audio_destructor; au is then the audio of the next call. *)
AudioDestructor ==
  /\ todo = <<>> /\ (au.enc # NoCodec \/ au.dec # NoCodec)
  /\ Begin(Do(StopScript \o <<"enc-", "dec-">>, NoCodec))

(* call_audioencoder_cycle *)
EncoderCycle(c) ==
  /\ todo = <<>> /\ au.enc # NoCodec
  /\ Begin(EncoderScript(c))

(* pt_handler: the peer uses another payload type. *)
PtHandler(c) ==
  /\ todo = <<>> /\ c # au.dec
  /\ Begin(DecoderScript(c))

----------------------------------------------------------------------------
Step == Head(todo)[1]
Went(a) == au' = a /\ todo' = Tail(todo) /\ UNCHANGED inside
Calm == UNCHANGED harm

(* An error: the function returns, or only remembers it. *)
Erred(f) == harm' = [harm EXCEPT !.err = TRUE, !.failed = @ \/ f]
Fails == /\ todo' = SubSeq(todo, 1 + CHOOSE i \in DOMAIN todo : todo[i][1] = "end"
                               /\ \A j \in 1 .. i - 1 : todo[j][1] # "end", Len(todo))
         /\ Erred(TRUE)
         /\ UNCHANGED <<au, inside>>

Pass == /\ \/ Step = "end"
           \/ Step = "check" /\ ~harm.err
        /\ Went(au) /\ Calm

GiveUp == /\ Step = "check" /\ harm.err /\ todo' = <<>>
          /\ UNCHANGED <<au, inside, harm>>

(* audio_stop asks the thread to end and waits for it, or cancels the timer. *)
Joining ==
  /\ Step = "join" /\ au.run
  /\ au' = [au EXCEPT !.run = FALSE]
  /\ UNCHANGED <<todo, inside>> /\ Calm

Joined ==
  /\ Step = "join" /\ ~au.run /\ inside["tx"] = {}
  /\ Went([au EXCEPT !.tmr = FALSE]) /\ Calm

SrcStop == /\ Step = "src-" /\ inside["src"] = {} /\ Went([au EXCEPT !.ausrc = 0]) /\ Calm
PlayStop == /\ Step = "play-" /\ inside["play"] = {} /\ Went([au EXCEPT !.auplay = 0]) /\ Calm

FreeFc == /\ Step = "fc-" /\ Went([au EXCEPT !.fc = FALSE])
          /\ IF au.fc THEN Taken("fc") ELSE Calm
FreeTxab == Step = "txab-" /\ Went([au EXCEPT !.txab = FALSE]) /\ Taken("txab")
FreeRxab == Step = "rxab-" /\ Went([au EXCEPT !.rxab = FALSE]) /\ Taken("rxab")

(* One state serves both directions when they have the same codec: then it *)
(* lives on, but the pointer to it is gone until it is set again.          *)
FreeEnc == /\ Step = "enc-" /\ Went([au EXCEPT !.enc = NoCodec, !.shared = FALSE])
           /\ IF au.enc # NoCodec THEN Taken("enc") ELSE Calm
FreeDec == /\ Step = "dec-" /\ Went([au EXCEPT !.dec = NoCodec, !.shared = FALSE]) /\ Calm

SetEnc(c) ==
  /\ Step = "enc+" /\ Head(todo)[2] = c
  /\ \/ Went([au EXCEPT !.enc = c, !.shared = (c = au.dec)]) /\ Calm
     \/ c # au.dec /\ Fails

SetDec(c) ==
  /\ Step = "dec+" /\ Head(todo)[2] = c
  /\ \/ Went([au EXCEPT !.dec = c, !.shared = (c = au.enc)]) /\ Calm
     \/ c # au.enc /\ Fails

(* aufilt_setup, when there are filters and no chain *)
SetFc ==
  /\ Step = "fc+"
  /\ \/ Went([au EXCEPT !.fc = @ \/ Filters]) /\ Calm
     \/ Filters /\ ~au.fc /\ Fails

(* start_player; that the device fails does not keep the source from       *)
(* starting.                                                               *)
StartPlayer ==
  /\ Step = "play+"
  /\ IF au.auplay # 0 \/ au.dec = NoCodec THEN Went(au) /\ Calm
     ELSE \/ Went([au EXCEPT !.rxab = TRUE, !.auplay = Rate(au.dec)]) /\ Calm
          \/ Went([au EXCEPT !.rxab = TRUE]) /\ Erred(FALSE)

(* start_source, and what sends by mode *)
StartSource ==
  /\ Step = "src+"
  /\ IF au.ausrc # 0 \/ au.enc = NoCodec THEN Went(au) /\ Calm
     ELSE \/ Went([au EXCEPT !.txab = TRUE, !.ausrc = Rate(au.enc),
                     !.run = @ \/ au.mode = "thread",
                     !.tmr = @ \/ au.mode = "tmr"]) /\ Calm
          \/ Went([au EXCEPT !.txab = TRUE]) /\ Erred(FALSE)

AudioMain ==
  /\ todo # <<>>
  /\ \/ Pass \/ GiveUp \/ Joining \/ Joined \/ SrcStop \/ PlayStop \/ FreeFc \/ FreeTxab \/ FreeRxab
     \/ FreeEnc \/ FreeDec \/ SetFc \/ StartPlayer \/ StartSource
     \/ \E c \in Codec : SetEnc(c) \/ SetDec(c)

AudioNext ==
  \/ \E c \in Codec : CallStreamStart(c) \/ EncoderCycle(c) \/ PtHandler(c)
  \/ CallStreamStop \/ AudioDestructor \/ AudioMain
  \/ \E t \in Threads : Enter(t) \/ Leave(t)

----------------------------------------------------------------------------
(* What is taken from a thread that is using it: nothing when the stream   *)
(* stops or ends with all three at work (audio_stop, audio_destructor),    *)
(* and never a buffer.  When a codec changes, the encoder is taken only    *)
(* from a thread that audio_encoder_set does not stop: the source if the   *)
(* rate stays as it is, the thread that sends in any case; and the filters *)
(* are taken by audio_decoder_set, which stops only the player.            *)
ThreadsApart ==
  harm.taken \subseteq
    {<<"enc", "src", "codec">>, <<"enc", "tx", "codec">>, <<"enc", "tx", "rate">>,
     <<"fc", "src", "rate">>, <<"fc", "tx", "rate">>}

(* And a device runs at the rate of its codec, after any sequence of       *)
(* changes, unless a codec could not be allocated.                         *)
DevicesFit ==
  /\ ThreadsApart
  /\ todo = <<>> /\ ~harm.failed =>
       /\ au.ausrc # 0 => au.ausrc = Rate(au.enc) /\ au.txab
       /\ au.auplay # 0 => au.auplay = Rate(au.dec) /\ au.rxab

(* "Audio source must be stopped first" (audio_encoder_set): no thread is  *)
(* encoding when the encoder is freed; and none is when the filters are,   *)
(* "Reset audio filter chain" (audio_decoder_set).                         *)
EncoderStopped == \A x \in harm.taken : x[1] # "enc"
FiltersStopped == \A x \in harm.taken : x[1] # "fc"

----------------------------------------------------------------------------
(***************************************************************************)
(* The buffer between a sound device and a codec: aubuf.c of librem.  Two  *)
(* threads use it, one writes frames and one reads as many samples as its  *)
(* device wants; every operation holds the lock, so each is one step.      *)
(* Samples are numbered as they are written: a frame is a range of them.   *)
(***************************************************************************)
LOCAL INSTANCE SequencesExt

CONSTANTS
  WishSz, MaxSz,   \* wish_sz and max_sz of aubuf_alloc
  WriteSz, ReadSz, \* sizes of the writes, and of the reads
  Ptime,           \* the packet time of a timed read
  MaxSamples, MaxClock  \* bounds of a run

ASSUME AubufAssumption ==
  /\ WishSz \in Nat \ {0} /\ MaxSz \in Nat /\ Ptime \in Nat \ {0}
  /\ WriteSz \subseteq Nat \ {0} /\ ReadSz \subseteq Nat \ {0}
  /\ MaxSamples \in Nat /\ MaxClock \in Nat

VARIABLES
  ab,          \* struct aubuf
  written,     \* samples written so far
  got,         \* the last read: its size, and the samples that it gave
  clock

aubufVars == <<ab, written, got, clock>>

Empty == [afl |-> <<>>, cur_sz |-> 0, filling |-> TRUE, ts |-> 0]

AubufInit ==
  /\ ab = Empty /\ written = 0 /\ clock = 1
  /\ got = [sz |-> 0, silence |-> TRUE, samples |-> <<>>, before |-> 0, late |-> FALSE]

Samples(frames) == FlattenSeq(frames)

----------------------------------------------------------------------------
(* Mutant: the frame that is dropped stays counted. *)
Overrun_Counted(b) == [b EXCEPT !.afl = Tail(@)]

(* Too much: the oldest frame goes. *)
Overrun(b) == [b EXCEPT !.afl = Tail(@), !.cur_sz = @ - Len(Head(b.afl))]

(* aubuf_write and aubuf_append *)
AubufWrite(n) ==
  /\ written + n <= MaxSamples
  /\ LET frame == [i \in 1 .. n |-> written + i]
         b == [ab EXCEPT !.afl = Append(@, frame), !.cur_sz = @ + n]
     IN ab' = IF MaxSz # 0 /\ b.cur_sz > MaxSz THEN Overrun(b) ELSE b
  /\ written' = written + n
  /\ UNCHANGED <<got, clock>>

(* The frames that are left when n samples are taken *)
Rest(frames, n) ==
  FoldLeft(LAMBDA acc, f :
             IF acc.n = 0 THEN [acc EXCEPT !.left = Append(@, f)]
             ELSE IF Len(f) <= acc.n THEN [acc EXCEPT !.n = @ - Len(f)]
             ELSE [n |-> 0, left |-> Append(acc.left, SubSeq(f, acc.n + 1, Len(f)))],
           [n |-> n, left |-> <<>>], frames)

(* Mutant: a read does not wait for the buffer to fill. *)
Enough_Any(b, sz) == b.cur_sz >= sz

(* While it fills, wish_sz decides; sz after that. *)
Enough(b, sz) == b.cur_sz >= (IF b.filling THEN WishSz ELSE sz)

(* aubuf_read of b *)
aubuf_read(b, sz) ==
  LET taken == Rest(b.afl, sz)
      gone == sz - taken.n
  IN /\ ab' = IF Enough(b, sz)
              THEN [b EXCEPT !.filling = FALSE, !.afl = taken.left, !.cur_sz = @ - gone]
              ELSE [b EXCEPT !.filling = TRUE]
     /\ got' = [sz |-> sz, silence |-> ~Enough(b, sz), before |-> b.cur_sz,
                late |-> b.filling,
                samples |-> IF Enough(b, sz) THEN SubSeq(Samples(b.afl), 1, gone)
                            ELSE <<>>]
     /\ UNCHANGED <<written, clock>>

AubufRead(sz) == aubuf_read(ab, sz)

(* aubuf_get: not before its time, and then once per packet time; nobody   *)
(* else reads between its two uses of the lock.                            *)
AubufGet(sz) ==
  LET ts == IF ab.ts = 0 THEN clock ELSE ab.ts
  IN IF clock < ts
     THEN ab' = [ab EXCEPT !.ts = ts] /\ UNCHANGED <<written, got, clock>>
     ELSE aubuf_read([ab EXCEPT !.ts = ts + Ptime], sz)

AubufFlush == ab # Empty /\ ab' = Empty /\ UNCHANGED <<written, got, clock>>

AubufTick == clock < MaxClock /\ clock' = clock + 1 /\ UNCHANGED <<ab, written, got>>

AubufNext ==
  \/ \E n \in WriteSz : AubufWrite(n)
  \/ \E n \in ReadSz : AubufRead(n) \/ AubufGet(n)
  \/ AubufFlush \/ AubufTick

----------------------------------------------------------------------------
Ascending(s) == \A i \in 1 .. Len(s) - 1 : s[i] < s[i + 1]

(* cur_sz is what is stored; samples come out in the order in which they   *)
(* went in, none twice, after any number of overruns, silences and         *)
(* flushes; a buffer that ran empty fills up before it gives sound again,  *)
(* and stays within its limit and a frame.                                 *)
AubufSound ==
  /\ ab.cur_sz = Len(Samples(ab.afl))
  /\ Ascending(got.samples \o Samples(ab.afl))
  /\ <<>> \notin {ab.afl[i] : i \in DOMAIN ab.afl}
  /\ MaxSz # 0 => \A m \in WriteSz : (\A n \in WriteSz : n <= m) => ab.cur_sz <= MaxSz + m
  /\ ~got.silence /\ got.late => got.before >= WishSz

(* "If there is not enough data in the audio buffer, silence will be read" *)
(* (aubuf_read): a read gives as much as was wanted, or silence.           *)
SilenceRead == got.silence \/ Len(got.samples) = got.sz

----------------------------------------------------------------------------
(***************************************************************************)
(* The video stream of a call: video.c.  The main thread starts and stops  *)
(* the source, mutes, changes codecs and hears requests for a full picture *)
(* (rtcp_handler); the thread of the source encodes and sends one frame    *)
(* after the other.  The flags between them, muted, muted_frames and       *)
(* picup, and the encoder are not under the lock.  The thread's handler is *)
(* three steps: it picks a frame, encodes it, and writes the flags.        *)
(*                                                                         *)
(* A source is stopped by mem_deref of it, which waits for its handler     *)
(* (external: the drivers of modules/).                                    *)
(***************************************************************************)
CONSTANTS
  VidCodec,    \* struct vidcodec
  MaxMuted     \* MAX_MUTED_FRAMES

ASSUME VideoAssumption == MaxMuted \in Nat

VARIABLES
  vid,         \* struct video: vtx and vrx
  vtodo,       \* what is left of the main thread's operation
  cam,         \* the source's handler: where it is and what it read
  seen         \* what the peer asked for and was sent, and what was last taken
               \* from the handler while it ran, by which operation

videoVars == <<vid, vtodo, cam, seen>>

NoVid == "none"
Out == [pc |-> "out", mute |-> FALSE, frame |-> TRUE, full |-> FALSE, count |-> 0]

NewVideo == [enc |-> NoVid, dec |-> NoVid, vsrc |-> FALSE, vidisp |-> FALSE,
             mute_frame |-> FALSE, muted |-> FALSE, muted_frames |-> 0,
             picup |-> FALSE, tmr |-> FALSE]

VideoInit ==
  /\ vid = NewVideo
  /\ vtodo = <<>>
  /\ cam = Out
  /\ seen = [owed |-> FALSE, mutes |-> 0, null |-> FALSE, taken |-> {}]

----------------------------------------------------------------------------
(* Mutant: one frame more is sent. *)
MutedEnough_Off(v) == v.muted_frames > MaxMuted

MutedEnough(v) == v.muted_frames >= MaxMuted

(* vidsrc_frame_handler: a muted source sends the mute frame, a few times. *)
PickFrame ==
  /\ vid.vsrc /\ cam.pc = "out"
  /\ ~(vid.muted /\ MutedEnough(vid)) /\ vid.enc # NoVid
  /\ cam' = [Out EXCEPT !.pc = "picked", !.mute = vid.muted,
                        !.frame = ~vid.muted \/ vid.mute_frame]
  /\ seen' = [seen EXCEPT !.null = @ \/ (vid.muted /\ ~vid.mute_frame)]
  /\ UNCHANGED <<vid, vtodo>>

(* encode_rtp_send, up to the codec: picup is read. *)
EncodeFrame ==
  /\ cam.pc = "picked"
  /\ cam' = [cam EXCEPT !.pc = "encoded", !.full = vid.picup,
                        !.count = vid.muted_frames]
  /\ seen' = [seen EXCEPT !.owed = @ /\ ~vid.picup,
                          !.mutes = IF cam.mute THEN @ + 1 ELSE @]
  /\ UNCHANGED <<vid, vtodo>>

(* Mutant: a frame that could not be encoded counts as a full picture. *)
Cleared_Always(ok) == FALSE

(* picup after a frame: it stays when the frame could not be encoded. *)
Cleared(ok) == IF ok THEN FALSE ELSE vid.picup

(* Beyond MaxMuted the count makes no difference. *)
Count(n) == IF n > MaxMuted THEN MaxMuted + 1 ELSE n

(* The rest of encode_rtp_send, and the count of vidsrc_frame_handler *)
FrameSent(ok) ==
  /\ cam.pc = "encoded"
  /\ vid' = [vid EXCEPT !.picup = Cleared(ok), !.muted_frames = Count(cam.count + 1)]
  /\ seen' = [seen EXCEPT !.owed = ~ok /\ (@ \/ cam.full)]
  /\ cam' = Out
  /\ UNCHANGED vtodo

----------------------------------------------------------------------------
(* A request for a full picture: what is asked while a frame is encoded is *)
(* forgotten with it, because the handler clears picup when it is done.    *)
Asked == [seen EXCEPT !.owed = TRUE]

(* rtcp_handler, video_update_picture *)
PictureRequest ==
  /\ vtodo = <<>>
  /\ vid' = [vid EXCEPT !.picup = TRUE]
  /\ seen' = Asked
  /\ UNCHANGED <<vtodo, cam>>

(* video_mute *)
VideoMute(m) ==
  /\ vtodo = <<>> /\ vid.muted # m
  /\ vid' = [vid EXCEPT !.muted = m, !.muted_frames = 0, !.picup = TRUE]
  /\ seen' = [Asked EXCEPT !.mutes = 0]
  /\ UNCHANGED <<vtodo, cam>>

VidBegin(ops, c) ==
  /\ vtodo = <<>>
  /\ vtodo' = [i \in DOMAIN ops |-> <<ops[i], c>>]
  /\ UNCHANGED <<vid, cam, seen>>

(* call_stream_start: video_encoder_set, video_decoder_set, and            *)
(* video_start with set_vidisp and set_encoder_format                      *)
VideoStart(c) ==
  VidBegin(<<"enc-", "enc+", "dec", "check", "disp", "src-", "src+", "mute-", "mute+">>, c)

(* call_videoencoder_cycle *)
VideoCycle(c) == VidBegin(<<"enc-", "enc+">>, c)

(* pt_handler: the peer uses another payload type. *)
VideoPt(c) == vid.dec # c /\ VidBegin(<<"dec">>, c)

(* video_stop, vidsrc_error_handler, and video_set_source *)
VideoStop == vid.vsrc /\ VidBegin(<<"src-">>, NoVid)
VideoSetSource == VidBegin(<<"src-", "src+">>, NoVid)

(* Mutant: the encoder goes before the source. *)
EndScript_Encoder == <<"enc-", "src-", "mute-", "end">>

(* video_destructor: what the source's handler uses goes after the source. *)
EndScript == <<"src-", "mute-", "enc-", "end">>

VideoDestructor == vid # NewVideo /\ VidBegin(EndScript, NoVid)

VidStep(op) == vtodo # <<>> /\ Head(vtodo)[1] = op /\ UNCHANGED cam
VidWent(v) == vid' = v /\ vtodo' = Tail(vtodo)
VidGiveUp(v) == vid' = v /\ vtodo' = <<>>

(* An object of the handler goes, perhaps under it: by the end of the      *)
(* stream, or by its start or a change of codec.                           *)
VidTaken(o) ==
  LET by == IF Head(vtodo)[2] = NoVid THEN "end" ELSE "set"
  IN seen' = [seen EXCEPT !.taken = IF cam.pc = "out" THEN @ ELSE {<<o, by>>}]

(* video_encoder_set: the old encoder goes, whether or not the new codec   *)
(* is the same.                                                            *)
VidEncFree ==
  /\ VidStep("enc-") /\ VidWent([vid EXCEPT !.enc = NoVid])
  /\ IF vid.enc = NoVid THEN UNCHANGED seen ELSE VidTaken("enc")

(* An encoder of the codec; the state of the decoder serves both, and a    *)
(* new one may fail.                                                       *)
VidEncSet ==
  /\ VidStep("enc+") /\ UNCHANGED seen
  /\ LET c == Head(vtodo)[2]
     IN \/ VidWent([vid EXCEPT !.enc = c])
        \/ c # vid.dec /\ VidWent(vid)

(* video_decoder_set: only the main thread decodes. *)
VidDecSet ==
  /\ VidStep("dec") /\ UNCHANGED seen
  /\ LET c == Head(vtodo)[2]
     IN \/ VidWent([vid EXCEPT !.dec = c])
        \/ c # vid.enc /\ VidWent([vid EXCEPT !.dec = NoVid])

(* An error of either ends the operation before video_start. *)
VidCheck ==
  /\ VidStep("check") /\ UNCHANGED seen
  /\ IF NoVid \in {vid.enc, vid.dec} THEN VidGiveUp(vid) ELSE VidWent(vid)

(* set_vidisp: video_start goes on without a display. *)
VidDisp ==
  /\ VidStep("disp") /\ UNCHANGED seen
  /\ \E ok \in BOOLEAN : VidWent([vid EXCEPT !.vidisp = ok, !.tmr = TRUE])

VidSrcStop ==
  /\ VidStep("src-") /\ cam.pc = "out" /\ UNCHANGED seen
  /\ VidWent([vid EXCEPT !.vsrc = FALSE])

(* The source runs from here on, or there is none. *)
VidSrcStart ==
  /\ VidStep("src+") /\ UNCHANGED seen
  /\ \/ VidWent([vid EXCEPT !.vsrc = TRUE])
     \/ VidGiveUp(vid)

(* The mute frame is freed, and made again if there is memory, when the    *)
(* source is already running.                                              *)
VidMuteFree ==
  /\ VidStep("mute-") /\ VidWent([vid EXCEPT !.mute_frame = FALSE])
  /\ IF vid.mute_frame /\ cam.mute THEN VidTaken("mute_frame") ELSE UNCHANGED seen

VidMuteFrame ==
  /\ VidStep("mute+") /\ UNCHANGED seen
  /\ \E ok \in BOOLEAN : VidWent([vid EXCEPT !.mute_frame = ok])

(* The rest of video_destructor; vid is then the video of the next call. *)
VidEnd ==
  /\ VidStep("end") /\ VidWent(NewVideo)
  /\ seen' = [seen EXCEPT !.owed = FALSE, !.mutes = 0]

VideoNext ==
  \/ PickFrame \/ EncodeFrame \/ PictureRequest
  \/ \E ok \in BOOLEAN : FrameSent(ok) \/ VideoMute(ok)
  \/ \E c \in VidCodec : VideoStart(c) \/ VideoCycle(c) \/ VideoPt(c)
  \/ VideoStop \/ VideoSetSource \/ VideoDestructor
  \/ VidEncFree \/ VidEncSet \/ VidDecSet \/ VidCheck \/ VidDisp \/ VidSrcStop
  \/ VidSrcStart \/ VidMuteFree \/ VidMuteFrame \/ VidEnd

----------------------------------------------------------------------------
(* A request for a full picture is not forgotten before a full picture was *)
(* encoded, through mutes, errors of the encoder and changes of source,    *)
(* unless it came while a frame was encoded; and a muted source sends no   *)
(* more than MAX_MUTED_FRAMES, also when the mute comes in the middle of a *)
(* frame (encode_rtp_send, vidsrc_frame_handler).  The handler loses its   *)
(* encoder and its mute frame to nothing but a change of codec or another  *)
(* video_start: not to a stop, another source or the end of the call       *)
(* (video_destructor).                                                     *)
VideoSound ==
  /\ seen.owed => vid.picup
  /\ seen.mutes <= MaxMuted
  /\ seen.taken \subseteq {<<"enc", "set">>, <<"mute_frame", "set">>}

(* No encoder is freed while the source encodes with it, and no mute frame *)
(* while it is sent (video_encoder_set, set_encoder_format).               *)
VidEncoderStopped == seen.taken = {}

(* "Set the encoder format - can be called multiple times": a frame that   *)
(* is encoded is always there (set_encoder_format).                        *)
MuteFrameThere == ~seen.null
=============================================================================
