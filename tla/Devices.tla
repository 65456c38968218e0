------------------------------ MODULE Devices -------------------------------
(***************************************************************************)
(* The sound and picture drivers of baresip.  A driver opens a device in   *)
(* its alloc handler, step by step, any step of which may fail; what it    *)
(* opened is used by a thread of its own, by callbacks of the device, or   *)
(* by handlers of the event loop; its destructor, which also cleans up a   *)
(* failed alloc, stops all of them and gives everything back.              *)
(*                                                                         *)
(* A driver is the script of its alloc handler, that of its destructor,    *)
(* and the things its thread (body), callbacks (calls) and handlers (fed)  *)
(* touch.  One device of one driver is followed from alloc to the end.     *)
(***************************************************************************)
EXTENDS Integers, Sequences, FiniteSets, SequencesExt

VARIABLES
  dev,       \* the driver of the device
  dphase,    \* "alloc", "up", "free" or "gone"
  dpc,       \* where in the script of that phase
  alive,     \* what has been opened and not given back
  run,       \* the run flag of the thread
  await,     \* the destructor waits for the thread
  gate,      \* ready, rh, wh: the callbacks work
  started,   \* the device calls back
  linked,    \* the event loop, or another object, calls back
  th, tpc,   \* the thread: "none", "enter", "test", "body" with its step, or "over"
  cb,        \* a callback: "none", "sees" or "works"
  touched    \* what was used though it was not there

devVars == <<dev, dphase, dpc, alive, run, await, gate, started, linked, th, tpc, cb, touched>>

----------------------------------------------------------------------------
(* The steps of scripts *)
Op(name, x) == [op |-> name, x |-> x]
Make(x) == Op("make", x)      \* open or allocate x; it may fail
Take(x) == Op("take", x)      \* a reference, or what is not tested
Try == Op("try", "")          \* configure the device; it may fail
Run == Op("run", "")
Spawn == Op("spawn", "")      \* pthread_create; it may fail
Start == Op("start", "")      \* the device may call back from here on
Open == Op("gate", "")        \* ready = true
Link == Op("link", "")        \* fd_listen and the like
Quit == Op("quit", "")        \* if (run) { run = false; ...
Join == Op("join", "")        \*   pthread_join; }
Shut == Op("shut", "")        \* ready = false, rh = NULL
Stop(x) == Op("stop", x)      \* stop device x, if it is there
Unlink == Op("unlink", "")
Use(x) == Op("use", x)        \* use x whether or not it is there
Drop(x) == Op("drop", x)      \* give x back, if it is there

Threaded(alloc, body, free) ==
  [alloc |-> alloc, free |-> free, body |-> body, calls |-> {}, fed |-> {},
   own |-> {}, remake |-> "", breaks |-> FALSE, waits |-> FALSE, unplugs |-> FALSE]

Called(alloc, calls, free) ==
  [Threaded(alloc, <<>>, free) EXCEPT !.calls = calls]

----------------------------------------------------------------------------
(* alsa_reset configures; what it allocates it releases on every path. *)
alsa_reset == <<Try>>

(* Mutant: the buffer is released before the thread is waited for. *)
AlsaSrc_BufferFirst ==
  Threaded(<<Take("as"), Make("pcm"), Make("mb")>> \o alsa_reset \o <<Try, Run, Spawn>>,
           <<{"pcm", "mb"}, {"pcm"}, {"mb"}>>,
           <<Drop("mb"), Quit, Join, Drop("pcm"), Drop("as")>>)

(* ALSA: reading blocks in the thread; an overrun prepares it again. *)
AlsaSrc ==
  Threaded(<<Take("as"), Make("pcm"), Make("mb")>> \o alsa_reset \o <<Try, Run, Spawn>>,
           <<{"pcm", "mb"}, {"pcm"}, {"mb"}>>,
           <<Quit, Join, Drop("pcm"), Drop("mb"), Drop("as")>>)

AlsaPlay ==
  Threaded(<<Take("ap"), Make("pcm"), Make("mb")>> \o alsa_reset \o <<Run, Spawn>>,
           <<{"mb"}, {"pcm", "mb"}, {"pcm", "mb"}>>,
           <<Quit, Join, Drop("pcm"), Drop("mb"), Drop("ap")>>)

(* set_fragment and oss_reset: ioctls only *)
oss_reset == <<Try>>

(* OSS: the player has a thread, which a write error ends early *)
OssPlay ==
  [Threaded(<<Make("mb"), Make("fd")>> \o oss_reset \o <<Take("ap"), Run, Spawn>>,
            <<{"mb"}, {"fd", "mb"}>>,
            <<Quit, Join, Drop("fd"), Drop("mb"), Drop("ap")>>)
   EXCEPT !.breaks = TRUE]

(* ... and the recorder listens in the event loop. *)
OssSrc ==
  [Threaded(<<Make("mb"), Make("fd"), Link>> \o oss_reset \o <<Take("as")>>, <<>>,
            <<Unlink, Drop("fd"), Drop("mb"), Drop("as")>>)
   EXCEPT !.fed = {"mb", "fd"}]

(* OpenSL ES: destroying an object waits for its callback. *)
OpenslesPlay ==
  Called(<<Take("ap"), Make("mix"), Try, Make("player"), Try, Start, Try, Open>>,
         {"player"},
         <<Stop("player"), Drop("player"), Drop("mix"), Drop("ap")>>)

OpenslesRec ==
  Called(<<Take("as"), Make("rec"), Try, Open, Start, Try>>,
         {"rec"}, <<Stop("rec"), Drop("rec"), Drop("as")>>)

PortaudioSrc ==
  Called(<<Take("as"), Make("stream"), Start, Try, Open>>, {},
         <<Shut, Stop("stream"), Drop("stream"), Drop("as")>>)

PortaudioPlay ==
  Called(<<Take("ap"), Make("stream"), Start, Try, Open>>, {},
         <<Shut, Stop("stream"), Drop("stream"), Drop("ap")>>)

(* The session of Core Audio, where there is one *)
audio_session_enable == <<Make("session")>>

(* Core Audio: the mutex guards the handler, and is locked by the          *)
(* destructor even if it was never made.                                   *)
CoreaudioRec ==
  Called(<<Take("as"), Make("mb"), Make("mutex")>> \o audio_session_enable
           \o <<Make("queue"), Make("buf"), Open, Start, Try>>,
         {"mutex", "mb", "queue", "buf"},
         <<Use("mutex"), Shut, Drop("session"), Stop("queue"), Drop("buf"), Drop("queue"),
           Drop("mb"), Drop("as"), Drop("mutex")>>)

CoreaudioPlay ==
  Called(<<Take("ap"), Make("mutex")>> \o audio_session_enable
           \o <<Make("queue"), Make("buf"), Open, Start, Try>>,
         {"mutex", "queue", "buf"},
         <<Use("mutex"), Shut, Drop("session"), Stop("queue"), Drop("buf"), Drop("queue"),
           Drop("ap"), Drop("mutex")>>)

(* Audio units: a session tells of interruptions, in the event loop. *)
audiosess_alloc == <<Make("sess"), Link>>

AudiounitRec ==
  [Called(<<Take("as"), Make("mutex")>> \o audiosess_alloc
            \o <<Make("au"), Try, Open, Start, Try>>,
          {"mutex", "au"},
          <<Use("mutex"), Shut, Use("au"), Stop("au"), Drop("au"), Unlink, Drop("sess"),
            Drop("as"), Drop("mutex")>>)
   EXCEPT !.fed = {"au"}]

AudiounitPlay ==
  [Called(<<Take("ap"), Make("mutex")>> \o audiosess_alloc
            \o <<Make("au"), Try, Open, Start, Try>>,
          {"mutex"},
          <<Use("mutex"), Shut, Use("au"), Stop("au"), Drop("au"), Unlink, Drop("sess"),
            Drop("ap"), Drop("mutex")>>)
   EXCEPT !.fed = {"au"}]

(* Video4Linux 2: the mapped buffers, then the thread *)
init_mmap == <<Make("buffers"), Make("maps")>>
v4l2_init_device == <<Try>> \o init_mmap \o <<Try>>
start_capturing == <<Try>>
uninit_device == <<Drop("maps"), Drop("buffers")>>
read_frame == <<{"fd"}, {"maps", "buffers"}, {"fd"}>>

V4l2 ==
  Threaded(<<Take("vs"), Make("fd")>> \o v4l2_init_device \o <<Make("mb")>>
             \o start_capturing \o <<Run, Spawn>>,
           read_frame,
           <<Quit, Join>> \o uninit_device \o <<Drop("fd"), Drop("mb"), Drop("vs")>>)

v4l_setup == <<Try, Try>>   \* v4l_check_palette and v4l_get_win

V4l ==
  Threaded(<<Take("vs"), Make("fd")>> \o v4l_setup \o <<Make("mb"), Run, Spawn>>,
           <<{"fd", "mb"}, {"mb"}>>,
           <<Quit, Join, Drop("fd"), Drop("mb"), Drop("vs")>>)

CairoProcess == <<{"cr"}, {"surface"}>>

Cairo ==
  Threaded(<<Take("vs"), Take("surface"), Take("cr"), Run, Spawn>>, CairoProcess,
           <<Quit, Join, Drop("cr"), Drop("surface"), Drop("vs")>>)

x11grab_open == <<Make("disp"), Make("image"), Try>>

X11grab ==
  Threaded(<<Take("vs")>> \o x11grab_open \o <<Run, Spawn>>,
           <<{"disp", "image"}, {"image"}>>,
           <<Quit, Join, Drop("image"), Drop("disp"), Drop("vs")>>)

(* A file or camera of libavformat; the thread makes a new scaler whenever *)
(* the size of the pictures changes.                                       *)
AvformatPacket == <<{"ic"}, {"codec"}, {"sws"}, {"codec"}>>

AvformatFree == <<Quit, Join, Drop("sws"), Drop("codec"), Drop("ic"), Drop("vs")>>

Avformat ==
  [Threaded(<<Take("vs"), Make("ic"), Try, Make("codec"), Run, Spawn>>,
            AvformatPacket, AvformatFree)
   EXCEPT !.remake = "sws"]

(* GStreamer: the thread waits in a main loop, and the streaming thread of *)
(* the pipeline hands buffers over.  The main loop is never released.      *)
gst_setup == <<Take("loop"), Make("pipeline"), Try, Open>>

GstThread == <<{}, {"loop", "pipeline"}>>

GstHandoff == {"aubuf"}

Gst ==
  [Threaded(<<Take("as"), Make("uri"), Make("aubuf")>> \o gst_setup \o <<Run, Start, Spawn>>,
            GstThread,
            <<Quit, Join, Use("pipeline"), Stop("pipeline"), Drop("pipeline"), Drop("uri"),
              Drop("aubuf"), Drop("as")>>)
   EXCEPT !.calls = GstHandoff, !.waits = TRUE]

(* The radio stream: fed by the connection (below), played by a thread *)
RstPlayThread == <<{"aubuf", "buf"}, {"buf"}>>

rst_audio_feed == {"mp3", "aubuf"}

RstAudio ==
  [Threaded(<<Take("as"), Make("mp3"), Try, Make("aubuf"), Make("rst"), Link, Run, Spawn>>,
            RstPlayThread,
            <<Unlink, Drop("rst"), Quit, Join, Drop("mp3"), Drop("aubuf"), Drop("as")>>)
   EXCEPT !.fed = rst_audio_feed, !.own = {"buf"}]

RstVideoThread == <<{"mutex", "frame"}>>

rst_video_update == {"cairo", "surface", "frame", "mutex"}

RstVideo ==
  [Threaded(<<Make("mutex"), Take("vs"), Make("surface"), Make("cairo"), Make("frame"),
              Make("rst"), Link, Run, Spawn>>,
            RstVideoThread,
            <<Unlink, Drop("rst"), Quit, Join, Drop("cairo"), Drop("surface"), Drop("frame"),
              Drop("vs"), Drop("mutex")>>)
   EXCEPT !.fed = rst_video_update]

(* QuickTime: the thread idles until the grabber is stopped; its frame     *)
(* handler makes the scaler with the first frame.                          *)
QuicktimeFrame == <<{"mutex", "seq"}, {"sws"}>>

Quicktime ==
  [Threaded(<<Take("vs"), Make("mutex"), Make("seq"), Try, Make("ch"), Try, Make("upp"), Try,
              Run, Spawn>>,
            QuicktimeFrame,
            <<Quit, Join, Drop("upp"), Drop("ch"), Drop("seq"), Drop("sws"), Drop("vs")>>)
   EXCEPT !.remake = "sws", !.breaks = TRUE]

(* The capture sessions of QTKit and AVFoundation *)
QtSession == <<Make("cap"), Start>>

Qtcapture ==
  [Called(<<Take("vs"), Make("mutex"), Open>> \o QtSession \o <<Link>>, {"mutex"},
          <<Unlink, Shut, Stop("cap"), Drop("cap"), Drop("mutex"), Drop("vs")>>)
   EXCEPT !.fed = {"cap"}]

AvSession == <<Make("cap"), Start>>

Avcapture ==
  Called(<<Take("vs"), Open>> \o AvSession, {"cap"},
         <<Shut, Stop("cap"), Drop("cap"), Drop("vs")>>)

(* The keyboards: standard input, and an event device that may be unplugged *)
Stdio ==
  [Threaded(<<Take("ui"), Try, Link, Take("term")>>, <<>>,
            <<Unlink, Drop("term"), Drop("ui")>>)
   EXCEPT !.fed = {"term"}]

Evdev ==
  [Threaded(<<Take("ui"), Make("fd"), Try, Link>>, <<>>,
            <<Unlink, Drop("fd"), Drop("ui")>>)
   EXCEPT !.fed = {"fd"}, !.unplugs = TRUE]

Drivers ==
  [alsa_src |-> AlsaSrc, alsa_play |-> AlsaPlay, oss_play |-> OssPlay, oss_src |-> OssSrc,
   opensles_play |-> OpenslesPlay, opensles_rec |-> OpenslesRec,
   portaudio_src |-> PortaudioSrc, portaudio_play |-> PortaudioPlay,
   coreaudio_rec |-> CoreaudioRec, coreaudio_play |-> CoreaudioPlay,
   audiounit_rec |-> AudiounitRec, audiounit_play |-> AudiounitPlay,
   v4l2 |-> V4l2, v4l |-> V4l, cairo |-> Cairo, x11grab |-> X11grab, avformat |-> Avformat,
   gst |-> Gst, rst_audio |-> RstAudio, rst_video |-> RstVideo,
   quicktime |-> Quicktime, qtcapture |-> Qtcapture, avcapture |-> Avcapture,
   stdio |-> Stdio, evdev |-> Evdev]

D == Drivers[dev]

----------------------------------------------------------------------------
DevInit ==
  /\ dev \in DOMAIN Drivers
  /\ dphase = "alloc" /\ dpc = 1 /\ alive = {"st"}
  /\ run = FALSE /\ await = FALSE /\ gate = FALSE /\ started = FALSE /\ linked = FALSE
  /\ th = "none" /\ tpc = 1 /\ cb = "none" /\ touched = {}

Touch(S) == touched' = touched \cup (S \ alive)

DevGoOn == dpc' = dpc + 1 /\ UNCHANGED <<dev, dphase>>

(* The alloc handler gives up: it derefs what it made. *)
DevGiveUp == dphase' = "free" /\ dpc' = 1 /\ UNCHANGED dev

OpAlloc(o) ==
  /\ o.op \in {"make", "take", "try", "run", "spawn", "start", "gate", "link"}
  /\ \/ /\ DevGoOn
        /\ alive' = IF o.op \in {"make", "take"} THEN alive \cup {o.x} ELSE alive
        /\ run' = (run \/ o.op = "run")
        /\ th' = IF o.op = "spawn" THEN "enter" ELSE th
        /\ started' = (started \/ o.op = "start")
        /\ gate' = (gate \/ o.op = "gate")
        /\ linked' = (linked \/ o.op = "link")
     \/ /\ o.op \in {"make", "try", "spawn"} /\ DevGiveUp
        /\ run' = (run /\ o.op # "spawn")
        /\ UNCHANGED <<alive, th, started, gate, linked>>
  /\ UNCHANGED <<await, tpc, cb, touched>>

(* pthread_join, and the stop of a device, wait. *)
Ready(o) ==
  /\ o.op = "join" /\ await => th = "over"
  /\ o.op = "stop" => cb = "none"

(* g_main_loop_quit ends the main loop that runs, and none that will. *)
InMainLoop == D.waits /\ th = "body" /\ tpc = Len(D.body)

OpFree(o) ==
  /\ Ready(o) /\ DevGoOn
  /\ Touch(IF o.op \in {"quit", "use"} THEN {IF o.op = "use" THEN o.x ELSE "st"} ELSE {})
  /\ run' = (run /\ o.op # "quit")
  /\ await' = IF o.op = "quit" THEN run ELSE await
  /\ gate' = (gate /\ o.op # "shut")
  /\ started' = (started /\ o.op # "stop")
  /\ linked' = (linked /\ o.op # "unlink")
  /\ alive' = IF o.op = "drop" THEN alive \ {o.x} ELSE alive
  /\ th' = IF o.op = "quit" /\ run /\ InMainLoop THEN "test" ELSE th
  /\ UNCHANGED <<tpc, cb>>

(* A step of the alloc handler *)
DevAlloc ==
  /\ dphase = "alloc"
  /\ IF dpc <= Len(D.alloc) THEN OpAlloc(D.alloc[dpc])
     ELSE dphase' = "up" /\ UNCHANGED <<dev, dpc, alive, run, await, gate, started, linked,
                                         th, tpc, cb, touched>>

(* The owner derefs the device. *)
DevDeref ==
  /\ dphase = "up" /\ dphase' = "free" /\ dpc' = 1
  /\ UNCHANGED <<dev, alive, run, await, gate, started, linked, th, tpc, cb, touched>>

(* A step of the destructor *)
DevFree ==
  /\ dphase = "free"
  /\ IF dpc <= Len(D.free) THEN OpFree(D.free[dpc])
     ELSE /\ dphase' = "gone" /\ alive' = alive \ {"st"}
          /\ UNCHANGED <<dev, dpc, run, await, gate, started, linked, th, tpc, cb, touched>>

(* The thread *)
ThreadOnly == UNCHANGED <<dev, dphase, dpc, await, gate, started, linked, cb>>

ThreadEnter ==
  /\ th = "enter" /\ ThreadOnly /\ UNCHANGED <<run, tpc>>
  /\ \/ th' = "test" /\ alive' = alive \cup D.own
     \/ D.own # {} /\ th' = "over" /\ UNCHANGED alive
  /\ Touch({"st"})

ThreadTest ==
  /\ th = "test" /\ ThreadOnly /\ Touch({"st"}) /\ UNCHANGED run
  /\ tpc' = 1
  /\ th' = IF run THEN "body" ELSE "over"
  /\ alive' = IF run THEN alive ELSE alive \ D.own

(* From a step of the loop: to the next one, or to the test again *)
ThreadOn(again) ==
  \/ ~again /\ tpc < Len(D.body) /\ tpc' = tpc + 1 /\ UNCHANGED th
  \/ th' = "test" /\ UNCHANGED tpc

ThreadStep ==
  /\ th = "body" /\ ThreadOnly /\ UNCHANGED run
  /\ D.body[tpc] # {D.remake} /\ ~InMainLoop
  /\ Touch({"st"} \cup D.body[tpc]) /\ UNCHANGED alive
  /\ \/ ThreadOn(FALSE)
     \/ D.breaks /\ th' = "over" /\ UNCHANGED tpc

(* The scaler is replaced, or could not be made. *)
ThreadRemake ==
  /\ th = "body" /\ ThreadOnly /\ UNCHANGED run
  /\ D.body[tpc] = {D.remake}
  /\ \E made \in BOOLEAN :
       /\ alive' = IF made THEN alive \cup {D.remake} ELSE alive \ {D.remake}
       /\ ThreadOn(~made)
  /\ Touch({"st"})

(* bus_watch_handler of gst, in its main loop: an error ends it. *)
BusError ==
  /\ InMainLoop /\ ThreadOnly
  /\ th' = "test" /\ run' = FALSE /\ Touch({"st"} \cup D.body[tpc]) /\ UNCHANGED <<alive, tpc>>

(* A callback of the device, which works while the gate is open *)
CallBegin ==
  /\ started /\ cb = "none"
  /\ cb' = IF gate THEN "works" ELSE "sees"
  /\ Touch({"st"} \cup (D.calls \cap {"mutex"}))
  /\ UNCHANGED <<dev, dphase, dpc, alive, run, await, gate, started, linked, th, tpc>>

CallEnd ==
  /\ cb # "none" /\ cb' = "none"
  /\ Touch(IF cb = "works" THEN {"st"} \cup D.calls ELSE {})
  /\ UNCHANGED <<dev, dphase, dpc, alive, run, await, gate, started, linked, th, tpc>>

(* A handler, when the program is in its event loop *)
LoopHandler ==
  /\ linked /\ dphase \in {"up", "gone"}
  /\ Touch({"st"} \cup D.fed)
  /\ UNCHANGED <<dev, dphase, dpc, alive, run, await, gate, started, linked, th, tpc, cb>>

(* evdev_fd_handler: the device was unplugged. *)
Unplugged ==
  /\ linked /\ dphase = "up" /\ D.unplugs
  /\ linked' = FALSE /\ alive' = alive \ {"fd"} /\ Touch({"st", "fd"})
  /\ UNCHANGED <<dev, dphase, dpc, run, await, gate, started, th, tpc, cb>>

DevNext ==
  \/ DevAlloc \/ DevDeref \/ DevFree
  \/ ThreadEnter \/ ThreadTest \/ ThreadStep \/ ThreadRemake \/ BusError
  \/ CallBegin \/ CallEnd \/ LoopHandler \/ Unplugged

----------------------------------------------------------------------------
(* What the destructors use though alloc may have failed before making it, *)
(* and what is never given back.  An error on the bus of gst clears run,   *)
(* and its destructor then waits for no thread.                            *)
NotThere ==
  CASE dev \in {"coreaudio_rec", "coreaudio_play"} -> {"mutex"}
    [] dev \in {"audiounit_rec", "audiounit_play"} -> {"mutex", "au"}
    [] dev = "gst" -> {"pipeline", "st"}
    [] OTHER -> {}

Leaked == CASE dev = "gst" -> {"loop"} [] dev = "quicktime" -> {"mutex"} [] OTHER -> {}

(* Whatever step of opening a device fails, and whenever it is closed: no  *)
(* thread, callback or handler uses what is not there, all of them have    *)
(* ended when the device is gone, and nothing stays open.                  *)
DeviceSafe ==
  /\ touched \subseteq NotThere
  /\ dphase = "gone" =>
       /\ alive \subseteq Leaked
       /\ th \in {"none", "over"} \/ dev = "gst"
       /\ cb = "none" /\ ~started /\ ~linked

----------------------------------------------------------------------------
(***************************************************************************)
(* The sound of Windows in baresip: a ring of buffers is queued at the     *)
(* device, whose thread calls back for every buffer it is done with.       *)
(* There are no locks: the callback, the thread that opens the player and  *)
(* the one that closes it share rdy, inuse, pos and the buffers.           *)
(*                                                                         *)
(* dsp_write of the player is cut where the other thread may come in       *)
(* between: around the handler that fills the buffer, and between giving   *)
(* it to the device and counting it.  The callback of the recorder is one  *)
(* step, for closing it waits for the callback that is running             *)
(* (waveInReset).                                                          *)
(***************************************************************************)
CONSTANTS
  WaveBufs,      \* WRITE_BUFFERS, READ_BUFFERS
  WaveFails      \* how often the device may refuse a buffer

ASSUME WaveAssumption == WaveBufs \in Nat /\ WaveBufs > 2

VARIABLES
  wdir,          \* "play" or "rec"
  wphase,        \* the main thread: "open", "up", "closing", "closed"
  wleft,         \* buffers the main thread is still to queue
  rdy,
  inuse,
  wpos,          \* pos
  prepared,      \* headers that are marked as prepared
  queue,         \* what the device has, the first one is the next done
  writer,        \* where each thread is in dsp_write: "idle", "in", "sent"
  wbuf,          \* the buffer it fills, or 0
  fails,
  raced,         \* whether both threads were in dsp_write at once
  spoilt         \* "requeued": a buffer was queued while in use; "late": one was
                 \* at the device, or came there, when it was closed

waveVars == <<wdir, wphase, wleft, rdy, inuse, wpos, prepared, queue, writer, wbuf,
              fails, raced, spoilt>>

Writers == {"main", "callback"}

WaveInit ==
  /\ wdir \in {"play", "rec"}
  /\ wphase = "open"
  /\ wleft = IF wdir = "play" THEN WaveBufs + 1 ELSE WaveBufs
  /\ rdy = TRUE              \* WOM_OPEN came with waveOutOpen
  /\ inuse = 0 /\ wpos = 0 /\ prepared = {} /\ queue = <<>>
  /\ writer = [t \in Writers |-> "idle"]
  /\ wbuf = [t \in Writers |-> 0]
  /\ fails = 0 /\ raced = FALSE /\ spoilt = {}

Queued == {queue[i] : i \in 1 .. Len(queue)}

INC_WPOS == (wpos + 1) % WaveBufs

----------------------------------------------------------------------------
(* dsp_write, up to the handler that fills the buffer: not when closing,   *)
(* and not while the buffer is prepared.                                   *)
Enters == rdy /\ wpos \notin prepared

DspBegin(t) ==
  IF Enters
  THEN /\ writer' = [writer EXCEPT ![t] = "in"]
       /\ wbuf' = [wbuf EXCEPT ![t] = wpos]
  ELSE UNCHANGED <<writer, wbuf>>

(* dsp_write, up to waveOutWrite: pos moves on, and the device has the     *)
(* buffer, or refuses it.  If the callback was in here too, one of the two *)
(* may have moved pos for both.                                            *)
DspEnd(t) ==
  /\ wdir = "play" /\ writer[t] = "in"
  /\ \/ wpos' = INC_WPOS
     \/ raced /\ t = "main" /\ UNCHANGED wpos
  /\ prepared' = prepared \cup {wbuf[t]}
  /\ spoilt' = spoilt
       \cup (IF wphase = "closed" THEN {"late"} ELSE {})
       \cup (IF wbuf[t] \in Queued THEN {"requeued"} ELSE {})
  /\ \/ /\ queue' = Append(queue, wbuf[t])
        /\ writer' = [writer EXCEPT ![t] = "sent"]
        /\ UNCHANGED fails
     \/ /\ fails < WaveFails
        /\ fails' = fails + 1
        /\ writer' = [writer EXCEPT ![t] = "idle"]
        /\ UNCHANGED queue
  /\ wbuf' = [wbuf EXCEPT ![t] = 0]
  /\ UNCHANGED <<wdir, wphase, wleft, rdy, inuse, raced>>

(* The buffer is counted; of two threads that count at the same time, one  *)
(* may not be seen.                                                        *)
DspCount(t) ==
  /\ wdir = "play" /\ writer[t] = "sent"
  /\ writer' = [writer EXCEPT ![t] = "idle"]
  /\ \/ inuse' = inuse + 1
     \/ raced /\ t = "main" /\ inuse' \in {inuse, inuse + 2}
  /\ UNCHANGED <<wdir, wphase, wleft, rdy, wpos, prepared, queue, wbuf, fails, raced, spoilt>>

(* play_alloc: five calls of dsp_write for four buffers *)
PlayOpen ==
  /\ wdir = "play" /\ wphase = "open" /\ writer["main"] = "idle"
  /\ IF wleft = 0 THEN wphase' = "up" /\ UNCHANGED <<wleft, writer, wbuf, raced>>
     ELSE /\ wleft' = wleft - 1
          /\ DspBegin("main")
          /\ raced' = (raced \/ writer["callback"] # "idle")
          /\ UNCHANGED wphase
  /\ UNCHANGED <<wdir, rdy, inuse, wpos, prepared, queue, fails, spoilt>>

(* waveOutCallback, WOM_DONE, as soon as there is a buffer: also before    *)
(* the player has queued all, and while it is in dsp_write                 *)
PlayDone ==
  /\ wdir = "play" /\ queue # <<>> /\ writer["callback"] = "idle"
  /\ raced' = (raced \/ writer["main"] # "idle")
  /\ queue' = Tail(queue)
  /\ inuse' = inuse - 1
  /\ prepared' = prepared \ {Head(queue)}
  /\ IF rdy /\ wpos \notin prepared \ {Head(queue)}
     THEN /\ writer' = [writer EXCEPT !["callback"] = "in"]
          /\ wbuf' = [wbuf EXCEPT !["callback"] = wpos]
     ELSE UNCHANGED <<writer, wbuf>>
  /\ UNCHANGED <<wdir, wphase, wleft, rdy, wpos, fails, spoilt>>

(* write_stream_close: the mark, and the wait for the buffers *)
PlayClose ==
  /\ wdir = "play"
  /\ \/ wphase = "up" /\ wphase' = "closing" /\ rdy' = FALSE
     \/ wphase = "closing" /\ inuse = 0 /\ wphase' = "closed" /\ UNCHANGED rdy
  /\ spoilt' = spoilt
       \cup (IF wphase' = "closed" /\ queue # <<>> THEN {"late"} ELSE {})
  /\ UNCHANGED <<wdir, wleft, inuse, wpos, prepared, queue, writer, wbuf, fails, raced>>

----------------------------------------------------------------------------
(* add_wave_in: the buffer counts, whether or not the device took it. *)
AddWaveIn(q, busy) ==
  /\ wpos' = INC_WPOS
  /\ prepared' = (prepared \cup {wpos}) \ busy
  /\ spoilt' = spoilt \cup (IF wpos \in {q[i] : i \in 1 .. Len(q)} \cup busy
                            THEN {"requeued"} ELSE {})
  /\ \/ queue' = Append(q, wpos) /\ UNCHANGED fails
     \/ fails < WaveFails /\ fails' = fails + 1 /\ queue' = q

(* read_stream_open: the buffers are queued before the device starts. *)
RecOpen ==
  /\ wdir = "rec" /\ wphase = "open"
  /\ IF wleft = 0
     THEN /\ wphase' = "up"
          /\ UNCHANGED <<wleft, inuse, wpos, prepared, queue, fails, spoilt>>
     ELSE /\ wleft' = wleft - 1
          /\ AddWaveIn(queue, {})
          /\ inuse' = inuse + 1
          /\ UNCHANGED wphase
  /\ UNCHANGED <<wdir, rdy, writer, wbuf, raced>>

(* Mutant: a buffer is queued for every one that comes back. *)
Refill_Always == TRUE

Refill == inuse < 3

(* waveInCallback, WIM_DATA, before stop is set: another buffer is queued  *)
(* before this one is handed on and unprepared.                            *)
RecData ==
  /\ wdir = "rec" /\ wphase = "up" /\ queue # <<>>
  /\ IF Refill
     THEN AddWaveIn(Tail(queue), {Head(queue)}) /\ inuse' = inuse
     ELSE /\ queue' = Tail(queue)
          /\ prepared' = prepared \ {Head(queue)}
          /\ inuse' = inuse - 1
          /\ UNCHANGED <<wpos, fails, spoilt>>
  /\ UNCHANGED <<wdir, wphase, wleft, rdy, writer, wbuf, raced>>

(* read_stream_close: stop, reset (the device returns all), close *)
RecClose ==
  /\ wdir = "rec" /\ wphase = "up"
  /\ wphase' = "closed" /\ queue' = <<>> /\ prepared' = {}
  /\ UNCHANGED <<wdir, wleft, rdy, inuse, wpos, writer, wbuf, fails, raced, spoilt>>

WaveNext ==
  \/ PlayOpen \/ PlayDone \/ PlayClose
  \/ \E t \in Writers : DspEnd(t) \/ DspCount(t)
  \/ RecOpen \/ RecData \/ RecClose

WaveSpec == WaveInit /\ [][WaveNext]_waveVars

----------------------------------------------------------------------------
(* A buffer is at the device once at most, and is never queued while it is *)
(* still played or handed on; inuse is what the player waits for when it   *)
(* closes: the buffers at the device, so that it neither closes under      *)
(* them nor waits for ever; and a callback that found rdy set just before  *)
(* it was cleared still finds the device open, unless the device refused   *)
(* all other buffers before.                                               *)
RingKept ==
  /\ "requeued" \notin spoilt
  /\ fails < WaveBufs - 1 => "late" \notin spoilt
  /\ wdir = "play" =>
       inuse + (IF \E t \in Writers : writer[t] = "sent" THEN 1 ELSE 0) = Len(queue)
  /\ Queued \subseteq prepared

(* The ring is kept, also when the device calls back before all buffers of *)
(* the player are queued, unless it does so in the middle of a dsp_write   *)
(* of the opening thread (play_alloc); and the recorder goes on as long as *)
(* the device has not refused two.                                         *)
WaveSound ==
  /\ wdir = "rec" \/ ~raced => RingKept
  /\ wdir = "rec" /\ wphase = "up" /\ fails < 2 => queue # <<>>

----------------------------------------------------------------------------
(***************************************************************************)
(* The radio of baresip (rst): a stream of sound with titles in between,   *)
(* fetched over HTTP.  The host is looked up, connected to and asked; what *)
(* comes is a head that names the interval of the titles, then over and    *)
(* over an interval of sound, a length, and a title of that length.  TCP   *)
(* cuts it into pieces anywhere.  Whatever ends a connection, a timer      *)
(* begins again.                                                           *)
(*                                                                         *)
(* A byte is the name of what it belongs to, and a number for a length.    *)
(***************************************************************************)
CONSTANTS
  Interval,     \* intervals of titles a server may name, 0 for none
  HeadLen,      \* bytes of its head
  TitleLen,     \* lengths of titles
  MaxPiece      \* bytes on the way at once

ASSUME RstAssumption ==
  Interval \subseteq Nat /\ HeadLen \in Nat \ {0} /\ TitleLen \subseteq Nat

VARIABLES
  waits,      \* what the radio waits for: a set of "dns", "tcp", "tmr"
  isname,       \* the host is a name that DNS resolves
  asked,        \* the request went out
  icy,          \* the server: what it sends next, and how many of it are left
  onway,         \* sent and not received
  rmb,          \* rst->mb: the head so far; or <<>>
  rcv,          \* the piece recv_handler works on
  head_recv, metaint, metasz, bytec, title,
  strayed       \* bytes that went where they do not belong

rstVars == <<waits, isname, asked, icy, onway, rmb, rcv, head_recv, metaint, metasz,
             bytec, title, strayed>>

RstBegin(int) == [what |-> "head", n |-> HeadLen, int |-> int]

IcyByte(what, v) == [is |-> what, v |-> v]

RstInit ==
  /\ isname \in BOOLEAN
  /\ waits = IF isname THEN {"dns"} ELSE {"tcp"}
  /\ \E i \in Interval : icy = RstBegin(i)
  /\ asked = FALSE /\ onway = <<>> /\ rmb = <<>> /\ rcv = <<>>
  /\ head_recv = FALSE /\ metaint = 0 /\ metasz = 0 /\ bytec = 0 /\ title = 0
  /\ strayed = {}

RstIdle == rcv = <<>>

----------------------------------------------------------------------------
(* dns_handler: an address is connected to, unless that fails at once. *)
DnsHandler ==
  /\ "dns" \in waits
  /\ \E next \in {"tcp", "tmr"} : waits' = (waits \ {"dns"}) \cup {next}
  /\ UNCHANGED <<isname, asked, icy, onway, rmb, rcv, head_recv, metaint, metasz, bytec,
                 title, strayed>>

(* estab_handler: a request that cannot be sent is not tried again, the    *)
(* server will close.                                                      *)
EstabHandler ==
  /\ "tcp" \in waits /\ ~asked /\ RstIdle
  /\ asked' = TRUE
  /\ UNCHANGED <<waits, isname, icy, onway, rmb, rcv, head_recv, metaint, metasz, bytec,
                 title, strayed>>

(* The server, external: one byte *)
RstSend ==
  /\ asked /\ "tcp" \in waits /\ RstIdle /\ Len(onway) < MaxPiece
  /\ icy.what = "head" \/ icy.int # 0
  /\ \E k \in IF icy.what = "len" THEN TitleLen ELSE {0} :
       /\ onway' = Append(onway, IcyByte(IF icy.what = "head" /\ icy.n = 1 THEN "eoh"
                                    ELSE icy.what, k))
       /\ icy' = IF icy.n > 1 THEN [icy EXCEPT !.n = @ - 1]
                 ELSE IF icy.what = "mp3" THEN [icy EXCEPT !.what = "len", !.n = 1]
                 ELSE IF icy.what = "len" /\ k > 0 THEN [icy EXCEPT !.what = "meta", !.n = k]
                 ELSE [icy EXCEPT !.what = "mp3", !.n = icy.int]
  /\ UNCHANGED <<waits, isname, asked, rmb, rcv, head_recv, metaint, metasz, bytec, title,
                 strayed>>

(* The connection is dropped, and the timer begins again. *)
RstRetry == waits' = (waits \ {"tcp"}) \cup {"tmr"}

(* Where the head ends in what has been received, 0 if it does not. *)
Eoh(b) == IF \E i \in 1 .. Len(b) : b[i].is = "eoh"
          THEN CHOOSE i \in 1 .. Len(b) : b[i].is = "eoh" ELSE 0

(* recv_handler, before the head is complete: the pieces are put together; *)
(* a buffer that cannot grow, and a head without interval, drop it all.    *)
RecvHead ==
  /\ "tcp" \in waits /\ RstIdle /\ ~head_recv /\ onway # <<>>
  /\ \E n \in 1 .. Len(onway) :
       LET b == rmb \o SubSeq(onway, 1, n) IN
       /\ onway' = SubSeq(onway, n + 1, Len(onway))
       /\ \/ /\ Eoh(b) = 0
             /\ rmb' = b
             /\ UNCHANGED <<waits, head_recv, metaint, rcv>>
          \/ /\ Eoh(b) # 0 /\ icy.int # 0
             /\ head_recv' = TRUE /\ metaint' = icy.int
             /\ rmb' = SubSeq(b, 1, Eoh(b))
             /\ rcv' = SubSeq(b, Eoh(b) + 1, Len(b))
             /\ UNCHANGED waits
          \/ /\ Eoh(b) # 0 /\ icy.int = 0
             /\ head_recv' = TRUE /\ rmb' = b
             /\ RstRetry
             /\ UNCHANGED <<metaint, rcv>>
          \/ /\ rmb # <<>>
             /\ RstRetry
             /\ UNCHANGED <<rmb, head_recv, metaint, rcv>>
  /\ UNCHANGED <<isname, asked, icy, metasz, bytec, title, strayed>>

(* recv_handler, once the head is complete *)
RecvBody ==
  /\ "tcp" \in waits /\ RstIdle /\ head_recv /\ onway # <<>>
  /\ \E n \in 1 .. Len(onway) :
       /\ rcv' = SubSeq(onway, 1, n)
       /\ onway' = SubSeq(onway, n + 1, Len(onway))
  /\ UNCHANGED <<waits, isname, asked, icy, rmb, head_recv, metaint, metasz, bytec, title,
                 strayed>>

Fewer(a, b) == IF a < b THEN a ELSE b

(* Mutant: what is left of a title is taken to be all of it. *)
TitleBytes_All == Fewer(Len(rcv), metasz)

(* The bytes of a title that this piece holds *)
TitleBytes == Fewer(Len(rcv), metasz - bytec)

(* Bytes taken as one thing that are another *)
Strays(n, as) == {rcv[i].is : i \in {j \in 1 .. n : rcv[j].is # as}}

(* One round of the loop of recv_handler *)
RecvRound ==
  /\ rcv # <<>>
  /\ \/ /\ metasz > 0
        /\ LET n == TitleBytes IN
             /\ strayed' = strayed \cup Strays(n, "meta")
             /\ rcv' = SubSeq(rcv, n + 1, Len(rcv))
             /\ title' = title + n
             /\ IF bytec + n >= metasz THEN metasz' = 0 /\ bytec' = 0
                ELSE bytec' = bytec + n /\ UNCHANGED metasz
     \/ /\ metasz = 0 /\ bytec < metaint
        /\ LET n == Fewer(Len(rcv), metaint - bytec) IN
             /\ strayed' = strayed \cup Strays(n, "mp3")
             /\ rcv' = SubSeq(rcv, n + 1, Len(rcv))
             /\ bytec' = bytec + n
        /\ UNCHANGED <<metasz, title>>
     \/ /\ metasz = 0 /\ bytec >= metaint
        /\ metasz' = rcv[1].v
        /\ strayed' = strayed \cup Strays(1, "len")
        /\ rcv' = Tail(rcv)
        /\ bytec' = 0 /\ title' = 0
  /\ UNCHANGED <<waits, isname, asked, icy, onway, rmb, head_recv, metaint>>

(* close_handler *)
CloseHandler ==
  /\ "tcp" \in waits /\ RstIdle
  /\ RstRetry
  /\ UNCHANGED <<isname, asked, icy, onway, rmb, rcv, head_recv, metaint, metasz, bytec,
                 title, strayed>>

(* Mutant: the length of the title that was cut off is kept. *)
ForgetAll_NotTitle == rmb' = <<>> /\ head_recv' = FALSE /\ metaint' = 0 /\ bytec' = 0
                    /\ UNCHANGED <<metasz, title>>

(* reconnect forgets all of the last connection. *)
ForgetAll == rmb' = <<>> /\ head_recv' = FALSE /\ metaint' = 0 /\ bytec' = 0
             /\ metasz' = 0 /\ title' = 0

(* reconnect, from the timer *)
Reconnect ==
  /\ "tmr" \in waits
  /\ ForgetAll
  /\ \E next \in {IF isname THEN "dns" ELSE "tcp", "tmr"} : waits' = {next}
  /\ \E i \in Interval : icy' = RstBegin(i)
  /\ asked' = FALSE /\ onway' = <<>>
  /\ UNCHANGED <<isname, rcv, strayed>>

(* destructor *)
RstDestroy ==
  /\ RstIdle /\ waits' = {"gone"} /\ waits # waits'
  /\ UNCHANGED <<isname, asked, icy, onway, rmb, rcv, head_recv, metaint, metasz, bytec,
                 title, strayed>>

RstNext == DnsHandler \/ EstabHandler \/ RstSend \/ RecvHead \/ RecvBody \/ RecvRound
           \/ CloseHandler \/ Reconnect \/ RstDestroy

RstSpec == RstInit /\ [][RstNext]_rstVars

----------------------------------------------------------------------------
(* However the stream is cut and however often the connection is lost, a   *)
(* byte of sound is played, a byte of a title is shown, and nothing is     *)
(* taken for the other; a title fits the memory that was taken for it; and *)
(* the radio always waits for exactly one of the answer, the connection    *)
(* and the timer.                                                          *)
RadioSound ==
  /\ strayed = {}
  /\ bytec = 0 \/ metasz = 0 \/ (bytec = title /\ title < metasz)
  /\ \E p \in {"dns", "tcp", "tmr", "gone"} : waits = {p}

----------------------------------------------------------------------------
(***************************************************************************)
(* The picture displays of baresip: SDL 2, SDL 1.2, OpenGL, OpenGL ES and  *)
(* X11.  A display keeps a chain of things made one out of another (a      *)
(* window, its renderer, a texture), made when a picture needs them and    *)
(* made again when the size of the pictures changes; any of them may not   *)
(* come about, and the next picture tries again.                           *)
(*                                                                         *)
(* A thing is the size it was made for, or 0 when there is none.           *)
(***************************************************************************)
CONSTANTS
  Win,         \* the displays that may be open at a time
  PicSize      \* sizes of pictures: their widths

ASSUME DispAssumption == PicSize \subseteq Nat \ {0}

VARIABLES
  driver,      \* which driver this is about
  disp,        \* [Win -> the state of a display]
  left,        \* SDL 1.2 keeps size and fullscreen when a display goes
  polls,       \* SDL: the event timer runs
  draw         \* the last picture drawn: its size, and the things it was drawn with

dispVars == <<driver, disp, left, polls, draw>>

DispDrivers == {"sdl", "sdl12", "opengl", "opengles", "x11"}

(* What the display handler of a driver makes, in this order *)
SdlMakes == <<"window", "renderer", "texture">>
Sdl12Makes == <<"screen", "bmp">>
OpenglMakes == <<"prog", "PHandle">>
OpenglesMakes == <<"vf", "texture_id">>

Chain == [sdl |-> SdlMakes, sdl12 |-> Sdl12Makes, opengl |-> OpenglMakes,
          opengles |-> OpenglesMakes, x11 |-> <<>>]

Thing == {"window", "renderer", "texture", "screen", "bmp", "prog", "PHandle",
          "vf", "texture_id"}

NoThings == [x \in Thing |-> 0]

(* What the X11 display knows, and what there really is *)
X11State ==
  [image |-> 0,        \* the image, and whether the server shares its memory
   shared |-> FALSE,
   shmid |-> "zero",   \* as allocated: a valid number that is nobody's of ours
   shmaddr |-> "none",
   xshmat |-> FALSE, attached |-> FALSE, gc |-> FALSE,
   failed |-> FALSE,   \* a reset failed half way
   wrong |-> {}]       \* it frees shared memory, detaches, unmaps or removes what
                       \* is not there, removes segment "zero"

NoDisp == [up |-> FALSE, size |-> 0, full |-> FALSE, made |-> NoThings, mode |-> FALSE,
           x |-> X11State]

NoPic == [size |-> 0, with |-> {}, mode |-> FALSE, full |-> FALSE]

DispInit ==
  /\ driver \in DispDrivers
  /\ disp = [w \in Win |-> NoDisp]
  /\ left = [size |-> 0, full |-> FALSE]
  /\ polls = FALSE
  /\ draw = NoPic

Up == {w \in Win : disp[w].up}

----------------------------------------------------------------------------
(* The alloc handlers; one that cannot open its context leaves nothing     *)
(* behind.                                                                 *)
Opened(w, d, timer) ==
  /\ ~disp[w].up
  /\ disp' = [disp EXCEPT ![w] = [d EXCEPT !.up = TRUE]]
  /\ polls' = timer
  /\ draw' = NoPic
  /\ UNCHANGED <<driver, left>>

SdlAlloc(w) == driver = "sdl" /\ Opened(w, NoDisp, TRUE)

(* One display only (EBUSY), with what the last one left *)
Sdl12Alloc(w) ==
  /\ driver = "sdl12" /\ Up = {}
  /\ Opened(w, [NoDisp EXCEPT !.size = left.size, !.full = left.full], TRUE)

OpenglAlloc(w) == driver = "opengl" /\ Opened(w, NoDisp, polls)
OpenglesAlloc(w) == driver = "opengles" /\ Opened(w, NoDisp, polls)
X11Alloc(w) == driver = "x11" /\ Opened(w, NoDisp, polls)

(* Mutant: the reset takes the window only. *)
ResetThings_WindowOnly(made) == [made EXCEPT !["window"] = 0, !["screen"] = 0]

(* sdl_reset, and opengl_reset of a display whose program was linked *)
ResetThings(made) == NoThings

(* opengl_reset keeps the text of a program that never compiled. *)
ResetOf(d) ==
  IF driver = "opengl" /\ d.made["PHandle"] = 0 THEN d.made ELSE ResetThings(d.made)

(* How many things of the chain a picture finds or makes: the first one    *)
(* that is missing may be refused, and OpenGL ES refuses widths that are   *)
(* no multiple of four.  A missing shader program is printed again.        *)
Reached(made, sz, k) ==
  /\ k < Len(Chain[driver]) =>
       \/ made[Chain[driver][k + 1]] = 0
       \/ driver = "opengl" /\ made["PHandle"] = 0
  /\ driver = "opengles" /\ made["vf"] = 0 /\ sz % 4 # 0 => k = 0

(* What is missing of the first k things is made for this picture; OpenGL  *)
(* ES textures have the size of the frame buffer.                          *)
Fill(made, sz, k) ==
  LET for == IF driver = "opengles" /\ made["vf"] # 0 THEN made["vf"] ELSE sz
      kept == IF driver = "opengl" /\ made["PHandle"] = 0 /\ k > 0
              THEN [made EXCEPT !["prog"] = 0] ELSE made
  IN [x \in Thing |-> IF kept[x] = 0 /\ \E i \in 1 .. k : Chain[driver][i] = x
                      THEN for ELSE kept[x]]

(* SDL notes size and mode when it makes the window, OpenGL at the reset.  *)
Sized(d, made, sz) ==
  LET first == Chain[driver][1] IN
  IF driver = "opengl" THEN [d EXCEPT !.size = sz]
  ELSE IF driver \in {"sdl", "sdl12"} /\ d.made[first] = 0 /\ made[first] # 0
  THEN [d EXCEPT !.size = sz, !.mode = d.full]
  ELSE d

(* The display handlers of the drivers with a chain: a picture of another  *)
(* size resets; then what is missing is made; then the picture is drawn.   *)
Shown(w, sz, resets) ==
  /\ disp[w].up
  /\ \E k \in 0 .. Len(Chain[driver]) :
       LET d0 == disp[w]
           d1 == IF resets /\ d0.size # sz THEN [d0 EXCEPT !.made = ResetOf(d0)] ELSE d0
           made == Fill(d1.made, sz, k)
           d2 == Sized(d1, made, sz)
           with == {made[x] : x \in ToSet(Chain[driver])} IN
         /\ Reached(d1.made, sz, k)
         /\ disp' = [disp EXCEPT ![w] = [d2 EXCEPT !.made = made]]
         /\ draw' = IF k = Len(Chain[driver])
                    THEN [size |-> sz, with |-> with, mode |-> d2.mode, full |-> d2.full]
                    ELSE NoPic
  /\ UNCHANGED <<driver, left, polls>>

SdlDisplay(w, sz) == driver = "sdl" /\ Shown(w, sz, TRUE)
Sdl12Display(w, sz) == driver = "sdl12" /\ Shown(w, sz, TRUE)
OpenglDisplay(w, sz) == driver = "opengl" /\ Shown(w, sz, TRUE)

(* OpenGL ES takes the first size and scales. *)
OpenglesDisplay(w, sz) == driver = "opengles" /\ Shown(w, sz, FALSE)

(* OpenGL draws an RGB picture without the shader. *)
DisplayRgb(w, sz) ==
  /\ disp[w].up /\ driver = "opengl"
  /\ disp' = [disp EXCEPT ![w].size = sz,
                ![w].made = IF disp[w].size # sz THEN ResetOf(disp[w]) ELSE @]
  /\ draw' = [NoPic EXCEPT !.size = sz, !.with = {sz}]
  /\ UNCHANGED <<driver, left, polls>>

(* 'f' and escape, met by the event timer of SDL: the window goes, and     *)
(* comes back in the other mode with the next picture.                     *)
Toggled(w) ==
  /\ polls /\ disp[w].up
  /\ disp' = [disp EXCEPT ![w].full = ~@, ![w].made = ResetThings(@)]
  /\ draw' = NoPic
  /\ UNCHANGED <<driver, left, polls>>

(* event_handler of SDL: find_state gives a key that was meant for a       *)
(* window that is gone to a display without one.                           *)
DispKey(w) == driver = "sdl" /\ Toggled(w)

(* event_handler of SDL 1.2 *)
Sdl12Key(w) == driver = "sdl12" /\ Toggled(w)

----------------------------------------------------------------------------
(* x11_reset, first half: what the last one left is given back, by what    *)
(* the pointers say.                                                       *)
X11Release(x) ==
  [x EXCEPT !.image = 0,
     !.attached = FALSE,
     !.shmaddr = IF @ = "mapped" THEN "stale" ELSE @,
     !.shmid = IF @ = "live" THEN "stale" ELSE @,
     !.wrong = @ \cup (IF x.image # 0 /\ ~x.shared THEN {"frees"} ELSE {})
                 \cup (IF x.xshmat /\ ~x.attached THEN {"detaches"} ELSE {})
                 \cup (IF x.shmaddr = "stale" THEN {"unmaps"} ELSE {})
                 \cup (IF x.shmid = "zero" THEN {"zero"} ELSE {})
                 \cup (IF x.shmid = "stale" THEN {"removes"} ELSE {})]

(* x11_reset, second half, up to where it fails ("attrs": before anything) *)
X11Make(x, sz, how) ==
  LET y == X11Release(x)
      got == [y EXCEPT !.shmid = "live"]
      mapped == [got EXCEPT !.shmaddr = "mapped"]
      att == IF how = "refused" THEN mapped
             ELSE [mapped EXCEPT !.attached = TRUE, !.xshmat = TRUE]
      gc == [att EXCEPT !.gc = TRUE]
  IN CASE how = "attrs" -> x
       [] how = "shmget" -> [y EXCEPT !.shmid = "none", !.failed = TRUE]
       [] how = "shmat" -> [got EXCEPT !.shmaddr = "none", !.failed = TRUE]
       [] how = "attach" -> [mapped EXCEPT !.failed = TRUE]
       [] how = "gc" -> [att EXCEPT !.failed = TRUE, !.gc = FALSE]
       [] how = "image" -> [gc EXCEPT !.failed = TRUE]
       [] how \in {"ok", "refused"} -> [gc EXCEPT !.image = sz, !.shared = att.xshmat,
                                     !.failed = @ \/ (how = "refused" /\ x.xshmat)]

Hows == {"attrs", "shmget", "shmat", "attach", "gc", "image", "ok", "refused"}

(* display: only a picture of another size than the last good one resets *)
X11Display(w, sz) ==
  /\ disp[w].up /\ driver = "x11"
  /\ IF disp[w].size # sz
     THEN \E how \in Hows :
            LET x == X11Make(disp[w].x, sz, how) IN
            /\ disp' = [disp EXCEPT ![w].x = x,
                          ![w].size = IF how \in {"ok", "refused"} THEN sz ELSE @]
            /\ draw' = IF how \in {"ok", "refused"}
                       THEN [NoPic EXCEPT !.size = sz, !.with = {x.image}] ELSE NoPic
     ELSE /\ draw' = [NoPic EXCEPT !.size = sz, !.with = {disp[w].x.image}]
          /\ UNCHANGED disp
  /\ UNCHANGED <<driver, left, polls>>

(* The X11 destructor: the image is destroyed without its data. *)
X11Destroy(x) ==
  [X11Release(x) EXCEPT !.gc = FALSE,
     !.wrong = IF x.image # 0 /\ ~x.shared THEN x.wrong \cup (@ \ {"frees"})
               ELSE @]

(* The destructors.  The last SDL display stops the timer. *)
Gone(w, timer, keeps) ==
  /\ disp[w].up
  /\ disp' = [disp EXCEPT ![w] = [NoDisp EXCEPT !.x = X11Destroy(disp[w].x)]]
  /\ left' = keeps
  /\ polls' = timer
  /\ draw' = NoPic
  /\ UNCHANGED driver

SdlDestroy(w) == driver = "sdl" /\ Gone(w, Up # {w}, left)

(* sdl_close of SDL 1.2 leaves size and mode as they are. *)
Sdl12Destroy(w) ==
  driver = "sdl12" /\ Gone(w, FALSE, [size |-> disp[w].size, full |-> disp[w].full])

OpenglDestroy(w) == driver = "opengl" /\ Gone(w, polls, left)
OpenglesDestroy(w) == driver = "opengles" /\ Gone(w, polls, left)
X11Destructor(w) == driver = "x11" /\ Gone(w, polls, left)

----------------------------------------------------------------------------
DispNext ==
  \E w \in Win :
    \/ SdlAlloc(w) \/ Sdl12Alloc(w) \/ OpenglAlloc(w) \/ OpenglesAlloc(w) \/ X11Alloc(w)
    \/ \E sz \in PicSize :
         \/ SdlDisplay(w, sz) \/ Sdl12Display(w, sz)
         \/ OpenglDisplay(w, sz) \/ DisplayRgb(w, sz)
         \/ OpenglesDisplay(w, sz) \/ X11Display(w, sz)
    \/ DispKey(w) \/ Sdl12Key(w)
    \/ SdlDestroy(w) \/ Sdl12Destroy(w) \/ OpenglDestroy(w) \/ OpenglesDestroy(w)
    \/ X11Destructor(w)

DispSpec == DispInit /\ [][DispNext]_dispVars

(* SDL and OpenGL: a picture is drawn with things that are all there and   *)
(* all of its size, in a window of the mode last asked for, however many   *)
(* of them could not be made before, and however sizes and modes changed;  *)
(* OpenGL ES has one size for all of them.                                 *)
DrawnWhole ==
  draw.size # 0 =>
    /\ driver \in {"sdl", "sdl12", "opengl"} => draw.with = {draw.size} /\ draw.mode = draw.full
    /\ driver = "opengles" => Cardinality(draw.with) = 1 /\ 0 \notin draw.with

(* X11: as long as no reset failed half way, a picture is drawn with an    *)
(* image of its size, nothing is left behind, and nothing is given back    *)
(* that is not there but the segment number 0 of the first reset, and the  *)
(* shared memory handed to free when the server refused to share it.       *)
X11Whole ==
  \A w \in Win : driver = "x11" /\ ~disp[w].x.failed =>
    /\ disp[w].up /\ disp[w].size # 0 =>
         disp[w].x.image = disp[w].size /\ disp[w].x.gc /\ disp[w].x.shmaddr = "mapped"
    /\ disp[w].x.wrong \subseteq {"zero", "frees"}
    /\ ~disp[w].up => disp[w].x.shmid # "live" /\ disp[w].x.shmaddr # "mapped"

(* The events of SDL are polled exactly while there is a display. *)
PolledWhileUp == driver \in {"sdl", "sdl12"} => (polls <=> Up # {})

DisplaySound == DrawnWhole /\ X11Whole /\ PolledWhileUp

----------------------------------------------------------------------------
(* The ring of wave buffers stays in order, a window is drawn with what it *)
(* is made of, and the radio stream is cut where it was promised           *)
(* (WaveSound, DisplaySound and RadioSound).                               *)
DriversSound == WaveSound /\ DisplaySound /\ RadioSound
=============================================================================
