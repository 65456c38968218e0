------------------------------- MODULE Mixers -------------------------------
(* The mixers of rem: what a conference hears and what it sees.            *)
EXTENDS Naturals, Sequences, FiniteSets, SequencesExt

----------------------------------------------------------------------------
(***************************************************************************)
(* The audio mixer of rem: aumix/aumix.c.  A thread takes, every packet    *)
(* time, a frame out of the buffer of every source and gives each source   *)
(* the sum of a file, if one is played, and of what the others said.  It   *)
(* holds the lock of the mixer all the time but when it sleeps or waits    *)
(* for a first source; the application adds and removes sources meanwhile. *)
(* The sources hold references to the mixer, which is freed with the last. *)
(*                                                                         *)
(* Frames are numbered by source; a buffer that is short gives silence, 0. *)
(***************************************************************************)
CONSTANTS
  Asrc,          \* sources
  MixPtime,      \* the packet time
  MaxNow,        \* bound on the clock
  MaxPut,        \* frames that a source may say
  FileLen        \* frames of a file

VARIABLES
  mix,           \* "up"; "joining" in the destructor; "gone"
  apphas,        \* the application holds the mixer
  asrc,          \* sources that are allocated
  srcl,          \* those that are enabled, in this order
  abuf, said,    \* [Asrc -> frames in its buffer], [Asrc -> frames so far]
  af,            \* frames left of the file
  mth,           \* the thread: "start", "sleep", "wait", "done"
  signal,        \* the condition was signalled while the thread waits
  ts, now,       \* when the next frame is due (0: not known), and the clock
  woke, ticks,   \* when it last had to wait, and the frames given since
  heard          \* [Asrc -> what it heard last]

ASSUME AumixAssumption == MixPtime \in Nat /\ FileLen \in Nat /\ "file" \notin Asrc

mixVars == <<mix, apphas, asrc, srcl, abuf, said, af, mth, signal, ts, now, woke, ticks,
             heard>>

(* A member of a list is taken out (list_unlink). *)
Unlinked(l, x) ==
  LET at == {i \in DOMAIN l : l[i] = x}
  IN IF at = {} THEN l ELSE RemoveAt(l, CHOOSE i \in at : TRUE)

(* aumix_alloc: the thread begins with nobody to mix. *)
AumixInit ==
  /\ mix = "up" /\ apphas = TRUE
  /\ asrc = {} /\ srcl = <<>> /\ af = 0
  /\ abuf = [s \in Asrc |-> <<>>] /\ said = [s \in Asrc |-> 0]
  /\ mth = "start" /\ signal = FALSE
  /\ ts = 0 /\ now = 1 /\ woke = 1 /\ ticks = 0
  /\ heard = [s \in Asrc |-> {}]

----------------------------------------------------------------------------
(* pthread_cond_signal: nobody is told who does not wait. *)
CondSignal == signal' = (mth = "wait")

(* mem_deref of the mixer: its destructor stops the thread. *)
MixDeref(held, srcs) ==
  IF ~held /\ srcs = {} THEN mix' = "joining" /\ CondSignal
  ELSE UNCHANGED <<mix, signal>>

AumixSourceAlloc(s) ==
  /\ mix = "up" /\ apphas /\ s \notin asrc
  /\ asrc' = asrc \cup {s}
  /\ UNCHANGED <<mix, apphas, srcl, abuf, said, af, mth, signal, ts, now, woke, ticks, heard>>

(* Mutant: the thread is not told of the first source. *)
AumixSourceEnable_Quiet(s) ==
  /\ s \in asrc
  /\ srcl' = IF s \in ToSet(srcl) THEN Unlinked(srcl, s) ELSE Append(srcl, s)
  /\ UNCHANGED <<mix, apphas, asrc, abuf, said, af, mth, signal, ts, now, woke, ticks, heard>>

(* aumix_source_enable, on and off *)
AumixSourceEnable(s) ==
  /\ s \in asrc
  /\ IF s \in ToSet(srcl)
     THEN srcl' = Unlinked(srcl, s) /\ UNCHANGED signal
     ELSE srcl' = Append(srcl, s) /\ CondSignal
  /\ UNCHANGED <<mix, apphas, asrc, abuf, said, af, mth, ts, now, woke, ticks, heard>>

(* aumix_source_put; not more than a frame ahead, for the bound *)
AumixSourcePut(s) ==
  /\ s \in asrc /\ said[s] < MaxPut
  /\ said' = [said EXCEPT ![s] = @ + 1]
  /\ abuf' = [abuf EXCEPT ![s] = Append(@, said[s] + 1)]
  /\ UNCHANGED <<mix, apphas, asrc, srcl, af, mth, signal, ts, now, woke, ticks, heard>>

(* aumix_source_flush *)
AumixSourceFlush(s) ==
  /\ s \in asrc /\ abuf[s] # <<>>
  /\ abuf' = [abuf EXCEPT ![s] = <<>>]
  /\ UNCHANGED <<mix, apphas, asrc, srcl, said, af, mth, signal, ts, now, woke, ticks, heard>>

(* source_destructor *)
AumixSourceFree(s) ==
  /\ s \in asrc
  /\ asrc' = asrc \ {s}
  /\ srcl' = Unlinked(srcl, s)
  /\ abuf' = [abuf EXCEPT ![s] = <<>>]
  /\ MixDeref(apphas, asrc')
  /\ UNCHANGED <<apphas, said, af, mth, ts, now, woke, ticks, heard>>

(* aumix_playfile *)
AumixPlayfile ==
  /\ apphas /\ af' = FileLen
  /\ UNCHANGED <<mix, apphas, asrc, srcl, abuf, said, mth, signal, ts, now, woke, ticks, heard>>

AumixRelease ==
  /\ apphas /\ apphas' = FALSE
  /\ MixDeref(FALSE, asrc)
  /\ UNCHANGED <<asrc, srcl, abuf, said, af, mth, ts, now, woke, ticks, heard>>

(* destructor, behind pthread_join *)
MixJoined ==
  /\ mix = "joining" /\ mth = "done"
  /\ mix' = "gone"
  /\ UNCHANGED <<apphas, asrc, srcl, abuf, said, af, mth, signal, ts, now, woke, ticks, heard>>

----------------------------------------------------------------------------
(* Mutant: the time before the wait counts. *)
DueSince_Kept(t) == IF t = 0 THEN now ELSE t

(* The first frame that is due after a wait is due now. *)
DueSince(t) == IF mth = "wait" \/ t = 0 THEN now ELSE t

(* The first loop: a frame of every source *)
FrameOf(s) == IF abuf[s] = <<>> THEN 0 ELSE Head(abuf[s])

(* The second loop: the file and the others, not oneself *)
MixOf(s) ==
  {<<x, FrameOf(x)>> : x \in {y \in ToSet(srcl) \ {s} : FrameOf(y) # 0}}
  \cup (IF af > 0 THEN {<<"file", af>>} ELSE {})

(* Where the loop of aumix_thread lets the lock go *)
Pause == IF mix # "up" THEN "done" ELSE IF srcl = <<>> THEN "wait" ELSE "sleep"

AumixThreadStart ==
  /\ mth = "start" /\ mth' = Pause
  /\ UNCHANGED <<mix, apphas, asrc, srcl, abuf, said, af, signal, ts, now, woke, ticks, heard>>

(* One round of aumix_thread, from the lock to where it lets it go again:  *)
(* a wait also ends for no reason.                                         *)
AumixThread ==
  /\ mth \in {"sleep", "wait"}
  /\ LET due == DueSince(ts) IN
     /\ woke' = IF mth = "wait" THEN now ELSE woke
     /\ IF due > now
        THEN /\ ts' = due
             /\ UNCHANGED <<af, abuf, heard, ticks>>
        ELSE /\ ts' = due + MixPtime
             /\ ticks' = (IF mth = "wait" THEN 0 ELSE ticks) + 1
             /\ heard' = [s \in Asrc |-> IF s \in ToSet(srcl) THEN MixOf(s) ELSE heard[s]]
             /\ abuf' = [s \in Asrc |-> IF s \in ToSet(srcl) /\ abuf[s] # <<>>
                                        THEN Tail(abuf[s]) ELSE abuf[s]]
             /\ af' = IF af > 0 THEN af - 1 ELSE 0
  /\ mth' = Pause
  /\ signal' = FALSE
  /\ UNCHANGED <<mix, apphas, asrc, srcl, said, now>>

MixClock ==
  /\ now < MaxNow
  /\ now' = now + 1
  /\ UNCHANGED <<mix, apphas, asrc, srcl, abuf, said, af, mth, signal, ts, woke, ticks, heard>>

AumixNext ==
  \/ \E s \in Asrc :
       \/ AumixSourceAlloc(s) \/ AumixSourceEnable(s) \/ AumixSourcePut(s)
       \/ AumixSourceFlush(s) \/ AumixSourceFree(s)
  \/ AumixPlayfile \/ AumixRelease \/ MixJoined \/ AumixThreadStart \/ AumixThread \/ MixClock

AumixSpec == AumixInit /\ [][AumixNext]_mixVars

----------------------------------------------------------------------------
(* The thread waits with its eyes closed only while there is nobody to mix *)
(* and nobody frees the mixer; it gives no more frames than the time since *)
(* it last waited has room for, one being due at once, so that a source    *)
(* that comes after a long silence does not get the frames of the silence; *)
(* nobody hears itself, nor two frames of one other; and nobody is mixed   *)
(* that is not there, nor after the mixer is gone.                         *)
AumixSound ==
  /\ mth = "wait" /\ ~signal => srcl = <<>> /\ mix = "up"
  /\ ticks * MixPtime <= (now - woke) + MixPtime
  /\ \A s \in Asrc : /\ \A f \in heard[s] : f[1] # s
                     /\ \A f, g \in heard[s] : f[1] = g[1] => f = g
  /\ ToSet(srcl) \subseteq asrc /\ IsInjective(srcl)
  /\ mix # "up" => asrc = {}

----------------------------------------------------------------------------
(***************************************************************************)
(* The video mixer of rem: vidmix/vidmix.c.  Every source has a thread     *)
(* that paints the pictures of the other sources into a frame of its own,  *)
(* each into its tile, and hands the frame on.  The frame is kept from one *)
(* round to the next; it is blackened only when the flag clear says that   *)
(* tiles have moved.  The list of sources is under a lock that the threads *)
(* read and the application writes; the settings of a source are under a   *)
(* lock of its own.                                                        *)
(*                                                                         *)
(* A round of a thread is one step: it holds both locks.  Crowd are        *)
(* further sources that are in the list all the time and have a picture.   *)
(***************************************************************************)
CONSTANTS
  Vsrc,         \* sources that come and go: numbers
  Viewers,      \* those of them that may have a thread and settings
  Crowds,       \* how many others there may be
  RxSize,       \* sizes of pictures
  TxSize        \* width and height of the frames

VARIABLES
  crowd,        \* the others: numbers
  vlist,        \* enabled sources, in this order
  vsrc,         \* [Vsrc -> its state]
  joining,      \* the source whose thread the application waits for, or 0
  stale         \* sources that were handed a frame with a tile that is not theirs

(* The others are numbered from 101. *)
ASSUME VidmixAssumption ==
  /\ Vsrc \subseteq 1 .. 100 /\ Viewers \subseteq Vsrc
  /\ Crowds \subseteq Nat /\ TxSize \in Nat

vidmixVars == <<crowd, vlist, vsrc, joining, stale>>

NoSrc == [up |-> FALSE, th |-> "none", run |-> FALSE, selfview |-> FALSE, focus |-> 0,
          full |-> FALSE, clear |-> FALSE, tx |-> FALSE, rx |-> 0, tiles |-> {}]

VidmixInit ==
  /\ \E n \in Crowds : /\ crowd = 101 .. 100 + n
                       /\ vlist = [i \in 1 .. n |-> 100 + i]
  /\ vsrc = [s \in Vsrc |-> NoSrc]
  /\ joining = 0 /\ stale = {}

Idle == joining = 0

(* A thread that never lets the read lock go stops all who write. *)
Writable == \A s \in Vsrc : vsrc[s].th # "stuck"

----------------------------------------------------------------------------
(* calc_rows: the least square that has room, of two rows at least *)
calc_rows(n) == CHOOSE r \in 2 .. n + 2 : n <= r * r /\ \A q \in 2 .. r - 1 : q * q < n

(* source_mix: where a picture goes.  With a focus, the one in focus has   *)
(* the upper left, the others a column at the right and then the bottom    *)
(* row from its right end; those for which there is no room are left out.  *)
Half(n, full) == LET m == IF full THEN 12 ELSE 6
                 IN (IF n + 1 > m THEN n + 1 ELSE m) \div 2

Rect(n, idx, focus, this, full) ==
  IF ~focus
  THEN LET r == calc_rows(n)  w == TxSize \div r
       IN {[x |-> w * (idx % r), y |-> w * (idx \div r), w |-> w]}
  ELSE LET k == Half(n, full)  w == TxSize \div k
       IN IF this THEN {[x |-> 0, y |-> 0, w |-> (TxSize * (k - 1)) \div k]}
          ELSE IF idx < k THEN {[x |-> TxSize - w, y |-> w * idx, w |-> w]}
          ELSE IF idx < 2 * k - 1
          THEN {[x |-> w * (2 * k - 2 - idx), y |-> TxSize - w, w |-> w]}
          ELSE {}

(* source_mix_full *)
FullRect == [x |-> 0, y |-> 0, w |-> TxSize]

RxOf(s) == IF s \in crowd THEN 1 ELSE vsrc[s].rx

(* The sources that the thread of s paints, in the order of the list *)
Painted(s) == IF vsrc[s].selfview THEN vlist ELSE Unlinked(vlist, s)

(* The number of tiles that n is: one less than the list without selfview, *)
(* also for a source that is not in the list, which paints them all.       *)
CountOf(s) == IF vsrc[s].selfview THEN Len(vlist) ELSE Len(vlist) - 1

(* The number of tiles before the i-th one that count *)
IdxOf(s, i) ==
  LET p == Painted(s) IN Cardinality({j \in 1 .. i - 1 : p[j] # vsrc[s].focus})

(* vidconv paints nothing that is not wholly in the frame. *)
Inside(r) == r.x + r.w <= TxSize /\ r.y + r.w <= TxSize

(* The tile of the i-th of them; the focus, when full, is painted first    *)
(* and behind the others.                                                  *)
TileOf(s, i) ==
  LET v == vsrc[s]
      x == Painted(s)[i]
      rects == IF v.full /\ x = v.focus THEN {FullRect}
               ELSE Rect(CountOf(s), IdxOf(s, i), v.focus # 0, x = v.focus, v.full)
  IN {[of |-> x, rx |-> RxOf(x), rect |-> r] : r \in {q \in rects : RxOf(x) # 0 /\ Inside(q)}}

(* The tiles of a round *)
TilesOf(s) == UNION {TileOf(s, i) : i \in 1 .. Len(Painted(s))}

(* Of an empty list n wraps to 2^32 - 1, for which calc_rows finds no      *)
(* square.                                                                 *)
NoRows(s) == CountOf(s) < 0

(* One round of vidmix_thread *)
VidmixThread(s) ==
  /\ vsrc[s].th = "up"
  /\ \/ /\ ~vsrc[s].tx
        /\ vsrc' = [vsrc EXCEPT ![s].th = IF vsrc[s].run THEN "up" ELSE "none"]
        /\ UNCHANGED stale
     \/ /\ vsrc[s].tx /\ NoRows(s)
        /\ vsrc' = [vsrc EXCEPT ![s].th = "stuck"]
        /\ UNCHANGED stale
     \/ /\ vsrc[s].tx /\ ~NoRows(s)
        /\ LET tiles == (IF vsrc[s].clear THEN {} ELSE vsrc[s].tiles) \cup TilesOf(s) IN
           /\ vsrc' = [vsrc EXCEPT ![s].tiles = tiles, ![s].clear = FALSE,
                         ![s].th = IF vsrc[s].run THEN "up" ELSE "none"]
           /\ stale' = IF s \in ToSet(vlist) /\ tiles # TilesOf(s) THEN stale \cup {s} ELSE stale
  /\ UNCHANGED <<crowd, vlist, joining>>

----------------------------------------------------------------------------
(* clear_all, of the sources in the list *)
clear_all(list, st) ==
  [s \in Vsrc |-> IF s \in ToSet(list) THEN [st[s] EXCEPT !.clear = TRUE] ELSE st[s]]

VidmixSourceAlloc(s) ==
  /\ Idle /\ ~vsrc[s].up
  /\ \E tx \in (IF s \in Viewers THEN BOOLEAN ELSE {FALSE}) :
       vsrc' = [vsrc EXCEPT ![s] = [NoSrc EXCEPT !.up = TRUE, !.tx = tx]]
  /\ UNCHANGED <<crowd, vlist, joining, stale>>

(* Mutant: a source that comes is marked before it is in the list. *)
VidmixSourceEnable_Before(s) ==
  /\ Idle /\ Writable /\ vsrc[s].up /\ s \notin ToSet(vlist)
  /\ vlist' = Append(vlist, s)
  /\ vsrc' = clear_all(vlist, vsrc)
  /\ UNCHANGED <<crowd, joining, stale>>

(* vidmix_source_enable *)
VidmixSourceEnable(s) ==
  /\ Idle /\ Writable /\ vsrc[s].up /\ s \notin ToSet(vlist)
  /\ vlist' = Append(vlist, s)
  /\ vsrc' = clear_all(vlist', vsrc)
  /\ UNCHANGED <<crowd, joining, stale>>

VidmixSourceDisable(s) ==
  /\ Idle /\ Writable /\ s \in ToSet(vlist)
  /\ vlist' = Unlinked(vlist, s)
  /\ vsrc' = clear_all(vlist', vsrc)
  /\ UNCHANGED <<crowd, joining, stale>>

VidmixSourceStart(s) ==
  /\ Idle /\ vsrc[s].up /\ ~vsrc[s].run
  /\ vsrc' = [vsrc EXCEPT ![s].run = TRUE, ![s].th = "up"]
  /\ UNCHANGED <<crowd, vlist, joining, stale>>

(* vidmix_source_stop, and source_destructor, up to pthread_join *)
VidmixSourceStop(s) ==
  /\ Idle /\ vsrc[s].run
  /\ vsrc' = [vsrc EXCEPT ![s].run = FALSE]
  /\ joining' = s
  /\ UNCHANGED <<crowd, vlist, stale>>

ThreadJoined ==
  /\ joining # 0 /\ vsrc[joining].th = "none"
  /\ joining' = 0
  /\ UNCHANGED <<crowd, vlist, vsrc, stale>>

(* source_destructor, behind pthread_join.  Others may have it in focus. *)
VidmixSourceFree(s) ==
  /\ Idle /\ Writable /\ vsrc[s].up /\ vsrc[s].th = "none"
  /\ vlist' = Unlinked(vlist, s)
  /\ vsrc' = [clear_all(vlist', vsrc) EXCEPT ![s] = NoSrc]
  /\ stale' = stale \ {s}
  /\ UNCHANGED <<crowd, joining>>

(* vidmix_source_set_size *)
VidmixSourceSetSize(s) ==
  /\ Idle /\ vsrc[s].up /\ vsrc[s].th # "stuck"
  /\ vsrc' = [vsrc EXCEPT ![s].tx = TRUE, ![s].tiles = {}]
  /\ UNCHANGED <<crowd, vlist, joining, stale>>

(* vidmix_source_toggle_selfview *)
VidmixSourceToggleSelfview(s) ==
  /\ Idle /\ vsrc[s].up /\ vsrc[s].th # "stuck"
  /\ vsrc' = [vsrc EXCEPT ![s].selfview = ~@, ![s].clear = TRUE]
  /\ UNCHANGED <<crowd, vlist, joining, stale>>

(* vidmix_source_set_focus: the same one again makes it full, or not. *)
VidmixSourceSetFocus(s, f) ==
  /\ Idle /\ vsrc[s].up /\ vsrc[s].th # "stuck"
  /\ f = 0 \/ f \in ToSet(Painted(s))
  /\ vsrc' = [vsrc EXCEPT ![s].focus = f, ![s].clear = TRUE,
                ![s].full = f # 0 /\ f = vsrc[s].focus /\ ~vsrc[s].full]
  /\ UNCHANGED <<crowd, vlist, joining, stale>>

(* vidmix_source_put, of another size than before *)
VidmixSourcePut(s, z) ==
  /\ Idle /\ Writable /\ vsrc[s].up /\ vsrc[s].rx # z
  /\ vsrc' = clear_all(vlist, [vsrc EXCEPT ![s].rx = z])
  /\ UNCHANGED <<crowd, vlist, joining, stale>>

VidmixNext ==
  \/ ThreadJoined
  \/ \E s \in Vsrc :
       \/ VidmixThread(s) \/ VidmixSourceAlloc(s) \/ VidmixSourceEnable(s)
       \/ VidmixSourceDisable(s) \/ VidmixSourceFree(s)
       \/ \E z \in RxSize : VidmixSourcePut(s, z)
  \/ \E s \in Viewers :
       \/ VidmixSourceStart(s) \/ VidmixSourceStop(s)
       \/ VidmixSourceSetSize(s) \/ VidmixSourceToggleSelfview(s)
       \/ \E f \in {0} \cup Vsrc : VidmixSourceSetFocus(s, f)

VidmixSpec == VidmixInit /\ [][VidmixNext]_vidmixVars

----------------------------------------------------------------------------
Apart(p, q) == p.x + p.w <= q.x \/ q.x + q.w <= p.x \/ p.y + p.w <= q.y \/ q.y + q.w <= p.y

(* Whoever is in focus is still there to be painted. *)
FocusThere(s) == vsrc[s].focus \in {0} \cup ToSet(Painted(s))

(* Those who have a picture and get no tile *)
Missing(s) ==
  {x \in ToSet(Painted(s)) : RxOf(x) # 0} \ {t.of : t \in TilesOf(s)}

(* A source in the list is handed frames that hold the pictures of the     *)
(* others that are there now, and nothing of those that left, moved or     *)
(* changed their size; the tiles of a frame are apart from each other and  *)
(* in front of the one that fills it; and everybody who has a picture gets *)
(* a tile, unless the focus is on one that left: but a source that is not  *)
(* in the list misses at most one, as its own tile is taken off n.         *)
VidmixSound ==
  /\ stale = {}
  /\ \A s \in Vsrc : vsrc[s].th = "up" /\ ~NoRows(s) =>
       /\ \A t, u \in TilesOf(s) :
            t.of # u.of /\ ~(vsrc[s].full /\ vsrc[s].focus \in {t.of, u.of})
              => Apart(t.rect, u.rect)
       /\ FocusThere(s) =>
            /\ \A x, y \in Missing(s) : x = y
            /\ vsrc[s].selfview \/ s \in ToSet(vlist) => Missing(s) = {}

(* The two mixers: whoever takes part in a conference hears and sees the   *)
(* others.                                                                 *)
MixersSound == AumixSound /\ VidmixSound

(* Everybody who has a picture gets a tile in every frame.                 *)
NobodyMissed ==
  \A s \in Vsrc : vsrc[s].th = "up" /\ ~NoRows(s) /\ FocusThere(s) => Missing(s) = {}

(* A thread that was started can be stopped: "Stop vidmix source thread".  *)
ThreadStops == \A s \in Vsrc : vsrc[s].th # "stuck"
=============================================================================
