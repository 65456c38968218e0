----------------------------- MODULE EventLoop -----------------------------
(***************************************************************************)
(* The main loop of the library: main/main.c (with epoll, the method of    *)
(* Linux and Android), tmr/tmr.c and the message queue of mqueue/mqueue.c. *)
(* One iteration looks at the signal, waits for events, calls the handlers *)
(* of the descriptors that have one, and then those of the timers that are *)
(* due.  A handler is code of the user: it may close or open descriptors,  *)
(* start or cancel timers and stop the loop.  Descriptor 0 is the read end *)
(* of the message queue; other threads write to it.                        *)
(***************************************************************************)
EXTENDS Naturals, Sequences, FiniteSets, SequencesExt, FiniteSetsExt

CONSTANTS
  MaxFd,       \* descriptors are 0 .. MaxFd
  Timer,       \* struct tmr objects
  Delays,      \* delays given to tmr_start
  MaxTime,     \* bound on the clock
  MaxOwner,    \* bound on the descriptors ever opened
  PipeSize     \* messages that fit in the pipe of the queue

ASSUME LoopAssumption ==
  /\ MaxFd \in Nat \ {0} /\ MaxTime \in Nat /\ MaxOwner \in Nat \ {0}
  /\ Delays \subseteq Nat /\ 0 \in Delays

Fd == 0 .. MaxFd
Flags == {"r", "w"}
Forever == MaxTime + 1

VARIABLES
  loop,        \* struct re without its tables; pc is where re_main is
  fhs,         \* re->fhs: wanted flags, and whether there is a handler
  events,      \* re->events: what the last epoll_wait calls left there
  tmrl,        \* re->tmrl: the list of running timers
  now,         \* tmr_jiffies
  owners,      \* descriptors opened so far
  pipe,        \* messages in the pipe
  got,         \* history: messages pushed and messages received
  strayed      \* history: a handler got an event that was not its own

loopVars == <<loop, fhs, events, tmrl, now, owners, pipe, got, strayed>>

NoFh == [flags |-> {}, open |-> FALSE]
NoEvent == [fd |-> 0, flags |-> {}, old |-> TRUE]

(* re_main has been entered, or is over: pc, at time t *)
LoopAt(pc, t) ==
  /\ loop = [pc |-> pc, polling |-> TRUE, sig |-> FALSE, update |-> TRUE,
             n |-> 0, i |-> 0, wake |-> 0, jfs |-> 0]
  /\ fhs = [f \in Fd |-> IF f = 0 THEN [flags |-> {"r"}, open |-> TRUE] ELSE NoFh]
  /\ events = [i \in 1 .. MaxFd + 1 |-> NoEvent]
  /\ tmrl = <<>> /\ now = t /\ owners = 1
  /\ pipe = <<>> /\ got = [pushed |-> 0, recv |-> 0] /\ strayed = FALSE

LoopInit == LoopAt("top", 0)

----------------------------------------------------------------------------
(* list_unlink of a timer, when it has a handler *)
Unlink(l, t) ==
  LET at == {i \in DOMAIN l : l[i].t = t}
  IN IF at = {} THEN l ELSE RemoveAt(l, Min(at))

(* Position of a new timer without a delay: before the first one that is   *)
(* later (inspos_handler_0, from the head) ...                             *)
Before(l, jfs) == Min({Len(l) + 1} \cup {i \in DOMAIN l : l[i].jfs > jfs})

(* ... and with one: after the last one that is not (inspos_handler, from  *)
(* the tail).                                                              *)
After(l, jfs) == 1 + Max({0} \cup {i \in DOMAIN l : l[i].jfs <= jfs})

(* Mutant: a timer without a delay goes last. *)
tmr_start_Last(l, t, delay) ==
  LET rest == Unlink(l, t)
      jfs == now + delay
      n == IF delay = 0 THEN Len(rest) + 1 ELSE After(rest, jfs)
  IN InsertAt(rest, n, [t |-> t, jfs |-> jfs])

tmr_start(l, t, delay) ==
  LET rest == Unlink(l, t)
      jfs == now + delay
      n == IF delay = 0 THEN Before(rest, jfs) ELSE After(rest, jfs)
  IN InsertAt(rest, n, [t |-> t, jfs |-> jfs])

(* tmr_next_timeout; the millisecond of a timer that is due is below the  *)
(* grain of the clock.                                                     *)
NextTimeout == IF tmrl = <<>> THEN Forever
               ELSE IF tmrl[1].jfs <= now THEN now ELSE tmrl[1].jfs

(* fd_listen: the handler is registered, and epoll told. *)
fd_listen(f, flags) == [fhs EXCEPT ![f] = [flags |-> flags, open |-> TRUE]]

(* fd_close *)
fd_close(f) == [fhs EXCEPT ![f] = NoFh]

Closed == {f \in Fd : ~fhs[f].open}

(* What one call of a handler may do.  A new descriptor has the lowest     *)
(* free number.                                                            *)
HandlerDoes(l) ==
  \/ UNCHANGED <<fhs, owners>> /\ tmrl' = l
  \/ /\ \E f \in Fd \ {0} : fhs[f].open /\
          \E again \in BOOLEAN, flags \in {{"r"}, {"w"}} :
            IF again THEN owners < MaxOwner /\ owners' = owners + 1
                          /\ fhs' = fd_listen(f, flags)
            ELSE owners' = owners /\ fhs' = fd_close(f)
     /\ tmrl' = l
  \/ /\ Closed # {} /\ owners < MaxOwner /\ owners' = owners + 1
     /\ fhs' = fd_listen(CHOOSE f \in Closed : \A g \in Closed : f <= g,
                         {"w"})
     /\ tmrl' = l
  \/ /\ \E t \in Timer, d \in Delays :
          now < MaxTime /\ now + d <= MaxTime /\ tmrl' = tmr_start(l, t, d)
     /\ UNCHANGED <<fhs, owners>>
  \/ /\ \E t \in Timer : tmrl' = Unlink(l, t)
     /\ UNCHANGED <<fhs, owners>>

Rest == <<now, pipe, got, strayed>>

----------------------------------------------------------------------------
(* re_main, the head of its loop: the signal, the end, or fd_poll, whose   *)
(* timeout is read before it waits.  The signal handler of the program     *)
(* stops the loop.                                                         *)
LoopTop ==
  /\ loop.pc = "top"
  /\ loop' = IF loop.sig
             THEN [loop EXCEPT !.sig = FALSE, !.polling = FALSE, !.pc = "end"]
             ELSE IF ~loop.polling THEN [loop EXCEPT !.pc = "end"]
             ELSE [loop EXCEPT !.pc = "wait", !.wake = NextTimeout]
  /\ UNCHANGED <<fhs, events, tmrl, owners, Rest>>

(* fd_poll returns, and tmr_poll reads the clock. *)
PollTimers == [loop EXCEPT !.pc = "timers", !.jfs = now, !.wake = 0, !.n = 0,
                           !.i = 0]

(* What the kernel reports for a descriptor: what is wanted of what is     *)
(* there, and always errors and hang-ups, of which EPOLLHUP has no flag.   *)
Pollable(f) ==
  IF f = 0 THEN IF pipe = <<>> THEN {} ELSE {{"r"}}
  ELSE IF ~fhs[f].open THEN {} ELSE {fhs[f].flags, {"x"}, {"h"}}

(* epoll_wait returns events: the array keeps what older calls left.       *)
EpollWait ==
  /\ loop.pc = "wait"
  /\ \E S \in SUBSET {f \in Fd : Pollable(f) # {}} :
       \E fl \in [S -> {Flags} \cup {{"r"}, {"w"}, {"x"}, {"h"}}] :
         /\ S # {} /\ (pipe # <<>> => 0 \in S) /\ \A f \in S : fl[f] \in Pollable(f)
         /\ LET nth(i) == CHOOSE f \in S :
                            Cardinality({g \in S : g <= f}) = i
            IN events' = [i \in DOMAIN events |->
                 IF i > Cardinality(S) THEN [events[i] EXCEPT !.old = TRUE]
                 ELSE [fd |-> nth(i), flags |-> fl[nth(i)], old |-> FALSE]]
         /\ loop' = [loop EXCEPT !.pc = "dispatch", !.n = Cardinality(S), !.i = 1,
                                !.wake = 0]
  /\ UNCHANGED <<fhs, tmrl, owners, Rest>>

(* epoll_wait timed out, and nothing is there to be read. *)
EpollTimeout ==
  /\ loop.pc = "wait" /\ now >= loop.wake /\ pipe = <<>>
  /\ loop' = PollTimers
  /\ UNCHANGED <<fhs, events, tmrl, owners, Rest>>

(* fd_poll, the loop over the events: an event without a flag is passed    *)
(* over and does not count, and a new method ends the loop.                *)
More == loop.n > 0 /\ loop.i <= MaxFd + 1

Advance == IF loop.update THEN [PollTimers EXCEPT !.update = FALSE]
           ELSE [loop EXCEPT !.n = @ - 1, !.i = @ + 1]

Called == events[loop.i].flags \ {"h"}

SkipEvent ==
  /\ loop.pc = "dispatch" /\ More /\ Called = {}
  /\ loop' = [loop EXCEPT !.i = @ + 1]
  /\ UNCHANGED <<fhs, events, tmrl, owners, Rest>>

NobodyListens ==
  /\ loop.pc = "dispatch" /\ More /\ Called # {}
  /\ ~fhs[events[loop.i].fd].open
  /\ loop' = Advance
  /\ UNCHANGED <<fhs, events, tmrl, owners, Rest>>

(* The handler is called; the one of the queue reads one message.          *)
FdHandler ==
  /\ loop.pc = "dispatch" /\ More /\ Called # {}
  /\ LET e == events[loop.i]
         cur == fhs[e.fd]
     IN /\ cur.open
        /\ strayed' = (strayed \/ e.old \/ ~(Called \subseteq cur.flags \cup {"x"}))
        /\ IF e.fd = 0 /\ "r" \in Called /\ pipe # <<>>
           THEN /\ pipe' = Tail(pipe) /\ got' = [got EXCEPT !.recv = Head(pipe)]
           ELSE UNCHANGED <<pipe, got>>
  /\ \E stop \in BOOLEAN : loop' = [Advance EXCEPT !.polling = @ /\ ~stop]
  /\ HandlerDoes(tmrl)
  /\ UNCHANGED <<events, now>>

EventsDone ==
  /\ loop.pc = "dispatch" /\ ~More
  /\ loop' = PollTimers
  /\ UNCHANGED <<fhs, events, tmrl, owners, Rest>>

Due == tmrl # <<>> /\ tmrl[1].jfs <= loop.jfs

(* tmr_poll: a timer is taken off the list before its handler is called.   *)
TmrHandler ==
  /\ loop.pc = "timers" /\ Due
  /\ \E stop \in BOOLEAN : loop' = [loop EXCEPT !.polling = @ /\ ~stop]
  /\ HandlerDoes(Tail(tmrl))
  /\ UNCHANGED <<events, Rest>>

TimersDone ==
  /\ loop.pc = "timers" /\ ~Due
  /\ loop' = [loop EXCEPT !.pc = "top", !.jfs = 0]
  /\ UNCHANGED <<fhs, events, tmrl, owners, Rest>>

(* signal_handler: a wait is interrupted (EINTR), the flag is seen next.   *)
Signal ==
  /\ ~loop.sig /\ loop.pc # "end"
  /\ loop' = [loop EXCEPT !.sig = TRUE, !.wake = 0,
                          !.pc = IF @ = "wait" THEN "top" ELSE @]
  /\ UNCHANGED <<fhs, events, tmrl, owners, Rest>>

(* The signal comes between the look at the flag and the wait.             *)
SignalLate ==
  /\ loop.pc = "wait" /\ ~loop.sig
  /\ loop' = [loop EXCEPT !.sig = TRUE]
  /\ UNCHANGED <<fhs, events, tmrl, owners, Rest>>

(* Mutant: the newest message is read first. *)
mqueue_push_Front ==
  /\ Len(pipe) < PipeSize /\ got.pushed < PipeSize + 1
  /\ pipe' = <<got.pushed + 1>> \o pipe
  /\ got' = [got EXCEPT !.pushed = @ + 1]
  /\ UNCHANGED <<loop, fhs, events, tmrl, now, owners, strayed>>

(* mqueue_push, by any thread *)
mqueue_push ==
  /\ Len(pipe) < PipeSize /\ got.pushed < PipeSize + 1
  /\ pipe' = Append(pipe, got.pushed + 1)
  /\ got' = [got EXCEPT !.pushed = @ + 1]
  /\ UNCHANGED <<loop, fhs, events, tmrl, now, owners, strayed>>

Tick ==
  /\ now < MaxTime /\ now' = now + 1
  /\ UNCHANGED <<loop, fhs, events, tmrl, owners, pipe, got, strayed>>

LoopNext ==
  \/ LoopTop \/ EpollWait \/ EpollTimeout \/ SkipEvent \/ NobodyListens
  \/ FdHandler \/ EventsDone \/ TmrHandler \/ TimersDone \/ Signal \/ SignalLate
  \/ mqueue_push \/ Tick

(* The thread of the loop runs, and time passes. *)
LoopFairness ==
  /\ WF_loopVars(LoopTop \/ EpollTimeout \/ SkipEvent \/ NobodyListens
                 \/ FdHandler \/ EventsDone \/ TmrHandler \/ TimersDone)
  /\ WF_loopVars(EpollWait /\ pipe # <<>>) /\ WF_loopVars(Tick)

LoopSpec == LoopInit /\ [][LoopNext]_loopVars /\ LoopFairness

----------------------------------------------------------------------------
LoopTypeOK ==
  /\ loop \in [pc : {"top", "wait", "dispatch", "timers", "end"}, wake : Nat,
       polling : BOOLEAN, sig : BOOLEAN, update : BOOLEAN, n : Nat, i : Nat,
       jfs : Nat]
  /\ fhs \in [Fd -> [flags : SUBSET Flags, open : BOOLEAN]]
  /\ now \in 0 .. MaxTime /\ owners \in 1 .. MaxOwner
  /\ tmrl \in Seq([t : Timer, jfs : 0 .. MaxTime])

(* The timers are a list without repetition, sorted by the time they       *)
(* expire, so that the loop never sleeps past the first of them and never  *)
(* leaves one that is due behind one that is not (tmr.c).                  *)
TimersOrdered ==
  /\ LoopTypeOK
  /\ \A i, j \in 1 .. Len(tmrl) :
       i < j => tmrl[i].jfs <= tmrl[j].jfs /\ tmrl[i].t # tmrl[j].t
  /\ loop.pc = "wait" => \A i \in 1 .. Len(tmrl) :
       loop.wake <= tmrl[i].jfs \/ loop.wake <= now

(* Every message of another thread is received, in order, as long as the   *)
(* loop runs (mqueue.c: the loop "will be woken up on incoming messages"). *)
QueueServed ==
  /\ [][got'.recv # got.recv => got'.recv = got.recv + 1]_got
  /\ \A m \in 1 .. PipeSize + 1 :
       got.pushed = m ~> (got.recv >= m \/ loop.pc = "end")

(* A handler is called for events it asked for, flags being the "Wanted    *)
(* event flags" of fd_listen.                                              *)
WantedOnly == ~strayed
=============================================================================
