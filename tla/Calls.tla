------------------------------- MODULE Calls -------------------------------
(***************************************************************************)
(* The calls of a user agent (baresip call.c and the part of ua.c that     *)
(* handles their events): incoming and outgoing calls, medianat that has   *)
(* to finish before a call goes on, tones and media, the alert of an       *)
(* incoming call, and the transfer of a call, whose notifier two calls     *)
(* share.                                                                  *)
(*                                                                         *)
(* A call sees of its session what SipSess shows: callbacks come only      *)
(* while the call holds it, progress and establishment in order, and the   *)
(* close handler at most once.                                             *)
(***************************************************************************)
EXTENDS Naturals, Sequences, FiniteSets, SequencesExt

CONSTANTS
  Call,         \* call objects
  MaxCalls,     \* incoming calls are refused beyond it (MAX_CALLS)
  AnswerMode,   \* subset of {"MANUAL", "EARLY", "AUTO"}
  Medianat      \* subset of BOOLEAN: calls with and without medianat

ASSUME CallsAssumption ==
  /\ IsFiniteSet(Call) /\ MaxCalls \in Nat
  /\ AnswerMode \subseteq {"MANUAL", "EARLY", "AUTO"}
  /\ Medianat \subseteq BOOLEAN

VARIABLES
  call,         \* struct call, by object
  calls,        \* ua->calls
  answermode,
  tmr_alert,    \* the alert timer of the user agent runs
  not           \* the notifier of a REFER (struct sipnot)

vars == <<call, calls, answermode, tmr_alert, not>>

State == {"FREE", "INCOMING", "OUTGOING", "RINGING", "EARLY", "ESTABLISHED"}

CallObject == [
  state : State,
  sess : {"none", "calling", "ringing", "answered", "estab"},
  media : {"off", "early", "active"},
  play : {"off", "ring", "callwaiting", "ringback"},
  tmr_inv : BOOLEAN,
  mnat : {"none", "gathering", "done", "unsent"},   \* unsent: no INVITE after it
  not : BOOLEAN]                                    \* holds the notifier

NoCall == [state |-> "FREE", sess |-> "none", media |-> "off", play |-> "off",
           tmr_inv |-> FALSE, mnat |-> "none", not |-> FALSE]

NoNot == [state |-> "none", arg |-> "none"]

Init ==
  /\ call = [c \in Call |-> NoCall] /\ calls = <<>>
  /\ answermode \in AnswerMode
  /\ tmr_alert = FALSE
  /\ not = NoNot

----------------------------------------------------------------------------
(* Operators on one call *)

call_stream_stop(k) == [k EXCEPT !.media = "off", !.tmr_inv = FALSE]

call_stream_start(k, active) ==
  [k EXCEPT !.media = IF active THEN "active" ELSE "early",
            !.tmr_inv = @ /\ ~active]

(* The notifier after the calls in cs let go of it: the last one that does *)
(* ends it silently (destructor of sipnot).                                *)
LetGo(n, cs) ==
  IF n.state = "active" /\ ~\E c \in Call \ cs : call[c].not
  THEN [n EXCEPT !.state = "over"] ELSE n

(* call_notify_sipfrag with a final code, if the call has a notifier *)
FinalNotify(n, c) ==
  IF call[c].not /\ n.state = "active" THEN [n EXCEPT !.state = "over"] ELSE n

(* call_destructor: the call leaves the list, wherever it is linked. *)
call_destructor(c) ==
  /\ call' = [call EXCEPT ![c] = NoCall]
  /\ \E i \in DOMAIN calls : calls[i] = c /\ calls' = RemoveAt(calls, i)

(* CALL_EVENT_CLOSED: the alert stops and the call is released. *)
Closed(c, n) ==
  /\ call_destructor(c)
  /\ tmr_alert' = FALSE
  /\ not' = n
  /\ UNCHANGED answermode

Only(c, k) ==
  /\ call' = [call EXCEPT ![c] = k]
  /\ UNCHANGED <<calls, answermode, tmr_alert, not>>

Taken == {c \in Call : call[c].state # "FREE"}

----------------------------------------------------------------------------
(* Outgoing calls *)

(* call_connect, when it succeeds: with medianat the INVITE waits. *)
call_connect(mnat) ==
  [NoCall EXCEPT !.state = "OUTGOING",
                 !.sess = IF mnat THEN "none" ELSE "calling",
                 !.mnat = IF mnat THEN "gathering" ELSE "none"]

(* ua_connect; an error leaves no call. *)
Dial(c) ==
  /\ c \notin Taken
  /\ \E mnat \in Medianat : call' = [call EXCEPT ![c] = call_connect(mnat)]
  /\ calls' = Append(calls, c)
  /\ UNCHANGED <<answermode, tmr_alert, not>>

(* Mutant: the ringback tone goes on when media starts. *)
Progress_KeepsTone(c, code, media) ==
  /\ call[c].sess = "calling"
  /\ LET k == call_stream_stop([call[c] EXCEPT
                !.state = CASE code = 180 -> "RINGING"
                            [] code = 183 -> "EARLY"
                            [] OTHER -> @])
     IN Only(c, IF media THEN call_stream_start(k, FALSE)
                         ELSE [k EXCEPT !.play = "ringback"])

(* sipsess_progr_handler: media and ringback are started anew each time. *)
Progress(c, code, media) ==
  /\ call[c].sess = "calling"
  /\ LET k == call_stream_stop([call[c] EXCEPT !.play = "off",
                !.state = CASE code = 180 -> "RINGING"
                            [] code = 183 -> "EARLY"
                            [] OTHER -> @])
     IN Only(c, IF media THEN call_stream_start(k, FALSE)
                         ELSE [k EXCEPT !.play = "ringback"])

----------------------------------------------------------------------------
(* Incoming calls *)

(* sipsess_answer, which may fail; there is one answer. *)
Answered(k) ==
  {k} \cup {[k EXCEPT !.sess = IF @ = "ringing" THEN "answered" ELSE @]}

(* CALL_EVENT_INCOMING, for the call k = call[c] and n calls in the list *)
IncomingEvent(c, k, n) ==
  /\ \/ /\ answermode = "EARLY"
        /\ \E p \in {k, call_stream_start(k, FALSE)} : call' = [call EXCEPT ![c] = p]
        /\ UNCHANGED tmr_alert
     \/ /\ answermode = "AUTO"
        /\ \E p \in Answered([k EXCEPT !.play = "off"]) : call' = [call EXCEPT ![c] = p]
        /\ UNCHANGED tmr_alert
     \/ /\ answermode = "MANUAL"
        /\ call' = [call EXCEPT ![c] =
                      [k EXCEPT !.play = IF n > 1 THEN "callwaiting" ELSE "ring"]]
        /\ tmr_alert' = (tmr_alert \/ n <= 1)
  /\ UNCHANGED <<answermode, not>>

(* Mutant: an incoming call has no time limit. *)
call_accept_NoTimer(mnat) ==
  [NoCall EXCEPT !.state = "INCOMING", !.sess = "ringing",
                 !.mnat = IF mnat THEN "gathering" ELSE "none"]

(* call_accept, when it succeeds *)
call_accept(mnat) ==
  [NoCall EXCEPT !.state = "INCOMING", !.sess = "ringing", !.tmr_inv = TRUE,
                 !.mnat = IF mnat THEN "gathering" ELSE "none"]

(* sipsess_conn_handler; an error refuses the call and leaves nothing. *)
Incoming(c) ==
  /\ c \notin Taken
  /\ Len(calls) < MaxCalls
  /\ calls' = Append(calls, c)
  /\ \E mnat \in Medianat :
       IF mnat
       THEN /\ call' = [call EXCEPT ![c] = call_accept(mnat)]
            /\ UNCHANGED <<answermode, tmr_alert, not>>
       ELSE IncomingEvent(c, call_accept(mnat), Len(calls) + 1)

(* current_call: the one that was added last *)
Current == {c \in Call : calls # <<>> /\ c = Last(calls)}

(* ua_answer *)
Answer(c) ==
  /\ c \in Current
  /\ call[c].state = "INCOMING" /\ call[c].sess # "none"
  /\ \E k \in Answered([call[c] EXCEPT !.play = "off"]) : Only(c, k)

(* invite_timeout *)
InviteTimeout(c) ==
  /\ call[c].tmr_inv
  /\ Closed(c, LetGo(not, {c}))

----------------------------------------------------------------------------
(* Medianat *)

(* mnat_handler, success: the call goes on where it waited.  An INVITE     *)
(* that cannot be sent now is not reported to anyone.                      *)
MnatDone(c) ==
  /\ call[c].mnat = "gathering"
  /\ LET k == [call[c] EXCEPT !.mnat = "done"]
     IN CASE k.state = "OUTGOING" ->
               \/ Only(c, [k EXCEPT !.sess = "calling"])
               \/ Only(c, [k EXCEPT !.mnat = "unsent"])
          [] k.state = "INCOMING" ->
               IncomingEvent(c, k, Len(calls)) /\ UNCHANGED calls
          [] OTHER -> Only(c, k)

MnatFailed(c) ==
  /\ call[c].mnat # "none"
  /\ Closed(c, LetGo(not, {c}))

----------------------------------------------------------------------------
(* Both *)

(* sipsess_estab_handler and CALL_EVENT_ESTABLISHED *)
Established(c) ==
  /\ call[c].sess \in {"calling", "answered"}
  /\ call' = [call EXCEPT ![c] = call_stream_start(
                [@ EXCEPT !.state = "ESTABLISHED", !.sess = "estab",
                          !.play = "off", !.not = FALSE], TRUE)]
  /\ tmr_alert' = FALSE
  /\ not' = FinalNotify(not, c)
  /\ UNCHANGED <<calls, answermode>>

(* Mutant: the call keeps going without its session. *)
SessionClosed_Keep(c) ==
  /\ call[c].sess # "none"
  /\ Only(c, [call_stream_stop(call[c]) EXCEPT !.sess = "none"])

(* sipsess_close_handler: a notifier learns of the end. *)
SessionClosed(c) ==
  /\ call[c].sess # "none"
  /\ Closed(c, FinalNotify(not, c))

(* audio_error_handler *)
AudioError(c) ==
  /\ call[c].media # "off"
  /\ Closed(c, LetGo(not, {c}))

(* ua_hangup: call_hangup and the release; there is no event. *)
Hangup(c) ==
  /\ c \in Current
  /\ call_destructor(c)
  /\ not' = LetGo(not, {c})
  /\ UNCHANGED <<answermode, tmr_alert>>

----------------------------------------------------------------------------
(* Transfer.  One REFER is followed. *)

(* sipsess_refer_handler and CALL_EVENT_TRANSFER: the new call d shares    *)
(* the notifier, whose argument is the call c.  Without a new call the     *)
(* failure is notified.                                                    *)
Refer(c) ==
  /\ call[c].sess \in {"answered", "estab"} /\ not.state = "none"
  /\ \/ \E d \in Call \ Taken, mnat \in Medianat :
          /\ call' = [call EXCEPT ![c].not = TRUE,
                                  ![d] = [call_connect(mnat) EXCEPT !.not = TRUE]]
          /\ calls' = Append(calls, d)
          /\ not' = [state |-> "active", arg |-> c]
     \/ /\ not' = [state |-> "over", arg |-> c]
        /\ UNCHANGED <<call, calls>>
  /\ UNCHANGED <<answermode, tmr_alert>>

(* sipnot_terminate: the subscription runs out or a NOTIFY is refused; the *)
(* handler (sipnot_close_handler) lets its argument go of the notifier.    *)
NotifierClosed ==
  /\ not.state = "active"
  /\ not' = [not EXCEPT !.state = "over"]
  /\ call' = [call EXCEPT ![not.arg].not = FALSE]
  /\ UNCHANGED <<calls, answermode, tmr_alert>>

----------------------------------------------------------------------------
Next ==
  \/ NotifierClosed
  \/ \E c \in Call :
       \/ Dial(c) \/ Incoming(c) \/ Answer(c) \/ Hangup(c) \/ InviteTimeout(c)
       \/ MnatDone(c) \/ MnatFailed(c) \/ Established(c) \/ SessionClosed(c)
       \/ AudioError(c) \/ Refer(c)
       \/ \E code \in {180, 181, 183}, media \in BOOLEAN : Progress(c, code, media)

Spec == Init /\ [][Next]_vars

----------------------------------------------------------------------------
(* struct call and the list of calls are well formed. *)
TypeOK ==
  /\ call \in [Call -> CallObject]
  /\ Range(calls) = Taken /\ Len(calls) = Cardinality(Taken)
  /\ answermode \in AnswerMode
  /\ tmr_alert \in BOOLEAN
  /\ not \in [state : {"none", "active", "over"}, arg : Call \cup {"none"}]

(* An incoming call has its time limit from the first moment until it is   *)
(* established or gone, whatever medianat, early media and answers that    *)
(* fail do in between; no other call has one.                              *)
RingsTimed ==
  /\ TypeOK
  /\ \A c \in Call : (call[c].state = "INCOMING") <=> call[c].tmr_inv

(* What is heard fits the call: tones of an incoming call only before it   *)
(* is established, ringback never together with media, full media exactly  *)
(* in an established call, in every order of progress, answers and         *)
(* medianat.                                                               *)
SoundFits == \A c \in Call :
  /\ call[c].play \in {"ring", "callwaiting"} => call[c].state = "INCOMING"
  /\ call[c].play = "ringback" => call[c].sess = "calling" /\ call[c].media = "off"
  /\ (call[c].media = "active") <=> (call[c].state = "ESTABLISHED")
  /\ call[c].state = "ESTABLISHED" => call[c].play = "off"

(* A call without a session is an outgoing one that waits for medianat, or *)
(* one whose INVITE could not be sent afterwards (mnat_handler drops that  *)
(* error); every other call has a session that will report its end.        *)
SessionBehind == \A c \in Taken :
  call[c].sess = "none" =>
    call[c].state = "OUTGOING" /\ call[c].mnat \in {"gathering", "unsent"}

(* The alert timer runs for an incoming call. *)
AlertForIncoming == tmr_alert => \E c \in Call : call[c].state = "INCOMING"

(* The call that the close handler of the notifier works on exists: it is  *)
(* the call that the REFER came for and still has the notifier.            *)
CloseHandlerValid == not.state = "active" => call[not.arg].not

(* Incoming calls do not ring for ever, the sounds fit what the call is    *)
(* doing, and a call has its session (call.c and ua.c).                    *)
CallsSafe == RingsTimed /\ SoundFits /\ SessionBehind
=============================================================================
