----------------------------- MODULE CallProofs -----------------------------
(***************************************************************************)
(* Proofs about what MCCalls checks: the calls of a user agent, the        *)
(* dialogs of a forked request, and presence; and about what MCDevices     *)
(* checks of the devices of calls: the mixers, which make a conference of  *)
(* several, the sound of Windows, the displays and the radio.              *)
(***************************************************************************)
EXTENDS Calls, SipDialog, Presence, Mixers, Devices, SequenceTheorems, FiniteSetTheorems,
        WellFoundedInduction, TLAPS

(* A finite set gains one element, or loses one. *)
LEMMA OneMoreElement ==
  ASSUME NEW S, IsFiniteSet(S), NEW x, x \notin S
  PROVE  Cardinality(S \cup {x}) = Cardinality(S) + 1 /\ Cardinality(S) \in Nat
BY FS_AddElement, FS_CardinalityType

LEMMA OneLessElement ==
  ASSUME NEW S, IsFiniteSet(S), NEW x \in S
  PROVE  Cardinality(S \ {x}) = Cardinality(S) - 1 /\ Cardinality(S) \in Nat
BY FS_RemoveElement, FS_CardinalityType

----------------------------------------------------------------------------
(* Calls *)

(* A member of a list is taken out (list_unlink). *)
LEMMA Removed ==
  ASSUME NEW S, NEW f \in Seq(S), NEW p \in 1 .. Len(f)
  PROVE  /\ RemoveAt(f, p) \in Seq(S) /\ Len(RemoveAt(f, p)) = Len(f) - 1
         /\ \A i \in 1 .. Len(f) - 1 :
              RemoveAt(f, p)[i] = IF i < p THEN f[i] ELSE f[i + 1]
<1>1. Len(f) \in Nat
  BY LenProperties
<1>2. Len(RemoveAt(f, p)) = Len(f) - 1
  <2>1. Len(SubSeq(f, 1, p - 1)) = p - 1 /\ SubSeq(f, 1, p - 1) \in Seq(S)
    BY <1>1
  <2>2. Len(SubSeq(f, p + 1, Len(f))) = Len(f) - p /\ SubSeq(f, p + 1, Len(f)) \in Seq(S)
    BY <1>1
  <2>3. Len(RemoveAt(f, p)) = Len(SubSeq(f, 1, p - 1)) + Len(SubSeq(f, p + 1, Len(f)))
    BY <2>1, <2>2, ConcatProperties DEF RemoveAt
  <2>4. (p - 1) + (Len(f) - p) = Len(f) - 1
    BY <1>1
  <2> QED
    BY <2>1, <2>2, <2>3, <2>4
<1>3. \A i \in 1 .. Len(f) - 1 : RemoveAt(f, p)[i] = IF i < p THEN f[i] ELSE f[i + 1]
  <2> TAKE i \in 1 .. Len(f) - 1
  <2>1. CASE i < p
    <3> DEFINE a == SubSeq(f, 1, p - 1)
               b == SubSeq(f, p + 1, Len(f))
    <3>1. a \in Seq(S) /\ b \in Seq(S) /\ RemoveAt(f, p) = a \o b
      BY <1>1 DEF RemoveAt
    <3>2. Len(a) = p - 1 /\ Len(b) = Len(f) - p /\ a[i] = f[i]
      BY <1>1, <2>1
    <3> HIDE DEF a, b
    <3>3. i \in 1 .. Len(a) + Len(b) /\ i <= Len(a)
      BY <1>1, <2>1, <3>2
    <3>4. (a \o b)[i] = a[i]
      BY <3>1, <3>3, ConcatProperties
    <3> QED
      BY <2>1, <3>1, <3>2, <3>4
  <2>2. CASE ~(i < p)
    <3>1. Len(SubSeq(f, 1, p - 1)) = p - 1 /\ ~(i <= p - 1)
      BY <1>1, <2>2
    <3>2. i - (p - 1) \in 1 .. Len(f) - p /\ (p + 1) + (i - (p - 1)) - 1 = i + 1
      BY <1>1, <2>2
    <3>3. Len(SubSeq(f, p + 1, Len(f))) = Len(f) - p
      BY <1>1
    <3>4. RemoveAt(f, p)[i] = SubSeq(f, p + 1, Len(f))[i - (p - 1)]
      <4> DEFINE a == SubSeq(f, 1, p - 1)
                 b == SubSeq(f, p + 1, Len(f))
      <4>1. a \in Seq(S) /\ b \in Seq(S) /\ RemoveAt(f, p) = a \o b
        BY <1>1 DEF RemoveAt
      <4>2. Len(a) = p - 1 /\ Len(b) = Len(f) - p
        BY <3>1, <3>3
      <4> HIDE DEF a, b
      <4>3. \A j \in 1 .. Len(a) + Len(b) :
              (a \o b)[j] = IF j <= Len(a) THEN a[j] ELSE b[j - Len(a)]
        BY <4>1, ConcatProperties
      <4>4. i \in 1 .. Len(a) + Len(b)
        BY <1>1, <4>2
      <4>5. RemoveAt(f, p)[i] = b[i - (p - 1)]
        BY <3>1, <4>1, <4>2, <4>3, <4>4
      <4> QED
        BY <4>5 DEF b
    <3>5. SubSeq(f, p + 1, Len(f))[i - (p - 1)] = f[(p + 1) + (i - (p - 1)) - 1]
      BY <1>1, <3>2
    <3> QED
      BY <2>2, <3>2, <3>4, <3>5
  <2> QED
    BY <2>1, <2>2
<1>4. RemoveAt(f, p) \in Seq(S)
  BY DEF RemoveAt
<1> QED
  BY <1>2, <1>3, <1>4

(* A list l holds each member of S once. *)
Lists(l, S) ==
  /\ l \in Seq(S)
  /\ \A x \in S : \E i \in 1 .. Len(l) : l[i] = x
  /\ \A i, j \in 1 .. Len(l) : l[i] = l[j] => i = j

LEMMA ListsCount ==
  ASSUME NEW S, NEW l, Lists(l, S)
  PROVE  Range(l) = S /\ Len(l) = Cardinality(S)
<1>1. Len(l) \in Nat /\ DOMAIN l = 1 .. Len(l) /\ \A i \in 1 .. Len(l) : l[i] \in S
  BY LenProperties, ElementOfSeq DEF Lists
<1>2. Range(l) = S
  BY <1>1 DEF Lists, Range
<1>3. l \in Bijection(1 .. Len(l), S)
  BY <1>1 DEF Lists, Bijection, Injection, Surjection, IsInjective
<1>4. ExistsBijection(1 .. Len(l), S)
  BY <1>3 DEF ExistsBijection
<1> QED
  BY <1>1, <1>2, <1>4, FS_CountingElements

LEMMA ListsAppend ==
  ASSUME NEW S, NEW l, Lists(l, S), NEW x, x \notin S
  PROVE  Lists(Append(l, x), S \cup {x})
<1> DEFINE m == Append(l, x)
<1>1. Len(l) \in Nat /\ \A i \in 1 .. Len(l) : l[i] \in S
  BY LenProperties, ElementOfSeq DEF Lists
<1>2. l \in Seq(S \cup {x})
  BY DEF Lists
<1>3. /\ m \in Seq(S \cup {x}) /\ Len(m) = Len(l) + 1
      /\ \A i \in 1 .. Len(l) : m[i] = l[i]
      /\ m[Len(l) + 1] = x
  BY <1>2, AppendProperties
<1> HIDE DEF m
<1>4. \A i \in 1 .. Len(m) : i \in 1 .. Len(l) \/ i = Len(l) + 1
  BY <1>1, <1>3
<1>5. \A i \in 1 .. Len(l) : i \in 1 .. Len(m)
  BY <1>1, <1>3
<1>6. Len(l) + 1 \in 1 .. Len(m)
  BY <1>1, <1>3
<1>7. \A y \in S \cup {x} : \E i \in 1 .. Len(m) : m[i] = y
  BY <1>3, <1>5, <1>6 DEF Lists
<1>8. \A i, j \in 1 .. Len(m) : m[i] = m[j] => i = j
  BY <1>1, <1>3, <1>4 DEF Lists
<1> QED
  BY <1>3, <1>7, <1>8 DEF Lists, m

LEMMA ListsRemove ==
  ASSUME NEW S, NEW l, Lists(l, S), NEW p \in 1 .. Len(l)
  PROVE  Lists(RemoveAt(l, p), S \ {l[p]})
<1> DEFINE m == RemoveAt(l, p)
<1>1. Len(l) \in Nat /\ \A i \in 1 .. Len(l) : l[i] \in S
  BY LenProperties, ElementOfSeq DEF Lists
<1>2. /\ m \in Seq(S) /\ Len(m) = Len(l) - 1
      /\ \A i \in 1 .. Len(l) - 1 : m[i] = IF i < p THEN l[i] ELSE l[i + 1]
  <2>1. l \in Seq(S)
    BY DEF Lists
  <2> QED
    BY <2>1, Removed
<1> HIDE DEF m
<1> DEFINE old(i) == IF i < p THEN i ELSE i + 1
<1>3. \A i \in 1 .. Len(m) : old(i) \in 1 .. Len(l) /\ old(i) # p /\ m[i] = l[old(i)]
  BY <1>1, <1>2
<1>4. \A i, j \in 1 .. Len(m) : old(i) = old(j) => i = j
  BY <1>1, <1>2
<1>5. \A j \in 1 .. Len(l) : j # p => \E i \in 1 .. Len(m) : old(i) = j
  <2> SUFFICES ASSUME NEW j \in 1 .. Len(l), j # p
               PROVE  \E i \in 1 .. Len(m) : old(i) = j
    OBVIOUS
  <2>1. CASE j < p
    <3>1. j \in 1 .. Len(m) /\ old(j) = j
      BY <1>1, <1>2, <2>1
    <3> QED
      BY <3>1
  <2>2. CASE j > p
    <3>1. j - 1 \in 1 .. Len(m) /\ old(j - 1) = j
      BY <1>1, <1>2, <2>2
    <3> QED
      BY <3>1
  <2> QED
    BY <1>1, <2>1, <2>2
<1> HIDE DEF old
<1>6. \A i, j \in 1 .. Len(l) : l[i] = l[j] => i = j
  BY DEF Lists
<1>7. \A i \in 1 .. Len(m) : m[i] \in S \ {l[p]}
  <2> TAKE i \in 1 .. Len(m)
  <2>1. old(i) \in 1 .. Len(l) /\ old(i) # p /\ m[i] = l[old(i)]
    BY <1>3
  <2> QED
    BY <1>1, <1>6, <2>1
<1>8. m \in Seq(S \ {l[p]})
  BY <1>2, <1>7
<1>9. \A x \in S \ {l[p]} : \E i \in 1 .. Len(m) : m[i] = x
  <2> SUFFICES ASSUME NEW x \in S \ {l[p]} PROVE \E i \in 1 .. Len(m) : m[i] = x
    OBVIOUS
  <2>1. PICK j \in 1 .. Len(l) : l[j] = x
    BY DEF Lists
  <2>2. PICK i \in 1 .. Len(m) : old(i) = j
    BY <1>5, <2>1
  <2> QED
    BY <1>3, <2>1, <2>2
<1>10. \A i, j \in 1 .. Len(m) : m[i] = m[j] => i = j
  <2> TAKE i, j \in 1 .. Len(m)
  <2>1. /\ old(i) \in 1 .. Len(l) /\ m[i] = l[old(i)]
        /\ old(j) \in 1 .. Len(l) /\ m[j] = l[old(j)]
    BY <1>3
  <2> QED
    BY <1>4, <1>6, <2>1
<1> QED
  BY <1>8, <1>9, <1>10 DEF Lists, m

(* What holds of every call object by itself: the timer, the sounds and    *)
(* the session fit its state, and a free one has none of them.             *)
CallFits(k) ==
  /\ k.state = "FREE" => k.sess = "none" /\ k.media = "off" /\ k.mnat = "none"
  /\ (k.state = "INCOMING") <=> k.tmr_inv
  /\ (k.state = "INCOMING") <=> (k.sess \in {"ringing", "answered"})
  /\ (k.state = "ESTABLISHED") <=> (k.sess = "estab")
  /\ k.sess = "none" =>
       k.state = "FREE" \/ (k.state = "OUTGOING" /\ k.mnat \in {"gathering", "unsent"})
  /\ k.play \in {"ring", "callwaiting"} => k.state = "INCOMING"
  /\ k.play = "ringback" => k.sess = "calling" /\ k.media = "off"
  /\ (k.media = "active") <=> (k.state = "ESTABLISHED")
  /\ k.state = "ESTABLISHED" => k.play = "off"

NotObject == [state : {"none", "active", "over"}, arg : Call \cup {"none"}]

(* The inductive invariant of the calls *)
CallInv ==
  /\ call \in [Call -> CallObject]
  /\ answermode \in AnswerMode /\ tmr_alert \in BOOLEAN
  /\ not \in NotObject
  /\ Lists(calls, Taken)
  /\ \A c \in Call : CallFits(call[c])

LEMMA CallsInitInv == Init => CallInv
<1> SUFFICES ASSUME Init PROVE CallInv
  OBVIOUS
<1>1. call \in [Call -> CallObject] /\ \A c \in Call : call[c] = NoCall
  BY DEF Init, NoCall, CallObject, State
<1>2. Taken = {}
  BY <1>1 DEF Taken, NoCall
<1>3. Lists(calls, Taken)
  BY <1>2 DEF Init, Lists
<1>4. CallFits(NoCall)
  BY DEF CallFits, NoCall
<1> QED
  BY <1>1, <1>3, <1>4 DEF Init, CallInv, NotObject, NoNot

(* A call is taken if its session, its timer, its media or its medianat    *)
(* says something.                                                         *)
LEMMA InUse ==
  ASSUME CallInv, NEW c \in Call,
         \/ call[c].sess # "none" \/ call[c].tmr_inv
         \/ call[c].media # "off" \/ call[c].mnat # "none" 
  PROVE  c \in Taken
BY DEF CallInv, CallFits, Taken, NoCall

(* A call that is taken changes and stays taken, the list does not change. *)
LEMMA CallChanged ==
  ASSUME CallInv, NEW c \in Taken, NEW k \in CallObject, CallFits(k), k.state # "FREE",
         call' = [call EXCEPT ![c] = k], UNCHANGED <<calls, answermode>>,
         tmr_alert' \in BOOLEAN, not' \in NotObject
  PROVE  CallInv'
<1>1. c \in Call /\ call[c].state # "FREE"
  BY DEF Taken
<1>2. Taken' = Taken
  BY <1>1 DEF Taken, CallInv
<1>3. Lists(calls, Taken)'
  BY <1>2 DEF CallInv, Lists
<1>4. call' \in [Call -> CallObject] /\ \A d \in Call : CallFits(call'[d])
  BY DEF CallInv
<1> QED
  BY <1>3, <1>4 DEF CallInv

(* A free call object is taken into use. *)
LEMMA CallTaken ==
  ASSUME CallInv, NEW c \in Call \ Taken, NEW k \in CallObject, CallFits(k),
         k.state # "FREE", call' = [call EXCEPT ![c] = k], calls' = Append(calls, c),
         UNCHANGED answermode, tmr_alert' \in BOOLEAN, not' \in NotObject
  PROVE  CallInv'
<1>1. Taken' = Taken \cup {c}
  BY DEF Taken, CallInv
<1>2. Lists(calls', Taken \cup {c})
  BY ListsAppend DEF CallInv
<1>3. Lists(calls, Taken)'
  BY <1>1, <1>2 DEF Lists
<1>4. call' \in [Call -> CallObject] /\ \A d \in Call : CallFits(call'[d])
  BY DEF CallInv
<1> QED
  BY <1>3, <1>4 DEF CallInv

(* call_destructor *)
LEMMA CallFreed ==
  ASSUME CallInv, NEW c \in Call, call_destructor(c), UNCHANGED answermode,
         tmr_alert' \in BOOLEAN, not' \in NotObject
  PROVE  CallInv'
<1>1. PICK i \in DOMAIN calls : calls[i] = c /\ calls' = RemoveAt(calls, i)
  BY DEF call_destructor
<1>2. i \in 1 .. Len(calls)
  BY LenProperties DEF CallInv, Lists
<1>3. Lists(calls', Taken \ {c})
  BY <1>1, <1>2, ListsRemove DEF CallInv
<1>4. Taken' = Taken \ {c}
  BY DEF Taken, CallInv, call_destructor, NoCall
<1>5. Lists(calls, Taken)'
  BY <1>3, <1>4 DEF Lists
<1>6. NoCall \in CallObject /\ CallFits(NoCall)
  BY DEF CallFits, NoCall, CallObject, State
<1>7. call' \in [Call -> CallObject] /\ \A d \in Call : CallFits(call'[d])
  BY <1>6 DEF CallInv, call_destructor
<1> QED
  BY <1>5, <1>7 DEF CallInv

(* What the helpers of a transfer leave of the notifier is a notifier. *)
LEMMA NotTyped ==
  ASSUME not \in NotObject, NEW c
  PROVE  LetGo(not, {c}) \in NotObject /\ FinalNotify(not, c) \in NotObject
BY DEF LetGo, FinalNotify, NotObject

LEMMA ConnectFits ==
  ASSUME NEW mnat \in BOOLEAN
  PROVE  /\ call_connect(mnat) \in CallObject /\ CallFits(call_connect(mnat))
         /\ call_connect(mnat).state # "FREE"
BY DEF call_connect, NoCall, CallObject, CallFits, State

(* sipsess_answer on an incoming call, whose tone was stopped *)
LEMMA AnsweredFits ==
  ASSUME NEW k \in CallObject, CallFits(k), k.state = "INCOMING",
         NEW p \in Answered([k EXCEPT !.play = "off"])
  PROVE  p \in CallObject /\ CallFits(p) /\ p.state = "INCOMING"
<1> DEFINE a == [k EXCEPT !.play = "off"]
<1>1. a \in CallObject /\ CallFits(a) /\ a.state = "INCOMING"
  BY DEF CallObject, CallFits
<1> HIDE DEF a
<1>2. CASE p = a
  BY <1>1, <1>2
<1>3. CASE p = [a EXCEPT !.sess = IF @ = "ringing" THEN "answered" ELSE @]
  BY <1>1, <1>3 DEF CallObject, CallFits
<1> QED
  BY <1>2, <1>3 DEF Answered, a

LEMMA DialInv ==
  ASSUME CallInv, NEW c \in Call, Dial(c)
  PROVE  CallInv'
<1>1. PICK mnat \in Medianat : call' = [call EXCEPT ![c] = call_connect(mnat)]
  BY DEF Dial
<1>2. mnat \in BOOLEAN
  BY CallsAssumption
<1>3. /\ call_connect(mnat) \in CallObject /\ CallFits(call_connect(mnat))
      /\ call_connect(mnat).state # "FREE"
  BY <1>2, ConnectFits
<1> QED
  BY <1>1, <1>3, CallTaken DEF Dial, CallInv

(* sipsess_progr_handler: the call that progresses is an outgoing one. *)
LEMMA ProgressInv ==
  ASSUME CallInv, NEW c \in Call, NEW code \in {180, 181, 183}, NEW media \in BOOLEAN,
         Progress(c, code, media)
  PROVE  CallInv'
<1> DEFINE st == CASE code = 180 -> "RINGING" [] code = 183 -> "EARLY"
                   [] OTHER -> call[c].state
           a == [call[c] EXCEPT !.play = "off", !.state = st]
           k == call_stream_stop(a)
           q == IF media THEN call_stream_start(k, FALSE) ELSE [k EXCEPT !.play = "ringback"]
<1>1. /\ call[c] \in CallObject /\ CallFits(call[c]) /\ call[c].sess = "calling"
      /\ c \in Taken
  BY InUse DEF CallInv, Progress
<1>2. call[c].state \in {"OUTGOING", "RINGING", "EARLY"}
  BY <1>1 DEF CallFits, CallObject, State, NoCall
<1>3. st \in {"OUTGOING", "RINGING", "EARLY"}
  BY <1>2
<1>4. a = [call[c] EXCEPT !.play = "off", !.state = CASE code = 180 -> "RINGING"
             [] code = 183 -> "EARLY" [] OTHER -> call[c].state]
  OBVIOUS
<1>5. call' = [call EXCEPT ![c] = q]
  BY <1>1 DEF Progress, Only
<1> HIDE DEF st
<1>6. /\ a \in CallObject /\ a.state = st /\ a.play = "off" /\ a.sess = "calling"
      /\ a.mnat = call[c].mnat
  BY <1>1, <1>3 DEF CallObject, State
<1> HIDE DEF a
<1>7. /\ k \in CallObject /\ k.state = st /\ k.play = "off" /\ k.sess = "calling"
      /\ k.media = "off" /\ k.tmr_inv = FALSE
  BY <1>6 DEF CallObject, call_stream_stop
<1> HIDE DEF k
<1>8. /\ q \in CallObject /\ q.state = st /\ q.sess = "calling" /\ q.tmr_inv = FALSE
      /\ q.media # "active"
      /\ q.play = "off" \/ (q.play = "ringback" /\ q.media = "off")
  BY <1>7 DEF CallObject, call_stream_start
<1> HIDE DEF q
<1>9. CallFits(q) /\ q.state # "FREE"
  BY <1>3, <1>8 DEF CallFits
<1> QED
  BY <1>1, <1>5, <1>8, <1>9, CallChanged DEF Progress, Only, CallInv

(* CALL_EVENT_INCOMING leaves an incoming call. *)
LEMMA EventFits ==
  ASSUME NEW c \in Call, NEW k \in CallObject, CallFits(k), k.state = "INCOMING",
         NEW n \in Nat, tmr_alert \in BOOLEAN, not \in NotObject, IncomingEvent(c, k, n)
  PROVE  /\ UNCHANGED answermode /\ tmr_alert' \in BOOLEAN /\ not' \in NotObject
         /\ \E q \in CallObject : /\ CallFits(q) /\ q.state = "INCOMING"
                                  /\ call' = [call EXCEPT ![c] = q]
<1>1. UNCHANGED answermode /\ tmr_alert' \in BOOLEAN /\ not' \in NotObject
  BY DEF IncomingEvent
<1>2. CASE \E p \in {k, call_stream_start(k, FALSE)} : call' = [call EXCEPT ![c] = p]
  <2>1. call_stream_start(k, FALSE) \in CallObject /\ CallFits(call_stream_start(k, FALSE))
        /\ call_stream_start(k, FALSE).state = "INCOMING"
    BY DEF call_stream_start, CallObject, CallFits
  <2> QED
    BY <1>1, <1>2, <2>1
<1>3. CASE \E p \in Answered([k EXCEPT !.play = "off"]) : call' = [call EXCEPT ![c] = p]
  BY <1>1, <1>3, AnsweredFits
<1>4. CASE call' = [call EXCEPT ![c] =
                      [k EXCEPT !.play = IF n > 1 THEN "callwaiting" ELSE "ring"]]
  <2> DEFINE tone == IF n > 1 THEN "callwaiting" ELSE "ring"
             q == [k EXCEPT !.play = tone]
  <2>1. tone \in {"ring", "callwaiting"}
    OBVIOUS
  <2> HIDE DEF tone
  <2>2. q \in CallObject /\ CallFits(q) /\ q.state = "INCOMING"
    BY <2>1 DEF CallObject, CallFits
  <2>3. call' = [call EXCEPT ![c] = q]
    BY <1>4 DEF tone
  <2> QED
    BY <1>1, <2>2, <2>3
<1> QED
  BY <1>2, <1>3, <1>4 DEF IncomingEvent

LEMMA IncomingInv ==
  ASSUME CallInv, NEW c \in Call, Incoming(c)
  PROVE  CallInv'
<1>1. PICK mnat \in Medianat :
        IF mnat
        THEN /\ call' = [call EXCEPT ![c] = call_accept(mnat)]
             /\ UNCHANGED <<answermode, tmr_alert, not>>
        ELSE IncomingEvent(c, call_accept(mnat), Len(calls) + 1)
  BY DEF Incoming
<1> DEFINE k == call_accept(mnat)
<1>2. mnat \in BOOLEAN /\ Len(calls) + 1 \in Nat
  BY CallsAssumption, LenProperties DEF CallInv, Lists
<1>3. k \in CallObject /\ CallFits(k) /\ k.state = "INCOMING"
  BY <1>2 DEF call_accept, NoCall, CallObject, CallFits, State
<1> HIDE DEF k
<1>4. /\ UNCHANGED answermode /\ tmr_alert' \in BOOLEAN /\ not' \in NotObject
      /\ \E q \in CallObject : /\ CallFits(q) /\ q.state = "INCOMING"
                               /\ call' = [call EXCEPT ![c] = q]
  <2>1. CASE mnat
    BY <1>1, <1>3, <2>1 DEF k, CallInv
  <2>2. CASE ~mnat
    <3>1. IncomingEvent(c, k, Len(calls) + 1)
      BY <1>1, <2>2 DEF k
    <3> QED
      BY <1>2, <1>3, <3>1, EventFits DEF CallInv
  <2> QED
    BY <1>2, <2>1, <2>2
<1>5. PICK q \in CallObject : /\ CallFits(q) /\ q.state = "INCOMING"
                              /\ call' = [call EXCEPT ![c] = q]
  BY <1>4
<1> QED
  BY <1>4, <1>5, CallTaken DEF Incoming

LEMMA AnswerInv ==
  ASSUME CallInv, NEW c \in Call, Answer(c)
  PROVE  CallInv'
<1>1. /\ call[c] \in CallObject /\ CallFits(call[c]) /\ call[c].state = "INCOMING"
      /\ c \in Taken
  BY DEF CallInv, Answer, Taken
<1>2. PICK k \in Answered([call[c] EXCEPT !.play = "off"]) : Only(c, k)
  BY DEF Answer
<1>3. k \in CallObject /\ CallFits(k) /\ k.state = "INCOMING"
  BY <1>1, <1>2, AnsweredFits
<1> QED
  BY <1>1, <1>2, <1>3, CallChanged DEF Only, CallInv

(* mnat_handler *)
LEMMA MnatDoneInv ==
  ASSUME CallInv, NEW c \in Call, MnatDone(c)
  PROVE  CallInv'
<1> DEFINE k == [call[c] EXCEPT !.mnat = "done"]
<1>1. /\ call[c] \in CallObject /\ CallFits(call[c]) /\ call[c].mnat = "gathering"
      /\ c \in Taken
  BY InUse DEF CallInv, MnatDone
<1>2. /\ k \in CallObject /\ k.state = call[c].state /\ k.sess = call[c].sess
      /\ k.media = call[c].media /\ k.play = call[c].play /\ k.tmr_inv = call[c].tmr_inv
      /\ k.mnat = "done"
  BY <1>1 DEF CallObject
<1>3. k.state # "FREE"
  BY <1>1, <1>2 DEF Taken
<1>4. \/ k.state = "OUTGOING" /\ Only(c, [k EXCEPT !.sess = "calling"])
      \/ k.state = "OUTGOING" /\ Only(c, [k EXCEPT !.mnat = "unsent"])
      \/ k.state = "INCOMING" /\ IncomingEvent(c, k, Len(calls)) /\ UNCHANGED calls
      \/ k.state \notin {"OUTGOING", "INCOMING"} /\ Only(c, k)
  BY DEF MnatDone
<1> HIDE DEF k
<1>5. ASSUME NEW q \in CallObject, CallFits(q), q.state # "FREE", Only(c, q)
      PROVE  CallInv'
  BY <1>1, <1>5, CallChanged DEF Only, CallInv
<1>6. CASE k.state = "OUTGOING" /\ Only(c, [k EXCEPT !.sess = "calling"])
  <2> DEFINE q == [k EXCEPT !.sess = "calling"]
  <2>1. /\ q \in CallObject /\ q.sess = "calling" /\ q.state = "OUTGOING"
        /\ q.media = k.media /\ q.play = k.play /\ q.tmr_inv = k.tmr_inv
    BY <1>2, <1>6 DEF CallObject
  <2>2. CallFits(q)
    BY <1>1, <1>2, <1>6, <2>1 DEF CallFits
  <2> QED
    BY <1>5, <1>6, <2>1, <2>2
<1>7. CASE k.state = "OUTGOING" /\ Only(c, [k EXCEPT !.mnat = "unsent"])
  <2> DEFINE q == [k EXCEPT !.mnat = "unsent"]
  <2>1. /\ q \in CallObject /\ q.sess = k.sess /\ q.state = "OUTGOING"
        /\ q.media = k.media /\ q.play = k.play /\ q.tmr_inv = k.tmr_inv
        /\ q.mnat = "unsent"
    BY <1>2, <1>7 DEF CallObject
  <2>2. CallFits(q)
    BY <1>1, <1>2, <1>7, <2>1 DEF CallFits
  <2> QED
    BY <1>5, <1>7, <2>1, <2>2
<1>8. ASSUME k.state # "OUTGOING"
      PROVE  CallFits(k)
  BY <1>1, <1>2, <1>3, <1>8 DEF CallFits
<1>9. CASE k.state = "INCOMING" /\ IncomingEvent(c, k, Len(calls)) /\ UNCHANGED calls
  <2>1. Len(calls) \in Nat
    BY LenProperties DEF CallInv, Lists
  <2>2. /\ UNCHANGED answermode /\ tmr_alert' \in BOOLEAN /\ not' \in NotObject
        /\ \E q \in CallObject : /\ CallFits(q) /\ q.state = "INCOMING"
                                 /\ call' = [call EXCEPT ![c] = q]
    BY <1>2, <1>8, <1>9, <2>1, EventFits DEF CallInv
  <2>3. PICK q \in CallObject : /\ CallFits(q) /\ q.state = "INCOMING"
                                /\ call' = [call EXCEPT ![c] = q]
    BY <2>2
  <2> QED
    BY <1>1, <1>9, <2>2, <2>3, CallChanged
<1>10. CASE k.state \notin {"OUTGOING", "INCOMING"} /\ Only(c, k)
  BY <1>2, <1>3, <1>5, <1>8, <1>10
<1> QED
  BY <1>4, <1>6, <1>7, <1>9, <1>10

(* sipsess_estab_handler *)
LEMMA EstablishedInv ==
  ASSUME CallInv, NEW c \in Call, Established(c)
  PROVE  CallInv'
<1> DEFINE a == [call[c] EXCEPT !.state = "ESTABLISHED", !.sess = "estab",
                                !.play = "off", !.not = FALSE]
           q == call_stream_start(a, TRUE)
<1>1. call[c] \in CallObject /\ c \in Taken
  BY InUse DEF CallInv, Established
<1>2. call' = [call EXCEPT ![c] = q]
  BY DEF Established
<1>3. /\ a \in CallObject /\ a.state = "ESTABLISHED" /\ a.sess = "estab"
      /\ a.play = "off"
  BY <1>1 DEF CallObject, State
<1> HIDE DEF a
<1>4. /\ q \in CallObject /\ q.state = "ESTABLISHED" /\ q.sess = "estab"
      /\ q.play = "off" /\ q.media = "active" /\ q.tmr_inv = FALSE
  BY <1>3 DEF CallObject, call_stream_start
<1> HIDE DEF q
<1>5. CallFits(q)
  BY <1>4 DEF CallFits
<1> QED
  BY <1>1, <1>2, <1>4, <1>5, CallChanged, NotTyped DEF Established, CallInv

(* The ways a call ends *)
LEMMA EndInv ==
  ASSUME CallInv, NEW c \in Call,
         \/ InviteTimeout(c) \/ MnatFailed(c) \/ SessionClosed(c)
         \/ AudioError(c) \/ Hangup(c)
  PROVE  CallInv'
<1>1. /\ call_destructor(c) /\ UNCHANGED answermode /\ tmr_alert' \in BOOLEAN
      /\ not' \in {LetGo(not, {c}), FinalNotify(not, c)}
  BY DEF InviteTimeout, MnatFailed, SessionClosed, AudioError, Hangup, Closed, CallInv
<1>2. not' \in NotObject
  BY <1>1, NotTyped DEF CallInv
<1> QED
  BY <1>1, <1>2, CallFreed

(* A call that has or loses the notifier fits as it did. *)
LEMMA NotifierFits ==
  ASSUME NEW k \in CallObject, CallFits(k), NEW h \in BOOLEAN
  PROVE  /\ [k EXCEPT !.not = h] \in CallObject /\ CallFits([k EXCEPT !.not = h])
         /\ [k EXCEPT !.not = h].state = k.state
<1> DEFINE q == [k EXCEPT !.not = h]
<1>1. /\ q \in CallObject /\ q.state = k.state /\ q.sess = k.sess /\ q.media = k.media
      /\ q.play = k.play /\ q.tmr_inv = k.tmr_inv /\ q.mnat = k.mnat
  BY DEF CallObject
<1> HIDE DEF q
<1>2. CallFits(q)
  BY <1>1 DEF CallFits
<1> QED
  BY <1>1, <1>2 DEF q

LEMMA ReferInv ==
  ASSUME CallInv, NEW c \in Call, Refer(c)
  PROVE  CallInv'
<1>1. CASE UNCHANGED <<call, calls>> /\ not' = [state |-> "over", arg |-> c]
  <2>1. Taken' = Taken
    BY <1>1 DEF Taken
  <2> QED
    BY <1>1, <2>1 DEF Refer, CallInv, NotObject, Lists
<1>2. ASSUME NEW d \in Call \ Taken, NEW mnat \in Medianat,
             call' = [call EXCEPT ![c].not = TRUE,
                                  ![d] = [call_connect(mnat) EXCEPT !.not = TRUE]],
             calls' = Append(calls, d), not' = [state |-> "active", arg |-> c]
      PROVE  CallInv'
  <2> DEFINE k == [call[c] EXCEPT !.not = TRUE]
             q == [call_connect(mnat) EXCEPT !.not = TRUE]
  <2>1. /\ call[c] \in CallObject /\ CallFits(call[c]) /\ c \in Taken /\ c # d
        /\ call[c].state # "FREE"
    BY InUse DEF CallInv, Refer, Taken
  <2>2. k \in CallObject /\ CallFits(k) /\ k.state # "FREE"
    BY <2>1, NotifierFits
  <2>3. mnat \in BOOLEAN
    BY CallsAssumption
  <2>4. q \in CallObject /\ CallFits(q) /\ q.state # "FREE"
    BY <2>3, ConnectFits, NotifierFits
  <2>5. call' = [[call EXCEPT ![c] = k] EXCEPT ![d] = q]
    BY <1>2, <2>1 DEF CallInv
  <2> HIDE DEF k, q
  <2>6. call' \in [Call -> CallObject] /\ \A x \in Call : CallFits(call'[x])
    BY <2>1, <2>2, <2>4, <2>5 DEF CallInv
  <2>7. Taken' = Taken \cup {d}
    BY <2>1, <2>2, <2>4, <2>5 DEF Taken, CallInv
  <2>8. Lists(calls', Taken \cup {d})
    BY <1>2, ListsAppend DEF CallInv
  <2>9. Lists(calls, Taken)'
    BY <2>7, <2>8 DEF Lists
  <2> QED
    BY <1>2, <2>6, <2>9 DEF Refer, CallInv, NotObject
<1> QED
  BY <1>1, <1>2 DEF Refer

LEMMA NotifierClosedInv ==
  ASSUME CallInv, NotifierClosed
  PROVE  CallInv'
<1>1. not' \in NotObject
  BY DEF CallInv, NotifierClosed, NotObject
<1>2. \A c \in Call : /\ call'[c] \in CallObject /\ CallFits(call'[c])
                      /\ call'[c].state = call[c].state
  <2> SUFFICES ASSUME NEW c \in Call
               PROVE  /\ call'[c] \in CallObject /\ CallFits(call'[c])
                      /\ call'[c].state = call[c].state
    OBVIOUS
  <2>1. call'[c] = call[c] \/ call'[c] = [call[c] EXCEPT !.not = FALSE]
    BY DEF CallInv, NotifierClosed
  <2> QED
    BY <2>1, NotifierFits DEF CallInv
<1>3. Taken' = Taken
  BY <1>2 DEF Taken
<1>4. call' \in [Call -> CallObject]
  BY <1>2 DEF CallInv, NotifierClosed
<1> QED
  BY <1>1, <1>2, <1>3, <1>4 DEF CallInv, NotifierClosed, Lists

(* call.c and ua.c: the list holds each call that exists once, an incoming *)
(* call has its time limit until it is established or gone, what is heard  *)
(* fits the state of the call, and a call without a session waits for      *)
(* medianat or could not send its INVITE.                                  *)
THEOREM CallsKept == Spec => []CallsSafe
<1>1. Init => CallInv
  BY CallsInitInv
<1>2. CallInv /\ [Next]_vars => CallInv'
  <2> SUFFICES ASSUME CallInv, [Next]_vars
               PROVE  CallInv'
    OBVIOUS
  <2>1. CASE UNCHANGED vars
    <3>1. Taken' = Taken
      BY <2>1 DEF vars, Taken
    <3> QED
      BY <2>1, <3>1 DEF vars, CallInv, Lists
  <2>2. CASE Next
    BY <2>2, NotifierClosedInv, DialInv, IncomingInv, AnswerInv, EndInv, MnatDoneInv,
       EstablishedInv, ReferInv, ProgressInv DEF Next
  <2> QED
    BY <2>1, <2>2
<1>3. CallInv => CallsSafe
  <2> SUFFICES ASSUME CallInv PROVE CallsSafe
    OBVIOUS
  <2>1. TypeOK
    BY ListsCount DEF CallInv, TypeOK, NotObject
  <2>2. RingsTimed /\ SoundFits
    BY <2>1 DEF CallInv, CallFits, RingsTimed, SoundFits
  <2>3. SessionBehind
    BY DEF CallInv, CallFits, SessionBehind, Taken
  <2> QED
    BY <2>2, <2>3 DEF CallsSafe
<1> QED
  BY <1>1, <1>2, <1>3, PTL DEF Spec

----------------------------------------------------------------------------
(* Dialogs *)

LEMMA ReverseTwice ==
  ASSUME NEW S, NEW s \in Seq(S)
  PROVE  Reverse(s) \in Seq(S) /\ Reverse(Reverse(s)) = s
<1>1. Reverse(s) \in Seq(S) /\ Len(Reverse(s)) = Len(s)
  BY DEF Reverse
<1>2. Reverse(Reverse(s)) = s
  BY <1>1 DEF Reverse
<1> QED
  BY <1>1, <1>2

DlgTag == Uas \cup {"A", NoTag}

DlgRecord ==
  [up : BOOLEAN, ltag : DlgTag, rtag : DlgTag, routes : Seq(Proxies),
   hop : {"mb", "uri", "freed"}, lseq : Nat, rseq : Nat, half : BOOLEAN]

DlgMsg ==
  [req : BOOLEAN, from : DlgTag, to : DlgTag, cseq : Nat, rr : Seq(Proxies), dst : DlgTag]

(* A message on the way between A and f: the first request, or one of the  *)
(* four kinds of their dialog, which f has accepted by then.               *)
MailOf(m, f) ==
  \/ m.req /\ m.from = "A" /\ m.to = NoTag /\ m.rr = Reverse(Path[f]) /\ m.dst = f
  \/ /\ udlg[f].up
     /\ \/ m.from = "A" /\ m.to = f /\ m.rr = Reverse(Path[f])
           /\ m.dst = (IF m.req THEN f ELSE "A")
        \/ m.from = f /\ m.to = "A" /\ m.rr = Path[f]
           /\ m.dst = (IF m.req THEN "A" ELSE f)

(* The dialog of f, and one of A: what it visits follows from the tag of   *)
(* the peer.                                                               *)
UasEnd(d, f) ==
  /\ d.ltag = f /\ d.rtag = "A"
  /\ d.routes = Reverse(Path[f]) /\ d.hop = HopOf(d.routes)

AEnd(d) ==
  /\ d.ltag = "A" /\ d.hop = HopOf(d.routes)
  /\ d.rtag # NoTag => /\ d.rtag \in Uas /\ udlg[d.rtag].up
                       /\ d.routes = Path[d.rtag]

ADlg == Uas \cup {First}

DlgTypes ==
  /\ forkh \in BOOLEAN
  /\ adlg \in [ADlg -> DlgRecord] /\ udlg \in [Uas -> DlgRecord]
  /\ mail \subseteq DlgMsg

(* With copies the first dialog stays open, and each copy is of the peer   *)
(* it is kept for; without them there is the first one only.               *)
Copies ==
  /\ forkh => adlg[First].half /\ adlg[First].rtag = NoTag
  /\ \A f \in Uas : adlg[f].up => forkh /\ adlg[f].rtag = f

(* The inductive invariant of the dialogs *)
DlgInv ==
  /\ DlgTypes /\ Copies
  /\ \A m \in mail : \E f \in Uas : MailOf(m, f)
  /\ \A f \in Uas : udlg[f].up => UasEnd(udlg[f], f)
  /\ \A x \in ADlg : adlg[x].up => AEnd(adlg[x])

(* Two dialogs are alike if they differ in the numbers of requests only. *)
Alike(d, e) ==
  /\ e.up = d.up /\ e.ltag = d.ltag /\ e.rtag = d.rtag
  /\ e.routes = d.routes /\ e.hop = d.hop /\ e.half = d.half

LEMMA PathTyped ==
  ASSUME NEW f \in Uas
  PROVE  /\ Path[f] \in Seq(Proxies) /\ Reverse(Path[f]) \in Seq(Proxies)
         /\ Reverse(Reverse(Path[f])) = Path[f]
         /\ f # "A" /\ f # NoTag /\ f # First
BY DlgAssumption, ReverseTwice DEF NoTag, First

LEMMA EncodeAlike ==
  ASSUME NEW d \in DlgRecord
  PROVE  Encode(d) \in DlgRecord /\ Alike(d, Encode(d))
BY DEF Encode, DlgRecord, Alike

LEMMA HandledAlike ==
  ASSUME NEW d \in DlgRecord, NEW m \in DlgMsg
  PROVE  HandledBy(d, m) \in DlgRecord /\ Alike(d, HandledBy(d, m))
<1>1. ASSUME NEW e \in DlgRecord
      PROVE  sip_dialog_update(e, m) \in DlgRecord /\ Alike(e, sip_dialog_update(e, m))
  BY <1>1 DEF sip_dialog_update, HopOf, DlgRecord, Alike
<1> DEFINE e == [d EXCEPT !.rseq = m.cseq]
<1>2. e \in DlgRecord /\ Alike(d, e)
  BY DEF DlgRecord, DlgMsg, Alike
<1> HIDE DEF e
<1>3. sip_dialog_update(e, m) \in DlgRecord /\ Alike(d, sip_dialog_update(e, m))
  BY <1>1, <1>2 DEF Alike
<1>4. d \in DlgRecord /\ Alike(d, d)
  BY DEF Alike
<1>5. sip_dialog_update(d, m) \in DlgRecord /\ Alike(d, sip_dialog_update(d, m))
  BY <1>1
<1> QED
  BY <1>3, <1>4, <1>5 DEF HandledBy, e

LEMMA NoDlgTyped == NoDlg \in DlgRecord /\ ~NoDlg.up
<1>1. <<>> \in Seq(Proxies)
  OBVIOUS
<1> QED
  BY <1>1 DEF NoDlg, DlgRecord, DlgTag

(* sip_dialog_accept, and sip_dialog_create with its copy *)
LEMMA AcceptShape ==
  ASSUME NEW f \in Uas, NEW m \in DlgMsg, m.req, m.from = "A", m.rr = Reverse(Path[f])
  PROVE  /\ sip_dialog_accept(f, m) \in DlgRecord /\ sip_dialog_accept(f, m).up
         /\ UasEnd(sip_dialog_accept(f, m), f)
<1> DEFINE n == [NoDlg EXCEPT !.ltag = f, !.lseq = 1]
           e == DlgEstablished(n, m)
           q == [e EXCEPT !.rseq = m.cseq]
<1>1. n \in DlgRecord /\ n.ltag = f
  <2>1. NoDlg \in DlgRecord
    BY NoDlgTyped
  <2>2. [NoDlg EXCEPT !.ltag = f] \in DlgRecord /\ [NoDlg EXCEPT !.ltag = f].ltag = f
    BY <2>1 DEF DlgRecord, DlgTag
  <2>3. n = [[NoDlg EXCEPT !.ltag = f] EXCEPT !.lseq = 1]
    OBVIOUS
  <2> QED
    BY <2>2, <2>3 DEF DlgRecord
<1>2. Routes(m) = Reverse(Path[f]) /\ RemoteTag(m) = "A" /\ Routes(m) \in Seq(Proxies)
  BY PathTyped DEF Routes, RemoteTag
<1> HIDE DEF n
<1>3. /\ e \in DlgRecord /\ e.up /\ e.ltag = f /\ e.rtag = "A"
      /\ e.routes = Reverse(Path[f]) /\ e.hop = HopOf(Reverse(Path[f]))
  BY <1>1, <1>2 DEF DlgEstablished, DlgRecord, DlgTag, HopOf
<1> HIDE DEF e
<1>4. /\ q \in DlgRecord /\ q.up /\ q.ltag = f /\ q.rtag = "A"
      /\ q.routes = Reverse(Path[f]) /\ q.hop = HopOf(Reverse(Path[f]))
  BY <1>3 DEF DlgRecord, DlgMsg
<1>5. sip_dialog_accept(f, m) = q
  BY DEF sip_dialog_accept, e, n
<1> HIDE DEF q
<1> QED
  BY <1>4, <1>5 DEF UasEnd

LEMMA CreateShape ==
  ASSUME NEW d \in DlgRecord, NEW m \in DlgMsg, NEW f \in Uas, d.ltag = "A",
         RemoteTag(m) = f, Routes(m) = Path[f]
  PROVE  LET q == sip_dialog_create(d, m)
         IN /\ q \in DlgRecord /\ q.up /\ q.ltag = "A" /\ q.rtag = f
            /\ q.routes = Path[f] /\ q.hop = HopOf(Path[f])
<1> DEFINE e == DlgEstablished(d, m)
           n == IF m.req THEN m.cseq ELSE 0
           q == [e EXCEPT !.rseq = n]
<1>1. n \in Nat /\ Path[f] \in Seq(Proxies)
  BY PathTyped DEF DlgMsg
<1>2. /\ e \in DlgRecord /\ e.up /\ e.ltag = "A" /\ e.rtag = f
      /\ e.routes = Path[f] /\ e.hop = HopOf(Path[f])
  BY <1>1 DEF DlgEstablished, DlgRecord, DlgTag, HopOf
<1> HIDE DEF e, n
<1>3. /\ q \in DlgRecord /\ q.up /\ q.ltag = "A" /\ q.rtag = f
      /\ q.routes = Path[f] /\ q.hop = HopOf(Path[f])
  BY <1>1, <1>2 DEF DlgRecord
<1>4. sip_dialog_create(d, m) = q
  BY DEF sip_dialog_create, e, n
<1> HIDE DEF q
<1> QED
  BY <1>3, <1>4

(* What A hears of f tells it the tag and the routes of f, whichever       *)
(* message it is.                                                          *)
LEMMA HeardByA ==
  ASSUME NEW m \in DlgMsg, NEW f \in Uas, MailOf(m, f), m.dst = "A"
  PROVE  /\ RemoteTag(m) = f /\ LocalTag(m) = "A" /\ Routes(m) = Path[f] /\ udlg[f].up
         /\ \A a \in AnswerTo(m) : a \in DlgMsg /\ MailOf(a, f)
<1>1. udlg[f].up /\ f # "A"
  BY PathTyped DEF MailOf
<1>2. CASE m.req
  <2>1. m.from = f /\ m.to = "A" /\ m.rr = Path[f]
    BY <1>1, <1>2, PathTyped DEF MailOf
  <2>2. Msg(FALSE, m.from, m.to, m.cseq, m.rr, m.from) \in DlgMsg
    BY DEF Msg, DlgMsg
  <2>3. MailOf(Msg(FALSE, m.from, m.to, m.cseq, m.rr, m.from), f)
    BY <1>1, <2>1 DEF Msg, MailOf
  <2> QED
    BY <1>1, <1>2, <2>1, <2>2, <2>3 DEF RemoteTag, LocalTag, Routes, AnswerTo
<1>3. CASE ~m.req
  <2>1. m.from = "A" /\ m.to = f /\ m.rr = Reverse(Path[f])
    BY <1>1, <1>3, PathTyped DEF MailOf
  <2> QED
    BY <1>1, <1>3, <2>1, PathTyped DEF RemoteTag, LocalTag, Routes, AnswerTo
<1> QED
  BY <1>2, <1>3 DEF DlgMsg

LEMMA DlgInitInv == DlgInit => DlgInv
<1> SUFFICES ASSUME DlgInit PROVE DlgInv
  OBVIOUS
<1>1. PICK r \in {<<>>, <<"outbound">>} :
        adlg = [d \in Uas \cup {First} |->
                 IF d # First THEN NoDlg
                 ELSE [NoDlg EXCEPT !.up = TRUE, !.ltag = "A", !.routes = r,
                         !.hop = HopOf(r), !.lseq = 1, !.half = TRUE]]
  BY DEF DlgInit
<1> DEFINE d1 == [NoDlg EXCEPT !.up = TRUE, !.ltag = "A", !.half = TRUE]
           d2 == [d1 EXCEPT !.routes = r, !.hop = HopOf(r)]
           d3 == [d2 EXCEPT !.lseq = 1]
<1>2. r \in Seq(Proxies)
  <2>1. <<>> \in Seq(Proxies)
    OBVIOUS
  <2>2. "outbound" \in Proxies
    BY DEF Proxies
  <2>3. \A s \in Proxies : <<s>> \in Seq(Proxies)
    OBVIOUS
  <2> QED
    BY <2>1, <2>2, <2>3
<1>3. NoDlg.rtag = NoTag
  BY DEF NoDlg
<1>4. d1 \in DlgRecord /\ d1.up /\ d1.ltag = "A" /\ d1.half /\ d1.rtag = NoTag
  BY <1>3, NoDlgTyped DEF DlgRecord, DlgTag
<1>5. adlg[First] = d3
  BY <1>1 DEF NoDlg
<1> HIDE DEF d1
<1>6. /\ d2 \in DlgRecord /\ d2.up /\ d2.ltag = "A" /\ d2.half /\ d2.rtag = NoTag
      /\ d2.routes = r /\ d2.hop = HopOf(r)
  BY <1>2, <1>4 DEF DlgRecord, HopOf
<1> HIDE DEF d2
<1>7. /\ d3 \in DlgRecord /\ d3.up /\ d3.ltag = "A" /\ d3.half /\ d3.rtag = NoTag
      /\ d3.routes = r /\ d3.hop = HopOf(r)
  BY <1>6 DEF DlgRecord
<1> HIDE DEF d3
<1>8. \A f \in Uas : adlg[f] = NoDlg /\ f # First
  BY <1>1, PathTyped
<1>9. /\ \A x \in ADlg : adlg[x] \in DlgRecord
      /\ adlg \in [ADlg -> DlgRecord]
  BY <1>1, <1>5, <1>7, <1>8, NoDlgTyped DEF ADlg
<1>10. DlgTypes
  BY <1>9, NoDlgTyped DEF DlgInit, DlgTypes
<1>11. Copies
  BY <1>5, <1>7, <1>8, NoDlgTyped DEF Copies
<1>12. \A x \in ADlg : adlg[x].up => AEnd(adlg[x])
  BY <1>5, <1>7, <1>8, NoDlgTyped DEF AEnd, ADlg
<1> QED
  BY <1>10, <1>11, <1>12, NoDlgTyped DEF DlgInit, DlgInv

(* Numbers change at one end, and messages are added and taken away. *)
LEMMA NumbersOnly ==
  ASSUME DlgInv, UNCHANGED forkh,
         adlg' \in [ADlg -> DlgRecord], \A x \in ADlg : Alike(adlg[x], adlg'[x]),
         udlg' \in [Uas -> DlgRecord], \A f \in Uas : Alike(udlg[f], udlg'[f]),
         mail' \subseteq DlgMsg, \A m \in mail' : m \in mail \/ \E f \in Uas : MailOf(m, f)
  PROVE  DlgInv'
<1>1. DlgTypes'
  BY DEF DlgInv, DlgTypes
<1>2. Copies'
  BY DEF DlgInv, Copies, Alike, ADlg
<1>3. \A m \in mail' : \E f \in Uas : MailOf(m, f)'
  <2>1. \A m \in mail' : \E f \in Uas : MailOf(m, f)
    BY DEF DlgInv
  <2> QED
    BY <2>1 DEF MailOf, Alike
<1>4. \A f \in Uas : udlg'[f].up => UasEnd(udlg'[f], f)
  BY DEF DlgInv, UasEnd, Alike
<1>5. \A x \in ADlg : adlg'[x].up => AEnd(adlg[x])' 
  BY DEF DlgInv, AEnd, Alike
<1> QED
  BY <1>1, <1>2, <1>3, <1>4, <1>5 DEF DlgInv

LEMMA AlikeSelf == \A d : Alike(d, d)
BY DEF Alike

LEMMA FirstRequestInv ==
  ASSUME DlgInv, FirstRequest
  PROVE  DlgInv'
<1>1. First \in ADlg /\ adlg[First] \in DlgRecord
  BY DEF DlgInv, DlgTypes, ADlg
<1>2. Encode(adlg[First]) \in DlgRecord /\ Alike(adlg[First], Encode(adlg[First]))
  BY <1>1, EncodeAlike
<1>3. adlg' \in [ADlg -> DlgRecord] /\ \A x \in ADlg : Alike(adlg[x], adlg'[x])
  BY <1>1, <1>2, AlikeSelf DEF FirstRequest, DlgInv, DlgTypes
<1>4. \A f \in Uas : LET m == Msg(TRUE, "A", NoTag, adlg[First].lseq, Reverse(Path[f]), f)
                     IN m \in DlgMsg /\ MailOf(m, f)
  BY <1>1, PathTyped DEF Msg, DlgMsg, DlgTag, DlgRecord, MailOf
<1>5. mail' \subseteq DlgMsg /\ \A m \in mail' : m \in mail \/ \E f \in Uas : MailOf(m, f)
  BY <1>4 DEF FirstRequest, DlgInv, DlgTypes
<1> QED
  BY <1>3, <1>5, NumbersOnly, AlikeSelf DEF FirstRequest, DlgInv, DlgTypes

LEMMA LoseMailInv ==
  ASSUME DlgInv, LoseMail
  PROVE  DlgInv'
BY NumbersOnly, AlikeSelf DEF LoseMail, DlgInv, DlgTypes

(* A user agent accepts the first request only, which has come its way. *)
LEMMA AcceptInv ==
  ASSUME DlgInv, NEW f \in Uas, Accept(f)
  PROVE  DlgInv'
<1>1. PICK m \in mail : /\ m.dst = f /\ m.to = NoTag /\ ~udlg[f].up
                        /\ udlg' = [udlg EXCEPT ![f] = sip_dialog_accept(f, m)]
                        /\ mail' = mail \cup {Msg(FALSE, "A", f, m.cseq, m.rr, "A")}
                        /\ UNCHANGED <<forkh, adlg>>
  BY DEF Accept
<1>2. m \in DlgMsg /\ m.req /\ m.from = "A" /\ m.rr = Reverse(Path[f])
  <2>1. PICK g \in Uas : MailOf(m, g)
    BY DEF DlgInv
  <2> QED
    BY <1>1, <2>1, PathTyped DEF DlgInv, DlgTypes, MailOf
<1>3. /\ sip_dialog_accept(f, m) \in DlgRecord /\ sip_dialog_accept(f, m).up
      /\ UasEnd(sip_dialog_accept(f, m), f)
  BY <1>2, AcceptShape
<1>4. /\ udlg' \in [Uas -> DlgRecord] /\ udlg'[f].up /\ UasEnd(udlg'[f], f)
      /\ \A g \in Uas \ {f} : udlg'[g] = udlg[g]
  BY <1>1, <1>3 DEF DlgInv, DlgTypes
<1>5. \A g \in Uas : udlg[g].up => udlg'[g].up
  BY <1>4
<1> DEFINE a == Msg(FALSE, "A", f, m.cseq, m.rr, "A")
<1>6. a \in DlgMsg /\ MailOf(a, f)'
  BY <1>2, <1>4 DEF Msg, DlgMsg, DlgTag, MailOf
<1> HIDE DEF a
<1>7. \A x \in mail' : \E g \in Uas : MailOf(x, g)'
  <2>1. \A x \in mail : \E g \in Uas : MailOf(x, g)'
    BY <1>5 DEF DlgInv, MailOf
  <2> QED
    BY <1>1, <1>6, <2>1 DEF a
<1>8. DlgTypes'
  BY <1>1, <1>4, <1>6 DEF DlgInv, DlgTypes, a
<1>9. \A g \in Uas : udlg'[g].up => UasEnd(udlg'[g], g)
  BY <1>4 DEF DlgInv
<1>10. \A x \in ADlg : adlg'[x].up => AEnd(adlg[x])'
  BY <1>1, <1>5 DEF DlgInv, AEnd
<1> QED
  BY <1>1, <1>7, <1>8, <1>9, <1>10 DEF DlgInv, Copies

(* A request of A inside a dialog *)
LEMMA ARequestInv ==
  ASSUME DlgInv, NEW f \in Uas, DlgRequest("A", f)
  PROVE  DlgInv'
<1> DEFINE x == IF forkh THEN f ELSE First
<1>1. x \in ADlg
  BY DEF ADlg
<1>2. /\ adlg[x].up /\ adlg[x].rtag # NoTag
      /\ adlg' = [adlg EXCEPT ![x] = Encode(@)] /\ UNCHANGED <<udlg, forkh>>
      /\ mail' = mail \cup {Msg(TRUE, adlg[x].ltag, adlg[x].rtag, adlg[x].lseq,
                                Reverse(adlg[x].routes), adlg[x].rtag)}
  BY DEF DlgRequest
<1> HIDE DEF x
<1> DEFINE d == adlg[x]
           m == Msg(TRUE, d.ltag, d.rtag, d.lseq, Reverse(d.routes), d.rtag)
<1>3. d \in DlgRecord /\ AEnd(d) /\ d.rtag \in Uas
  BY <1>1, <1>2 DEF DlgInv, DlgTypes, AEnd
<1>4. Encode(d) \in DlgRecord /\ Alike(d, Encode(d))
  BY <1>3, EncodeAlike
<1>5. adlg' \in [ADlg -> DlgRecord] /\ \A y \in ADlg : Alike(adlg[y], adlg'[y])
  BY <1>1, <1>2, <1>4, AlikeSelf DEF DlgInv, DlgTypes
<1>6. m \in DlgMsg /\ MailOf(m, d.rtag)
  <2>1. Reverse(d.routes) = Reverse(Path[d.rtag]) /\ d.ltag = "A" /\ udlg[d.rtag].up
    BY <1>2, <1>3 DEF AEnd
  <2>2. d.lseq \in Nat /\ Reverse(Path[d.rtag]) \in Seq(Proxies)
    BY <1>3, PathTyped DEF DlgRecord
  <2> QED
    BY <1>3, <2>1, <2>2 DEF Msg, DlgMsg, DlgTag, MailOf
<1> HIDE DEF m
<1>7. mail' \subseteq DlgMsg /\ \A y \in mail' : y \in mail \/ \E g \in Uas : MailOf(y, g)
  BY <1>2, <1>3, <1>6 DEF DlgInv, DlgTypes, m
<1> QED
  BY <1>2, <1>5, <1>7, NumbersOnly, AlikeSelf DEF DlgInv, DlgTypes

(* ... and of a user agent *)
LEMMA UasRequestInv ==
  ASSUME DlgInv, NEW f \in Uas, DlgRequest(f, f)
  PROVE  DlgInv'
<1> DEFINE d == udlg[f]
           m == Msg(TRUE, d.ltag, d.rtag, d.lseq, Reverse(d.routes), "A")
<1>1. /\ d.up /\ udlg' = [udlg EXCEPT ![f] = Encode(@)] /\ UNCHANGED <<adlg, forkh>>
      /\ mail' = mail \cup {m}
  BY PathTyped DEF DlgRequest
<1>2. d \in DlgRecord /\ UasEnd(d, f)
  BY <1>1 DEF DlgInv, DlgTypes
<1>3. Encode(d) \in DlgRecord /\ Alike(d, Encode(d))
  BY <1>2, EncodeAlike
<1>4. udlg' \in [Uas -> DlgRecord] /\ \A g \in Uas : Alike(udlg[g], udlg'[g])
  BY <1>1, <1>3, AlikeSelf DEF DlgInv, DlgTypes
<1>5. m \in DlgMsg /\ MailOf(m, f)
  <2>1. Reverse(d.routes) = Path[f] /\ d.ltag = f /\ d.rtag = "A" /\ Path[f] \in Seq(Proxies)
    BY <1>2, PathTyped DEF UasEnd
  <2>2. d.lseq \in Nat
    BY <1>2 DEF DlgRecord
  <2> QED
    BY <1>1, <2>1, <2>2 DEF Msg, DlgMsg, DlgTag, MailOf
<1> HIDE DEF m
<1>6. mail' \subseteq DlgMsg /\ \A y \in mail' : y \in mail \/ \E g \in Uas : MailOf(y, g)
  BY <1>1, <1>5 DEF DlgInv, DlgTypes
<1> QED
  BY <1>1, <1>4, <1>6, NumbersOnly, AlikeSelf DEF DlgInv, DlgTypes

LEMMA UasReceivesInv ==
  ASSUME DlgInv, NEW f \in Uas, UasReceives(f)
  PROVE  DlgInv'
<1>1. PICK m \in mail :
        /\ m.dst = f /\ m.to # NoTag
        /\ udlg' = IF sip_dialog_cmp(udlg[f], m) THEN [udlg EXCEPT ![f] = HandledBy(@, m)]
                   ELSE udlg
        /\ mail' = (mail \ {m}) \cup (IF sip_dialog_cmp(udlg[f], m) THEN AnswerTo(m) ELSE {})
        /\ UNCHANGED <<forkh, adlg>>
  BY DEF UasReceives
<1>2. m \in DlgMsg /\ udlg[f] \in DlgRecord
  BY DEF DlgInv, DlgTypes
<1>3. HandledBy(udlg[f], m) \in DlgRecord /\ Alike(udlg[f], HandledBy(udlg[f], m))
  BY <1>2, HandledAlike
<1>4. udlg' \in [Uas -> DlgRecord] /\ \A g \in Uas : Alike(udlg[g], udlg'[g])
  BY <1>1, <1>3, AlikeSelf DEF DlgInv, DlgTypes
<1>5. \A a \in AnswerTo(m) : a \in DlgMsg /\ MailOf(a, f)
  <2>1. PICK g \in Uas : MailOf(m, g)
    BY DEF DlgInv
  <2>2. SUFFICES ASSUME m.req
                 PROVE  LET a == Msg(FALSE, m.from, m.to, m.cseq, m.rr, m.from)
                        IN a \in DlgMsg /\ MailOf(a, f)
    BY DEF AnswerTo
  <2>3. g = f /\ udlg[f].up /\ m.from = "A" /\ m.to = f /\ m.rr = Reverse(Path[f])
    BY <1>1, <2>1, <2>2, PathTyped DEF MailOf
  <2> QED
    BY <1>2, <2>3 DEF Msg, DlgMsg, MailOf
<1>6. mail' \subseteq DlgMsg /\ \A y \in mail' : y \in mail \/ \E g \in Uas : MailOf(y, g)
  BY <1>1, <1>5 DEF DlgInv, DlgTypes
<1> QED
  BY <1>1, <1>4, <1>6, NumbersOnly, AlikeSelf DEF DlgInv, DlgTypes

(* A gets a message of a dialog it has, or one that establishes a dialog,  *)
(* of its own or in a copy, or one that it has no use for.                 *)
LEMMA AReceivesInv ==
  ASSUME DlgInv, AReceives
  PROVE  DlgInv'
<1> DEFINE Mine(m) == {d \in DOMAIN adlg : sip_dialog_cmp(adlg[d], m)}
<1>1. PICK m \in mail :
        /\ m.dst = "A"
        /\ \/ /\ Mine(m) # {}
              /\ adlg' = [d \in DOMAIN adlg |->
                            IF d \in Mine(m) THEN HandledBy(adlg[d], m) ELSE adlg[d]]
              /\ mail' = (mail \ {m}) \cup AnswerTo(m)
           \/ /\ Mine(m) = {} /\ sip_dialog_cmp_half(adlg[First], m)
              /\ adlg' = IF forkh
                         THEN [adlg EXCEPT ![RemoteTag(m)] = sip_dialog_fork(adlg[First], m)]
                         ELSE [adlg EXCEPT ![First] = sip_dialog_create(@, m)]
              /\ mail' = (mail \ {m}) \cup AnswerTo(m)
           \/ /\ Mine(m) = {} /\ ~sip_dialog_cmp_half(adlg[First], m)
              /\ mail' = mail \ {m}
              /\ UNCHANGED adlg
        /\ UNCHANGED <<forkh, udlg>>
  BY DEF AReceives
<1>2. DOMAIN adlg = ADlg /\ m \in DlgMsg
  BY DEF DlgInv, DlgTypes
<1>3. PICK f \in Uas : MailOf(m, f)
  BY DEF DlgInv
<1>4. /\ RemoteTag(m) = f /\ LocalTag(m) = "A" /\ Routes(m) = Path[f] /\ udlg[f].up
      /\ \A a \in AnswerTo(m) : a \in DlgMsg /\ MailOf(a, f)
  BY <1>1, <1>2, <1>3, HeardByA
<1>5. mail' \subseteq DlgMsg /\ \A y \in mail' : y \in mail \/ \E g \in Uas : MailOf(y, g)
  BY <1>1, <1>4 DEF DlgInv, DlgTypes
<1>6. CASE adlg' = [d \in DOMAIN adlg |->
                      IF d \in Mine(m) THEN HandledBy(adlg[d], m) ELSE adlg[d]]
  <2>1. \A x \in ADlg : HandledBy(adlg[x], m) \in DlgRecord
                        /\ Alike(adlg[x], HandledBy(adlg[x], m))
    BY <1>2, HandledAlike DEF DlgInv, DlgTypes
  <2>2. adlg' \in [ADlg -> DlgRecord] /\ \A x \in ADlg : Alike(adlg[x], adlg'[x])
    <3> HIDE DEF Mine
    <3> QED
      BY <1>2, <1>6, <2>1, AlikeSelf DEF DlgInv, DlgTypes
  <2> QED
    BY <1>1, <1>5, <2>2, NumbersOnly, AlikeSelf DEF DlgInv, DlgTypes
<1>7. CASE UNCHANGED adlg
  BY <1>1, <1>5, <1>7, NumbersOnly, AlikeSelf DEF DlgInv, DlgTypes
<1>8. CASE /\ sip_dialog_cmp_half(adlg[First], m)
           /\ adlg' = IF forkh
                      THEN [adlg EXCEPT ![RemoteTag(m)] = sip_dialog_fork(adlg[First], m)]
                      ELSE [adlg EXCEPT ![First] = sip_dialog_create(@, m)]
  <2> DEFINE q == sip_dialog_create(adlg[First], m)
             x == IF forkh THEN f ELSE First
  <2>1. adlg[First] \in DlgRecord /\ adlg[First].ltag = "A"
    BY <1>4, <1>8 DEF DlgInv, DlgTypes, ADlg, sip_dialog_cmp_half
  <2>2. /\ q \in DlgRecord /\ q.up /\ q.ltag = "A" /\ q.rtag = f
        /\ q.routes = Path[f] /\ q.hop = HopOf(Path[f])
    BY <1>2, <1>4, <2>1, CreateShape
  <2>3. adlg' = [adlg EXCEPT ![x] = q]
    BY <1>4, <1>8 DEF sip_dialog_fork
  <2> HIDE DEF q
  <2>4. AEnd(q)
    BY <1>4, <2>2 DEF AEnd
  <2>5. adlg' \in [ADlg -> DlgRecord] /\ \A y \in ADlg : adlg'[y].up => AEnd(adlg'[y])
    BY <2>2, <2>3, <2>4 DEF DlgInv, DlgTypes
  <2>6. \A y \in ADlg : adlg'[y].up => AEnd(adlg[y])'
    BY <1>1, <2>5 DEF AEnd
  <2>7. Copies'
    <3>1. f # First /\ f \in ADlg /\ First \in ADlg
      BY PathTyped DEF ADlg
    <3>2. CASE forkh
      <4>1. adlg' = [adlg EXCEPT ![f] = q]
        BY <2>3, <3>2
      <4> QED
        BY <1>1, <2>2, <3>1, <3>2, <4>1 DEF DlgInv, DlgTypes, Copies, ADlg
    <3>3. CASE ~forkh
      <4>1. adlg' = [adlg EXCEPT ![First] = q]
        BY <2>3, <3>3
      <4>2. \A g \in Uas : adlg'[g] = adlg[g]
        BY <4>1, PathTyped DEF DlgInv, DlgTypes, ADlg
      <4> QED
        BY <1>1, <3>3, <4>2 DEF DlgInv, Copies
    <3> QED
      BY <3>2, <3>3
  <2>8. DlgTypes'
    BY <1>1, <1>5, <2>5 DEF DlgInv, DlgTypes
  <2>9. \A y \in mail' : \E g \in Uas : MailOf(y, g)'
    BY <1>1, <1>5 DEF DlgInv, MailOf
  <2>10. \A g \in Uas : udlg'[g].up => UasEnd(udlg'[g], g)
    BY <1>1 DEF DlgInv
  <2> QED
    BY <2>6, <2>7, <2>8, <2>9, <2>10 DEF DlgInv
<1> QED
  BY <1>1, <1>6, <1>7, <1>8

(* sip/dialog.c: the next hop points into what the dialog has, the ends of *)
(* a dialog visit the same proxies in opposite order whichever message     *)
(* established it, A has one dialog with each peer, and the first stays    *)
(* open while copies are made of it.                                       *)
THEOREM DialogsAgree == DlgSpec => []DialogSound
<1>1. DlgInit => DlgInv
  BY DlgInitInv
<1>2. DlgInv /\ [DlgNext]_dlgVars => DlgInv'
  <2> SUFFICES ASSUME DlgInv, [DlgNext]_dlgVars
               PROVE  DlgInv'
    OBVIOUS
  <2>1. CASE UNCHANGED dlgVars
    BY <2>1, NumbersOnly, AlikeSelf DEF dlgVars, DlgInv, DlgTypes
  <2>2. CASE DlgNext
    BY <2>2, FirstRequestInv, AReceivesInv, LoseMailInv, AcceptInv, UasReceivesInv,
       ARequestInv, UasRequestInv DEF DlgNext
  <2> QED
    BY <2>1, <2>2
<1>3. DlgInv => DialogSound
  <2> SUFFICES ASSUME DlgInv PROVE DialogSound
    OBVIOUS
  <2>1. DOMAIN adlg = ADlg
    BY DEF DlgInv, DlgTypes
  <2>2. \A d \in DOMAIN adlg : adlg[d].up => adlg[d].hop = HopOf(adlg[d].routes)
    BY <2>1 DEF DlgInv, AEnd
  <2>3. ASSUME NEW f \in Uas
        PROVE  /\ udlg[f].up => udlg[f].hop = HopOf(udlg[f].routes)
                                /\ udlg[f].routes = Reverse(Path[f])
               /\ \A d \in Of(f) : udlg[f].up /\ adlg[d].routes = Path[f]
    BY <2>1, <2>3, PathTyped DEF DlgInv, UasEnd, AEnd, Of
  <2>4. ASSUME NEW f \in Uas
        PROVE  Cardinality(Of(f)) <= 1
    <3> DEFINE x == IF forkh THEN f ELSE First
    <3>1. Of(f) \subseteq {x}
      BY <2>1, <2>4, PathTyped DEF DlgInv, Copies, Of, ADlg
    <3> HIDE DEF x
    <3>2. IsFiniteSet({x}) /\ Cardinality({x}) = 1
      BY FS_Singleton
    <3> QED
      BY <3>1, <3>2, FS_Subset
  <2> QED
    BY <2>2, <2>3, <2>4 DEF DialogSound, DlgInv, Copies
<1> QED
  BY <1>1, <1>2, <1>3, PTL DEF DlgSpec

----------------------------------------------------------------------------
(* Presence *)

(* struct presence, of a contact, and struct notifier, of a watcher *)
PresRecord == [sub : BOOLEAN, tmr : Nat, failc : Nat, status : Status, heard : Status]
NotRecord == [ua : PresUa \cup {"none"}, told : Status]

PresTypes ==
  /\ pmod \in {"off", "on", "closed"}
  /\ pres \in [Contact -> PresRecord]
  /\ mine \in Status /\ changed \in Nat
  /\ notl \in [Watcher -> NotRecord]
  /\ evrefs \in Nat /\ uarefs \in [PresUa -> Nat]

(* The module has watchers only while it is there. *)
OnlyWhileOn == pmod # "on" => Notifying = {}

(* The inductive invariant of presence *)
PresInv == PresTypes /\ OnlyWhileOn /\ ContactsWatched /\ WatchersServed

(* The watchers of a user agent *)
WatchersOf(u) == {w \in Notifying : notl[w].ua = u}

LEMMA PresFinite ==
  /\ IsFiniteSet(Notifying) /\ Cardinality(Notifying) \in Nat
  /\ \A u \in PresUa : IsFiniteSet(WatchersOf(u)) /\ Cardinality(WatchersOf(u)) \in Nat
<1>1. IsFiniteSet(Notifying)
  BY FS_Subset, PresAssumption DEF Notifying
<1>2. \A u \in PresUa : WatchersOf(u) \subseteq Notifying
  BY DEF WatchersOf
<1>3. \A u \in PresUa : IsFiniteSet(WatchersOf(u))
  BY <1>1, <1>2, FS_Subset
<1> QED
  BY <1>1, <1>3, FS_CardinalityType

(* wait_term and wait_fail never ask for a timer of no time at all. *)
LEMMA WaitPositive ==
  /\ \A reason, retry : retry \in Nat => wait_term(reason, retry) \in Nat \ {0}
  /\ \A n : wait_fail(n) \in Nat \ {0}
BY DEF wait_term, wait_fail

LEMMA FailShape ==
  ASSUME NEW p \in PresRecord
  PROVE  /\ Fail(p) \in PresRecord
         /\ Fail(p).tmr # 0 /\ Fail(p).sub = p.sub
         /\ Fail(p).status = p.status /\ Fail(p).heard = p.heard
<1>1. OneMore(p.failc) \in Nat
  BY DEF OneMore, PresRecord
<1> DEFINE n == OneMore(p.failc)
           t == wait_fail(n)
<1>2. n \in Nat /\ t \in Nat \ {0}
  BY <1>1, WaitPositive
<1>3. Fail(p) = [[p EXCEPT !.failc = n] EXCEPT !.tmr = t]
  BY DEF Fail, PresRecord
<1> HIDE DEF n, t
<1> QED
  BY <1>2, <1>3 DEF PresRecord

LEMMA PresInitInv == PresInit => PresInv
<1> SUFFICES ASSUME PresInit PROVE PresInv
  OBVIOUS
<1>1. PresTypes
  BY DEF PresInit, PresTypes, NoPres, NoNotifier, PresRecord, NotRecord, Status
<1>2. Notifying = {}
  BY DEF PresInit, Notifying, NoNotifier
<1>3. \A u \in PresUa : WatchersOf(u) = {}
  BY <1>2 DEF WatchersOf
<1>4. Cardinality({}) = 0
  BY FS_EmptySet
<1>5. ContactsWatched /\ OnlyWhileOn
  BY <1>2 DEF PresInit, ContactsWatched, OnlyWhileOn
<1>6. WatchersServed
  BY <1>2, <1>3, <1>4 DEF PresInit, WatchersServed, WatchersOf
<1> QED
  BY <1>1, <1>5, <1>6 DEF PresInv

(* What keeps the notifiers and the counts keeps WatchersServed. *)
LEMMA ServedKept ==
  ASSUME WatchersServed, UNCHANGED <<notl, evrefs, uarefs, mine, pmod>>
  PROVE  WatchersServed' /\ Notifying' = Notifying
BY DEF WatchersServed, Notifying

(* The subscriber's handlers change one contact, to a record that is fine. *)
LEMMA ContactChanged ==
  ASSUME PresInv, NEW c \in Contact, NEW q \in PresRecord,
         q.sub <=> q.tmr = 0, q.status = q.heard,
         pres' = [pres EXCEPT ![c] = q],
         UNCHANGED <<pmod, mine, changed, notl, evrefs, uarefs>>
  PROVE  PresInv'
<1>1. WatchersServed' /\ Notifying' = Notifying
  BY ServedKept DEF PresInv
<1>2. PresTypes'
  BY DEF PresInv, PresTypes
<1>3. OnlyWhileOn'
  BY <1>1 DEF PresInv, OnlyWhileOn
<1>4. ContactsWatched'
  BY DEF PresInv, PresTypes, ContactsWatched
<1> QED
  BY <1>1, <1>2, <1>3, <1>4 DEF PresInv

LEMMA PresTimerInv ==
  ASSUME PresInv, NEW c \in Contact, PresTimer(c)
  PROVE  PresInv'
<1> DEFINE p == [pres[c] EXCEPT !.tmr = 0]
<1>1. pres[c] \in PresRecord /\ ~pres[c].sub /\ pres[c].status = pres[c].heard
  BY DEF PresInv, PresTypes, PresTimer, ContactsWatched
<1>2. p \in PresRecord /\ p.sub = pres[c].sub /\ p.status = p.heard
  BY <1>1 DEF PresRecord
<1>3. CASE pres' = [pres EXCEPT ![c] = Fail(p)]
  <2> HIDE DEF p
  <2>1. /\ Fail(p) \in PresRecord /\ Fail(p).tmr # 0 /\ ~Fail(p).sub
        /\ Fail(p).status = Fail(p).heard
    BY <1>1, <1>2, FailShape
  <2> QED
    BY <1>3, <2>1, ContactChanged DEF PresTimer
<1>4. CASE pres' = [pres EXCEPT ![c] = [p EXCEPT !.sub = TRUE]]
  <2>1. /\ [p EXCEPT !.sub = TRUE] \in PresRecord /\ [p EXCEPT !.sub = TRUE].sub
        /\ [p EXCEPT !.sub = TRUE].tmr = 0
        /\ [p EXCEPT !.sub = TRUE].status = [p EXCEPT !.sub = TRUE].heard
    BY <1>1 DEF PresRecord
  <2> QED
    BY <1>4, <2>1, ContactChanged DEF PresTimer
<1> QED
  BY <1>3, <1>4 DEF PresTimer

LEMMA PresNotifyInv ==
  ASSUME PresInv, NEW c \in Contact, PresNotify(c)
  PROVE  PresInv'
<1> DEFINE p == [pres[c] EXCEPT !.failc = 0]
<1>1. /\ pres[c] \in PresRecord /\ pres[c].sub /\ pres[c].tmr = 0
      /\ pres[c].status = pres[c].heard
  BY DEF PresInv, PresTypes, PresNotify, ContactsWatched
<1>2. p \in PresRecord /\ p.sub /\ p.tmr = 0 /\ p.status = p.heard
  BY <1>1 DEF PresRecord
<1>3. CASE pres' = [pres EXCEPT ![c] = p]
  BY <1>2, <1>3, ContactChanged DEF PresNotify
<1>4. ASSUME NEW st \in NotifyStatus,
             pres' = [pres EXCEPT ![c] = [p EXCEPT !.status = st, !.heard = st]]
      PROVE  PresInv'
  <2> DEFINE q == [p EXCEPT !.status = st, !.heard = st]
  <2>1. q \in PresRecord /\ q.sub /\ q.tmr = 0 /\ q.status = q.heard
    BY <1>2, <1>4 DEF PresRecord, NotifyStatus, Status
  <2> QED
    BY <1>4, <2>1, ContactChanged DEF PresNotify
<1> QED
  BY <1>3, <1>4 DEF PresNotify

LEMMA PresCloseInv ==
  ASSUME PresInv, NEW c \in Contact, PresClose(c)
  PROVE  PresInv'
<1> DEFINE p == CloseSub(pres[c])
<1>1. pres[c] \in PresRecord
  BY DEF PresInv, PresTypes
<1>2. p \in PresRecord /\ ~p.sub /\ p.status = p.heard
  BY <1>1 DEF CloseSub, PresRecord, Status
<1> HIDE DEF p
<1>3. CASE pres' = [pres EXCEPT ![c] = Fail(p)]
  <2>1. /\ Fail(p) \in PresRecord /\ Fail(p).tmr # 0 /\ ~Fail(p).sub
        /\ Fail(p).status = Fail(p).heard
    BY <1>2, FailShape
  <2> QED
    BY <1>3, <2>1, ContactChanged DEF PresClose
<1>4. ASSUME NEW t \in Nat \ {0}, pres' = [pres EXCEPT ![c] = [p EXCEPT !.tmr = t]]
      PROVE  PresInv'
  <2>1. /\ [p EXCEPT !.tmr = t] \in PresRecord /\ ~[p EXCEPT !.tmr = t].sub
        /\ [p EXCEPT !.tmr = t].tmr = t
        /\ [p EXCEPT !.tmr = t].status = [p EXCEPT !.tmr = t].heard
    BY <1>2 DEF PresRecord
  <2> QED
    BY <1>4, <2>1, ContactChanged DEF PresClose
<1>5. ASSUME NEW reason \in {"deactivated", "rejected", "giveup"}, NEW retry \in RetryAfter,
             pres' = [pres EXCEPT ![c] = [p EXCEPT !.tmr = wait_term(reason, retry)]]
      PROVE  PresInv'
  <2>1. wait_term(reason, retry) \in Nat \ {0}
    BY WaitPositive, PresAssumption
  <2> QED
    BY <1>4, <1>5, <2>1
<1> QED
  BY <1>3, <1>5 DEF PresClose, p

LEMMA PresenceInitInv ==
  ASSUME PresInv, PresenceInit
  PROVE  PresInv'
<1>1. Notifying = {} /\ Notifying' = {}
  BY DEF PresInv, OnlyWhileOn, PresenceInit, Notifying
<1>2. PresTypes'
  BY DEF PresInv, PresTypes, PresenceInit, PresRecord, NoPres, Status
<1>3. ContactsWatched'
  BY DEF PresenceInit, ContactsWatched, NoPres
<1>4. Cardinality({}) = 0
  BY FS_EmptySet
<1>5. evrefs' = Cardinality(Notifying') + 1
  BY <1>1, <1>4 DEF PresenceInit
<1>6. WatchersServed'
  BY <1>1, <1>5 DEF PresInv, WatchersServed, PresenceInit
<1> QED
  BY <1>2, <1>3, <1>6 DEF PresInv, OnlyWhileOn, PresenceInit

(* A watcher comes: it and its user agent are counted once more. *)
LEMMA SubHandlerInv ==
  ASSUME PresInv, NEW w \in Watcher, SubHandler(w)
  PROVE  PresInv'
<1>1. PICK u \in Listed : /\ notl' = [notl EXCEPT ![w] = [ua |-> u, told |-> mine]]
                          /\ uarefs' = [uarefs EXCEPT ![u] = @ + 1]
  BY DEF SubHandler
<1>2. u \in PresUa /\ u # "none"
  BY PresAssumption DEF Listed
<1>3. PresTypes'
  BY <1>1, <1>2 DEF PresInv, PresTypes, SubHandler, NotRecord
<1>4. /\ w \notin Notifying /\ Notifying' = Notifying \cup {w}
      /\ w \notin WatchersOf(u) /\ WatchersOf(u)' = WatchersOf(u) \cup {w}
  BY <1>1, <1>2 DEF PresInv, PresTypes, NotRecord, SubHandler, Notifying, WatchersOf
<1>5. \A x \in PresUa \ {u} : WatchersOf(x)' = WatchersOf(x)
  BY <1>1, <1>2, PresAssumption
  DEF PresInv, PresTypes, NotRecord, SubHandler, Notifying, WatchersOf
<1>6. Cardinality(Notifying') = Cardinality(Notifying) + 1
  BY <1>4, PresFinite, OneMoreElement
<1>7. Cardinality(WatchersOf(u)') = Cardinality(WatchersOf(u)) + 1
  BY <1>2, <1>4, PresFinite, OneMoreElement
<1>8. evrefs' = Cardinality(Notifying') + 1
  BY <1>6, PresFinite DEF PresInv, WatchersServed, SubHandler
<1>9. \A x \in PresUa : uarefs'[x] = Cardinality(WatchersOf(x)') + 1
  <2> SUFFICES ASSUME NEW x \in PresUa
               PROVE  uarefs'[x] = Cardinality(WatchersOf(x)') + 1
    OBVIOUS
  <2>1. uarefs[x] = Cardinality(WatchersOf(x)) + 1 /\ Cardinality(WatchersOf(x)) \in Nat
    BY PresFinite DEF PresInv, WatchersServed, SubHandler, WatchersOf
  <2>2. CASE x = u
    BY <1>1, <1>7, <2>1, <2>2 DEF PresInv, PresTypes
  <2>3. CASE x # u
    BY <1>1, <1>5, <2>1, <2>3 DEF PresInv, PresTypes
  <2> QED
    BY <2>2, <2>3
<1>10. \A x \in Notifying' : notl'[x].told = mine' /\ uarefs'[notl'[x].ua] > 0
  <2> SUFFICES ASSUME NEW x \in Notifying'
               PROVE  notl'[x].told = mine' /\ uarefs'[notl'[x].ua] > 0
    OBVIOUS
  <2>1. CASE x = w
    BY <1>1, <1>2, <2>1 DEF PresInv, PresTypes, SubHandler
  <2>2. CASE x # w
    <3>1. x \in Notifying /\ notl'[x] = notl[x] /\ notl[x].ua \in PresUa
      BY <1>1, <1>4, <2>2 DEF PresInv, PresTypes, Notifying, NotRecord
    <3>2. notl[x].told = mine /\ uarefs[notl[x].ua] > 0
      BY <3>1 DEF PresInv, WatchersServed
    <3> QED
      BY <1>1, <3>1, <3>2 DEF PresInv, PresTypes, SubHandler
  <2> QED
    BY <2>1, <2>2
<1>11. WatchersServed'
  BY <1>8, <1>9, <1>10 DEF WatchersServed, SubHandler, WatchersOf
<1>12. ContactsWatched' /\ OnlyWhileOn'
  BY DEF PresInv, SubHandler, ContactsWatched, OnlyWhileOn
<1> QED
  BY <1>3, <1>11, <1>12 DEF PresInv

(* A watcher goes: what it held is given back. *)
LEMMA SipnotCloseInv ==
  ASSUME PresInv, NEW w \in Watcher, SipnotClose(w)
  PROVE  PresInv'
<1>0. PICK u \in PresUa : u = notl[w].ua
  BY DEF PresInv, PresTypes, NotRecord, SipnotClose, Notifying
<1>1. u # "none" /\ w \in Notifying /\ w \in WatchersOf(u)
  BY <1>0, PresAssumption DEF SipnotClose, WatchersOf
<1>2. notl' = [notl EXCEPT ![w] = NoNotifier]
  BY DEF PresInv, PresTypes, SipnotClose, FreeNots
<1>3. Notifying' = Notifying \ {w} /\ WatchersOf(u)' = WatchersOf(u) \ {w}
  BY <1>0, <1>1, <1>2, PresAssumption
  DEF PresInv, PresTypes, Notifying, WatchersOf, NoNotifier
<1>4. \A x \in PresUa \ {u} : WatchersOf(x)' = WatchersOf(x)
  BY <1>0, <1>1, <1>2, PresAssumption DEF PresInv, PresTypes, Notifying, WatchersOf, NoNotifier
<1>5. Cardinality(Notifying') = Cardinality(Notifying) - 1
  BY <1>1, <1>3, PresFinite, OneLessElement
<1>6. Cardinality(WatchersOf(u)') = Cardinality(WatchersOf(u)) - 1
  BY <1>1, <1>3, PresFinite, OneLessElement
<1>7. /\ Cardinality({x \in {w} : notl[x].ua = u}) = 1
      /\ \A v \in PresUa \ {u} : Cardinality({x \in {w} : notl[x].ua = v}) = 0
  <2>1. {x \in {w} : notl[x].ua = u} = {w}
    BY <1>0
  <2>2. \A v \in PresUa \ {u} : {x \in {w} : notl[x].ua = v} = {}
    BY <1>0
  <2> QED
    BY <2>1, <2>2, FS_Singleton, FS_EmptySet
<1>8. /\ uarefs' = [v \in PresUa |->
                      uarefs[v] - Cardinality({x \in {w} : notl[x].ua = v})]
      /\ evrefs' = evrefs - 1 /\ pmod = "on" /\ UNCHANGED <<pmod, pres, mine, changed>>
  BY DEF SipnotClose, FreeNots
<1>9. evrefs' = Cardinality(Notifying') + 1 /\ Cardinality(Notifying') \in Nat
  BY <1>1, <1>3, <1>5, <1>8, PresFinite, OneLessElement, FS_RemoveElement, FS_CardinalityType
  DEF PresInv, WatchersServed
<1>10. \A x \in PresUa : /\ uarefs'[x] = Cardinality(WatchersOf(x)') + 1
                         /\ Cardinality(WatchersOf(x)') \in Nat
  <2> SUFFICES ASSUME NEW x \in PresUa
               PROVE  /\ uarefs'[x] = Cardinality(WatchersOf(x)') + 1
                      /\ Cardinality(WatchersOf(x)') \in Nat
    OBVIOUS
  <2>1. uarefs[x] = Cardinality(WatchersOf(x)) + 1 /\ Cardinality(WatchersOf(x)) \in Nat
    BY <1>8, PresFinite DEF PresInv, WatchersServed, WatchersOf
  <2>2. CASE x = u
    <3>1. Cardinality(WatchersOf(u)') \in Nat
      BY <1>1, <1>3, PresFinite, FS_RemoveElement, FS_CardinalityType
    <3>2. uarefs'[x] = uarefs[x] - 1
      BY <1>7, <1>8, <2>2
    <3> QED
      BY <1>6, <2>1, <2>2, <3>1, <3>2
  <2>3. CASE x # u
    BY <1>4, <1>7, <1>8, <2>1, <2>3
  <2> QED
    BY <2>2, <2>3
<1>11. PresTypes'
  <2>1. uarefs' \in [PresUa -> Nat]
    BY <1>8, <1>10
  <2>2. evrefs' \in Nat
    BY <1>9
  <2> QED
    BY <1>2, <1>8, <2>1, <2>2 DEF PresInv, PresTypes, NoNotifier, NotRecord, Status
<1>12. \A x \in Notifying' : notl'[x].told = mine' /\ uarefs'[notl'[x].ua] > 0
  <2> SUFFICES ASSUME NEW x \in Notifying'
               PROVE  notl'[x].told = mine' /\ uarefs'[notl'[x].ua] > 0
    OBVIOUS
  <2>1. x \in Notifying /\ notl'[x] = notl[x] /\ notl[x].ua \in PresUa
    BY <1>2, <1>3 DEF PresInv, PresTypes, Notifying, NotRecord
  <2>2. notl[x].told = mine
    BY <2>1 DEF PresInv, WatchersServed
  <2> QED
    BY <1>8, <1>10, <2>1, <2>2
<1>13. WatchersServed'
  BY <1>8, <1>9, <1>10, <1>12 DEF WatchersServed, WatchersOf
<1>14. ContactsWatched' /\ OnlyWhileOn'
  BY <1>8 DEF PresInv, ContactsWatched, OnlyWhileOn
<1> QED
  BY <1>11, <1>13, <1>14 DEF PresInv

LEMMA UpdateStatusInv ==
  ASSUME PresInv, NEW st \in {"OPEN", "CLOSED"}, UpdateStatus(st)
  PROVE  PresInv'
<1>1. \A w \in Watcher : notl'[w].ua = notl[w].ua
  BY DEF UpdateStatus, PresInv, PresTypes, NotRecord
<1>2. Notifying' = Notifying /\ \A u \in PresUa : WatchersOf(u)' = WatchersOf(u)
  BY <1>1 DEF Notifying, WatchersOf
<1>3. PresTypes'
  BY DEF PresInv, PresTypes, UpdateStatus, NotRecord, Status, Notifying
<1>4. \A w \in Notifying' : notl'[w].told = mine' /\ uarefs'[notl'[w].ua] > 0
  <2>1. \A w \in Notifying : w \in Watcher /\ notl'[w].told = st
    BY DEF PresInv, PresTypes, UpdateStatus, NotRecord, Notifying
  <2> QED
    BY <1>1, <1>2, <2>1 DEF PresInv, WatchersServed, UpdateStatus
<1>5. WatchersServed'
  BY <1>2, <1>4 DEF PresInv, WatchersServed, UpdateStatus, WatchersOf
<1> QED
  BY <1>2, <1>3, <1>5 DEF PresInv, UpdateStatus, ContactsWatched, OnlyWhileOn

LEMMA StopAllInv ==
  ASSUME PresInv, StopAll
  PROVE  PresInv'
<1>1. Notifying' = {} /\ \A u \in PresUa : WatchersOf(u)' = {}
  BY DEF StopAll, NoNotifier, Notifying, WatchersOf
<1>2. Cardinality({}) = 0
  BY FS_EmptySet
<1>3. evrefs' = 0
  BY PresFinite DEF PresInv, WatchersServed, StopAll
<1>4. \A u \in PresUa : uarefs'[u] = 0
  <2> SUFFICES ASSUME NEW u \in PresUa PROVE uarefs'[u] = 0
    OBVIOUS
  <2> DEFINE n == Cardinality(WatchersOf(u))
  <2>1. n \in Nat
    BY PresFinite
  <2>2. uarefs[u] = n + 1
    BY DEF PresInv, WatchersServed, WatchersOf, StopAll
  <2>3. uarefs'[u] = uarefs[u] - n - 1
    BY DEF StopAll, WatchersOf
  <2> HIDE DEF n
  <2> QED
    BY <2>1, <2>2, <2>3
<1>5. PresTypes'
  <2>1. uarefs' \in [PresUa -> Nat]
    BY <1>4 DEF StopAll
  <2>2. pres' \in [Contact -> PresRecord]
    BY DEF PresInv, PresTypes, StopAll, PresRecord, NoPres, Status
  <2>3. notl' \in [Watcher -> NotRecord]
    BY DEF StopAll, NotRecord, NoNotifier, Status
  <2> QED
    BY <1>3, <2>1, <2>2, <2>3 DEF PresInv, PresTypes, StopAll
<1>6. WatchersServed'
  BY <1>1, <1>2, <1>3, <1>4 DEF StopAll, WatchersServed, WatchersOf
<1> QED
  BY <1>1, <1>5, <1>6 DEF PresInv, StopAll, ContactsWatched, OnlyWhileOn

(* presence: a contact is subscribed to or waits for the next attempt, its *)
(* status is what the living subscription brought, every watcher was told  *)
(* the present status, and the user agents and the event socket are held   *)
(* by exactly those that use them (subscriber.c, notifier.c).              *)
THEOREM PresenceKept == PresSpec => []PresenceSound
<1>1. PresInit => PresInv
  BY PresInitInv
<1>2. PresInv /\ [PresNext]_presVars => PresInv'
  <2> SUFFICES ASSUME PresInv, [PresNext]_presVars
               PROVE  PresInv'
    OBVIOUS
  <2>1. CASE UNCHANGED presVars
    <3>1. WatchersServed' /\ Notifying' = Notifying
      BY <2>1, ServedKept DEF PresInv, presVars
    <3> QED
      BY <2>1, <3>1 DEF presVars, PresInv, PresTypes, OnlyWhileOn, ContactsWatched
  <2>2. CASE PresNext
    BY <2>2, PresenceInitInv, StopAllInv, PresTimerInv, PresNotifyInv, PresCloseInv,
       SubHandlerInv, SipnotCloseInv, UpdateStatusInv DEF PresNext
  <2> QED
    BY <2>1, <2>2
<1>3. PresInv => PresenceSound
  BY DEF PresInv, PresenceSound
<1> QED
  BY <1>1, <1>2, <1>3, PTL DEF PresSpec


----------------------------------------------------------------------------
(* The mixers of a conference *)

(* A set of natural numbers has a least member. *)
LEMMA LeastNatural ==
  ASSUME NEW T \in SUBSET Nat, T # {}
  PROVE  \E x \in T : \A y \in T : x <= y
<1>1. PICK x \in T : \A y \in T : ~(<<y, x>> \in OpToRel(<, Nat))
  BY NatLessThanWellFounded, WFMin
<1>2. \A y \in T : ~(y < x)
  BY <1>1 DEF OpToRel
<1> QED
  BY <1>2


----------------------------------------------------------------------------
(* Lists of the mixers *)

LEMMA ListsSet ==
  ASSUME NEW S, NEW l, Lists(l, S)
  PROVE  /\ ToSet(l) = S /\ IsInjective(l) /\ l \in Seq(S)
         /\ Len(l) \in Nat /\ DOMAIN l = 1 .. Len(l)
         /\ \A i \in 1 .. Len(l) : l[i] \in S
<1>1. Len(l) \in Nat /\ DOMAIN l = 1 .. Len(l) /\ \A i \in 1 .. Len(l) : l[i] \in S
  BY LenProperties, ElementOfSeq DEF Lists
<1>2. ToSet(l) = S
  BY <1>1 DEF Lists, ToSet
<1>3. IsInjective(l)
  BY <1>1 DEF Lists, IsInjective
<1> QED
  BY <1>1, <1>2, <1>3 DEF Lists

LEMMA ListsUnlinked ==
  ASSUME NEW S, NEW l, Lists(l, S), NEW x
  PROVE  /\ Lists(Unlinked(l, x), S \ {x})
         /\ Len(Unlinked(l, x)) = IF x \in S THEN Len(l) - 1 ELSE Len(l)
<1> DEFINE at == {i \in DOMAIN l : l[i] = x}
           p == CHOOSE i \in at : TRUE
<1>1. /\ Len(l) \in Nat /\ DOMAIN l = 1 .. Len(l) /\ l \in Seq(S)
      /\ \A i \in 1 .. Len(l) : l[i] \in S
  BY ListsSet
<1>2. Unlinked(l, x) = IF at = {} THEN l ELSE RemoveAt(l, p)
  BY Zenon DEF Unlinked
<1>3. CASE x \in S
  <2>1. \E i \in 1 .. Len(l) : l[i] = x
    BY <1>3 DEF Lists
  <2>2. at # {}
    BY <1>1, <2>1
  <2>3. p \in at
    BY <2>2
  <2>4. p \in 1 .. Len(l) /\ l[p] = x
    BY <1>1, <2>3
  <2>5. Unlinked(l, x) = RemoveAt(l, p)
    BY <1>2, <2>2
  <2> HIDE DEF p, at
  <2>6. Lists(RemoveAt(l, p), S \ {x})
    BY <2>4, ListsRemove
  <2>7. Len(RemoveAt(l, p)) = Len(l) - 1
    BY <1>1, <2>4, Removed
  <2> QED
    BY <1>3, <2>5, <2>6, <2>7
<1>4. CASE x \notin S
  <2>1. at = {}
    BY <1>1, <1>4
  <2>2. Unlinked(l, x) = l /\ S \ {x} = S
    BY <1>2, <1>4, <2>1
  <2> QED
    BY <1>4, <2>2
<1> QED
  BY <1>3, <1>4

LEMMA ListsEmpty == Lists(<<>>, {})
BY DEF Lists

----------------------------------------------------------------------------
(* The audio mixer *)

AumixLists ==
  /\ asrc \subseteq Asrc /\ ToSet(srcl) \subseteq asrc
  /\ Lists(srcl, ToSet(srcl))

(* The next frame is due at most a packet time from now, and the frames    *)
(* given since the last wait were due one packet time after the other.     *)
AumixTiming ==
  /\ ts \in Nat /\ now \in Nat /\ woke \in Nat /\ ticks \in Nat
  /\ 1 <= woke /\ woke <= now
  /\ \/ ts = 0 /\ ticks = 0
     \/ woke + ticks * MixPtime <= ts /\ ts <= now + MixPtime

AumixHeard ==
  \A s \in Asrc : /\ \A f \in heard[s] : f[1] # s
                  /\ \A f, g \in heard[s] : f[1] = g[1] => f = g

(* Who is stopped has no owner: neither the application nor a source. *)
AumixOwned ==
  /\ apphas \in BOOLEAN /\ signal \in BOOLEAN
  /\ mix # "up" => ~apphas /\ asrc = {}

AumixWaits == mth = "wait" /\ ~signal => srcl = <<>> /\ mix = "up"

(* The inductive invariant of the audio mixer *)
AumixInv == AumixLists /\ AumixTiming /\ AumixHeard /\ AumixOwned /\ AumixWaits

LEMMA AumixInitInv == AumixInit => AumixInv
<1> SUFFICES ASSUME AumixInit PROVE AumixInv
  OBVIOUS
<1> USE DEF AumixInit
<1>1. AumixLists
  BY ListsEmpty, ListsSet DEF AumixLists
<1>2. AumixTiming
  BY DEF AumixTiming
<1>3. AumixHeard
  BY DEF AumixHeard
<1>4. AumixOwned /\ AumixWaits
  BY DEF AumixOwned, AumixWaits
<1> QED
  BY <1>1, <1>2, <1>3, <1>4 DEF AumixInv

(* A list that loses a source *)
LEMMA SrclUnlinked ==
  ASSUME AumixLists, NEW s, srcl' = Unlinked(srcl, s)
  PROVE  /\ Lists(srcl', ToSet(srcl)') /\ ToSet(srcl)' = ToSet(srcl) \ {s}
         /\ srcl = <<>> => srcl' = <<>>
<1>1. Lists(Unlinked(srcl, s), ToSet(srcl) \ {s})
  BY ListsUnlinked DEF AumixLists
<1>2. ToSet(Unlinked(srcl, s)) = ToSet(srcl) \ {s}
  BY <1>1, ListsSet
<1>3. ToSet(srcl)' = ToSet(srcl')
  OBVIOUS
<1>4. srcl = <<>> => Unlinked(srcl, s) = srcl
  BY DEF Unlinked
<1> QED
  BY <1>1, <1>2, <1>3, <1>4

LEMMA EnableInv ==
  ASSUME AumixInv, NEW s \in Asrc, AumixSourceEnable(s)
  PROVE  AumixInv'
<1>1. /\ UNCHANGED <<mix, apphas, asrc, mth, ts, now, woke, ticks, heard>>
      /\ s \in asrc
  BY DEF AumixSourceEnable
<1>2. AumixTiming' /\ AumixHeard'
  BY <1>1 DEF AumixInv, AumixTiming, AumixHeard
<1>3. CASE s \in ToSet(srcl)
  <2>1. srcl' = Unlinked(srcl, s) /\ UNCHANGED signal
    BY <1>3 DEF AumixSourceEnable
  <2>2. Lists(srcl', ToSet(srcl)') /\ ToSet(srcl)' = ToSet(srcl) \ {s}
        /\ (srcl = <<>> => srcl' = <<>>)
    BY <2>1, SrclUnlinked DEF AumixInv
  <2> QED
    BY <1>1, <1>2, <2>1, <2>2 DEF AumixInv, AumixLists, AumixOwned, AumixWaits
<1>4. CASE s \notin ToSet(srcl)
  <2>1. srcl' = Append(srcl, s) /\ CondSignal
    BY <1>4 DEF AumixSourceEnable
  <2>2. Lists(Append(srcl, s), ToSet(srcl) \cup {s})
    BY <1>4, ListsAppend DEF AumixInv, AumixLists
  <2>3. ToSet(Append(srcl, s)) = ToSet(srcl) \cup {s}
    BY <2>2, ListsSet
  <2>4. ToSet(srcl)' = ToSet(srcl')
    OBVIOUS
  <2>5. Lists(srcl', ToSet(srcl)') /\ ToSet(srcl)' = ToSet(srcl) \cup {s}
    BY <2>1, <2>2, <2>3, <2>4
  <2> QED
    BY <1>1, <1>2, <2>1, <2>5 DEF AumixInv, AumixLists, AumixOwned, AumixWaits, CondSignal
<1> QED
  BY <1>3, <1>4

(* The mixer is derefed: if that was the last reference, the thread hears. *)
LEMMA MixDerefOwned ==
  ASSUME AumixInv, NEW held \in BOOLEAN, MixDeref(held, asrc'),
         held = apphas', asrc' \subseteq asrc, held => apphas,
         UNCHANGED mth, srcl = <<>> => srcl' = <<>>
  PROVE  AumixOwned' /\ AumixWaits'
BY DEF AumixInv, MixDeref, CondSignal, AumixOwned, AumixWaits

LEMMA SourceFreeInv ==
  ASSUME AumixInv, NEW s \in Asrc, AumixSourceFree(s)
  PROVE  AumixInv'
<1>1. /\ UNCHANGED <<apphas, mth, ts, now, woke, ticks, heard>>
      /\ asrc' = asrc \ {s} /\ srcl' = Unlinked(srcl, s)
      /\ MixDeref(apphas, asrc')
  BY DEF AumixSourceFree
<1>2. AumixTiming' /\ AumixHeard'
  BY <1>1 DEF AumixInv, AumixTiming, AumixHeard
<1>3. Lists(srcl', ToSet(srcl)') /\ ToSet(srcl)' = ToSet(srcl) \ {s}
      /\ (srcl = <<>> => srcl' = <<>>)
  BY <1>1, SrclUnlinked DEF AumixInv
<1>4. AumixLists'
  BY <1>1, <1>3 DEF AumixInv, AumixLists
<1>5. apphas \in BOOLEAN
  BY DEF AumixInv, AumixOwned
<1>6. AumixOwned' /\ AumixWaits'
  BY <1>1, <1>3, <1>5, MixDerefOwned
<1> QED
  BY <1>2, <1>4, <1>6 DEF AumixInv

LEMMA ReleaseInv == AumixInv /\ AumixRelease => AumixInv'
<1> SUFFICES ASSUME AumixInv, AumixRelease PROVE AumixInv'
  OBVIOUS
<1>1. /\ UNCHANGED <<asrc, srcl, mth, ts, now, woke, ticks, heard>>
      /\ apphas' = FALSE /\ MixDeref(FALSE, asrc')
  BY DEF AumixRelease
<1>2. AumixLists' /\ AumixTiming' /\ AumixHeard'
  BY <1>1 DEF AumixInv, AumixLists, AumixTiming, AumixHeard
<1>3. AumixOwned' /\ AumixWaits'
  BY <1>1, MixDerefOwned
<1> QED
  BY <1>2, <1>3 DEF AumixInv

(* A round of the thread that gives a frame *)
LEMMA FrameTiming ==
  ASSUME NEW t \in Nat, NEW w \in Nat, NEW n \in Nat, NEW k \in Nat,
         w <= n, t <= n, w + k * MixPtime <= t
  PROVE  w + (k + 1) * MixPtime <= t + MixPtime /\ t + MixPtime <= n + MixPtime
<1>1. MixPtime \in Nat /\ k * MixPtime \in Nat /\ (k + 1) * MixPtime = k * MixPtime + MixPtime
  BY AumixAssumption
<1> QED
  BY <1>1

LEMMA MixOfFair ==
  ASSUME NEW s \in Asrc, ToSet(srcl) \subseteq Asrc
  PROVE  /\ \A f \in MixOf(s) : f[1] # s
         /\ \A f, g \in MixOf(s) : f[1] = g[1] => f = g
<1>1. \A f \in MixOf(s) : \/ \E x \in ToSet(srcl) \ {s} : f = <<x, FrameOf(x)>>
                          \/ f = <<"file", af>>
  BY DEF MixOf
<1>2. s # "file" /\ \A x \in ToSet(srcl) : x # "file"
  BY AumixAssumption
<1> QED
  BY <1>1, <1>2

LEMMA ThreadInv == AumixInv /\ AumixThread => AumixInv'
<1> SUFFICES ASSUME AumixInv, AumixThread PROVE AumixInv'
  OBVIOUS
<1> DEFINE due == DueSince(ts)
<1>1. /\ UNCHANGED <<mix, apphas, asrc, srcl, now>>
      /\ mth \in {"sleep", "wait"} /\ mth' = Pause
      /\ signal' = FALSE
      /\ woke' = IF mth = "wait" THEN now ELSE woke
  BY Zenon DEF AumixThread
<1>2. \/ due > now /\ ts' = due /\ UNCHANGED <<heard, ticks>>
      \/ /\ ~(due > now) /\ ts' = due + MixPtime
         /\ ticks' = (IF mth = "wait" THEN 0 ELSE ticks) + 1
         /\ heard' = [s \in Asrc |-> IF s \in ToSet(srcl) THEN MixOf(s) ELSE heard[s]]
  BY Zenon DEF AumixThread
<1>3. AumixLists' /\ AumixOwned'
  BY <1>1 DEF AumixInv, AumixLists, AumixOwned
<1>4. AumixWaits'
  BY <1>1 DEF AumixWaits, Pause
<1>5. AumixHeard'
  <2>1. ToSet(srcl) \subseteq Asrc /\ AumixHeard
    BY DEF AumixInv, AumixLists
  <2>2. CASE UNCHANGED heard
    BY <2>1, <2>2 DEF AumixHeard
  <2>3. CASE heard' = [s \in Asrc |-> IF s \in ToSet(srcl) THEN MixOf(s) ELSE heard[s]]
    <3> SUFFICES ASSUME NEW s \in Asrc
                 PROVE  /\ \A f \in heard'[s] : f[1] # s
                        /\ \A f, g \in heard'[s] : f[1] = g[1] => f = g
      BY DEF AumixHeard
    <3>1. heard'[s] = MixOf(s) \/ heard'[s] = heard[s]
      BY <2>3
    <3>2. /\ \A f \in MixOf(s) : f[1] # s
          /\ \A f, g \in MixOf(s) : f[1] = g[1] => f = g
      BY <2>1, MixOfFair
    <3>3. /\ \A f \in heard[s] : f[1] # s
          /\ \A f, g \in heard[s] : f[1] = g[1] => f = g
      BY <2>1 DEF AumixHeard
    <3> QED
      BY <3>1, <3>2, <3>3
  <2> QED
    BY <1>2, <2>2, <2>3
<1>6. AumixTiming'
  <2>1. /\ ts \in Nat /\ now \in Nat /\ woke \in Nat /\ ticks \in Nat /\ MixPtime \in Nat
        /\ 1 <= woke /\ woke <= now
        /\ \/ ts = 0 /\ ticks = 0
           \/ woke + ticks * MixPtime <= ts /\ ts <= now + MixPtime
    BY AumixAssumption DEF AumixInv, AumixTiming
  <2>2. due = IF mth = "wait" \/ ts = 0 THEN now ELSE ts
    BY DEF DueSince
  <2>3. due \in Nat
    BY <2>1, <2>2
  <2>4. CASE due > now
    <3>1. mth # "wait" /\ ts # 0 /\ due = ts
      BY <2>1, <2>2, <2>4
    <3>2. UNCHANGED <<ts, now, woke, ticks>>
      BY <1>1, <1>2, <2>3, <2>4, <3>1
    <3> QED
      BY <2>1, <3>2 DEF AumixTiming
  <2>5. CASE ~(due > now)
    <3> DEFINE k == IF mth = "wait" THEN 0 ELSE ticks
    <3>1. /\ k \in Nat /\ woke' \in Nat /\ 1 <= woke' /\ woke' <= now
          /\ ts' = due + MixPtime /\ ticks' = k + 1 /\ due <= now
      BY <1>1, <1>2, <2>1, <2>3, <2>5
    <3>2. woke' + k * MixPtime <= due
      <4>1. CASE mth = "wait"
        <5>1. k * MixPtime = 0 /\ woke' = now /\ due = now
          BY <1>1, <2>1, <2>2, <4>1
        <5> QED
          BY <2>1, <5>1
      <4>2. CASE mth # "wait" /\ ts = 0
        <5>1. ticks = 0
          <6>1. woke + ticks * MixPtime \in Nat /\ ticks * MixPtime \in Nat
            BY <2>1
          <6> QED
            BY <2>1, <4>2, <6>1
        <5>2. k * MixPtime = 0 /\ woke' = woke /\ due = now
          BY <1>1, <2>1, <2>2, <4>2, <5>1
        <5> QED
          BY <2>1, <5>2
      <4>3. CASE mth # "wait" /\ ts # 0
        <5>1. k = ticks /\ woke' = woke /\ due = ts
          BY <1>1, <2>2, <4>3
        <5> QED
          BY <2>1, <4>3, <5>1
      <4> QED
        BY <4>1, <4>2, <4>3
    <3> HIDE DEF k
    <3>3. woke' + (k + 1) * MixPtime <= due + MixPtime /\ due + MixPtime <= now + MixPtime
      BY <2>1, <2>3, <3>1, <3>2, FrameTiming
    <3>4. ts' \in Nat /\ ticks' \in Nat /\ now' = now
      BY <1>1, <2>1, <2>3, <3>1
    <3>5. woke' + ticks' * MixPtime <= ts' /\ ts' <= now' + MixPtime
      BY <3>1, <3>3, <3>4
    <3> QED
      BY <2>1, <3>1, <3>4, <3>5 DEF AumixTiming
  <2> QED
    BY <2>4, <2>5
<1> QED
  BY <1>3, <1>4, <1>5, <1>6 DEF AumixInv

LEMMA AumixNextInv == AumixInv /\ [AumixNext]_mixVars => AumixInv'
<1> SUFFICES ASSUME AumixInv, [AumixNext]_mixVars PROVE AumixInv'
  OBVIOUS
<1>1. ASSUME NEW s \in Asrc, AumixSourceAlloc(s) PROVE AumixInv'
  <2>1. /\ UNCHANGED <<mix, apphas, srcl, mth, signal, ts, now, woke, ticks, heard>>
        /\ mix = "up" /\ asrc' = asrc \cup {s}
    BY <1>1 DEF AumixSourceAlloc
  <2> QED
    BY <2>1 DEF AumixInv, AumixLists, AumixTiming, AumixHeard, AumixOwned, AumixWaits
<1>2. CASE \E s \in Asrc : AumixSourceEnable(s) \/ AumixSourceFree(s)
  BY <1>2, EnableInv, SourceFreeInv
<1>3. ASSUME UNCHANGED <<mix, apphas, asrc, srcl, mth, signal, ts, now, woke, ticks, heard>>
      PROVE  AumixInv'
  BY <1>3 DEF AumixInv, AumixLists, AumixTiming, AumixHeard, AumixOwned, AumixWaits
<1>4. CASE \E s \in Asrc : AumixSourcePut(s) \/ AumixSourceFlush(s)
  BY <1>3, <1>4 DEF AumixSourcePut, AumixSourceFlush
<1>5. CASE AumixPlayfile
  BY <1>3, <1>5 DEF AumixPlayfile
<1>6. CASE AumixRelease
  BY <1>6, ReleaseInv
<1>7. CASE MixJoined
  <2>1. /\ UNCHANGED <<apphas, asrc, srcl, mth, signal, ts, now, woke, ticks, heard>>
        /\ mix = "joining" /\ mix' = "gone" /\ mth = "done"
    BY <1>7 DEF MixJoined
  <2> QED
    BY <2>1 DEF AumixInv, AumixLists, AumixTiming, AumixHeard, AumixOwned, AumixWaits
<1>8. CASE AumixThreadStart
  <2>1. /\ UNCHANGED <<mix, apphas, asrc, srcl, signal, ts, now, woke, ticks, heard>>
        /\ mth' = Pause
    BY <1>8 DEF AumixThreadStart
  <2> QED
    BY <2>1 DEF AumixInv, AumixLists, AumixTiming, AumixHeard, AumixOwned, AumixWaits, Pause
<1>9. CASE AumixThread
  BY <1>9, ThreadInv
<1>10. CASE MixClock
  <2>1. /\ UNCHANGED <<mix, apphas, asrc, srcl, mth, signal, ts, woke, ticks, heard>>
        /\ now' = now + 1
    BY <1>10 DEF MixClock
  <2>2. AumixTiming'
    <3>1. ticks * MixPtime \in Nat /\ MixPtime \in Nat
      BY AumixAssumption DEF AumixInv, AumixTiming
    <3>2. ticks' * MixPtime = ticks * MixPtime
      BY <2>1
    <3> QED
      BY <2>1, <3>1, <3>2 DEF AumixInv, AumixTiming
  <2> QED
    BY <2>1, <2>2 DEF AumixInv, AumixLists, AumixHeard, AumixOwned, AumixWaits
<1>11. CASE UNCHANGED mixVars
  BY <1>3, <1>11 DEF mixVars
<1> QED
  BY <1>1, <1>2, <1>4, <1>5, <1>6, <1>7, <1>8, <1>9, <1>10, <1>11 DEF AumixNext

LEMMA AumixInvSound == AumixInv => AumixSound
<1> SUFFICES ASSUME AumixInv PROVE AumixSound
  OBVIOUS
<1>1. ticks * MixPtime <= (now - woke) + MixPtime
  <2>1. /\ ts \in Nat /\ now \in Nat /\ woke \in Nat /\ ticks \in Nat /\ MixPtime \in Nat
        /\ woke <= now /\ ticks * MixPtime \in Nat
        /\ \/ ts = 0 /\ ticks = 0
           \/ woke + ticks * MixPtime <= ts /\ ts <= now + MixPtime
    BY AumixAssumption DEF AumixInv, AumixTiming
  <2>2. ticks = 0 => ticks * MixPtime = 0
    BY <2>1
  <2> QED
    BY <2>1, <2>2
<1>2. IsInjective(srcl)
  BY ListsSet DEF AumixInv, AumixLists
<1> QED
  BY <1>1, <1>2 DEF AumixInv, AumixLists, AumixHeard, AumixOwned, AumixWaits, AumixSound

----------------------------------------------------------------------------
(* The layouts of the video mixer *)

LEMMA MulMono ==
  ASSUME NEW w \in Nat, NEW a \in Nat, NEW b \in Nat, a <= b
  PROVE  w * a \in Nat /\ w * b \in Nat /\ w * a <= w * b
<1>1. b - a \in Nat /\ b = a + (b - a)
  OBVIOUS
<1>2. w * b = w * a + w * (b - a)
  BY <1>1
<1>3. w * a \in Nat /\ w * (b - a) \in Nat
  BY <1>1
<1> QED
  BY <1>2, <1>3

(* A tile and the next one in its row or column *)
LEMMA MulNext ==
  ASSUME NEW w \in Nat, NEW a \in Nat, NEW b \in Nat, a < b
  PROVE  w * a + w <= w * b /\ w * a \in Nat /\ w * b \in Nat
<1>1. a + 1 \in Nat /\ a + 1 <= b
  OBVIOUS
<1>2. w * (a + 1) <= w * b /\ w * a \in Nat /\ w * b \in Nat
  BY <1>1, MulMono
<1>3. w * (a + 1) = w * a + w
  OBVIOUS
<1> QED
  BY <1>2, <1>3

LEMMA Quotient ==
  ASSUME NEW t \in Nat, NEW k \in Nat, k > 0
  PROVE  /\ t \div k \in Nat /\ t % k \in 0 .. k - 1
         /\ t = k * (t \div k) + (t % k)
OBVIOUS

LEMMA QuotientFits ==
  ASSUME NEW t \in Nat, NEW k \in Nat, k > 0
  PROVE  t \div k \in Nat /\ (t \div k) * k \in Nat /\ (t \div k) * k <= t
<1> DEFINE w == t \div k
           e == t % k
<1>1. w \in Nat /\ e \in Nat /\ t = k * w + e
  BY Quotient
<1> HIDE DEF w, e
<1>2. w * k = k * w /\ w * k \in Nat
  BY <1>1
<1>3. w * k <= t
  BY <1>1, <1>2
<1> QED
  BY <1>1, <1>2, <1>3 DEF w

(* calc_rows finds a square that has room. *)
LEMMA RowsFit ==
  ASSUME NEW n \in Nat
  PROVE  calc_rows(n) \in Nat /\ calc_rows(n) >= 2 /\ n <= calc_rows(n) * calc_rows(n)
<1> DEFINE Fit == {r \in Nat : 2 <= r /\ n <= r * r}
           Least(r) == n <= r * r /\ \A q \in 2 .. r - 1 : q * q < n
<1>1. n + 2 \in Fit
  <2>1. (n + 2) * (n + 2) = n * (n + 2) + 2 * (n + 2) /\ n * (n + 2) \in Nat
    OBVIOUS
  <2>2. n <= (n + 2) * (n + 2)
    BY <2>1
  <2> QED
    BY <2>2
<1>2. Fit \in SUBSET Nat /\ Fit # {}
  BY <1>1
<1>3. PICK r \in Fit : \A y \in Fit : r <= y
  BY <1>2, LeastNatural
<1>4. r \in Nat /\ 2 <= r /\ n <= r * r /\ r <= n + 2
  BY <1>1, <1>3
<1>5. \A q \in 2 .. r - 1 : q * q < n
  <2> SUFFICES ASSUME NEW q \in 2 .. r - 1, ~(q * q < n) PROVE FALSE
    OBVIOUS
  <2>1. q \in Nat /\ 2 <= q /\ q < r
    BY <1>4
  <2>2. q * q \in Nat
    BY <2>1
  <2>3. q \in Fit
    BY <2>1, <2>2
  <2> QED
    BY <1>3, <1>4, <2>1, <2>3
<1>6. r \in 2 .. n + 2 /\ Least(r)
  BY <1>4, <1>5
<1>7. calc_rows(n) = CHOOSE x \in 2 .. n + 2 : Least(x)
  BY DEF calc_rows
<1> HIDE DEF Least
<1>8. calc_rows(n) \in 2 .. n + 2 /\ Least(calc_rows(n))
  BY <1>6, <1>7
<1> QED
  BY <1>8 DEF Least

LEMMA HalfFits ==
  ASSUME NEW n \in Nat, NEW full \in BOOLEAN
  PROVE  Half(n, full) \in Nat /\ Half(n, full) >= 3 /\ 2 * Half(n, full) >= n
<1> DEFINE m == IF full THEN 12 ELSE 6
           x == IF n + 1 > m THEN n + 1 ELSE m
<1>1. m \in Nat /\ m >= 6
  OBVIOUS
<1>2. x \in Nat /\ x >= 6 /\ x >= n + 1
  BY <1>1
<1>3. Half(n, full) = x \div 2
  BY DEF Half
<1> HIDE DEF x
<1>4. x \div 2 \in Nat /\ 2 * (x \div 2) + 1 >= x
  BY <1>2
<1> QED
  BY <1>2, <1>3, <1>4

Rectangle == [x : Nat, y : Nat, w : Nat]

(* The grid: the width of a tile, and where it is *)
Cell(n) == TxSize \div calc_rows(n)

GridAt(n, i) ==
  [x |-> Cell(n) * (i % calc_rows(n)), y |-> Cell(n) * (i \div calc_rows(n)), w |-> Cell(n)]

LEMMA GridNumbers ==
  ASSUME NEW n \in Nat, NEW i \in Nat
  PROVE  /\ calc_rows(n) \in Nat /\ calc_rows(n) >= 2 /\ n <= calc_rows(n) * calc_rows(n)
         /\ Cell(n) \in Nat /\ Cell(n) * calc_rows(n) <= TxSize
         /\ i % calc_rows(n) \in 0 .. calc_rows(n) - 1 /\ i \div calc_rows(n) \in Nat
         /\ i = calc_rows(n) * (i \div calc_rows(n)) + (i % calc_rows(n))
<1> DEFINE r == calc_rows(n)
<1>1. r \in Nat /\ r >= 2 /\ n <= r * r
  BY RowsFit
<1>2. Cell(n) = TxSize \div r
  BY Zenon DEF Cell
<1> HIDE DEF r
<1>3. TxSize \div r \in Nat /\ (TxSize \div r) * r <= TxSize
  BY <1>1, QuotientFits, VidmixAssumption
<1>4. i % r \in 0 .. r - 1 /\ i \div r \in Nat /\ i = r * (i \div r) + (i % r)
  BY <1>1, Quotient
<1> QED
  BY <1>1, <1>2, <1>3, <1>4 DEF r

LEMMA GridRect ==
  ASSUME NEW n, NEW i, NEW this, NEW full
  PROVE  Rect(n, i, FALSE, this, full) = {GridAt(n, i)}
BY Zenon DEF Rect, GridAt, Cell

LEMMA GridTyped ==
  ASSUME NEW n \in Nat, NEW i \in Nat, NEW this, NEW full,
         NEW q \in Rect(n, i, FALSE, this, full)
  PROVE  q \in Rectangle
<1> DEFINE w == Cell(n)
           c == i % calc_rows(n)
           l == i \div calc_rows(n)
<1> DEFINE r == calc_rows(n)
<1>1. /\ r \in Nat /\ r >= 2 /\ w \in Nat /\ c \in 0 .. r - 1 /\ l \in Nat
      /\ q = GridAt(n, i)
  <2>1. q = GridAt(n, i)
    BY GridRect
  <2> QED
    BY <2>1, GridNumbers
<1>2. GridAt(n, i) = [x |-> w * c, y |-> w * l, w |-> w]
  BY Zenon DEF GridAt
<1> HIDE DEF w, c, l, r
<1>3. w * c \in Nat /\ w * l \in Nat
  BY <1>1
<1> QED
  BY <1>1, <1>2, <1>3 DEF Rectangle

LEMMA GridInside ==
  ASSUME NEW n \in Nat, NEW i \in Nat, i < n, NEW this, NEW full
  PROVE  \E q \in Rect(n, i, FALSE, this, full) : Inside(q)
<1> DEFINE w == Cell(n)
           r == calc_rows(n)
           c == i % calc_rows(n)
           l == i \div calc_rows(n)
<1>1. /\ r \in Nat /\ r >= 2 /\ n <= r * r /\ w \in Nat /\ w * r <= TxSize
      /\ c \in 0 .. r - 1 /\ l \in Nat /\ i = r * l + c
      /\ GridAt(n, i) \in Rect(n, i, FALSE, this, full)
  <2>1. GridAt(n, i) \in Rect(n, i, FALSE, this, full)
    BY GridRect
  <2> QED
    BY <2>1, GridNumbers
<1>2. GridAt(n, i) = [x |-> w * c, y |-> w * l, w |-> w]
  BY Zenon DEF GridAt
<1> HIDE DEF w, r, c, l
<1>3. c \in Nat /\ c < r
  BY <1>1
<1>4. l < r
  <2> SUFFICES ASSUME r <= l PROVE FALSE
    BY <1>1
  <2>1. r * r <= r * l /\ r * r \in Nat /\ r * l \in Nat
    BY <1>1, MulMono
  <2> QED
    BY <1>1, <1>3, <2>1
<1>5. w * c + w <= w * r /\ w * l + w <= w * r /\ w * r \in Nat
      /\ w * c \in Nat /\ w * l \in Nat
  BY <1>1, <1>3, <1>4, MulNext
<1>6. w * c + w <= TxSize /\ w * l + w <= TxSize
  BY <1>1, <1>5, VidmixAssumption
<1>7. Inside(GridAt(n, i))
  BY <1>2, <1>6 DEF Inside
<1> QED
  BY <1>1, <1>7

LEMMA GridApart ==
  ASSUME NEW n \in Nat, NEW i \in Nat, NEW j \in Nat, i # j,
         NEW this, NEW that, NEW full,
         NEW p \in Rect(n, i, FALSE, this, full), NEW q \in Rect(n, j, FALSE, that, full)
  PROVE  Apart(p, q)
<1> DEFINE r == calc_rows(n)
           w == Cell(n)
           a == i % calc_rows(n)
           b == j % calc_rows(n)
           k == i \div calc_rows(n)
           l == j \div calc_rows(n)
<1>1. /\ r \in Nat /\ r >= 2 /\ w \in Nat /\ a \in 0 .. r - 1 /\ k \in Nat
      /\ i = r * k + a /\ p = GridAt(n, i)
  <2>1. p = GridAt(n, i)
    BY GridRect
  <2> QED
    BY <2>1, GridNumbers
<1>2. b \in 0 .. r - 1 /\ l \in Nat /\ j = r * l + b /\ q = GridAt(n, j)
  <2>1. q = GridAt(n, j)
    BY GridRect
  <2> QED
    BY <2>1, GridNumbers
<1>3. /\ GridAt(n, i) = [x |-> w * a, y |-> w * k, w |-> w]
      /\ GridAt(n, j) = [x |-> w * b, y |-> w * l, w |-> w]
  BY Zenon DEF GridAt
<1> HIDE DEF r, a, b, k, l, w
<1>4. /\ p.x = w * a /\ p.y = w * k /\ p.w = w
      /\ q.x = w * b /\ q.y = w * l /\ q.w = w
  BY <1>1, <1>2, <1>3
<1>5. a # b \/ k # l
  BY <1>1, <1>2
<1>6. \/ w * a + w <= w * b \/ w * b + w <= w * a
      \/ w * k + w <= w * l \/ w * l + w <= w * k
  <2>1. CASE a < b
    BY <1>1, <1>2, <2>1, MulNext
  <2>2. CASE b < a
    BY <1>1, <1>2, <2>2, MulNext
  <2>3. CASE k < l
    BY <1>1, <1>2, <2>3, MulNext
  <2>4. CASE l < k
    BY <1>1, <1>2, <2>4, MulNext
  <2> QED
    BY <1>1, <1>2, <1>5, <2>1, <2>2, <2>3, <2>4
<1> QED
  BY <1>4, <1>6 DEF Apart

(* With a focus: the large tile, a column and a row *)
Share(n, full) == TxSize \div Half(n, full)
Large(n, full) == (TxSize * (Half(n, full) - 1)) \div Half(n, full)

LargeAt(n, full) == [x |-> 0, y |-> 0, w |-> Large(n, full)]
ColumnAt(n, full, i) ==
  [x |-> TxSize - Share(n, full), y |-> Share(n, full) * i, w |-> Share(n, full)]
RowAt(n, full, i) ==
  [x |-> Share(n, full) * (2 * Half(n, full) - 2 - i), y |-> TxSize - Share(n, full),
   w |-> Share(n, full)]

(* How the large tile and the small ones share the width *)
LEMMA FocusShares ==
  ASSUME NEW n \in Nat, NEW full \in BOOLEAN
  PROVE  /\ Half(n, full) \in Nat /\ Half(n, full) >= 3 /\ 2 * Half(n, full) >= n
         /\ Share(n, full) \in Nat /\ Large(n, full) \in Nat /\ TxSize \in Nat
         /\ Share(n, full) * Half(n, full) <= TxSize
         /\ Large(n, full) + Share(n, full) <= TxSize
<1> DEFINE k == Half(n, full)
           w == Share(n, full)
           big == Large(n, full)
<1>1. k \in Nat /\ k >= 3 /\ 2 * k >= n /\ TxSize \in Nat
  BY HalfFits, VidmixAssumption
<1>2. w = TxSize \div k /\ big = (TxSize * (k - 1)) \div k
  BY Zenon DEF Share, Large
<1> HIDE DEF k, w, big
<1>3. w \in Nat /\ w * k <= TxSize /\ w * k \in Nat
  BY <1>1, <1>2, QuotientFits
<1>4. k - 1 \in Nat /\ TxSize * (k - 1) \in Nat /\ TxSize * (k - 1) = TxSize * k - TxSize
  BY <1>1
<1>5. big \in Nat /\ big * k \in Nat /\ big * k <= TxSize * (k - 1)
  BY <1>1, <1>2, <1>4, QuotientFits
<1>6. big + w <= TxSize
  <2> SUFFICES ASSUME TxSize < big + w PROVE FALSE
    BY <1>1, <1>3, <1>5
  <2> DEFINE tk == TxSize * k
             bk == big * k
             wk == w * k
  <2>1. k * TxSize + k <= k * (big + w)
    BY <1>1, <1>3, <1>5, MulNext
  <2>2. k * TxSize = tk /\ k * (big + w) = bk + wk
    BY <1>1, <1>3, <1>5
  <2>3. tk \in Nat /\ bk \in Nat /\ wk \in Nat /\ wk <= TxSize /\ bk <= tk - TxSize
    BY <1>1, <1>3, <1>4, <1>5
  <2> HIDE DEF tk, bk, wk
  <2>4. tk + k <= bk + wk
    BY <2>1, <2>2
  <2> QED
    BY <1>1, <2>3, <2>4
<1> QED
  BY <1>1, <1>3, <1>5, <1>6 DEF k, w, big

LEMMA LargeRect ==
  ASSUME NEW n \in Nat, NEW i \in Nat, NEW full \in BOOLEAN
  PROVE  Rect(n, i, TRUE, TRUE, full) = {LargeAt(n, full)}
BY Zenon DEF Rect, LargeAt, Large

LEMMA SmallRect ==
  ASSUME NEW n \in Nat, NEW i \in Nat, NEW full \in BOOLEAN
  PROVE  Rect(n, i, TRUE, FALSE, full) =
           IF i < Half(n, full) THEN {ColumnAt(n, full, i)}
           ELSE IF i < 2 * Half(n, full) - 1 THEN {RowAt(n, full, i)}
           ELSE {}
BY Zenon DEF Rect, ColumnAt, RowAt, Share

LEMMA SmallOne ==
  ASSUME NEW n \in Nat, NEW i \in Nat, NEW full \in BOOLEAN,
         NEW q \in Rect(n, i, TRUE, FALSE, full)
  PROVE  \/ i < Half(n, full) /\ q = ColumnAt(n, full, i)
         \/ ~(i < Half(n, full)) /\ i < 2 * Half(n, full) - 1 /\ q = RowAt(n, full, i)
<1>1. Rect(n, i, TRUE, FALSE, full) =
        IF i < Half(n, full) THEN {ColumnAt(n, full, i)}
        ELSE IF i < 2 * Half(n, full) - 1 THEN {RowAt(n, full, i)}
        ELSE {}
  BY SmallRect, Zenon
<1> QED
  BY <1>1

LEMMA ColumnFits ==
  ASSUME NEW n \in Nat, NEW full \in BOOLEAN, NEW i \in Nat, i < Half(n, full)
  PROVE  ColumnAt(n, full, i) \in Rectangle /\ Inside(ColumnAt(n, full, i))
<1> DEFINE k == Half(n, full)
           w == Share(n, full)
           q == ColumnAt(n, full, i)
<1>1. /\ k \in Nat /\ w \in Nat /\ TxSize \in Nat /\ w * k <= TxSize /\ i < k
      /\ Large(n, full) \in Nat /\ Large(n, full) + w <= TxSize
  BY FocusShares
<1>2. q = [x |-> TxSize - w, y |-> w * i, w |-> w]
  BY Zenon DEF ColumnAt
<1> HIDE DEF k, w, q
<1>3. w * i \in Nat /\ w * i + w <= w * k /\ w * k \in Nat
  BY <1>1, MulNext
<1>4. w * i + w <= TxSize /\ TxSize - w \in Nat /\ (TxSize - w) + w <= TxSize
  BY <1>1, <1>3
<1>5. q \in Rectangle /\ Inside(q)
  BY <1>1, <1>2, <1>3, <1>4 DEF Rectangle, Inside
<1> QED
  BY <1>5 DEF q

(* The row ends before the column. *)
LEMMA RowFits ==
  ASSUME NEW n \in Nat, NEW full \in BOOLEAN, NEW i \in Nat,
         ~(i < Half(n, full)), i < 2 * Half(n, full) - 1
  PROVE  /\ RowAt(n, full, i) \in Rectangle /\ Inside(RowAt(n, full, i))
         /\ Share(n, full) * (2 * Half(n, full) - 2 - i) + Share(n, full)
              <= TxSize - Share(n, full)
<1> DEFINE k == Half(n, full)
           w == Share(n, full)
           q == RowAt(n, full, i)
           c == 2 * k - 2 - i
<1>1. /\ k \in Nat /\ k >= 3 /\ w \in Nat /\ TxSize \in Nat /\ w * k <= TxSize
      /\ ~(i < k) /\ i < 2 * k - 1
      /\ Large(n, full) \in Nat /\ Large(n, full) + w <= TxSize
  BY FocusShares
<1>2. q = [x |-> w * c, y |-> TxSize - w, w |-> w]
  BY Zenon DEF RowAt
<1> HIDE DEF k, w, q
<1>3. c \in Nat /\ c < k - 1 /\ k - 1 \in Nat /\ k - 1 < k
  BY <1>1
<1> HIDE DEF c
<1>4. w * c + w <= w * (k - 1) /\ w * c \in Nat /\ w * (k - 1) \in Nat
  BY <1>1, <1>3, MulNext
<1>5. w * (k - 1) + w <= w * k /\ w * k \in Nat
  BY <1>1, <1>3, MulNext
<1>6. w * c + w <= TxSize - w /\ TxSize - w \in Nat /\ TxSize - w <= TxSize
      /\ (TxSize - w) + w <= TxSize
  BY <1>1, <1>4, <1>5
<1>7. q \in Rectangle /\ Inside(q)
  BY <1>1, <1>2, <1>4, <1>6 DEF Rectangle, Inside
<1> QED
  BY <1>6, <1>7 DEF q, w, k, c

LEMMA FocusTyped ==
  ASSUME NEW n \in Nat, NEW i \in Nat, NEW this \in BOOLEAN, NEW full \in BOOLEAN,
         NEW q \in Rect(n, i, TRUE, this, full)
  PROVE  q \in Rectangle /\ Inside(q)
<1>1. \/ q = LargeAt(n, full)
      \/ i < Half(n, full) /\ q = ColumnAt(n, full, i)
      \/ ~(i < Half(n, full)) /\ i < 2 * Half(n, full) - 1 /\ q = RowAt(n, full, i)
  <2>1. CASE this = TRUE
    <3>1. Rect(n, i, TRUE, this, full) = {LargeAt(n, full)}
      BY <2>1, LargeRect, Zenon
    <3> QED
      BY <3>1
  <2>2. CASE this = FALSE
    BY <2>2, SmallOne, Zenon
  <2> QED
    BY <2>1, <2>2
<1>2. LargeAt(n, full) \in Rectangle /\ Inside(LargeAt(n, full))
  <2> DEFINE big == Large(n, full)
  <2>1. big \in Nat /\ big <= TxSize /\ TxSize \in Nat
    BY FocusShares
  <2>2. LargeAt(n, full) = [x |-> 0, y |-> 0, w |-> big]
    BY Zenon DEF LargeAt
  <2> HIDE DEF big
  <2> QED
    BY <2>1, <2>2 DEF Rectangle, Inside
<1> QED
  BY <1>1, <1>2, ColumnFits, RowFits

LEMMA FocusThereRect ==
  ASSUME NEW n \in Nat, NEW i \in Nat, NEW this \in BOOLEAN, NEW full \in BOOLEAN,
         this \/ i + 1 < n
  PROVE  \E q \in Rect(n, i, TRUE, this, full) : Inside(q)
<1>1. Half(n, full) \in Nat /\ 2 * Half(n, full) >= n
  BY FocusShares
<1>2. ~this => i < 2 * Half(n, full) - 1
  BY <1>1
<1>3. \E q : q \in Rect(n, i, TRUE, this, full)
  <2>1. CASE this = TRUE
    BY <2>1, LargeRect, Zenon
  <2>2. CASE this = FALSE
    <3>1. i < 2 * Half(n, full) - 1
      BY <1>2, <2>2
    <3> QED
      BY <2>2, <3>1, SmallRect, Zenon
  <2> QED
    BY <2>1, <2>2
<1> QED
  BY <1>3, FocusTyped

(* Two small tiles of a layout with a focus *)
LEMMA SmallApart ==
  ASSUME NEW n \in Nat, NEW i \in Nat, NEW j \in Nat, NEW full \in BOOLEAN, i < j,
         NEW p \in Rect(n, i, TRUE, FALSE, full), NEW q \in Rect(n, j, TRUE, FALSE, full)
  PROVE  Apart(p, q) /\ Apart(q, p)
<1> DEFINE k == Half(n, full)
           w == Share(n, full)
<1>1. k \in Nat /\ k >= 3 /\ w \in Nat /\ TxSize \in Nat
  BY FocusShares
<1>2. /\ \/ i < k /\ p = ColumnAt(n, full, i)
         \/ ~(i < k) /\ i < 2 * k - 1 /\ p = RowAt(n, full, i)
      /\ \/ j < k /\ q = ColumnAt(n, full, j)
         \/ ~(j < k) /\ j < 2 * k - 1 /\ q = RowAt(n, full, j)
  BY SmallOne, Zenon
<1>3. \A a \in Nat :
        /\ ColumnAt(n, full, a) = [x |-> TxSize - w, y |-> w * a, w |-> w]
        /\ RowAt(n, full, a) = [x |-> w * (2 * k - 2 - a), y |-> TxSize - w, w |-> w]
  BY Zenon DEF ColumnAt, RowAt
<1>4. ~(j < k) /\ j < 2 * k - 1 => w * (2 * k - 2 - j) + w <= TxSize - w
  BY RowFits
<1> HIDE DEF k, w
<1>5. CASE i < k /\ j < k
  <2>1. p.y = w * i /\ p.w = w /\ q.y = w * j
    BY <1>2, <1>3, <1>5
  <2>2. w * i + w <= w * j
    BY <1>1, MulNext
  <2> QED
    BY <2>1, <2>2 DEF Apart
<1>6. CASE i < k /\ ~(j < k)
  <2>1. p.x = TxSize - w /\ q.x = w * (2 * k - 2 - j) /\ q.w = w /\ j < 2 * k - 1
    BY <1>2, <1>3, <1>6
  <2>2. q.x + q.w <= p.x
    BY <1>4, <1>6, <2>1
  <2> QED
    BY <2>2 DEF Apart
<1>7. CASE ~(i < k)
  <2> DEFINE a == 2 * k - 2 - i
             b == 2 * k - 2 - j
  <2>1. ~(j < k) /\ j < 2 * k - 1
    BY <1>1, <1>2, <1>7
  <2>2. p.x = w * a /\ q.x = w * b /\ q.w = w
    BY <1>2, <1>3, <1>7, <2>1
  <2>3. a \in Nat /\ b \in Nat /\ b < a
    BY <1>1, <2>1
  <2> HIDE DEF a, b
  <2>4. w * b + w <= w * a
    BY <1>1, <2>3, MulNext
  <2> QED
    BY <2>2, <2>4 DEF Apart
<1> QED
  BY <1>5, <1>6, <1>7

(* The large tile and a small one *)
LEMMA LargeApart ==
  ASSUME NEW n \in Nat, NEW i \in Nat, NEW full \in BOOLEAN,
         NEW q \in Rect(n, i, TRUE, FALSE, full)
  PROVE  Apart(LargeAt(n, full), q) /\ Apart(q, LargeAt(n, full))
<1> DEFINE w == Share(n, full)
           big == Large(n, full)
           p == LargeAt(n, full)
<1>1. w \in Nat /\ big \in Nat /\ TxSize \in Nat /\ big + w <= TxSize
  BY FocusShares
<1>2. q = ColumnAt(n, full, i) \/ q = RowAt(n, full, i)
  BY SmallOne, Zenon
<1>3. p = [x |-> 0, y |-> 0, w |-> big]
  BY Zenon DEF LargeAt
<1>4. ColumnAt(n, full, i).x = TxSize - w /\ RowAt(n, full, i).y = TxSize - w
  BY DEF ColumnAt, RowAt
<1> HIDE DEF w, big, p
<1>5. 0 + big <= TxSize - w
  BY <1>1
<1>6. p.x + p.w <= TxSize - w /\ p.y + p.w <= TxSize - w
  BY <1>3, <1>5
<1>7. Apart(p, q) /\ Apart(q, p)
  BY <1>2, <1>4, <1>6 DEF Apart
<1> QED
  BY <1>7 DEF p

LEMMA FocusApart ==
  ASSUME NEW n \in Nat, NEW i \in Nat, NEW j \in Nat,
         NEW this \in BOOLEAN, NEW that \in BOOLEAN, NEW full \in BOOLEAN,
         ~(this /\ that), this \/ that \/ i # j,
         NEW p \in Rect(n, i, TRUE, this, full), NEW q \in Rect(n, j, TRUE, that, full)
  PROVE  Apart(p, q)
<1>1. CASE this = TRUE
  <2>1. that = FALSE
    BY <1>1
  <2>2. p = LargeAt(n, full) /\ q \in Rect(n, j, TRUE, FALSE, full)
    <3>1. Rect(n, i, TRUE, this, full) = {LargeAt(n, full)}
      BY <1>1, LargeRect, Zenon
    <3>2. p = LargeAt(n, full)
      BY <3>1
    <3> QED
      BY <2>1, <3>2, Zenon
  <2> QED
    BY <2>2, LargeApart
<1>2. CASE that = TRUE
  <2>1. this = FALSE
    BY <1>2
  <2>2. q = LargeAt(n, full) /\ p \in Rect(n, i, TRUE, FALSE, full)
    <3>1. Rect(n, j, TRUE, that, full) = {LargeAt(n, full)}
      BY <1>2, LargeRect, Zenon
    <3>2. q = LargeAt(n, full)
      BY <3>1
    <3> QED
      BY <2>1, <3>2, Zenon
  <2> QED
    BY <2>2, LargeApart
<1>3. CASE this = FALSE /\ that = FALSE
  <2>1. p \in Rect(n, i, TRUE, FALSE, full) /\ q \in Rect(n, j, TRUE, FALSE, full)
    BY <1>3, Zenon
  <2>2. i < j \/ j < i
    BY <1>3
  <2> QED
    BY <2>1, <2>2, SmallApart
<1> QED
  BY <1>1, <1>2, <1>3

----------------------------------------------------------------------------
(* The sources that a round paints *)

(* The members before the i-th that are not f *)
Before(p, f, i) == {j \in 1 .. i - 1 : p[j] # f}

LEMMA UpTo ==
  ASSUME NEW k \in Nat
  PROVE  IsFiniteSet(1 .. k) /\ Cardinality(1 .. k) = k
<1>1. /\ IsFiniteSet(1 .. k)
      /\ Cardinality(1 .. k) = IF 1 > k THEN 0 ELSE k - 1 + 1
  BY FS_Interval
<1> QED
  BY <1>1

LEMMA BeforeBound ==
  ASSUME NEW S, NEW p, Lists(p, S), NEW f, NEW i \in 1 .. Len(p)
  PROVE  /\ IsFiniteSet(Before(p, f, i)) /\ Cardinality(Before(p, f, i)) \in Nat
         /\ Cardinality(Before(p, f, i)) <= i - 1
         /\ f \in S /\ p[i] # f => Cardinality(Before(p, f, i)) + 2 <= Len(p)
<1>1. Len(p) \in Nat /\ i \in Nat /\ i >= 1 /\ i <= Len(p)
  BY ListsSet
<1>2. IsFiniteSet(1 .. i - 1) /\ Cardinality(1 .. i - 1) = i - 1
  <2>1. i - 1 \in Nat
    BY <1>1
  <2> QED
    BY <2>1, UpTo
<1>3. Before(p, f, i) \subseteq 1 .. i - 1
  BY DEF Before
<1>4. /\ IsFiniteSet(Before(p, f, i)) /\ Cardinality(Before(p, f, i)) \in Nat
      /\ Cardinality(Before(p, f, i)) <= i - 1
  BY <1>2, <1>3, FS_Subset, FS_CardinalityType
<1>5. ASSUME f \in S, p[i] # f
      PROVE  Cardinality(Before(p, f, i)) + 2 <= Len(p)
  <2>1. PICK k \in 1 .. Len(p) : p[k] = f
    BY <1>5 DEF Lists
  <2> DEFINE A == 1 .. Len(p)
  <2>2. IsFiniteSet(A) /\ Cardinality(A) = Len(p)
    BY <1>1, UpTo
  <2>3. i \in A /\ k \in A \ {i}
    BY <1>5, <2>1
  <2>4. IsFiniteSet(A \ {i}) /\ Cardinality(A \ {i}) = Len(p) - 1
    BY <2>2, <2>3, FS_RemoveElement
  <2>5. IsFiniteSet((A \ {i}) \ {k}) /\ Cardinality((A \ {i}) \ {k}) = Len(p) - 1 - 1
    BY <2>3, <2>4, FS_RemoveElement
  <2>6. Before(p, f, i) \subseteq (A \ {i}) \ {k}
    BY <1>1, <2>1 DEF Before
  <2>7. Cardinality(Before(p, f, i)) <= Cardinality((A \ {i}) \ {k})
    BY <2>5, <2>6, FS_Subset
  <2> QED
    BY <1>1, <1>4, <2>5, <2>7
<1> QED
  BY <1>4, <1>5

LEMMA BeforeGrows ==
  ASSUME NEW S, NEW p, Lists(p, S), NEW f,
         NEW i \in 1 .. Len(p), NEW j \in 1 .. Len(p), i < j, p[i] # f
  PROVE  Cardinality(Before(p, f, i)) < Cardinality(Before(p, f, j))
<1>1. /\ IsFiniteSet(Before(p, f, i)) /\ Cardinality(Before(p, f, i)) \in Nat
      /\ IsFiniteSet(Before(p, f, j)) /\ Cardinality(Before(p, f, j)) \in Nat
  BY BeforeBound
<1>2. Len(p) \in Nat
  BY ListsSet
<1>3. /\ Before(p, f, i) \subseteq Before(p, f, j)
      /\ i \in Before(p, f, j) /\ i \notin Before(p, f, i)
  BY <1>2 DEF Before
<1>4. /\ Cardinality(Before(p, f, i)) <= Cardinality(Before(p, f, j))
      /\ Cardinality(Before(p, f, i)) = Cardinality(Before(p, f, j))
           => Before(p, f, i) = Before(p, f, j)
  BY <1>1, <1>3, FS_Subset
<1> QED
  BY <1>1, <1>3, <1>4

Tile == [of : Nat, rx : RxSize \cup {0, 1}, rect : Rectangle]

SrcRecord ==
  [up : BOOLEAN, th : {"none", "up", "stuck"}, run : BOOLEAN, selfview : BOOLEAN,
   focus : Vsrc \cup {0}, full : BOOLEAN, clear : BOOLEAN, tx : BOOLEAN,
   rx : RxSize \cup {0}, tiles : SUBSET Tile]

VidmixLists ==
  /\ \E n \in Nat : crowd = 101 .. 100 + n
  /\ ToSet(vlist) \subseteq Vsrc \cup crowd
  /\ Lists(vlist, ToSet(vlist))

(* What is left in the frame of s from the rounds before is still right. *)
Fresh(s) == vsrc[s].clear \/ vsrc[s].tiles \subseteq TilesOf(s)

(* The inductive invariant of the video mixer *)
VidmixInv ==
  /\ VidmixLists /\ stale = {} /\ vsrc \in [Vsrc -> SrcRecord]
  /\ \A s \in Vsrc : s \in ToSet(vlist) => vsrc[s].up /\ Fresh(s)

LEMMA Numbers ==
  ASSUME VidmixLists
  PROVE  /\ Vsrc \cup crowd \subseteq Nat /\ 0 \notin Vsrc \cup crowd
         /\ Vsrc \cap crowd = {}
BY VidmixAssumption DEF VidmixLists

(* Those painted, and n *)
PaintedSet(s) == IF vsrc[s].selfview THEN ToSet(vlist) ELSE ToSet(vlist) \ {s}

LEMMA PaintedLists ==
  ASSUME VidmixLists, NEW s \in Vsrc
  PROVE  /\ Lists(Painted(s), PaintedSet(s)) /\ ToSet(Painted(s)) = PaintedSet(s)
         /\ PaintedSet(s) \subseteq ToSet(vlist)
         /\ Len(Painted(s)) \in Nat /\ CountOf(s) \in Int /\ CountOf(s) >= -1
         /\ Len(Painted(s)) <= CountOf(s) + 1
         /\ vsrc[s].selfview \/ s \in ToSet(vlist) => Len(Painted(s)) = CountOf(s)
         /\ NoRows(s) => Len(Painted(s)) = 0
<1>1. Lists(vlist, ToSet(vlist)) /\ Len(vlist) \in Nat
  BY ListsSet DEF VidmixLists
<1>2. /\ Lists(Unlinked(vlist, s), ToSet(vlist) \ {s})
      /\ Len(Unlinked(vlist, s)) = IF s \in ToSet(vlist) THEN Len(vlist) - 1 ELSE Len(vlist)
  BY <1>1, ListsUnlinked
<1>3. Lists(Painted(s), PaintedSet(s)) /\ PaintedSet(s) \subseteq ToSet(vlist)
  BY <1>1, <1>2 DEF Painted, PaintedSet
<1>4. ToSet(Painted(s)) = PaintedSet(s) /\ Len(Painted(s)) \in Nat
  BY <1>3, ListsSet
<1>5. CountOf(s) = IF vsrc[s].selfview THEN Len(vlist) ELSE Len(vlist) - 1
  BY DEF CountOf
<1>6. Len(Painted(s)) = IF vsrc[s].selfview \/ s \notin ToSet(vlist) THEN Len(vlist)
                        ELSE Len(vlist) - 1
  BY <1>2 DEF Painted
<1>7. /\ CountOf(s) \in Int /\ CountOf(s) >= -1
      /\ Len(Painted(s)) <= CountOf(s) + 1
      /\ vsrc[s].selfview \/ s \in ToSet(vlist) => Len(Painted(s)) = CountOf(s)
  BY <1>1, <1>5, <1>6
<1>8. NoRows(s) => Len(Painted(s)) = 0
  BY <1>4, <1>7 DEF NoRows
<1> QED
  BY <1>3, <1>4, <1>7, <1>8

(* The numbers of the tiles *)
LEMMA IdxOfTiles ==
  ASSUME VidmixLists, NEW s \in Vsrc, NEW i \in 1 .. Len(Painted(s))
  PROVE  /\ Painted(s)[i] \in PaintedSet(s)
         /\ IdxOf(s, i) \in Nat /\ IdxOf(s, i) <= i - 1
         /\ vsrc[s].focus \in PaintedSet(s) /\ Painted(s)[i] # vsrc[s].focus
              => IdxOf(s, i) + 2 <= Len(Painted(s))
         /\ \A j \in 1 .. Len(Painted(s)) :
              i # j /\ Painted(s)[i] # vsrc[s].focus /\ Painted(s)[j] # vsrc[s].focus
                => IdxOf(s, i) # IdxOf(s, j)
<1> DEFINE p == Painted(s)
           f == vsrc[s].focus
<1>1. Lists(p, PaintedSet(s))
  BY PaintedLists
<1>2. \A j \in 1 .. Len(p) : IdxOf(s, j) = Cardinality(Before(p, f, j))
  BY DEF IdxOf, Before
<1>3. p[i] \in PaintedSet(s) /\ Len(p) \in Nat /\ i \in 1 .. Len(p)
  BY <1>1, ListsSet
<1> HIDE DEF p, f
<1>4. \A j \in 1 .. Len(p) : Cardinality(Before(p, f, j)) \in Nat
  BY <1>1, BeforeBound
<1>5. /\ Cardinality(Before(p, f, i)) <= i - 1
      /\ f \in PaintedSet(s) /\ p[i] # f => Cardinality(Before(p, f, i)) + 2 <= Len(p)
  BY <1>1, <1>3, BeforeBound
<1>6. ASSUME NEW j \in 1 .. Len(p), i # j, p[i] # f, p[j] # f
      PROVE  Cardinality(Before(p, f, i)) # Cardinality(Before(p, f, j))
  <2>1. CASE i < j
    <3>1. Cardinality(Before(p, f, i)) < Cardinality(Before(p, f, j))
      BY <1>1, <1>3, <1>6, <2>1, BeforeGrows
    <3> QED
      BY <1>3, <1>4, <3>1
  <2>2. CASE j < i
    <3>1. Cardinality(Before(p, f, j)) < Cardinality(Before(p, f, i))
      BY <1>1, <1>3, <1>6, <2>2, BeforeGrows
    <3> QED
      BY <1>3, <1>4, <3>1
  <2> QED
    BY <1>3, <1>6, <2>1, <2>2
<1>7. \A j \in 1 .. Len(p) : i # j /\ p[i] # f /\ p[j] # f => IdxOf(s, i) # IdxOf(s, j)
  BY <1>2, <1>3, <1>6
<1> QED
  BY <1>2, <1>3, <1>4, <1>5, <1>7 DEF p, f

(* Where a tile comes from *)
LEMMA TileWhere ==
  ASSUME VidmixLists, NEW s \in Vsrc, NEW t \in TilesOf(s)
  PROVE  \E i \in 1 .. Len(Painted(s)) :
           /\ t = [of |-> Painted(s)[i], rx |-> RxOf(Painted(s)[i]), rect |-> t.rect]
           /\ Inside(t.rect) /\ RxOf(Painted(s)[i]) # 0
           /\ IF vsrc[s].full /\ Painted(s)[i] = vsrc[s].focus THEN t.rect = FullRect
              ELSE t.rect \in Rect(CountOf(s), IdxOf(s, i), vsrc[s].focus # 0,
                                   Painted(s)[i] = vsrc[s].focus, vsrc[s].full)
<1>1. PICK i \in 1 .. Len(Painted(s)) : t \in TileOf(s, i)
  BY DEF TilesOf
<1> DEFINE x == Painted(s)[i]
           rects == IF vsrc[s].full /\ x = vsrc[s].focus THEN {FullRect}
                    ELSE Rect(CountOf(s), IdxOf(s, i), vsrc[s].focus # 0,
                              x = vsrc[s].focus, vsrc[s].full)
<1>2. TileOf(s, i) = {[of |-> x, rx |-> RxOf(x), rect |-> r] :
                        r \in {q \in rects : RxOf(x) # 0 /\ Inside(q)}}
  BY Zenon DEF TileOf
<1>3. PICK r \in rects : /\ RxOf(x) # 0 /\ Inside(r)
                         /\ t = [of |-> x, rx |-> RxOf(x), rect |-> r]
  BY <1>1, <1>2
<1>4. t.rect = r
  BY <1>3
<1> QED
  BY <1>1, <1>3, <1>4

(* ... and who gets one *)
LEMMA TileThere ==
  ASSUME VidmixLists, NEW s \in Vsrc, NEW i \in 1 .. Len(Painted(s)),
         RxOf(Painted(s)[i]) # 0,
         NEW r, Inside(r),
         IF vsrc[s].full /\ Painted(s)[i] = vsrc[s].focus THEN r = FullRect
         ELSE r \in Rect(CountOf(s), IdxOf(s, i), vsrc[s].focus # 0,
                         Painted(s)[i] = vsrc[s].focus, vsrc[s].full)
  PROVE  \E t \in TilesOf(s) : t.of = Painted(s)[i]
<1> DEFINE x == Painted(s)[i]
           rects == IF vsrc[s].full /\ x = vsrc[s].focus THEN {FullRect}
                    ELSE Rect(CountOf(s), IdxOf(s, i), vsrc[s].focus # 0,
                              x = vsrc[s].focus, vsrc[s].full)
           t == [of |-> x, rx |-> RxOf(x), rect |-> r]
<1>1. TileOf(s, i) = {[of |-> x, rx |-> RxOf(x), rect |-> q] :
                        q \in {q \in rects : RxOf(x) # 0 /\ Inside(q)}}
  BY Zenon DEF TileOf
<1>2. r \in rects
  OBVIOUS
<1>3. t \in TileOf(s, i)
  BY <1>1, <1>2
<1>4. t \in TilesOf(s)
  BY <1>3 DEF TilesOf
<1> QED
  BY <1>4

LEMMA RxTyped ==
  ASSUME VidmixInv, NEW x \in Vsrc \cup crowd
  PROVE  RxOf(x) \in RxSize \cup {0, 1}
BY DEF VidmixInv, RxOf, SrcRecord

LEMMA TilesTyped ==
  ASSUME VidmixInv, NEW s \in Vsrc, ~NoRows(s)
  PROVE  TilesOf(s) \subseteq Tile
<1> SUFFICES ASSUME NEW t \in TilesOf(s) PROVE t \in Tile
  OBVIOUS
<1>1. VidmixLists /\ vsrc[s] \in SrcRecord
  BY DEF VidmixInv
<1>2. PICK i \in 1 .. Len(Painted(s)) :
        /\ t = [of |-> Painted(s)[i], rx |-> RxOf(Painted(s)[i]), rect |-> t.rect]
        /\ IF vsrc[s].full /\ Painted(s)[i] = vsrc[s].focus THEN t.rect = FullRect
           ELSE t.rect \in Rect(CountOf(s), IdxOf(s, i), vsrc[s].focus # 0,
                                Painted(s)[i] = vsrc[s].focus, vsrc[s].full)
  BY <1>1, TileWhere
<1>3. CountOf(s) \in Nat
  BY <1>1, PaintedLists DEF NoRows
<1>4. Painted(s)[i] \in Vsrc \cup crowd
  BY <1>1, IdxOfTiles, PaintedLists DEF VidmixLists
<1>5. Painted(s)[i] \in Nat /\ RxOf(Painted(s)[i]) \in RxSize \cup {0, 1}
  BY <1>1, <1>4, Numbers, RxTyped
<1>6. IdxOf(s, i) \in Nat /\ vsrc[s].full \in BOOLEAN
  BY <1>1, IdxOfTiles DEF SrcRecord
<1> DEFINE this == Painted(s)[i] = vsrc[s].focus
<1>7. this \in BOOLEAN
  OBVIOUS
<1>8. t.rect \in Rectangle
  <2>1. CASE vsrc[s].full /\ this
    BY <1>2, <2>1, VidmixAssumption DEF FullRect, Rectangle
  <2>2. CASE ~(vsrc[s].full /\ this) /\ vsrc[s].focus # 0
    <3>1. t.rect \in Rect(CountOf(s), IdxOf(s, i), TRUE, this, vsrc[s].full)
      BY <1>2, <2>2
    <3> HIDE DEF this
    <3> QED
      BY <1>3, <1>6, <1>7, <3>1, FocusTyped
  <2>3. CASE ~(vsrc[s].full /\ this) /\ vsrc[s].focus = 0
    <3>1. t.rect \in Rect(CountOf(s), IdxOf(s, i), FALSE, this, vsrc[s].full)
      BY <1>2, <2>3
    <3> HIDE DEF this
    <3> QED
      BY <1>3, <1>6, <3>1, GridTyped
  <2> QED
    BY <2>1, <2>2, <2>3
<1> QED
  BY <1>2, <1>5, <1>8 DEF Tile

LEMMA TilesApart ==
  ASSUME VidmixInv, NEW s \in Vsrc, ~NoRows(s),
         NEW t \in TilesOf(s), NEW u \in TilesOf(s), t.of # u.of,
         ~(vsrc[s].full /\ vsrc[s].focus \in {t.of, u.of})
  PROVE  Apart(t.rect, u.rect)
<1>1. VidmixLists /\ vsrc[s] \in SrcRecord
  BY DEF VidmixInv
<1>2. PICK i \in 1 .. Len(Painted(s)) :
        /\ t.of = Painted(s)[i]
        /\ IF vsrc[s].full /\ Painted(s)[i] = vsrc[s].focus THEN t.rect = FullRect
           ELSE t.rect \in Rect(CountOf(s), IdxOf(s, i), vsrc[s].focus # 0,
                                Painted(s)[i] = vsrc[s].focus, vsrc[s].full)
  <2>1. PICK i \in 1 .. Len(Painted(s)) :
          /\ t = [of |-> Painted(s)[i], rx |-> RxOf(Painted(s)[i]), rect |-> t.rect]
          /\ IF vsrc[s].full /\ Painted(s)[i] = vsrc[s].focus THEN t.rect = FullRect
             ELSE t.rect \in Rect(CountOf(s), IdxOf(s, i), vsrc[s].focus # 0,
                                  Painted(s)[i] = vsrc[s].focus, vsrc[s].full)
    BY <1>1, TileWhere
  <2>2. t.of = Painted(s)[i]
    BY <2>1
  <2> QED
    BY <2>1, <2>2
<1>3. PICK j \in 1 .. Len(Painted(s)) :
        /\ u.of = Painted(s)[j]
        /\ IF vsrc[s].full /\ Painted(s)[j] = vsrc[s].focus THEN u.rect = FullRect
           ELSE u.rect \in Rect(CountOf(s), IdxOf(s, j), vsrc[s].focus # 0,
                                Painted(s)[j] = vsrc[s].focus, vsrc[s].full)
  <2>1. PICK j \in 1 .. Len(Painted(s)) :
          /\ u = [of |-> Painted(s)[j], rx |-> RxOf(Painted(s)[j]), rect |-> u.rect]
          /\ IF vsrc[s].full /\ Painted(s)[j] = vsrc[s].focus THEN u.rect = FullRect
             ELSE u.rect \in Rect(CountOf(s), IdxOf(s, j), vsrc[s].focus # 0,
                                  Painted(s)[j] = vsrc[s].focus, vsrc[s].full)
    BY <1>1, TileWhere
  <2>2. u.of = Painted(s)[j]
    BY <2>1
  <2> QED
    BY <2>1, <2>2
<1> DEFINE a == IdxOf(s, i)
           b == IdxOf(s, j)
           this == Painted(s)[i] = vsrc[s].focus
           that == Painted(s)[j] = vsrc[s].focus
           full == vsrc[s].full
           n == CountOf(s)
<1>4. n \in Nat /\ full \in BOOLEAN /\ this \in BOOLEAN /\ that \in BOOLEAN
  BY <1>1, PaintedLists DEF NoRows, SrcRecord
<1>5. a \in Nat /\ b \in Nat
  BY <1>1, IdxOfTiles
<1>6. ~(this /\ that) /\ ~(full /\ (this \/ that))
  BY <1>2, <1>3
<1>7. ~this /\ ~that => a # b
  BY <1>1, <1>2, <1>3, IdxOfTiles
<1>8. vsrc[s].focus = 0 => ~this /\ ~that
  <2>1. Painted(s)[i] # 0 /\ Painted(s)[j] # 0
    BY <1>1, IdxOfTiles, PaintedLists, Numbers DEF VidmixLists
  <2> QED
    BY <2>1
<1>9. CASE vsrc[s].focus # 0
  <2>1. t.rect \in Rect(n, a, TRUE, this, full) /\ u.rect \in Rect(n, b, TRUE, that, full)
    BY <1>2, <1>3, <1>6, <1>9
  <2> HIDE DEF a, b, this, that, full, n
  <2> QED
    BY <1>4, <1>5, <1>6, <1>7, <2>1, FocusApart
<1>10. CASE vsrc[s].focus = 0
  <2>1. t.rect \in Rect(n, a, FALSE, this, full) /\ u.rect \in Rect(n, b, FALSE, that, full)
    BY <1>2, <1>3, <1>6, <1>10
  <2>2. a # b
    BY <1>7, <1>8, <1>10
  <2> HIDE DEF a, b, this, that, full, n
  <2> QED
    BY <1>4, <1>5, <2>1, <2>2, GridApart
<1> QED
  BY <1>9, <1>10

(* Whoever misses has the number n, or n - 1 with a focus. *)
LEMMA MissingLast ==
  ASSUME VidmixInv, NEW s \in Vsrc, ~NoRows(s), FocusThere(s), NEW x \in Missing(s)
  PROVE  \E i \in 1 .. Len(Painted(s)) :
           /\ Painted(s)[i] = x /\ Painted(s)[i] # vsrc[s].focus
           /\ Len(Painted(s)) = CountOf(s) + 1
           /\ IdxOf(s, i) = IF vsrc[s].focus = 0 THEN CountOf(s) ELSE CountOf(s) - 1
<1>1. VidmixLists /\ vsrc[s] \in SrcRecord
  BY DEF VidmixInv
<1>2. x \in PaintedSet(s) /\ RxOf(x) # 0 /\ \A t \in TilesOf(s) : t.of # x
  BY <1>1, PaintedLists DEF Missing
<1>3. PICK i \in 1 .. Len(Painted(s)) : Painted(s)[i] = x
  BY <1>1, <1>2, PaintedLists DEF Lists
<1>4. ASSUME NEW r, Inside(r),
             IF vsrc[s].full /\ Painted(s)[i] = vsrc[s].focus THEN r = FullRect
             ELSE r \in Rect(CountOf(s), IdxOf(s, i), vsrc[s].focus # 0,
                             Painted(s)[i] = vsrc[s].focus, vsrc[s].full)
      PROVE  FALSE
  <2>1. \E t \in TilesOf(s) : t.of = Painted(s)[i]
    BY <1>1, <1>2, <1>3, <1>4, TileThere
  <2> QED
    BY <1>2, <1>3, <2>1
<1> DEFINE a == IdxOf(s, i)
           this == Painted(s)[i] = vsrc[s].focus
           full == vsrc[s].full
           n == CountOf(s)
           m == Len(Painted(s))
<1>5. n \in Nat /\ full \in BOOLEAN /\ this \in BOOLEAN
  BY <1>1, PaintedLists DEF NoRows, SrcRecord
<1>6. a \in Nat /\ a <= i - 1 /\ m \in Nat /\ i \in 1 .. m /\ m <= n + 1
  BY <1>1, IdxOfTiles, PaintedLists
<1>7. Painted(s)[i] # 0
  BY <1>1, IdxOfTiles, PaintedLists, Numbers DEF VidmixLists
<1>8. CASE vsrc[s].focus = 0
  <2>1. ~this
    BY <1>7, <1>8
  <2>2. \A r \in Rect(n, a, FALSE, this, full) : ~Inside(r)
    BY <1>4, <1>8, <2>1
  <2>3. ~(a < n)
    <3> HIDE DEF a, this, full, n
    <3> QED
      BY <1>5, <1>6, <2>2, GridInside
  <2>4. a = n /\ m = n + 1
    BY <1>5, <1>6, <2>3
  <2> QED
    BY <1>3, <1>8, <2>1, <2>4
<1>9. CASE vsrc[s].focus # 0
  <2>1. vsrc[s].focus \in PaintedSet(s)
    BY <1>1, <1>9, PaintedLists DEF FocusThere
  <2>2. ~(full /\ this)
    <3>1. Inside(FullRect)
      BY VidmixAssumption DEF Inside, FullRect
    <3> QED
      BY <1>4, <3>1
  <2>3. \A r \in Rect(n, a, TRUE, this, full) : ~Inside(r)
    BY <1>4, <1>9, <2>2
  <2>4. ~this /\ ~(a + 1 < n)
    <3> HIDE DEF a, this, full, n
    <3> QED
      BY <1>5, <1>6, <2>3, FocusThereRect
  <2>5. a + 2 <= m
    BY <1>1, <2>1, <2>4, IdxOfTiles
  <2>6. a = n - 1 /\ m = n + 1
    BY <1>5, <1>6, <2>4, <2>5
  <2> QED
    BY <1>3, <1>9, <2>4, <2>6
<1> QED
  BY <1>8, <1>9

LEMMA VidmixInvSound == VidmixInv => VidmixSound
<1> SUFFICES ASSUME VidmixInv PROVE VidmixSound
  OBVIOUS
<1>1. VidmixLists /\ stale = {}
  BY DEF VidmixInv
<1>2. ASSUME NEW s \in Vsrc, ~NoRows(s), FocusThere(s),
             NEW x \in Missing(s), NEW y \in Missing(s)
      PROVE  x = y
  <2>1. PICK i \in 1 .. Len(Painted(s)) :
           /\ Painted(s)[i] = x /\ Painted(s)[i] # vsrc[s].focus
           /\ IdxOf(s, i) = IF vsrc[s].focus = 0 THEN CountOf(s) ELSE CountOf(s) - 1
    BY <1>2, MissingLast
  <2>2. PICK j \in 1 .. Len(Painted(s)) :
           /\ Painted(s)[j] = y /\ Painted(s)[j] # vsrc[s].focus
           /\ IdxOf(s, j) = IF vsrc[s].focus = 0 THEN CountOf(s) ELSE CountOf(s) - 1
    BY <1>2, MissingLast
  <2>3. i = j
    BY <1>1, <2>1, <2>2, IdxOfTiles
  <2> QED
    BY <2>1, <2>2, <2>3
<1>3. ASSUME NEW s \in Vsrc, ~NoRows(s), FocusThere(s),
             vsrc[s].selfview \/ s \in ToSet(vlist)
      PROVE  Missing(s) = {}
  <2> SUFFICES ASSUME NEW x \in Missing(s) PROVE FALSE
    OBVIOUS
  <2>1. Len(Painted(s)) = CountOf(s) + 1
    BY <1>3, MissingLast
  <2>2. Len(Painted(s)) = CountOf(s) /\ CountOf(s) \in Int
    BY <1>1, <1>3, PaintedLists
  <2> QED
    BY <2>1, <2>2
<1> QED
  BY <1>1, <1>2, <1>3, TilesApart DEF VidmixSound

----------------------------------------------------------------------------
(* The steps of the video mixer *)

(* A round paints the same as long as nothing that it reads has changed. *)
LEMMA SameTiles ==
  ASSUME VidmixLists, UNCHANGED <<crowd, vlist>>, NEW s \in Vsrc,
         vsrc'[s].selfview = vsrc[s].selfview, vsrc'[s].focus = vsrc[s].focus,
         vsrc'[s].full = vsrc[s].full,
         \A x \in ToSet(vlist) : RxOf(x)' = RxOf(x)
  PROVE  TilesOf(s)' = TilesOf(s)
<1>1. Painted(s)' = Painted(s)
  BY DEF Painted
<1>2. CountOf(s)' = CountOf(s)
  BY DEF CountOf
<1>3. \A i \in 1 .. Len(Painted(s)) : IdxOf(s, i)' = IdxOf(s, i)
  BY <1>1 DEF IdxOf
<1>4. \A i \in 1 .. Len(Painted(s)) : Painted(s)[i] \in ToSet(vlist)
  BY IdxOfTiles, PaintedLists
<1>5. ASSUME NEW i \in 1 .. Len(Painted(s)) PROVE TileOf(s, i)' = TileOf(s, i)
  <2> DEFINE x == Painted(s)[i]
             rects == IF vsrc[s].full /\ x = vsrc[s].focus THEN {FullRect}
                      ELSE Rect(CountOf(s), IdxOf(s, i), vsrc[s].focus # 0,
                                x = vsrc[s].focus, vsrc[s].full)
  <2>1. TileOf(s, i) = {[of |-> x, rx |-> RxOf(x), rect |-> r] :
                          r \in {q \in rects : RxOf(x) # 0 /\ Inside(q)}}
    BY Zenon DEF TileOf
  <2>2. TileOf(s, i)' = {[of |-> x', rx |-> RxOf(x)', rect |-> r] :
                           r \in {q \in rects' : RxOf(x)' # 0 /\ Inside(q)}}
    BY Zenon DEF TileOf
  <2>3. x' = x /\ RxOf(x)' = RxOf(x)
    BY <1>1, <1>4
  <2>4. rects' = rects
    BY <1>1, <1>2, <1>3
  <2> HIDE DEF rects
  <2> QED
    BY <2>1, <2>2, <2>3, <2>4
<1> QED
  BY <1>1, <1>5 DEF TilesOf

(* The list changes, or a size: who is in it is marked. *)
LEMMA MarkedInv ==
  ASSUME VidmixInv, UNCHANGED crowd, stale' \subseteq stale,
         VidmixLists', vsrc' \in [Vsrc -> SrcRecord],
         \A s \in Vsrc : s \in ToSet(vlist') => vsrc'[s].up /\ vsrc'[s].clear
  PROVE  VidmixInv'
BY DEF VidmixInv, Fresh

(* One source changes, and keeps its size if it is in the list. *)
LEMMA ChangedInv ==
  ASSUME VidmixInv, UNCHANGED <<crowd, vlist, stale>>, NEW s \in Vsrc, NEW r \in SrcRecord,
         vsrc' = [vsrc EXCEPT ![s] = r],
         s \in ToSet(vlist) =>
           /\ r.up /\ r.rx = vsrc[s].rx
           /\ \/ r.clear \/ r.tiles = {}
              \/ /\ r.selfview = vsrc[s].selfview /\ r.focus = vsrc[s].focus
                 /\ r.full = vsrc[s].full
                 /\ \/ r.tiles = vsrc[s].tiles /\ r.clear = vsrc[s].clear
                    \/ r.tiles = TilesOf(s)
  PROVE  VidmixInv'
<1>1. VidmixLists /\ stale = {} /\ vsrc \in [Vsrc -> SrcRecord]
      /\ \A z \in Vsrc : z \in ToSet(vlist) => vsrc[z].up /\ Fresh(z)
  BY DEF VidmixInv
<1>2. vsrc'[s] = r /\ \A z \in Vsrc \ {s} : vsrc'[z] = vsrc[z]
  BY <1>1
<1>3. vsrc' \in [Vsrc -> SrcRecord] /\ stale' = {} /\ ToSet(vlist)' = ToSet(vlist)
  BY <1>1
<1>4. VidmixLists'
  BY <1>1 DEF VidmixLists
<1>5. \A x \in ToSet(vlist) : RxOf(x)' = RxOf(x)
  <2> SUFFICES ASSUME NEW x \in ToSet(vlist) PROVE RxOf(x)' = RxOf(x)
    OBVIOUS
  <2>1. x \in Vsrc \/ x \in crowd
    BY <1>1 DEF VidmixLists
  <2>2. x \in Vsrc => vsrc'[x].rx = vsrc[x].rx
    BY <1>2
  <2> QED
    BY <2>1, <2>2 DEF RxOf
<1>6. ASSUME NEW z \in Vsrc, z \in ToSet(vlist) PROVE vsrc'[z].up /\ Fresh(z)'
  <2>1. vsrc[z].up /\ (vsrc[z].clear \/ vsrc[z].tiles \subseteq TilesOf(z))
    BY <1>1, <1>6 DEF Fresh
  <2>2. CASE z # s
    <3>1. vsrc'[z] = vsrc[z]
      BY <1>2, <2>2
    <3>2. TilesOf(z)' = TilesOf(z)
      BY <1>1, <1>5, <3>1, SameTiles
    <3> QED
      BY <2>1, <3>1, <3>2 DEF Fresh
  <2>3. CASE z = s /\ (r.clear \/ r.tiles = {})
    BY <1>2, <1>6, <2>3 DEF Fresh
  <2>4. CASE z = s /\ ~(r.clear \/ r.tiles = {})
    <3>1. /\ r.up /\ r.selfview = vsrc[s].selfview /\ r.focus = vsrc[s].focus
          /\ r.full = vsrc[s].full
          /\ \/ r.tiles = vsrc[s].tiles /\ r.clear = vsrc[s].clear
             \/ r.tiles = TilesOf(s)
      BY <1>6, <2>4
    <3>2. TilesOf(s)' = TilesOf(s)
      BY <1>1, <1>2, <1>5, <3>1, SameTiles
    <3>3. vsrc'[s].up /\ (vsrc'[s].clear \/ vsrc'[s].tiles \subseteq TilesOf(s))
      BY <1>2, <2>1, <2>4, <3>1
    <3> QED
      BY <2>4, <3>2, <3>3 DEF Fresh
  <2> QED
    BY <2>2, <2>3, <2>4
<1> QED
  BY <1>3, <1>4, <1>6 DEF VidmixInv

LEMMA NoSrcTyped == NoSrc \in SrcRecord
BY DEF NoSrc, SrcRecord

LEMMA ClearAllTyped ==
  ASSUME NEW list, NEW st \in [Vsrc -> SrcRecord]
  PROVE  /\ clear_all(list, st) \in [Vsrc -> SrcRecord]
         /\ \A s \in Vsrc : /\ clear_all(list, st)[s].up = st[s].up
                            /\ s \in ToSet(list) => clear_all(list, st)[s].clear
<1>1. ASSUME NEW s \in Vsrc
      PROVE  /\ clear_all(list, st)[s] \in SrcRecord
             /\ clear_all(list, st)[s].up = st[s].up
             /\ s \in ToSet(list) => clear_all(list, st)[s].clear
  <2>1. clear_all(list, st)[s] =
          IF s \in ToSet(list) THEN [st[s] EXCEPT !.clear = TRUE] ELSE st[s]
    BY DEF clear_all
  <2>2. st[s] \in SrcRecord
    OBVIOUS
  <2>3. /\ [st[s] EXCEPT !.clear = TRUE] \in SrcRecord
        /\ [st[s] EXCEPT !.clear = TRUE].up = st[s].up
        /\ [st[s] EXCEPT !.clear = TRUE].clear
    BY <2>2 DEF SrcRecord
  <2> QED
    BY <2>1, <2>2, <2>3
<1>2. clear_all(list, st) = [s \in Vsrc |-> clear_all(list, st)[s]]
  BY DEF clear_all
<1> QED
  BY <1>1, <1>2

LEMMA VidmixInitInv == VidmixInit => VidmixInv
<1> SUFFICES ASSUME VidmixInit PROVE VidmixInv
  OBVIOUS
<1>1. PICK n \in Crowds : crowd = 101 .. 100 + n /\ vlist = [i \in 1 .. n |-> 100 + i]
  BY DEF VidmixInit
<1>2. n \in Nat
  BY VidmixAssumption
<1>3. Lists(vlist, crowd)
  <2>1. vlist \in Seq(crowd) /\ Len(vlist) = n
    BY <1>1, <1>2
  <2>2. \A x \in crowd : x - 100 \in 1 .. n /\ vlist[x - 100] = x
    BY <1>1, <1>2
  <2>3. \A x \in crowd : \E i \in 1 .. Len(vlist) : vlist[i] = x
    BY <2>1, <2>2
  <2>4. \A i, j \in 1 .. Len(vlist) : vlist[i] = vlist[j] => i = j
    BY <1>1, <1>2, <2>1
  <2> QED
    BY <2>1, <2>3, <2>4 DEF Lists
<1>4. ToSet(vlist) = crowd
  BY <1>3, ListsSet
<1>5. VidmixLists
  BY <1>1, <1>2, <1>3, <1>4 DEF VidmixLists
<1>6. stale = {} /\ vsrc = [s \in Vsrc |-> NoSrc] /\ vsrc \in [Vsrc -> SrcRecord]
  BY NoSrcTyped DEF VidmixInit
<1>7. \A s \in Vsrc : s \notin ToSet(vlist)
  BY <1>4, <1>5, Numbers
<1> QED
  BY <1>5, <1>6, <1>7 DEF VidmixInv

LEMMA VidmixThreadInv ==
  ASSUME VidmixInv, NEW s \in Vsrc, VidmixThread(s)
  PROVE  VidmixInv'
<1> DEFINE tiles == (IF vsrc[s].clear THEN {} ELSE vsrc[s].tiles) \cup TilesOf(s)
           goes == IF vsrc[s].run THEN "up" ELSE "none"
           r1 == [vsrc[s] EXCEPT !.th = goes]
           r2 == [vsrc[s] EXCEPT !.th = "stuck"]
           r3 == [vsrc[s] EXCEPT !.tiles = tiles, !.clear = FALSE, !.th = goes]
<1>1. vsrc \in [Vsrc -> SrcRecord] /\ vsrc[s] \in SrcRecord /\ VidmixLists /\ stale = {}
  BY DEF VidmixInv
<1>2. UNCHANGED <<crowd, vlist>>
  BY DEF VidmixThread
<1>3. \/ vsrc' = [vsrc EXCEPT ![s].th = goes] /\ UNCHANGED stale
      \/ vsrc' = [vsrc EXCEPT ![s].th = "stuck"] /\ UNCHANGED stale
      \/ /\ ~NoRows(s)
         /\ vsrc' = [vsrc EXCEPT ![s].tiles = tiles, ![s].clear = FALSE, ![s].th = goes]
         /\ stale' = IF s \in ToSet(vlist) /\ tiles # TilesOf(s) THEN stale \cup {s} ELSE stale
  BY Zenon DEF VidmixThread
<1>4. goes \in {"none", "up", "stuck"}
  OBVIOUS
<1> HIDE DEF goes
<1>5. CASE vsrc' = [vsrc EXCEPT ![s].th = goes] /\ UNCHANGED stale
  <2>1. /\ r1 \in SrcRecord /\ r1.up = vsrc[s].up /\ r1.rx = vsrc[s].rx
        /\ r1.selfview = vsrc[s].selfview /\ r1.focus = vsrc[s].focus
        /\ r1.full = vsrc[s].full /\ r1.tiles = vsrc[s].tiles /\ r1.clear = vsrc[s].clear
    BY <1>1, <1>4 DEF SrcRecord
  <2>2. vsrc' = [vsrc EXCEPT ![s] = r1]
    BY <1>1, <1>5
  <2>3. s \in ToSet(vlist) => vsrc[s].up
    BY DEF VidmixInv
  <2> HIDE DEF r1
  <2> QED
    BY <1>2, <1>5, <2>1, <2>2, <2>3, ChangedInv
<1>6. CASE vsrc' = [vsrc EXCEPT ![s].th = "stuck"] /\ UNCHANGED stale
  <2>1. /\ r2 \in SrcRecord /\ r2.up = vsrc[s].up /\ r2.rx = vsrc[s].rx
        /\ r2.selfview = vsrc[s].selfview /\ r2.focus = vsrc[s].focus
        /\ r2.full = vsrc[s].full /\ r2.tiles = vsrc[s].tiles /\ r2.clear = vsrc[s].clear
    BY <1>1 DEF SrcRecord
  <2>2. vsrc' = [vsrc EXCEPT ![s] = r2]
    BY <1>1, <1>6
  <2>3. s \in ToSet(vlist) => vsrc[s].up
    BY DEF VidmixInv
  <2> HIDE DEF r2
  <2> QED
    BY <1>2, <1>6, <2>1, <2>2, <2>3, ChangedInv
<1>7. CASE /\ ~NoRows(s)
           /\ vsrc' = [vsrc EXCEPT ![s].tiles = tiles, ![s].clear = FALSE, ![s].th = goes]
           /\ stale' = IF s \in ToSet(vlist) /\ tiles # TilesOf(s) THEN stale \cup {s} ELSE stale
  <2>1. s \in ToSet(vlist) => vsrc[s].up /\ tiles = TilesOf(s)
    BY DEF VidmixInv, Fresh
  <2>2. UNCHANGED stale
    BY <1>7, <2>1
  <2>3. TilesOf(s) \subseteq Tile
    BY <1>7, TilesTyped
  <2>4. tiles \subseteq Tile
    BY <1>1, <2>3 DEF SrcRecord
  <2> HIDE DEF tiles
  <2>5. /\ r3 \in SrcRecord /\ r3.up = vsrc[s].up /\ r3.rx = vsrc[s].rx
        /\ r3.selfview = vsrc[s].selfview /\ r3.focus = vsrc[s].focus
        /\ r3.full = vsrc[s].full /\ r3.tiles = tiles
    BY <1>1, <1>4, <2>4 DEF SrcRecord
  <2>6. vsrc' = [vsrc EXCEPT ![s] = r3]
    BY <1>1, <1>7
  <2> HIDE DEF r3
  <2> QED
    BY <1>2, <2>1, <2>2, <2>5, <2>6, ChangedInv
<1> QED
  BY <1>3, <1>5, <1>6, <1>7

LEMMA VidmixAllocInv ==
  ASSUME VidmixInv, NEW s \in Vsrc, VidmixSourceAlloc(s)
  PROVE  VidmixInv'
<1>1. PICK tx \in BOOLEAN : vsrc' = [vsrc EXCEPT ![s] = [NoSrc EXCEPT !.up = TRUE, !.tx = tx]]
  BY DEF VidmixSourceAlloc
<1>2. UNCHANGED <<crowd, vlist, stale>> /\ ~vsrc[s].up
  BY DEF VidmixSourceAlloc
<1>3. s \notin ToSet(vlist)
  BY <1>2 DEF VidmixInv
<1>4. [NoSrc EXCEPT !.up = TRUE, !.tx = tx] \in SrcRecord
  BY DEF NoSrc, SrcRecord
<1> QED
  BY <1>1, <1>2, <1>3, <1>4, ChangedInv

(* A list that a source enters, or leaves *)
LEMMA VlistAppended ==
  ASSUME VidmixLists, NEW s \in Vsrc, s \notin ToSet(vlist),
         UNCHANGED crowd, vlist' = Append(vlist, s)
  PROVE  VidmixLists' /\ ToSet(vlist') = ToSet(vlist) \cup {s}
<1>1. Lists(Append(vlist, s), ToSet(vlist) \cup {s})
  BY ListsAppend DEF VidmixLists
<1>2. ToSet(Append(vlist, s)) = ToSet(vlist) \cup {s}
  BY <1>1, ListsSet
<1>3. Lists(vlist', ToSet(vlist')) /\ ToSet(vlist') = ToSet(vlist) \cup {s}
  BY <1>1, <1>2
<1> QED
  BY <1>3 DEF VidmixLists

LEMMA VlistUnlinked ==
  ASSUME VidmixLists, NEW s \in Vsrc, UNCHANGED crowd, vlist' = Unlinked(vlist, s)
  PROVE  VidmixLists' /\ ToSet(vlist') = ToSet(vlist) \ {s}
<1>1. Lists(Unlinked(vlist, s), ToSet(vlist) \ {s})
  BY ListsUnlinked DEF VidmixLists
<1>2. ToSet(Unlinked(vlist, s)) = ToSet(vlist) \ {s}
  BY <1>1, ListsSet
<1>3. Lists(vlist', ToSet(vlist')) /\ ToSet(vlist') = ToSet(vlist) \ {s}
  BY <1>1, <1>2
<1> QED
  BY <1>3 DEF VidmixLists

LEMMA VidmixEnableInv ==
  ASSUME VidmixInv, NEW s \in Vsrc, VidmixSourceEnable(s) \/ VidmixSourceDisable(s)
  PROVE  VidmixInv'
<1>1. UNCHANGED <<crowd, stale>> /\ vsrc' = clear_all(vlist', vsrc)
  BY DEF VidmixSourceEnable, VidmixSourceDisable
<1>2. VidmixLists /\ vsrc \in [Vsrc -> SrcRecord]
      /\ \A z \in Vsrc : z \in ToSet(vlist) => vsrc[z].up
  BY DEF VidmixInv
<1>3. VidmixLists' /\ \A z \in ToSet(vlist') : z \in ToSet(vlist) \/ (z = s /\ vsrc[s].up)
  <2>1. CASE VidmixSourceEnable(s)
    <3>1. vsrc[s].up /\ s \notin ToSet(vlist) /\ vlist' = Append(vlist, s)
      BY <2>1 DEF VidmixSourceEnable
    <3> QED
      BY <1>1, <1>2, <3>1, VlistAppended
  <2>2. CASE VidmixSourceDisable(s)
    <3>1. vlist' = Unlinked(vlist, s)
      BY <2>2 DEF VidmixSourceDisable
    <3> QED
      BY <1>1, <1>2, <3>1, VlistUnlinked
  <2> QED
    BY <2>1, <2>2
<1>4. /\ vsrc' \in [Vsrc -> SrcRecord]
      /\ \A z \in Vsrc : vsrc'[z].up = vsrc[z].up /\ (z \in ToSet(vlist') => vsrc'[z].clear)
  BY <1>1, <1>2, ClearAllTyped
<1> QED
  BY <1>1, <1>2, <1>3, <1>4, MarkedInv

LEMMA VidmixFreeInv ==
  ASSUME VidmixInv, NEW s \in Vsrc, VidmixSourceFree(s)
  PROVE  VidmixInv'
<1> DEFINE st == clear_all(vlist', vsrc)
<1>1. /\ UNCHANGED crowd /\ vlist' = Unlinked(vlist, s) /\ stale' \subseteq stale
      /\ vsrc' = [st EXCEPT ![s] = NoSrc]
  BY DEF VidmixSourceFree
<1>2. VidmixLists /\ vsrc \in [Vsrc -> SrcRecord]
      /\ \A z \in Vsrc : z \in ToSet(vlist) => vsrc[z].up
  BY DEF VidmixInv
<1>3. VidmixLists' /\ ToSet(vlist') = ToSet(vlist) \ {s}
  BY <1>1, <1>2, VlistUnlinked
<1>4. /\ st \in [Vsrc -> SrcRecord]
      /\ \A z \in Vsrc : st[z].up = vsrc[z].up /\ (z \in ToSet(vlist') => st[z].clear)
  BY <1>2, ClearAllTyped
<1> HIDE DEF st
<1>5. vsrc' \in [Vsrc -> SrcRecord] /\ \A z \in Vsrc \ {s} : vsrc'[z] = st[z]
  BY <1>1, <1>4, NoSrcTyped
<1>6. \A z \in Vsrc : z \in ToSet(vlist') => vsrc'[z].up /\ vsrc'[z].clear
  BY <1>2, <1>3, <1>4, <1>5
<1> QED
  BY <1>1, <1>3, <1>5, <1>6, MarkedInv

LEMMA VidmixPutInv ==
  ASSUME VidmixInv, NEW s \in Vsrc, NEW z \in RxSize, VidmixSourcePut(s, z)
  PROVE  VidmixInv'
<1> DEFINE st == [vsrc EXCEPT ![s].rx = z]
<1>1. UNCHANGED <<crowd, vlist, stale>> /\ vsrc' = clear_all(vlist, st)
  BY DEF VidmixSourcePut
<1>2. VidmixLists /\ vsrc \in [Vsrc -> SrcRecord]
      /\ \A x \in Vsrc : x \in ToSet(vlist) => vsrc[x].up
  BY DEF VidmixInv
<1>3. st \in [Vsrc -> SrcRecord] /\ \A x \in Vsrc : st[x].up = vsrc[x].up
  <2>1. /\ [vsrc[s] EXCEPT !.rx = z] \in SrcRecord
        /\ [vsrc[s] EXCEPT !.rx = z].up = vsrc[s].up
    BY <1>2 DEF SrcRecord
  <2>2. st = [vsrc EXCEPT ![s] = [vsrc[s] EXCEPT !.rx = z]]
    BY <1>2
  <2> HIDE DEF st
  <2> QED
    BY <1>2, <2>1, <2>2
<1> HIDE DEF st
<1>4. /\ vsrc' \in [Vsrc -> SrcRecord]
      /\ \A x \in Vsrc : vsrc'[x].up = vsrc[x].up /\ (x \in ToSet(vlist) => vsrc'[x].clear)
  BY <1>1, <1>3, ClearAllTyped
<1>5. VidmixLists'
  BY <1>1, <1>2 DEF VidmixLists
<1> QED
  BY <1>1, <1>2, <1>4, <1>5, MarkedInv

(* What the application sets *)
LEMMA VidmixSetInv ==
  ASSUME VidmixInv, NEW s \in Vsrc, NEW f \in {0} \cup Vsrc,
         \/ VidmixSourceStart(s) \/ VidmixSourceStop(s) \/ VidmixSourceSetSize(s)
         \/ VidmixSourceToggleSelfview(s) \/ VidmixSourceSetFocus(s, f)
  PROVE  VidmixInv'
<1> DEFINE v == vsrc[s]
           full == f # 0 /\ f = vsrc[s].focus /\ ~vsrc[s].full
           r1 == [v EXCEPT !.run = TRUE, !.th = "up"]
           r2 == [v EXCEPT !.run = FALSE]
           r3 == [v EXCEPT !.tx = TRUE, !.tiles = {}]
           r4 == [v EXCEPT !.selfview = ~@, !.clear = TRUE]
           r5 == [v EXCEPT !.focus = f, !.clear = TRUE, !.full = full]
<1>1. vsrc \in [Vsrc -> SrcRecord] /\ v \in SrcRecord /\ (s \in ToSet(vlist) => v.up)
  BY DEF VidmixInv
<1>2. full \in BOOLEAN
  OBVIOUS
<1>3. UNCHANGED <<crowd, vlist, stale>>
  BY DEF VidmixSourceStart, VidmixSourceStop, VidmixSourceSetSize,
         VidmixSourceToggleSelfview, VidmixSourceSetFocus
<1>4. ASSUME NEW r \in {r1, r2, r3, r4, r5}
      PROVE  /\ r \in SrcRecord /\ r.up = v.up /\ r.rx = v.rx
             /\ \/ r.clear \/ r.tiles = {}
                \/ /\ r.selfview = v.selfview /\ r.focus = v.focus /\ r.full = v.full
                   /\ r.tiles = v.tiles /\ r.clear = v.clear
  <2> HIDE DEF full
  <2>1. /\ r1 \in SrcRecord /\ r1.up = v.up /\ r1.rx = v.rx
        /\ r1.selfview = v.selfview /\ r1.focus = v.focus /\ r1.full = v.full
        /\ r1.tiles = v.tiles /\ r1.clear = v.clear
    BY <1>1 DEF SrcRecord
  <2>2. /\ r2 \in SrcRecord /\ r2.up = v.up /\ r2.rx = v.rx
        /\ r2.selfview = v.selfview /\ r2.focus = v.focus /\ r2.full = v.full
        /\ r2.tiles = v.tiles /\ r2.clear = v.clear
    BY <1>1 DEF SrcRecord
  <2>3. r3 \in SrcRecord /\ r3.up = v.up /\ r3.rx = v.rx /\ r3.tiles = {}
    BY <1>1 DEF SrcRecord
  <2>4. r4 \in SrcRecord /\ r4.up = v.up /\ r4.rx = v.rx /\ r4.clear
    BY <1>1 DEF SrcRecord
  <2>5. r5 \in SrcRecord /\ r5.up = v.up /\ r5.rx = v.rx /\ r5.clear
    BY <1>1, <1>2 DEF SrcRecord
  <2> HIDE DEF r1, r2, r3, r4, r5, v
  <2> QED
    BY <2>1, <2>2, <2>3, <2>4, <2>5
<1>5. \E r \in {r1, r2, r3, r4, r5} : vsrc' = [vsrc EXCEPT ![s] = r]
  <2>1. CASE VidmixSourceStart(s)
    <3>1. vsrc' = [vsrc EXCEPT ![s].run = TRUE, ![s].th = "up"]
      BY <2>1 DEF VidmixSourceStart
    <3>2. vsrc' = [vsrc EXCEPT ![s] = r1]
      BY <1>1, <3>1
    <3> QED
      BY <3>2
  <2>2. CASE VidmixSourceStop(s)
    <3>1. vsrc' = [vsrc EXCEPT ![s].run = FALSE]
      BY <2>2 DEF VidmixSourceStop
    <3>2. vsrc' = [vsrc EXCEPT ![s] = r2]
      BY <1>1, <3>1
    <3> QED
      BY <3>2
  <2>3. CASE VidmixSourceSetSize(s)
    <3>1. vsrc' = [vsrc EXCEPT ![s].tx = TRUE, ![s].tiles = {}]
      BY <2>3 DEF VidmixSourceSetSize
    <3>2. vsrc' = [vsrc EXCEPT ![s] = r3]
      BY <1>1, <3>1
    <3> QED
      BY <3>2
  <2>4. CASE VidmixSourceToggleSelfview(s)
    <3>1. vsrc' = [vsrc EXCEPT ![s].selfview = ~@, ![s].clear = TRUE]
      BY <2>4 DEF VidmixSourceToggleSelfview
    <3>2. vsrc' = [vsrc EXCEPT ![s] = r4]
      BY <1>1, <3>1
    <3> QED
      BY <3>2
  <2>5. CASE VidmixSourceSetFocus(s, f)
    <3>1. vsrc' = [vsrc EXCEPT ![s].focus = f, ![s].clear = TRUE, ![s].full = full]
      BY <2>5 DEF VidmixSourceSetFocus
    <3> HIDE DEF full
    <3>2. vsrc' = [vsrc EXCEPT ![s] = r5]
      BY <1>1, <3>1
    <3> QED
      BY <3>2
  <2> QED
    BY <2>1, <2>2, <2>3, <2>4, <2>5
<1> HIDE DEF r1, r2, r3, r4, r5
<1>6. PICK r \in {r1, r2, r3, r4, r5} : vsrc' = [vsrc EXCEPT ![s] = r]
  BY <1>5
<1>7. /\ r \in SrcRecord /\ r.up = v.up /\ r.rx = v.rx
      /\ \/ r.clear \/ r.tiles = {}
         \/ /\ r.selfview = v.selfview /\ r.focus = v.focus /\ r.full = v.full
            /\ r.tiles = v.tiles /\ r.clear = v.clear
  BY <1>4
<1> QED
  BY <1>1, <1>3, <1>6, <1>7, ChangedInv

LEMMA VidmixNextInv == VidmixInv /\ [VidmixNext]_vidmixVars => VidmixInv'
<1> SUFFICES ASSUME VidmixInv, [VidmixNext]_vidmixVars PROVE VidmixInv'
  OBVIOUS
<1>1. ASSUME UNCHANGED <<crowd, vlist, vsrc, stale>> PROVE VidmixInv'
  <2>1. \A s \in Vsrc : Fresh(s)' = Fresh(s)
    BY <1>1 DEF Fresh, TilesOf, TileOf, Painted, CountOf, IdxOf, RxOf
  <2> QED
    BY <1>1, <2>1 DEF VidmixInv, VidmixLists
<1>2. CASE ThreadJoined \/ UNCHANGED vidmixVars
  BY <1>1, <1>2 DEF ThreadJoined, vidmixVars
<1>3. CASE \E s \in Vsrc : VidmixThread(s) \/ VidmixSourceAlloc(s)
  BY <1>3, VidmixThreadInv, VidmixAllocInv
<1>4. CASE \E s \in Vsrc : \/ VidmixSourceEnable(s) \/ VidmixSourceDisable(s)
                           \/ VidmixSourceFree(s)
  BY <1>4, VidmixEnableInv, VidmixFreeInv
<1>5. CASE \E s \in Vsrc : \E z \in RxSize : VidmixSourcePut(s, z)
  BY <1>5, VidmixPutInv
<1>6. CASE \E s \in Viewers :
             \/ VidmixSourceStart(s) \/ VidmixSourceStop(s) \/ VidmixSourceSetSize(s)
             \/ VidmixSourceToggleSelfview(s)
             \/ \E f \in {0} \cup Vsrc : VidmixSourceSetFocus(s, f)
  BY <1>6, VidmixSetInv, VidmixAssumption
<1> QED
  BY <1>2, <1>3, <1>4, <1>5, <1>6 DEF VidmixNext

(* The audio mixer of rem (aumix.c) wakes for its first source and for its *)
(* end, gives no frames for the time in which there was nobody, and lets   *)
(* nobody hear itself; the video mixer (vidmix.c) hands on frames without  *)
(* old tiles, with the tiles apart, and with everybody in it, whatever the *)
(* number of the sources and the size of the frames.                       *)
THEOREM MixersKept == AumixSpec /\ VidmixSpec => []MixersSound
<1>1. AumixInit => AumixInv
  BY AumixInitInv
<1>2. AumixInv /\ [AumixNext]_mixVars => AumixInv'
  BY AumixNextInv
<1>3. VidmixInit => VidmixInv
  BY VidmixInitInv
<1>4. VidmixInv /\ [VidmixNext]_vidmixVars => VidmixInv'
  BY VidmixNextInv
<1>5. AumixInv /\ VidmixInv => MixersSound
  BY AumixInvSound, VidmixInvSound DEF MixersSound
<1> QED
  BY <1>1, <1>2, <1>3, <1>4, <1>5, PTL DEF AumixSpec, VidmixSpec

----------------------------------------------------------------------------
(* The ring of wave buffers *)

Ring == 0 .. WaveBufs - 1

Held(q) == {q[i] : i \in 1 .. Len(q)}

(* How far buffer b is ahead of position p *)
Ahead(p, b) == IF b >= p THEN b - p ELSE b - p + WaveBufs

(* The device has its buffers in the order of the ring. *)
InRing(p, q) ==
  /\ q \in Seq(Ring)
  /\ \A i, j \in 1 .. Len(q) : i < j => Ahead(p, q[i]) < Ahead(p, q[j])

(* INC_WPOS *)
LEMMA NextInRing ==
  ASSUME NEW p \in Ring
  PROVE  (p + 1) % WaveBufs = IF p + 1 < WaveBufs THEN p + 1 ELSE 0
<1>1. WaveBufs \in Nat /\ WaveBufs > 2 /\ p \in 0 .. WaveBufs - 1
  BY WaveAssumption DEF Ring
<1>2. CASE p + 1 < WaveBufs
  BY <1>1, <1>2
<1>3. CASE p + 1 = WaveBufs
  BY <1>1, <1>3
<1> QED
  BY <1>1, <1>2, <1>3

LEMMA AheadInRing ==
  ASSUME NEW p \in Ring, NEW b \in Ring
  PROVE  /\ Ahead(p, b) \in Ring /\ (Ahead(p, b) = 0 <=> b = p)
         /\ (p + 1) % WaveBufs \in Ring
         /\ Ahead((p + 1) % WaveBufs, b) = IF b = p THEN WaveBufs - 1 ELSE Ahead(p, b) - 1
BY NextInRing, WaveAssumption DEF Ahead, Ring

(* The device is done with its first buffer. *)
LEMMA RingTail ==
  ASSUME NEW p \in Ring, NEW q, InRing(p, q), q # <<>>
  PROVE  /\ InRing(p, Tail(q)) /\ Head(q) \in Ring /\ Head(q) = q[1]
         /\ Len(q) \in Nat /\ Len(q) > 0 /\ Len(Tail(q)) = Len(q) - 1
         /\ Held(Tail(q)) = Held(q) \ {Head(q)} /\ Head(q) \in Held(q)
         /\ p \in Held(q) => Head(q) = p
         /\ \A i \in 1 .. Len(Tail(q)) : Ahead(p, Tail(q)[i]) >= Ahead(p, Head(q)) + 1
<1>1. q \in Seq(Ring) /\ Len(q) \in Nat /\ Len(q) > 0
  BY EmptySeq, LenProperties DEF InRing
<1>2. /\ Head(q) = q[1] /\ Tail(q) \in Seq(Ring) /\ Len(Tail(q)) = Len(q) - 1
      /\ \A i \in 1 .. Len(Tail(q)) : Tail(q)[i] = q[i + 1]
  BY <1>1, HeadTailProperties
<1>3. \A i \in 1 .. Len(q) : q[i] \in Ring /\ Ahead(p, q[i]) \in Ring
  BY <1>1, ElementOfSeq, AheadInRing
<1>4. \A i \in 2 .. Len(q) : Ahead(p, q[1]) < Ahead(p, q[i])
  BY <1>1 DEF InRing
<1>5. \A i \in 2 .. Len(q) : q[i] # q[1] /\ q[i] # p
  <2> TAKE i \in 2 .. Len(q)
  <2>1. Ahead(p, q[1]) < Ahead(p, q[i]) /\ Ahead(p, q[1]) \in Ring /\ Ahead(p, q[i]) \in Ring
    BY <1>1, <1>3, <1>4
  <2>2. q[i] # q[1] /\ Ahead(p, q[i]) # 0
    BY <2>1, WaveAssumption DEF Ring
  <2>3. q[i] \in Ring
    BY <1>1, <1>3
  <2> QED
    BY <2>2, <2>3, AheadInRing
<1>6. InRing(p, Tail(q))
  <2>1. \A i, j \in 1 .. Len(Tail(q)) : i < j => Ahead(p, Tail(q)[i]) < Ahead(p, Tail(q)[j])
    <3> TAKE i, j \in 1 .. Len(Tail(q))
    <3>1. /\ i + 1 \in 1 .. Len(q) /\ j + 1 \in 1 .. Len(q) /\ (i < j => i + 1 < j + 1)
          /\ Tail(q)[i] = q[i + 1] /\ Tail(q)[j] = q[j + 1]
      BY <1>1, <1>2
    <3> QED
      BY <3>1 DEF InRing
  <2> QED
    BY <1>2, <2>1 DEF InRing
<1>7. Held(Tail(q)) = Held(q) \ {q[1]}
  <2>1. \A i \in 1 .. Len(Tail(q)) : i + 1 \in 2 .. Len(q) /\ i + 1 \in 1 .. Len(q)
    BY <1>1, <1>2
  <2>2. \A i \in 1 .. Len(q) : i # 1 => i - 1 \in 1 .. Len(Tail(q)) /\ Tail(q)[i - 1] = q[i]
    BY <1>1, <1>2
  <2> QED
    BY <1>2, <1>5, <2>1, <2>2 DEF Held
<1>8. p \in Held(q) => q[1] = p
  BY <1>1, <1>5 DEF Held
<1>9. \A i \in 1 .. Len(Tail(q)) : Ahead(p, Tail(q)[i]) >= Ahead(p, q[1]) + 1
  <2> TAKE i \in 1 .. Len(Tail(q))
  <2>1. i + 1 \in 2 .. Len(q) /\ Tail(q)[i] = q[i + 1] /\ 1 \in 1 .. Len(q) /\ i + 1 \in 1 .. Len(q)
    BY <1>1, <1>2
  <2>2. Ahead(p, q[1]) < Ahead(p, q[i + 1]) /\ Ahead(p, q[1]) \in Int /\ Ahead(p, q[i + 1]) \in Int
    BY <2>1, <1>3, <1>4 DEF Ring
  <2> QED
    BY <2>1, <2>2
<1>10. q[1] \in Held(q) /\ q[1] \in Ring
  BY <1>1, <1>3 DEF Held
<1> QED
  BY <1>1, <1>2, <1>6, <1>7, <1>8, <1>9, <1>10

(* The position moves on: past a buffer that the device refused, *)
LEMMA RingMoves ==
  ASSUME NEW p \in Ring, NEW q, InRing(p, q), p \notin Held(q)
  PROVE  /\ InRing((p + 1) % WaveBufs, q)
         /\ \A i \in 1 .. Len(q) : Ahead((p + 1) % WaveBufs, q[i]) = Ahead(p, q[i]) - 1
<1>1. q \in Seq(Ring) /\ Len(q) \in Nat
  BY LenProperties DEF InRing
<1>2. \A i \in 1 .. Len(q) : q[i] \in Ring /\ q[i] # p /\ Ahead(p, q[i]) \in Int
  <2>1. \A i \in 1 .. Len(q) : q[i] \in Ring /\ q[i] # p
    BY <1>1, ElementOfSeq DEF Held
  <2>2. \A i \in 1 .. Len(q) : Ahead(p, q[i]) \in Ring
    BY <2>1, AheadInRing
  <2> QED
    BY <2>1, <2>2 DEF Ring
<1>3. \A i \in 1 .. Len(q) : Ahead((p + 1) % WaveBufs, q[i]) = Ahead(p, q[i]) - 1
  BY <1>2, AheadInRing
<1>4. \A i, j \in 1 .. Len(q) :
        i < j => Ahead((p + 1) % WaveBufs, q[i]) < Ahead((p + 1) % WaveBufs, q[j])
  BY <1>2, <1>3 DEF InRing
<1> QED
  BY <1>1, <1>3, <1>4 DEF InRing

(* or past one that it took. *)
LEMMA RingAppend ==
  ASSUME NEW p \in Ring, NEW q, InRing(p, q), p \notin Held(q)
  PROVE  /\ InRing((p + 1) % WaveBufs, Append(q, p))
         /\ Len(q) \in Nat /\ Len(Append(q, p)) = Len(q) + 1
         /\ Held(Append(q, p)) = Held(q) \cup {p}
         /\ \A i \in 1 .. Len(q) : /\ Append(q, p)[i] = q[i]
                                   /\ Ahead((p + 1) % WaveBufs, q[i]) = Ahead(p, q[i]) - 1
         /\ Append(q, p)[Len(q) + 1] = p
         /\ Ahead((p + 1) % WaveBufs, p) = WaveBufs - 1
<1> DEFINE r == Append(q, p)  n == (p + 1) % WaveBufs
<1>1. q \in Seq(Ring) /\ Len(q) \in Nat
  BY LenProperties DEF InRing
<1>2. /\ r \in Seq(Ring) /\ Len(r) = Len(q) + 1 /\ r[Len(q) + 1] = p
      /\ \A i \in 1 .. Len(q) : r[i] = q[i]
  BY <1>1, AppendProperties
<1>3. /\ InRing(n, q)
      /\ \A i \in 1 .. Len(q) : Ahead(n, q[i]) = Ahead(p, q[i]) - 1
  BY RingMoves
<1>4. \A i \in 1 .. Len(q) : q[i] \in Ring /\ Ahead(p, q[i]) \in Ring
  BY <1>1, ElementOfSeq, AheadInRing
<1>5. Ahead(n, p) = WaveBufs - 1
  BY AheadInRing
<1>6. Held(r) = Held(q) \cup {p}
  BY <1>1, <1>2 DEF Held
<1>7. \A i, j \in 1 .. Len(r) : i < j => Ahead(n, r[i]) < Ahead(n, r[j])
  <2> SUFFICES ASSUME NEW i \in 1 .. Len(r), NEW j \in 1 .. Len(r), i < j
               PROVE  Ahead(n, r[i]) < Ahead(n, r[j])
    OBVIOUS
  <2>1. i \in 1 .. Len(q) /\ r[i] = q[i]
    BY <1>1, <1>2
  <2>2. CASE j \in 1 .. Len(q)
    <3>1. r[j] = q[j]
      BY <1>2, <2>2
    <3> QED
      BY <2>1, <2>2, <3>1, <1>3 DEF InRing
  <2>3. CASE j = Len(q) + 1
    <3>1. Ahead(n, r[i]) = Ahead(p, q[i]) - 1 /\ Ahead(p, q[i]) \in 0 .. WaveBufs - 1
      BY <2>1, <1>3, <1>4 DEF Ring
    <3>2. Ahead(n, r[j]) = WaveBufs - 1
      BY <2>3, <1>2, <1>5
    <3> QED
      BY <3>1, <3>2, WaveAssumption
  <2> QED
    BY <1>1, <1>2, <2>2, <2>3
<1> QED
  BY <1>1, <1>2, <1>3, <1>5, <1>6, <1>7 DEF InRing

(* A buffer behind one that is at the device was queued after it, so the   *)
(* device was not done with it since.                                      *)
Behind(p, q, s) ==
  \A i \in 1 .. Len(q), c \in Ring : Ahead(p, c) >= Ahead(p, q[i]) => c \in s

(* Once the position has come round to the first one, all are prepared. *)
LEMMA BehindAll ==
  ASSUME NEW p \in Ring, NEW q, InRing(p, q), p \in Held(q),
         NEW s \in SUBSET Ring, Behind(p, q, s)
  PROVE  s = Ring
<1>1. PICK i \in 1 .. Len(q) : q[i] = p
  BY DEF Held
<1>2. Ahead(p, q[i]) = 0
  BY <1>1, AheadInRing
<1>3. \A c \in Ring : Ahead(p, c) >= 0
  BY AheadInRing, WaveAssumption DEF Ring
<1>4. \A c \in Ring : c \in s
  BY <1>2, <1>3 DEF Behind
<1> QED
  BY <1>4

LEMMA BehindTail ==
  ASSUME NEW p \in Ring, NEW q, InRing(p, q), q # <<>>, NEW s, Behind(p, q, s)
  PROVE  Behind(p, Tail(q), s \ {Head(q)})
<1>1. /\ Len(q) \in Nat /\ Len(Tail(q)) = Len(q) - 1 /\ Head(q) \in Ring
      /\ \A i \in 1 .. Len(Tail(q)) : Ahead(p, Tail(q)[i]) >= Ahead(p, Head(q)) + 1
  BY RingTail
<1>2. q \in Seq(Ring)
  BY DEF InRing
<1>3. \A i \in 1 .. Len(Tail(q)) : Tail(q)[i] = q[i + 1] /\ i + 1 \in 1 .. Len(q)
  BY <1>1, <1>2, HeadTailProperties
<1> SUFFICES ASSUME NEW i \in 1 .. Len(Tail(q)), NEW c \in Ring,
                    Ahead(p, c) >= Ahead(p, Tail(q)[i])
             PROVE  c \in s /\ c # Head(q)
  BY DEF Behind
<1>4. c \in s
  BY <1>3 DEF Behind
<1>5. Ahead(p, Tail(q)[i]) >= Ahead(p, Head(q)) + 1
  BY <1>1
<1>6. Ahead(p, Head(q)) \in Int /\ Ahead(p, Tail(q)[i]) \in Int /\ Ahead(p, c) \in Int
  <2>1. Tail(q)[i] \in Ring
    BY <1>2, <1>3, ElementOfSeq
  <2> QED
    BY <1>1, <2>1, AheadInRing DEF Ring
<1>7. c # Head(q)
  BY <1>5, <1>6
<1> QED
  BY <1>4, <1>7

LEMMA BehindMoves ==
  ASSUME NEW p \in Ring, NEW q, InRing(p, q), p \notin Held(q), NEW s, Behind(p, q, s)
  PROVE  /\ Behind((p + 1) % WaveBufs, q, s \cup {p})
         /\ Behind((p + 1) % WaveBufs, Append(q, p), s \cup {p})
<1> DEFINE n == (p + 1) % WaveBufs  r == Append(q, p)
<1>1. /\ Len(q) \in Nat /\ Len(r) = Len(q) + 1 /\ r[Len(q) + 1] = p
      /\ Ahead(n, p) = WaveBufs - 1
      /\ \A i \in 1 .. Len(q) : r[i] = q[i] /\ Ahead(n, q[i]) = Ahead(p, q[i]) - 1
  BY RingAppend
<1>2. \A c \in Ring : /\ Ahead(p, c) \in 0 .. WaveBufs - 1
                      /\ c # p => Ahead(n, c) = Ahead(p, c) - 1
  BY AheadInRing DEF Ring
<1>3. \A i \in 1 .. Len(q) : Ahead(p, q[i]) \in Int
  BY <1>2, ElementOfSeq DEF InRing
<1> HIDE DEF n, r
<1>4. ASSUME NEW i \in 1 .. Len(q), NEW c \in Ring, Ahead(n, c) >= Ahead(n, q[i]), c # p
      PROVE  c \in s
  <2>1. Ahead(p, c) >= Ahead(p, q[i])
    BY <1>1, <1>2, <1>3, <1>4
  <2> QED
    BY <2>1 DEF Behind
<1>5. ASSUME NEW c \in Ring, Ahead(n, c) >= Ahead(n, p) PROVE c = p
  BY <1>1, <1>2, <1>5, WaveAssumption
<1>6. Behind(n, q, s \cup {p})
  BY <1>4 DEF Behind
<1>7. Behind(n, r, s \cup {p})
  <2> SUFFICES ASSUME NEW i \in 1 .. Len(r), NEW c \in Ring, Ahead(n, c) >= Ahead(n, r[i])
               PROVE  c \in s \cup {p}
    BY DEF Behind
  <2>1. i \in 1 .. Len(q) \/ i = Len(q) + 1
    BY <1>1
  <2>2. CASE i \in 1 .. Len(q)
    BY <1>1, <1>4, <2>2
  <2>3. CASE i = Len(q) + 1
    BY <1>1, <1>5, <2>3
  <2> QED
    BY <2>1, <2>2, <2>3
<1> QED
  BY <1>6, <1>7 DEF n, r

(* The states of the ring and of the two threads *)
WaveTyped ==
  /\ wdir \in {"play", "rec"} /\ wphase \in {"open", "up", "closing", "closed"}
  /\ wleft \in Nat /\ rdy \in BOOLEAN /\ inuse \in Int /\ wpos \in Ring /\ fails \in Nat
  /\ writer \in [Writers -> {"idle", "in", "sent"}] /\ wbuf \in [Writers -> Ring]
  /\ prepared \subseteq Ring
  /\ InRing(wpos, queue) /\ Held(queue) \subseteq prepared
  /\ "requeued" \notin spoilt

(* How many buffers the opening thread has gone for; what is being filled, *)
(* and what the device has before it is counted *)
Begun == IF wleft = 0 THEN WaveBufs ELSE WaveBufs + 1 - wleft

Filling == IF writer["main"] = "in" \/ writer["callback"] = "in" THEN 1 ELSE 0

Uncounted == IF writer["main"] = "sent" \/ writer["callback"] = "sent" THEN 1 ELSE 0

Busy == writer["main"] # "idle" \/ writer["callback"] # "idle"

(* The position is at a buffer that the device refused: nobody goes on. *)
Stuck == wpos \in prepared \ Held(queue)

(* What is prepared is at the device or was refused.  The callback fills   *)
(* one buffer for each that comes back, so that their number grows with    *)
(* those that the opening thread queues, until a thread comes round to a   *)
(* buffer that was refused.                                                *)
PlayInv ==
  wdir = "play" =>
    /\ rdy <=> wphase \in {"open", "up"}
    /\ wleft <= WaveBufs + 1 /\ (wphase # "open" => wleft = 0)
    /\ \A t \in Writers : writer[t] = "in" => wbuf[t] = wpos /\ wpos \notin prepared
    /\ writer["main"] = "idle" \/ (writer["callback"] = "idle" /\ wphase = "open")
    /\ inuse + Uncounted = Len(queue) /\ Cardinality(prepared) = Len(queue) + fails
    /\ Behind(wpos, queue, prepared)
    /\ Busy \/ (rdy /\ ~Stuck) => Cardinality(prepared) + Filling = Begun
    /\ wphase = "closed" /\ writer["callback"] = "in" => queue = <<>>
    /\ "late" \in spoilt => fails >= WaveBufs - 1

(* The recorder counts a buffer more than there are for each refused one,  *)
(* and those at the device are the last ones that it counted.              *)
RecInv ==
  wdir = "rec" =>
    /\ writer = [t \in Writers |-> "idle"] /\ "late" \notin spoilt
    /\ wphase = "open" =>
         /\ wleft \in 0 .. WaveBufs /\ inuse = WaveBufs - wleft
         /\ wpos = IF wleft = 0 THEN 0 ELSE inuse
    /\ wphase # "open" => inuse \in 2 .. WaveBufs
    /\ wphase # "closed" =>
         /\ Len(queue) >= inuse - fails
         /\ \A i \in 1 .. Len(queue) : Ahead(wpos, queue[i]) >= WaveBufs - inuse

WaveKept == WaveTyped /\ PlayInv /\ RecInv

WaveInv == raced \in BOOLEAN /\ (raced => wdir = "play") /\ (~raced => WaveKept)

LEMMA RingFinite ==
  /\ IsFiniteSet(Ring) /\ Cardinality(Ring) = WaveBufs
  /\ \A s \in SUBSET Ring : /\ IsFiniteSet(s) /\ Cardinality(s) \in Nat
                            /\ Cardinality(s) <= WaveBufs
                            /\ s # Ring => Cardinality(s) < WaveBufs
<1>1. 0 \in Int /\ WaveBufs - 1 \in Int /\ ~(0 > WaveBufs - 1) /\ (WaveBufs - 1) - 0 + 1 = WaveBufs
  BY WaveAssumption
<1>2. IsFiniteSet(Ring) /\ Cardinality(Ring) = WaveBufs
  BY <1>1, FS_Interval DEF Ring
<1>3. ASSUME NEW s \in SUBSET Ring
      PROVE  /\ IsFiniteSet(s) /\ Cardinality(s) \in Nat /\ Cardinality(s) <= WaveBufs
             /\ s # Ring => Cardinality(s) < WaveBufs
  BY <1>2, FS_Subset, FS_CardinalityType, WaveAssumption
<1> QED
  BY <1>2, <1>3

LEMMA WaveInitInv == WaveInit => WaveInv
<1> SUFFICES ASSUME WaveInit PROVE WaveKept
  BY DEF WaveInit, WaveInv
<1>1. 0 \in Ring /\ Ring # {} /\ WaveBufs \in Nat /\ WaveBufs > 2
  BY WaveAssumption DEF Ring
<1>2. /\ queue = <<>> /\ Len(queue) = 0 /\ queue \in Seq(Ring) /\ Held(queue) = {}
      /\ prepared = {} /\ Cardinality(prepared) = 0
  BY EmptySeq, FS_EmptySet DEF WaveInit, Held
<1>3. WaveTyped
  <2>1. InRing(wpos, queue)
    BY <1>2 DEF InRing
  <2>2. wdir \in {"play", "rec"} /\ wleft \in Nat
    BY <1>1 DEF WaveInit
  <2> QED
    BY <1>1, <1>2, <2>1, <2>2 DEF WaveInit, WaveTyped
<1>4. PlayInv
  <2>1. wdir = "play" => /\ wleft = WaveBufs + 1 /\ Begun = 0
                         /\ inuse + 0 = Len(queue) /\ Len(queue) + fails = 0
    BY <1>1, <1>2 DEF WaveInit, Begun
  <2>2. writer["main"] = "idle" /\ writer["callback"] = "idle" /\ Filling = 0 /\ Uncounted = 0
    BY DEF WaveInit, Writers, Filling, Uncounted
  <2>3. Behind(wpos, queue, prepared)
    BY <1>2 DEF Behind
  <2> QED
    BY <1>1, <1>2, <2>1, <2>2, <2>3 DEF WaveInit, PlayInv, Writers
<1>5. RecInv
  <2>1. wdir = "rec" => /\ wleft \in 0 .. WaveBufs /\ inuse = WaveBufs - wleft
                        /\ wpos = (IF wleft = 0 THEN 0 ELSE inuse)
                        /\ Len(queue) >= inuse - fails
    BY <1>1, <1>2 DEF WaveInit
  <2>2. \A i \in 1 .. Len(queue) : FALSE
    BY <1>2
  <2> QED
    BY <2>1, <2>2 DEF WaveInit, RecInv
<1> QED
  BY <1>3, <1>4, <1>5 DEF WaveKept

(* The facts about the player that its steps need *)
LEMMA PlayFacts ==
  ASSUME WaveKept, wdir = "play"
  PROVE  /\ WaveBufs \in Nat /\ WaveBufs > 2 /\ Ring = 0 .. WaveBufs - 1
         /\ wpos \in Ring /\ wpos \in Int /\ fails \in Nat /\ inuse \in Int /\ wleft \in Nat
         /\ Len(queue) \in Nat /\ InRing(wpos, queue) /\ Held(queue) \subseteq prepared
         /\ prepared \in SUBSET Ring /\ IsFiniteSet(prepared)
         /\ Cardinality(prepared) \in Nat /\ Cardinality(prepared) = Len(queue) + fails
         /\ wpos \notin prepared => Cardinality(prepared) < WaveBufs
         /\ wpos \in Held(queue) => Cardinality(prepared) = WaveBufs
<1>1. /\ WaveBufs \in Nat /\ WaveBufs > 2 /\ Ring = 0 .. WaveBufs - 1
      /\ wpos \in Ring /\ fails \in Nat /\ inuse \in Int /\ wleft \in Nat
      /\ InRing(wpos, queue) /\ Held(queue) \subseteq prepared /\ prepared \in SUBSET Ring
      /\ queue \in Seq(Ring)
  BY WaveAssumption DEF WaveKept, WaveTyped, Ring, InRing
<1>2. wpos \in Int
  BY <1>1
<1>3. Len(queue) \in Nat
  BY <1>1, LenProperties
<1>4. /\ IsFiniteSet(prepared) /\ Cardinality(prepared) \in Nat
      /\ prepared # Ring => Cardinality(prepared) < WaveBufs
      /\ Cardinality(Ring) = WaveBufs
  BY <1>1, RingFinite
<1>5. Behind(wpos, queue, prepared) /\ Cardinality(prepared) = Len(queue) + fails
  BY DEF WaveKept, PlayInv
<1>6. wpos \in Held(queue) => prepared = Ring
  BY <1>1, <1>5, BehindAll
<1> QED
  BY <1>1, <1>2, <1>3, <1>4, <1>5, <1>6

(* The opening thread goes for a buffer, while the callback is at rest, or *)
(* ends.                                                                   *)
LEMMA PlayOpenKeeps ==
  ASSUME WaveKept, PlayOpen, wleft # 0 => writer["callback"] = "idle"
  PROVE  WaveKept'
<1>1. /\ wdir = "play" /\ wphase = "open" /\ writer["main"] = "idle"
      /\ WaveTyped /\ PlayInv /\ rdy
      /\ UNCHANGED <<wdir, rdy, inuse, wpos, prepared, queue, fails, spoilt>>
  BY DEF WaveKept, PlayInv, PlayOpen
<1>2. /\ WaveBufs \in Nat /\ WaveBufs > 2 /\ wpos \in Ring /\ wleft \in Nat
      /\ Cardinality(prepared) \in Nat
      /\ wpos \notin prepared => Cardinality(prepared) < WaveBufs
      /\ wpos \in Held(queue) => Cardinality(prepared) = WaveBufs
  BY <1>1, PlayFacts
<1>3. CASE wleft = 0
  <2>1. wphase' = "up" /\ UNCHANGED <<wleft, writer, wbuf>>
    BY <1>1, <1>3 DEF PlayOpen
  <2>2. WaveTyped'
    BY <1>1, <2>1 DEF WaveTyped
  <2>3. PlayInv'
    BY <1>1, <1>3, <2>1 DEF PlayInv, Uncounted, Filling, Busy, Stuck, Begun
  <2> QED
    BY <1>1, <2>2, <2>3 DEF WaveKept, RecInv
<1>4. CASE wleft # 0 /\ Enters
  <2>1. /\ wleft' = wleft - 1 /\ wphase' = "open"
        /\ writer' = [writer EXCEPT !["main"] = "in"]
        /\ wbuf' = [wbuf EXCEPT !["main"] = wpos]
        /\ wpos \notin prepared /\ writer["callback"] = "idle"
    BY <1>1, <1>4 DEF PlayOpen, DspBegin, Enters
  <2>2. /\ writer' \in [Writers -> {"idle", "in", "sent"}] /\ wbuf' \in [Writers -> Ring]
        /\ writer'["main"] = "in" /\ writer'["callback"] = "idle" /\ wbuf'["main"] = wpos
    BY <1>1, <1>2, <2>1 DEF WaveTyped, Writers
  <2>3. /\ Filling = 0 /\ Filling' = 1 /\ Uncounted = 0 /\ Uncounted' = 0
        /\ Cardinality(prepared) + 0 = Begun
    BY <1>1, <2>1, <2>2 DEF Filling, Uncounted, PlayInv, Stuck
  <2>4. wleft \in 2 .. WaveBufs + 1 /\ Begun = WaveBufs + 1 - wleft
    BY <1>1, <1>2, <1>4, <2>1, <2>3 DEF Begun, PlayInv
  <2>5. wleft' \in Nat /\ wleft' <= WaveBufs + 1 /\ Begun' = Begun + 1
    BY <1>2, <2>1, <2>4 DEF Begun
  <2>6. Cardinality(prepared') + Filling' = Begun'
    BY <1>1, <1>2, <2>3, <2>4, <2>5
  <2>7. WaveTyped'
    BY <1>1, <2>1, <2>2, <2>5 DEF WaveTyped
  <2>8. PlayInv'
    BY <1>1, <2>1, <2>2, <2>3, <2>5, <2>6 DEF PlayInv, Writers
  <2> QED
    BY <1>1, <2>7, <2>8 DEF WaveKept, RecInv
<1>5. CASE wleft # 0 /\ ~Enters
  <2>1. /\ wleft' = wleft - 1 /\ wphase' = "open" /\ UNCHANGED <<writer, wbuf>>
        /\ wpos \in prepared /\ writer["callback"] = "idle"
    BY <1>1, <1>5 DEF PlayOpen, DspBegin, Enters
  <2>2. wleft' \in Nat /\ wleft' <= WaveBufs + 1
    BY <1>1, <1>2, <1>5, <2>1 DEF PlayInv
  <2>3. ~Busy' /\ (Stuck' <=> Stuck) /\ UNCHANGED <<Filling, Uncounted>> /\ Filling = 0
    BY <1>1, <2>1 DEF Busy, Stuck, Filling, Uncounted
  <2>4. ASSUME ~Stuck PROVE Cardinality(prepared) + Filling = Begun'
    <3>1. Cardinality(prepared) = WaveBufs
      BY <1>2, <2>1, <2>4 DEF Stuck
    <3>2. Cardinality(prepared) + 0 = Begun
      BY <1>1, <2>3, <2>4 DEF PlayInv
    <3>3. wleft = 1
      BY <1>2, <1>5, <3>1, <3>2 DEF Begun
    <3> QED
      BY <1>2, <2>1, <2>3, <3>1, <3>3 DEF Begun
  <2>5. WaveTyped'
    BY <1>1, <2>1, <2>2 DEF WaveTyped
  <2>6. PlayInv'
    BY <1>1, <2>1, <2>2, <2>3, <2>4 DEF PlayInv
  <2> QED
    BY <1>1, <2>5, <2>6 DEF WaveKept, RecInv
<1> QED
  BY <1>3, <1>4, <1>5

(* A thread gives its buffer to the device. *)
LEMMA DspEndKeeps ==
  ASSUME WaveKept, ~raced, NEW t \in Writers, DspEnd(t)
  PROVE  WaveKept'
<1>1. /\ wdir = "play" /\ writer[t] = "in" /\ WaveTyped /\ PlayInv
      /\ wpos' = (wpos + 1) % WaveBufs
      /\ UNCHANGED <<wdir, wphase, wleft, rdy, inuse>>
  BY DEF WaveKept, DspEnd, INC_WPOS
<1>2. /\ WaveBufs \in Nat /\ WaveBufs > 2 /\ Ring = 0 .. WaveBufs - 1
      /\ wpos \in Ring /\ wpos \in Int /\ fails \in Nat /\ inuse \in Int
      /\ Len(queue) \in Nat /\ InRing(wpos, queue) /\ Held(queue) \subseteq prepared
      /\ prepared \in SUBSET Ring /\ IsFiniteSet(prepared)
      /\ Cardinality(prepared) \in Nat /\ Cardinality(prepared) = Len(queue) + fails
  BY <1>1, PlayFacts
<1>3. /\ wbuf[t] = wpos /\ wpos \notin prepared /\ wpos \notin Held(queue)
      /\ prepared' = prepared \cup {wpos}
      /\ Behind(wpos, queue, prepared)
  BY <1>1, <1>2 DEF PlayInv, DspEnd
<1>4. /\ \A u \in Writers : u # t => writer[u] = "idle"
      /\ Filling = 1 /\ Uncounted = 0
      /\ Cardinality(prepared) + 1 = Begun /\ Begun' = Begun
      /\ inuse + 0 = Len(queue)
  <2>1. t \in {"main", "callback"} /\ Writers = {"main", "callback"}
    BY DEF Writers
  <2>2. \A u \in Writers : u # t => writer[u] = "idle"
    BY <1>1, <2>1 DEF PlayInv
  <2>3. Filling = 1 /\ Uncounted = 0 /\ Busy
    BY <1>1, <2>1, <2>2 DEF Filling, Uncounted, Busy
  <2>4. Cardinality(prepared) + 1 = Begun /\ inuse + 0 = Len(queue)
    BY <1>1, <2>3 DEF PlayInv
  <2> QED
    BY <1>1, <2>2, <2>3, <2>4 DEF Begun
<1>5. Cardinality(prepared') = Cardinality(prepared) + 1 /\ prepared' \subseteq Ring
  BY <1>2, <1>3, OneMoreElement
<1>6. wbuf' \in [Writers -> Ring] /\ wpos' \in Ring /\ 0 \in Ring
  BY <1>1, <1>2, AheadInRing DEF DspEnd, WaveTyped
<1>7. "requeued" \notin spoilt'
  BY <1>1, <1>3 DEF DspEnd, WaveTyped, Queued, Held
<1>8. "late" \in spoilt' => fails >= WaveBufs - 1
  <2>1. CASE wphase = "closed"
    <3>1. wleft = 0 /\ queue = <<>>
      BY <1>1, <1>4, <2>1 DEF PlayInv, Writers
    <3>2. Cardinality(prepared) + 1 = WaveBufs /\ Len(queue) = 0
      BY <1>4, <3>1, EmptySeq DEF Begun
    <3> QED
      BY <1>2, <3>2
  <2>2. CASE wphase # "closed"
    BY <1>1, <2>2 DEF DspEnd, PlayInv
  <2> QED
    BY <2>1, <2>2
<1>9. CASE queue' = Append(queue, wbuf[t]) /\ writer' = [writer EXCEPT ![t] = "sent"]
           /\ UNCHANGED fails
  <2>1. /\ queue' = Append(queue, wpos)
        /\ InRing(wpos', queue') /\ Held(queue') = Held(queue) \cup {wpos}
        /\ Len(queue') = Len(queue) + 1
        /\ Behind(wpos', queue', prepared')
    BY <1>1, <1>2, <1>3, <1>9, RingAppend, BehindMoves
  <2>2. /\ writer' \in [Writers -> {"idle", "in", "sent"}] /\ writer'[t] = "sent"
        /\ \A u \in Writers : u # t => writer'[u] = "idle"
    BY <1>1, <1>4, <1>9 DEF WaveTyped
  <2>3. /\ Filling' = 0 /\ Uncounted' = 1
        /\ \A u \in Writers : writer'[u] # "in"
        /\ writer'["main"] = "idle" \/ (writer'["callback"] = "idle" /\ wphase = "open")
    BY <1>1, <1>4, <2>2 DEF Filling, Uncounted, Writers, PlayInv
  <2>4. WaveTyped'
    BY <1>1, <1>2, <1>3, <1>5, <1>6, <1>7, <1>9, <2>1, <2>2 DEF WaveTyped
  <2>5. /\ inuse' + Uncounted' = Len(queue') /\ Cardinality(prepared') = Len(queue') + fails'
        /\ Cardinality(prepared') + Filling' = Begun'
    BY <1>1, <1>2, <1>4, <1>5, <1>9, <2>1, <2>3
  <2>6. PlayInv'
    BY <1>1, <1>8, <1>9, <2>1, <2>3, <2>5 DEF PlayInv, Writers
  <2> QED
    BY <1>1, <2>4, <2>6 DEF WaveKept, RecInv
<1>10. CASE fails' = fails + 1 /\ writer' = [writer EXCEPT ![t] = "idle"] /\ UNCHANGED queue
  <2>1. InRing(wpos', queue) /\ Behind(wpos', queue, prepared')
    BY <1>1, <1>2, <1>3, RingMoves, BehindMoves
  <2>2. /\ writer' \in [Writers -> {"idle", "in", "sent"}]
        /\ \A u \in Writers : writer'[u] = "idle"
    BY <1>1, <1>4, <1>10 DEF WaveTyped
  <2>3. Filling' = 0 /\ Uncounted' = 0 /\ ~Busy'
        /\ writer'["main"] = "idle" /\ writer'["callback"] = "idle"
    BY <2>2 DEF Filling, Uncounted, Busy, Writers
  <2>4. Held(queue') \subseteq prepared'
    BY <1>2, <1>3, <1>10
  <2>5. WaveTyped'
    BY <1>1, <1>2, <1>5, <1>6, <1>7, <1>10, <2>1, <2>2, <2>4 DEF WaveTyped
  <2>6. /\ inuse' + Uncounted' = Len(queue') /\ Cardinality(prepared') = Len(queue') + fails'
        /\ Cardinality(prepared') + Filling' = Begun'
    BY <1>1, <1>2, <1>4, <1>5, <1>10, <2>3
  <2>7. "late" \in spoilt' => fails' >= WaveBufs - 1
    BY <1>2, <1>8, <1>10
  <2>8. PlayInv'
    BY <1>1, <1>10, <2>1, <2>2, <2>3, <2>6, <2>7 DEF PlayInv
  <2> QED
    BY <1>1, <2>5, <2>8 DEF WaveKept, RecInv
<1> QED
  BY <1>9, <1>10 DEF DspEnd

(* It counts it. *)
LEMMA DspCountKeeps ==
  ASSUME WaveKept, ~raced, NEW t \in Writers, DspCount(t)
  PROVE  WaveKept'
<1>1. /\ wdir = "play" /\ writer[t] = "sent" /\ WaveTyped /\ PlayInv
      /\ writer' = [writer EXCEPT ![t] = "idle"] /\ inuse' = inuse + 1
      /\ UNCHANGED <<wdir, wphase, wleft, rdy, wpos, prepared, queue, wbuf, fails, spoilt>>
  BY DEF WaveKept, DspCount
<1>2. t \in {"main", "callback"} /\ Writers = {"main", "callback"}
  BY DEF Writers
<1>3. \A u \in Writers : u # t => writer[u] = "idle"
  BY <1>1, <1>2 DEF PlayInv
<1>4. Filling = 0 /\ Uncounted = 1 /\ Busy
  BY <1>1, <1>2, <1>3 DEF Filling, Uncounted, Busy
<1>5. /\ writer' \in [Writers -> {"idle", "in", "sent"}]
      /\ \A u \in Writers : writer'[u] = "idle"
  BY <1>1, <1>3 DEF WaveTyped
<1>6. /\ Filling' = 0 /\ Uncounted' = 0
      /\ writer'["main"] = "idle" /\ writer'["callback"] = "idle"
  BY <1>2, <1>5 DEF Filling, Uncounted
<1>7. inuse \in Int /\ Len(queue) \in Nat
  BY <1>1, PlayFacts
<1>8. WaveTyped'
  BY <1>1, <1>5, <1>7 DEF WaveTyped
<1>9. inuse' + Uncounted' = Len(queue')
  BY <1>1, <1>4, <1>6, <1>7 DEF PlayInv
<1>10. Cardinality(prepared') + Filling' = Begun'
  BY <1>1, <1>4, <1>6 DEF PlayInv, Begun
<1>11. PlayInv'
  BY <1>1, <1>5, <1>6, <1>9, <1>10 DEF PlayInv
<1> QED
  BY <1>1, <1>8, <1>11 DEF WaveKept, RecInv

(* The device is done with a buffer that was to be played, while the       *)
(* opening thread is not in dsp_write.                                     *)
LEMMA PlayDoneKeeps ==
  ASSUME WaveKept, PlayDone, writer["main"] = "idle"
  PROVE  WaveKept'
<1>1. /\ wdir = "play" /\ queue # <<>> /\ writer["callback"] = "idle"
      /\ WaveTyped /\ PlayInv /\ inuse' = inuse - 1
      /\ queue' = Tail(queue) /\ prepared' = prepared \ {Head(queue)}
      /\ UNCHANGED <<wdir, wphase, wleft, rdy, wpos, fails, spoilt>>
  BY DEF WaveKept, PlayDone
<1>2. /\ WaveBufs \in Nat /\ wpos \in Ring /\ fails \in Nat /\ inuse \in Int
      /\ Len(queue) \in Nat /\ InRing(wpos, queue) /\ Held(queue) \subseteq prepared
      /\ prepared \in SUBSET Ring /\ IsFiniteSet(prepared)
      /\ Cardinality(prepared) \in Nat /\ Cardinality(prepared) = Len(queue) + fails
  BY <1>1, PlayFacts
<1>3. /\ InRing(wpos, queue') /\ Head(queue) \in Ring
      /\ Len(queue) > 0 /\ Len(queue') = Len(queue) - 1
      /\ Held(queue') = Held(queue) \ {Head(queue)} /\ Head(queue) \in Held(queue)
      /\ wpos \in Held(queue) => Head(queue) = wpos
  BY <1>1, <1>2, RingTail
<1>4. Behind(wpos, queue', prepared')
  BY <1>1, <1>2, BehindTail DEF PlayInv
<1>5. /\ Head(queue) \in prepared /\ Held(queue') \subseteq prepared' /\ prepared' \subseteq Ring
      /\ Cardinality(prepared') = Cardinality(prepared) - 1
  BY <1>1, <1>2, <1>3, OneLessElement
<1>6. /\ Filling = 0 /\ Uncounted = 0 /\ inuse + 0 = Len(queue) /\ Begun' = Begun
      /\ rdy /\ ~Stuck => Cardinality(prepared) + 0 = Begun
  BY <1>1 DEF Filling, Uncounted, PlayInv, Begun
<1>9. inuse' + 0 = Len(queue')
  <2>1. inuse' = inuse - 1 /\ inuse + 0 = Len(queue) /\ Len(queue') = Len(queue) - 1
    BY <1>1, <1>3, <1>6
  <2>2. inuse \in Int /\ Len(queue) \in Nat
    BY <1>2
  <2> QED
    BY <2>1, <2>2
<1>10. Cardinality(prepared') = Len(queue') + fails'
  <2>1. /\ Cardinality(prepared') = Cardinality(prepared) - 1 /\ fails' = fails
        /\ Cardinality(prepared) = Len(queue) + fails /\ Len(queue') = Len(queue) - 1
    BY <1>1, <1>2, <1>3, <1>5
  <2>2. Len(queue) \in Nat /\ fails \in Nat
    BY <1>2
  <2> QED
    BY <2>1, <2>2
<1>7. CASE rdy /\ wpos \notin prepared'
  <2>1. /\ writer' = [writer EXCEPT !["callback"] = "in"]
        /\ wbuf' = [wbuf EXCEPT !["callback"] = wpos]
    BY <1>1, <1>7 DEF PlayDone
  <2>2. /\ writer' \in [Writers -> {"idle", "in", "sent"}] /\ wbuf' \in [Writers -> Ring]
        /\ writer'["callback"] = "in" /\ writer'["main"] = "idle"
        /\ wbuf'["callback"] = wpos
    BY <1>1, <1>2, <2>1 DEF WaveTyped, Writers
  <2>3. ~Stuck
    BY <1>1, <1>3, <1>7 DEF Stuck
  <2>4. Filling' = 1 /\ Uncounted' = 0
    BY <2>2 DEF Filling, Uncounted
  <2>5. Cardinality(prepared') + Filling' = Begun'
    BY <1>2, <1>5, <1>6, <1>7, <2>3, <2>4
  <2>6. wphase # "closed"
    BY <1>1, <1>7 DEF PlayInv
  <2>7. inuse' + Uncounted' = Len(queue') /\ Cardinality(prepared') = Len(queue') + fails'
    BY <1>9, <1>10, <2>4
  <2>8. WaveTyped'
    BY <1>1, <1>2, <1>3, <1>5, <2>2 DEF WaveTyped
  <2>9. PlayInv'
    BY <1>1, <1>4, <1>7, <2>2, <2>5, <2>6, <2>7 DEF PlayInv, Writers
  <2> QED
    BY <1>1, <2>8, <2>9 DEF WaveKept, RecInv
<1>8. CASE ~(rdy /\ wpos \notin prepared')
  <2>1. UNCHANGED <<writer, wbuf>>
    BY <1>1, <1>8 DEF PlayDone
  <2>2. ~Busy' /\ UNCHANGED <<Filling, Uncounted>>
    BY <1>1, <2>1 DEF Busy, Filling, Uncounted
  <2>3. rdy => Stuck'
    <3>1. wpos' = wpos
      BY <1>1
    <3>2. wpos \in prepared' => wpos # Head(queue) /\ Head(queue) \in Held(queue)
      BY <1>1, <1>3
    <3>3. wpos \in prepared' => wpos \notin Held(queue)
      BY <1>3, <3>2
    <3>4. wpos \notin Held(queue) => wpos \notin Held(queue')
      BY <1>3
    <3> QED
      BY <1>8, <3>1, <3>3, <3>4 DEF Stuck
  <2>4. inuse' + Uncounted' = Len(queue') /\ Cardinality(prepared') = Len(queue') + fails'
    BY <1>6, <1>9, <1>10, <2>2
  <2>5. WaveTyped'
    BY <1>1, <1>2, <1>3, <1>5, <2>1 DEF WaveTyped
  <2>6. \A t \in Writers : writer'[t] # "in"
    BY <1>1, <2>1 DEF Writers
  <2>7. PlayInv'
    BY <1>1, <1>4, <2>1, <2>2, <2>3, <2>4, <2>6 DEF PlayInv
  <2> QED
    BY <1>1, <2>5, <2>7 DEF WaveKept, RecInv
<1> QED
  BY <1>7, <1>8

LEMMA PlayCloseKeeps ==
  ASSUME WaveKept, PlayClose
  PROVE  WaveKept'
<1>1. /\ wdir = "play" /\ WaveTyped /\ PlayInv /\ rdy' = FALSE
      /\ \/ wphase = "up" /\ wphase' = "closing"
         \/ wphase = "closing" /\ inuse = 0 /\ wphase' = "closed"
      /\ spoilt' = spoilt \cup (IF wphase' = "closed" /\ queue # <<>> THEN {"late"} ELSE {})
      /\ UNCHANGED <<wdir, wleft, inuse, wpos, prepared, queue, writer, wbuf, fails>>
  BY DEF WaveKept, PlayInv, PlayClose
<1>2. /\ WaveBufs \in Nat /\ inuse \in Int /\ Len(queue) \in Nat /\ fails \in Nat
      /\ Cardinality(prepared) = Len(queue) + fails /\ queue \in Seq(Ring)
  BY <1>1, PlayFacts DEF InRing
<1>3. writer["main"] = "idle" /\ wleft = 0
  BY <1>1 DEF PlayInv
<1>4. wphase' = "closed" /\ writer["callback"] # "sent" => queue = <<>>
  <2> SUFFICES ASSUME wphase' = "closed", writer["callback"] # "sent" PROVE queue = <<>>
    OBVIOUS
  <2>1. Uncounted = 0 /\ inuse = 0
    BY <1>1, <1>3 DEF Uncounted
  <2>2. Len(queue) = 0
    BY <1>1, <1>2, <2>1 DEF PlayInv
  <2> QED
    BY <1>2, <2>2, EmptySeq
<1>5. wphase' = "closed" /\ writer["callback"] = "sent" => fails >= WaveBufs - 1
  <2> SUFFICES ASSUME wphase' = "closed", writer["callback"] = "sent" PROVE fails >= WaveBufs - 1
    OBVIOUS
  <2>1. Uncounted = 1 /\ Filling = 0 /\ Busy /\ Begun = WaveBufs /\ inuse = 0
    BY <1>1, <1>3 DEF Uncounted, Filling, Busy, Begun
  <2>2. Len(queue) = 1 /\ Cardinality(prepared) + 0 = WaveBufs
    BY <1>1, <1>2, <2>1 DEF PlayInv
  <2> QED
    BY <1>2, <2>2
<1>6. "late" \in spoilt' => fails >= WaveBufs - 1
  BY <1>1, <1>4, <1>5 DEF PlayInv
<1>7. WaveTyped'
  BY <1>1 DEF WaveTyped
<1>8. UNCHANGED <<Uncounted, Filling, Begun>> /\ (Busy' <=> Busy)
  BY <1>1 DEF Uncounted, Filling, Begun, Busy
<1>9. PlayInv'
  BY <1>1, <1>3, <1>4, <1>6, <1>8 DEF PlayInv
<1> QED
  BY <1>1, <1>7, <1>9 DEF WaveKept, RecInv

(* The recorder hands a buffer to the device, which has those of q. *)
LEMMA AddWaveInAdds ==
  ASSUME WaveTyped, NEW q, NEW busy, AddWaveIn(q, busy), InRing(wpos, q),
         wpos \notin Held(q) \cup busy, busy \cap Held(q) = {}, Held(q) \subseteq prepared
  PROVE  /\ wpos' \in Ring /\ wpos' = IF wpos + 1 < WaveBufs THEN wpos + 1 ELSE 0
         /\ InRing(wpos', queue') /\ Held(queue') \subseteq prepared' /\ prepared' \subseteq Ring
         /\ spoilt' = spoilt /\ fails' \in Nat /\ fails' >= fails
         /\ Len(q) \in Nat /\ Len(queue') \in Nat /\ Len(queue') + fails' = Len(q) + fails + 1
         /\ \A i \in 1 .. Len(queue') :
              \/ Ahead(wpos', queue'[i]) = WaveBufs - 1
              \/ i \in 1 .. Len(q) /\ Ahead(wpos', queue'[i]) = Ahead(wpos, q[i]) - 1
<1>1. wpos \in Ring /\ fails \in Nat /\ prepared \subseteq Ring
  BY DEF WaveTyped
<1>2. wpos' = (wpos + 1) % WaveBufs /\ wpos' \in Ring
      /\ wpos' = IF wpos + 1 < WaveBufs THEN wpos + 1 ELSE 0
  BY <1>1, NextInRing, AheadInRing DEF AddWaveIn, INC_WPOS
<1>3. prepared' = (prepared \cup {wpos}) \ busy /\ prepared' \subseteq Ring
  BY <1>1 DEF AddWaveIn
<1>4. spoilt' = spoilt
  BY DEF AddWaveIn, Held
<1>5. CASE queue' = Append(q, wpos) /\ UNCHANGED fails
  <2>1. /\ InRing(wpos', queue') /\ Len(q) \in Nat /\ Len(queue') = Len(q) + 1
        /\ Held(queue') = Held(q) \cup {wpos}
        /\ \A i \in 1 .. Len(q) : /\ queue'[i] = q[i]
                                  /\ Ahead(wpos', q[i]) = Ahead(wpos, q[i]) - 1
        /\ queue'[Len(q) + 1] = wpos /\ Ahead(wpos', wpos) = WaveBufs - 1
    BY <1>1, <1>2, <1>5, RingAppend
  <2>2. \A i \in 1 .. Len(queue') : i \in 1 .. Len(q) \/ i = Len(q) + 1
    BY <2>1
  <2>3. Held(queue') \subseteq prepared'
    BY <1>3, <2>1
  <2>4. fails' \in Nat /\ fails' >= fails /\ Len(queue') \in Nat
        /\ Len(queue') + fails' = Len(q) + fails + 1
    BY <1>1, <1>5, <2>1
  <2>5. \A i \in 1 .. Len(queue') :
          \/ Ahead(wpos', queue'[i]) = WaveBufs - 1
          \/ i \in 1 .. Len(q) /\ Ahead(wpos', queue'[i]) = Ahead(wpos, q[i]) - 1
    BY <2>1, <2>2
  <2> QED
    BY <1>2, <1>3, <1>4, <2>1, <2>3, <2>4, <2>5
<1>6. CASE fails' = fails + 1 /\ queue' = q
  <2>1. /\ InRing(wpos', q)
        /\ \A i \in 1 .. Len(q) : Ahead(wpos', q[i]) = Ahead(wpos, q[i]) - 1
    BY <1>1, <1>2, RingMoves
  <2>2. Len(q) \in Nat
    BY LenProperties DEF InRing
  <2>3. fails' \in Nat /\ fails' >= fails /\ Len(q) + fails' = Len(q) + fails + 1
    BY <1>1, <1>6, <2>2
  <2>4. Held(q) \subseteq prepared'
    BY <1>3
  <2> QED
    BY <1>2, <1>3, <1>4, <1>6, <2>1, <2>2, <2>3, <2>4
<1> QED
  BY <1>5, <1>6 DEF AddWaveIn

LEMMA RecOpenKeeps ==
  ASSUME WaveKept, RecOpen
  PROVE  WaveKept'
<1>1. /\ wdir = "rec" /\ wphase = "open" /\ WaveTyped
      /\ writer = [t \in Writers |-> "idle"] /\ "late" \notin spoilt
      /\ UNCHANGED <<wdir, rdy, writer, wbuf>>
  BY DEF WaveKept, RecInv, RecOpen
<1>2. /\ WaveBufs \in Nat /\ WaveBufs > 2 /\ Ring = 0 .. WaveBufs - 1
      /\ wleft \in 0 .. WaveBufs /\ inuse = WaveBufs - wleft
      /\ wpos = (IF wleft = 0 THEN 0 ELSE inuse)
      /\ Len(queue) >= inuse - fails /\ fails \in Nat
      /\ \A i \in 1 .. Len(queue) : Ahead(wpos, queue[i]) >= WaveBufs - inuse
  BY <1>1, WaveAssumption DEF WaveKept, RecInv, WaveTyped, Ring
<1>3. CASE wleft = 0
  <2>1. /\ wphase' = "up" /\ UNCHANGED <<wleft, inuse, wpos, prepared, queue, fails, spoilt>>
    BY <1>3 DEF RecOpen
  <2>2. inuse \in 2 .. WaveBufs
    BY <1>2, <1>3
  <2>3. WaveTyped'
    BY <1>1, <2>1 DEF WaveTyped
  <2>4. RecInv'
    BY <1>1, <1>2, <2>1, <2>2 DEF RecInv
  <2> QED
    BY <1>1, <2>3, <2>4 DEF WaveKept, PlayInv
<1>4. CASE wleft # 0
  <2>1. /\ wleft' = wleft - 1 /\ AddWaveIn(queue, {}) /\ inuse' = inuse + 1
        /\ wphase' = "open"
    BY <1>1, <1>4 DEF RecOpen
  <2>2. InRing(wpos, queue) /\ Held(queue) \subseteq prepared /\ wpos \in Ring
    BY <1>1 DEF WaveTyped
  <2>3. wpos \notin Held(queue)
    <3>1. \A i \in 1 .. Len(queue) : queue[i] # wpos
      <4> SUFFICES ASSUME NEW i \in 1 .. Len(queue) PROVE Ahead(wpos, queue[i]) # 0
        BY <1>2, <2>2 DEF Ahead
      <4> QED
        BY <1>2, <1>4
    <3> QED
      BY <3>1 DEF Held
  <2>4. /\ wpos' \in Ring /\ wpos' = IF wpos + 1 < WaveBufs THEN wpos + 1 ELSE 0
        /\ InRing(wpos', queue') /\ Held(queue') \subseteq prepared' /\ prepared' \subseteq Ring
        /\ spoilt' = spoilt /\ fails' \in Nat
        /\ Len(queue) \in Nat /\ Len(queue') \in Nat
        /\ Len(queue') + fails' = Len(queue) + fails + 1
        /\ \A i \in 1 .. Len(queue') :
             \/ Ahead(wpos', queue'[i]) = WaveBufs - 1
             \/ i \in 1 .. Len(queue) /\ Ahead(wpos', queue'[i]) = Ahead(wpos, queue[i]) - 1
    BY <1>1, <2>1, <2>2, <2>3, AddWaveInAdds
  <2>5. /\ wleft' \in 0 .. WaveBufs /\ inuse' = WaveBufs - wleft' /\ wleft' \in Nat
        /\ inuse' \in Int /\ wpos' = IF wleft' = 0 THEN 0 ELSE inuse'
        /\ Len(queue') >= inuse' - fails'
    <3>1. /\ wleft' \in 0 .. WaveBufs /\ inuse' = WaveBufs - wleft' /\ wleft' \in Nat
          /\ inuse' \in Int /\ wpos = inuse /\ (wleft' = 0 <=> wpos + 1 = WaveBufs)
          /\ wpos \in Int /\ wpos + 1 <= WaveBufs
      BY <1>2, <1>4, <2>1
    <3>2. wpos' = IF wleft' = 0 THEN 0 ELSE inuse'
      <4>1. wpos' = IF wpos + 1 < WaveBufs THEN wpos + 1 ELSE 0
        BY <2>4
      <4> QED
        BY <1>2, <2>1, <3>1, <4>1
    <3>3. Len(queue') >= inuse' - fails'
      <4>1. /\ Len(queue) \in Nat /\ Len(queue') \in Nat /\ fails' \in Nat
            /\ Len(queue') + fails' = Len(queue) + fails + 1
        BY <2>4
      <4> QED
        BY <1>2, <2>1, <3>1, <4>1
    <3> QED
      BY <3>1, <3>2, <3>3
  <2>6. \A i \in 1 .. Len(queue') : Ahead(wpos', queue'[i]) >= WaveBufs - inuse'
    <3> TAKE i \in 1 .. Len(queue')
    <3>1. CASE Ahead(wpos', queue'[i]) = WaveBufs - 1
      BY <1>2, <1>4, <2>1, <3>1
    <3>2. CASE i \in 1 .. Len(queue) /\ Ahead(wpos', queue'[i]) = Ahead(wpos, queue[i]) - 1
      <4>1. Ahead(wpos, queue[i]) >= WaveBufs - inuse /\ Ahead(wpos, queue[i]) \in Int
        <5>1. queue[i] \in Ring
          BY <2>2, <3>2, ElementOfSeq DEF InRing
        <5>2. Ahead(wpos, queue[i]) \in Ring
          BY <2>2, <5>1, AheadInRing
        <5> QED
          BY <1>2, <3>2, <5>2
      <4> QED
        BY <1>2, <2>1, <3>2, <4>1
    <3> QED
      BY <2>4, <3>1, <3>2
  <2>7. WaveTyped'
    BY <1>1, <2>1, <2>4, <2>5 DEF WaveTyped
  <2>8. RecInv'
    BY <1>1, <2>1, <2>4, <2>5, <2>6 DEF RecInv
  <2> QED
    BY <1>1, <2>7, <2>8 DEF WaveKept, PlayInv
<1> QED
  BY <1>3, <1>4

LEMMA RecDataKeeps ==
  ASSUME WaveKept, RecData
  PROVE  WaveKept'
<1>1. /\ wdir = "rec" /\ wphase = "up" /\ queue # <<>> /\ WaveTyped
      /\ writer = [t \in Writers |-> "idle"] /\ "late" \notin spoilt
      /\ UNCHANGED <<wdir, wphase, wleft, rdy, writer, wbuf>>
  BY DEF WaveKept, RecInv, RecData
<1>2. /\ WaveBufs \in Nat /\ WaveBufs > 2 /\ Ring = 0 .. WaveBufs - 1
      /\ inuse \in 2 .. WaveBufs /\ Len(queue) >= inuse - fails /\ fails \in Nat
      /\ \A i \in 1 .. Len(queue) : Ahead(wpos, queue[i]) >= WaveBufs - inuse
  BY <1>1, WaveAssumption DEF WaveKept, RecInv, WaveTyped, Ring
<1>3. /\ InRing(wpos, queue) /\ Held(queue) \subseteq prepared
      /\ wpos \in Ring /\ prepared \subseteq Ring
  BY <1>1 DEF WaveTyped
<1> DEFINE t == Tail(queue)  h == Head(queue)
<1>4. /\ InRing(wpos, t) /\ h \in Ring /\ h = queue[1]
      /\ Len(queue) \in Nat /\ Len(queue) > 0 /\ Len(t) = Len(queue) - 1
      /\ Held(t) = Held(queue) \ {h} /\ h \in Held(queue)
      /\ \A i \in 1 .. Len(t) : Ahead(wpos, t[i]) >= Ahead(wpos, h) + 1
  BY <1>1, <1>3, RingTail
<1>5. \A i \in 1 .. Len(t) : Ahead(wpos, t[i]) \in Int /\ Ahead(wpos, t[i]) >= WaveBufs - inuse + 1
  <2>1. Ahead(wpos, h) >= WaveBufs - inuse
    BY <1>2, <1>4
  <2>2. Ahead(wpos, h) \in Int
    BY <1>2, <1>3, <1>4 DEF Ahead
  <2> TAKE i \in 1 .. Len(t)
  <2>3. t[i] \in Ring
    BY <1>4, ElementOfSeq DEF InRing
  <2>4. Ahead(wpos, t[i]) \in Int
    BY <1>2, <1>3, <2>3 DEF Ahead
  <2> QED
    BY <1>2, <1>4, <2>1, <2>2, <2>4
<1> HIDE DEF t, h
<1>6. CASE Refill
  <2>1. AddWaveIn(t, {h}) /\ inuse' = inuse /\ inuse = 2
    BY <1>1, <1>2, <1>6 DEF RecData, Refill, t, h
  <2>2. wpos \notin Held(t) \cup {h}
    <3>1. Ahead(wpos, h) # 0
      BY <1>2, <1>4, <2>1
    <3>2. \A i \in 1 .. Len(t) : Ahead(wpos, t[i]) # 0
      BY <1>2, <1>5, <2>1
    <3>3. Ahead(wpos, wpos) = 0
      BY <1>2, <1>3 DEF Ahead
    <3> QED
      BY <3>1, <3>2, <3>3 DEF Held
  <2>3. {h} \cap Held(t) = {} /\ Held(t) \subseteq prepared
    BY <1>3, <1>4
  <2>4. /\ wpos' \in Ring
        /\ InRing(wpos', queue') /\ Held(queue') \subseteq prepared' /\ prepared' \subseteq Ring
        /\ spoilt' = spoilt /\ fails' \in Nat /\ fails' >= fails
        /\ Len(t) \in Nat /\ Len(queue') \in Nat /\ Len(queue') + fails' = Len(t) + fails + 1
        /\ \A i \in 1 .. Len(queue') :
             \/ Ahead(wpos', queue'[i]) = WaveBufs - 1
             \/ i \in 1 .. Len(t) /\ Ahead(wpos', queue'[i]) = Ahead(wpos, t[i]) - 1
    BY <1>1, <1>4, <2>1, <2>2, <2>3, AddWaveInAdds
  <2>5. Len(queue') >= inuse' - fails'
    BY <1>2, <1>4, <2>1, <2>4
  <2>6. \A i \in 1 .. Len(queue') : Ahead(wpos', queue'[i]) >= WaveBufs - inuse'
    <3> TAKE i \in 1 .. Len(queue')
    <3>1. \/ Ahead(wpos', queue'[i]) = WaveBufs - 1
          \/ i \in 1 .. Len(t) /\ Ahead(wpos', queue'[i]) = Ahead(wpos, t[i]) - 1
      BY <2>4
    <3>2. i \in 1 .. Len(t) =>
            Ahead(wpos, t[i]) \in Int /\ Ahead(wpos, t[i]) >= WaveBufs - inuse + 1
      BY <1>5
    <3> QED
      BY <1>2, <2>1, <3>1, <3>2
  <2>7. WaveTyped'
    BY <1>1, <2>1, <2>4 DEF WaveTyped
  <2>8. RecInv'
    BY <1>1, <1>2, <2>1, <2>4, <2>5, <2>6 DEF RecInv
  <2> QED
    BY <1>1, <2>7, <2>8 DEF WaveKept, PlayInv
<1>7. CASE ~Refill
  <2>1. /\ queue' = t /\ prepared' = prepared \ {h} /\ inuse' = inuse - 1
        /\ UNCHANGED <<wpos, fails, spoilt>>
    BY <1>1, <1>7 DEF RecData, t, h
  <2>2. inuse' \in 2 .. WaveBufs /\ inuse' \in Int /\ Len(queue') >= inuse' - fails'
    BY <1>2, <1>4, <1>7, <2>1 DEF Refill
  <2>3. \A i \in 1 .. Len(queue') : Ahead(wpos', queue'[i]) >= WaveBufs - inuse'
    BY <1>2, <1>5, <2>1
  <2>4. Held(queue') \subseteq prepared' /\ prepared' \subseteq Ring
    BY <1>3, <1>4, <2>1
  <2>5. WaveTyped'
    BY <1>1, <1>4, <2>1, <2>2, <2>4 DEF WaveTyped
  <2>6. RecInv'
    BY <1>1, <2>1, <2>2, <2>3 DEF RecInv
  <2> QED
    BY <1>1, <2>5, <2>6 DEF WaveKept, PlayInv
<1> QED
  BY <1>6, <1>7

LEMMA RecCloseKeeps ==
  ASSUME WaveKept, RecClose
  PROVE  WaveKept'
<1>1. /\ wdir = "rec" /\ wphase = "up" /\ wphase' = "closed" /\ queue' = <<>> /\ prepared' = {}
      /\ UNCHANGED <<wdir, wleft, rdy, inuse, wpos, writer, wbuf, fails, spoilt>>
  BY DEF RecClose
<1>2. queue' \in Seq(Ring) /\ Len(queue') = 0 /\ Held(queue') = {}
  BY <1>1, EmptySeq DEF Held
<1>3. InRing(wpos, queue')
  BY <1>2 DEF InRing
<1>4. WaveTyped'
  BY <1>1, <1>2, <1>3 DEF WaveKept, WaveTyped
<1>5. RecInv'
  BY <1>1 DEF WaveKept, RecInv
<1> QED
  BY <1>1, <1>4, <1>5 DEF WaveKept, PlayInv

LEMMA WaveStep == WaveInv /\ [WaveNext]_waveVars => WaveInv'
<1> SUFFICES ASSUME WaveInv, [WaveNext]_waveVars PROVE WaveInv'
  OBVIOUS
<1>1. CASE UNCHANGED waveVars
  BY <1>1 DEF waveVars, WaveInv, WaveKept, WaveTyped, PlayInv, RecInv, Begun, Filling,
     Uncounted, Busy, Stuck
<1>2. CASE raced /\ WaveNext
  <2>1. wdir = "play"
    BY <1>2 DEF WaveInv
  <2>2. wdir' = wdir /\ raced'
    BY <1>2, <2>1 DEF WaveNext, PlayOpen, PlayDone, PlayClose, DspEnd, DspCount, RecOpen,
       RecData, RecClose
  <2>3. raced' \in BOOLEAN
    BY <1>2, <2>1 DEF WaveNext, PlayOpen, PlayDone, PlayClose, DspEnd, DspCount, RecOpen,
       RecData, RecClose
  <2> QED
    BY <2>1, <2>2, <2>3 DEF WaveInv
<1>3. CASE ~raced /\ WaveNext
  <2>1. WaveKept /\ raced = FALSE
    BY <1>3 DEF WaveInv
  <2>2. CASE PlayOpen
    <3>1. wdir' = "play" /\ raced' \in BOOLEAN
      BY <2>1, <2>2 DEF PlayOpen
    <3>2. ~raced' => (wleft # 0 => writer["callback"] = "idle")
      BY <2>1, <2>2 DEF PlayOpen
    <3> QED
      BY <2>1, <2>2, <3>1, <3>2, PlayOpenKeeps DEF WaveInv
  <2>3. CASE PlayDone
    <3>1. wdir' = "play" /\ raced' \in BOOLEAN
      BY <2>1, <2>3 DEF PlayDone
    <3>2. ~raced' => writer["main"] = "idle"
      BY <2>1, <2>3 DEF PlayDone
    <3> QED
      BY <2>1, <2>3, <3>1, <3>2, PlayDoneKeeps DEF WaveInv
  <2>4. CASE PlayClose
    BY <2>1, <2>4, PlayCloseKeeps DEF PlayClose, WaveInv
  <2>5. CASE \E t \in Writers : DspEnd(t) \/ DspCount(t)
    <3>1. PICK t \in Writers : DspEnd(t) \/ DspCount(t)
      BY <2>5
    <3>2. raced' = raced
      BY <3>1 DEF DspEnd, DspCount
    <3>3. WaveKept'
      BY <1>3, <2>1, <3>1, DspEndKeeps, DspCountKeeps
    <3> QED
      BY <2>1, <3>2, <3>3 DEF WaveInv
  <2>6. CASE RecOpen
    BY <2>1, <2>6, RecOpenKeeps DEF RecOpen, WaveInv
  <2>7. CASE RecData
    BY <2>1, <2>7, RecDataKeeps DEF RecData, WaveInv
  <2>8. CASE RecClose
    BY <2>1, <2>8, RecCloseKeeps DEF RecClose, WaveInv
  <2> QED
    BY <1>3, <2>2, <2>3, <2>4, <2>5, <2>6, <2>7, <2>8 DEF WaveNext
<1> QED
  BY <1>1, <1>2, <1>3

LEMMA WaveInvSound == WaveInv => WaveSound
<1> SUFFICES ASSUME WaveInv, ~raced PROVE WaveSound
  BY DEF WaveInv, WaveSound
<1>1. /\ "requeued" \notin spoilt /\ Queued \subseteq prepared /\ fails \in Nat
      /\ queue \in Seq(Ring) /\ wdir \in {"play", "rec"} /\ PlayInv /\ RecInv
  BY DEF WaveInv, WaveKept, WaveTyped, Queued, Held, InRing
<1>2. fails < WaveBufs - 1 => "late" \notin spoilt
  <2>1. "late" \in spoilt => fails >= WaveBufs - 1
    BY <1>1 DEF PlayInv, RecInv
  <2> QED
    BY <1>1, <2>1, WaveAssumption
<1>3. wdir = "play" =>
        inuse + (IF \E t \in Writers : writer[t] = "sent" THEN 1 ELSE 0) = Len(queue)
  <2>1. (\E t \in Writers : writer[t] = "sent")
          <=> (writer["main"] = "sent" \/ writer["callback"] = "sent")
    BY DEF Writers
  <2> QED
    BY <1>1, <2>1 DEF PlayInv, Uncounted
<1>4. ASSUME wdir = "rec", wphase = "up", fails < 2, queue = <<>> PROVE FALSE
  <2>1. Len(queue) = 0
    BY <1>4, EmptySeq
  <2>2. inuse \in 2 .. WaveBufs /\ Len(queue) >= inuse - fails
    BY <1>1, <1>4 DEF RecInv
  <2> QED
    BY <1>1, <1>4, <2>1, <2>2, WaveAssumption
<1> QED
  BY <1>1, <1>2, <1>3, <1>4 DEF WaveSound, RingKept

----------------------------------------------------------------------------
(* The radio *)

IcyStates == [what : {"head", "mp3", "len", "meta"}, n : Nat, int : Nat]

IcyBytes == [is : {"head", "eoh", "mp3", "len", "meta"}, v : Nat]

(* What a server in state y sends next, and the state that follows when    *)
(* the byte is k, as RstSend has it *)
Named(y) == IF y.what = "head" /\ y.n = 1 THEN "eoh" ELSE y.what

After(y, k) ==
  IF y.n > 1 THEN [y EXCEPT !.n = @ - 1]
  ELSE IF y.what = "mp3" THEN [y EXCEPT !.what = "len", !.n = 1]
  ELSE IF y.what = "len" /\ k > 0 THEN [y EXCEPT !.what = "meta", !.n = k]
  ELSE [y EXCEPT !.what = "mp3", !.n = y.int]

(* The state of the server j bytes after y, as far as it does not depend   *)
(* on the bytes *)
Reaches(y, j, z) ==
  /\ z.int = y.int
  /\ j < y.n => z.what = y.what /\ z.n = y.n - j
  /\ j = y.n /\ j > 0 =>
       /\ y.what \in {"head", "meta"} => z.what = "mp3" /\ z.n = z.int
       /\ y.what = "mp3" => z.what = "len" /\ z.n = 1

(* Only a server that names no interval comes to an end. *)
Going(y) == (y.what = "len" => y.n = 1) /\ (y.n = 0 => y.what = "mp3" /\ y.int = 0)

(* The bytes of s are what a server sent: it was in state st[i] before it  *)
(* sent the one at i.                                                      *)
Labels(st, s) ==
  /\ s \in Seq(IcyBytes) /\ st \in [1 .. Len(s) + 1 -> IcyStates]
  /\ \A i \in 1 .. Len(s) : s[i].is = Named(st[i]) /\ st[i + 1] = After(st[i], s[i].v)
  /\ \A i, j \in 1 .. Len(s) + 1 : i <= j => Reaches(st[i], j - i, st[j])
  /\ \A i \in 1 .. Len(s) + 1 : Going(st[i])

(* What the radio takes the next byte for *)
Parses ==
  IF metasz > 0 THEN [what |-> "meta", n |-> metasz - bytec, int |-> metaint]
  ELSE IF bytec < metaint THEN [what |-> "mp3", n |-> metaint - bytec, int |-> metaint]
  ELSE [what |-> "len", n |-> 1, int |-> metaint]

(* The radio takes the stream for what it is: before its head is complete, *)
InHead ==
  /\ rcv = <<>> /\ bytec = 0 /\ metasz = 0
  /\ \E st : /\ Labels(st, rmb \o onway)
             /\ st[1] = RstBegin(icy.int) /\ st[Len(rmb \o onway) + 1] = icy

(* and then. *)
InBody ==
  /\ icy.int # 0 /\ metaint = icy.int
  /\ \E st : /\ Labels(st, rcv \o onway)
             /\ st[1] = Parses /\ st[Len(rcv \o onway) + 1] = icy

RstFresh ==
  /\ icy = RstBegin(icy.int) /\ ~head_recv /\ bytec = 0 /\ metasz = 0
  /\ onway = <<>> /\ rmb = <<>> /\ rcv = <<>>

RadioTyped ==
  /\ \E p \in {"dns", "tcp", "tmr", "gone"} : waits = {p}
  /\ icy \in IcyStates /\ head_recv \in BOOLEAN
  /\ onway \in Seq(IcyBytes) /\ rmb \in Seq(IcyBytes) /\ rcv \in Seq(IcyBytes)
  /\ bytec \in Nat /\ metasz \in Nat /\ metaint \in Nat /\ title \in Nat
  /\ metasz > 0 => bytec = title /\ title < metasz
  /\ strayed = {}

RadioInv ==
  /\ RadioTyped
  /\ waits # {"tcp"} => rcv = <<>>
  /\ waits = {"dns"} => RstFresh
  /\ waits = {"tcp"} /\ ~head_recv => InHead
  /\ waits = {"tcp"} /\ head_recv => InBody

LEMMA ReachesSelf ==
  ASSUME NEW y \in IcyStates
  PROVE  Reaches(y, 0, y)
BY DEF Reaches, IcyStates

LEMMA ReachesNext ==
  ASSUME NEW y \in IcyStates, NEW w \in IcyStates, NEW d \in Nat, NEW k \in Nat,
         Reaches(y, d, w), Going(w), w.what = "head" \/ w.int # 0
  PROVE  Reaches(y, d + 1, After(w, k)) /\ After(w, k) \in IcyStates /\ Going(After(w, k))
<1>0. /\ y.n \in Nat /\ w.n \in Nat /\ w.n # 0 /\ w.int \in Nat /\ y.int = w.int
      /\ y.what \in {"head", "mp3", "len", "meta"} /\ w.what \in {"head", "mp3", "len", "meta"}
      /\ w.what = "len" => w.n = 1
  BY DEF IcyStates, Reaches, Going
<1>1. CASE w.n > 1
  <2>1. After(w, k).what = w.what /\ After(w, k).n = w.n - 1 /\ After(w, k).int = w.int
        /\ After(w, k) \in IcyStates
    BY <1>0, <1>1 DEF After, IcyStates
  <2>2. w.n - 1 \in Nat /\ w.n - 1 # 0 /\ w.what # "len"
    BY <1>0, <1>1
  <2>3. d + 1 < y.n => w.what = y.what /\ w.n - 1 = y.n - (d + 1)
    BY <1>0 DEF Reaches
  <2>4. d + 1 # y.n
    BY <1>0, <1>1 DEF Reaches
  <2> QED
    BY <1>0, <2>1, <2>2, <2>3, <2>4 DEF Reaches, IcyStates, Going
<1>2. CASE w.n = 1 /\ w.what = "mp3"
  <2>1. After(w, k).what = "len" /\ After(w, k).n = 1 /\ After(w, k).int = w.int
        /\ After(w, k) \in IcyStates
    <3>1. ~(w.n > 1)
      BY <1>2
    <3>2. After(w, k) = [w EXCEPT !.what = "len", !.n = 1]
      BY <1>2, <3>1 DEF After
    <3>3. After(w, k).what = "len" /\ After(w, k).n = 1
      BY <3>2 DEF IcyStates
    <3>4. After(w, k).int = w.int
      BY <3>2 DEF IcyStates
    <3>5. [w EXCEPT !.what = "len", !.n = 1] \in IcyStates
      BY DEF IcyStates
    <3> QED
      BY <3>2, <3>3, <3>4, <3>5
  <2>2. ~(d + 1 < y.n) /\ (d + 1 = y.n => y.what = "mp3")
    BY <1>0, <1>2 DEF Reaches
  <2> QED
    BY <1>0, <2>1, <2>2 DEF Reaches, IcyStates, Going
<1>3. CASE w.n = 1 /\ w.what = "len" /\ k > 0
  <2>1. After(w, k).what = "meta" /\ After(w, k).n = k /\ After(w, k).int = w.int
        /\ After(w, k) \in IcyStates
    <3>1. ~(w.n > 1)
      BY <1>3
    <3>2. After(w, k) = [w EXCEPT !.what = "meta", !.n = k]
      BY <1>3, <3>1 DEF After
    <3> QED
      BY <3>2 DEF IcyStates
  <2>2. ~(d + 1 < y.n) /\ (d + 1 = y.n => y.what = "len")
    BY <1>0, <1>3 DEF Reaches
  <2> QED
    BY <1>0, <1>3, <2>1, <2>2 DEF Reaches, IcyStates, Going
<1>4. CASE w.n = 1 /\ w.what # "mp3" /\ ~(w.what = "len" /\ k > 0)
  <2>1. After(w, k).what = "mp3" /\ After(w, k).n = w.int /\ After(w, k).int = w.int
        /\ After(w, k) \in IcyStates
    <3>1. ~(w.n > 1)
      BY <1>4
    <3>2. After(w, k) = [w EXCEPT !.what = "mp3", !.n = w.int]
      BY <1>4, <3>1 DEF After
    <3> QED
      BY <3>2 DEF IcyStates
  <2>2. ~(d + 1 < y.n) /\ (d + 1 = y.n => y.what # "mp3")
    BY <1>0, <1>4 DEF Reaches
  <2> QED
    BY <1>0, <2>1, <2>2 DEF Reaches, IcyStates, Going
<1> QED
  BY <1>0, <1>1, <1>2, <1>3, <1>4

(* Nothing has been sent. *)
LEMMA LabelsNone ==
  ASSUME NEW y \in IcyStates, Going(y)
  PROVE  \E st : Labels(st, <<>>) /\ st[1] = y /\ st[Len(<<>>) + 1] = y
<1> DEFINE st == [i \in 1 .. 1 |-> y]
<1>1. Len(<<>>) = 0 /\ <<>> \in Seq(IcyBytes) /\ st[1] = y
  BY EmptySeq
<1>2. \A i, j \in 1 .. 1 : i = 1 /\ j = 1 /\ j - i = 0 /\ st[i] = y /\ st[j] = y
  BY <1>1
<1>3. \A i, j \in 1 .. Len(<<>>) + 1 : i <= j => Reaches(st[i], j - i, st[j])
  BY <1>1, <1>2, ReachesSelf
<1>4. st \in [1 .. Len(<<>>) + 1 -> IcyStates] /\ \A i \in 1 .. Len(<<>>) + 1 : Going(st[i])
  BY <1>1, <1>2
<1>5. Labels(st, <<>>)
  BY <1>1, <1>3, <1>4 DEF Labels
<1> QED
  BY <1>1, <1>5

(* The server sends another byte. *)
LEMMA LabelsMore ==
  ASSUME NEW s, NEW st, Labels(st, s), NEW w, w = st[Len(s) + 1],
         w.what = "head" \/ w.int # 0, NEW b \in IcyBytes, b.is = Named(w)
  PROVE  \E f : /\ Labels(f, Append(s, b)) /\ f[1] = st[1]
                /\ f[Len(Append(s, b)) + 1] = After(w, b.v)
<1> DEFINE L == Len(s)
           z == After(w, b.v)
           r == Append(s, b)
           f == [i \in 1 .. L + 2 |-> IF i <= L + 1 THEN st[i] ELSE z]
<1>1. /\ s \in Seq(IcyBytes) /\ st \in [1 .. L + 1 -> IcyStates] /\ L \in Nat /\ b.v \in Nat
      /\ L + 1 \in 1 .. L + 1 /\ w \in IcyStates /\ Going(w)
  BY LenProperties DEF Labels, IcyBytes
<1>2. /\ r \in Seq(IcyBytes) /\ Len(r) = L + 1 /\ r[L + 1] = b
      /\ \A i \in 1 .. L : r[i] = s[i]
  BY <1>1, AppendProperties
<1>3. /\ \A i \in 1 .. L + 1 : f[i] = st[i] /\ f[i] \in IcyStates
      /\ f[L + 2] = z
  <2>1. 1 .. L + 1 \subseteq 1 .. L + 2 /\ L + 2 \in 1 .. L + 2 /\ ~(L + 2 <= L + 1)
    BY <1>1
  <2>2. \A i \in 1 .. L + 1 : i <= L + 1 /\ st[i] \in IcyStates
    BY <1>1
  <2> QED
    BY <2>1, <2>2
<1>4. \A i \in 1 .. L + 1 : Reaches(st[i], (L + 1) - i, w)
  BY <1>1 DEF Labels
<1>5. z \in IcyStates /\ Going(z)
  BY <1>1, ReachesNext, ReachesSelf
<1>6. \A i \in 1 .. L + 1 : Reaches(st[i], (L + 2) - i, z)
  <2> TAKE i \in 1 .. L + 1
  <2>1. (L + 1) - i \in Nat /\ ((L + 1) - i) + 1 = (L + 2) - i /\ st[i] \in IcyStates
    BY <1>1
  <2>2. Reaches(st[i], ((L + 1) - i) + 1, z)
    BY <1>1, <1>4, <2>1, ReachesNext
  <2> QED
    BY <2>1, <2>2
<1>7. Reaches(z, (L + 2) - (L + 2), z)
  <2>1. (L + 2) - (L + 2) = 0
    BY <1>1
  <2> QED
    BY <1>5, <2>1, ReachesSelf
<1> HIDE DEF f, z, L
<1>8. \A i \in 1 .. Len(r) + 1 : i \in 1 .. L + 1 \/ i = L + 2
  BY <1>1, <1>2
<1>9. \A i, j \in 1 .. Len(r) + 1 : i <= j => Reaches(f[i], j - i, f[j])
  <2> SUFFICES ASSUME NEW i \in 1 .. Len(r) + 1, NEW j \in 1 .. Len(r) + 1, i <= j
               PROVE  Reaches(f[i], j - i, f[j])
    OBVIOUS
  <2>1. CASE j \in 1 .. L + 1
    <3>1. i \in 1 .. L + 1
      BY <1>1, <2>1
    <3> QED
      BY <1>3, <2>1, <3>1 DEF Labels, L
  <2>2. CASE j = L + 2 /\ i \in 1 .. L + 1
    BY <1>3, <1>6, <2>2
  <2>3. CASE j = L + 2 /\ i = L + 2
    BY <1>3, <1>7, <2>3
  <2> QED
    BY <1>8, <2>1, <2>2, <2>3
<1>10. \A i \in 1 .. Len(r) + 1 : Going(f[i]) /\ f[i] \in IcyStates
  BY <1>3, <1>5, <1>8 DEF Labels, L
<1>11. \A i \in 1 .. Len(r) : r[i].is = Named(f[i]) /\ f[i + 1] = After(f[i], r[i].v)
  <2> TAKE i \in 1 .. Len(r)
  <2>1. CASE i \in 1 .. L
    <3>1. i \in 1 .. L + 1 /\ i + 1 \in 1 .. L + 1
      BY <1>1, <2>1
    <3> QED
      BY <1>2, <1>3, <2>1, <3>1 DEF Labels, L
  <2>2. CASE i = L + 1
    <3>1. r[i] = b /\ f[i] = w /\ f[i + 1] = z
      <4>1. i + 1 = L + 2
        BY <1>1, <2>2
      <4> QED
        BY <1>1, <1>2, <1>3, <2>2, <4>1 DEF L
    <3> QED
      BY <3>1 DEF z
  <2> QED
    BY <1>1, <1>2, <2>1, <2>2
<1>12. f \in [1 .. Len(r) + 1 -> IcyStates]
  <2>1. f = [i \in 1 .. Len(r) + 1 |-> f[i]]
    <3>1. Len(r) + 1 = L + 2
      BY <1>1, <1>2
    <3> QED
      BY <3>1 DEF f
  <2> QED
    BY <1>10, <2>1
<1>13. Labels(f, r)
  BY <1>2, <1>9, <1>10, <1>11, <1>12 DEF Labels
<1>14. f[1] = st[1] /\ f[Len(r) + 1] = z
  <2>1. 1 \in 1 .. L + 1 /\ Len(r) + 1 = L + 2
    BY <1>1, <1>2
  <2> QED
    BY <1>3, <2>1
<1> QED
  BY <1>13, <1>14 DEF z

(* The first n bytes have been read. *)
LEMMA LabelsRest ==
  ASSUME NEW s, NEW st, Labels(st, s), NEW n \in 0 .. Len(s),
         NEW r \in Seq(IcyBytes), Len(r) = Len(s) - n, \A i \in 1 .. Len(r) : r[i] = s[n + i]
  PROVE  \E f : /\ Labels(f, r) /\ f[1] = st[n + 1]
                /\ f[Len(r) + 1] = st[Len(s) + 1]
<1> DEFINE f == [i \in 1 .. Len(r) + 1 |-> st[n + i]]
<1>1. /\ s \in Seq(IcyBytes) /\ st \in [1 .. Len(s) + 1 -> IcyStates]
      /\ Len(s) \in Nat /\ Len(r) \in Nat /\ n \in Nat
  BY LenProperties DEF Labels
<1>2. \A i \in 1 .. Len(r) + 1 : n + i \in 1 .. Len(s) + 1 /\ f[i] = st[n + i]
  BY <1>1
<1>3. f \in [1 .. Len(r) + 1 -> IcyStates]
  BY <1>1, <1>2
<1> HIDE DEF f
<1>4. \A i \in 1 .. Len(r) : r[i].is = Named(f[i]) /\ f[i + 1] = After(f[i], r[i].v)
  <2> TAKE i \in 1 .. Len(r)
  <2>1. /\ n + i \in 1 .. Len(s) /\ i \in 1 .. Len(r) + 1 /\ i + 1 \in 1 .. Len(r) + 1
        /\ n + (i + 1) = (n + i) + 1
    BY <1>1
  <2>2. s[n + i].is = Named(st[n + i]) /\ st[(n + i) + 1] = After(st[n + i], s[n + i].v)
    BY <2>1 DEF Labels
  <2> QED
    BY <1>2, <2>1, <2>2
<1>5. \A i, j \in 1 .. Len(r) + 1 : i <= j => Reaches(f[i], j - i, f[j])
  <2> SUFFICES ASSUME NEW i \in 1 .. Len(r) + 1, NEW j \in 1 .. Len(r) + 1, i <= j
               PROVE  Reaches(f[i], j - i, f[j])
    OBVIOUS
  <2>1. n + i <= n + j /\ (n + j) - (n + i) = j - i
    BY <1>1
  <2>2. Reaches(st[n + i], (n + j) - (n + i), st[n + j])
    BY <1>2, <2>1 DEF Labels
  <2> QED
    BY <1>2, <2>1, <2>2
<1>6. \A i \in 1 .. Len(r) + 1 : Going(f[i])
  BY <1>2 DEF Labels
<1>7. Labels(f, r)
  BY <1>3, <1>4, <1>5, <1>6 DEF Labels
<1>8. f[1] = st[n + 1] /\ f[Len(r) + 1] = st[Len(s) + 1]
  <2>1. 1 \in 1 .. Len(r) + 1 /\ Len(r) + 1 \in 1 .. Len(r) + 1 /\ n + (Len(r) + 1) = Len(s) + 1
    BY <1>1
  <2> QED
    BY <1>2, <2>1
<1> QED
  BY <1>7, <1>8

LEMMA BeyondIn ==
  ASSUME NEW m \in Nat, NEW n \in 0 .. m, NEW i \in n + 1 .. m
  PROVE  i \in 1 .. m
OBVIOUS

(* What is read of two pieces when the first n bytes are taken off the one *)
(* in front *)
LEMMA TakenOff ==
  ASSUME NEW s \in Seq(IcyBytes), NEW t \in Seq(IcyBytes), NEW n \in 0 .. Len(s)
  PROVE  /\ SubSeq(s, n + 1, Len(s)) \in Seq(IcyBytes)
         /\ Len(SubSeq(s, n + 1, Len(s))) = Len(s) - n
         /\ SubSeq(s, n + 1, Len(s)) \o t \in Seq(IcyBytes)
         /\ s \o t \in Seq(IcyBytes) /\ n \in 0 .. Len(s \o t)
         /\ Len(SubSeq(s, n + 1, Len(s)) \o t) = Len(s \o t) - n
         /\ \A i \in 1 .. Len(s \o t) - n :
              (SubSeq(s, n + 1, Len(s)) \o t)[i] = (s \o t)[n + i]
         /\ \A i \in 1 .. Len(s) : (s \o t)[i] = s[i]
<1> DEFINE r == SubSeq(s, n + 1, Len(s))
<1>1. Len(s) \in Nat /\ Len(t) \in Nat
  BY LenProperties
<1>2. \A i \in n + 1 .. Len(s) : s[i] \in IcyBytes
  <2> TAKE i \in n + 1 .. Len(s)
  <2>1. i \in 1 .. Len(s)
    BY <1>1, BeyondIn, Zenon
  <2> QED
    BY <2>1, ElementOfSeq
<1>3. /\ r \in Seq(IcyBytes) /\ Len(r) = Len(s) - n
      /\ \A i \in 1 .. Len(s) - n : r[i] = s[n + i]
  <2>1. /\ r \in Seq(IcyBytes)
        /\ Len(r) = IF n + 1 <= Len(s) THEN Len(s) - (n + 1) + 1 ELSE 0
        /\ \A i \in 1 .. Len(s) - (n + 1) + 1 : r[i] = s[(n + 1) + i - 1]
    BY <1>1, <1>2, SubSeqProperties
  <2>2. Len(s) - (n + 1) + 1 = Len(s) - n
    BY <1>1
  <2>3. \A i \in 1 .. Len(s) - n : (n + 1) + i - 1 = n + i
    BY <1>1
  <2>4. n + 1 <= Len(s) \/ Len(s) - n = 0
    BY <1>1
  <2> QED
    BY <2>1, <2>2, <2>3, <2>4
<1> HIDE DEF r
<1>4. /\ s \o t \in Seq(IcyBytes) /\ Len(s \o t) = Len(s) + Len(t)
      /\ \A i \in 1 .. Len(s) + Len(t) : (s \o t)[i] = IF i <= Len(s) THEN s[i] ELSE t[i - Len(s)]
  BY ConcatProperties
<1>5. /\ r \o t \in Seq(IcyBytes) /\ Len(r \o t) = Len(r) + Len(t)
      /\ \A i \in 1 .. Len(r) + Len(t) : (r \o t)[i] = IF i <= Len(r) THEN r[i] ELSE t[i - Len(r)]
  BY <1>3, ConcatProperties
<1>6. n \in 0 .. Len(s \o t) /\ Len(r \o t) = Len(s \o t) - n
  BY <1>1, <1>3, <1>4, <1>5
<1>7. \A i \in 1 .. Len(s) : (s \o t)[i] = s[i]
  BY <1>1, <1>4
<1>8. \A i \in 1 .. Len(s \o t) - n : (r \o t)[i] = (s \o t)[n + i]
  <2> TAKE i \in 1 .. Len(s \o t) - n
  <2>1. /\ i \in 1 .. Len(r) + Len(t) /\ n + i \in 1 .. Len(s) + Len(t)
        /\ i <= Len(r) => i \in 1 .. Len(s) - n
        /\ i <= Len(r) <=> n + i <= Len(s) /\ i - Len(r) = (n + i) - Len(s)
    BY <1>1, <1>3, <1>4
  <2> QED
    BY <1>3, <1>4, <1>5, <2>1
<1> QED
  BY <1>3, <1>4, <1>5, <1>6, <1>7, <1>8 DEF r

LEMMA SameState ==
  ASSUME NEW y \in IcyStates, NEW z \in IcyStates, y.what = z.what, y.n = z.n, y.int = z.int
  PROVE  y = z
BY DEF IcyStates

LEMMA BeginState ==
  ASSUME NEW i \in Nat
  PROVE  /\ RstBegin(i) \in IcyStates /\ Going(RstBegin(i)) /\ RstBegin(i).int = i
         /\ RstBegin(i).what = "head" /\ RstBegin(i).n = HeadLen
         /\ RstBegin(RstBegin(i).int) = RstBegin(i)
BY RstAssumption DEF RstBegin, IcyStates, Going

LEMMA ParsesState ==
  ASSUME RadioTyped
  PROVE  /\ Parses \in IcyStates /\ Parses.n > 0 /\ Parses.what # "head" /\ Parses.int = metaint
         /\ metasz > 0 => Parses.what = "meta" /\ Parses.n = metasz - bytec
         /\ metasz = 0 /\ bytec < metaint => Parses.what = "mp3" /\ Parses.n = metaint - bytec
         /\ metasz = 0 /\ ~(bytec < metaint) => Parses.what = "len" /\ Parses.n = 1
<1>1. /\ bytec \in Nat /\ metasz \in Nat /\ metaint \in Nat
      /\ metasz > 0 => bytec < metasz
  BY DEF RadioTyped
<1>2. CASE metasz > 0
  <2>1. Parses = [what |-> "meta", n |-> metasz - bytec, int |-> metaint]
    BY <1>2 DEF Parses
  <2>2. metasz - bytec \in Nat /\ metasz - bytec > 0
    BY <1>1, <1>2
  <2> QED
    BY <1>1, <1>2, <2>1, <2>2 DEF IcyStates
<1>3. CASE metasz = 0 /\ bytec < metaint
  <2>1. Parses = [what |-> "mp3", n |-> metaint - bytec, int |-> metaint]
    BY <1>3 DEF Parses
  <2>2. metaint - bytec \in Nat /\ metaint - bytec > 0
    BY <1>1, <1>3
  <2> QED
    BY <1>1, <1>3, <2>1, <2>2 DEF IcyStates
<1>4. CASE metasz = 0 /\ ~(bytec < metaint)
  <2>1. Parses = [what |-> "len", n |-> 1, int |-> metaint]
    BY <1>4 DEF Parses
  <2> QED
    BY <1>1, <1>4, <2>1 DEF IcyStates
<1> QED
  BY <1>1, <1>2, <1>3, <1>4

(* A round takes n bytes for what the radio expects: that is what they are. *)
LEMMA RoundReads ==
  ASSUME RadioInv, rcv # <<>>, NEW n \in 1 .. Len(rcv), n <= Parses.n
  PROVE  /\ waits = {"tcp"} /\ head_recv /\ InBody
         /\ SubSeq(rcv, n + 1, Len(rcv)) \in Seq(IcyBytes)
         /\ \A i \in 1 .. n : rcv[i].is = Parses.what
         /\ \E f : /\ Labels(f, SubSeq(rcv, n + 1, Len(rcv)) \o onway)
                   /\ f[1] \in IcyStates /\ Reaches(Parses, n, f[1])
                   /\ Parses.what = "len" => f[1] = After(Parses, rcv[1].v)
                   /\ f[Len(SubSeq(rcv, n + 1, Len(rcv)) \o onway) + 1] = icy
<1> DEFINE s == rcv \o onway  r == SubSeq(rcv, n + 1, Len(rcv)) \o onway
<1>1. RadioTyped /\ waits = {"tcp"} /\ head_recv /\ InBody
  <2>1. RadioTyped /\ waits = {"tcp"}
    BY DEF RadioInv
  <2>2. head_recv
    BY <2>1 DEF RadioInv, InHead, RadioTyped
  <2> QED
    BY <2>1, <2>2 DEF RadioInv
<1>2. rcv \in Seq(IcyBytes) /\ onway \in Seq(IcyBytes) /\ Len(rcv) \in Nat
  BY <1>1, LenProperties DEF RadioTyped
<1>3. PICK st : Labels(st, s) /\ st[1] = Parses /\ st[Len(s) + 1] = icy
  BY <1>1 DEF InBody
<1>4. Parses \in IcyStates /\ Parses.n > 0 /\ Parses.what # "head" /\ Parses.n \in Nat
  BY <1>1, ParsesState DEF IcyStates
<1>5. n \in 0 .. Len(rcv) /\ n \in Nat /\ n >= 1
  BY <1>2
<1>6. /\ SubSeq(rcv, n + 1, Len(rcv)) \in Seq(IcyBytes)
      /\ r \in Seq(IcyBytes) /\ s \in Seq(IcyBytes) /\ n \in 0 .. Len(s)
      /\ Len(r) = Len(s) - n
      /\ \A i \in 1 .. Len(s) - n : r[i] = s[n + i]
      /\ \A i \in 1 .. Len(rcv) : s[i] = rcv[i]
  BY <1>2, <1>5, TakenOff
<1> HIDE DEF s, r
<1>7. Len(s) \in Nat /\ Len(s) >= n
  BY <1>5, <1>6, LenProperties
<1>8. \A i \in 1 .. n : rcv[i].is = Parses.what
  <2> TAKE i \in 1 .. n
  <2>1. /\ i \in 1 .. Len(rcv) /\ i \in 1 .. Len(s) /\ i \in 1 .. Len(s) + 1
        /\ 1 \in 1 .. Len(s) + 1 /\ 1 <= i /\ i - 1 < Parses.n
    BY <1>2, <1>4, <1>5, <1>7
  <2>2. Reaches(Parses, i - 1, st[i]) /\ s[i].is = Named(st[i])
    BY <1>3, <2>1 DEF Labels
  <2>3. st[i].what = Parses.what
    BY <2>1, <2>2 DEF Reaches
  <2>4. Named(st[i]) = Parses.what
    BY <1>4, <2>3 DEF Named
  <2> QED
    BY <1>6, <2>1, <2>2, <2>4
<1>9. PICK f : /\ Labels(f, r) /\ f[1] = st[n + 1]
               /\ f[Len(r) + 1] = st[Len(s) + 1]
  <2>1. \A i \in 1 .. Len(r) : r[i] = s[n + i]
    BY <1>6
  <2> QED
    BY <1>3, <1>6, <2>1, LabelsRest
<1>10. Reaches(Parses, n, st[n + 1]) /\ st[n + 1] \in IcyStates
  <2>1. 1 \in 1 .. Len(s) + 1 /\ n + 1 \in 1 .. Len(s) + 1 /\ 1 <= n + 1 /\ (n + 1) - 1 = n
    BY <1>5, <1>7
  <2> QED
    BY <1>3, <2>1 DEF Labels
<1>11. Parses.what = "len" => st[n + 1] = After(Parses, rcv[1].v)
  <2> SUFFICES ASSUME Parses.what = "len" PROVE st[n + 1] = After(Parses, rcv[1].v)
    OBVIOUS
  <2>1. n = 1 /\ 1 \in 1 .. Len(s) /\ 1 \in 1 .. Len(rcv)
    BY <1>1, <1>2, <1>5, <1>7, ParsesState DEF RadioTyped
  <2> QED
    BY <1>3, <1>6, <2>1 DEF Labels
<1> QED
  BY <1>1, <1>3, <1>6, <1>8, <1>9, <1>10, <1>11 DEF r

LEMMA RecvRoundKeeps ==
  ASSUME RadioInv, RecvRound
  PROVE  RadioInv'
<1>1. /\ rcv # <<>> /\ RadioTyped
      /\ UNCHANGED <<waits, isname, asked, icy, onway, rmb, head_recv, metaint>>
  BY DEF RecvRound, RadioInv
<1>2. /\ rcv \in Seq(IcyBytes) /\ Len(rcv) \in Nat /\ Len(rcv) > 0
      /\ bytec \in Nat /\ metasz \in Nat /\ metaint \in Nat /\ title \in Nat /\ strayed = {}
      /\ metasz > 0 => bytec = title /\ title < metasz
  <2>1. Len(rcv) \in Nat /\ Len(rcv) # 0
    BY <1>1, EmptySeq, LenProperties DEF RadioTyped
  <2> QED
    BY <1>1, <2>1 DEF RadioTyped
<1>3. /\ Parses \in IcyStates /\ Parses.n \in Nat /\ Parses.n > 0 /\ Parses.int = metaint
  BY <1>1, ParsesState DEF IcyStates
<1>4. waits = {"tcp"} /\ head_recv /\ InBody /\ icy.int = metaint /\ metaint # 0
  <2>1. 1 \in 1 .. Len(rcv) /\ 1 <= Parses.n
    BY <1>2, <1>3
  <2>2. waits = {"tcp"} /\ head_recv /\ InBody
    BY <1>1, <2>1, RoundReads
  <2> QED
    BY <2>2 DEF InBody
<1>5. SUFFICES RadioTyped' /\ InBody'
  BY <1>1, <1>4 DEF RadioInv
<1>6. ASSUME NEW n \in 1 .. Len(rcv), n <= Parses.n,
             rcv' = SubSeq(rcv, n + 1, Len(rcv)),
             bytec' \in Nat, metasz' \in Nat, title' \in Nat,
             metasz' > 0 => bytec' = title' /\ title' < metasz',
             strayed' = strayed \cup Strays(n, Parses.what),
             ASSUME NEW y \in IcyStates, Reaches(Parses, n, y),
                    Parses.what = "len" => y = After(Parses, rcv[1].v)
             PROVE  y = Parses'
      PROVE  RadioTyped' /\ InBody'
  <2>1. /\ rcv' \in Seq(IcyBytes) /\ \A i \in 1 .. n : rcv[i].is = Parses.what
    BY <1>1, <1>6, RoundReads
  <2>2. PICK f : /\ Labels(f, rcv' \o onway)
                 /\ f[1] \in IcyStates /\ Reaches(Parses, n, f[1])
                 /\ Parses.what = "len" => f[1] = After(Parses, rcv[1].v)
                 /\ f[Len(rcv' \o onway) + 1] = icy
    BY <1>1, <1>6, RoundReads
  <2>3. f[1] = Parses'
    BY <1>6, <2>2
  <2>4. strayed' = {}
    BY <1>2, <1>6, <2>1 DEF Strays
  <2>5. RadioTyped'
    BY <1>1, <1>6, <2>1, <2>4 DEF RadioTyped
  <2>6. InBody'
    BY <1>1, <1>4, <2>2, <2>3 DEF InBody
  <2> QED
    BY <2>5, <2>6
<1>7. CASE metasz > 0 /\ \E n \in {TitleBytes} :
             /\ strayed' = strayed \cup Strays(n, "meta")
             /\ rcv' = SubSeq(rcv, n + 1, Len(rcv))
             /\ title' = title + n
             /\ IF bytec + n >= metasz THEN metasz' = 0 /\ bytec' = 0
                ELSE bytec' = bytec + n /\ UNCHANGED metasz
  <2> DEFINE n == TitleBytes
  <2>1. Parses.what = "meta" /\ Parses.n = metasz - bytec /\ bytec < metasz
    BY <1>1, <1>2, <1>7, ParsesState
  <2>2. n \in 1 .. Len(rcv) /\ n <= Parses.n /\ n \in Nat
    BY <1>2, <1>3, <2>1 DEF TitleBytes, Fewer
  <2> HIDE DEF n
  <2>3. /\ strayed' = strayed \cup Strays(n, "meta")
        /\ rcv' = SubSeq(rcv, n + 1, Len(rcv))
        /\ title' = title + n
        /\ IF bytec + n >= metasz THEN metasz' = 0 /\ bytec' = 0
           ELSE bytec' = bytec + n /\ metasz' = metasz
    BY <1>7 DEF n
  <2>4. /\ bytec' \in Nat /\ metasz' \in Nat /\ title' \in Nat
        /\ metasz' > 0 => bytec' = title' /\ title' < metasz'
    <3>1. bytec = title /\ title < metasz
      BY <1>2, <1>7
    <3>2. CASE bytec + n >= metasz
      BY <1>2, <2>2, <2>3, <3>2
    <3>3. CASE ~(bytec + n >= metasz)
      <4>1. bytec' = bytec + n /\ metasz' = metasz /\ title' = title + n /\ bytec + n < metasz
        BY <1>2, <2>2, <2>3, <3>3
      <4> QED
        BY <1>2, <2>2, <3>1, <4>1
    <3> QED
      BY <3>2, <3>3
  <2>5. ASSUME NEW y \in IcyStates, Reaches(Parses, n, y)
        PROVE  y = Parses'
    <3>1. y.int = metaint
      BY <1>3, <2>5 DEF Reaches
    <3>2. CASE bytec + n >= metasz
      <4>1. n = Parses.n /\ metasz' = 0 /\ bytec' = 0
        BY <1>2, <2>1, <2>2, <2>3, <3>2
      <4>2. y.what = "mp3" /\ y.n = metaint
        BY <2>1, <2>2, <2>5, <3>1, <4>1 DEF Reaches
      <4>3. Parses' = [what |-> "mp3", n |-> metaint, int |-> metaint]
        BY <1>1, <1>2, <1>4, <4>1 DEF Parses
      <4> QED
        BY <3>1, <4>2, <4>3 DEF IcyStates
    <3>3. CASE ~(bytec + n >= metasz)
      <4>1. n < Parses.n /\ metasz' = metasz /\ bytec' = bytec + n
        BY <1>2, <2>1, <2>2, <2>3, <3>3
      <4>2. y.what = "meta" /\ y.n = Parses.n - n
        BY <2>1, <2>5, <4>1 DEF Reaches
      <4>3. Parses' = [what |-> "meta", n |-> metasz - (bytec + n), int |-> metaint]
        BY <1>1, <1>7, <4>1 DEF Parses
      <4>4. metasz - (bytec + n) = Parses.n - n
        BY <1>2, <2>1, <2>2
      <4> QED
        BY <3>1, <4>2, <4>3, <4>4 DEF IcyStates
    <3> QED
      BY <3>2, <3>3
  <2> QED
    BY <1>6, <2>1, <2>2, <2>3, <2>4, <2>5
<1>8. CASE metasz = 0 /\ bytec < metaint /\ \E n \in {Fewer(Len(rcv), metaint - bytec)} :
             /\ strayed' = strayed \cup Strays(n, "mp3")
             /\ rcv' = SubSeq(rcv, n + 1, Len(rcv))
             /\ bytec' = bytec + n
             /\ UNCHANGED <<metasz, title>>
  <2> DEFINE n == Fewer(Len(rcv), metaint - bytec)
  <2>1. Parses.what = "mp3" /\ Parses.n = metaint - bytec
    BY <1>1, <1>8, ParsesState
  <2>2. n \in 1 .. Len(rcv) /\ n <= Parses.n /\ n \in Nat
    BY <1>2, <1>3, <2>1 DEF Fewer
  <2> HIDE DEF n
  <2>3. /\ strayed' = strayed \cup Strays(n, "mp3")
        /\ rcv' = SubSeq(rcv, n + 1, Len(rcv))
        /\ bytec' = bytec + n /\ metasz' = 0 /\ title' = title
    BY <1>8 DEF n
  <2>4. bytec' \in Nat /\ ~(metasz' > 0)
    BY <1>2, <2>2, <2>3
  <2>5. ASSUME NEW y \in IcyStates, Reaches(Parses, n, y)
        PROVE  y = Parses'
    <3>1. y.int = metaint
      BY <1>3, <2>5 DEF Reaches
    <3>2. CASE n = Parses.n
      <4>1. y.what = "len" /\ y.n = 1
        BY <2>1, <2>2, <2>5, <3>2 DEF Reaches
      <4>2. ~(bytec' < metaint)
        BY <1>2, <2>1, <2>3, <3>2
      <4>3. Parses' = [what |-> "len", n |-> 1, int |-> metaint]
        BY <1>1, <2>3, <4>2 DEF Parses
      <4> QED
        BY <3>1, <4>1, <4>3 DEF IcyStates
    <3>3. CASE n < Parses.n
      <4>1. y.what = "mp3" /\ y.n = Parses.n - n
        BY <2>1, <2>5, <3>3 DEF Reaches
      <4>2. bytec' < metaint /\ metaint - bytec' = Parses.n - n
        BY <1>2, <2>1, <2>2, <2>3, <3>3
      <4>3. Parses' = [what |-> "mp3", n |-> metaint - bytec', int |-> metaint]
        BY <1>1, <2>3, <4>2 DEF Parses
      <4> QED
        BY <3>1, <4>1, <4>2, <4>3 DEF IcyStates
    <3> QED
      BY <1>3, <2>2, <3>2, <3>3
  <2> QED
    BY <1>2, <1>6, <2>1, <2>2, <2>3, <2>4, <2>5
<1>9. CASE metasz = 0 /\ bytec >= metaint /\ /\ metasz' = rcv[1].v
             /\ strayed' = strayed \cup Strays(1, "len")
             /\ rcv' = Tail(rcv)
             /\ bytec' = 0 /\ title' = 0
  <2>1. Parses.what = "len" /\ Parses.n = 1
    BY <1>1, <1>2, <1>9, ParsesState
  <2>2. 1 \in 1 .. Len(rcv) /\ rcv[1] \in IcyBytes
    BY <1>2, ElementOfSeq
  <2>3. rcv' = SubSeq(rcv, 1 + 1, Len(rcv))
    BY <1>2, <1>9 DEF Tail
  <2>4. metasz' \in Nat /\ (metasz' > 0 => bytec' = title' /\ title' < metasz')
    BY <1>9, <2>2 DEF IcyBytes
  <2>5. ASSUME NEW y \in IcyStates, Reaches(Parses, 1, y), y = After(Parses, rcv[1].v)
        PROVE  y = Parses'
    <3>1. y.int = metaint /\ ~(Parses.n > 1)
      BY <1>3, <2>1, <2>5 DEF Reaches
    <3>2. CASE rcv[1].v > 0
      <4>1. y = [Parses EXCEPT !.what = "meta", !.n = rcv[1].v]
        BY <2>1, <2>5, <3>1, <3>2 DEF After
      <4>2. y.what = "meta" /\ y.n = rcv[1].v
        BY <1>3, <4>1 DEF IcyStates
      <4>3. Parses' = [what |-> "meta", n |-> rcv[1].v - 0, int |-> metaint]
        BY <1>1, <1>9, <3>2 DEF Parses
      <4>4. rcv[1].v - 0 = rcv[1].v
        BY <1>9, <2>4
      <4> QED
        BY <3>1, <4>2, <4>3, <4>4 DEF IcyStates
    <3>3. CASE ~(rcv[1].v > 0)
      <4>1. y = [Parses EXCEPT !.what = "mp3", !.n = Parses.int]
        BY <2>1, <2>5, <3>1, <3>3 DEF After
      <4>2. y.what = "mp3" /\ y.n = metaint
        BY <1>3, <4>1 DEF IcyStates
      <4>3. Parses' = [what |-> "mp3", n |-> metaint - 0, int |-> metaint]
        <5>1. ~(metasz' > 0) /\ bytec' = 0 /\ 0 < metaint
          BY <1>2, <1>4, <1>9, <3>3
        <5> QED
          BY <1>1, <5>1 DEF Parses
      <4>4. metaint - 0 = metaint
        BY <1>2
      <4> QED
        BY <3>1, <4>2, <4>3, <4>4 DEF IcyStates
    <3> QED
      BY <3>2, <3>3
  <2>6. bytec' = 0 /\ title' = 0 /\ strayed' = strayed \cup Strays(1, "len") /\ 1 <= Parses.n
    BY <1>9, <2>1
  <2> QED
    BY <1>6, <2>1, <2>2, <2>3, <2>4, <2>5, <2>6
<1> QED
  BY <1>7, <1>8, <1>9 DEF RecvRound

LEMMA BytesAssociative ==
  ASSUME NEW s \in Seq(IcyBytes), NEW t \in Seq(IcyBytes), NEW u \in Seq(IcyBytes)
  PROVE  (s \o t) \o u = s \o (t \o u)
BY ConcatAssociative

(* The first n bytes of what is on the way are read. *)
LEMMA PieceRead ==
  ASSUME NEW s \in Seq(IcyBytes), NEW t \in Seq(IcyBytes), NEW n \in 1 .. Len(t)
  PROVE  /\ SubSeq(t, 1, n) \in Seq(IcyBytes) /\ SubSeq(t, n + 1, Len(t)) \in Seq(IcyBytes)
         /\ s \o SubSeq(t, 1, n) \in Seq(IcyBytes)
         /\ (s \o SubSeq(t, 1, n)) \o SubSeq(t, n + 1, Len(t)) = s \o t
<1> DEFINE a == SubSeq(t, 1, n)  c == SubSeq(t, n + 1, Len(t))
<1>1. Len(t) \in Nat /\ n \in Nat
  BY LenProperties
<1>2. c \in Seq(IcyBytes)
  <2>1. n \in 0 .. Len(t)
    BY <1>1
  <2> QED
    BY <2>1, TakenOff
<1>3. a \in Seq(IcyBytes)
  <2>1. \A i \in 1 .. n : i \in 1 .. Len(t)
    BY <1>1
  <2>2. \A i \in 1 .. n : t[i] \in IcyBytes
    BY <2>1, ElementOfSeq
  <2> QED
    BY <1>1, <2>2, SubSeqProperties
<1>4. a \o c = t
  <2>1. 1 \in 1 .. Len(t) + 1 /\ n \in 1 - 1 .. Len(t)
    BY <1>1
  <2>2. SubSeq(t, 1, n) \o SubSeq(t, n + 1, Len(t)) = SubSeq(t, 1, Len(t))
    BY <1>1, <2>1, ConcatAdjacentSubSeq
  <2> QED
    BY <2>2, SubSeqFull
<1> HIDE DEF a, c
<1>5. (s \o a) \o c = s \o t
  <2>1. (s \o a) \o c = s \o (a \o c)
    BY <1>2, <1>3, BytesAssociative
  <2> QED
    BY <1>4, <2>1
<1>6. s \o a \in Seq(IcyBytes)
  BY <1>3, ConcatProperties
<1> QED
  BY <1>2, <1>3, <1>5, <1>6 DEF a, c

LEMMA RadioInitInv == RstInit => RadioInv
<1> SUFFICES ASSUME RstInit PROVE RadioInv
  OBVIOUS
<1>1. PICK i \in Interval : icy = RstBegin(i)
  BY DEF RstInit
<1>2. /\ icy \in IcyStates /\ Going(icy) /\ icy.int \in Nat /\ icy = RstBegin(icy.int)
  BY <1>1, BeginState, RstAssumption
<1>3. onway = <<>> /\ rmb = <<>> /\ rcv = <<>> /\ <<>> \in Seq(IcyBytes) /\ <<>> \o <<>> = <<>>
  BY EmptySeq, ConcatEmptySeq DEF RstInit
<1>4. RstFresh
  BY <1>2, <1>3 DEF RstInit, RstFresh
<1>5. InHead
  <2>1. \E st : Labels(st, <<>>) /\ st[1] = icy /\ st[Len(<<>>) + 1] = icy
    BY <1>2, LabelsNone
  <2> QED
    BY <1>2, <1>3, <1>4, <2>1 DEF InHead, RstFresh
<1>6. waits = {"dns"} \/ waits = {"tcp"}
  BY DEF RstInit
<1>7. RadioTyped
  BY <1>2, <1>3, <1>6 DEF RstInit, RadioTyped
<1> QED
  BY <1>3, <1>4, <1>5, <1>7 DEF RadioInv, RstInit

LEMMA FreshInHead ==
  ASSUME RadioTyped, RstFresh
  PROVE  InHead
<1>1. icy = RstBegin(icy.int) /\ icy.int \in Nat /\ icy \in IcyStates
  BY DEF RadioTyped, RstFresh, IcyStates
<1>2. Going(icy)
  BY <1>1, BeginState
<1>3. \E st : Labels(st, <<>>) /\ st[1] = icy /\ st[Len(<<>>) + 1] = icy
  BY <1>1, <1>2, LabelsNone
<1>4. rmb \o onway = <<>>
  <2>1. <<>> \in Seq(IcyBytes)
    BY EmptySeq
  <2>2. <<>> \o <<>> = <<>>
    BY <2>1, ConcatEmptySeq
  <2> QED
    BY <2>2 DEF RstFresh
<1> QED
  BY <1>1, <1>3, <1>4 DEF InHead, RstFresh

(* The steps that only change what the radio waits for *)
LEMMA RadioWaits ==
  ASSUME RadioInv, DnsHandler \/ EstabHandler \/ CloseHandler \/ RstDestroy
  PROVE  RadioInv'
<1>1. /\ RadioTyped /\ (waits = {"dns"} => RstFresh)
      /\ UNCHANGED <<icy, onway, rmb, rcv, head_recv, metaint, metasz, bytec, title, strayed>>
  BY DEF RadioInv, DnsHandler, EstabHandler, CloseHandler, RstDestroy
<1>2. (InHead <=> InHead') /\ (InBody <=> InBody') /\ (RstFresh <=> RstFresh')
  BY <1>1 DEF InHead, InBody, RstFresh, Parses
<1>3. CASE DnsHandler
  <2>1. waits = {"dns"} /\ (waits' = {"tcp"} \/ waits' = {"tmr"})
    BY <1>1, <1>3 DEF RadioTyped, DnsHandler
  <2>2. RstFresh /\ InHead
    BY <1>1, <2>1, FreshInHead
  <2>3. RadioTyped'
    BY <1>1, <2>1 DEF RadioTyped
  <2> QED
    BY <1>1, <1>2, <2>1, <2>2, <2>3 DEF RadioInv, RstFresh
<1>4. CASE EstabHandler
  <2>1. waits' = waits
    BY <1>4 DEF EstabHandler
  <2>2. RadioTyped'
    BY <1>1, <2>1 DEF RadioTyped
  <2> QED
    BY <1>1, <1>2, <2>1, <2>2 DEF RadioInv
<1>5. CASE CloseHandler
  <2>1. waits' = {"tmr"} /\ rcv = <<>>
    BY <1>1, <1>5 DEF RadioTyped, CloseHandler, RstRetry, RstIdle
  <2>2. RadioTyped'
    BY <1>1, <2>1 DEF RadioTyped
  <2> QED
    BY <1>1, <2>1, <2>2 DEF RadioInv
<1>6. CASE RstDestroy
  <2>1. waits' = {"gone"} /\ rcv = <<>>
    BY <1>6 DEF RstDestroy, RstIdle
  <2>2. RadioTyped'
    BY <1>1, <2>1 DEF RadioTyped
  <2> QED
    BY <1>1, <2>1, <2>2 DEF RadioInv
<1> QED
  BY <1>3, <1>4, <1>5, <1>6

LEMMA ReconnectKeeps ==
  ASSUME RadioInv, Reconnect
  PROVE  RadioInv'
<1>1. /\ RadioTyped /\ waits = {"tmr"} /\ rcv = <<>> /\ rcv' = rcv /\ strayed' = strayed
      /\ waits' = {"dns"} \/ waits' = {"tcp"} \/ waits' = {"tmr"}
      /\ rmb' = <<>> /\ head_recv' = FALSE /\ metaint' = 0 /\ bytec' = 0 /\ metasz' = 0
      /\ title' = 0 /\ onway' = <<>>
  BY DEF RadioInv, RadioTyped, Reconnect, ForgetAll
<1>2. PICK i \in Interval : icy' = RstBegin(i)
  BY DEF Reconnect
<1>3. icy' \in IcyStates /\ icy' = RstBegin(icy'.int)
  BY <1>2, BeginState, RstAssumption
<1>4. RadioTyped'
  <2>1. <<>> \in Seq(IcyBytes)
    BY EmptySeq
  <2> QED
    BY <1>1, <1>3, <2>1 DEF RadioTyped
<1>5. RstFresh'
  BY <1>1, <1>3 DEF RstFresh
<1>6. InHead'
  <2>1. (RadioTyped /\ RstFresh => InHead)'
    BY FreshInHead, PTL
  <2> QED
    BY <1>4, <1>5, <2>1
<1> QED
  BY <1>1, <1>4, <1>5, <1>6 DEF RadioInv

LEMMA RstSendKeeps ==
  ASSUME RadioInv, RstSend
  PROVE  RadioInv'
<1>1. /\ waits = {"tcp"} /\ rcv = <<>> /\ RadioTyped
      /\ icy.what = "head" \/ icy.int # 0
      /\ UNCHANGED <<waits, isname, asked, rmb, rcv, head_recv, metaint, metasz, bytec, title,
                     strayed>>
  BY DEF RadioInv, RadioTyped, RstSend, RstIdle
<1>2. PICK k \in IF icy.what = "len" THEN TitleLen ELSE {0} :
        /\ onway' = Append(onway, IcyByte(IF icy.what = "head" /\ icy.n = 1 THEN "eoh"
                                          ELSE icy.what, k))
        /\ icy' = IF icy.n > 1 THEN [icy EXCEPT !.n = @ - 1]
                  ELSE IF icy.what = "mp3" THEN [icy EXCEPT !.what = "len", !.n = 1]
                  ELSE IF icy.what = "len" /\ k > 0 THEN [icy EXCEPT !.what = "meta", !.n = k]
                  ELSE [icy EXCEPT !.what = "mp3", !.n = icy.int]
  BY DEF RstSend
<1> DEFINE b == IcyByte(Named(icy), k)
<1>3. k \in Nat
  BY RstAssumption
<1>4. b \in IcyBytes /\ b.is = Named(icy) /\ b.v = k
  BY <1>1, <1>3 DEF IcyByte, IcyBytes, Named, RadioTyped, IcyStates
<1>5. onway' = Append(onway, b) /\ icy' = After(icy, b.v)
  <2>1. onway' = Append(onway, b)
    BY <1>2 DEF Named
  <2>2. icy' = After(icy, k)
    BY <1>2 DEF After
  <2> QED
    BY <1>4, <2>1, <2>2
<1> HIDE DEF b
<1>6. /\ onway \in Seq(IcyBytes) /\ rmb \in Seq(IcyBytes) /\ rcv \in Seq(IcyBytes)
      /\ onway' \in Seq(IcyBytes)
  BY <1>1, <1>4, <1>5, AppendProperties DEF RadioTyped
<1>7. ASSUME NEW s \in Seq(IcyBytes), NEW y,
             \E st : Labels(st, s \o onway) /\ st[1] = y /\ st[Len(s \o onway) + 1] = icy
      PROVE  /\ \E st : Labels(st, s \o onway') /\ st[1] = y /\ st[Len(s \o onway') + 1] = icy'
             /\ icy' \in IcyStates /\ icy'.int = icy.int
  <2> DEFINE q == s \o onway
  <2>0. q \in Seq(IcyBytes)
    BY <1>6, ConcatProperties
  <2>1. PICK st : Labels(st, q) /\ st[1] = y /\ st[Len(q) + 1] = icy
    BY <1>7
  <2> HIDE DEF q
  <2>2. PICK f : /\ Labels(f, Append(q, b)) /\ f[1] = st[1]
                 /\ f[Len(Append(q, b)) + 1] = After(icy, b.v)
    BY <1>1, <1>4, <2>1, LabelsMore
  <2>3. Append(q, b) = s \o Append(onway, b)
    <3>1. <<b>> \in Seq(IcyBytes)
      BY <1>4
    <3>2. Append(q, b) = q \o <<b>>
      BY <1>4, <2>0, AppendIsConcat
    <3>3. Append(onway, b) = onway \o <<b>>
      BY <1>4, <1>6, AppendIsConcat
    <3>4. (s \o onway) \o <<b>> = s \o (onway \o <<b>>)
      <4>1. onway \in Seq(IcyBytes)
        BY <1>6
      <4> QED
        BY <3>1, <4>1, BytesAssociative, Zenon
    <3> QED
      BY <3>2, <3>3, <3>4 DEF q
  <2>4. icy' \in IcyStates /\ Reaches(icy, 1, icy')
    <3>1. Len(q) + 1 \in 1 .. Len(q) + 1 /\ icy \in IcyStates /\ Going(icy)
      <4>1. Len(q) \in Nat
        BY <2>1, LenProperties DEF Labels
      <4> QED
        BY <2>1, <4>1 DEF Labels
    <3>2. Reaches(icy, 0 + 1, After(icy, k)) /\ After(icy, k) \in IcyStates
      BY <1>1, <1>3, <3>1, ReachesSelf, ReachesNext
    <3> QED
      BY <1>4, <1>5, <3>2
  <2> QED
    BY <1>5, <2>1, <2>2, <2>3, <2>4 DEF Reaches
<1>8. CASE ~head_recv
  <2>1. InHead
    BY <1>1, <1>8 DEF RadioInv
  <2>2. /\ \E st : /\ Labels(st, rmb \o onway') /\ st[1] = RstBegin(icy.int)
                   /\ st[Len(rmb \o onway') + 1] = icy'
        /\ icy' \in IcyStates /\ icy'.int = icy.int
    BY <1>6, <1>7, <2>1 DEF InHead
  <2>3. InHead'
    BY <1>1, <2>1, <2>2 DEF InHead
  <2>4. RadioTyped'
    BY <1>1, <1>6, <2>2 DEF RadioTyped
  <2> QED
    BY <1>1, <1>8, <2>3, <2>4 DEF RadioInv
<1>9. CASE head_recv
  <2>1. InBody
    BY <1>1, <1>9 DEF RadioInv
  <2>2. /\ \E st : /\ Labels(st, rcv \o onway') /\ st[1] = Parses
                   /\ st[Len(rcv \o onway') + 1] = icy'
        /\ icy' \in IcyStates /\ icy'.int = icy.int
    BY <1>6, <1>7, <2>1 DEF InBody
  <2>3. Parses' = Parses
    BY <1>1 DEF Parses
  <2>4. InBody'
    BY <1>1, <2>1, <2>2, <2>3 DEF InBody
  <2>5. RadioTyped'
    BY <1>1, <1>6, <2>2 DEF RadioTyped
  <2> QED
    BY <1>1, <1>9, <2>4, <2>5 DEF RadioInv
<1> QED
  BY <1>8, <1>9

LEMMA EohFound ==
  ASSUME NEW b \in Seq(IcyBytes), Eoh(b) # 0
  PROVE  Eoh(b) \in 1 .. Len(b) /\ b[Eoh(b)].is = "eoh"
<1>1. \E i \in 1 .. Len(b) : b[i].is = "eoh"
  BY DEF Eoh
<1>2. Eoh(b) = CHOOSE i \in 1 .. Len(b) : b[i].is = "eoh"
  BY <1>1 DEF Eoh
<1> QED
  BY <1>1, <1>2

(* Behind the end of its head a server sends sound. *)
LEMMA HeadComplete ==
  ASSUME NEW s, NEW st, NEW i \in Nat, Labels(st, s), st[1] = RstBegin(i),
         NEW e \in 1 .. Len(s), s[e].is = "eoh"
  PROVE  st[e + 1] = [what |-> "mp3", n |-> i, int |-> i]
<1>1. /\ st \in [1 .. Len(s) + 1 -> IcyStates] /\ Len(s) \in Nat /\ e \in Nat
      /\ 1 \in 1 .. Len(s) + 1 /\ e \in 1 .. Len(s) + 1 /\ 1 <= e
      /\ st[e] \in IcyStates
  <2>1. s \in Seq(IcyBytes) /\ st \in [1 .. Len(s) + 1 -> IcyStates]
    BY DEF Labels
  <2>2. Len(s) \in Nat
    BY <2>1, LenProperties
  <2>3. e \in Nat /\ 1 \in 1 .. Len(s) + 1 /\ e \in 1 .. Len(s) + 1 /\ 1 <= e
    BY <2>2
  <2> QED
    BY <2>1, <2>2, <2>3
<1>2. st[e].int = i
  <2>1. Reaches(st[1], e - 1, st[e])
    BY <1>1 DEF Labels
  <2> QED
    BY <2>1, BeginState DEF Reaches
<1>3. Named(st[e]) = "eoh" /\ st[e + 1] = After(st[e], s[e].v)
  BY DEF Labels
<1>4. st[e].what # "eoh"
  BY <1>1 DEF IcyStates
<1>5. st[e].what = "head" /\ st[e].n = 1
  BY <1>3, <1>4 DEF Named
<1>6. After(st[e], s[e].v) = [st[e] EXCEPT !.what = "mp3", !.n = st[e].int]
  BY <1>5 DEF After
<1>7. [st[e] EXCEPT !.what = "mp3", !.n = st[e].int] = [what |-> "mp3", n |-> i, int |-> i]
  <2> DEFINE y == [st[e] EXCEPT !.what = "mp3", !.n = st[e].int]
  <2>1. y \in IcyStates /\ y.what = "mp3" /\ y.n = i /\ y.int = i
    BY <1>1, <1>2 DEF IcyStates
  <2>2. [what |-> "mp3", n |-> i, int |-> i] \in IcyStates
    BY DEF IcyStates
  <2> HIDE DEF y
  <2>3. y = [what |-> "mp3", n |-> i, int |-> i]
    BY <2>1, <2>2, SameState
  <2> QED
    BY <2>3 DEF y
<1> QED
  BY <1>3, <1>6, <1>7

LEMMA RecvHeadKeeps ==
  ASSUME RadioInv, RecvHead
  PROVE  RadioInv'
<1>1. /\ RadioTyped /\ waits = {"tcp"} /\ ~head_recv /\ InHead /\ rcv = <<>>
      /\ bytec = 0 /\ metasz = 0
      /\ UNCHANGED <<isname, asked, icy, metasz, bytec, title, strayed>>
  BY DEF RadioInv, RadioTyped, RecvHead, InHead
<1>2. PICK n \in 1 .. Len(onway) :
        /\ onway' = SubSeq(onway, n + 1, Len(onway))
        /\ \/ /\ Eoh(rmb \o SubSeq(onway, 1, n)) = 0
              /\ rmb' = rmb \o SubSeq(onway, 1, n)
              /\ UNCHANGED <<waits, head_recv, metaint, rcv>>
           \/ /\ Eoh(rmb \o SubSeq(onway, 1, n)) # 0 /\ icy.int # 0
              /\ head_recv' = TRUE /\ metaint' = icy.int
              /\ rmb' = SubSeq(rmb \o SubSeq(onway, 1, n), 1, Eoh(rmb \o SubSeq(onway, 1, n)))
              /\ rcv' = SubSeq(rmb \o SubSeq(onway, 1, n), Eoh(rmb \o SubSeq(onway, 1, n)) + 1,
                               Len(rmb \o SubSeq(onway, 1, n)))
              /\ UNCHANGED waits
           \/ /\ Eoh(rmb \o SubSeq(onway, 1, n)) # 0 /\ icy.int = 0
              /\ head_recv' = TRUE /\ rmb' = rmb \o SubSeq(onway, 1, n)
              /\ RstRetry
              /\ UNCHANGED <<metaint, rcv>>
           \/ /\ rmb # <<>>
              /\ RstRetry
              /\ UNCHANGED <<rmb, head_recv, metaint, rcv>>
  BY DEF RecvHead
<1> DEFINE b == rmb \o SubSeq(onway, 1, n)
<1>3. /\ rmb \in Seq(IcyBytes) /\ onway \in Seq(IcyBytes) /\ rcv \in Seq(IcyBytes)
      /\ icy \in IcyStates /\ icy.int \in Nat /\ metaint \in Nat /\ title \in Nat
      /\ head_recv \in BOOLEAN /\ strayed = {}
  BY <1>1 DEF RadioTyped, IcyStates
<1>4. b \in Seq(IcyBytes) /\ onway' \in Seq(IcyBytes) /\ b \o onway' = rmb \o onway
  BY <1>2, <1>3, PieceRead
<1>5. PICK st : /\ Labels(st, b \o onway') /\ st[1] = RstBegin(icy.int)
                /\ st[Len(b \o onway') + 1] = icy
  BY <1>1, <1>4 DEF InHead
<1> HIDE DEF b
<1>6. CASE rmb' = b /\ UNCHANGED <<waits, head_recv, metaint, rcv>>
  <2>1. RadioTyped'
    BY <1>1, <1>4, <1>6 DEF RadioTyped
  <2>2. InHead'
    BY <1>1, <1>5, <1>6 DEF InHead
  <2> QED
    BY <1>1, <1>6, <2>1, <2>2 DEF RadioInv
<1>7. CASE /\ Eoh(b) # 0 /\ icy.int # 0
           /\ head_recv' = TRUE /\ metaint' = icy.int
           /\ rmb' = SubSeq(b, 1, Eoh(b))
           /\ rcv' = SubSeq(b, Eoh(b) + 1, Len(b))
           /\ UNCHANGED waits
  <2> DEFINE e == Eoh(b)
             s == b \o onway'
             r == rcv' \o onway'
  <2>1. e \in 1 .. Len(b) /\ b[e].is = "eoh" /\ Len(b) \in Nat
    BY <1>4, <1>7, EohFound, LenProperties
  <2> HIDE DEF e
  <2>2. e \in 0 .. Len(b) /\ e \in Nat
    BY <2>1
  <2>3. /\ rcv' \in Seq(IcyBytes) /\ r \in Seq(IcyBytes) /\ e \in 0 .. Len(s)
        /\ s \in Seq(IcyBytes) /\ Len(r) = Len(s) - e
        /\ \A i \in 1 .. Len(s) - e : r[i] = s[e + i]
        /\ \A i \in 1 .. Len(b) : s[i] = b[i]
    <3>1. rcv' = SubSeq(b, e + 1, Len(b))
      BY <1>7 DEF e
    <3> DEFINE c == SubSeq(b, e + 1, Len(b))
    <3>2. /\ c \in Seq(IcyBytes) /\ c \o onway' \in Seq(IcyBytes) /\ e \in 0 .. Len(b \o onway')
          /\ b \o onway' \in Seq(IcyBytes) /\ Len(c \o onway') = Len(b \o onway') - e
          /\ \A i \in 1 .. Len(b \o onway') - e : (c \o onway')[i] = (b \o onway')[e + i]
          /\ \A i \in 1 .. Len(b) : (b \o onway')[i] = b[i]
      BY <1>4, <2>2, TakenOff
    <3>3. c = rcv'
      BY <3>1
    <3> HIDE DEF c
    <3> QED
      BY <3>2, <3>3
  <2>4. rmb' \in Seq(IcyBytes)
    <3>1. \A i \in 1 .. e : i \in 1 .. Len(b)
      BY <2>1, <2>2
    <3>2. \A i \in 1 .. e : b[i] \in IcyBytes
      BY <1>4, <3>1, ElementOfSeq
    <3>3. rmb' = SubSeq(b, 1, e)
      BY <1>7 DEF e
    <3> QED
      BY <2>2, <3>2, <3>3, SubSeqProperties
  <2> HIDE DEF s, r
  <2>5. e \in 1 .. Len(s) /\ s[e].is = "eoh"
    <3>1. b[e].is = "eoh" /\ s[e] = b[e]
      BY <2>1, <2>3
    <3>2. Len(s) \in Nat
      BY <2>3, LenProperties
    <3> QED
      BY <2>1, <2>2, <2>3, <3>1, <3>2
  <2>6. Labels(st, s) /\ st[Len(s) + 1] = icy
    BY <1>5 DEF s
  <2>7. st[e + 1] = [what |-> "mp3", n |-> icy.int, int |-> icy.int]
    BY <1>3, <1>5, <2>5, <2>6, HeadComplete
  <2>8. PICK f : /\ Labels(f, r) /\ f[1] = st[e + 1]
                 /\ f[Len(r) + 1] = st[Len(s) + 1]
    <3>1. \A i \in 1 .. Len(r) : r[i] = s[e + i]
      BY <2>3
    <3> QED
      BY <2>3, <2>6, <3>1, LabelsRest
  <2>9. Parses' = [what |-> "mp3", n |-> icy.int, int |-> icy.int]
    <3>1. metasz' = 0 /\ bytec' = 0 /\ metaint' = icy.int /\ 0 < icy.int
      BY <1>1, <1>3, <1>7
    <3>2. Parses' = [what |-> "mp3", n |-> icy.int - 0, int |-> icy.int]
      BY <3>1 DEF Parses
    <3>3. icy.int - 0 = icy.int
      BY <1>3
    <3> QED
      BY <3>2, <3>3
  <2>10. InBody'
    <3>1. \E g : Labels(g, rcv' \o onway') /\ g[1] = Parses' /\ g[Len(rcv' \o onway') + 1] = icy
      BY <2>6, <2>7, <2>8, <2>9 DEF r
    <3> QED
      BY <1>1, <1>7, <3>1 DEF InBody
  <2>11. RadioTyped'
    BY <1>1, <1>3, <1>4, <1>7, <2>3, <2>4 DEF RadioTyped
  <2> QED
    BY <1>1, <1>7, <2>10, <2>11 DEF RadioInv
<1>8. CASE /\ RstRetry /\ rmb' \in Seq(IcyBytes) /\ head_recv' \in BOOLEAN
           /\ UNCHANGED <<metaint, rcv>>
  <2>1. waits' = {"tmr"}
    BY <1>1, <1>8 DEF RstRetry
  <2>2. RadioTyped'
    BY <1>1, <1>3, <1>4, <1>8, <2>1 DEF RadioTyped
  <2> QED
    BY <1>1, <1>8, <2>1, <2>2 DEF RadioInv
<1> QED
  BY <1>2, <1>3, <1>4, <1>6, <1>7, <1>8 DEF b

LEMMA RecvBodyKeeps ==
  ASSUME RadioInv, RecvBody
  PROVE  RadioInv'
<1>1. /\ RadioTyped /\ waits = {"tcp"} /\ head_recv /\ InBody /\ rcv = <<>>
      /\ UNCHANGED <<waits, isname, asked, icy, rmb, head_recv, metaint, metasz, bytec, title,
                     strayed>>
  BY DEF RadioInv, RadioTyped, RecvBody, RstIdle
<1>2. PICK n \in 1 .. Len(onway) : /\ rcv' = SubSeq(onway, 1, n)
                                   /\ onway' = SubSeq(onway, n + 1, Len(onway))
  BY DEF RecvBody
<1>3. rcv \in Seq(IcyBytes) /\ onway \in Seq(IcyBytes)
  BY <1>1 DEF RadioTyped
<1>4. /\ rcv' \in Seq(IcyBytes) /\ onway' \in Seq(IcyBytes)
      /\ (rcv \o rcv') \o onway' = rcv \o onway
  BY <1>2, <1>3, PieceRead
<1>5. rcv' \o onway' = rcv \o onway
  <2>1. rcv \o rcv' = rcv'
    BY <1>1, <1>4, ConcatEmptySeq
  <2> QED
    BY <1>4, <2>1
<1>6. RadioTyped'
  BY <1>1, <1>4 DEF RadioTyped
<1>7. InBody'
  <2>1. Parses' = Parses
    BY <1>1 DEF Parses
  <2> QED
    BY <1>1, <1>5, <2>1 DEF InBody
<1> QED
  BY <1>1, <1>6, <1>7 DEF RadioInv

LEMMA RadioStep == RadioInv /\ [RstNext]_rstVars => RadioInv'
<1> SUFFICES ASSUME RadioInv, [RstNext]_rstVars PROVE RadioInv'
  OBVIOUS
<1>1. CASE UNCHANGED rstVars
  <2>1. (InHead <=> InHead') /\ (InBody <=> InBody') /\ (RstFresh <=> RstFresh')
    BY <1>1 DEF rstVars, InHead, InBody, RstFresh, Parses
  <2>2. RadioTyped <=> RadioTyped'
    BY <1>1 DEF rstVars, RadioTyped
  <2> QED
    BY <1>1, <2>1, <2>2 DEF rstVars, RadioInv
<1> QED
  BY <1>1, RadioWaits, RstSendKeeps, RecvHeadKeeps, RecvBodyKeeps, RecvRoundKeeps, ReconnectKeeps
     DEF RstNext

LEMMA RadioInvSound == RadioInv => RadioSound
<1> SUFFICES ASSUME RadioInv PROVE RadioSound
  OBVIOUS
<1>1. /\ metasz \in Nat /\ (metasz > 0 => bytec = title /\ title < metasz) /\ strayed = {}
      /\ \E p \in {"dns", "tcp", "tmr", "gone"} : waits = {p}
  BY DEF RadioInv, RadioTyped
<1> QED
  BY <1>1 DEF RadioSound

----------------------------------------------------------------------------
(* The displays *)

XStates ==
  [image : Nat, shared : BOOLEAN, shmid : {"zero", "live", "stale", "none"},
   shmaddr : {"none", "mapped", "stale"}, xshmat : BOOLEAN, attached : BOOLEAN,
   gc : BOOLEAN, failed : BOOLEAN,
   wrong : SUBSET {"frees", "detaches", "unmaps", "zero", "removes"}]

DispStates ==
  [up : BOOLEAN, size : Nat, full : BOOLEAN, made : [Thing -> Nat], mode : BOOLEAN,
   x : XStates]

(* What a display is made of belongs together, drawn or not. *)
Chained(d) ==
  /\ driver \in {"sdl", "sdl12"} =>
       /\ \A x \in Thing : d.made[x] \in {0, d.size}
       /\ d.made[Chain[driver][1]] # 0 => d.mode = d.full
  /\ driver = "opengl" =>
       /\ d.mode = d.full
       /\ d.made["PHandle"] # 0 => d.made["prog"] = d.size /\ d.made["PHandle"] = d.size
  /\ driver = "opengles" => d.made["texture_id"] \in {0, d.made["vf"]}

(* The X server and what the display knows of it agree, as long as no      *)
(* reset failed half way.                                                  *)
XFresh(x) == x.image = 0 /\ x.shmid = "zero" /\ x.shmaddr = "none" /\ ~x.xshmat /\ ~x.attached

XWhole(x) == /\ x.shmid = "live" /\ x.shmaddr = "mapped" /\ x.gc
             /\ x.attached = x.xshmat /\ x.shared = x.xshmat

XAgrees(d) ==
  ~d.x.failed =>
    /\ d.x.wrong \subseteq {"zero", "frees"}
    /\ IF d.up THEN IF d.size = 0 THEN XFresh(d.x) ELSE XWhole(d.x) /\ d.x.image = d.size
       ELSE d.x.shmid # "live" /\ d.x.shmaddr # "mapped"

DispTyped ==
  /\ driver \in DispDrivers /\ disp \in [Win -> DispStates]
  /\ left \in [size : Nat, full : BOOLEAN] /\ polls \in BOOLEAN

DispInv ==
  /\ DispTyped
  /\ \A w \in Win : Chained(disp[w]) /\ (driver = "x11" => XAgrees(disp[w]))
  /\ driver = "sdl12" => \A v, w \in Win : disp[v].up /\ disp[w].up => v = w
  /\ PolledWhileUp /\ DrawnWhole

(* The things of each driver *)
LEMMA ChainOf ==
  /\ driver = "sdl" => /\ Len(Chain[driver]) = 3 /\ Chain[driver][1] = "window"
                       /\ Chain[driver][2] = "renderer" /\ Chain[driver][3] = "texture"
  /\ driver = "sdl12" => /\ Len(Chain[driver]) = 2 /\ Chain[driver][1] = "screen"
                         /\ Chain[driver][2] = "bmp"
  /\ driver = "opengl" => /\ Len(Chain[driver]) = 2 /\ Chain[driver][1] = "prog"
                          /\ Chain[driver][2] = "PHandle"
  /\ driver = "opengles" => /\ Len(Chain[driver]) = 2 /\ Chain[driver][1] = "vf"
                            /\ Chain[driver][2] = "texture_id"
BY DEF Chain, SdlMakes, Sdl12Makes, OpenglMakes, OpenglesMakes

(* A picture that got through the chain was drawn with all of it. *)
LEMMA DrawnWith ==
  ASSUME driver \in {"sdl", "sdl12", "opengl", "opengles"}
  PROVE  /\ Len(Chain[driver]) \in Nat /\ Len(Chain[driver]) >= 1
         /\ \A x \in ToSet(Chain[driver]) :
              x \in Thing /\ \E i \in 1 .. Len(Chain[driver]) : Chain[driver][i] = x
         /\ Chain[driver][1] \in ToSet(Chain[driver]) /\ Chain[driver][1] \in Thing
<1>1. CASE driver = "sdl"
  <2>1. /\ DOMAIN Chain[driver] = 1 .. 3 /\ Len(Chain[driver]) = 3
    BY <1>1 DEF Chain, SdlMakes
  <2>2. \A i \in 1 .. 3 : Chain[driver][i] \in Thing
    <3>1. \A i \in 1 .. 3 : i = 1 \/ i = 2 \/ i = 3
      OBVIOUS
    <3> QED
      BY <1>1, <3>1, ChainOf DEF Thing
  <2> QED
    BY <2>1, <2>2 DEF ToSet
<1>2. CASE driver # "sdl"
  <2>1. DOMAIN Chain[driver] = 1 .. 2 /\ Len(Chain[driver]) = 2
    BY <1>2 DEF Chain, Sdl12Makes, OpenglMakes, OpenglesMakes
  <2>2. \A i \in 1 .. 2 : Chain[driver][i] \in Thing
    <3>1. \A i \in 1 .. 2 : i = 1 \/ i = 2
      OBVIOUS
    <3> QED
      BY <1>2, <3>1, ChainOf DEF Thing
  <2> QED
    BY <2>1, <2>2 DEF ToSet
<1> QED
  BY <1>1, <1>2

LEMMA TwoOf ==
  ASSUME driver \in {"opengl", "opengles"}, NEW x \in ToSet(Chain[driver])
  PROVE  x = Chain[driver][1] \/ x = Chain[driver][2]
<1>1. PICK i \in 1 .. Len(Chain[driver]) : Chain[driver][i] = x
  BY DrawnWith
<1>2. i \in 1 .. 2
  BY ChainOf
<1> QED
  BY <1>1, <1>2

LEMMA NoDispState ==
  /\ NoDisp \in DispStates /\ NoDisp.x \in XStates /\ NoThings \in [Thing -> Nat]
  /\ ~NoDisp.up /\ NoDisp.size = 0 /\ NoDisp.full = FALSE /\ NoDisp.mode = FALSE
  /\ NoDisp.made = NoThings /\ NoDisp.x = X11State
<1>1. X11State \in XStates
  BY DEF X11State, XStates
<1>2. NoThings \in [Thing -> Nat]
  BY DEF NoThings
<1> QED
  BY <1>1, <1>2 DEF NoDisp, DispStates

(* One display changes, and is still what it was made of. *)
LEMMA OneDisplay ==
  ASSUME DispInv, NEW w \in Win, NEW d \in DispStates,
         disp' = [disp EXCEPT ![w] = d], d.up = disp[w].up,
         Chained(d), driver = "x11" => XAgrees(d),
         UNCHANGED <<driver, left, polls>>, DrawnWhole'
  PROVE  DispInv'
<1>1. DispTyped /\ DispTyped'
  BY DEF DispInv, DispTyped
<1>2. \A v \in Win : disp'[v] = IF v = w THEN d ELSE disp[v]
  BY <1>1 DEF DispTyped
<1>3. \A v \in Win : disp'[v].up = disp[v].up
  BY <1>2
<1>4. \A v \in Win : Chained(disp'[v]) /\ (driver = "x11" => XAgrees(disp'[v]))
  BY <1>2 DEF DispInv
<1>5. \A v \in Win : Chained(disp[v])' /\ (driver' = "x11" => XAgrees(disp[v])')
  BY <1>4 DEF Chained, XAgrees
<1>6. Up' = Up
  BY <1>3 DEF Up
<1> QED
  BY <1>1, <1>3, <1>5, <1>6 DEF DispInv, PolledWhileUp

(* A display comes up. *)
LEMMA DisplayUp ==
  ASSUME DispInv, NEW w \in Win, NEW d \in DispStates, NEW t \in BOOLEAN,
         Opened(w, d, t), d.made = NoThings, d.size = 0 \/ driver = "sdl12", d.x = X11State,
         d.mode = d.full \/ driver # "opengl",
         driver \in {"sdl", "sdl12"} => t, driver = "sdl12" => Up = {}
  PROVE  DispInv'
<1> DEFINE e == [d EXCEPT !.up = TRUE]
<1>1. /\ e \in DispStates /\ e.up = TRUE /\ e.made = NoThings /\ e.size = d.size /\ e.x = X11State
      /\ e.mode = d.mode /\ e.full = d.full
  BY DEF DispStates
<1>2. /\ DispTyped /\ disp' = [disp EXCEPT ![w] = e] /\ polls' = t /\ draw' = NoPic
      /\ UNCHANGED <<driver, left>>
  BY DEF Opened, DispInv
<1> HIDE DEF e
<1>3. DispTyped' /\ \A v \in Win : disp'[v] = IF v = w THEN e ELSE disp[v]
  BY <1>1, <1>2 DEF DispTyped
<1>4. Chained(e)
  <2>1. \A x \in Thing : e.made[x] = 0
    BY <1>1 DEF NoThings
  <2>2. driver \in {"sdl", "sdl12"} => Chain[driver][1] \in Thing
    BY DrawnWith
  <2>3. {"PHandle", "texture_id"} \subseteq Thing
    BY DEF Thing
  <2> QED
    BY <1>1, <2>1, <2>2, <2>3 DEF Chained
<1>5. driver = "x11" => XAgrees(e)
  BY <1>1 DEF XAgrees, XFresh, X11State
<1>6. \A v \in Win : Chained(disp'[v]) /\ (driver = "x11" => XAgrees(disp'[v]))
  BY <1>3, <1>4, <1>5 DEF DispInv
<1>7. \A v \in Win : Chained(disp[v])' /\ (driver' = "x11" => XAgrees(disp[v])')
  BY <1>2, <1>6 DEF Chained, XAgrees
<1>8. w \in Up'
  BY <1>1, <1>3 DEF Up
<1>9. DrawnWhole'
  BY <1>2 DEF DrawnWhole, NoPic
<1>10. PolledWhileUp'
  BY <1>2, <1>8 DEF PolledWhileUp
<1>11. driver' = "sdl12" => \A v, u \in Win : disp'[v].up /\ disp'[u].up => v = u
  BY <1>2, <1>3 DEF Up
<1> QED
  BY <1>3, <1>7, <1>9, <1>10, <1>11 DEF DispInv

LEMMA AllocsKeep ==
  ASSUME DispInv, NEW w \in Win,
         SdlAlloc(w) \/ Sdl12Alloc(w) \/ OpenglAlloc(w) \/ OpenglesAlloc(w) \/ X11Alloc(w)
  PROVE  DispInv'
<1>1. polls \in BOOLEAN /\ left.size \in Nat /\ left.full \in BOOLEAN
  BY DEF DispInv, DispTyped
<1>2. CASE SdlAlloc(w)
  BY <1>2, DisplayUp, NoDispState DEF SdlAlloc
<1>3. CASE Sdl12Alloc(w)
  <2> DEFINE d == [NoDisp EXCEPT !.size = left.size, !.full = left.full]
  <2>1. d \in DispStates /\ d.made = NoThings /\ d.x = X11State
    BY <1>1, NoDispState DEF DispStates
  <2>2. Opened(w, d, TRUE) /\ driver = "sdl12" /\ Up = {}
    BY <1>3 DEF Sdl12Alloc
  <2> HIDE DEF d
  <2> QED
    BY <2>1, <2>2, DisplayUp
<1>4. CASE OpenglAlloc(w) \/ OpenglesAlloc(w) \/ X11Alloc(w)
  <2>1. Opened(w, NoDisp, polls) /\ driver \in {"opengl", "opengles", "x11"}
    BY <1>4 DEF OpenglAlloc, OpenglesAlloc, X11Alloc
  <2> QED
    BY <1>1, <2>1, DisplayUp, NoDispState
<1> QED
  BY <1>2, <1>3, <1>4

(* What is filled in for a picture *)
LEMMA FillType ==
  ASSUME NEW m \in [Thing -> Nat], NEW sz \in Nat, NEW k
  PROVE  Fill(m, sz, k) \in [Thing -> Nat]
<1> DEFINE for == IF driver = "opengles" /\ m["vf"] # 0 THEN m["vf"] ELSE sz
           kept == IF driver = "opengl" /\ m["PHandle"] = 0 /\ k > 0
                   THEN [m EXCEPT !["prog"] = 0] ELSE m
<1>1. for \in Nat
  BY DEF Thing
<1>2. kept \in [Thing -> Nat]
  OBVIOUS
<1>3. Fill(m, sz, k) = [x \in Thing |-> IF kept[x] = 0 /\ \E i \in 1 .. k : Chain[driver][i] = x
                                        THEN for ELSE kept[x]]
  BY DEF Fill
<1> HIDE DEF for, kept
<1> QED
  BY <1>1, <1>2, <1>3

LEMMA FillPlain ==
  ASSUME NEW m, NEW sz, NEW k, driver \notin {"opengl", "opengles"}, NEW x \in Thing
  PROVE  Fill(m, sz, k)[x] = IF m[x] = 0 /\ \E i \in 1 .. k : Chain[driver][i] = x
                             THEN sz ELSE m[x]
BY DEF Fill

(* What a display handler changes: of the things m that it keeps it makes  *)
(* the display d, with the first k things of its chain.                    *)
ShowsAs(w, sz, r, k, m, made, d) ==
  /\ m = IF r /\ disp[w].size # sz THEN ResetOf(disp[w]) ELSE disp[w].made
  /\ Reached(m, sz, k) /\ made = Fill(m, sz, k) /\ d.made = made
  /\ d.size = Sized([disp[w] EXCEPT !.made = m], made, sz).size
  /\ d.mode = Sized([disp[w] EXCEPT !.made = m], made, sz).mode
  /\ d.full = disp[w].full /\ d.up = disp[w].up /\ d.x = disp[w].x
  /\ disp' = [disp EXCEPT ![w] = d]
  /\ draw' = IF k = Len(Chain[driver])
             THEN [size |-> sz, with |-> {made[x] : x \in ToSet(Chain[driver])},
                   mode |-> d.mode, full |-> d.full]
             ELSE NoPic
  /\ UNCHANGED <<driver, left, polls>> /\ disp[w] \in DispStates

LEMMA ShownStep ==
  ASSUME DispInv, NEW w \in Win, NEW sz \in PicSize, NEW r \in BOOLEAN, Shown(w, sz, r)
  PROVE  \E k \in 0 .. Len(Chain[driver]), m \in [Thing -> Nat], made \in [Thing -> Nat],
            d \in DispStates : ShowsAs(w, sz, r, k, m, made, d)
<1>1. disp[w] \in DispStates /\ sz \in Nat
  BY DispAssumption DEF DispInv, DispTyped
<1> DEFINE m == IF r /\ disp[w].size # sz THEN ResetOf(disp[w]) ELSE disp[w].made
           d1 == IF r /\ disp[w].size # sz THEN [disp[w] EXCEPT !.made = ResetOf(disp[w])]
                 ELSE disp[w]
<1>2. d1 \in DispStates /\ d1 = [disp[w] EXCEPT !.made = m] /\ d1.made = m /\ m \in [Thing -> Nat]
  <2>1. disp[w].made \in [Thing -> Nat] /\ ResetOf(disp[w]) \in [Thing -> Nat]
    BY <1>1, NoDispState DEF ResetOf, ResetThings, DispStates
  <2>2. [disp[w] EXCEPT !.made = disp[w].made] = disp[w]
    BY <1>1 DEF DispStates
  <2> QED
    BY <1>1, <2>1, <2>2 DEF DispStates
<1>3. PICK k \in 0 .. Len(Chain[driver]) :
        /\ Reached(d1.made, sz, k)
        /\ disp' = [disp EXCEPT ![w] = [Sized(d1, Fill(d1.made, sz, k), sz)
                                          EXCEPT !.made = Fill(d1.made, sz, k)]]
        /\ draw' = IF k = Len(Chain[driver])
                   THEN [size |-> sz,
                         with |-> {Fill(d1.made, sz, k)[x] : x \in ToSet(Chain[driver])},
                         mode |-> Sized(d1, Fill(d1.made, sz, k), sz).mode,
                         full |-> Sized(d1, Fill(d1.made, sz, k), sz).full]
                   ELSE NoPic
  BY DEF Shown
<1> DEFINE made == Fill(m, sz, k)
           y == Sized(d1, made, sz)
           d == [y EXCEPT !.made = made]
<1>4. made \in [Thing -> Nat]
  BY <1>1, <1>2, FillType
<1>5. UNCHANGED <<driver, left, polls>>
  BY DEF Shown
<1> HIDE DEF m, d1, made
<1>6. y \in DispStates /\ y.full = d1.full /\ y.up = d1.up /\ y.x = d1.x
  BY <1>1, <1>2 DEF Sized, DispStates
<1>7. d1.full = disp[w].full /\ d1.up = disp[w].up /\ d1.x = disp[w].x
  BY <1>1, <1>2 DEF DispStates
<1>8. y = Sized([disp[w] EXCEPT !.made = m], made, sz)
  BY <1>2
<1> HIDE DEF y
<1>9. /\ d \in DispStates /\ d.made = made /\ d.size = y.size /\ d.mode = y.mode
      /\ d.full = y.full /\ d.up = y.up /\ d.x = y.x
  BY <1>4, <1>6 DEF DispStates
<1>10. /\ disp' = [disp EXCEPT ![w] = d] /\ Reached(m, sz, k)
       /\ draw' = IF k = Len(Chain[driver])
                  THEN [size |-> sz, with |-> {made[x] : x \in ToSet(Chain[driver])},
                        mode |-> y.mode, full |-> y.full]
                  ELSE NoPic
  BY <1>2, <1>3 DEF made, y
<1>11. m = IF r /\ disp[w].size # sz THEN ResetOf(disp[w]) ELSE disp[w].made
  BY DEF m
<1> HIDE DEF d
<1>12. made = Fill(m, sz, k)
  BY DEF made
<1>13. ShowsAs(w, sz, r, k, m, made, d)
  BY <1>1, <1>5, <1>6, <1>7, <1>8, <1>9, <1>10, <1>11, <1>12 DEF ShowsAs
<1> QED
  BY <1>2, <1>4, <1>9, <1>13

(* SDL, of either version *)
LEMMA SdlShown ==
  ASSUME DispInv, NEW w \in Win, NEW sz \in PicSize, driver \in {"sdl", "sdl12"},
         Shown(w, sz, TRUE)
  PROVE  DispInv'
<1>0. PICK k \in 0 .. Len(Chain[driver]), m \in [Thing -> Nat], made \in [Thing -> Nat],
           d \in DispStates : ShowsAs(w, sz, TRUE, k, m, made, d)
  BY ShownStep
<1>1. /\ m = IF disp[w].size # sz THEN ResetOf(disp[w]) ELSE disp[w].made
      /\ Reached(m, sz, k) /\ made = Fill(m, sz, k) /\ d.made = made
      /\ d.size = Sized([disp[w] EXCEPT !.made = m], made, sz).size
      /\ d.mode = Sized([disp[w] EXCEPT !.made = m], made, sz).mode
      /\ d.full = disp[w].full /\ d.up = disp[w].up /\ d.x = disp[w].x
      /\ disp' = [disp EXCEPT ![w] = d]
      /\ draw' = IF k = Len(Chain[driver])
                 THEN [size |-> sz, with |-> {made[x] : x \in ToSet(Chain[driver])},
                       mode |-> d.mode, full |-> d.full]
                 ELSE NoPic
      /\ UNCHANGED <<driver, left, polls>> /\ disp[w] \in DispStates
  BY <1>0 DEF ShowsAs
<1> DEFINE first == Chain[driver][1]
<1>2. /\ sz \in Nat /\ sz # 0 /\ disp[w].size \in Nat /\ k \in Nat /\ first \in Thing
      /\ Len(Chain[driver]) \in Nat /\ Len(Chain[driver]) >= 1
  BY <1>1, DispAssumption, DrawnWith DEF DispStates
<1>3. /\ \A x \in Thing : disp[w].made[x] \in {0, disp[w].size}
      /\ disp[w].made[first] # 0 => disp[w].mode = disp[w].full
  <2>1. Chained(disp[w])
    BY DEF DispInv
  <2> QED
    BY <2>1 DEF Chained
<1>4. IF disp[w].size = sz THEN m = disp[w].made ELSE \A x \in Thing : m[x] = 0
  BY <1>1 DEF ResetOf, ResetThings, NoThings
<1>5. \A x \in Thing : m[x] \in {0, sz}
  BY <1>3, <1>4
<1>6. \A x \in Thing : made[x] = IF m[x] = 0 /\ \E i \in 1 .. k : Chain[driver][i] = x
                                 THEN sz ELSE m[x]
  <2> TAKE x \in Thing
  <2>1. Fill(m, sz, k)[x] = IF m[x] = 0 /\ \E i \in 1 .. k : Chain[driver][i] = x
                            THEN sz ELSE m[x]
    BY FillPlain
  <2> QED
    BY <1>1, <2>1
<1>7. /\ d.size = IF m[first] = 0 /\ made[first] # 0 THEN sz ELSE disp[w].size
      /\ d.mode = IF m[first] = 0 /\ made[first] # 0 THEN disp[w].full ELSE disp[w].mode
  BY <1>1 DEF Sized, DispStates
<1>8. d.size = sz \/ \A x \in Thing : made[x] = 0
  <2> SUFFICES ASSUME d.size # sz PROVE \A x \in Thing : made[x] = 0
    OBVIOUS
  <2>1. disp[w].size # sz /\ \A x \in Thing : m[x] = 0
    BY <1>4, <1>7
  <2>2. made[first] = 0
    BY <1>2, <1>7, <2>1
  <2>3. k = 0
    <3> SUFFICES ASSUME k # 0 PROVE FALSE
      OBVIOUS
    <3>1. 1 \in 1 .. k
      BY <1>2
    <3>2. made[first] = sz
      BY <1>2, <1>6, <2>1, <3>1
    <3> QED
      BY <1>2, <2>2, <3>2
  <2> QED
    BY <1>6, <2>1, <2>3
<1>9. \A x \in Thing : made[x] \in {0, d.size}
  BY <1>5, <1>6, <1>8
<1>10. made[first] # 0 => d.mode = d.full
  <2>1. CASE m[first] = 0
    BY <1>1, <1>7, <2>1
  <2>2. CASE m[first] # 0
    <3>1. disp[w].size = sz /\ m = disp[w].made
      BY <1>2, <1>4, <2>2
    <3> HIDE DEF first
    <3>2. d.mode = disp[w].mode
      BY <1>7, <2>2
    <3>3. disp[w].made[first] # 0
      BY <2>2, <3>1, Zenon
    <3> QED
      BY <1>1, <1>3, <3>2, <3>3
  <2> QED
    BY <2>1, <2>2
<1>11. Chained(d)
  BY <1>1, <1>9, <1>10 DEF Chained
<1>12. DrawnWhole'
  <2>1. CASE k = Len(Chain[driver])
    <3>1. \A x \in ToSet(Chain[driver]) : made[x] = sz
      BY <1>1, <1>2, <1>5, <1>6, <2>1, DrawnWith
    <3>2. {made[x] : x \in ToSet(Chain[driver])} = {sz}
      BY <3>1, DrawnWith
    <3>3. made[first] = sz
      BY <3>1, DrawnWith
    <3>4. d.mode = d.full
      BY <1>2, <1>10, <3>3
    <3>5. draw' = [size |-> sz, with |-> {sz}, mode |-> d.mode, full |-> d.full]
      BY <1>1, <2>1, <3>2
    <3>6. draw'.with = {draw'.size} /\ draw'.mode = draw'.full
      BY <3>4, <3>5
    <3>7. driver' = driver
      BY <1>1
    <3> QED
      BY <3>6, <3>7 DEF DrawnWhole
  <2>2. CASE k # Len(Chain[driver])
    BY <1>1, <2>2 DEF DrawnWhole, NoPic
  <2> QED
    BY <2>1, <2>2
<1> QED
  BY <1>1, <1>11, <1>12, OneDisplay

LEMMA OpenglShown ==
  ASSUME DispInv, NEW w \in Win, NEW sz \in PicSize, driver = "opengl",
         Shown(w, sz, TRUE)
  PROVE  DispInv'
<1>0. PICK k \in 0 .. Len(Chain[driver]), m \in [Thing -> Nat], made \in [Thing -> Nat],
           d \in DispStates : ShowsAs(w, sz, TRUE, k, m, made, d)
  BY ShownStep
<1>1. /\ m = IF disp[w].size # sz THEN ResetOf(disp[w]) ELSE disp[w].made
      /\ Reached(m, sz, k) /\ made = Fill(m, sz, k) /\ d.made = made
      /\ d.size = Sized([disp[w] EXCEPT !.made = m], made, sz).size
      /\ d.mode = Sized([disp[w] EXCEPT !.made = m], made, sz).mode
      /\ d.full = disp[w].full /\ d.up = disp[w].up /\ d.x = disp[w].x
      /\ disp' = [disp EXCEPT ![w] = d]
      /\ draw' = IF k = Len(Chain[driver])
                 THEN [size |-> sz, with |-> {made[x] : x \in ToSet(Chain[driver])},
                       mode |-> d.mode, full |-> d.full]
                 ELSE NoPic
      /\ UNCHANGED <<driver, left, polls>> /\ disp[w] \in DispStates
  BY <1>0 DEF ShowsAs
<1>2. /\ sz \in Nat /\ sz # 0 /\ k \in 0 .. 2 /\ Len(Chain[driver]) = 2
      /\ Chain[driver][1] = "prog" /\ Chain[driver][2] = "PHandle"
      /\ "prog" \in Thing /\ "PHandle" \in Thing
  BY <1>1, DispAssumption, ChainOf DEF Thing
<1>3. /\ disp[w].mode = disp[w].full
      /\ disp[w].made["PHandle"] # 0 =>
           disp[w].made["prog"] = disp[w].size /\ disp[w].made["PHandle"] = disp[w].size
  BY DEF DispInv, Chained
<1>4. d.size = sz /\ d.mode = d.full
  BY <1>1, <1>3 DEF Sized, DispStates
<1>5. m["PHandle"] # 0 => m["prog"] = sz /\ m["PHandle"] = sz
  <2>1. m = disp[w].made \/ m = NoThings
    BY <1>1 DEF ResetOf, ResetThings
  <2>2. NoThings["PHandle"] = 0
    BY <1>2 DEF NoThings
  <2>3. disp[w].size # sz /\ m = disp[w].made => m["PHandle"] = 0
    BY <1>1, <2>2 DEF ResetOf, ResetThings
  <2> QED
    BY <1>3, <2>1, <2>2, <2>3
<1>6. CASE m["PHandle"] # 0
  <2>1. k = 2
    <3>1. k \in {0, 1, 2}
      BY <1>2
    <3>2. k + 1 = 1 \/ k + 1 = 2 \/ k = 2
      BY <3>1
    <3> QED
      BY <1>1, <1>2, <1>5, <1>6, <3>2 DEF Reached
  <2>2. made["prog"] = sz /\ made["PHandle"] = sz
    BY <1>1, <1>2, <1>5, <1>6 DEF Fill
  <2>3. Chained(d)
    BY <1>1, <1>4, <2>2 DEF Chained
  <2>4. \A x \in ToSet(Chain[driver]) : made[x] = sz
    BY <1>2, <2>2, DrawnWith, TwoOf
  <2>5. {made[x] : x \in ToSet(Chain[driver])} = {sz}
    BY <2>4, DrawnWith
  <2>6. DrawnWhole'
    BY <1>1, <1>2, <1>4, <2>1, <2>5 DEF DrawnWhole
  <2> QED
    BY <1>1, <2>3, <2>6, OneDisplay
<1>7. CASE m["PHandle"] = 0
  <2>1. /\ k >= 1 => made["prog"] = sz
        /\ made["PHandle"] = IF k = 2 THEN sz ELSE 0
    <3>1. made = [x \in Thing |->
                    IF (IF k > 0 THEN [m EXCEPT !["prog"] = 0] ELSE m)[x] = 0
                       /\ \E i \in 1 .. k : Chain[driver][i] = x
                    THEN sz ELSE (IF k > 0 THEN [m EXCEPT !["prog"] = 0] ELSE m)[x]]
      BY <1>1, <1>7 DEF Fill
    <3>2. k = 0 => 1 .. k = {}
      OBVIOUS
    <3>3. k = 1 => 1 .. k = {1}
      OBVIOUS
    <3>4. k = 2 => 1 .. k = {1, 2}
      OBVIOUS
    <3>5. k = 0 \/ k = 1 \/ k = 2
      BY <1>2
    <3> QED
      BY <1>2, <1>7, <3>1, <3>2, <3>3, <3>4, <3>5
  <2>2. Chained(d)
    BY <1>1, <1>2, <1>4, <2>1 DEF Chained
  <2>3. DrawnWhole'
    <3>1. CASE k = 2
      <4>1. \A x \in ToSet(Chain[driver]) : made[x] = sz
        BY <1>2, <2>1, <3>1, DrawnWith, TwoOf
      <4>2. {made[x] : x \in ToSet(Chain[driver])} = {sz}
        BY <4>1, DrawnWith
      <4> QED
        BY <1>1, <1>2, <1>4, <3>1, <4>2 DEF DrawnWhole
    <3>2. CASE k # 2
      BY <1>1, <1>2, <3>2 DEF DrawnWhole, NoPic
    <3> QED
      BY <3>1, <3>2
  <2> QED
    BY <1>1, <2>2, <2>3, OneDisplay
<1> QED
  BY <1>6, <1>7

LEMMA OpenglesShown ==
  ASSUME DispInv, NEW w \in Win, NEW sz \in PicSize, driver = "opengles",
         Shown(w, sz, FALSE)
  PROVE  DispInv'
<1>0. PICK k \in 0 .. Len(Chain[driver]), m \in [Thing -> Nat], made \in [Thing -> Nat],
           d \in DispStates : ShowsAs(w, sz, FALSE, k, m, made, d)
  BY ShownStep
<1>1. /\ m = disp[w].made
      /\ Reached(m, sz, k) /\ made = Fill(m, sz, k) /\ d.made = made
      /\ d.full = disp[w].full /\ d.up = disp[w].up /\ d.x = disp[w].x
      /\ disp' = [disp EXCEPT ![w] = d]
      /\ draw' = IF k = Len(Chain[driver])
                 THEN [size |-> sz, with |-> {made[x] : x \in ToSet(Chain[driver])},
                       mode |-> d.mode, full |-> d.full]
                 ELSE NoPic
      /\ UNCHANGED <<driver, left, polls>>
  BY <1>0 DEF ShowsAs
<1>2. /\ sz \in Nat /\ sz # 0 /\ k \in 0 .. 2 /\ Len(Chain[driver]) = 2
      /\ Chain[driver][1] = "vf" /\ Chain[driver][2] = "texture_id"
      /\ "vf" \in Thing /\ "texture_id" \in Thing
  BY <1>1, DispAssumption, ChainOf DEF Thing
<1>3. m["texture_id"] \in {0, m["vf"]}
  BY <1>1 DEF DispInv, Chained
<1> DEFINE for == IF m["vf"] # 0 THEN m["vf"] ELSE sz
<1>4. made = [x \in Thing |-> IF m[x] = 0 /\ \E i \in 1 .. k : Chain[driver][i] = x
                              THEN for ELSE m[x]]
  BY <1>1 DEF Fill
<1>5. k = 0 \/ k = 1 \/ k = 2
  BY <1>2
<1>6. CASE k = 0
  <2>1. made["vf"] = m["vf"] /\ made["texture_id"] = m["texture_id"]
    BY <1>2, <1>4, <1>6
  <2>2. Chained(d)
    BY <1>1, <1>3, <2>1 DEF Chained
  <2>3. DrawnWhole'
    BY <1>1, <1>2, <1>6 DEF DrawnWhole, NoPic
  <2> QED
    BY <1>1, <2>2, <2>3, OneDisplay
<1>7. CASE k = 1
  <2>1. 1 .. k = {1}
    BY <1>7
  <2>2. made["vf"] = for /\ made["texture_id"] = m["texture_id"]
    BY <1>2, <1>4, <2>1
  <2>3. Chained(d)
    BY <1>1, <1>3, <2>2 DEF Chained
  <2>4. DrawnWhole'
    BY <1>1, <1>2, <1>7 DEF DrawnWhole, NoPic
  <2> QED
    BY <1>1, <2>3, <2>4, OneDisplay
<1>8. CASE k = 2
  <2>1. 1 .. k = {1, 2}
    BY <1>8
  <2>2. made["vf"] = for /\ made["texture_id"] = for /\ for # 0
    BY <1>2, <1>3, <1>4, <2>1
  <2>3. Chained(d)
    BY <1>1, <2>2 DEF Chained
  <2>4. \A x \in ToSet(Chain[driver]) : made[x] = for
    BY <1>2, <2>2, DrawnWith, TwoOf
  <2> HIDE DEF for
  <2>5. {made[x] : x \in ToSet(Chain[driver])} = {for}
    BY <2>4, DrawnWith
  <2>6. Cardinality({for}) = 1
    BY FS_Singleton
  <2>7. DrawnWhole'
    <3>1. draw'.with = {for}
      BY <1>1, <1>2, <1>8, <2>5
    <3> QED
      BY <1>1, <2>2, <2>6, <3>1 DEF DrawnWhole
  <2> QED
    BY <1>1, <2>3, <2>7, OneDisplay
<1> QED
  BY <1>5, <1>6, <1>7, <1>8

LEMMA RgbKeeps ==
  ASSUME DispInv, NEW w \in Win, NEW sz \in PicSize, DisplayRgb(w, sz)
  PROVE  DispInv'
<1>1. /\ disp[w] \in DispStates /\ sz \in Nat /\ disp \in [Win -> DispStates]
      /\ driver = "opengl" /\ UNCHANGED <<driver, left, polls>>
      /\ draw' = [NoPic EXCEPT !.size = sz, !.with = {sz}]
  BY DispAssumption DEF DispInv, DispTyped, DisplayRgb
<1> DEFINE m == IF disp[w].size # sz THEN ResetOf(disp[w]) ELSE disp[w].made
           d == [disp[w] EXCEPT !.size = sz, !.made = m]
<1>2. m \in [Thing -> Nat] /\ (m = NoThings \/ m = disp[w].made)
  BY <1>1, NoDispState DEF ResetOf, ResetThings, DispStates
<1>3. disp' = [disp EXCEPT ![w] = d]
  BY <1>1 DEF DisplayRgb, DispStates
<1>4. NoThings["PHandle"] = 0
  BY DEF NoThings, Thing
<1>5. m["PHandle"] # 0 => disp[w].size = sz /\ m = disp[w].made
  BY <1>1, <1>4 DEF ResetOf, ResetThings
<1> HIDE DEF m
<1>6. /\ d \in DispStates /\ d.up = disp[w].up /\ d.size = sz /\ d.made = m
      /\ d.mode = disp[w].mode /\ d.full = disp[w].full
  BY <1>1, <1>2 DEF DispStates
<1> HIDE DEF d
<1>7. Chained(d)
  BY <1>1, <1>5, <1>6 DEF DispInv, Chained
<1>8. DrawnWhole'
  BY <1>1 DEF DrawnWhole, NoPic
<1> QED
  BY <1>1, <1>3, <1>6, <1>7, <1>8, OneDisplay

LEMMA ToggledKeeps ==
  ASSUME DispInv, NEW w \in Win, DispKey(w) \/ Sdl12Key(w)
  PROVE  DispInv'
<1>1. /\ disp[w] \in DispStates /\ disp \in [Win -> DispStates]
      /\ driver \in {"sdl", "sdl12"} /\ UNCHANGED <<driver, left, polls>> /\ draw' = NoPic
      /\ disp' = [disp EXCEPT ![w].full = ~@, ![w].made = ResetThings(@)]
  BY DEF DispInv, DispTyped, DispKey, Sdl12Key, Toggled
<1> DEFINE d == [disp[w] EXCEPT !.full = ~@, !.made = NoThings]
<1>2. disp' = [disp EXCEPT ![w] = d]
  BY <1>1 DEF ResetThings, DispStates
<1>3. /\ d \in DispStates /\ d.up = disp[w].up /\ d.made = NoThings
  BY <1>1, NoDispState DEF DispStates
<1> HIDE DEF d
<1>4. Chained(d)
  <2>1. \A x \in Thing : d.made[x] = 0
    BY <1>3 DEF NoThings
  <2> QED
    BY <1>1, <2>1, DrawnWith DEF Chained
<1>5. DrawnWhole'
  BY <1>1 DEF DrawnWhole, NoPic
<1> QED
  BY <1>1, <1>2, <1>3, <1>4, <1>5, OneDisplay

(* What a reset and the destructor give back *)
LEMMA Released ==
  ASSUME NEW x \in XStates
  PROVE  /\ X11Release(x) \in XStates /\ X11Release(x).failed = x.failed
         /\ X11Release(x).gc = x.gc /\ X11Release(x).xshmat = x.xshmat
         /\ X11Release(x).attached = FALSE
         /\ X11Release(x).shmid # "live" /\ X11Release(x).shmaddr # "mapped"
         /\ x.wrong \subseteq {"zero", "frees"} /\ (XFresh(x) \/ XWhole(x)) =>
              X11Release(x).wrong \subseteq {"zero", "frees"}
<1> DEFINE more == (IF x.image # 0 /\ ~x.shared THEN {"frees"} ELSE {})
                 \cup (IF x.xshmat /\ ~x.attached THEN {"detaches"} ELSE {})
                 \cup (IF x.shmaddr = "stale" THEN {"unmaps"} ELSE {})
                 \cup (IF x.shmid = "zero" THEN {"zero"} ELSE {})
                 \cup (IF x.shmid = "stale" THEN {"removes"} ELSE {})
           r == X11Release(x)
<1>1. r = [x EXCEPT !.image = 0, !.attached = FALSE,
             !.shmaddr = IF @ = "mapped" THEN "stale" ELSE @,
             !.shmid = IF @ = "live" THEN "stale" ELSE @,
             !.wrong = @ \cup more]
  <2>1. x.wrong \cup more = x.wrong \cup (IF x.image # 0 /\ ~x.shared THEN {"frees"} ELSE {})
                 \cup (IF x.xshmat /\ ~x.attached THEN {"detaches"} ELSE {})
                 \cup (IF x.shmaddr = "stale" THEN {"unmaps"} ELSE {})
                 \cup (IF x.shmid = "zero" THEN {"zero"} ELSE {})
                 \cup (IF x.shmid = "stale" THEN {"removes"} ELSE {})
    OBVIOUS
  <2> HIDE DEF more
  <2> QED
    BY <2>1 DEF X11Release
<1>2. more \subseteq {"frees", "detaches", "unmaps", "zero", "removes"}
  OBVIOUS
<1>3. XFresh(x) \/ XWhole(x) => more \subseteq {"zero", "frees"}
  BY DEF XFresh, XWhole
<1> HIDE DEF more, r
<1>4. x.wrong \cup more \in SUBSET {"frees", "detaches", "unmaps", "zero", "removes"}
  BY <1>2 DEF XStates
<1>5. r \in XStates
  BY <1>1, <1>4 DEF XStates
<1>6. /\ r.failed = x.failed /\ r.gc = x.gc /\ r.xshmat = x.xshmat /\ r.attached = FALSE
      /\ r.shmid # "live" /\ r.shmaddr # "mapped" /\ r.wrong = x.wrong \cup more
  BY <1>1 DEF XStates
<1> QED
  BY <1>3, <1>5, <1>6 DEF r

(* What the second half of a reset comes to *)
LEMMA X11MakeKeeps ==
  ASSUME NEW x \in XStates, NEW sz \in Nat \ {0}, NEW how \in Hows,
         ~x.failed => x.wrong \subseteq {"zero", "frees"} /\ (XFresh(x) \/ XWhole(x))
  PROVE  /\ X11Make(x, sz, how) \in XStates
         /\ how = "attrs" => X11Make(x, sz, how) = x
         /\ how \notin {"attrs", "ok", "refused"} => X11Make(x, sz, how).failed
         /\ how \in {"ok", "refused"} /\ ~X11Make(x, sz, how).failed =>
              /\ X11Make(x, sz, how).wrong \subseteq {"zero", "frees"}
              /\ XWhole(X11Make(x, sz, how)) /\ X11Make(x, sz, how).image = sz
<1> DEFINE y == X11Release(x)
<1>1. /\ y \in XStates /\ y.failed = x.failed /\ y.xshmat = x.xshmat /\ y.attached = FALSE
      /\ ~x.failed => y.wrong \subseteq {"zero", "frees"}
  BY Released
<1> HIDE DEF y
<1> DEFINE got == [y EXCEPT !.shmid = "live"]
           mapped == [got EXCEPT !.shmaddr = "mapped"]
           att == IF how = "refused" THEN mapped
                  ELSE [mapped EXCEPT !.attached = TRUE, !.xshmat = TRUE]
           gc == [att EXCEPT !.gc = TRUE]
           z == X11Make(x, sz, how)
<1>2. CASE how = "attrs"
  <2>1. z = x
    BY <1>2 DEF X11Make
  <2> QED
    BY <1>2, <2>1
<1>3. CASE how = "shmget"
  <2>1. z = [y EXCEPT !.shmid = "none", !.failed = TRUE]
    BY <1>3 DEF X11Make, y
  <2> HIDE DEF z
  <2>2. z \in XStates /\ z.failed
    BY <1>1, <2>1 DEF XStates
  <2> QED
    BY <1>3, <2>2 DEF z
<1>4. CASE how = "shmat"
  <2>1. z = [got EXCEPT !.shmaddr = "none", !.failed = TRUE]
    BY <1>4 DEF X11Make, y
  <2> HIDE DEF z
  <2>2. z \in XStates /\ z.failed
    BY <1>1, <2>1 DEF XStates
  <2> QED
    BY <1>4, <2>2 DEF z
<1>5. CASE how = "attach"
  <2>1. z = [mapped EXCEPT !.failed = TRUE]
    BY <1>5 DEF X11Make, y
  <2> HIDE DEF z
  <2>2. z \in XStates /\ z.failed
    BY <1>1, <2>1 DEF XStates
  <2> QED
    BY <1>5, <2>2 DEF z
<1>6. CASE how = "gc"
  <2>1. z = [att EXCEPT !.failed = TRUE, !.gc = FALSE]
    BY <1>6 DEF X11Make, y
  <2> HIDE DEF z
  <2>2. z \in XStates /\ z.failed
    BY <1>1, <1>6, <2>1 DEF XStates
  <2> QED
    BY <1>6, <2>2 DEF z
<1>7. CASE how = "image"
  <2>1. z = [gc EXCEPT !.failed = TRUE]
    BY <1>7 DEF X11Make, y
  <2> HIDE DEF z
  <2>2. z \in XStates /\ z.failed
    BY <1>1, <1>7, <2>1 DEF XStates
  <2> QED
    BY <1>7, <2>2 DEF z
<1>8. CASE how \in {"ok", "refused"}
  <2>1. z = [gc EXCEPT !.image = sz, !.shared = att.xshmat,
                       !.failed = @ \/ (how = "refused" /\ x.xshmat)]
    BY <1>8 DEF X11Make, y
  <2>2. /\ mapped \in XStates /\ mapped.shmid = "live" /\ mapped.shmaddr = "mapped"
        /\ mapped.failed = x.failed /\ mapped.xshmat = x.xshmat /\ mapped.attached = FALSE
        /\ mapped.wrong = y.wrong
    BY <1>1 DEF XStates
  <2> HIDE DEF mapped
  <2>3. /\ att \in XStates /\ att.shmid = "live" /\ att.shmaddr = "mapped"
        /\ att.failed = x.failed /\ att.wrong = y.wrong
        /\ IF how = "refused" THEN att.xshmat = x.xshmat /\ att.attached = FALSE
           ELSE att.xshmat = TRUE /\ att.attached = TRUE
    BY <2>2 DEF XStates
  <2> HIDE DEF att
  <2>4. /\ gc \in XStates /\ gc.shmid = "live" /\ gc.shmaddr = "mapped" /\ gc.gc = TRUE
        /\ gc.failed = x.failed /\ gc.wrong = y.wrong
        /\ gc.xshmat = att.xshmat /\ gc.attached = att.attached
    BY <2>3 DEF XStates
  <2> HIDE DEF gc, z
  <2>5. x.failed \in BOOLEAN /\ x.xshmat \in BOOLEAN /\ att.xshmat \in BOOLEAN
    BY <2>3 DEF XStates
  <2>6. /\ z \in XStates /\ z.shmid = "live" /\ z.shmaddr = "mapped" /\ z.gc = TRUE
        /\ z.wrong = y.wrong /\ z.xshmat = att.xshmat /\ z.attached = att.attached
        /\ z.image = sz /\ z.shared = att.xshmat
        /\ z.failed = (x.failed \/ (how = "refused" /\ x.xshmat))
    BY <2>1, <2>4, <2>5 DEF XStates
  <2>7. ASSUME ~z.failed PROVE z.wrong \subseteq {"zero", "frees"} /\ XWhole(z)
    <3>1. ~x.failed /\ (how = "refused" => ~x.xshmat)
      BY <2>6, <2>7
    <3> QED
      BY <1>1, <2>3, <2>5, <2>6, <3>1 DEF XWhole
  <2> QED
    BY <1>8, <2>6, <2>7 DEF z
<1> QED
  BY <1>2, <1>3, <1>4, <1>5, <1>6, <1>7, <1>8 DEF Hows

LEMMA X11DisplayKeeps ==
  ASSUME DispInv, NEW w \in Win, NEW sz \in PicSize, X11Display(w, sz)
  PROVE  DispInv'
<1>1. /\ disp[w] \in DispStates /\ sz \in Nat \ {0} /\ disp \in [Win -> DispStates]
      /\ disp[w].up /\ driver = "x11" /\ UNCHANGED <<driver, left, polls>>
      /\ XAgrees(disp[w])
  BY DispAssumption DEF DispInv, DispTyped, X11Display
<1>2. DrawnWhole'
  BY <1>1 DEF DrawnWhole
<1>3. CASE disp[w].size = sz
  <2>1. disp' = disp
    BY <1>3 DEF X11Display
  <2>2. disp' = [disp EXCEPT ![w] = disp[w]]
    BY <1>1, <2>1
  <2>3. Chained(disp[w])
    BY DEF DispInv
  <2> QED
    BY <1>1, <1>2, <2>2, <2>3, OneDisplay
<1>4. CASE disp[w].size # sz
  <2>1. PICK how \in Hows :
          disp' = [disp EXCEPT ![w].x = X11Make(disp[w].x, sz, how),
                      ![w].size = IF how \in {"ok", "refused"} THEN sz ELSE @]
    BY <1>4 DEF X11Display
  <2> DEFINE x == disp[w].x
             z == X11Make(x, sz, how)
             d == [disp[w] EXCEPT !.x = z, !.size = IF how \in {"ok", "refused"} THEN sz ELSE @]
  <2>2. disp' = [disp EXCEPT ![w] = d]
    BY <1>1, <2>1 DEF DispStates
  <2>3. x \in XStates /\ disp[w].size \in Nat /\ disp[w].up = TRUE
    BY <1>1 DEF DispStates
  <2>4. ~x.failed => x.wrong \subseteq {"zero", "frees"} /\ (XFresh(x) \/ XWhole(x))
    BY <1>1, <2>3 DEF XAgrees
  <2>5. /\ z \in XStates
        /\ how = "attrs" => z = x
        /\ how \notin {"attrs", "ok", "refused"} => z.failed
        /\ how \in {"ok", "refused"} /\ ~z.failed =>
             z.wrong \subseteq {"zero", "frees"} /\ XWhole(z) /\ z.image = sz
    BY <1>1, <2>3, <2>4, X11MakeKeeps
  <2> HIDE DEF z
  <2>6. /\ d \in DispStates /\ d.up = TRUE /\ d.x = z
        /\ d.size = IF how \in {"ok", "refused"} THEN sz ELSE disp[w].size
    BY <1>1, <2>3, <2>5 DEF DispStates
  <2> HIDE DEF d
  <2>7. XAgrees(d)
    <3> SUFFICES ASSUME ~d.x.failed
                 PROVE  /\ d.x.wrong \subseteq {"zero", "frees"}
                        /\ IF d.size = 0 THEN XFresh(d.x) ELSE XWhole(d.x) /\ d.x.image = d.size
      BY <2>6 DEF XAgrees
    <3>1. CASE how = "attrs"
      BY <1>1, <2>3, <2>5, <2>6, <3>1 DEF XAgrees
    <3>2. CASE how \in {"ok", "refused"}
      BY <1>1, <2>5, <2>6, <3>2
    <3> QED
      BY <2>5, <2>6, <3>1, <3>2
  <2>8. Chained(d)
    BY <1>1 DEF Chained
  <2>9. d.up = disp[w].up
    BY <2>3, <2>6
  <2> QED
    BY <1>1, <1>2, <2>2, <2>6, <2>7, <2>8, <2>9, OneDisplay
<1> QED
  BY <1>3, <1>4

(* A display is gone. *)
LEMMA DisplayGone ==
  ASSUME DispInv, NEW w \in Win, NEW t \in BOOLEAN, NEW l \in [size : Nat, full : BOOLEAN],
         Gone(w, t, l),
         driver = "sdl" => t = (Up # {w}), driver = "sdl12" => t = FALSE
  PROVE  DispInv'
<1> DEFINE z == X11Destroy(disp[w].x)
           e == [NoDisp EXCEPT !.x = z]
<1>1. /\ DispTyped /\ disp[w].up /\ disp[w] \in DispStates /\ disp[w].x \in XStates
      /\ disp' = [disp EXCEPT ![w] = e] /\ left' = l /\ polls' = t /\ draw' = NoPic
      /\ driver' = driver /\ disp \in [Win -> DispStates]
  BY DEF DispInv, DispTyped, DispStates, Gone
<1>2. /\ z \in XStates /\ z.failed = disp[w].x.failed
      /\ z.shmid # "live" /\ z.shmaddr # "mapped"
      /\ disp[w].x.wrong \subseteq {"zero", "frees"} /\ (XFresh(disp[w].x) \/ XWhole(disp[w].x)) =>
           z.wrong \subseteq {"zero", "frees"}
  <2> DEFINE x == disp[w].x  y == X11Release(x)
             g == IF x.image # 0 /\ ~x.shared THEN x.wrong \cup (y.wrong \ {"frees"}) ELSE y.wrong
  <2>1. /\ y \in XStates /\ y.failed = x.failed /\ y.shmid # "live" /\ y.shmaddr # "mapped"
        /\ x.wrong \subseteq {"zero", "frees"} /\ (XFresh(x) \/ XWhole(x)) =>
             y.wrong \subseteq {"zero", "frees"}
        /\ x \in XStates
    BY <1>1, Released
  <2>2. z = [y EXCEPT !.gc = FALSE, !.wrong = g]
    <3>1. y \in XStates
      BY <2>1
    <3> QED
      BY <3>1 DEF X11Destroy, XStates
  <2> HIDE DEF y
  <2>3. /\ g \in SUBSET {"frees", "detaches", "unmaps", "zero", "removes"}
        /\ x.wrong \subseteq {"zero", "frees"} /\ y.wrong \subseteq {"zero", "frees"} =>
             g \subseteq {"zero", "frees"}
    BY <2>1 DEF XStates
  <2> HIDE DEF g, x, z
  <2>4. /\ z \in XStates /\ z.failed = y.failed /\ z.shmid = y.shmid /\ z.shmaddr = y.shmaddr
        /\ z.wrong = g
    BY <2>1, <2>2, <2>3 DEF XStates
  <2> QED
    BY <2>1, <2>3, <2>4 DEF x
<1> HIDE DEF z
<1>3. /\ e \in DispStates /\ e.up = FALSE /\ e.made = NoThings /\ e.size = 0 /\ e.x = z
      /\ e.mode = FALSE /\ e.full = FALSE
  BY <1>2, NoDispState DEF DispStates
<1> HIDE DEF e
<1>4. DispTyped' /\ \A v \in Win : disp'[v] = IF v = w THEN e ELSE disp[v]
  BY <1>1, <1>3 DEF DispTyped
<1>5. Chained(e)
  <2>1. \A x \in Thing : e.made[x] = 0
    BY <1>3 DEF NoThings
  <2>2. driver \in {"sdl", "sdl12"} => Chain[driver][1] \in Thing
    BY DrawnWith
  <2>3. {"PHandle", "texture_id"} \subseteq Thing
    BY DEF Thing
  <2> QED
    BY <1>3, <2>1, <2>2, <2>3 DEF Chained
<1>6. driver = "x11" => XAgrees(e)
  <2> SUFFICES ASSUME driver = "x11", ~z.failed
               PROVE  z.wrong \subseteq {"zero", "frees"}
    BY <1>2, <1>3 DEF XAgrees
  <2>1. XAgrees(disp[w])
    BY DEF DispInv
  <2> QED
    BY <1>1, <1>2, <2>1 DEF XAgrees
<1>7. \A v \in Win : Chained(disp'[v]) /\ (driver = "x11" => XAgrees(disp'[v]))
  BY <1>4, <1>5, <1>6 DEF DispInv
<1>8. \A v \in Win : Chained(disp[v])' /\ (driver' = "x11" => XAgrees(disp[v])')
  BY <1>1, <1>7 DEF Chained, XAgrees
<1>9. Up' = Up \ {w} /\ w \in Up
  BY <1>1, <1>3, <1>4 DEF Up
<1>10. DrawnWhole'
  BY <1>1 DEF DrawnWhole, NoPic
<1>11. driver = "sdl12" => Up = {w}
  BY <1>1, <1>9 DEF DispInv, Up
<1>12. PolledWhileUp'
  BY <1>1, <1>9, <1>11 DEF PolledWhileUp
<1>13. driver' = "sdl12" => \A v, u \in Win : disp'[v].up /\ disp'[u].up => v = u
  BY <1>1, <1>3, <1>4 DEF DispInv
<1> QED
  BY <1>4, <1>8, <1>10, <1>12, <1>13 DEF DispInv

LEMMA DestructorsKeep ==
  ASSUME DispInv, NEW w \in Win,
         SdlDestroy(w) \/ Sdl12Destroy(w) \/ OpenglDestroy(w) \/ OpenglesDestroy(w)
           \/ X11Destructor(w)
  PROVE  DispInv'
<1>1. /\ polls \in BOOLEAN /\ left \in [size : Nat, full : BOOLEAN]
      /\ [size |-> disp[w].size, full |-> disp[w].full] \in [size : Nat, full : BOOLEAN]
  BY DEF DispInv, DispTyped, DispStates
<1>2. CASE SdlDestroy(w)
  <2>1. (Up # {w}) \in BOOLEAN
    OBVIOUS
  <2> QED
    BY <1>1, <1>2, <2>1, DisplayGone DEF SdlDestroy
<1>3. CASE Sdl12Destroy(w)
  BY <1>1, <1>3, DisplayGone DEF Sdl12Destroy
<1>4. CASE OpenglDestroy(w) \/ OpenglesDestroy(w) \/ X11Destructor(w)
  <2>1. Gone(w, polls, left) /\ driver \in {"opengl", "opengles", "x11"}
    BY <1>4 DEF OpenglDestroy, OpenglesDestroy, X11Destructor
  <2> QED
    BY <1>1, <2>1, DisplayGone
<1> QED
  BY <1>2, <1>3, <1>4

LEMMA DispInitInv == DispInit => DispInv
<1> SUFFICES ASSUME DispInit PROVE DispInv
  OBVIOUS
<1>1. \A w \in Win : disp[w] = NoDisp
  BY DEF DispInit
<1>2. DispTyped
  BY NoDispState DEF DispInit, DispTyped
<1>3. Up = {}
  BY <1>1, NoDispState DEF Up
<1>4. Chained(NoDisp)
  <2>1. \A x \in Thing : NoDisp.made[x] = 0
    BY NoDispState DEF NoThings
  <2>2. driver \in {"sdl", "sdl12"} => Chain[driver][1] \in Thing
    BY DrawnWith
  <2>3. {"PHandle", "texture_id"} \subseteq Thing
    BY DEF Thing
  <2> QED
    BY <2>1, <2>2, <2>3, NoDispState DEF Chained
<1>5. XAgrees(NoDisp)
  BY NoDispState DEF XAgrees, X11State
<1> QED
  BY <1>1, <1>2, <1>3, <1>4, <1>5, NoDispState
     DEF DispInit, DispInv, PolledWhileUp, DrawnWhole, NoPic, Up

LEMMA DispStep == DispInv /\ [DispNext]_dispVars => DispInv'
<1> SUFFICES ASSUME DispInv, [DispNext]_dispVars PROVE DispInv'
  OBVIOUS
<1>1. CASE UNCHANGED dispVars
  <2>1. \A w \in Win : Chained(disp[w])' <=> Chained(disp[w])
    BY <1>1 DEF dispVars, Chained
  <2>2. \A w \in Win : XAgrees(disp[w])' <=> XAgrees(disp[w])
    BY <1>1 DEF dispVars, XAgrees
  <2>3. (PolledWhileUp' <=> PolledWhileUp) /\ (DrawnWhole' <=> DrawnWhole)
    BY <1>1 DEF dispVars, PolledWhileUp, DrawnWhole, Up
  <2>4. DispTyped' <=> DispTyped
    BY <1>1 DEF dispVars, DispTyped
  <2> QED
    BY <1>1, <2>1, <2>2, <2>3, <2>4 DEF dispVars, DispInv
<1>2. ASSUME NEW w \in Win, NEW sz \in PicSize,
             \/ SdlDisplay(w, sz) \/ Sdl12Display(w, sz)
             \/ OpenglDisplay(w, sz) \/ DisplayRgb(w, sz)
             \/ OpenglesDisplay(w, sz) \/ X11Display(w, sz)
      PROVE  DispInv'
  BY <1>2, SdlShown, OpenglShown, OpenglesShown, RgbKeeps, X11DisplayKeeps
     DEF SdlDisplay, Sdl12Display, OpenglDisplay, OpenglesDisplay
<1>3. ASSUME DispNext PROVE DispInv'
  BY <1>2, <1>3, AllocsKeep, ToggledKeeps, DestructorsKeep DEF DispNext
<1> QED
  BY <1>1, <1>3

LEMMA DispInvSound == DispInv => DisplaySound
<1> SUFFICES ASSUME DispInv, driver = "x11", NEW w \in Win, ~disp[w].x.failed
             PROVE  /\ disp[w].up /\ disp[w].size # 0 =>
                         /\ disp[w].x.image = disp[w].size /\ disp[w].x.gc
                         /\ disp[w].x.shmaddr = "mapped"
                    /\ disp[w].x.wrong \subseteq {"zero", "frees"}
                    /\ ~disp[w].up => disp[w].x.shmid # "live" /\ disp[w].x.shmaddr # "mapped"
  BY DEF DispInv, DisplaySound, X11Whole
<1> QED
  BY DEF DispInv, XAgrees, XWhole

(* Whatever the device refuses and whenever it calls back, no wave buffer  *)
(* is queued twice, and closing waits for those that are queued (dsp_write,*)
(* waveOutCallback, waveInCallback), also when buffers come back before    *)
(* all are queued, unless both threads were in dsp_write at once; a        *)
(* picture is drawn with things made for it, whichever could not be made   *)
(* before (display, x11_reset); and a byte of the radio is taken for what  *)
(* it is, however the stream is cut (recv_handler).                        *)
THEOREM DriversKept == WaveSpec /\ DispSpec /\ RstSpec => []DriversSound
<1>1. WaveInit => WaveInv
  BY WaveInitInv
<1>2. WaveInv /\ [WaveNext]_waveVars => WaveInv'
  BY WaveStep
<1>3. DispInit => DispInv
  BY DispInitInv
<1>4. DispInv /\ [DispNext]_dispVars => DispInv'
  BY DispStep
<1>5. RstInit => RadioInv
  BY RadioInitInv
<1>6. RadioInv /\ [RstNext]_rstVars => RadioInv'
  BY RadioStep
<1>7. WaveInv /\ DispInv /\ RadioInv => DriversSound
  BY WaveInvSound, DispInvSound, RadioInvSound DEF DriversSound
<1> QED
  BY <1>1, <1>2, <1>3, <1>4, <1>5, <1>6, <1>7, PTL DEF WaveSpec, DispSpec, RstSpec
=============================================================================
