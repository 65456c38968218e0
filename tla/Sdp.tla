-------------------------------- MODULE Sdp --------------------------------
(***************************************************************************)
(* The SDP offer/answer engine (sdp/session.c, media.c, format.c, msg.c)   *)
(* as two user agents that both run it use it (call.c).  A session has the *)
(* media the application added (lmedial) and those that were negotiated    *)
(* (medial), in the order of the m= lines, which must never change.        *)
(*                                                                         *)
(* A codec stands for the name, clock rate, channels and parameters of a   *)
(* format, Static is the payload type of those that have a fixed one.  An  *)
(* address is a port that is set or not.                                   *)
(***************************************************************************)
EXTENDS Naturals, Sequences

LOCAL INSTANCE SequencesExt

CONSTANTS
  Static,      \* payload types of the codecs that have a static one
  Codecs,      \* per side, what it may support: lists of codecs of a medium
  MaxOffers,   \* bound on the offers of a run
  MaxLocal,    \* bound on the changes of the application
  Refusals     \* an offer that was seen may be refused all the same

Side == {"A", "B"}
Peer(s) == IF s = "A" THEN "B" ELSE "A"
MediaNames == {"audio", "video"}
DynptStart == 96

ASSUME SdpAssumption ==
  /\ MaxOffers \in Nat /\ MaxLocal \in Nat /\ Refusals \in BOOLEAN
  /\ \A c \in DOMAIN Static : Static[c] < DynptStart

(* enum sdp_dir is two bits. *)
SendRecv == {"send", "recv"}
Flip(dir) == {CASE d = "send" -> "recv" [] d = "recv" -> "send" : d \in dir}

VARIABLES
  sdp,         \* struct sdp_session of the two sides
  sdpWire,     \* the exchange under way, and the description last sent in it
  pend,        \* sess->desc of the sides that have an offer to send later
  acks,        \* sides that answered and wait for the ACK (sess->replyl)
  up,          \* the first exchange has ended well
  agreed,      \* an exchange has ended and no side changed anything since
  dirty,       \* sides that changed something since their last description
  ahead,       \* sides that numbered media in an offer that nobody has read
  crossed,     \* history: such a side answered an offer of the other one
  offers,      \* offers encoded
  changes,     \* changes of the application
  clean,       \* no offer was refused
  failed       \* a description could not be read although none was refused

sdpVars == <<sdp, sdpWire, pend, acks, up, agreed, dirty, ahead, crossed, offers,
             changes, clean, failed>>

----------------------------------------------------------------------------
(* sdp_format_add for a list of codecs: a dynamic type is the next number. *)
Formats(codecs) ==
  LET dyn(i) == {j \in 1 .. i - 1 : codecs[j] \notin DOMAIN Static}
  IN [i \in 1 .. Len(codecs) |->
        [codec |-> codecs[i], sup |-> TRUE,
         pt |-> IF codecs[i] \in DOMAIN Static THEN Static[codecs[i]]
                ELSE DynptStart + Len(SelectSeq(SubSeq(codecs, 1, i - 1),
                       LAMBDA c : c \notin DOMAIN Static))]]

(* media_alloc, and sdp_media_add *)
NewMedia(name, fmts) ==
  [name |-> name, lfmtl |-> fmts, rfmtl |-> <<>>, rport |-> FALSE,
   ldir |-> SendRecv, rdir |-> SendRecv, disabled |-> FALSE]

(* sdp_media_radd: a medium that only the peer knows *)
sdp_media_radd(name) == [NewMedia(name, <<>>) EXCEPT !.disabled = TRUE]

(* sdp_session_alloc and the streams that call_alloc adds *)
NewSession(audio, video) ==
  [lmedial |-> <<NewMedia("audio", Formats(audio))>> \o
     (IF video = <<>> THEN <<>> ELSE <<NewMedia("video", Formats(video))>>),
   medial |-> <<>>]

NoSdp == [kind |-> "none", from |-> "A", lines |-> <<>>, seen |-> FALSE]
NoDesc == [why |-> "none", lines |-> <<>>]
Offer(s, lines) == [kind |-> "offer", from |-> s, lines |-> lines, seen |-> FALSE]
AnswerOf(s, lines) == [kind |-> "answer", from |-> s, lines |-> lines, seen |-> FALSE]

SdpInit ==
  /\ \E a \in Codecs["A"], b \in Codecs["B"] :
       sdp = [s \in Side |-> IF s = "A" THEN NewSession(a.audio, a.video)
                             ELSE NewSession(b.audio, b.video)]
  /\ sdpWire = NoSdp /\ pend = [s \in Side |-> NoDesc] /\ acks = {} /\ up = FALSE
  /\ agreed = FALSE /\ dirty = {} /\ ahead = {} /\ crossed = FALSE
  /\ offers = 0 /\ changes = 0 /\ clean = TRUE /\ failed = FALSE

----------------------------------------------------------------------------
(* sdp_format_cmp: static types by their number, others by the codec *)
sdp_format_cmp(f, g) ==
  IF f.pt < DynptStart /\ g.pt < DynptStart THEN f.pt = g.pt
  ELSE f.codec = g.codec

(* sdp_media_find: the local medium of a name, 0 when there is none *)
sdp_media_find(lmedial, name) == SelectInSeq(lmedial, LAMBDA m : m.name = name)

Drop(s, i) == SubSeq(s, 1, i - 1) \o SubSeq(s, i + 1, Len(s))

(* The second loop of sdp_media_align_formats: one format of the peer.  In *)
(* an offer the local one takes over its number and its place.             *)
AlignOne(m, rfmt, offer) ==
  LET i == SelectInSeq(m.lfmtl, LAMBDA l : sdp_format_cmp(l, rfmt))
      l == [m.lfmtl[i] EXCEPT !.sup = TRUE]
  IN IF i = 0 THEN [m EXCEPT !.rfmtl = Append(@, [rfmt EXCEPT !.sup = FALSE])]
     ELSE [m EXCEPT !.rfmtl = Append(@, [rfmt EXCEPT !.sup = TRUE]),
                    !.lfmtl = IF offer THEN Append(Drop(@, i), [l EXCEPT !.pt = rfmt.pt])
                              ELSE [@ EXCEPT ![i] = l]]

(* Mutant: what is not supported stays where it is. *)
UnsupportedLast_Not(lfmtl) == lfmtl

(* The third loop puts what is not supported last, in reverse order. *)
UnsupportedLast(lfmtl) == SelectSeq(lfmtl, LAMBDA l : l.sup) \o
                          Reverse(SelectSeq(lfmtl, LAMBDA l : ~l.sup))

sdp_media_align_formats(m, offer) ==
  IF m.disabled \/ ~m.rport THEN m
  ELSE LET none == [m EXCEPT !.rfmtl = <<>>,
                      !.lfmtl = [i \in DOMAIN @ |-> [@[i] EXCEPT !.sup = FALSE]]]
           all == FoldLeft(LAMBDA acc, r : AlignOne(acc, r, offer), none, m.rfmtl)
       IN IF ~offer THEN all
          ELSE [all EXCEPT !.lfmtl = UnsupportedLast(@)]

(* sdp_media_rreset *)
sdp_media_rreset(m) == [m EXCEPT !.rport = FALSE, !.rfmtl = <<>>, !.rdir = SendRecv]

(* The end of media_decode, and the attributes of the m= line: rtpmap and  *)
(* the direction                                                           *)
Described(m, line) ==
  [m EXCEPT !.rport = line.port, !.rdir = Flip(line.dir),
     !.rfmtl = [i \in 1 .. Len(line.fmts) |->
        [codec |-> line.fmts[i].codec, pt |-> line.fmts[i].pt, sup |-> FALSE]]]

(* media_decode: the n-th m= line is the n-th medium; a new one is an      *)
(* error in an answer, in an offer it is looked for (sdp_media_find).      *)
media_decode(acc, line, offer) ==
  LET n == acc.n
      med == acc.sess.medial
      i == sdp_media_find(acc.sess.lmedial, line.name)
      new == IF i = 0 THEN sdp_media_radd(line.name) ELSE acc.sess.lmedial[i]
  IN IF acc.err THEN acc
     ELSE IF n <= Len(med)
     THEN IF med[n].name # line.name THEN [acc EXCEPT !.err = TRUE]
          ELSE [acc EXCEPT !.n = @ + 1, !.sess.medial[n] = Described(@, line)]
     ELSE IF ~offer THEN [acc EXCEPT !.err = TRUE]
     ELSE [acc EXCEPT !.n = @ + 1,
             !.sess.lmedial = IF i = 0 THEN @ ELSE Drop(@, i),
             !.sess.medial = Append(@, Described(new, line))]

(* sdp_decode: what the peer said before is forgotten, then line for line; *)
(* after an error nothing is aligned, and nothing restored.                *)
sdp_decode(sess, lines, offer) ==
  LET reset == [sess EXCEPT !.medial =
                  [i \in DOMAIN @ |-> sdp_media_rreset(@[i])]]
      read == FoldLeft(LAMBDA acc, l : media_decode(acc, l, offer),
                       [sess |-> reset, n |-> 1, err |-> FALSE], lines)
  IN [err |-> read.err,
      sess |-> IF read.err THEN read.sess
               ELSE [read.sess EXCEPT !.medial =
                      [i \in DOMAIN @ |-> sdp_media_align_formats(@[i], offer)]]]

(* The direction in a description *)
LineDir(m, offer) == IF offer THEN m.ldir ELSE m.ldir \cap m.rdir

(* media_encode: a medium that is off has the port 0 and a format "0". *)
media_encode(m, offer) ==
  LET sup == SelectSeq(m.lfmtl, LAMBDA l : l.sup)
  IN IF m.disabled \/ sup = <<>> \/ (~offer /\ ~m.rport)
     THEN [name |-> m.name, port |-> FALSE, fmts |-> <<[codec |-> "nil", pt |-> 0]>>,
           dir |-> SendRecv]
     ELSE [name |-> m.name, port |-> TRUE, dir |-> LineDir(m, offer),
           fmts |-> [i \in 1 .. Len(sup) |->
                       [codec |-> sup[i].codec, pt |-> sup[i].pt]]]

(* Mutant: what is new in an offer comes first. *)
Offered_First(sess) ==
  [lmedial |-> SelectSeq(sess.lmedial, LAMBDA m : m.disabled),
   medial |-> SelectSeq(sess.lmedial, LAMBDA m : ~m.disabled) \o sess.medial]

(* sdp_encode: an offer takes up every local medium that is not disabled. *)
Offered(sess) ==
  [lmedial |-> SelectSeq(sess.lmedial, LAMBDA m : m.disabled),
   medial |-> sess.medial \o SelectSeq(sess.lmedial, LAMBDA m : ~m.disabled)]

sdp_encode(sess, offer) ==
  [i \in 1 .. Len(sess.medial) |-> media_encode(sess.medial[i], offer)]

----------------------------------------------------------------------------
(* The callee rings or has sent a 183: sess->st *)
Ringing(s) == sdpWire.kind = "taken" /\ sdpWire.from = s

(* sess->req, sess->tmr or sess->replyl: a modification has to wait. *)
Busy(s) ==
  \/ sdpWire.kind = "offer" /\ sdpWire.from = s
  \/ sdpWire.kind \in {"taken", "answer"}
  \/ s \in acks \/ pend[s].why = "timer"

(* sipsess_reinvite: the offer is sent.  When the one of the peer is under *)
(* way too, each side refuses with 491 what it gets, and tries again when  *)
(* its timer has run out.                                                  *)
Send(s, lines) ==
  LET p == Peer(s)
  IN \/ /\ sdpWire.kind = "none" /\ sdpWire' = Offer(s, lines)
        /\ pend' = [pend EXCEPT ![s] = NoDesc] /\ dirty' = dirty \ {s}
     \/ /\ sdpWire.kind = "offer" /\ sdpWire.from = p /\ sdpWire' = NoSdp
        /\ pend' = [pend EXCEPT ![s] = [why |-> "timer", lines |-> lines],
                     ![p] = [why |-> "timer", lines |-> IF @.why = "none"
                               THEN sdpWire.lines ELSE @.lines]]
        /\ dirty' = Side

(* sipsess_modify: while the call rings it fails; otherwise the offer is   *)
(* sent or kept for later.                                                 *)
sipsess_modify(s, lines) ==
  \/ /\ Ringing(s) /\ dirty' = dirty \cup {s} /\ UNCHANGED <<sdpWire, pend>>
  \/ /\ ~Ringing(s) /\ Busy(s) /\ dirty' = dirty \cup {s} /\ UNCHANGED sdpWire
     /\ pend' = [pend EXCEPT ![s] = [lines |-> lines,
                   why |-> IF @.why = "timer" THEN "timer" ELSE "pending"]]
  \/ ~Ringing(s) /\ ~Busy(s) /\ Send(s, lines)

(* call_modify, and send_invite at the start: the offer is encoded at      *)
(* once, whatever is under way, so it takes up the media at once.  A       *)
(* callee has a session from the first offer on.                           *)
call_modify(s, sess) ==
  LET new == Offered(sess)
  IN /\ offers < MaxOffers /\ offers' = offers + 1
     /\ offers = 0 \/ up \/ Ringing(s) \/ (sdpWire.kind = "offer" /\ sdpWire.from = s)
        \/ (sdpWire.kind \in {"taken", "answer"})
     /\ sdp' = [sdp EXCEPT ![s] = new]
     /\ ahead' = IF Len(new.medial) > Len(sess.medial) THEN ahead \cup {s} ELSE ahead
     /\ sipsess_modify(s, sdp_encode(new, TRUE))
     /\ agreed' = FALSE /\ UNCHANGED <<acks, up, crossed, clean, failed>>

CallModify(s) == call_modify(s, sdp[s]) /\ UNCHANGED changes

(* sdp_media_set_ldir for the media of the application (stream_hold) *)
SetLdir(media, dir) == [i \in DOMAIN media |->
  IF media[i].lfmtl = <<>> THEN media[i] ELSE [media[i] EXCEPT !.ldir = dir]]

(* call_hold, to hold or to resume *)
CallHold(s, dir) ==
  /\ changes < MaxLocal /\ changes' = changes + 1 /\ offers > 0
  /\ call_modify(s, [lmedial |-> SetLdir(sdp[s].lmedial, dir),
                     medial |-> SetLdir(sdp[s].medial, dir)])

(* The request of a side has ended: what it has kept goes out now.  A call *)
(* that is not established is over instead.                                *)
NextOffer(s, on) ==
  IF on /\ pend[s].why = "pending"
  THEN /\ sdpWire' = Offer(s, pend[s].lines)
       /\ pend' = [pend EXCEPT ![s] = NoDesc] /\ dirty' = dirty \ {s}
  ELSE /\ sdpWire' = NoSdp /\ UNCHANGED dirty
       /\ pend' = IF on THEN pend ELSE [t \in Side |-> NoDesc]

(* call_accept: the first offer is read, the answer is encoded later.      *)
(* reinvite_handler and sipsess_offer_handler: it is encoded at once, and  *)
(* what this side had kept to send is dropped with its timer.  An offer    *)
(* that cannot be read is refused, and one that was read may be.           *)
TakeOffer(s) ==
  /\ sdpWire.kind = "offer" /\ sdpWire.from = Peer(s)
  /\ LET d == sdp_decode(sdp[s], sdpWire.lines, TRUE)
         known == Len(sdpWire.lines) >= Len(sdp[Peer(s)].medial)
     IN /\ sdp' = [sdp EXCEPT ![s] = d.sess]
        /\ \/ /\ ~d.err
              /\ sdpWire' = IF up THEN AnswerOf(s, sdp_encode(d.sess, FALSE))
                            ELSE [AnswerOf(s, <<>>) EXCEPT !.kind = "taken"]
              /\ pend' = [pend EXCEPT ![s] = NoDesc]
              /\ dirty' = dirty \ {s} /\ crossed' = (crossed \/ s \in ahead)
              /\ ahead' = IF known THEN ahead \ {Peer(s)} ELSE ahead
              /\ UNCHANGED <<clean, failed>>
           \/ /\ d.err \/ Refusals
              /\ NextOffer(Peer(s), up)
              /\ clean' = (clean /\ d.err) /\ failed' = (failed \/ (clean /\ d.err))
              /\ UNCHANGED <<ahead, crossed>>
  /\ UNCHANGED <<acks, up, agreed, offers, changes>>

(* call_progress: an answer in a 183, for early media *)
CallProgress(s) ==
  /\ Ringing(s) /\ ~sdpWire.seen
  /\ sdpWire' = [sdpWire EXCEPT !.seen = TRUE, !.lines = sdp_encode(sdp[s], FALSE)]
  /\ UNCHANGED <<sdp, pend, acks, up, agreed, dirty, ahead, crossed, offers, changes,
                 clean, failed>>

(* sipsess_progr_handler *)
TakeEarly(s) ==
  /\ Ringing(Peer(s)) /\ sdpWire.lines # <<>>
  /\ sdp' = [sdp EXCEPT ![s] = sdp_decode(@, sdpWire.lines, FALSE).sess]
  /\ sdpWire' = [sdpWire EXCEPT !.lines = <<>>]
  /\ UNCHANGED <<pend, acks, up, agreed, dirty, ahead, crossed, offers, changes, clean,
                 failed>>

(* call_answer: the answer is what the callee has now. *)
CallAnswer(s) ==
  /\ Ringing(s) /\ sdpWire' = AnswerOf(s, sdp_encode(sdp[s], FALSE))
  /\ dirty' = dirty \ {s} /\ crossed' = (crossed \/ s \in ahead)
  /\ UNCHANGED <<sdp, pend, acks, up, agreed, ahead, offers, changes, clean, failed>>

(* sipsess_answer_handler, from a response: the ACK goes out in any case;  *)
(* the first answer must be readable, the error of a later one is ignored. *)
TakeAnswer(s) ==
  /\ sdpWire.kind = "answer" /\ sdpWire.from = Peer(s)
  /\ LET d == sdp_decode(sdp[s], sdpWire.lines, FALSE)
     IN /\ sdp' = [sdp EXCEPT ![s] = d.sess]
        /\ up' = (up \/ ~d.err)
        /\ agreed' = (~d.err /\ dirty = {}) /\ failed' = (failed \/ (clean /\ d.err))
        /\ NextOffer(s, up \/ ~d.err)
        /\ acks' = IF up \/ ~d.err THEN acks \cup {Peer(s)} ELSE {}
  /\ UNCHANGED <<ahead, crossed, offers, changes, clean>>

(* ack_handler: a modification that waited for it goes out. *)
TakeAck(s) ==
  /\ s \in acks /\ ~(sdpWire.kind = "answer" /\ sdpWire.from = s) /\ acks' = acks \ {s}
  /\ \/ pend[s].why = "pending" /\ Send(s, pend[s].lines)
     \/ pend[s].why # "pending" /\ UNCHANGED <<sdpWire, pend, dirty>>
  /\ UNCHANGED <<sdp, up, ahead, crossed, offers, changes, clean, failed, agreed>>

(* tmr_handler of modify.c *)
Retry(s) ==
  /\ pend[s].why = "timer" /\ Send(s, pend[s].lines)
  /\ UNCHANGED <<sdp, acks, up, agreed, ahead, crossed, offers, changes, clean, failed>>

(* The peer refuses without a look at the offer, or does not answer.  *)
Refuse ==
  /\ sdpWire.kind \in {"offer", "taken"} /\ clean' = FALSE
  /\ NextOffer(IF sdpWire.kind = "offer" THEN sdpWire.from ELSE Peer(sdpWire.from), up)
  /\ UNCHANGED <<sdp, acks, up, agreed, ahead, crossed, offers, changes, failed>>

(* sdp_media_format_cycle: the codec in use goes last. *)
FormatCycle(s, i) ==
  LET m == sdp[s].medial[i]
      k == SelectInSeq(m.rfmtl, LAMBDA f : f.sup)
  IN /\ m.rport /\ k # 0
     /\ changes < MaxLocal /\ changes' = changes + 1
     /\ sdp' = [sdp EXCEPT ![s].medial[i].rfmtl = Append(Drop(@, k), @[k])]
     /\ UNCHANGED <<sdpWire, pend, acks, up, agreed, dirty, ahead, crossed, offers,
                    clean, failed>>

SdpNext ==
  \/ \E s \in Side :
       \/ CallModify(s) \/ TakeOffer(s) \/ CallProgress(s) \/ TakeEarly(s)
       \/ CallAnswer(s) \/ TakeAnswer(s) \/ TakeAck(s) \/ Retry(s)
       \/ \E dir \in {{"send"}, SendRecv} : CallHold(s, dir)
       \/ \E i \in 1 .. Len(sdp[s].medial) : FormatCycle(s, i)
  \/ Refuse

----------------------------------------------------------------------------
(* sdp_media_lformat: the format of a packet that came *)
Lformat(m, pt) == SelectInSeq(m.lfmtl, LAMBDA l : l.pt = pt)

(* sdp_media_rformat: what this side sends *)
Rformats(m) == IF m.rport THEN {f \in {m.rfmtl[i] : i \in DOMAIN m.rfmtl} : f.sup}
               ELSE {}

(* sdp_media_dir *)
Dir(m) == m.ldir \cap m.rdir

On(m) == ~m.disabled /\ Rformats(m) # {}

SdpTypeOK ==
  /\ \A s \in Side : \A i \in DOMAIN sdp[s].medial : \A f \in
       {sdp[s].medial[i].lfmtl[k] : k \in DOMAIN sdp[s].medial[i].lfmtl} :
         f.pt \in 0 .. 127 /\ f.sup \in BOOLEAN
  /\ sdpWire.kind \in {"none", "offer", "taken", "answer"} /\ sdpWire.from \in Side
  /\ \A s \in Side : pend[s].why \in {"none", "pending", "timer"}
  /\ acks \subseteq Side /\ dirty \subseteq Side /\ ahead \subseteq Side
  /\ up \in BOOLEAN /\ crossed \in BOOLEAN /\ agreed \in BOOLEAN
  /\ clean \in BOOLEAN /\ failed \in BOOLEAN
  /\ changes \in 0 .. MaxLocal /\ offers \in 0 .. MaxOffers

(* After an exchange the two sides mean the same: the same media in the    *)
(* same places, each on at both or at none, one side sends when the other  *)
(* receives, and every payload type that one side may send is decoded by   *)
(* the other with the codec it was encoded with, whatever was offered,     *)
(* answered, refused, postponed, dropped, held and cycled before.         *)
SameMeaning ==
  /\ SdpTypeOK
  /\ agreed =>
       /\ Len(sdp["A"].medial) = Len(sdp["B"].medial)
       /\ \A i \in DOMAIN sdp["A"].medial :
            LET a == sdp["A"].medial[i]
                b == sdp["B"].medial[i]
            IN /\ a.name = b.name
               /\ On(a) = On(b)
               /\ On(a) => Dir(a) = Flip(Dir(b))
               /\ \A s \in Side :
                    LET me == sdp[s].medial[i]
                        you == sdp[Peer(s)].medial[i]
                    IN On(me) => \A f \in Rformats(me) :
                         /\ Lformat(you, f.pt) # 0
                         /\ you.lfmtl[Lformat(you, f.pt)].codec = f.codec

(* As long as no offer was refused, the sides number the m= lines alike:   *)
(* no offer and no answer is rejected for their order or their number      *)
(* (media_decode returns EPROTO or ENOTSUP).  The one exception is exact:  *)
(* an offer is encoded at once and numbers the media that are new in it,   *)
(* and when it is postponed, refused with 491 or impossible while the call *)
(* rings, the side that takes the offer of the other one instead answers   *)
(* with more m= lines than were offered.                                   *)
LinesStable ==
  /\ failed => crossed
  /\ clean /\ sdpWire.kind = "none" /\ ahead = {} /\ ~crossed =>
       [i \in DOMAIN sdp["A"].medial |-> sdp["A"].medial[i].name] =
       [i \in DOMAIN sdp["B"].medial |-> sdp["B"].medial[i].name]

(* What the sides agreed on means the same to both, now and in every later *)
(* offer (sdp/media.c and msg.c), with holds and modifications at any time *)
(* of another exchange (sipsess/modify.c and listen.c).                    *)
SdpSound == SameMeaning /\ LinesStable
=============================================================================
