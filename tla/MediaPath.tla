----------------------------- MODULE MediaPath -----------------------------
(***************************************************************************)
(* What a datagram of a medium passes between the RTP code of one end and  *)
(* that of the other: the helpers of the UDP socket (udp/udp.c).  These    *)
(* are the TURN client, ICE and SRTP, sorted by their layers; sending goes *)
(* through them from the top, receiving from the bottom, and one of them   *)
(* may keep what came for itself and release the whole call meanwhile.     *)
(*                                                                         *)
(* A is behind a relay, when mpMode is "ice" or "turn", and makes the      *)
(* offer; B answers.  A datagram on the wire is                            *)
(*   [src, dst: addresses; wrap: how the relay's header is put around it;  *)
(*    far: the peer named in that header; enc: whether SRTP protected it;  *)
(*    kind: what it is; asked: of a response, where the request went]      *)
(* The room in front of a message, mb->pos, decides about the relay: who   *)
(* wants to use it leaves room for its header.                             *)
(***************************************************************************)
EXTENDS Integers, Sequences

LOCAL INSTANCE SequencesExt

CONSTANT MaxDatagrams   \* bound on what is sent by the two ends

ASSUME MediaPathAssumption == MaxDatagrams \in Nat

ChanHdrSize == 4     \* CHAN_HDR_SIZE
IndLen == 36         \* stun_indlen
RtpRoom == 4         \* STREAM_PRESZ less the RTP header, and RTCP_HEADROOM

Ends == {"A", "B"}
Other(e) == IF e = "A" THEN "B" ELSE "A"

VARIABLES
  mpMode,      \* A's medianat: "ice", "turn" or "none"; B has ICE if A has
  feats,       \* what both support: "srtp", "mux"
  ends,        \* per end: up, neg (its peer's description was handled),
               \* helpers, and whether A's turnc has a channel to B
  relay,       \* the relay bound the channel (external)
  flight,      \* datagrams under way
  sends,       \* how many were sent
  given,       \* history: what the handlers of the ends were given
  misuse       \* history: a handler of a released call was called

pathVars == <<mpMode, feats, ends, relay, flight, sends, given, misuse>>

Layer(h) == CASE h = "srtp" -> 10 [] h = "ice" -> 0
              [] h = "turn" -> IF mpMode = "ice" THEN -10 ELSE 0

(* Mutant: helpers stay in the order in which they were registered. *)
udp_register_helper_Unsorted(l, h) == Append(l, h)

(* list_append and list_sort by sort_handler: behind those of its layer *)
udp_register_helper(l, h) ==
  LET below == SelectSeq(l, LAMBDA x : Layer(x) <= Layer(h))
      above == SelectSeq(l, LAMBDA x : Layer(x) > Layer(h))
  IN Append(below, h) \o above

(* stream_alloc: the helpers of medianat, then those of the encryption *)
StreamAlloc(e) ==
  LET nat == IF mpMode = "ice" THEN udp_register_helper(<<>>, "ice") ELSE <<>>
  IN IF "srtp" \in feats THEN udp_register_helper(nat, "srtp") ELSE nat

PathInit ==
  /\ mpMode \in {"ice", "turn", "none"} /\ feats \in SUBSET {"srtp", "mux"}
  /\ ends = [e \in Ends |-> [up |-> TRUE, neg |-> FALSE, chan |-> FALSE,
                             helpers |-> StreamAlloc(e)]]
  /\ relay = FALSE /\ flight = {} /\ sends = 0 /\ given = {} /\ misuse = FALSE

Has(e, h) == \E i \in DOMAIN ends[e].helpers : ends[e].helpers[i] = h

(* sdp_media_raddr: A's address in its description is that of the relay *)
raddr(e) == IF e = "B" /\ mpMode # "none" THEN "relayed" ELSE Other(e)

(* Both learn from the description that the other one can (decode_crypto,  *)
(* stream_remote_set).                                                     *)
UseSrtp(e) == "srtp" \in feats /\ ends[e].neg
Mux(e) == "mux" \in feats /\ ends[e].neg

----------------------------------------------------------------------------
(* What helper h of e does to message m on its way out. *)

rtp_enc(e, m) == [m EXCEPT !.enc = @ \/ UseSrtp(e)]

(* menc_send_handler: what goes to the address of the peer's media *)
SrtpSend(e, m) == IF m.dst = raddr(e) THEN rtp_enc(e, m) ELSE m

(* Mutant: the room in front of the message is not looked at. *)
TurnSend_AnyRoom(chan, m) ==
  IF chan /\ m.dst = "B"
  THEN [m EXCEPT !.wrap = "chan", !.far = m.dst, !.dst = "server"]
  ELSE [m EXCEPT !.wrap = "ind", !.far = m.dst, !.dst = "server"]

(* udp_send_handler of turnc.c: without room a message goes as it is. *)
TurnSend(chan, m) ==
  IF m.room < ChanHdrSize THEN m
  ELSE IF chan /\ m.dst = "B"
  THEN [m EXCEPT !.wrap = "chan", !.far = m.dst, !.dst = "server"]
  ELSE IF m.room < IndLen THEN m
  ELSE [m EXCEPT !.wrap = "ind", !.far = m.dst, !.dst = "server"]

(* udp_send_internal: the helpers from the top down, then the socket *)
udp_send(e, chan, m) ==
  LET out == FoldRight(LAMBDA h, acc : CASE h = "srtp" -> SrtpSend(e, acc)
                                         [] h = "turn" -> TurnSend(chan, acc)
                                         [] OTHER -> acc,
                       ends[e].helpers, m)
  IN [src |-> e, dst |-> out.dst, wrap |-> out.wrap, far |-> out.far,
      enc |-> out.enc, kind |-> out.kind, asked |-> out.asked]

Message(kind, dst, room, asked) ==
  [kind |-> kind, dst |-> dst, room |-> room, asked |-> asked,
   wrap |-> "no", far |-> "no", enc |-> FALSE]

SendMessage(e, chan, m) ==
  /\ ends[e].up /\ sends < MaxDatagrams /\ sends' = sends + 1
  /\ flight' = flight \cup {udp_send(e, chan, m)}
  /\ ends' = [ends EXCEPT ![e].chan = chan]
  /\ UNCHANGED <<mpMode, feats, relay, given, misuse>>

(* stream_send and rtp_send; rtcp_send on the port of RTP *)
SendMedia(e) ==
  /\ ends[e].neg
  /\ \E kind \in {"rtp"} \cup (IF Mux(e) THEN {"rtcp"} ELSE {}) :
       SendMessage(e, ends[e].chan, Message(kind, raddr(e), RtpRoom, "no"))

(* timeout of rtpkeep.c, in a period in which no RTP was sent: an empty    *)
(* datagram, a STUN indication, or an RTP packet of a type that the peer   *)
(* does not know.  None leaves room for the relay.                         *)
Keepalive(e) ==
  /\ ends[e].neg
  /\ \E kind \in {"zero", "stunind", "rtp"} :
       SendMessage(e, ends[e].chan, Message(kind, raddr(e), 0, "no"))

(* icem_conncheck_send: a check from the relayed candidate has room for    *)
(* the header of its channel, and makes sure that there is one.            *)
SendCheck(e, relayed) ==
  /\ Has(e, "ice") /\ ends[e].neg /\ (relayed => Has(e, "turn"))
  /\ \E dst \in IF e = "A" THEN {"B"} ELSE {"A", "relayed"} :
       SendMessage(e, relayed \/ ends[e].chan,
                   Message("req", dst, IF relayed THEN ChanHdrSize ELSE 0, dst))

(* The TURN client's own requests go to the server. *)
TurnRequest ==
  /\ Has("A", "turn")
  /\ SendMessage("A", ends["A"].chan, Message("turnreq", "server", 0, "server"))

----------------------------------------------------------------------------
(* gather_relayed2 and the module turn: the TURN client registers later.   *)
TurnStart ==
  /\ mpMode # "none" /\ ends["A"].up /\ ~Has("A", "turn") /\ ~ends["A"].neg
  /\ ends' = [ends EXCEPT !["A"].helpers = udp_register_helper(@, "turn")]
  /\ UNCHANGED <<mpMode, feats, relay, flight, sends, given, misuse>>

(* The description of the peer is handled (stream_update, the update       *)
(* handlers of medianat): B when A's offer comes, A when B's answer does.  *)
(* The module turn adds a channel for the peer's address then; with ICE    *)
(* the first check from the relayed candidate does.                        *)
StreamUpdate(e) ==
  /\ ends[e].up /\ ~ends[e].neg
  /\ IF e = "B" THEN mpMode # "none" => Has("A", "turn") ELSE ends["B"].neg
  /\ ends' = [ends EXCEPT ![e].neg = TRUE, ![e].chan = mpMode = "turn" /\ e = "A"]
  /\ UNCHANGED <<mpMode, feats, relay, flight, sends, given, misuse>>

(* The relay (external): it takes what A wrapped for B apart and wraps     *)
(* what comes to A's relayed address.                                      *)
RelayBinds ==
  /\ ~relay /\ ends["A"].chan /\ relay' = TRUE
  /\ UNCHANGED <<mpMode, feats, ends, flight, sends, given, misuse>>

RelayForwards(d) ==
  /\ \/ /\ d.dst = "server" /\ (d.wrap = "ind" \/ (d.wrap = "chan" /\ relay))
        /\ flight' = (flight \ {d}) \cup
             {[d EXCEPT !.src = "relayed", !.dst = d.far, !.wrap = "no", !.far = "no"]}
     \/ /\ d.dst = "relayed"
        /\ \E wrap \in {"ind"} \cup (IF relay THEN {"chan"} ELSE {}) :
             flight' = (flight \ {d}) \cup
               {[d EXCEPT !.src = "server", !.dst = "A", !.wrap = wrap, !.far = d.src]}
     \/ /\ d.dst = "server" /\ d.kind = "turnreq" /\ d.wrap = "no"
        /\ flight' = (flight \ {d}) \cup
             {[d EXCEPT !.src = "server", !.dst = "A", !.kind = "turnresp"]}
  /\ UNCHANGED <<mpMode, feats, ends, relay, sends, given, misuse>>

Lost(d) ==
  /\ flight' = flight \ {d}
  /\ UNCHANGED <<mpMode, feats, ends, relay, sends, given, misuse>>

----------------------------------------------------------------------------
(* What helper h of e makes of what came: the walk w has the message as it *)
(* is now, whether a helper kept it (hdld), who saw it, and the room in    *)
(* front of it (pos).                                                      *)

Stun == {"req", "resp", "stunind", "turnresp"}
PlainStun(w) == w.d.kind \in Stun /\ ~w.d.enc /\ w.d.wrap = "no"

Keep(w, h) == [w EXCEPT !.hdld = TRUE, !.by = h]

(* udp_recv_handler of turnc.c *)
TurnRecv(w) ==
  IF w.d.src # "server" THEN w
  ELSE IF w.d.wrap # "no"
  THEN [w EXCEPT !.d.wrap = "no", !.d.src = w.d.far, !.d.far = "no",
                 !.pos = IF w.d.wrap = "chan" THEN ChanHdrSize ELSE IndLen]
  ELSE Keep(w, "turn")

(* Mutant: a response is passed on when it was used. *)
IceRecv_Passes(w) == IF PlainStun(w) /\ w.d.kind # "resp" THEN Keep(w, "ice")
                     ELSE [w EXCEPT !.by = "ice"]

(* helper_recv_handler of comp.c: all that is STUN *)
IceRecv(w) == IF PlainStun(w) THEN Keep(w, "ice") ELSE w

(* rtp_dec fails when it is given what was not protected *)
rtp_dec(e, d) == UseSrtp(e) => d.enc

(* menc_recv_handler *)
SrtpRecv(e, w) ==
  IF rtp_dec(e, w.d) THEN [w EXCEPT !.d.enc = @ /\ ~UseSrtp(e)] ELSE Keep(w, "srtp")

Walk(e, d) ==
  FoldLeft(LAMBDA w, h : IF w.hdld THEN w
                         ELSE CASE h = "turn" -> TurnRecv(w)
                                [] h = "ice" -> IceRecv(w)
                                [] h = "srtp" -> SrtpRecv(e, w),
           [d |-> d, hdld |-> FALSE, by |-> "none", pos |-> 0], ends[e].helpers)

(* udp_recv_handler of rtp.c: RTCP on the port of RTP if that was agreed;  *)
(* what has not the version of RTP is dropped by rtp_decode.               *)
RtpRecv(e, d) ==
  IF Mux(e) /\ d.kind = "rtcp" THEN {[to |-> "rtcp", d |-> d, neg |-> ends[e].neg]}
  ELSE IF d.kind \in {"rtp", "rtcp"} THEN {[to |-> "rtp", d |-> d, neg |-> ends[e].neg]}
  ELSE {}

(* udp_read.  A helper that kept a STUN message may have called a handler  *)
(* that ended the call (drop): nothing of it may be used after that.  A    *)
(* request of ICE is answered with the room that was in front of it.       *)
UdpRead(e, d, drop) ==
  LET w == Walk(e, d)
      answers == w.hdld /\ w.by = "ice" /\ w.d.kind = "req" /\ ~drop
  IN /\ ends[e].up /\ d.dst = e
     /\ drop => w.by \in {"ice", "turn"}
     /\ ends' = IF drop THEN [ends EXCEPT ![e].up = FALSE, ![e].helpers = <<>>] ELSE ends
     /\ misuse' = (misuse \/ (drop /\ ~w.hdld))
     /\ given' = IF w.hdld
                 THEN given \cup (IF w.by = "ice" /\ w.d.kind = "resp"
                                  THEN {[to |-> "ice", d |-> w.d, neg |-> ends[e].neg]} ELSE {})
                 ELSE given \cup RtpRecv(e, w.d)
     /\ answers => sends < MaxDatagrams
     /\ sends' = IF answers THEN sends + 1 ELSE sends
     /\ flight' = (flight \ {d}) \cup
          (IF answers THEN {udp_send(e, ends[e].chan, Message("resp", w.d.src, w.pos, w.d.asked))} ELSE {})
     /\ UNCHANGED <<mpMode, feats, relay>>

(* stream_destructor: the helpers go before the socket *)
StreamFree(e) ==
  /\ ends[e].up
  /\ ends' = [ends EXCEPT ![e].up = FALSE, ![e].helpers = <<>>]
  /\ UNCHANGED <<mpMode, feats, relay, flight, sends, given, misuse>>

PathNext ==
  \/ TurnStart \/ TurnRequest \/ RelayBinds
  \/ \E e \in Ends : StreamUpdate(e) \/ SendMedia(e) \/ Keepalive(e) \/ StreamFree(e)
                     \/ \E relayed \in BOOLEAN : SendCheck(e, relayed)
  \/ \E d \in flight : RelayForwards(d) \/ Lost(d)
                       \/ \E e \in Ends, drop \in BOOLEAN : UdpRead(e, d, drop)

----------------------------------------------------------------------------
PathTypeOK ==
  /\ \A e \in Ends : ends[e].helpers \in Seq({"turn", "ice", "srtp"})
  /\ sends \in 0 .. MaxDatagrams /\ misuse \in BOOLEAN

(* Whatever order helpers were registered in: once the peer's description  *)
(* was handled the RTP code is given RTP packets as they were sent, no     *)
(* RTCP and nothing still protected; a response comes from where the       *)
(* request went; what the TURN client asks is not wrapped in its own       *)
(* header; media never leave in the clear when both ends have SRTP; and no *)
(* handler of a released call is called (udp_read, udp_send_internal of    *)
(* udp.c, srtp.c, comp.c, turnc.c).                                        *)
LayersSound ==
  /\ PathTypeOK /\ ~misuse
  /\ \A h \in given :
       /\ h.neg => ~h.d.enc
       /\ h.neg /\ h.to = "rtp" => h.d.kind = "rtp"
       /\ h.to = "ice" => h.d.src = h.d.asked
  /\ \A d \in flight :
       /\ d.kind = "turnreq" => d.wrap = "no"
       /\ d.kind \in {"rtp", "rtcp"} /\ "srtp" \in feats => d.enc
=============================================================================
