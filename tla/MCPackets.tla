----------------------------- MODULE MCPackets -----------------------------
(* What is sent to a peer and what is made of the packets that come back:  *)
(* the helpers of the socket, the jitter buffer, RTP reception, telephone  *)
(* events, the packets of a picture, the audio codecs, and the STUN, RTCP, *)
(* BFCP and DNS messages.  They share no variable: part says which one a   *)
(* behaviour is about, the others stay in one state.                       *)
EXTENDS Jbuf, Rtp, Payloads, AttrMsg, DnsMsg, MediaPath

CONSTANT Parts

VARIABLE part

----------------------------------------------------------------------------
(* Two RTP sources of the jitter buffer's sender, or one; few sequence     *)
(* numbers, so that they wrap within a run.                                *)
MCSource == 1 .. 2
MCOneSource == {1}
MCFirstSeq == {5}

(* A name server's records: names that share a tail, that differ in case   *)
(* or that are the root, aliases that lead on and that lead to themselves. *)
La == <<65>>
Lb == <<66>>
Lc == <<98>>
Rr(n, t, d) == [name |-> n, type |-> t, ttl |-> 3, data |-> d]

MCRrs ==
  {Rr(<<La, Lb>>, "a", <<7>>), Rr(<<Lb>>, "a", <<8>>),
   Rr(<<La, Lb>>, "cname", <<<<Lb>>>>), Rr(<<La, Lb>>, "cname", <<<<La, Lb>>>>),
   Rr(<<Lc>>, "cname", <<<<La, Lc>>>>), Rr(<<>>, "ns", <<<<>>>>),
   Rr(<<Lb>>, "soa", <<<<La, Lc>>, <<La, La, Lb>>, 5>>),
   Rr(<<La>>, "mx", <<1, <<La, Lb>>>>), Rr(<<La>>, "mx", <<2, <<Lb>>>>),
   Rr(<<La, Lb>>, "srv", <<1, 0, 9, <<La, Lb>>>>),
   Rr(<<La, Lb>>, "srv", <<1, 2, 9, <<La, La, Lb>>>>),
   Rr(<<La, Lb>>, "srv", <<0, 2, 9, <<La, La, Lb>>>>),
   Rr(<<La, La, Lb>>, "naptr", <<1, 2, <<65>>, <<>>, <<66, 66>>, <<La>>>>),
   Rr(<<Lb>>, "aaaa", <<300>>), Rr(<<Lb>>, "ptr", <<<<La, Lb>>>>)}

MCHeaders ==
  {[id |-> 770, qr |-> 1, opcode |-> 5, aa |-> 0, tc |-> 1, rd |-> 0,
    ra |-> 1, z |-> 2, rcode |-> 3]}

----------------------------------------------------------------------------
packetsVars == <<part, vars, rtpVars, televVars, pktVars, codecVars, stunMsgVars,
                 rtcpMsgVars, bfcpMsgVars, dnsMsgVars, pathVars>>

PacketsInit ==
  /\ part \in Parts
  /\ Init /\ RtpInit
  /\ TelevInit /\ (part # "telev" => air.fmt)
  /\ PktInit /\ (part # "video" => vcodec = "vp8")
  /\ CodecInit /\ (part # "audio" => acodec = "g711" /\ ~plc)
  /\ StunMsgInit /\ RtcpMsgInit /\ BfcpMsgInit
  /\ DnsMsgInit /\ (part # "dns" => dmsg.nans = 1 /\ dmsg.start = 0)
  /\ PathInit /\ (part # "path" => mpMode = "none" /\ feats = {})

PacketsNext ==
  /\ UNCHANGED part
  /\ \/ /\ part = "jbuf" /\ Next
        /\ UNCHANGED <<rtpVars, televVars, pktVars, stunMsgVars, rtcpMsgVars,
                       bfcpMsgVars, dnsMsgVars, pathVars, codecVars>>
     \/ /\ part = "rtp" /\ RtpNext
        /\ UNCHANGED <<vars, televVars, pktVars, stunMsgVars, rtcpMsgVars,
                       bfcpMsgVars, dnsMsgVars, pathVars, codecVars>>
     \/ /\ part = "telev" /\ TelevNext
        /\ UNCHANGED <<vars, rtpVars, pktVars, stunMsgVars, rtcpMsgVars,
                       bfcpMsgVars, dnsMsgVars, pathVars, codecVars>>
     \/ /\ part = "video" /\ PktNext
        /\ UNCHANGED <<vars, rtpVars, televVars, stunMsgVars, rtcpMsgVars,
                       bfcpMsgVars, dnsMsgVars, pathVars, codecVars>>
     \/ /\ part = "stun" /\ StunMsgNext
        /\ UNCHANGED <<vars, rtpVars, televVars, pktVars, rtcpMsgVars,
                       bfcpMsgVars, dnsMsgVars, pathVars, codecVars>>
     \/ /\ part = "rtcp" /\ RtcpMsgNext
        /\ UNCHANGED <<vars, rtpVars, televVars, pktVars, stunMsgVars,
                       bfcpMsgVars, dnsMsgVars, pathVars, codecVars>>
     \/ /\ part = "bfcp" /\ BfcpMsgNext
        /\ UNCHANGED <<vars, rtpVars, televVars, pktVars, stunMsgVars,
                       rtcpMsgVars, dnsMsgVars, pathVars, codecVars>>
     \/ /\ part = "dns" /\ DnsMsgNext
        /\ UNCHANGED <<vars, rtpVars, televVars, pktVars, stunMsgVars,
                       rtcpMsgVars, bfcpMsgVars, pathVars, codecVars>>
     \/ /\ part = "path" /\ PathNext
        /\ UNCHANGED <<vars, rtpVars, televVars, pktVars, stunMsgVars,
                       rtcpMsgVars, bfcpMsgVars, dnsMsgVars, codecVars>>
     \/ /\ part = "audio" /\ CodecNext
        /\ UNCHANGED <<vars, rtpVars, televVars, pktVars, stunMsgVars,
                       rtcpMsgVars, bfcpMsgVars, dnsMsgVars, pathVars>>

PacketsSpec == PacketsInit /\ [][PacketsNext]_packetsVars

----------------------------------------------------------------------------
(* A peer hears the keys that were pressed (KeysHeard of Payloads), sees   *)
(* whole pictures again once packets were lost (PicturesWhole of           *)
(* Payloads), hears all sound of a packet (CodecsSound of Payloads), and   *)
(* TURN, ICE and SRTP pass on what is meant for the others as it was sent  *)
(* (LayersSound of MediaPath).                                             *)
MediaSound ==
  /\ part = "path" => LayersSound
  /\ part = "telev" => KeysHeard
  /\ part = "video" => PicturesWhole
  /\ part = "audio" => CodecsSound

(* No decoder leaves its message, and what was encoded is decoded as it    *)
(* was meant: STUN with its integrity, RTCP, BFCP and DNS with its         *)
(* compressed names (DecodeWithin, IntegrityExact, RtcpInStep, RoundTrip   *)
(* and DnsMsgSound).                                                       *)
WireSound ==
  /\ part = "stun" => DecodeWithin /\ IntegrityExact
  /\ part = "rtcp" => RtcpInStep
  /\ part = "bfcp" => RoundTrip
  /\ part = "dns" => DnsMsgSound
=============================================================================
