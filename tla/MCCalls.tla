------------------------------ MODULE MCCalls ------------------------------
(* The calls of a user agent, and what they stand on: the offer and the    *)
(* answer of a session, the dialogs of a forked request; and presence.     *)
(* They share no variable: part says which one a behaviour is about, the   *)
(* others stay as they begin.                                              *)
EXTENDS Calls, Sdp, SipDialog, Presence, TLC

CONSTANTS Parts, c1, c2, c3

VARIABLE part

(* Three call objects, one of them beyond the limit for incoming calls. *)
MCCall == {c1, c2, c3}
MCAnswerMode == {"MANUAL", "EARLY", "AUTO"}
MCMedianat == BOOLEAN
Symmetric == Permutations(MCCall)

(* The sides have all codecs, some, or none in common, in another order.   *)
MCStatic == [pcmu |-> 0]
MCCodecs ==
  [A |-> {[audio |-> <<"spx", "pcmu", "opus">>, video |-> <<"vp8">>]},
   B |-> {[audio |-> <<"opus", "spx">>, video |-> <<"vp8">>],
          [audio |-> <<"pcmu", "opus">>, video |-> <<>>],
          [audio |-> <<"g722">>, video |-> <<"h264">>]}]

(* The way to one of the two user agents passes two proxies. *)
MCPath == [f \in Uas |-> IF f = "f1" THEN <<"p", "q">> ELSE <<>>]

callsVars == <<part, vars, sdpVars, dlgVars, presVars>>

CallsInit ==
  /\ part \in Parts
  /\ Init /\ (part # "calls" => answermode = "MANUAL")
  /\ SdpInit /\ (part # "sdp" => sdp["B"] = NewSession(<<"g722">>, <<"h264">>))
  /\ DlgInit /\ (part # "dialog" => forkh /\ adlg[First].routes = <<>>)
  /\ PresInit

CallsNext ==
  /\ UNCHANGED part
  /\ \/ part = "calls" /\ Next /\ UNCHANGED <<sdpVars, dlgVars, presVars>>
     \/ part = "sdp" /\ SdpNext /\ UNCHANGED <<vars, dlgVars, presVars>>
     \/ part = "dialog" /\ DlgNext /\ UNCHANGED <<vars, sdpVars, presVars>>
     \/ part = "presence" /\ PresNext /\ UNCHANGED <<vars, sdpVars, dlgVars>>

CallsSpec == CallsInit /\ [][CallsNext]_callsVars
=============================================================================
