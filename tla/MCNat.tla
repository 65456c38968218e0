------------------------------- MODULE MCNat -------------------------------
(* Getting media through NATs: STUN transactions and keepalives, the TURN  *)
(* client, the medianat modules of a call and the ICE object of a medium.  *)
(* They share no variable: part says which one a behaviour is about, the   *)
(* others stay in one state, in which they can do nothing that fairness    *)
(* asks for.                                                               *)
EXTENDS StunTurn, MediaNat

CONSTANT Parts

(* No, one or two interfaces *)
MCIfaces == {<<>>, <<"h1">>, <<"h1", "h2">>}

MCKinds ==
  {[lite |-> TRUE, offerer |-> TRUE, regular |-> FALSE, comp |-> {1}],
   [lite |-> FALSE, offerer |-> TRUE, regular |-> FALSE, comp |-> {1, 2}],
   [lite |-> FALSE, offerer |-> FALSE, regular |-> TRUE, comp |-> {1}]}

(* Descriptions with the candidates of both components, with two of one, a *)
(* mapped one, one of component 256, with none, and with ICE given up.     *)
At(c, type, addr) == [comp |-> c, type |-> type, addr |-> addr]
Offer == [lite |-> FALSE, mismatch |-> FALSE, on |-> TRUE, cands |-> <<>>,
          raddr |-> <<"r1", "r1">>]
MCOffers ==
  {Offer, [Offer EXCEPT !.on = FALSE],
   [Offer EXCEPT !.cands = <<At(1, "host", "r1"), At(2, "host", "r1")>>],
   [Offer EXCEPT !.cands = <<At(1, "host", "r1"), At(1, "srflx", "r2")>>,
                 !.lite = TRUE],
   [Offer EXCEPT !.cands = <<At(2, "host", "r1"), At(1, "srflx", "r2")>>,
                 !.raddr = <<"r2", "r1">>],
   [Offer EXCEPT !.cands = <<At(0, "host", "r1"), At(1, "host", "r1")>>,
                 !.mismatch = TRUE]}

VARIABLE part

vars == <<part, stunVars, turnVars, mnatVars, iceSetVars>>

Init ==
  /\ part \in Parts
  /\ StunInit /\ TurnInit /\ IceSetInit
  /\ MnatInit /\ (part # "mnat" => mode = "ice")

Next ==
  /\ UNCHANGED part
  /\ \/ part = "stun" /\ StunNext /\ UNCHANGED <<turnVars, mnatVars, iceSetVars>>
     \/ part = "turn" /\ TurnNext /\ UNCHANGED <<stunVars, mnatVars, iceSetVars>>
     \/ part = "mnat" /\ MnatNext /\ UNCHANGED <<stunVars, turnVars, iceSetVars>>
     \/ part = "ice" /\ IceSetNext /\ UNCHANGED <<stunVars, turnVars, mnatVars>>

Spec == Init /\ [][Next]_vars /\ StunFairness /\ TurnFairness /\ MnatFairness

----------------------------------------------------------------------------
(* Every STUN transaction, TURN request and candidate gathering comes to   *)
(* its end: see FlowEnds, RequestEnds and MnatEnds of their modules.       *)
NatEnds == FlowEnds /\ RequestEnds /\ MnatEnds
=============================================================================
