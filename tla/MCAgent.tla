------------------------------ MODULE MCAgent ------------------------------
(* The user agents with the SIP stack that they own, and the main loop and *)
(* the lists under all of it.  They share no variable: part says which one *)
(* a behaviour is about, the others stay in one state in which they can do *)
(* nothing that fairness asks for.                                         *)
EXTENDS Agent, EventLoop, Lists

CONSTANT Parts

VARIABLE part

(* One account registers with two servers. *)
MCRegc == [a \in Account |-> IF a = "a" THEN 2 ELSE 1]

(* Two elements share a bucket and a hash key; all but one are alike. *)
MCKey == [e \in Elem |-> CASE e = "a" -> 1 [] e = "b" -> 3 [] OTHER -> 4]
MCPrio == [e \in Elem |-> IF e = "a" THEN 1 ELSE 2]

vars == <<part, agentVars, loopVars, listVars>>

Init ==
  /\ part \in Parts
  /\ AgentInit /\ (part # "agent" => host = "x")
  /\ IF part = "loop" THEN LoopInit ELSE LoopAt("end", MaxTime)
  /\ ListsInit

Next ==
  /\ UNCHANGED part
  /\ \/ part = "agent" /\ AgentNext /\ UNCHANGED <<loopVars, listVars>>
     \/ part = "loop" /\ LoopNext /\ UNCHANGED <<agentVars, listVars>>
     \/ part = "lists" /\ ListsNext /\ UNCHANGED <<agentVars, loopVars>>

Spec == Init /\ [][Next]_vars /\ AgentFairness /\ LoopFairness
=============================================================================
