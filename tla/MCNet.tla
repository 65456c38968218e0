------------------------------- MODULE MCNet -------------------------------
(* The connections under the SIP stack and the paths to a peer: a TCP      *)
(* connection, the connections of the SIP transport, the DNS client, a     *)
(* BFCP connection, the checks of ICE and the discovery of NATs.  They     *)
(* share no variable: part says which one a behaviour is about, the others *)
(* stay in one state, in which they can do nothing that fairness asks for. *)
EXTENDS Tcp, SipTransp, DnsClient, BfcpSock, IceChecks, NatBd

CONSTANT Parts

VARIABLE part

(* What the NAT discovery is watched for. *)
MCWatch == {{"nm", "nf"}, {"nh", "ga"}, {"nl"}}

vars == <<part, tcpVars, transpVars, dnsVars, bfcpVars, iceVars, bdVars>>

Init ==
  /\ part \in Parts
  /\ TcpInit /\ TranspInit
  /\ DnsInit /\ (part # "dns" => srvc = 1)
  /\ BfcpInit /\ (part # "bfcp" => tidc = 0)
  /\ IceInit /\ (part # "ice" => nom = "regular")
  /\ NatBdInit /\ (part # "natbd" => bdProto = "udp" /\ kind = "none" /\ watch = {"nl"})

Next ==
  /\ UNCHANGED part
  /\ \/ /\ part = "tcp" /\ TcpNext
        /\ UNCHANGED <<transpVars, dnsVars, bfcpVars, iceVars, bdVars>>
     \/ /\ part = "transp" /\ TranspNext
        /\ UNCHANGED <<tcpVars, dnsVars, bfcpVars, iceVars, bdVars>>
     \/ /\ part = "dns" /\ DnsNext
        /\ UNCHANGED <<tcpVars, transpVars, bfcpVars, iceVars, bdVars>>
     \/ /\ part = "bfcp" /\ BfcpNext
        /\ UNCHANGED <<tcpVars, transpVars, dnsVars, iceVars, bdVars>>
     \/ /\ part = "ice" /\ IceNext
        /\ UNCHANGED <<tcpVars, transpVars, dnsVars, bfcpVars, bdVars>>
     \/ /\ part = "natbd" /\ NatBdNext
        /\ UNCHANGED <<tcpVars, transpVars, dnsVars, bfcpVars, iceVars>>

Spec == Init /\ [][Next]_vars /\ TcpFairness /\ DnsFairness

----------------------------------------------------------------------------
(* ICE selects valid pairs and never stops watching its checks, and the    *)
(* NAT discovery reports what the NAT does (SelectedValid, RunningWatched  *)
(* and DiscoveryTrue).                                                     *)
PathSound == SelectedValid /\ RunningWatched /\ DiscoveryTrue

(* What is queued on a TCP connection is written or the connection is      *)
(* closed (Drained), and every DNS query is answered (QueryEnds).          *)
NetEnds == Drained /\ QueryEnds
=============================================================================
