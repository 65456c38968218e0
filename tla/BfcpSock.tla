------------------------------ MODULE BfcpSock ------------------------------
(***************************************************************************)
(* A BFCP socket: bfcp/sock.c, req.c and rep.c.  A request opens the       *)
(* connection to its peer if there is none, and waits in the connection    *)
(* until that is established; it is answered by the message with its       *)
(* transaction number, or times out.  TCP cuts the messages into pieces;   *)
(* one without its body waits for the rest, one without its whole header   *)
(* is an error that closes the connection.  Handlers may make and cancel   *)
(* requests.                                                               *)
(*                                                                         *)
(* One peer, external: it answers requests in any order, and sends         *)
(* messages of its own, whose number is 0.  A message is cut into the half *)
(* of its header, the rest of it, and the body.                            *)
(***************************************************************************)
EXTENDS Naturals, Sequences, FiniteSets

CONSTANTS
  Breq,          \* requests
  TidMod,        \* transaction numbers are counted modulo this
  MaxNotes,      \* messages of the peer's own
  MaxConns       \* connections made

(* There are more numbers than requests, so that none comes round again.   *)
ASSUME BfcpAssumption ==
  IsFiniteSet(Breq) /\ TidMod \in Nat /\ Cardinality(Breq) < TidMod

VARIABLES
  ct,            \* [Breq -> "none", "open", "told" or "dropped"]
  tid, tidc,     \* [Breq -> number], and the last number
  answer,        \* [Breq -> what its handler was told]
  bconn,         \* "none", "connecting", "estab"
  nconns,
  mbtx,          \* requests that wait for the connection
  stuck,         \* they could not be sent when it came
  atpeer,        \* requests the peer has got, in this order
  sentv,         \* requests handed to the connection, in this order
  back,          \* pieces on their way from the peer: <<number, piece>>
  mbrx,          \* pieces received
  notes,         \* messages of the peer's own, so far
  inrecv,        \* tcp_recv_handler is in its loop
  dead           \* ... and its connection has been freed

bfcpVars == <<ct, tid, tidc, answer, bconn, nconns, mbtx, stuck, atpeer, sentv, back,
              mbrx, notes, inrecv, dead>>

BfcpInit ==
  /\ ct = [r \in Breq |-> "none"]
  /\ tidc \in 0 .. TidMod - 1
  /\ tid = [r \in Breq |-> 0]
  /\ answer = [r \in Breq |-> "none"]
  /\ bconn = "none" /\ nconns = 0 /\ mbtx = <<>> /\ stuck = FALSE
  /\ atpeer = <<>> /\ sentv = <<>> /\ back = <<>> /\ mbrx = <<>>
  /\ notes = 0 /\ inrecv = FALSE /\ dead = FALSE

OpenReqs == {r \in Breq : ct[r] = "open"}

----------------------------------------------------------------------------
(* Mutant: the number 0 is not left out. *)
ctrans_new_Zero == (tidc + 1) % TidMod

(* ctrans_new: the next number, never 0 *)
ctrans_new == IF (tidc + 1) % TidMod = 0 THEN 1 ELSE (tidc + 1) % TidMod

(* conn_destructor: what waits in the connection is gone with it. *)
ConnFreed ==
  /\ bconn' = "none" /\ mbtx' = <<>> /\ stuck' = FALSE /\ back' = <<>> /\ mbrx' = <<>>
  /\ atpeer' = <<>> /\ sentv' = <<>>
  /\ dead' = inrecv

(* bfcp_send, when all is well: a connection is made if need be.  Until it *)
(* is established, messages are put one behind the other.                  *)
SendOk(r) ==
  /\ bconn = "none" => nconns < MaxConns
  /\ bconn' = IF bconn = "none" THEN "connecting" ELSE bconn
  /\ nconns' = IF bconn = "none" THEN nconns + 1 ELSE nconns
  /\ sentv' = Append(sentv, r)
  /\ IF bconn = "estab" THEN atpeer' = Append(atpeer, r) /\ UNCHANGED mbtx
     ELSE mbtx' = Append(mbtx, r) /\ UNCHANGED atpeer
  /\ UNCHANGED <<stuck, back, mbrx, dead>>

(* bfcp_request: numbered, sent, and waited for; if it cannot be sent the  *)
(* transaction goes, and the connection with it.                           *)
BfcpRequest(r) ==
  /\ ct[r] = "none"
  /\ ~dead
  /\ tidc' = ctrans_new
  /\ \/ /\ SendOk(r)
        /\ ct' = [ct EXCEPT ![r] = "open"]
        /\ tid' = [tid EXCEPT ![r] = ctrans_new]
     \/ /\ ConnFreed
        /\ ct' = [ct EXCEPT ![r] = "dropped"]
        /\ UNCHANGED <<tid, nconns>>
  /\ UNCHANGED <<answer, notes, inrecv>>

(* The owner drops a request: destructor *)
BfcpCancel(r) ==
  /\ ct[r] = "open"
  /\ ct' = [ct EXCEPT ![r] = "dropped"]
  /\ UNCHANGED <<tid, tidc, answer, bconn, nconns, mbtx, stuck, atpeer, sentv, back, mbrx,
                 notes, inrecv, dead>>

(* timeout: after ten seconds *)
BfcpTimeout(r) ==
  /\ ct[r] = "open" /\ ~inrecv
  /\ ct' = [ct EXCEPT ![r] = "told"]
  /\ answer' = [answer EXCEPT ![r] = "timeout"]
  /\ UNCHANGED <<tid, tidc, bconn, nconns, mbtx, stuck, atpeer, sentv, back, mbrx, notes,
                 inrecv, dead>>

(* tcp_estab_handler: what waits is sent, or stays where it is. *)
BfcpEstab ==
  /\ bconn = "connecting" /\ ~inrecv
  /\ bconn' = "estab"
  /\ \/ mbtx' = <<>> /\ atpeer' = mbtx /\ UNCHANGED stuck
     \/ mbtx # <<>> /\ stuck' = TRUE /\ UNCHANGED <<mbtx, atpeer>>
  /\ UNCHANGED <<ct, tid, tidc, answer, nconns, sentv, back, mbrx, notes, inrecv, dead>>

(* tcp_close_handler: requests that were sent are left to their timers. *)
BfcpClosed ==
  /\ bconn # "none" /\ ~inrecv
  /\ ConnFreed
  /\ UNCHANGED <<ct, tid, tidc, answer, nconns, notes, inrecv>>

----------------------------------------------------------------------------
Pieces(n, r) == <<[tid |-> n, of |-> r, p |-> "hdr1"], [tid |-> n, of |-> r, p |-> "hdr2"],
                  [tid |-> n, of |-> r, p |-> "body"]>>

(* The peer answers a request it has got. *)
PeerAnswers ==
  /\ bconn = "estab" /\ ~inrecv
  /\ \E i \in DOMAIN atpeer :
       /\ back' = back \o Pieces(tid[atpeer[i]], atpeer[i])
       /\ atpeer' = [j \in 1 .. Len(atpeer) - 1 |-> IF j < i THEN atpeer[j] ELSE atpeer[j + 1]]
  /\ UNCHANGED <<ct, tid, tidc, answer, bconn, nconns, mbtx, stuck, sentv, mbrx, notes,
                 inrecv, dead>>

(* ... or sends a message of its own, number 0. *)
PeerSends ==
  /\ bconn = "estab" /\ ~inrecv /\ notes < MaxNotes
  /\ notes' = notes + 1
  /\ back' = back \o Pieces(0, "note")
  /\ UNCHANGED <<ct, tid, tidc, answer, bconn, nconns, mbtx, stuck, atpeer, sentv, mbrx,
                 inrecv, dead>>

(* tcp_recv_handler: a piece is put behind the rest. *)
BfcpRecv ==
  /\ bconn = "estab" /\ ~inrecv /\ back # <<>>
  /\ \E n \in 1 .. Len(back) :
       /\ mbrx' = mbrx \o SubSeq(back, 1, n)
       /\ back' = SubSeq(back, n + 1, Len(back))
  /\ inrecv' = TRUE
  /\ UNCHANGED <<ct, tid, tidc, answer, bconn, nconns, mbtx, stuck, atpeer, sentv, notes,
                 dead>>

(* bfcp_hdr_decode: less than a header is EBADMSG, and ends it all ... *)
NoHeader == Len(mbrx) = 1

(* ... less than the body is ENODATA, and waits. *)
NoBody == Len(mbrx) < 3

(* bfcp_ctrans_find: the request that has the number *)
Find(n) == {r \in OpenReqs : tid[r] = n}

(* One round of the loop of tcp_recv_handler *)
BfcpRound ==
  /\ inrecv /\ ~dead /\ mbrx # <<>>
  /\ \/ /\ NoHeader
        /\ bconn' = "none" /\ mbtx' = <<>> /\ stuck' = FALSE /\ back' = <<>> /\ mbrx' = <<>>
        /\ atpeer' = <<>> /\ sentv' = <<>>
        /\ inrecv' = FALSE
        /\ UNCHANGED <<ct, answer>>
     \/ /\ ~NoHeader /\ NoBody
        /\ inrecv' = FALSE
        /\ UNCHANGED <<ct, answer, bconn, mbtx, stuck, back, mbrx, atpeer, sentv>>
     \/ /\ ~NoBody
        /\ LET n == mbrx[1].tid IN
           /\ ct' = [r \in Breq |-> IF r \in Find(n) THEN "told" ELSE ct[r]]
           /\ answer' = [r \in Breq |-> IF r \in Find(n) THEN mbrx[1].of ELSE answer[r]]
        /\ mbrx' = SubSeq(mbrx, 4, Len(mbrx))
        /\ inrecv' = (Len(mbrx) > 3)
        /\ UNCHANGED <<bconn, mbtx, stuck, back, atpeer, sentv>>
  /\ UNCHANGED <<tid, tidc, nconns, notes, dead>>

BfcpNext ==
  \/ \E r \in Breq : BfcpRequest(r) \/ BfcpCancel(r) \/ BfcpTimeout(r)
  \/ BfcpEstab \/ BfcpClosed \/ PeerAnswers \/ PeerSends \/ BfcpRecv \/ BfcpRound

BfcpFairness == \A r \in Breq : WF_bfcpVars(BfcpTimeout(r))

BfcpSpec == BfcpInit /\ [][BfcpNext]_bfcpVars

----------------------------------------------------------------------------
(* A request is told of its own answer and of no other message, once; the  *)
(* peer gets the requests of a connection in the order they were made,     *)
(* unless the first ones could not be sent when it was established; and    *)
(* no two open requests have one number.                                   *)
BfcpSound ==
  /\ \A r \in Breq : answer[r] \in {"none", "timeout", r} /\ (answer[r] # "none" => ct[r] = "told")
  /\ \A r, s \in OpenReqs : r # s => tid[r] # tid[s]
  /\ ~stuck /\ bconn = "connecting" => mbtx = sentv
  /\ \A i, j \in DOMAIN atpeer : i < j =>
       \E k, l \in DOMAIN sentv : k < l /\ sentv[k] = atpeer[i] /\ sentv[l] = atpeer[j]
=============================================================================
