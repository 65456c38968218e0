----------------------------- MODULE DnsClient -----------------------------
(***************************************************************************)
(* The DNS client (dns/client.c): queries over UDP, sent again and to the  *)
(* next server by a timer, and queries over TCP connections that several   *)
(* queries share and that take them to the next server when they fail.     *)
(*                                                                         *)
(* A connection is counted: one reference of its own, dropped by           *)
(* tcpconn_close, and one of each query that waits on it.  tcpconn_close   *)
(* walks these queries, and sending one of them again may close another    *)
(* connection inside the walk: stack holds what is under way, the          *)
(* innermost call first.  Handlers of queries start and cancel queries     *)
(* over UDP, which is what this program uses.                              *)
(***************************************************************************)
EXTENDS Naturals, Sequences, FiniteSets, SequencesExt

CONSTANTS
  Query,       \* query objects
  TcpConn,     \* connection objects
  Servers,     \* number of servers (SRVC_MAX)
  NtxMax       \* NTX_MAX

ASSUME DnsAssumption ==
  /\ Servers \in Nat \ {0} /\ NtxMax \in Nat \ {0}
  /\ "nil" \notin Query \cup TcpConn /\ IsFiniteSet(Query)

Nil == "nil"

VARIABLES
  dq,          \* struct dns_query
  dtc,         \* struct tcpconn
  srvc,        \* dnsc->srvc, which queries read through a pointer
  stack,       \* calls of tcpconn_close and send_tcp under way
  twice        \* a handler was called for a query that had ended

dnsVars == <<dq, dtc, srvc, stack, twice>>

NoQuery == [st |-> "none", proto |-> "udp", ntx |-> 0, tmr |-> FALSE, tc |-> Nil]
NoTc == [st |-> "none", srv |-> 0, conn |-> FALSE, connected |-> FALSE,
         ql |-> <<>>, tmr |-> FALSE, refs |-> 0]

DnsInit ==
  /\ dq = [q \in Query |-> NoQuery] /\ dtc = [c \in TcpConn |-> NoTc]
  /\ srvc \in 1 .. Servers /\ stack = <<>> /\ twice = FALSE

Quiet == stack = <<>>
LiveQ(q) == dq[q].st = "live"
Without(ql, q) ==
  LET at == {i \in DOMAIN ql : ql[i] = q}
  IN IF at = {} THEN ql ELSE RemoveAt(ql, CHOOSE i \in at : TRUE)
Successor(ql, q) ==
  LET at == {i \in 2 .. Len(ql) : ql[i - 1] = q}
  IN IF at = {} THEN Nil ELSE ql[CHOOSE i \in at : TRUE]
HeadOf(ql) == IF ql = <<>> THEN Nil ELSE ql[1]

(* mem_deref of a connection, with tcpconn_destructor *)
Dropped(c) == IF c.refs = 1 THEN [NoTc EXCEPT !.st = "freed"]
              ELSE [c EXCEPT !.refs = @ - 1]

(* Mutant: an aborted query keeps its place on the connection. *)
query_abort_Stays(tcs, q) == tcs

(* query_abort: the query leaves its connection. *)
query_abort(tcs, q) ==
  [c \in TcpConn |->
     IF c # dq[q].tc THEN tcs[c]
     ELSE Dropped([tcs[c] EXCEPT !.ql = Without(@, q)])]

(* A query ends: "told" by query_handler, "canceled" by the application,   *)
(* or "failed" when query itself returned an error.                        *)
End(q, how) ==
  /\ dq' = [dq EXCEPT ![q] = [NoQuery EXCEPT !.st = how]]
  /\ twice' = (twice \/ ~LiveQ(q))

(* tcpconn_close, up to its loop *)
CloseFrame(c) == [op |-> "close", tc |-> c, q |-> HeadOf(dtc[c].ql),
                  by |-> "fail", err |-> FALSE]
Dead(c) == [dtc EXCEPT ![c].conn = FALSE]

SendFrame(q, by) == [op |-> "send", tc |-> Nil, q |-> q, by |-> by, err |-> FALSE]

----------------------------------------------------------------------------
(* send_udp: the servers in turn, until one can be sent to *)
SendUdp(q, how) ==
  \/ \E n \in 1 .. srvc :
       /\ dq' = [dq EXCEPT ![q].st = "live", ![q].ntx = @ + n, ![q].tmr = TRUE]
       /\ UNCHANGED twice
  \/ /\ dq' = [dq EXCEPT ![q] = [NoQuery EXCEPT !.st = how]]
     /\ UNCHANGED twice

(* query over UDP (dnsc_query) *)
QueryUdp(q) ==
  /\ dq[q].st = "none" /\ srvc > 0
  /\ SendUdp(q, "failed")
  /\ UNCHANGED <<dtc, srvc, stack>>

(* query over TCP (dnsc_query_srv, dnsc_notify, or a zone transfer) *)
QueryTcp(q) ==
  /\ Quiet /\ dq[q].st = "none" /\ srvc > 0
  /\ dq' = [dq EXCEPT ![q] = [NoQuery EXCEPT !.st = "live", !.proto = "tcp"]]
  /\ stack' = <<SendFrame(q, "query")>>
  /\ UNCHANGED <<dtc, srvc, twice>>

(* The application's mem_deref: query_destructor *)
Cancel(q) ==
  /\ LiveQ(q) /\ (Quiet \/ dq[q].proto = "udp")
  /\ End(q, "canceled") /\ dtc' = query_abort(dtc, q)
  /\ UNCHANGED <<srvc, stack>>

(* Mutant: there is no last transmission. *)
UdpTimer_Forever(q) ==
  /\ Quiet /\ LiveQ(q) /\ dq[q].proto = "udp" /\ dq[q].tmr
  /\ dq' = [dq EXCEPT ![q].ntx = NtxMax] /\ UNCHANGED twice
  /\ UNCHANGED <<dtc, srvc, stack>>

(* udp_timeout_handler *)
UdpTimer(q) ==
  /\ Quiet /\ LiveQ(q) /\ dq[q].proto = "udp" /\ dq[q].tmr
  /\ \/ dq[q].ntx >= NtxMax /\ End(q, "told")
     \/ dq[q].ntx < NtxMax /\ SendUdp(q, "told")
  /\ UNCHANGED <<dtc, srvc, stack>>

(* tcp_timeout_handler *)
TcpTimer(q) ==
  /\ Quiet /\ LiveQ(q) /\ dq[q].proto = "tcp" /\ dq[q].tmr
  /\ End(q, "told") /\ dtc' = query_abort(dtc, q)
  /\ UNCHANGED <<srvc, stack>>

(* reply_recv over UDP: the answer, or an error in it, goes to the user.   *)
(* After the answer of a server that failed UdpTimer follows at once.      *)
ReplyUdp(q) ==
  /\ Quiet /\ LiveQ(q) /\ dq[q].proto = "udp"
  /\ End(q, "told")
  /\ UNCHANGED <<dtc, srvc, stack>>

(* tcp_recv_handler and reply_recv over TCP: the answer goes to the user.  *)
(* A frame that cannot be read, an error in the records (of which the user *)
(* is told), a server that failed, and an answer to a query that is gone   *)
(* each close the connection.                                              *)
ReplyTcp(c, q, bad) ==
  /\ Quiet /\ LiveQ(q) /\ dq[q].tc = c /\ dtc[c].connected
  /\ End(q, "told")
  /\ LET tcs == query_abort(dtc, q)
     IN IF bad THEN /\ stack' = <<[op |-> "close", tc |-> c, by |-> "fail",
                                   q |-> HeadOf(tcs[c].ql), err |-> FALSE]>>
                    /\ dtc' = [tcs EXCEPT ![c].conn = FALSE]
        ELSE dtc' = tcs /\ UNCHANGED stack
  /\ UNCHANGED srvc

(* tcpconn_timeout_handler (connecting, or idle), tcp_close_handler, and   *)
(* the errors of tcp_recv_handler                                          *)
TcFails(c) ==
  /\ Quiet /\ dtc[c].st = "live" /\ dtc[c].conn
  /\ dtc' = Dead(c) /\ stack' = <<CloseFrame(c)>>
  /\ UNCHANGED <<dq, srvc, twice>>

(* tcp_estab_handler: all that wait are sent; with an error, as TcFails *)
TcEstab(c) ==
  /\ Quiet /\ dtc[c].st = "live" /\ dtc[c].conn /\ ~dtc[c].connected
  /\ dtc' = [dtc EXCEPT ![c].connected = TRUE, ![c].tmr = TRUE]
  /\ UNCHANGED <<dq, srvc, stack, twice>>

----------------------------------------------------------------------------
(* send_tcp, one turn of its loop.  The result of a turn that failed stays *)
(* in err until tcpconn_alloc or tcp_send sets it again.                   *)
Top == stack[1]

(* The live connection to a server: tcpconn_cmp_handler *)
ConnTo(srv) == {c \in TcpConn : dtc[c].st = "live" /\ dtc[c].conn /\ dtc[c].srv = srv}

Joins(tcs, c, q) ==
  [tcs EXCEPT ![c].ql = Append(@, q), ![c].refs = @ + 1]

(* tcpconn_alloc *)
Opened(c, srv) ==
  [dtc EXCEPT ![c] = [NoTc EXCEPT !.st = "live", !.srv = srv, !.conn = TRUE,
                                  !.tmr = TRUE, !.refs = 1]]

(* The query waits on a connection: send_tcp returns err. *)
Returns(q, c, tcs, ntx, err) ==
  /\ IF err
     THEN /\ dq' = [dq EXCEPT ![q] = [NoQuery EXCEPT
                      !.st = IF Top.by = "query" THEN "failed" ELSE "told"]]
          /\ dtc' = tcs
     ELSE /\ dq' = [dq EXCEPT ![q].ntx = ntx, ![q].tc = c, ![q].tmr = TRUE]
          /\ dtc' = Joins(tcs, c, q)
  /\ stack' = Tail(stack)
  /\ UNCHANGED twice

SendTcp ==
  /\ ~Quiet /\ Top.op = "send"
  /\ LET q == Top.q
         n == dq[q].ntx + 1
         again == [stack EXCEPT ![1].err = TRUE]
         tried == [dq EXCEPT ![q].ntx = n]
     IN \/ dq[q].ntx >= srvc /\ Returns(q, Nil, dtc, n, TRUE)
        \/ /\ dq[q].ntx < srvc /\ ConnTo(n) = {}
           /\ \/ \E c \in TcpConn : dtc[c].st = "none" /\ Returns(q, c, Opened(c, n), n, FALSE)
              \/ dq' = tried /\ stack' = again /\ UNCHANGED <<dtc, twice>>
        \/ /\ dq[q].ntx < srvc
           /\ \E c \in ConnTo(n) :
                \/ ~dtc[c].connected /\ Returns(q, c, dtc, n, Top.err)
                \/ dtc[c].connected /\ Returns(q, c, dtc, n, FALSE)
                \/ /\ dtc[c].connected
                   /\ dq' = tried /\ dtc' = Dead(c)
                   /\ stack' = <<CloseFrame(c)>> \o again
                   /\ UNCHANGED twice
  /\ UNCHANGED srvc

(* Mutant: the query keeps its reference to the connection that failed. *)
FailQuery_KeepsRef(c, q) ==
  [dtc EXCEPT ![c] = [dtc[c] EXCEPT !.ql = Without(@, q)]]

(* tcpconn_fail_handler: the query leaves the connection. *)
FailQuery(c, q) ==
  [dtc EXCEPT ![c] = Dropped([dtc[c] EXCEPT !.ql = Without(@, q)])]

(* The loop of tcpconn_close, with the next query remembered; then the     *)
(* query is sent to the next server, or ends.                              *)
CloseStep ==
  /\ ~Quiet /\ Top.op = "close" /\ Top.q # Nil
  /\ LET q == Top.q
         c == Top.tc
         on == [stack EXCEPT ![1].q = Successor(dtc[c].ql, q)]
     IN /\ dtc' = FailQuery(c, q)
        /\ IF dq[q].ntx >= srvc THEN End(q, "told") /\ stack' = on
           ELSE /\ dq' = [dq EXCEPT ![q].tc = Nil]
                /\ stack' = <<SendFrame(q, "fail")>> \o on
                /\ UNCHANGED twice
  /\ UNCHANGED srvc

(* The end of tcpconn_close *)
CloseEnd ==
  /\ ~Quiet /\ Top.op = "close" /\ Top.q = Nil
  /\ dtc' = [dtc EXCEPT ![Top.tc] = Dropped(@)]
  /\ stack' = Tail(stack)
  /\ UNCHANGED <<dq, srvc, twice>>

(* dnsc_srv_set, while queries are under way *)
SrvSet(n) ==
  /\ Quiet /\ srvc' = n
  /\ UNCHANGED <<dq, dtc, stack, twice>>

(* dnsc_destructor: every query is told and every connection freed. *)
DnsClose ==
  /\ Quiet /\ \E q \in Query : LiveQ(q)
  /\ dq' = [q \in Query |-> IF LiveQ(q) THEN [NoQuery EXCEPT !.st = "told"]
                            ELSE [NoQuery EXCEPT !.st = "failed"]]
  /\ dtc' = [c \in TcpConn |-> [NoTc EXCEPT !.st = "freed"]]
  /\ UNCHANGED <<srvc, stack, twice>>

DnsNext ==
  \/ \E q \in Query : \/ QueryUdp(q) \/ QueryTcp(q) \/ Cancel(q) \/ UdpTimer(q)
                      \/ TcpTimer(q) \/ ReplyUdp(q)
                      \/ \E c \in TcpConn, bad \in BOOLEAN : ReplyTcp(c, q, bad)
  \/ \E c \in TcpConn : TcFails(c) \/ TcEstab(c)
  \/ SendTcp \/ CloseStep \/ CloseEnd \/ DnsClose
  \/ \E n \in 0 .. Servers : SrvSet(n)

DnsSpec == DnsInit /\ [][DnsNext]_dnsVars

(* The timers of the event loop run out, and calls return. *)
DnsFairness ==
  /\ WF_dnsVars(SendTcp) /\ WF_dnsVars(CloseStep) /\ WF_dnsVars(CloseEnd)
  /\ \A q \in Query : WF_dnsVars(UdpTimer(q)) /\ WF_dnsVars(TcpTimer(q))

----------------------------------------------------------------------------
DnsTypeOK ==
  /\ dq \in [Query -> [st : {"none", "live", "told", "canceled", "failed"},
                       proto : {"udp", "tcp"}, ntx : Nat, tmr : BOOLEAN,
                       tc : TcpConn \cup {Nil}]]
  /\ dtc \in [TcpConn -> [st : {"none", "live", "freed"}, srv : 0 .. Servers,
                          conn : BOOLEAN, connected : BOOLEAN, ql : Seq(Query),
                          tmr : BOOLEAN, refs : Nat]]
  /\ srvc \in 0 .. Servers /\ twice \in BOOLEAN
  /\ stack \in Seq([op : {"close", "send"}, tc : TcpConn \cup {Nil},
                    q : Query \cup {Nil}, by : {"query", "fail"}, err : BOOLEAN])

Waiting(c) == {q \in Query : dq[q].tc = c}

(* The handler of a query is called once at most; a connection has exactly *)
(* the references of its queries and its own, so none of the calls under   *)
(* way, nested as they may be, works on a freed connection or a query that *)
(* has ended.                                                              *)
DnsSafe ==
  /\ DnsTypeOK
  /\ ~twice
  /\ \A c \in TcpConn :
       /\ dtc[c].st = "live" => dtc[c].refs = 1 + Cardinality(Waiting(c))
       /\ dtc[c].st # "live" => Waiting(c) = {}
       /\ {dtc[c].ql[i] : i \in 1 .. Len(dtc[c].ql)} = Waiting(c)
       /\ Len(dtc[c].ql) = Cardinality(Waiting(c))
  /\ \A i \in 1 .. Len(stack) :
       /\ stack[i].op = "close" => dtc[stack[i].tc].st = "live" /\ ~dtc[stack[i].tc].conn
       /\ stack[i].op = "send" => LiveQ(stack[i].q) /\ dq[stack[i].q].tc = Nil
       /\ stack[i].op = "close" /\ stack[i].q # Nil => dq[stack[i].q].tc = stack[i].tc

(* A query that has not ended waits for something that will happen: its    *)
(* own timer runs, and over TCP it is on a connection that is not dead,    *)
(* unless a call that closes it is under way.                              *)
QueryWatched ==
  \A q \in Query : LiveQ(q) /\ (\A i \in 1 .. Len(stack) : stack[i].q # q) =>
    /\ dq[q].tmr
    /\ dq[q].proto = "tcp" =>
         \E c \in TcpConn : /\ dq[q].tc = c /\ dtc[c].st = "live" /\ dtc[c].tmr
                            /\ Quiet => dtc[c].conn

(* Every query ends: with an answer, an error or a timeout, or cancelled. *)
QueryEnds == \A q \in Query : []<>(~LiveQ(q))

(* The DNS client uses no query that was freed or answered, and whatever   *)
(* it waits for has a timer (dns/client.c).                                *)
DnsSound == DnsSafe /\ QueryWatched
=============================================================================
