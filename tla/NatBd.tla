-------------------------------- MODULE NatBd --------------------------------
(***************************************************************************)
(* NAT behaviour discovery: the tests of re/src/natbd and the baresip      *)
(* module natbd that runs them again and again.  A test asks a STUN server *)
(* a few questions, one after the other, and tells its result to the       *)
(* module, which frees it from within that call.  The NAT and the server   *)
(* are the environment: kind is how the NAT maps and filters, Lifetime how *)
(* long it keeps a binding.                                                *)
(***************************************************************************)
EXTENDS Integers

CONSTANTS
  Lifetime,    \* seconds that the NAT keeps a binding
  Interval,    \* the first guess (dns_handler gives 3)
  MaxCur,      \* bound on the guess
  Watch        \* sets of tests that are followed together

BdTests == {"nh", "nm", "nf", "ga", "nl"}
Test == BdTests \ {"nl"}

ASSUME LifetimeAssumption ==
  Lifetime \in Nat /\ Interval \in Nat \ {0} /\ \A w \in Watch : w \subseteq BdTests

Kind == {"none", "indep", "addr", "addrport"}

VARIABLES
  bdProto,     \* natbd->proto: "udp" or "tcp"
  kind,        \* how the NAT behaves
  test,        \* the four tests that are repeated
  natbd,       \* struct natbd: its timer, its results, terminated
  bdLost,      \* history: an answer that the NAT lets pass was lost or an error
  nl,          \* struct nat_lifetime
  watch,       \* the tests that are followed: they do not depend on each other
  honest       \* history: the server answers and knows RESPONSE-PORT

bdVars == <<bdProto, kind, test, natbd, bdLost, nl, honest, watch>>

NoTest == [st |-> "none", phase |-> 0, req |-> FALSE, conn |-> FALSE,
           map |-> [i \in 1 .. 3 |-> "nil"]]

NatBdInit ==
  /\ bdProto \in {"udp", "tcp"} /\ kind \in Kind
  /\ test = [t \in Test |-> NoTest]
  /\ natbd = [tmr |-> TRUE, inited |-> FALSE, terminated |-> FALSE,
              res |-> [t \in Test |-> "unknown"], leak |-> FALSE, uaf |-> FALSE]
  /\ bdLost = FALSE
  /\ nl = [st |-> "none", min |-> 1, cur |-> Interval, max |-> 0,
           ctx |-> FALSE, cty |-> FALSE, tmr |-> FALSE]
  /\ honest = TRUE /\ watch \in Watch

(* mapping_send, mapped_send and the stun_request of the other tests: over *)
(* TCP the mapping and hairpinning tests connect first.                    *)
Ask(r, t) ==
  IF bdProto = "tcp" /\ t \in {"nm", "nh"} THEN [r EXCEPT !.conn = TRUE]
  ELSE [r EXCEPT !.req = TRUE]

(* nat_*_handler of the module: a result is kept, an error leaves the last *)
(* one (hairpinning becomes unknown), and the test is freed.               *)
Kept(t, err, type) ==
  IF ~err THEN type ELSE IF t = "nh" THEN "unknown" ELSE natbd.res[t]

(* The release runs the destructor of the STUN instance, which aborts a    *)
(* transaction that is in flight: its handler is called in the middle of   *)
(* the release and releases the test a second time, below zero, so that    *)
(* it is never freed.                                                      *)
Tell(t, err, type) ==
  /\ test' = [test EXCEPT ![t] = NoTest]
  /\ natbd' = [natbd EXCEPT !.leak = @ \/ test[t].req,
       !.res[t] = IF t = "nh" /\ test[t].req THEN "no" ELSE Kept(t, err, type)]

(* As Tell, when the transaction has just ended. *)
TellLast(t, err, type, uaf) ==
  /\ test' = [test EXCEPT ![t] = NoTest]
  /\ natbd' = [natbd EXCEPT !.res[t] = Kept(t, err, type), !.uaf = @ \/ uaf]

----------------------------------------------------------------------------
(* nat_*_start by natbd_start: a test that is still there is left alone,   *)
(* one whose first question cannot be sent stays without a question.       *)
TestStarts(fails) ==
  [t \in Test |->
     IF test[t].st # "none" \/ t \notin watch \/ (t = "nf" /\ bdProto = "tcp") THEN test[t]
     ELSE LET r == [NoTest EXCEPT !.st = "run", !.phase = 1]
          IN IF t \in fails THEN r ELSE Ask(r, t)]

(* dns_handler: the first start, with the lifetime test *)
DnsHandler(err, fails) ==
  /\ ~natbd.terminated /\ natbd.tmr /\ ~natbd.inited
  /\ IF err
     THEN /\ natbd' = [natbd EXCEPT !.tmr = FALSE, !.inited = TRUE]
          /\ UNCHANGED <<test, nl>>
     ELSE /\ natbd' = [natbd EXCEPT !.inited = TRUE]
          /\ test' = TestStarts(fails)
          /\ nl' = IF bdProto = "udp" /\ "nl" \in watch
                   THEN [nl EXCEPT !.st = "run", !.ctx = TRUE] ELSE nl
  /\ UNCHANGED <<watch, bdProto, kind, bdLost, honest>>

(* timeout of the module's timer, which starts it again *)
BdTimeout(fails) ==
  /\ ~natbd.terminated /\ natbd.tmr /\ natbd.inited
  /\ test' = TestStarts(fails)
  /\ UNCHANGED <<watch, bdProto, kind, natbd, bdLost, nl, honest>>

(* tcp_estab_handler *)
TcpEstab(t) ==
  /\ test[t].conn /\ ~test[t].req
  /\ test' = [test EXCEPT ![t].req = TRUE]
  /\ UNCHANGED <<watch, bdProto, kind, natbd, bdLost, nl, honest>>

(* tcp_close_handler: an orderly close is told to nobody. *)
BdTcpClose(t, err) ==
  /\ test[t].conn
  /\ IF err THEN Tell(t, TRUE, "unknown")
     ELSE /\ test' = [test EXCEPT ![t].conn = FALSE]
          /\ UNCHANGED natbd
  /\ UNCHANGED <<watch, bdProto, kind, bdLost, nl, honest>>

----------------------------------------------------------------------------
(* What the server at <<address, port>> sees of this client *)
MappedAt(a, p) ==
  CASE kind = "none" -> "laddr" [] kind = "indep" -> "m"
    [] kind = "addr" -> IF a = 1 THEN "m" ELSE "m2"
    [] OTHER -> IF a = 1 THEN "m" ELSE IF p = 1 THEN "m2" ELSE "m3"

(* The server is asked at its address, then at the other one with the old  *)
(* port, then at the other one with the other port.                        *)
ServerAt(phase) == IF phase = 1 THEN <<1, 1>> ELSE IF phase = 2 THEN <<2, 1>>
                   ELSE <<2, 2>>

(* Mutant: the third mapping is compared with the first one. *)
MappingType_First(map, phase) ==
  IF phase = 1 THEN IF map[1] = "laddr" THEN "indep" ELSE "more"
  ELSE IF phase = 2 THEN IF map[1] = map[2] THEN "indep" ELSE "more"
  ELSE IF map[1] = map[3] THEN "addr" ELSE "addrport"

(* stun_response_handler of mapping.c: what the mappings so far tell *)
MappingType(map, phase) ==
  IF phase = 1 THEN IF map[1] = "laddr" THEN "indep" ELSE "more"
  ELSE IF phase = 2 THEN IF map[1] = map[2] THEN "indep" ELSE "more"
  ELSE IF map[2] = map[3] THEN "addr" ELSE "addrport"

(* After the last phase the counter is advanced, in a test that is freed.  *)
MappingResponse(ok) ==
  /\ test["nm"].req
  /\ LET r == test["nm"]
         srv == ServerAt(r.phase)
         map == [r.map EXCEPT ![r.phase] = MappedAt(srv[1], srv[2])]
         type == MappingType(map, r.phase)
     IN IF ~ok THEN TellLast("nm", TRUE, "unknown", FALSE)
        ELSE IF type # "more" THEN TellLast("nm", FALSE, type, r.phase = 3)
        ELSE /\ test' = [test EXCEPT !["nm"] =
                  Ask([r EXCEPT !.phase = @ + 1, !.map = map, !.req = FALSE,
                                !.conn = FALSE], "nm")]
             /\ UNCHANGED natbd
  /\ UNCHANGED <<watch, bdProto, kind, bdLost, nl, honest>>

(* The NAT passes the answer: of the server itself, of its other address   *)
(* and port, of its other port.                                            *)
Passes(phase) ==
  phase = 1 \/ kind \in {"none", "indep"} \/ (phase = 3 /\ kind = "addr")

(* Mutant: no answer in test II is the end. *)
FilterType_Two(phase, answer) ==
  IF phase = 2 THEN IF answer THEN "indep" ELSE "addrport"
  ELSE IF phase = 3 THEN IF answer THEN "addr" ELSE "addrport"
  ELSE IF answer THEN "more" ELSE "unknown"

(* stun_response_handler of filtering.c *)
FilterType(phase, answer) ==
  IF phase = 2 THEN IF answer THEN "indep" ELSE "more"
  ELSE IF phase = 3 THEN IF answer THEN "addr" ELSE "addrport"
  ELSE IF answer THEN "more" ELSE "unknown"

(* answer is "ok", "timeout", "refused" for an error response that has     *)
(* OTHER-ADDRESS, or "bad" for a response that has not.  An error response *)
(* in the first test is told as an unknown NAT, and in the last one as if  *)
(* none had come.                                                          *)
FilteringResponse(answer) ==
  /\ test["nf"].req
  /\ LET r == test["nf"]
         type == FilterType(r.phase, answer = "ok")
     IN /\ answer # "timeout" => Passes(r.phase)
        /\ IF \/ answer = "bad"
              \/ answer = "refused" /\ type = "more"
              \/ answer = "timeout" /\ type = "unknown"
           THEN TellLast("nf", TRUE, "unknown", FALSE)
           ELSE IF type # "more" THEN TellLast("nf", FALSE, type, FALSE)
           ELSE /\ test' = [test EXCEPT !["nf"].phase = @ + 1]
                /\ UNCHANGED natbd
        /\ bdLost' = (bdLost \/ (answer \in {"timeout", "refused"} /\ Passes(r.phase)))
  /\ UNCHANGED <<watch, bdProto, kind, nl, honest>>

(* stun_response_handler and stun_response_handler2 of hairpinning.c: the  *)
(* mapped address, then the request to it.  A failure of the second is the *)
(* answer "no".                                                            *)
HairpinResponse(ok) ==
  /\ test["nh"].req
  /\ IF test["nh"].phase = 1 /\ ok
     THEN /\ test' = [test EXCEPT !["nh"].phase = 2]
          /\ UNCHANGED natbd
     ELSE TellLast("nh", test["nh"].phase = 1, IF ok THEN "yes" ELSE "no", FALSE)
  /\ UNCHANGED <<watch, bdProto, kind, bdLost, nl, honest>>

(* stun_response_handler of genalg.c: the two forms of the mapped address  *)
(* agree or not.                                                           *)
GenalgResponse(ok, same) ==
  /\ test["ga"].req
  /\ TellLast("ga", ~ok, IF same THEN "no" ELSE "yes", FALSE)
  /\ UNCHANGED <<watch, bdProto, kind, bdLost, nl, honest>>

(* destructor: terminated keeps the handlers of aborted questions away. *)
NatbdClose ==
  /\ ~natbd.terminated
  /\ natbd' = [natbd EXCEPT !.terminated = TRUE, !.tmr = FALSE]
  /\ test' = [t \in Test |-> NoTest]
  /\ nl' = [nl EXCEPT !.st = "none", !.ctx = FALSE, !.cty = FALSE, !.tmr = FALSE]
  /\ UNCHANGED <<watch, bdProto, kind, bdLost, honest>>

----------------------------------------------------------------------------
(* start_test of lifetime.c: a probe that is in flight is not stopped. *)
StartTest(n) == [n EXCEPT !.tmr = FALSE, !.ctx = TRUE]

(* Mutant: a binding that lived does not move the lower end. *)
BindingOk_Stays(n) ==
  StartTest([n EXCEPT !.cur = IF n.max > 0 THEN (n.cur + n.max) \div 2 ELSE 2 * @])

(* binding_ok *)
BindingOk(n) ==
  LET min == IF n.cur > 1 THEN n.cur ELSE 1
  IN StartTest([n EXCEPT !.min = min,
       !.cur = IF n.max > 0 THEN (min + n.max) \div 2 ELSE 2 * @])

(* binding_expired *)
BindingExpired(n) ==
  StartTest([n EXCEPT !.max = n.cur, !.cur = (n.min + n.cur) \div 2])

(* stun_response_handler_x: any failure counts as an expired binding. *)
ResponseX(ok) ==
  /\ nl.st = "run" /\ nl.ctx
  /\ nl' = IF ok THEN [nl EXCEPT !.ctx = FALSE, !.tmr = TRUE]
           ELSE BindingExpired(nl)
  /\ honest' = (honest /\ ok)
  /\ UNCHANGED <<watch, bdProto, kind, test, natbd, bdLost>>

(* timeout of lifetime.c: after cur seconds the probe is sent. *)
LifetimeTimeout(err) ==
  /\ nl.tmr
  /\ nl' = IF err THEN StartTest([nl EXCEPT !.cty = FALSE])
           ELSE [nl EXCEPT !.tmr = FALSE, !.cty = TRUE]
  /\ UNCHANGED <<watch, bdProto, kind, test, natbd, bdLost, honest>>

(* stun_response_handler_y: the answer to the first port came through, the *)
(* binding is gone, or the server refused, after which nothing is started. *)
ResponseY(how) ==
  /\ nl.cty
  /\ LET n == [nl EXCEPT !.cty = FALSE]
     IN nl' = CASE how = "ok" -> BindingOk(n) [] how = "timeout" -> BindingExpired(n)
                [] OTHER -> n
  /\ how = "ok" => nl.cur <= Lifetime /\ 2 * nl.cur <= MaxCur
  /\ honest' = (honest /\ (how = "timeout" => nl.cur > Lifetime))
  /\ UNCHANGED <<watch, bdProto, kind, test, natbd, bdLost>>

(* udp_recv_handler_y: a server that does not know RESPONSE-PORT answers   *)
(* to the second port.                                                     *)
RecvY ==
  /\ nl.cty
  /\ nl' = BindingExpired(nl) /\ honest' = FALSE
  /\ UNCHANGED <<watch, bdProto, kind, test, natbd, bdLost>>

NatBdNext ==
  \/ \E err \in BOOLEAN, f \in {{}, {"nm"}, {"nf", "nh"}} : DnsHandler(err, f)
  \/ \E f \in {{}, {"nm"}, {"nf", "nh"}} : BdTimeout(f)
  \/ \E t \in Test : TcpEstab(t) \/ \E err \in BOOLEAN : BdTcpClose(t, err)
  \/ \E ok \in BOOLEAN :
       MappingResponse(ok) \/ HairpinResponse(ok) \/ ResponseX(ok)
  \/ \E a \in {"ok", "timeout", "refused", "bad"} : FilteringResponse(a)
  \/ \E a \in {"ok", "timeout", "bad"} : ResponseY(a)
  \/ \E ok, same \in BOOLEAN : GenalgResponse(ok, same)
  \/ \E err \in BOOLEAN : LifetimeTimeout(err)
  \/ RecvY \/ NatbdClose

NatBdSpec == NatBdInit /\ [][NatBdNext]_bdVars

----------------------------------------------------------------------------
NatBdTypeOK ==
  /\ bdProto \in {"udp", "tcp"} /\ kind \in Kind
  /\ test \in [Test -> [st : {"none", "run"}, phase : 0 .. 3, req : BOOLEAN,
       conn : BOOLEAN, map : [1 .. 3 -> {"nil", "laddr", "m", "m2", "m3"}]]]
  /\ natbd \in [tmr : BOOLEAN, inited : BOOLEAN, terminated : BOOLEAN,
       leak : BOOLEAN, uaf : BOOLEAN, res : [Test -> {"unknown", "yes",
         "no", "indep", "addr", "addrport"}]]
  /\ watch \in Watch /\ bdLost \in BOOLEAN /\ honest \in BOOLEAN
  /\ nl \in [st : {"none", "run"}, min : Nat, cur : Nat, max : Nat,
             ctx : BOOLEAN, cty : BOOLEAN, tmr : BOOLEAN]

(* The discovery tells what the NAT does: its mapping and, when no answer  *)
(* was lost or an error, its filtering; and a steady binding lifetime of   *)
(* at least a second, asked of an honest server, lies between min and max. *)
DiscoveryTrue ==
  /\ NatBdTypeOK
  /\ LET true == IF kind = "none" THEN "indep" ELSE kind
     IN natbd.res["nm"] \in {"unknown", true}
        /\ ~bdLost => natbd.res["nf"] \in {"unknown", true}
  /\ nl.min <= nl.cur /\ (nl.max > 0 => nl.cur <= nl.max)
  /\ honest /\ Lifetime >= 1 =>
       nl.min <= Lifetime /\ (nl.max > 0 => Lifetime < nl.max)

(* A test can be released when it tells its result, so the module never    *)
(* touches a test it has given back (natbd.c nat_mapping_handler).         *)
TestNotTouched == ~natbd.uaf
=============================================================================
