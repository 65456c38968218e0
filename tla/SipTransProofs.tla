--------------------------- MODULE SipTransProofs ---------------------------
(***************************************************************************)
(* Proofs about SipTrans: the two ends of a SIP request keep their safety  *)
(* properties for every set of methods and answers, and together implement *)
(* the exchange that SipExchange promises their users.                     *)
(***************************************************************************)
EXTENDS SipTrans, TLAPS

----------------------------------------------------------------------------
(* The inductive invariant, in parts *)

(* A client transaction that waits for its final response *)
Waiting == {"CALLING", "TRYING", "PROCEEDING"}

(* Before the request nothing has happened; after it the transaction waits *)
(* exactly as long as the user has no result.                              *)
AskedFirst ==
  /\ ~user.asked =>
       /\ net = {} /\ user.result = "none" /\ ~user.canceled /\ ~user.provrecv
       /\ \A k \in Trans : ct[k].state = "none"
       /\ \A b \in Branch : st[b].state = "none" /\ tu[b].seen = 0
  /\ user.asked => (ct["req"].state \in Waiting <=> user.result = "none")

(* The client transaction of the request *)
ClientReq ==
  /\ ct["req"].state = "CALLING" => invite
  /\ ct["req"].state = "TRYING" => ~invite
  /\ ct["req"].state \in {"CALLING", "TRYING"} => ct["req"].tmr /\ ~user.provrecv
  /\ ct["req"].state = "PROCEEDING" =>
       user.provrecv /\ (ct["req"].tmr \/ (invite /\ ~user.canceled))
  /\ ct["req"].state = "COMPLETED" => ct["req"].tmr

(* The client transaction of the CANCEL *)
ClientCancel ==
  /\ ct["CANCEL"].state \in {"none", "TRYING", "COMPLETED"}
  /\ ct["CANCEL"].state # "none" => ct["CANCEL"].tmr
  /\ ct["CANCEL"].state # "none" \/ Request("req", "CANCEL") \in net => user.canceled

(* A released transaction has no timer and no message in a queue, and only *)
(* datagrams are sent again.                                               *)
ClientIdle ==
  \A k \in Trans :
    /\ ct[k].state = "none" => ~ct[k].tmr /\ ~ct[k].tmre /\ ~ct[k].qent
    /\ ct[k].qent => reliable
    /\ ct[k].tmre => ~reliable

(* A server transaction: its user has seen the request, and the response   *)
(* that it repeats is its user's answer.                                   *)
ServerTrans ==
  \A b \in Branch :
    /\ st[b].state # "none" => tu[b].seen = 1
    /\ Unanswered(b) => tu[b].answer = "none"
    /\ st[b].state = "PROCEEDING" => st[b].mb = "1xx"
    /\ st[b].state \in {"ACCEPTED", "COMPLETED"} =>
         st[b].mb = tu[b].answer /\ tu[b].answer # "none"
    /\ st[b].state \in {"ACCEPTED", "COMPLETED", "CONFIRMED"} => st[b].tmr
    /\ st[b].tmrg => st[b].state = "COMPLETED"
    /\ tu[b].seen \in {0, 1}
    /\ tu[b].seen = 0 => tu[b].answer = "none"

(* Over a connection a request that is still to come was not seen. *)
SeenReliable ==
  reliable =>
    /\ ct["req"].qent => Request("req", met) \notin net
    /\ ct["req"].qent \/ Request("req", met) \in net => tu["req"].seen = 0
    /\ Request("fork", met) \in net => forked
    /\ ~forked \/ Request("fork", met) \in net => tu["fork"].seen = 0

(* Over UDP one branch is seen, and once its transaction is gone no copy   *)
(* of the request is under way or will be.                                 *)
SeenUnreliable ==
  ~reliable =>
    /\ tu["req"].seen = 0 \/ tu["fork"].seen = 0
    /\ \A b \in Branch : tu[b].seen = 1 /\ st[b].state = "none" => Quiet

(* A response under way is provisional, or a refusal of the stack, or the  *)
(* answer of the server's user.                                            *)
ResponsesTrue ==
  \A c \in Code : Response(met, c) \in net =>
    c \in {"1xx", "482"} \/ (c = tu["req"].answer /\ c # "none")

(* The result is an error, a refusal or the answer. *)
ResultTrue ==
  user.result \in {"none", "err", "482"} \/ user.result = tu["req"].answer

(* The user cancels before the server's user hears of it. *)
CanceledFirst == tu["req"].answer = "487" => user.canceled

(* The invariant that every action preserves *)
TransInv ==
  /\ TypeOK
  /\ AskedFirst /\ ClientReq /\ ClientCancel /\ ClientIdle
  /\ ServerTrans /\ SeenReliable /\ SeenUnreliable
  /\ ResponsesTrue /\ ResultTrue /\ CanceledFirst

(* Messages are equal only when their parts are. *)
LEMMA Messages ==
  /\ \A b1, b2, m1, m2 : Request(b1, m1) = Request(b2, m2) <=> b1 = b2 /\ m1 = m2
  /\ \A m1, m2, c1, c2 : Response(m1, c1) = Response(m2, c2) <=> m1 = m2 /\ c1 = c2
  /\ \A b, m1, m2, c : Request(b, m1) # Response(m2, c)
BY DEF Request, Response

(* What is put on the network is a message of its type. *)
LEMMA Sent ==
  /\ \A b \in Branch, m \in Method : Request(b, m) \in Message
  /\ Request("req", "CANCEL") \in Message /\ Request("req", "ACK") \in Message
  /\ \A m \in Method, c \in Final \cup {"1xx", "487", "482"} : Response(m, c) \in Message
  /\ \A c \in {"200", "481"} : Response("CANCEL", c) \in Message
<1>1. \A b \in Branch, m \in Method : Request(b, m) \in Message
  BY DEF Message
<1>2. Request("req", "CANCEL") \in Message /\ Request("req", "ACK") \in Message
  BY DEF Message
<1>3. \A m \in Method, c \in Final \cup {"1xx", "487", "482"} : Response(m, c) \in Message
  BY SipTransAssumption DEF Message, Code
<1>4. \A c \in {"200", "481"} : Response("CANCEL", c) \in Message
  BY DEF Message
<1> QED
  BY <1>1, <1>2, <1>3, <1>4

(* The records of the client's user *)
User == [asked : BOOLEAN, canceled : BOOLEAN, provrecv : BOOLEAN,
         calls : Nat, result : Final \cup {"487", "482", "none", "err"}]

(* An update of a record leaves it well formed. *)
LEMMA UserTypes ==
  ASSUME NEW u \in User, NEW r \in Final \cup {"487", "482", "none", "err"}
  PROVE  /\ [u EXCEPT !.asked = TRUE] \in User
         /\ [u EXCEPT !.asked = TRUE, !.result = r] \in User
         /\ [u EXCEPT !.canceled = TRUE] \in User
         /\ [u EXCEPT !.provrecv = TRUE] \in User
         /\ Told(u, r) \in User
<1>1. [u EXCEPT !.asked = TRUE] \in User /\ [u EXCEPT !.asked = TRUE, !.result = r] \in User
  BY DEF User
<1>2. [u EXCEPT !.canceled = TRUE] \in User /\ [u EXCEPT !.provrecv = TRUE] \in User
  BY DEF User
<1>3. [u EXCEPT !.result = r] \in User /\ u.calls + 1 \in Nat
  BY DEF User
<1>4. Told(u, r) \in User
  BY <1>3 DEF User, Told
<1> QED
  BY <1>1, <1>2, <1>4

(* Every update of a client transaction leaves it well formed. *)
LEMMA ClientTypes ==
  ASSUME NEW c \in CTrans, NEW q \in BOOLEAN, NEW i \in BOOLEAN, reliable \in BOOLEAN
  PROVE  /\ sip_ctrans_request(i, q) \in CTrans
         /\ [c EXCEPT !.tmr = TRUE] \in CTrans
         /\ [c EXCEPT !.qent = FALSE] \in CTrans
         /\ [c EXCEPT !.state = "PROCEEDING", !.tmr = @ /\ q, !.tmre = @ /\ i] \in CTrans
         /\ NoCTrans \in CTrans
<1>1. sip_ctrans_request(i, q) \in CTrans
  BY DEF CTrans, sip_ctrans_request
<1>2. [c EXCEPT !.tmr = TRUE] \in CTrans /\ [c EXCEPT !.qent = FALSE] \in CTrans
  BY DEF CTrans
<1>3. [c EXCEPT !.state = "PROCEEDING", !.tmr = @ /\ q, !.tmre = @ /\ i] \in CTrans
  <2>1. (c.tmr /\ q) \in BOOLEAN /\ (c.tmre /\ i) \in BOOLEAN
    BY DEF CTrans
  <2> QED
    BY <2>1 DEF CTrans
<1>4. NoCTrans \in CTrans
  BY DEF CTrans, NoCTrans
<1> QED
  BY <1>1, <1>2, <1>3, <1>4

(* Every update of a server transaction leaves it well formed. *)
LEMMA ServerTypes ==
  ASSUME NEW s \in STrans, NEW c \in Code, reliable \in BOOLEAN
  PROVE  /\ sip_strans_reply(s, c) \in STrans
         /\ [s EXCEPT !.state = "CONFIRMED", !.tmrg = FALSE, !.tmr = TRUE] \in STrans
         /\ NoSTrans \in STrans
<1>1. invite \in BOOLEAN
  BY DEF invite
<1>2. sip_strans_reply(s, c) \in STrans
  BY <1>1 DEF STrans, sip_strans_reply, NoSTrans
<1>3. [s EXCEPT !.state = "CONFIRMED", !.tmrg = FALSE, !.tmr = TRUE] \in STrans
  BY DEF STrans
<1>4. NoSTrans \in STrans
  BY DEF STrans, NoSTrans
<1> QED
  BY <1>2, <1>3, <1>4

(* A CANCEL that was just sent, or waits for its connection *)
CancelBegun(t) ==
  t.state = "TRYING" /\ t.tmr /\ (t.qent => reliable) /\ (t.tmre => ~reliable)

(* What sip_ctrans_cancel does to the transactions c and the network n *)
LEMMA CancelStep ==
  ASSUME NEW c \in [Trans -> CTrans], NEW n, reliable \in BOOLEAN, sip_ctrans_cancel(c, n)
  PROVE  /\ ct' \in [Trans -> CTrans]
         /\ ct'["req"].state = c["req"].state /\ ct'["req"].qent = c["req"].qent
         /\ ct'["req"].tmre = c["req"].tmre
         /\ c["req"].tmr \/ (invite /\ c["req"].state = "PROCEEDING") => ct'["req"].tmr
         /\ ct'["CANCEL"] = c["CANCEL"] \/ CancelBegun(ct'["CANCEL"])
         /\ net' = n \/ net' = n \cup {Request("req", "CANCEL")}
<1>1. CASE ct' = c /\ net' = n /\ ~(invite /\ c["req"].state = "PROCEEDING")
  BY <1>1
<1>2. CASE \E q \in {FALSE, reliable}, ok \in BOOLEAN :
             /\ ct' = CancelTrans(c, q, ok)
             /\ net' = n \cup (IF ok /\ ~q THEN {Request("req", "CANCEL")} ELSE {})
  <2>1. PICK q \in {FALSE, reliable}, ok \in BOOLEAN :
             /\ ct' = CancelTrans(c, q, ok)
             /\ net' = n \cup (IF ok /\ ~q THEN {Request("req", "CANCEL")} ELSE {})
    BY <1>2
  <2>2. c["req"] \in CTrans /\ c["CANCEL"] \in CTrans /\ q \in BOOLEAN
    BY DEF Trans
  <2>3. [c["req"] EXCEPT !.tmr = TRUE] \in CTrans /\ sip_ctrans_request(FALSE, q) \in CTrans
    BY <2>2, ClientTypes
  <2>4. /\ ct'["req"] = [c["req"] EXCEPT !.tmr = TRUE]
        /\ ct'["CANCEL"] = IF ok THEN sip_ctrans_request(FALSE, q) ELSE c["CANCEL"]
    BY <2>1 DEF CancelTrans, Trans
  <2>5. ct' \in [Trans -> CTrans]
    BY <2>1, <2>2, <2>3 DEF CancelTrans
  <2>6. /\ ct'["req"].state = c["req"].state /\ ct'["req"].qent = c["req"].qent
        /\ ct'["req"].tmre = c["req"].tmre /\ ct'["req"].tmr
    BY <2>2, <2>4 DEF CTrans
  <2>7. ct'["CANCEL"] = c["CANCEL"] \/ CancelBegun(ct'["CANCEL"])
    <3> DEFINE r == sip_ctrans_request(FALSE, q)
    <3>1. r.state = "TRYING" /\ r.tmr /\ r.qent = q /\ r.tmre = ~reliable
      BY DEF sip_ctrans_request
    <3>2. q => reliable
      OBVIOUS
    <3>3. CancelBegun(r)
      BY <3>1, <3>2 DEF CancelBegun
    <3> QED
      BY <2>4, <3>3
  <2> QED
    BY <2>1, <2>5, <2>6, <2>7
<1> QED
  BY <1>1, <1>2 DEF sip_ctrans_cancel

(* The transaction k tells its user an error and is released. *)
Terminate(k) ==
  /\ ct[k].state # "none"
  /\ user' = terminate(user, k, "err")
  /\ ct' = [ct EXCEPT ![k] = NoCTrans]
  /\ UNCHANGED <<met, reliable, forked, net, st, tu>>

(* The datagram of transaction k is sent again. *)
Resend(k) ==
  /\ ct[k].tmre
  /\ net' = net \cup {Request("req", CMethod(k))}
  /\ UNCHANGED <<met, reliable, forked, ct, st, user, tu>>

(* sip_ctrans_request: the user asks. *)
LEMMA AskInv ==
  ASSUME TransInv, Ask
  PROVE  TransInv'
<1>1. (met \in Method /\ reliable \in BOOLEAN /\ forked \in BOOLEAN)'
  BY DEF TransInv, TypeOK, Ask
<1>2. (net \subseteq Message)'
  BY Sent DEF TransInv, TypeOK, Branch, Ask, sip_ctrans_request, invite
<1>3. (ct \in [Trans -> CTrans])'
  <2>1. reliable \in BOOLEAN /\ invite \in BOOLEAN /\ ct["req"] \in CTrans /\ ct \in [Trans -> CTrans]
    BY DEF TransInv, TypeOK, invite, Trans
  <2>2. CASE ct' = ct
    BY <2>1, <2>2
  <2>3. CASE \E q \in BOOLEAN : ct' = [ct EXCEPT !["req"] = sip_ctrans_request(invite, q)]
    <3>1. PICK q \in BOOLEAN : ct' = [ct EXCEPT !["req"] = sip_ctrans_request(invite, q)]
      BY <2>3
    <3>2. sip_ctrans_request(invite, q) \in CTrans
      BY <2>1, ClientTypes
    <3> QED
      BY <2>1, <3>1, <3>2
  <2> QED
    BY <2>1, <2>2, <2>3 DEF Ask
<1>4. (st \in [Branch -> STrans])'
  BY DEF TransInv, TypeOK, Ask
<1>5. (user \in [asked : BOOLEAN, canceled : BOOLEAN, provrecv : BOOLEAN,
              calls : Nat, result : Final \cup {"487", "482", "none", "err"}])'
  <2>1. user \in User
    BY DEF TransInv, TypeOK, User
  <2>2. user' \in User
    BY <2>1, UserTypes DEF Ask
  <2> QED
    BY <2>2 DEF User
<1>6. (tu \in [Branch -> [seen : Nat, answer : Final \cup {"487", "none"}, canceled : BOOLEAN]])'
  BY DEF TransInv, TypeOK, Ask
<1>7. AskedFirst'
  <2>1. user'.asked
    BY DEF TransInv, TypeOK, Ask
  <2>2. CASE user' = [user EXCEPT !.asked = TRUE]
             /\ \E q \in {FALSE, reliable} : ct' = [ct EXCEPT !["req"] = sip_ctrans_request(invite, q)]
    <3>1. user'.result = "none"
      BY <2>2 DEF TransInv, TypeOK, AskedFirst, Ask
    <3>2. PICK q \in {FALSE, reliable} : ct' = [ct EXCEPT !["req"] = sip_ctrans_request(invite, q)]
      BY <2>2
    <3>3. ct'["req"].state \in Waiting
      BY <3>2 DEF TransInv, TypeOK, Trans, Waiting, sip_ctrans_request
    <3> QED
      BY <2>1, <3>1, <3>3 DEF AskedFirst
  <2>3. CASE user' = [user EXCEPT !.asked = TRUE, !.result = "err"] /\ ct' = ct
    <3>1. user'.result = "err"
      BY <2>3 DEF TransInv, TypeOK
    <3>2. ct'["req"].state = "none"
      BY <2>3 DEF TransInv, TypeOK, AskedFirst, Ask, Trans
    <3> QED
      BY <2>1, <3>1, <3>2 DEF AskedFirst, Waiting
  <2> QED
    BY <2>2, <2>3 DEF Ask
<1>8. ClientReq'
  BY Messages DEF TransInv, TypeOK, Trans, Branch, CTrans, STrans, AskedFirst,
    ClientReq, ClientCancel, ClientIdle, Ask, sip_ctrans_request, invite
<1>9. ClientCancel'
  BY SipTransAssumption, Messages DEF TransInv, TypeOK, Trans, Branch, CTrans, STrans,
    AskedFirst, ClientReq, ClientCancel, ClientIdle, Ask, sip_ctrans_request, invite
<1>10. ClientIdle'
  BY Messages DEF TransInv, TypeOK, Trans, Branch, ClientReq, ClientCancel, ClientIdle,
    Ask, sip_ctrans_request, invite
<1>11. ServerTrans'
  BY Messages DEF TransInv, ServerTrans, SeenReliable, SeenUnreliable, Ask,
    sip_ctrans_request, invite, Waiting, Unanswered, Quiet
<1>12. SeenReliable'
  BY SipTransAssumption, Messages DEF TransInv, TypeOK, Trans, Branch, CTrans, STrans,
    AskedFirst, ServerTrans, SeenReliable, SeenUnreliable, Ask, sip_ctrans_request,
    invite, Waiting, Unanswered, Quiet
<1>13. SeenUnreliable'
  BY SipTransAssumption, Messages DEF TransInv, CTrans, STrans, AskedFirst, ServerTrans,
    SeenReliable, SeenUnreliable, Ask, sip_ctrans_request, invite, Waiting, Unanswered,
    Quiet
<1>14. ResponsesTrue'
  BY Messages DEF TransInv, ResponsesTrue, ResultTrue, CanceledFirst, Ask,
    sip_ctrans_request, invite
<1>15. ResultTrue'
  BY SipTransAssumption, Messages DEF TransInv, TypeOK, Trans, Branch, CTrans, STrans, AskedFirst, ClientReq, ClientCancel, ClientIdle, ServerTrans, SeenReliable, SeenUnreliable, ResponsesTrue, ResultTrue, CanceledFirst, Ask, sip_ctrans_request, invite, Waiting, Unanswered, Quiet, Code
<1>16. CanceledFirst'
  BY SipTransAssumption, Messages DEF TransInv, CTrans, STrans, AskedFirst,
    ResponsesTrue, ResultTrue, CanceledFirst, Ask, sip_ctrans_request, invite, Waiting,
    Unanswered, Quiet
<1> QED
  BY <1>1, <1>2, <1>3, <1>4, <1>5, <1>6, <1>7, <1>8, <1>9, <1>10, <1>11, <1>12, <1>13, <1>14, <1>15, <1>16 DEF TransInv, TypeOK

(* sip_ctrans_cancel: the user cancels. *)
LEMMA CancelInv ==
  ASSUME TransInv, Cancel
  PROVE  TransInv'
<1>1. (met \in Method /\ reliable \in BOOLEAN /\ forked \in BOOLEAN)'
  BY DEF TransInv, TypeOK, Cancel
<1>2. (net \subseteq Message)'
  BY Sent DEF TransInv, TypeOK, Cancel, sip_ctrans_cancel, CancelTrans,
    sip_ctrans_request, invite
<1>3. (ct \in [Trans -> CTrans])'
  <2>1. ct["req"] \in CTrans /\ ct["CANCEL"] \in CTrans /\ reliable \in BOOLEAN
    BY DEF TransInv, TypeOK, Trans
  <2>2. \A q \in BOOLEAN : sip_ctrans_request(FALSE, q) \in CTrans
    BY <2>1, ClientTypes
  <2>3. [ct["req"] EXCEPT !.tmr = TRUE] \in CTrans
    BY <2>1, ClientTypes
  <2> QED
    BY <2>1, <2>2, <2>3 DEF TransInv, TypeOK, Trans, Cancel, sip_ctrans_cancel, CancelTrans
<1>4. (st \in [Branch -> STrans])'
  BY DEF TransInv, TypeOK, Cancel
<1>5. (user \in [asked : BOOLEAN, canceled : BOOLEAN, provrecv : BOOLEAN,
              calls : Nat, result : Final \cup {"487", "482", "none", "err"}])'
  BY SipTransAssumption, Messages, Sent DEF TransInv, TypeOK, Trans, Branch, Cancel, sip_ctrans_cancel, CancelTrans, sip_ctrans_request, invite, Code
<1>6. (tu \in [Branch -> [seen : Nat, answer : Final \cup {"487", "none"}, canceled : BOOLEAN]])'
  BY DEF TransInv, TypeOK, Cancel
<1>7. AskedFirst'
  BY SipTransAssumption, Messages DEF TransInv, TypeOK, Trans, Branch, CTrans, STrans,
    AskedFirst, Cancel, sip_ctrans_cancel, CancelTrans, sip_ctrans_request, invite,
    Waiting
<1>8. ClientReq'
  BY SipTransAssumption, Messages DEF TransInv, TypeOK, Trans, Branch, CTrans, STrans,
    AskedFirst, ClientReq, ClientCancel, ClientIdle, Cancel, sip_ctrans_cancel,
    CancelTrans, sip_ctrans_request, invite, Waiting
<1>9. ClientCancel'
  BY SipTransAssumption, Messages DEF TransInv, TypeOK, Trans, Branch, ClientReq,
    ClientCancel, ClientIdle, Cancel, sip_ctrans_cancel, CancelTrans,
    sip_ctrans_request, invite, Waiting
<1>10. ClientIdle'
  BY SipTransAssumption, Messages DEF TransInv, TypeOK, Trans, Branch, CTrans, STrans,
    AskedFirst, ClientReq, ClientCancel, ClientIdle, Cancel, sip_ctrans_cancel,
    CancelTrans, sip_ctrans_request, invite, Waiting
<1>11. ServerTrans'
  BY SipTransAssumption, Messages DEF TransInv, ServerTrans, SeenReliable,
    SeenUnreliable, Cancel, sip_ctrans_cancel, CancelTrans, Unanswered, Quiet
<1>12. SeenReliable'
  BY SipTransAssumption, Messages DEF TransInv, TypeOK, Trans, Branch, CTrans, STrans,
    AskedFirst, ServerTrans, SeenReliable, SeenUnreliable, Cancel, sip_ctrans_cancel,
    CancelTrans, sip_ctrans_request, invite, Waiting
<1>13. SeenUnreliable'
  BY SipTransAssumption, Messages DEF TransInv, TypeOK, Trans, Branch, CTrans, STrans,
    AskedFirst, ServerTrans, SeenReliable, SeenUnreliable, Cancel, sip_ctrans_cancel,
    CancelTrans, sip_ctrans_request, invite, Waiting, Unanswered, Quiet
<1>14. ResponsesTrue'
  BY SipTransAssumption, Messages DEF TransInv, ResponsesTrue, ResultTrue,
    CanceledFirst, Cancel, sip_ctrans_cancel, CancelTrans, sip_ctrans_request, invite,
    Waiting
<1>15. ResultTrue'
  BY DEF ResultTrue, Cancel
<1>16. CanceledFirst'
  BY DEF CanceledFirst, Cancel
<1> QED
  BY <1>1, <1>2, <1>3, <1>4, <1>5, <1>6, <1>7, <1>8, <1>9, <1>10, <1>11, <1>12, <1>13, <1>14, <1>15, <1>16 DEF TransInv, TypeOK

(* connect_handler: what waited for its connection is sent. *)
LEMMA FlushInv ==
  ASSUME TransInv, NEW k \in Trans, Flush(k)
  PROVE  TransInv'
<1>1. (met \in Method /\ reliable \in BOOLEAN /\ forked \in BOOLEAN)'
  BY DEF TransInv, TypeOK, Flush
<1>2. (net \subseteq Message)'
  BY Sent DEF TransInv, TypeOK, Branch, Flush, CMethod, Code
<1>3. (ct \in [Trans -> CTrans])'
  <2>1. [ct[k] EXCEPT !.qent = FALSE] \in CTrans
    BY ClientTypes DEF TransInv, TypeOK
  <2> QED
    BY <2>1 DEF TransInv, TypeOK, Flush
<1>4. (st \in [Branch -> STrans])'
  BY DEF TransInv, TypeOK, Flush
<1>5. (user \in [asked : BOOLEAN, canceled : BOOLEAN, provrecv : BOOLEAN,
              calls : Nat, result : Final \cup {"487", "482", "none", "err"}])'
  BY DEF TransInv, TypeOK, Flush
<1>6. (tu \in [Branch -> [seen : Nat, answer : Final \cup {"487", "none"}, canceled : BOOLEAN]])'
  BY DEF TransInv, TypeOK, Flush
<1>7. AskedFirst'
  BY Messages DEF TransInv, CTrans, STrans, AskedFirst, ClientReq, ClientCancel,
    ClientIdle, Flush, CMethod, Waiting
<1>8. ClientReq'
  BY Messages DEF TransInv, ClientReq, ClientCancel, ClientIdle, Flush, CMethod,
    Waiting, Unanswered, Quiet, invite
<1>9. ClientCancel'
  BY SipTransAssumption, Messages DEF TransInv, TypeOK, Trans, Branch, ClientReq,
    ClientCancel, ClientIdle, Flush, CMethod, Waiting
<1>10. ClientIdle'
  BY Messages DEF TransInv, ClientReq, ClientCancel, ClientIdle, Flush, CMethod, Waiting
<1>11. ServerTrans'
  BY Messages DEF TransInv, ServerTrans, SeenReliable, SeenUnreliable, Flush, CMethod,
    Waiting, Unanswered, Quiet, invite
<1>12. SeenReliable'
  BY SipTransAssumption, Messages DEF TransInv, TypeOK, Trans, Branch, ServerTrans,
    SeenReliable, SeenUnreliable, Flush, CMethod, Waiting
<1>13. SeenUnreliable'
  BY SipTransAssumption, Messages DEF TransInv, ClientReq, ClientCancel, ClientIdle,
    ServerTrans, SeenReliable, SeenUnreliable, Flush, CMethod, Waiting, Unanswered,
    Quiet, invite
<1>14. ResponsesTrue'
  BY Messages DEF TransInv, ResponsesTrue, ResultTrue, CanceledFirst, Flush, CMethod,
    Waiting
<1>15. ResultTrue'
  BY Messages DEF TransInv, ResponsesTrue, ResultTrue, CanceledFirst, Flush, CMethod,
    Waiting
<1>16. CanceledFirst'
  BY Messages DEF TransInv, ResponsesTrue, ResultTrue, CanceledFirst, Flush, CMethod,
    Waiting
<1> QED
  BY <1>1, <1>2, <1>3, <1>4, <1>5, <1>6, <1>7, <1>8, <1>9, <1>10, <1>11, <1>12, <1>13, <1>14, <1>15, <1>16 DEF TransInv, TypeOK

(* A client transaction that ends with an error tells its user so once. *)
LEMMA TerminateInv ==
  ASSUME TransInv, NEW k \in Trans, Terminate(k)
  PROVE  TransInv'
<1>1. (met \in Method /\ reliable \in BOOLEAN /\ forked \in BOOLEAN)'
  BY DEF TransInv, TypeOK, Terminate
<1>2. (net \subseteq Message)'
  BY DEF TransInv, TypeOK, Terminate
<1>3. (ct \in [Trans -> CTrans])'
  BY ClientTypes DEF TransInv, TypeOK, Terminate
<1>4. (st \in [Branch -> STrans])'
  BY DEF TransInv, TypeOK, Terminate
<1>5. (user \in [asked : BOOLEAN, canceled : BOOLEAN, provrecv : BOOLEAN,
              calls : Nat, result : Final \cup {"487", "482", "none", "err"}])'
  <2>1. user \in User
    BY DEF TransInv, TypeOK, User
  <2>2. user' \in User
    BY <2>1, UserTypes DEF Terminate, terminate
  <2> QED
    BY <2>2 DEF User
<1>6. (tu \in [Branch -> [seen : Nat, answer : Final \cup {"487", "none"}, canceled : BOOLEAN]])'
  BY DEF TransInv, TypeOK, Terminate
<1>7. AskedFirst'
  BY SipTransAssumption, Messages DEF TransInv, TypeOK, Trans, Branch, CTrans, STrans,
    AskedFirst, Terminate, NoCTrans, terminate, Told, Waiting, Unanswered
<1>8. ClientReq'
  BY SipTransAssumption, Messages DEF TransInv, ClientReq, ClientCancel, ClientIdle,
    Terminate, NoCTrans, terminate, Told, Waiting, Unanswered, Quiet, invite
<1>9. ClientCancel'
  BY SipTransAssumption, Messages DEF TransInv, ClientReq, ClientCancel, ClientIdle,
    Terminate, NoCTrans, terminate, Told, Waiting, Unanswered
<1>10. ClientIdle'
  BY SipTransAssumption, Messages DEF TransInv, ClientReq, ClientCancel, ClientIdle,
    Terminate, NoCTrans, terminate
<1>11. ServerTrans'
  BY SipTransAssumption, Messages DEF TransInv, ServerTrans, SeenReliable,
    SeenUnreliable, Terminate, NoCTrans, terminate, Told, Waiting, Unanswered
<1>12. SeenReliable'
  BY SipTransAssumption, Messages DEF TransInv, ServerTrans, SeenReliable,
    SeenUnreliable, Terminate, NoCTrans, terminate
<1>13. SeenUnreliable'
  BY SipTransAssumption, Messages DEF TransInv, ServerTrans, SeenReliable,
    SeenUnreliable, Terminate, NoCTrans, terminate, Quiet, invite
<1>14. ResponsesTrue'
  BY SipTransAssumption, Messages DEF TransInv, ResponsesTrue, ResultTrue,
    CanceledFirst, Terminate, NoCTrans, terminate
<1>15. ResultTrue'
  BY SipTransAssumption, Messages DEF TransInv, ResponsesTrue, ResultTrue,
    CanceledFirst, Terminate, NoCTrans, terminate, Told, Waiting, Unanswered
<1>16. CanceledFirst'
  BY SipTransAssumption, Messages DEF TransInv, ResponsesTrue, ResultTrue,
    CanceledFirst, Terminate, NoCTrans, terminate, Told, Waiting, Unanswered
<1> QED
  BY <1>1, <1>2, <1>3, <1>4, <1>5, <1>6, <1>7, <1>8, <1>9, <1>10, <1>11, <1>12, <1>13, <1>14, <1>15, <1>16 DEF TransInv, TypeOK

(* A request that is sent again disturbs nothing. *)
LEMMA ResendInv ==
  ASSUME TransInv, NEW k \in Trans, Resend(k)
  PROVE  TransInv'
<1>1. (met \in Method /\ reliable \in BOOLEAN /\ forked \in BOOLEAN)'
  BY DEF TransInv, TypeOK, Resend
<1>2. (net \subseteq Message)'
  BY Sent DEF TransInv, TypeOK, Branch, Resend, CMethod, Code
<1>3. (ct \in [Trans -> CTrans])'
  BY DEF TransInv, TypeOK, Resend
<1>4. (st \in [Branch -> STrans])'
  BY DEF TransInv, TypeOK, Resend
<1>5. (user \in [asked : BOOLEAN, canceled : BOOLEAN, provrecv : BOOLEAN,
              calls : Nat, result : Final \cup {"487", "482", "none", "err"}])'
  BY DEF TransInv, TypeOK, Resend
<1>6. (tu \in [Branch -> [seen : Nat, answer : Final \cup {"487", "none"}, canceled : BOOLEAN]])'
  BY DEF TransInv, TypeOK, Resend
<1>7. AskedFirst'
  BY Messages DEF TransInv, CTrans, STrans, AskedFirst, ClientReq, ClientCancel,
    ClientIdle, Resend, CMethod, Waiting
<1>8. ClientReq'
  BY Messages DEF TransInv, ClientReq, ClientCancel, ClientIdle, Resend, CMethod,
    Waiting, Unanswered, Quiet, invite
<1>9. ClientCancel'
  BY SipTransAssumption, Messages DEF TransInv, TypeOK, Trans, Branch, ClientReq,
    ClientCancel, ClientIdle, Resend, CMethod, Waiting
<1>10. ClientIdle'
  BY Messages DEF TransInv, ClientReq, ClientCancel, ClientIdle, Resend, CMethod,
    Waiting
<1>11. ServerTrans'
  BY Messages DEF TransInv, ServerTrans, SeenReliable, SeenUnreliable, Resend, CMethod,
    Waiting, Unanswered, Quiet, invite
<1>12. SeenReliable'
  BY SipTransAssumption, Messages DEF TransInv, ClientReq, ClientCancel, ClientIdle,
    ServerTrans, SeenReliable, SeenUnreliable, Resend, CMethod, Waiting, Unanswered,
    Quiet, invite
<1>13. SeenUnreliable'
  BY SipTransAssumption, Messages DEF TransInv, TypeOK, Trans, Branch, ServerTrans,
    SeenReliable, SeenUnreliable, Resend, CMethod, Waiting, Unanswered, Quiet, invite
<1>14. ResponsesTrue'
  BY Messages DEF TransInv, ResponsesTrue, ResultTrue, CanceledFirst, Resend, CMethod,
    Waiting
<1>15. ResultTrue'
  BY Messages DEF TransInv, ResponsesTrue, ResultTrue, CanceledFirst, Resend, CMethod,
    Waiting
<1>16. CanceledFirst'
  BY Messages DEF TransInv, ResponsesTrue, ResultTrue, CanceledFirst, Resend, CMethod,
    Waiting
<1> QED
  BY <1>1, <1>2, <1>3, <1>4, <1>5, <1>6, <1>7, <1>8, <1>9, <1>10, <1>11, <1>12, <1>13, <1>14, <1>15, <1>16 DEF TransInv, TypeOK

(* A provisional response; a CANCEL that waited for it may follow. *)
LEMMA ProvisionalInv ==
  ASSUME TransInv, Provisional
  PROVE  TransInv'
<1> DEFINE p == ~(invite /\ ct["req"].state = "CALLING")
           i == ~invite
           r == Proceeding(ct["req"])
           c == [ct EXCEPT !["req"] = r]
           n == Rest(Response(met, "1xx"))
<1>a. reliable \in BOOLEAN /\ ct \in [Trans -> CTrans] /\ ct["req"] \in CTrans /\ invite \in BOOLEAN
  BY DEF TransInv, TypeOK, Trans, invite
<1>b. r \in CTrans /\ c \in [Trans -> CTrans]
  <2>1. p \in BOOLEAN /\ i \in BOOLEAN
    OBVIOUS
  <2> HIDE DEF p, i
  <2>2. r \in CTrans
    <3>1. r = [ct["req"] EXCEPT !.state = "PROCEEDING", !.tmr = @ /\ p, !.tmre = @ /\ i]
      BY DEF Proceeding, p, i
    <3> HIDE DEF r
    <3> QED
      BY <1>a, <2>1, <3>1, ClientTypes
  <2> QED
    BY <1>a, <2>2
<1>c. /\ c["req"].state = "PROCEEDING" /\ c["req"].qent = ct["req"].qent
      /\ c["CANCEL"] = ct["CANCEL"]
      /\ c["req"].tmre => ct["req"].tmre
      /\ ct["req"].tmr /\ p => c["req"].tmr
  <2>1. /\ r.state = "PROCEEDING" /\ r.qent = ct["req"].qent
        /\ r.tmre = (ct["req"].tmre /\ ~invite) /\ r.tmr = (ct["req"].tmr /\ p)
    BY <1>a DEF CTrans, Proceeding
  <2> HIDE DEF r
  <2>2. c["CANCEL"] = ct["CANCEL"] /\ c["req"] = r
    BY <1>a DEF Trans
  <2> QED
    BY <2>1, <2>2
<1>d. n \subseteq net /\ net \subseteq Message
  BY DEF Rest, TransInv, TypeOK
<1>e. ct["req"].state \in Waiting /\ user.asked
      /\ user' = [user EXCEPT !.provrecv = TRUE] /\ UNCHANGED <<met, reliable, forked, st, tu>>
  BY <1>d DEF Provisional, Waiting, TransInv, AskedFirst
<1>f. \/ ct' = c /\ net' = n /\ (user.provrecv \/ ~user.canceled)
      \/ user.canceled /\ sip_ctrans_cancel(c, n)
  BY DEF Provisional
<1> HIDE DEF c, n, r
<1>g. /\ ct'["req"].state = "PROCEEDING" /\ ct'["req"].qent = ct["req"].qent
      /\ ct'["req"].tmre => ct["req"].tmre
      /\ ct'["req"].tmr \/ (invite /\ ~user.canceled)
  <2>1. CASE ct' = c /\ (user.provrecv \/ ~user.canceled)
    BY <1>c, <1>e, <2>1 DEF TransInv, ClientReq, Waiting
  <2>2. CASE user.canceled /\ sip_ctrans_cancel(c, n)
    BY <1>a, <1>b, <1>c, <1>e, <2>2, CancelStep DEF TransInv, ClientReq, Waiting
  <2> QED
    BY <1>f, <2>1, <2>2
<1>h. \/ ct'["CANCEL"] = ct["CANCEL"]
      \/ user.canceled /\ CancelBegun(ct'["CANCEL"])
  BY <1>a, <1>b, <1>c, <1>f, CancelStep
<1>i. /\ net' \subseteq net \cup {Request("req", "CANCEL")}
      /\ ~user.canceled => net' \subseteq net
  BY <1>a, <1>b, <1>d, <1>f, CancelStep
<1>j. ct' \in [Trans -> CTrans]
  BY <1>a, <1>b, <1>f, CancelStep
<1>1. (met \in Method /\ reliable \in BOOLEAN /\ forked \in BOOLEAN)'
  BY <1>e DEF TransInv, TypeOK
<1>2. (net \subseteq Message)'
  BY <1>d, <1>i, Sent
<1>3. (ct \in [Trans -> CTrans])'
  BY <1>j
<1>4. (st \in [Branch -> STrans])'
  BY <1>e DEF TransInv, TypeOK
<1>5. (user \in [asked : BOOLEAN, canceled : BOOLEAN, provrecv : BOOLEAN,
              calls : Nat, result : Final \cup {"487", "482", "none", "err"}])'
  <2>1. user \in User
    BY DEF TransInv, TypeOK, User
  <2>2. user' \in User
    BY <1>e, <2>1, UserTypes
  <2> QED
    BY <2>2 DEF User
<1>6. (tu \in [Branch -> [seen : Nat, answer : Final \cup {"487", "none"}, canceled : BOOLEAN]])'
  BY <1>e DEF TransInv, TypeOK
<1>7. AskedFirst'
  BY <1>e, <1>g DEF TransInv, AskedFirst, Waiting
<1>8. ClientReq'
  BY <1>e, <1>g DEF ClientReq, invite
<1>9. ClientCancel'
  BY <1>e, <1>h, <1>i DEF TransInv, ClientCancel, CancelBegun
<1>10. ClientIdle'
  BY <1>e, <1>g, <1>h DEF TransInv, TypeOK, ClientIdle, Trans, CancelBegun
<1>11. ServerTrans'
  BY <1>e DEF TransInv, ServerTrans, Unanswered
<1>12. SeenReliable'
  BY <1>e, <1>g, <1>i, Messages, SipTransAssumption DEF TransInv, TypeOK, SeenReliable
<1>13. SeenUnreliable'
  BY <1>e, <1>g, <1>i, Messages, SipTransAssumption DEF TransInv, TypeOK,
    SeenUnreliable, Quiet
<1>14. ResponsesTrue'
  BY <1>e, <1>i, Messages DEF TransInv, TypeOK, ResponsesTrue
<1>15. ResultTrue'
  BY <1>e DEF TransInv, ResultTrue
<1>16. CanceledFirst'
  BY <1>e DEF TransInv, CanceledFirst
<1> QED
  BY <1>1, <1>2, <1>3, <1>4, <1>5, <1>6, <1>7, <1>8, <1>9, <1>10, <1>11, <1>12, <1>13, <1>14, <1>15, <1>16 DEF TransInv, TypeOK

(* A final response ends the wait of the user. *)
LEMMA FinalResponseInv ==
  ASSUME TransInv, NEW c \in Code, FinalResponse(c)
  PROVE  TransInv'
<1>1. (met \in Method /\ reliable \in BOOLEAN /\ forked \in BOOLEAN)'
  BY DEF TransInv, TypeOK, FinalResponse
<1>2. (net \subseteq Message)'
  BY Sent DEF TransInv, TypeOK, FinalResponse, Rest
<1>3. (ct \in [Trans -> CTrans])'
  BY SipTransAssumption, Messages, Sent DEF TransInv, TypeOK, Trans, Branch, FinalResponse, Rest, Completed, NoCTrans, Told, invite, CTrans
<1>4. (st \in [Branch -> STrans])'
  BY DEF TransInv, TypeOK, FinalResponse
<1>5. (user \in [asked : BOOLEAN, canceled : BOOLEAN, provrecv : BOOLEAN,
              calls : Nat, result : Final \cup {"487", "482", "none", "err"}])'
  <2>1. user \in User
    BY DEF TransInv, TypeOK, User
  <2>3. c \in Final \cup {"487", "482", "none", "err"}
    BY DEF TransInv, TypeOK, ResponsesTrue, FinalResponse, Branch
  <2>2. user' \in User
    BY <2>1, UserTypes, <2>3 DEF FinalResponse
  <2> QED
    BY <2>2 DEF User
<1>6. (tu \in [Branch -> [seen : Nat, answer : Final \cup {"487", "none"}, canceled : BOOLEAN]])'
  BY DEF TransInv, TypeOK, FinalResponse
<1>7. AskedFirst'
  BY SipTransAssumption, Messages DEF TransInv, TypeOK, Trans, Branch, CTrans, STrans,
    AskedFirst, FinalResponse, Rest, Completed, NoCTrans, Told, invite, Waiting,
    Unanswered, Quiet, Code
<1>8. ClientReq'
  BY SipTransAssumption, Messages DEF TransInv, ClientReq, ClientCancel, ClientIdle,
    FinalResponse, Rest, Completed, NoCTrans, Told, invite, Waiting, Unanswered, Quiet,
    Code
<1>9. ClientCancel'
  BY SipTransAssumption, Messages DEF TransInv, ClientReq, ClientCancel, ClientIdle,
    FinalResponse, Rest, Completed, NoCTrans, Told, invite, Waiting, Unanswered, Quiet,
    Code
<1>10. ClientIdle'
  BY SipTransAssumption, Messages DEF TransInv, ClientReq, ClientCancel, ClientIdle,
    FinalResponse, Rest, Completed, NoCTrans, Told, invite, Waiting, Unanswered, Quiet,
    Code
<1>11. ServerTrans'
  BY SipTransAssumption, Messages DEF TransInv, ServerTrans, SeenReliable,
    SeenUnreliable, FinalResponse, Rest, Completed, Waiting, Unanswered, Quiet, Code
<1>12. SeenReliable'
  BY SipTransAssumption, Messages DEF TransInv, ServerTrans, SeenReliable,
    SeenUnreliable, FinalResponse, Rest, Completed, NoCTrans, Told, invite, Waiting,
    Unanswered, Quiet, Code
<1>13. SeenUnreliable'
  BY Messages DEF TransInv, CTrans, SeenUnreliable, ResponsesTrue, ResultTrue,
    CanceledFirst, FinalResponse, Rest, Completed, NoCTrans, Told, invite, Waiting,
    Unanswered, Quiet, Code
<1>14. ResponsesTrue'
  BY Messages DEF TransInv, CTrans, SeenUnreliable, ResponsesTrue, ResultTrue,
    CanceledFirst, FinalResponse, Rest, Completed
<1>15. ResultTrue'
  BY Messages DEF TransInv, CTrans, SeenUnreliable, ResponsesTrue, ResultTrue,
    CanceledFirst, FinalResponse, Told, invite, Waiting
<1>16. CanceledFirst'
  BY Messages DEF TransInv, ResultTrue, CanceledFirst, FinalResponse, Told, invite,
    Waiting
<1> QED
  BY <1>1, <1>2, <1>3, <1>4, <1>5, <1>6, <1>7, <1>8, <1>9, <1>10, <1>11, <1>12, <1>13, <1>14, <1>15, <1>16 DEF TransInv, TypeOK

(* A response that nobody waits for is acknowledged or dropped. *)
LEMMA LateResponseInv ==
  ASSUME TransInv, NEW c \in Code, LateResponse(c)
  PROVE  TransInv'
<1>1. (met \in Method /\ reliable \in BOOLEAN /\ forked \in BOOLEAN)'
  BY DEF TransInv, TypeOK, LateResponse
<1>2. (net \subseteq Message)'
  BY Sent DEF TransInv, TypeOK, LateResponse, Rest, Code
<1>3. (ct \in [Trans -> CTrans])'
  BY DEF TransInv, TypeOK, LateResponse
<1>4. (st \in [Branch -> STrans])'
  BY DEF TransInv, TypeOK, LateResponse
<1>5. (user \in [asked : BOOLEAN, canceled : BOOLEAN, provrecv : BOOLEAN,
              calls : Nat, result : Final \cup {"487", "482", "none", "err"}])'
  BY DEF TransInv, TypeOK, LateResponse
<1>6. (tu \in [Branch -> [seen : Nat, answer : Final \cup {"487", "none"}, canceled : BOOLEAN]])'
  BY DEF TransInv, TypeOK, LateResponse
<1>7. AskedFirst'
  BY Messages DEF TransInv, CTrans, STrans, AskedFirst, LateResponse, Rest, Waiting
<1>8. ClientReq'
  BY Messages DEF TransInv, ClientReq, ClientCancel, ClientIdle, LateResponse, Rest,
    Waiting
<1>9. ClientCancel'
  BY Messages DEF TransInv, ClientReq, ClientCancel, ClientIdle, LateResponse, Rest,
    Waiting
<1>10. ClientIdle'
  BY Messages DEF TransInv, ClientReq, ClientCancel, ClientIdle, LateResponse, Rest,
    Waiting
<1>11. ServerTrans'
  BY Messages DEF TransInv, ServerTrans, SeenReliable, SeenUnreliable, LateResponse,
    Rest, Waiting, Unanswered, Quiet, invite
<1>12. SeenReliable'
  BY Messages DEF TransInv, ServerTrans, SeenReliable, SeenUnreliable, LateResponse,
    Rest, Waiting, Unanswered, Quiet, invite
<1>13. SeenUnreliable'
  BY Messages DEF TransInv, ServerTrans, SeenReliable, SeenUnreliable, LateResponse,
    Rest, Waiting, Unanswered, Quiet, invite
<1>14. ResponsesTrue'
  BY Messages DEF TransInv, ResponsesTrue, ResultTrue, CanceledFirst, LateResponse,
    Rest, Waiting
<1>15. ResultTrue'
  BY Messages DEF TransInv, ResponsesTrue, ResultTrue, CanceledFirst, LateResponse,
    Rest, Waiting
<1>16. CanceledFirst'
  BY Messages DEF TransInv, ResponsesTrue, ResultTrue, CanceledFirst, LateResponse,
    Rest, Waiting
<1> QED
  BY <1>1, <1>2, <1>3, <1>4, <1>5, <1>6, <1>7, <1>8, <1>9, <1>10, <1>11, <1>12, <1>13, <1>14, <1>15, <1>16 DEF TransInv, TypeOK

(* A response to the CANCEL ends its transaction alone. *)
LEMMA CancelResponseInv ==
  ASSUME TransInv, NEW c \in Code, CancelResponse(c)
  PROVE  TransInv'
<1>1. (met \in Method /\ reliable \in BOOLEAN /\ forked \in BOOLEAN)'
  BY DEF TransInv, TypeOK, CancelResponse
<1>2. (net \subseteq Message)'
  BY DEF TransInv, TypeOK, CancelResponse, Rest
<1>3. (ct \in [Trans -> CTrans])'
  BY SipTransAssumption, Messages, Sent DEF TransInv, TypeOK, Trans, Branch, CancelResponse, Rest, Completed, NoCTrans, CTrans
<1>4. (st \in [Branch -> STrans])'
  BY DEF TransInv, TypeOK, CancelResponse
<1>5. (user \in [asked : BOOLEAN, canceled : BOOLEAN, provrecv : BOOLEAN,
              calls : Nat, result : Final \cup {"487", "482", "none", "err"}])'
  BY DEF TransInv, TypeOK, CancelResponse
<1>6. (tu \in [Branch -> [seen : Nat, answer : Final \cup {"487", "none"}, canceled : BOOLEAN]])'
  BY DEF TransInv, TypeOK, CancelResponse
<1>7. AskedFirst'
  BY SipTransAssumption, Messages DEF TransInv, CTrans, STrans, AskedFirst,
    CancelResponse, Rest, Completed
<1>8. ClientReq'
  BY SipTransAssumption, Messages DEF TransInv, ClientReq, ClientCancel, ClientIdle,
    CancelResponse, Rest, Completed, Quiet, invite
<1>9. ClientCancel'
  BY SipTransAssumption, Messages DEF TransInv, ClientReq, ClientCancel, ClientIdle,
    CancelResponse, Rest, Completed, NoCTrans, Waiting, Unanswered
<1>10. ClientIdle'
  BY SipTransAssumption, Messages DEF TransInv, ClientReq, ClientCancel, ClientIdle,
    CancelResponse, Rest, Completed, NoCTrans, Waiting, Unanswered
<1>11. ServerTrans'
  BY SipTransAssumption, Messages DEF TransInv, ServerTrans, SeenReliable,
    SeenUnreliable, CancelResponse, Rest, Completed, NoCTrans, Waiting, Unanswered
<1>12. SeenReliable'
  BY SipTransAssumption, Messages DEF TransInv, ServerTrans, SeenReliable,
    SeenUnreliable, CancelResponse, Rest, Completed
<1>13. SeenUnreliable'
  BY SipTransAssumption, Messages DEF TransInv, ServerTrans, SeenReliable,
    SeenUnreliable, CancelResponse, Rest, Completed, Quiet, invite
<1>14. ResponsesTrue'
  BY SipTransAssumption, Messages DEF TransInv, ResponsesTrue, ResultTrue,
    CanceledFirst, CancelResponse, Rest, Completed
<1>15. ResultTrue'
  BY SipTransAssumption, Messages DEF TransInv, ResponsesTrue, ResultTrue,
    CanceledFirst, CancelResponse, Rest, Completed
<1>16. CanceledFirst'
  BY SipTransAssumption, Messages DEF TransInv, ResponsesTrue, ResultTrue,
    CanceledFirst, CancelResponse, Rest, Completed
<1> QED
  BY <1>1, <1>2, <1>3, <1>4, <1>5, <1>6, <1>7, <1>8, <1>9, <1>10, <1>11, <1>12, <1>13, <1>14, <1>15, <1>16 DEF TransInv, TypeOK

(* request_handler: a request that was seen is answered as before. *)
LEMMA RequestAgainInv ==
  ASSUME TransInv, NEW b \in Branch, RequestAgain(b)
  PROVE  TransInv'
<1>1. (met \in Method /\ reliable \in BOOLEAN /\ forked \in BOOLEAN)'
  BY DEF TransInv, TypeOK, RequestAgain
<1>2. (net \subseteq Message)'
  <2>1. st[b].state \in {"PROCEEDING", "COMPLETED"} => st[b].mb \in Final \cup {"1xx", "487"}
    BY DEF TransInv, TypeOK, ServerTrans, Unanswered, Branch
  <2> QED
    BY <2>1, Sent DEF TransInv, TypeOK, RequestAgain, Rest, ToClient
<1>3. (ct \in [Trans -> CTrans])'
  BY DEF TransInv, TypeOK, RequestAgain
<1>4. (st \in [Branch -> STrans])'
  BY DEF TransInv, TypeOK, RequestAgain
<1>5. (user \in [asked : BOOLEAN, canceled : BOOLEAN, provrecv : BOOLEAN,
              calls : Nat, result : Final \cup {"487", "482", "none", "err"}])'
  BY DEF TransInv, TypeOK, RequestAgain
<1>6. (tu \in [Branch -> [seen : Nat, answer : Final \cup {"487", "none"}, canceled : BOOLEAN]])'
  BY DEF TransInv, TypeOK, RequestAgain
<1>7. AskedFirst'
  BY SipTransAssumption, Messages DEF TransInv, CTrans, STrans, AskedFirst,
    RequestAgain, Rest, Known
<1>8. ClientReq'
  BY SipTransAssumption, Messages DEF TransInv, ClientReq, ClientCancel, ClientIdle,
    RequestAgain, Rest, Known, Quiet, invite
<1>9. ClientCancel'
  BY SipTransAssumption, Messages DEF TransInv, ClientReq, ClientCancel, ClientIdle,
    RequestAgain, Rest, Known, ToClient, Waiting, Unanswered
<1>10. ClientIdle'
  BY SipTransAssumption, Messages DEF TransInv, ClientReq, ClientCancel, ClientIdle,
    RequestAgain, Rest, Known
<1>11. ServerTrans'
  BY SipTransAssumption, Messages DEF TransInv, ServerTrans, SeenReliable,
    SeenUnreliable, RequestAgain, Rest, Known, ToClient, Waiting, Unanswered
<1>12. SeenReliable'
  BY SipTransAssumption, Messages DEF TransInv, ServerTrans, SeenReliable,
    SeenUnreliable, RequestAgain, Rest, Known, ToClient, Waiting, Unanswered
<1>13. SeenUnreliable'
  BY SipTransAssumption, Messages DEF TransInv, TypeOK, Trans, Branch, ServerTrans,
    SeenReliable, SeenUnreliable, RequestAgain, Rest, Known
<1>14. ResponsesTrue'
  BY SipTransAssumption, Messages DEF TransInv, ServerTrans, SeenReliable,
    SeenUnreliable, ResponsesTrue, ResultTrue, CanceledFirst, RequestAgain, Rest, Known,
    ToClient, Waiting, Unanswered
<1>15. ResultTrue'
  BY SipTransAssumption, Messages DEF TransInv, ResponsesTrue, ResultTrue,
    CanceledFirst, RequestAgain, Rest, Known
<1>16. CanceledFirst'
  BY SipTransAssumption, Messages DEF TransInv, ResponsesTrue, ResultTrue,
    CanceledFirst, RequestAgain, Rest, Known
<1> QED
  BY <1>1, <1>2, <1>3, <1>4, <1>5, <1>6, <1>7, <1>8, <1>9, <1>10, <1>11, <1>12, <1>13, <1>14, <1>15, <1>16 DEF TransInv, TypeOK

(* request_handler: a request that comes by another way is a loop. *)
LEMMA LoopDetectedInv ==
  ASSUME TransInv, NEW b \in Branch, LoopDetected(b)
  PROVE  TransInv'
<1>1. (met \in Method /\ reliable \in BOOLEAN /\ forked \in BOOLEAN)'
  BY DEF TransInv, TypeOK, LoopDetected
<1>2. (net \subseteq Message)'
  BY Sent DEF TransInv, TypeOK, LoopDetected, Rest, Known, Merged, ToClient
<1>3. (ct \in [Trans -> CTrans])'
  BY DEF TransInv, TypeOK, LoopDetected
<1>4. (st \in [Branch -> STrans])'
  BY DEF TransInv, TypeOK, LoopDetected
<1>5. (user \in [asked : BOOLEAN, canceled : BOOLEAN, provrecv : BOOLEAN,
              calls : Nat, result : Final \cup {"487", "482", "none", "err"}])'
  BY DEF TransInv, TypeOK, LoopDetected
<1>6. (tu \in [Branch -> [seen : Nat, answer : Final \cup {"487", "none"}, canceled : BOOLEAN]])'
  BY DEF TransInv, TypeOK, LoopDetected
<1>7. AskedFirst'
  BY Messages DEF TransInv, CTrans, STrans, AskedFirst, LoopDetected, Rest, Known
<1>8. ClientReq'
  BY SipTransAssumption, Messages DEF TransInv, ClientReq, ClientCancel, ClientIdle,
    LoopDetected, Rest, Known, Unanswered, Quiet, invite, Code
<1>9. ClientCancel'
  BY SipTransAssumption, Messages DEF TransInv, ClientReq, ClientCancel, ClientIdle,
    LoopDetected, Rest, Known, Merged, ToClient, Waiting, Unanswered, Quiet, invite,
    Code
<1>10. ClientIdle'
  BY Messages DEF TransInv, ClientReq, ClientCancel, ClientIdle, LoopDetected, Rest,
    Known
<1>11. ServerTrans'
  BY SipTransAssumption, Messages DEF TransInv, ServerTrans, SeenReliable,
    SeenUnreliable, LoopDetected, Rest, Known, Unanswered, Quiet, invite, Code
<1>12. SeenReliable'
  BY SipTransAssumption, Messages DEF TransInv, ServerTrans, SeenReliable,
    SeenUnreliable, LoopDetected, Rest, Known, Merged, ToClient, Waiting, Unanswered,
    Quiet, invite, Code
<1>13. SeenUnreliable'
  BY Messages DEF TransInv, CTrans, SeenUnreliable, ResponsesTrue, ResultTrue,
    CanceledFirst, LoopDetected, Rest, Known, Merged, ToClient, Waiting, Unanswered,
    Quiet, invite, Code
<1>14. ResponsesTrue'
  BY Messages DEF TransInv, CTrans, SeenUnreliable, ResponsesTrue, ResultTrue,
    CanceledFirst, LoopDetected, Rest, Known, Merged, ToClient, Waiting, Unanswered
<1>15. ResultTrue'
  BY DEF TransInv, ResultTrue, CanceledFirst, LoopDetected
<1>16. CanceledFirst'
  BY DEF TransInv, ResultTrue, CanceledFirst, LoopDetected
<1> QED
  BY <1>1, <1>2, <1>3, <1>4, <1>5, <1>6, <1>7, <1>8, <1>9, <1>10, <1>11, <1>12, <1>13, <1>14, <1>15, <1>16 DEF TransInv, TypeOK

(* A new request gets a server transaction and goes to its user. *)
LEMMA NewRequestInv ==
  ASSUME TransInv, NEW b \in Branch, NewRequest(b)
  PROVE  TransInv'
<1>1. (met \in Method /\ reliable \in BOOLEAN /\ forked \in BOOLEAN)'
  BY DEF TransInv, TypeOK, NewRequest
<1>2. (net \subseteq Message)'
  BY DEF TransInv, TypeOK, NewRequest, Rest
<1>3. (ct \in [Trans -> CTrans])'
  BY DEF TransInv, TypeOK, NewRequest
<1>4. (st \in [Branch -> STrans])'
  BY SipTransAssumption, Messages, Sent DEF TransInv, TypeOK, Trans, Branch, NewRequest, Rest, Known, Merged, NoSTrans, STrans, Code
<1>5. (user \in [asked : BOOLEAN, canceled : BOOLEAN, provrecv : BOOLEAN,
              calls : Nat, result : Final \cup {"487", "482", "none", "err"}])'
  BY DEF TransInv, TypeOK, NewRequest
<1>6. (tu \in [Branch -> [seen : Nat, answer : Final \cup {"487", "none"}, canceled : BOOLEAN]])'
  BY DEF TransInv, TypeOK, NewRequest
<1>7. AskedFirst'
  BY Messages DEF TransInv, CTrans, STrans, AskedFirst, NewRequest, Rest, Known
<1>8. ClientReq'
  BY SipTransAssumption, Messages DEF TransInv, ClientReq, ClientCancel, ClientIdle,
    NewRequest, Rest, Known, Unanswered, Quiet, invite, Code
<1>9. ClientCancel'
  BY Messages DEF TransInv, ClientReq, ClientCancel, ClientIdle, NewRequest, Rest, Known
<1>10. ClientIdle'
  BY Messages DEF TransInv, ClientReq, ClientCancel, ClientIdle, NewRequest, Rest, Known
<1>11. ServerTrans'
  BY SipTransAssumption, Messages DEF TransInv, TypeOK, Trans, Branch, ServerTrans,
    SeenReliable, SeenUnreliable, NewRequest, Rest, Known, Merged, NoSTrans, Waiting,
    Unanswered, Quiet, invite, Code
<1>12. SeenReliable'
  BY Messages DEF TransInv, ServerTrans, SeenReliable, SeenUnreliable, NewRequest, Rest,
    Known
<1>13. SeenUnreliable'
  BY SipTransAssumption, Messages DEF TransInv, TypeOK, Trans, Branch, ServerTrans,
    SeenReliable, SeenUnreliable, NewRequest, Rest, Known, Merged, NoSTrans, Waiting,
    Unanswered, Quiet, invite, Code
<1>14. ResponsesTrue'
  BY DEF TransInv, CTrans, SeenUnreliable, ResponsesTrue, ResultTrue, CanceledFirst,
    NewRequest, Rest, Known
<1>15. ResultTrue'
  BY DEF TransInv, ResultTrue, CanceledFirst, NewRequest
<1>16. CanceledFirst'
  BY DEF TransInv, ResultTrue, CanceledFirst, NewRequest
<1> QED
  BY <1>1, <1>2, <1>3, <1>4, <1>5, <1>6, <1>7, <1>8, <1>9, <1>10, <1>11, <1>12, <1>13, <1>14, <1>15, <1>16 DEF TransInv, TypeOK

(* sip_strans_reply: the server's user answers. *)
LEMMA ReplyInv ==
  ASSUME TransInv, NEW b \in Branch, NEW c \in Final \cup {"1xx"}, Reply(b, c)
  PROVE  TransInv'
<1>1. (met \in Method /\ reliable \in BOOLEAN /\ forked \in BOOLEAN)'
  BY DEF TransInv, TypeOK, Reply
<1>2. (net \subseteq Message)'
  BY Sent DEF TransInv, TypeOK, Reply, Unanswered, sip_strans_reply, NoSTrans, ToClient
<1>3. (ct \in [Trans -> CTrans])'
  BY DEF TransInv, TypeOK, Reply
<1>4. (st \in [Branch -> STrans])'
  <2>1. sip_strans_reply(st[b], c) \in STrans
    BY ServerTypes DEF TransInv, TypeOK, Code
  <2> QED
    BY <2>1 DEF TransInv, TypeOK, Reply
<1>5. (user \in [asked : BOOLEAN, canceled : BOOLEAN, provrecv : BOOLEAN,
              calls : Nat, result : Final \cup {"487", "482", "none", "err"}])'
  BY DEF TransInv, TypeOK, Reply
<1>6. (tu \in [Branch -> [seen : Nat, answer : Final \cup {"487", "none"}, canceled : BOOLEAN]])'
  BY DEF TransInv, TypeOK, Reply
<1>7. AskedFirst'
  BY SipTransAssumption, Messages DEF TransInv, CTrans, STrans, AskedFirst, Reply,
    Unanswered, sip_strans_reply
<1>8. ClientReq'
  BY SipTransAssumption, Messages DEF TransInv, ClientReq, ClientCancel, ClientIdle,
    Reply, Unanswered, sip_strans_reply, Quiet, invite
<1>9. ClientCancel'
  BY SipTransAssumption, Messages DEF TransInv, ClientReq, ClientCancel, ClientIdle,
    Reply, Unanswered, sip_strans_reply, NoSTrans, ToClient, Waiting
<1>10. ClientIdle'
  BY SipTransAssumption, Messages DEF TransInv, ClientReq, ClientCancel, ClientIdle,
    Reply, Unanswered, sip_strans_reply
<1>11. ServerTrans'
  BY SipTransAssumption, Messages DEF TransInv, TypeOK, Trans, Branch, ServerTrans,
    SeenReliable, SeenUnreliable, Reply, Unanswered, sip_strans_reply, NoSTrans,
    ToClient, Waiting
<1>12. SeenReliable'
  BY SipTransAssumption, Messages DEF TransInv, ServerTrans, SeenReliable,
    SeenUnreliable, Reply, Unanswered, sip_strans_reply, NoSTrans, ToClient, Waiting
<1>13. SeenUnreliable'
  BY SipTransAssumption, Messages DEF TransInv, TypeOK, Trans, Branch, ServerTrans,
    SeenReliable, SeenUnreliable, Reply, Unanswered, sip_strans_reply
<1>14. ResponsesTrue'
  BY SipTransAssumption, Messages DEF TransInv, TypeOK, Trans, Branch, ServerTrans,
    SeenReliable, SeenUnreliable, ResponsesTrue, ResultTrue, CanceledFirst, Reply,
    Unanswered, sip_strans_reply, NoSTrans, ToClient, Waiting
<1>15. ResultTrue'
  BY SipTransAssumption, Messages DEF TransInv, ServerTrans, SeenReliable,
    SeenUnreliable, ResponsesTrue, ResultTrue, CanceledFirst, Reply, Unanswered,
    sip_strans_reply
<1>16. CanceledFirst'
  BY SipTransAssumption, Messages DEF TransInv, ResponsesTrue, ResultTrue,
    CanceledFirst, Reply, Unanswered, sip_strans_reply
<1> QED
  BY <1>1, <1>2, <1>3, <1>4, <1>5, <1>6, <1>7, <1>8, <1>9, <1>10, <1>11, <1>12, <1>13, <1>14, <1>15, <1>16 DEF TransInv, TypeOK

(* An answer that cannot be sent ends the server transaction. *)
LEMMA ReplyFailsInv ==
  ASSUME TransInv, NEW b \in Branch, ReplyFails(b)
  PROVE  TransInv'
<1>1. (met \in Method /\ reliable \in BOOLEAN /\ forked \in BOOLEAN)'
  BY DEF TransInv, TypeOK, ReplyFails
<1>2. (net \subseteq Message)'
  BY DEF TransInv, TypeOK, ReplyFails
<1>3. (ct \in [Trans -> CTrans])'
  BY DEF TransInv, TypeOK, ReplyFails
<1>4. (st \in [Branch -> STrans])'
  BY DEF TransInv, TypeOK, ReplyFails, NoSTrans, STrans, Code
<1>5. (user \in [asked : BOOLEAN, canceled : BOOLEAN, provrecv : BOOLEAN,
              calls : Nat, result : Final \cup {"487", "482", "none", "err"}])'
  BY DEF TransInv, TypeOK, ReplyFails
<1>6. (tu \in [Branch -> [seen : Nat, answer : Final \cup {"487", "none"}, canceled : BOOLEAN]])'
  BY DEF TransInv, TypeOK, ReplyFails
<1>7. AskedFirst'
  BY Messages DEF TransInv, CTrans, STrans, AskedFirst, ReplyFails, Unanswered, NoSTrans
<1>8. ClientReq'
  BY Messages DEF TransInv, ClientReq, ClientCancel, ClientIdle, ReplyFails, Unanswered,
    NoSTrans, Waiting, Quiet, invite
<1>9. ClientCancel'
  BY Messages DEF TransInv, ClientReq, ClientCancel, ClientIdle, ReplyFails, Unanswered,
    NoSTrans
<1>10. ClientIdle'
  BY Messages DEF TransInv, ClientReq, ClientCancel, ClientIdle, ReplyFails, Unanswered,
    NoSTrans
<1>11. ServerTrans'
  BY Messages DEF TransInv, TypeOK, Trans, Branch, ServerTrans, SeenReliable,
    SeenUnreliable, ReplyFails, Unanswered, NoSTrans
<1>12. SeenReliable'
  BY Messages DEF TransInv, ServerTrans, SeenReliable, SeenUnreliable, ReplyFails,
    Unanswered, NoSTrans
<1>13. SeenUnreliable'
  BY Messages DEF TransInv, TypeOK, Trans, Branch, ServerTrans, SeenReliable,
    SeenUnreliable, ReplyFails, Unanswered, NoSTrans
<1>14. ResponsesTrue'
  BY Messages DEF TransInv, ResponsesTrue, ResultTrue, CanceledFirst, ReplyFails,
    Unanswered, NoSTrans
<1>15. ResultTrue'
  BY Messages DEF TransInv, ResponsesTrue, ResultTrue, CanceledFirst, ReplyFails,
    Unanswered, NoSTrans
<1>16. CanceledFirst'
  BY Messages DEF TransInv, ResponsesTrue, ResultTrue, CanceledFirst, ReplyFails,
    Unanswered, NoSTrans
<1> QED
  BY <1>1, <1>2, <1>3, <1>4, <1>5, <1>6, <1>7, <1>8, <1>9, <1>10, <1>11, <1>12, <1>13, <1>14, <1>15, <1>16 DEF TransInv, TypeOK

(* cancel_handler: a CANCEL is answered, and its request if there is one. *)
LEMMA CancelRequestInv ==
  ASSUME TransInv, CancelRequest
  PROVE  TransInv'
<1>1. (met \in Method /\ reliable \in BOOLEAN /\ forked \in BOOLEAN)'
  BY DEF TransInv, TypeOK, CancelRequest
<1>2. (net \subseteq Message)'
  BY Sent DEF TransInv, TypeOK, Branch, CancelRequest, Known, Unanswered, Rest,
    sip_strans_reply
<1>3. (ct \in [Trans -> CTrans])'
  BY DEF TransInv, TypeOK, CancelRequest
<1>4. (st \in [Branch -> STrans])'
  <2>1. sip_strans_reply(st["req"], "487") \in STrans
    BY ServerTypes DEF TransInv, TypeOK, Branch, Code
  <2> QED
    BY <2>1 DEF TransInv, TypeOK, CancelRequest
<1>5. (user \in [asked : BOOLEAN, canceled : BOOLEAN, provrecv : BOOLEAN,
              calls : Nat, result : Final \cup {"487", "482", "none", "err"}])'
  BY DEF TransInv, TypeOK, CancelRequest
<1>6. (tu \in [Branch -> [seen : Nat, answer : Final \cup {"487", "none"}, canceled : BOOLEAN]])'
  BY DEF TransInv, TypeOK, CancelRequest
<1>7. AskedFirst'
  BY Messages DEF TransInv, CTrans, STrans, AskedFirst, CancelRequest, Known, Unanswered
<1>8. ClientReq'
  BY SipTransAssumption, Messages DEF TransInv, ClientReq, ClientCancel, ClientIdle,
    CancelRequest, Known, Unanswered, invite, Waiting, Quiet, Code
<1>9. ClientCancel'
  BY Messages DEF TransInv, ClientReq, ClientCancel, ClientIdle, CancelRequest, Known,
    Unanswered
<1>10. ClientIdle'
  BY Messages DEF TransInv, ClientReq, ClientCancel, ClientIdle, CancelRequest, Known,
    Unanswered
<1>11. ServerTrans'
  <2>1. CASE UNCHANGED <<st, tu>>
    BY <2>1 DEF TransInv, ServerTrans, Unanswered
  <2>2. CASE Unanswered("req") /\ st' = [st EXCEPT !["req"] = sip_strans_reply(@, "487")]
             /\ tu' = [tu EXCEPT !["req"].answer = "487", !["req"].canceled = TRUE]
    BY <2>2 DEF TransInv, TypeOK, ServerTrans, Unanswered, sip_strans_reply, NoSTrans,
      invite
  <2> QED
    BY <2>1, <2>2 DEF CancelRequest
<1>12. SeenReliable'
  BY SipTransAssumption, Messages DEF TransInv, TypeOK, Trans, Branch, ServerTrans,
    SeenReliable, SeenUnreliable, CancelRequest, Known, Unanswered, Rest,
    sip_strans_reply, NoSTrans, invite, Waiting, Quiet, Code
<1>13. SeenUnreliable'
  <2>1. \A b \in Branch : tu'[b].seen = tu[b].seen
    BY DEF TransInv, TypeOK, CancelRequest, Branch
  <2>2. \A b \in Branch : st'[b].state = "none" /\ ~reliable => st[b].state = "none"
    <3>1. CASE st' = st
      BY <3>1
    <3>2. CASE st' = [st EXCEPT !["req"] = sip_strans_reply(@, "487")]
      <4>1. ~reliable => sip_strans_reply(st["req"], "487").state # "none"
        BY DEF TransInv, TypeOK, Branch, STrans, sip_strans_reply, invite
      <4> QED
        BY <3>2, <4>1 DEF TransInv, TypeOK, Branch
    <3> QED
      BY <3>1, <3>2 DEF CancelRequest
  <2>3. Quiet => Quiet'
    BY Messages DEF TransInv, TypeOK, Quiet, CancelRequest, Rest
  <2>4. reliable' = reliable
    BY DEF CancelRequest
  <2> QED
    BY <2>1, <2>2, <2>3, <2>4 DEF TransInv, SeenUnreliable, Branch
<1>14. ResponsesTrue'
  BY SipTransAssumption, Messages DEF TransInv, TypeOK, Trans, Branch, ServerTrans,
    SeenReliable, SeenUnreliable, ResponsesTrue, ResultTrue, CanceledFirst,
    CancelRequest, Known, Unanswered, Rest, sip_strans_reply, NoSTrans, invite, Waiting,
    Quiet, Code
<1>15. ResultTrue'
  BY Messages DEF TransInv, TypeOK, Trans, Branch, ServerTrans, SeenReliable,
    SeenUnreliable, ResponsesTrue, ResultTrue, CanceledFirst, CancelRequest, Known,
    Unanswered
<1>16. CanceledFirst'
  BY Messages DEF TransInv, ClientReq, ClientCancel, ClientIdle, ResponsesTrue,
    ResultTrue, CanceledFirst, CancelRequest, Known, Unanswered
<1> QED
  BY <1>1, <1>2, <1>3, <1>4, <1>5, <1>6, <1>7, <1>8, <1>9, <1>10, <1>11, <1>12, <1>13, <1>14, <1>15, <1>16 DEF TransInv, TypeOK

(* ack_handler: an ACK confirms the answer. *)
LEMMA AckRequestInv ==
  ASSUME TransInv, AckRequest
  PROVE  TransInv'
<1>1. (met \in Method /\ reliable \in BOOLEAN /\ forked \in BOOLEAN)'
  BY DEF TransInv, TypeOK, AckRequest
<1>2. (net \subseteq Message)'
  BY DEF TransInv, TypeOK, AckRequest, Rest, NoSTrans
<1>3. (ct \in [Trans -> CTrans])'
  BY DEF TransInv, TypeOK, AckRequest
<1>4. (st \in [Branch -> STrans])'
  <2>1. st["req"] \in STrans /\ "487" \in Code /\ reliable \in BOOLEAN
    BY DEF TransInv, TypeOK, Branch, Code
  <2> QED
    BY <2>1, ServerTypes DEF TransInv, TypeOK, AckRequest
<1>5. (user \in [asked : BOOLEAN, canceled : BOOLEAN, provrecv : BOOLEAN,
              calls : Nat, result : Final \cup {"487", "482", "none", "err"}])'
  BY DEF TransInv, TypeOK, AckRequest
<1>6. (tu \in [Branch -> [seen : Nat, answer : Final \cup {"487", "none"}, canceled : BOOLEAN]])'
  BY DEF TransInv, TypeOK, AckRequest
<1>7. AskedFirst'
  BY Messages DEF TransInv, CTrans, STrans, AskedFirst, AckRequest, Rest, NoSTrans
<1>8. ClientReq'
  BY SipTransAssumption, Messages DEF TransInv, ClientReq, ClientCancel, ClientIdle,
    AckRequest, Rest, NoSTrans, invite, Code
<1>9. ClientCancel'
  BY Messages DEF TransInv, ClientReq, ClientCancel, ClientIdle, AckRequest, Rest,
    NoSTrans
<1>10. ClientIdle'
  BY Messages DEF TransInv, ClientReq, ClientCancel, ClientIdle, AckRequest, Rest,
    NoSTrans
<1>11. ServerTrans'
  BY Messages DEF TransInv, ServerTrans, SeenReliable, SeenUnreliable, AckRequest, Rest,
    NoSTrans, Waiting, Unanswered, Quiet
<1>12. SeenReliable'
  BY Messages DEF TransInv, ServerTrans, SeenReliable, SeenUnreliable, AckRequest, Rest,
    NoSTrans
<1>13. SeenUnreliable'
  BY Messages DEF TransInv, ServerTrans, SeenReliable, SeenUnreliable, AckRequest, Rest,
    NoSTrans, Waiting, Unanswered, Quiet
<1>14. ResponsesTrue'
  BY Messages DEF TransInv, ResponsesTrue, ResultTrue, CanceledFirst, AckRequest, Rest,
    NoSTrans
<1>15. ResultTrue'
  BY Messages DEF TransInv, ResponsesTrue, ResultTrue, CanceledFirst, AckRequest, Rest,
    NoSTrans
<1>16. CanceledFirst'
  BY Messages DEF TransInv, ResponsesTrue, ResultTrue, CanceledFirst, AckRequest, Rest,
    NoSTrans
<1> QED
  BY <1>1, <1>2, <1>3, <1>4, <1>5, <1>6, <1>7, <1>8, <1>9, <1>10, <1>11, <1>12, <1>13, <1>14, <1>15, <1>16 DEF TransInv, TypeOK

(* A final response over datagrams is sent again. *)
LEMMA ServerRetransmitInv ==
  ASSUME TransInv, NEW b \in Branch, ServerRetransmit(b)
  PROVE  TransInv'
<1>1. (met \in Method /\ reliable \in BOOLEAN /\ forked \in BOOLEAN)'
  BY DEF TransInv, TypeOK, ServerRetransmit
<1>2. (net \subseteq Message)'
  <2>1. st[b].mb \in Final \cup {"1xx", "487"}
    BY DEF TransInv, TypeOK, ServerTrans, Unanswered, Branch, ServerRetransmit
  <2> QED
    BY <2>1, Sent DEF TransInv, TypeOK, ServerRetransmit, ToClient
<1>3. (ct \in [Trans -> CTrans])'
  BY DEF TransInv, TypeOK, ServerRetransmit
<1>4. (st \in [Branch -> STrans])'
  BY DEF TransInv, TypeOK, ServerRetransmit
<1>5. (user \in [asked : BOOLEAN, canceled : BOOLEAN, provrecv : BOOLEAN,
              calls : Nat, result : Final \cup {"487", "482", "none", "err"}])'
  BY DEF TransInv, TypeOK, ServerRetransmit
<1>6. (tu \in [Branch -> [seen : Nat, answer : Final \cup {"487", "none"}, canceled : BOOLEAN]])'
  BY DEF TransInv, TypeOK, ServerRetransmit
<1>7. AskedFirst'
  BY SipTransAssumption, Messages DEF TransInv, CTrans, STrans, AskedFirst, ServerTrans,
    SeenReliable, SeenUnreliable, ServerRetransmit, ToClient, Waiting, Unanswered,
    Quiet, invite
<1>8. ClientReq'
  BY Messages DEF TransInv, ClientReq, ClientCancel, ClientIdle, ServerRetransmit,
    ToClient, Waiting, Unanswered, Quiet, invite
<1>9. ClientCancel'
  BY Messages DEF TransInv, ClientReq, ClientCancel, ClientIdle, ServerRetransmit,
    ToClient, Waiting
<1>10. ClientIdle'
  BY Messages DEF TransInv, ClientReq, ClientCancel, ClientIdle, ServerRetransmit,
    ToClient, Waiting
<1>11. ServerTrans'
  BY Messages DEF TransInv, ServerTrans, SeenReliable, SeenUnreliable, ServerRetransmit,
    ToClient, Waiting, Unanswered, Quiet, invite
<1>12. SeenReliable'
  BY Messages DEF TransInv, ServerTrans, SeenReliable, SeenUnreliable, ServerRetransmit,
    ToClient, Waiting
<1>13. SeenUnreliable'
  BY Messages DEF TransInv, ServerTrans, SeenReliable, SeenUnreliable, ServerRetransmit,
    ToClient, Waiting, Unanswered, Quiet, invite
<1>14. ResponsesTrue'
  BY Messages DEF TransInv, ServerTrans, SeenReliable, SeenUnreliable, ResponsesTrue,
    ResultTrue, CanceledFirst, ServerRetransmit, ToClient, Waiting
<1>15. ResultTrue'
  BY Messages DEF TransInv, ResponsesTrue, ResultTrue, CanceledFirst, ServerRetransmit,
    ToClient, Waiting
<1>16. CanceledFirst'
  BY Messages DEF TransInv, ResponsesTrue, ResultTrue, CanceledFirst, ServerRetransmit,
    ToClient, Waiting
<1> QED
  BY <1>1, <1>2, <1>3, <1>4, <1>5, <1>6, <1>7, <1>8, <1>9, <1>10, <1>11, <1>12, <1>13, <1>14, <1>15, <1>16 DEF TransInv, TypeOK

(* A server transaction that saw no ACK, or no copy any more, ends. *)
LEMMA ServerTimeoutInv ==
  ASSUME TransInv, NEW b \in Branch, ServerTimeout(b)
  PROVE  TransInv'
<1>1. (met \in Method /\ reliable \in BOOLEAN /\ forked \in BOOLEAN)'
  BY DEF TransInv, TypeOK, ServerTimeout
<1>2. (net \subseteq Message)'
  BY DEF TransInv, TypeOK, ServerTimeout
<1>3. (ct \in [Trans -> CTrans])'
  BY DEF TransInv, TypeOK, ServerTimeout
<1>4. (st \in [Branch -> STrans])'
  BY DEF TransInv, TypeOK, ServerTimeout, NoSTrans, STrans, Code
<1>5. (user \in [asked : BOOLEAN, canceled : BOOLEAN, provrecv : BOOLEAN,
              calls : Nat, result : Final \cup {"487", "482", "none", "err"}])'
  BY DEF TransInv, TypeOK, ServerTimeout
<1>6. (tu \in [Branch -> [seen : Nat, answer : Final \cup {"487", "none"}, canceled : BOOLEAN]])'
  BY DEF TransInv, TypeOK, ServerTimeout
<1>7. AskedFirst'
  BY Messages DEF TransInv, CTrans, STrans, AskedFirst, ServerTimeout, NoSTrans, Quiet
<1>8. ClientReq'
  BY Messages DEF TransInv, ClientReq, ClientCancel, ClientIdle, ServerTimeout,
    NoSTrans, Quiet, Waiting, Unanswered, invite
<1>9. ClientCancel'
  BY Messages DEF TransInv, ClientReq, ClientCancel, ClientIdle, ServerTimeout,
    NoSTrans, Quiet
<1>10. ClientIdle'
  BY Messages DEF TransInv, ClientReq, ClientCancel, ClientIdle, ServerTimeout,
    NoSTrans, Quiet
<1>11. ServerTrans'
  BY Messages DEF TransInv, ServerTrans, SeenReliable, SeenUnreliable, ServerTimeout,
    NoSTrans, Quiet, Waiting, Unanswered, invite
<1>12. SeenReliable'
  BY Messages DEF TransInv, ServerTrans, SeenReliable, SeenUnreliable, ServerTimeout,
    NoSTrans, Quiet
<1>13. SeenUnreliable'
  BY Messages DEF TransInv, ServerTrans, SeenReliable, SeenUnreliable, ServerTimeout,
    NoSTrans, Quiet
<1>14. ResponsesTrue'
  BY Messages DEF TransInv, ResponsesTrue, ResultTrue, CanceledFirst, ServerTimeout,
    NoSTrans, Quiet
<1>15. ResultTrue'
  BY Messages DEF TransInv, ResponsesTrue, ResultTrue, CanceledFirst, ServerTimeout,
    NoSTrans, Quiet
<1>16. CanceledFirst'
  BY Messages DEF TransInv, ResponsesTrue, ResultTrue, CanceledFirst, ServerTimeout,
    NoSTrans, Quiet
<1> QED
  BY <1>1, <1>2, <1>3, <1>4, <1>5, <1>6, <1>7, <1>8, <1>9, <1>10, <1>11, <1>12, <1>13, <1>14, <1>15, <1>16 DEF TransInv, TypeOK

(* A proxy sends a request on by two ways. *)
LEMMA ForkInv ==
  ASSUME TransInv, Fork
  PROVE  TransInv'
<1>1. (met \in Method /\ reliable \in BOOLEAN /\ forked \in BOOLEAN)'
  BY DEF TransInv, TypeOK, Fork
<1>2. (net \subseteq Message)'
  BY Sent DEF TransInv, TypeOK, Branch, Fork
<1>3. (ct \in [Trans -> CTrans])'
  BY DEF TransInv, TypeOK, Fork
<1>4. (st \in [Branch -> STrans])'
  BY DEF TransInv, TypeOK, Fork
<1>5. (user \in [asked : BOOLEAN, canceled : BOOLEAN, provrecv : BOOLEAN,
              calls : Nat, result : Final \cup {"487", "482", "none", "err"}])'
  BY DEF TransInv, TypeOK, Fork
<1>6. (tu \in [Branch -> [seen : Nat, answer : Final \cup {"487", "none"}, canceled : BOOLEAN]])'
  BY DEF TransInv, TypeOK, Fork
<1>7. AskedFirst'
  BY DEF TransInv, CTrans, STrans, AskedFirst, Fork, Waiting, Unanswered
<1>8. ClientReq'
  BY DEF TransInv, ClientReq, ClientCancel, ClientIdle, Fork, Waiting, Unanswered,
    Quiet, invite, Code
<1>9. ClientCancel'
  BY Messages DEF TransInv, ClientReq, ClientCancel, ClientIdle, Fork, Waiting,
    Unanswered
<1>10. ClientIdle'
  BY DEF TransInv, ClientReq, ClientCancel, ClientIdle, Fork, Waiting, Unanswered
<1>11. ServerTrans'
  BY DEF TransInv, ServerTrans, SeenReliable, SeenUnreliable, Fork, Waiting, Unanswered
<1>12. SeenReliable'
  BY DEF TransInv, ServerTrans, SeenReliable, SeenUnreliable, Fork, Waiting, Unanswered
<1>13. SeenUnreliable'
  BY DEF TransInv, ServerTrans, SeenReliable, SeenUnreliable, Fork, Waiting, Unanswered,
    Quiet, invite, Code
<1>14. ResponsesTrue'
  BY Messages DEF TransInv, ResponsesTrue, ResultTrue, CanceledFirst, Fork, Waiting,
    Unanswered
<1>15. ResultTrue'
  BY DEF TransInv, ResponsesTrue, ResultTrue, CanceledFirst, Fork, Waiting, Unanswered
<1>16. CanceledFirst'
  BY DEF TransInv, ResponsesTrue, ResultTrue, CanceledFirst, Fork, Waiting, Unanswered
<1> QED
  BY <1>1, <1>2, <1>3, <1>4, <1>5, <1>6, <1>7, <1>8, <1>9, <1>10, <1>11, <1>12, <1>13, <1>14, <1>15, <1>16 DEF TransInv, TypeOK

(* A datagram is lost. *)
LEMMA LoseInv ==
  ASSUME TransInv, NEW m \in Message, Lose(m)
  PROVE  TransInv'
<1>1. (met \in Method /\ reliable \in BOOLEAN /\ forked \in BOOLEAN)'
  BY DEF TransInv, TypeOK, Lose
<1>2. (net \subseteq Message)'
  BY DEF TransInv, TypeOK, Lose
<1>3. (ct \in [Trans -> CTrans])'
  BY DEF TransInv, TypeOK, Lose
<1>4. (st \in [Branch -> STrans])'
  BY DEF TransInv, TypeOK, Lose
<1>5. (user \in [asked : BOOLEAN, canceled : BOOLEAN, provrecv : BOOLEAN,
              calls : Nat, result : Final \cup {"487", "482", "none", "err"}])'
  BY DEF TransInv, TypeOK, Lose
<1>6. (tu \in [Branch -> [seen : Nat, answer : Final \cup {"487", "none"}, canceled : BOOLEAN]])'
  BY DEF TransInv, TypeOK, Lose
<1>7. AskedFirst'
  BY DEF TransInv, CTrans, STrans, AskedFirst, Lose, Waiting, Unanswered
<1>8. ClientReq'
  BY DEF TransInv, ClientReq, ClientCancel, ClientIdle, Lose, Waiting, Unanswered,
    Quiet, invite, Code
<1>9. ClientCancel'
  BY DEF TransInv, ClientReq, ClientCancel, ClientIdle, Lose, Waiting, Unanswered
<1>10. ClientIdle'
  BY DEF TransInv, ClientReq, ClientCancel, ClientIdle, Lose, Waiting, Unanswered
<1>11. ServerTrans'
  BY DEF TransInv, ServerTrans, SeenReliable, SeenUnreliable, Lose, Waiting, Unanswered
<1>12. SeenReliable'
  BY DEF SeenReliable, Lose
<1>13. SeenUnreliable'
  BY DEF TransInv, ServerTrans, SeenReliable, SeenUnreliable, Lose, Waiting, Unanswered,
    Quiet, invite, Code
<1>14. ResponsesTrue'
  BY DEF TransInv, ResponsesTrue, ResultTrue, CanceledFirst, Lose, Waiting, Unanswered
<1>15. ResultTrue'
  BY DEF TransInv, ResponsesTrue, ResultTrue, CanceledFirst, Lose, Waiting, Unanswered
<1>16. CanceledFirst'
  BY DEF TransInv, ResponsesTrue, ResultTrue, CanceledFirst, Lose, Waiting, Unanswered
<1> QED
  BY <1>1, <1>2, <1>3, <1>4, <1>5, <1>6, <1>7, <1>8, <1>9, <1>10, <1>11, <1>12, <1>13, <1>14, <1>15, <1>16 DEF TransInv, TypeOK

(* A connection that fails ends the transaction that waits for it. *)
LEMMA ConnFailedInv ==
  ASSUME TransInv, NEW k \in Trans, ConnFailed(k)
  PROVE  TransInv'
<1>1. Terminate(k)
  BY DEF ConnFailed, Terminate, TransInv, ClientIdle
<1> QED
  BY <1>1, TerminateInv

(* A client transaction that waited long enough ends. *)
LEMMA ClientTimeoutInv ==
  ASSUME TransInv, NEW k \in Trans, ClientTimeout(k)
  PROVE  TransInv'
<1>1. Terminate(k)
  BY DEF ClientTimeout, Terminate, TransInv, ClientIdle
<1> QED
  BY <1>1, TerminateInv

(* A request over datagrams is sent again. *)
LEMMA ClientRetransmitInv ==
  ASSUME TransInv, NEW k \in Trans, ClientRetransmit(k)
  PROVE  TransInv'
<1>1. Resend(k) \/ Terminate(k)
  BY DEF ClientRetransmit, Resend, Terminate, TransInv, ClientIdle
<1> QED
  BY <1>1, ResendInv, TerminateInv

(* At first nobody has asked. *)
LEMMA TransInitInv ==
  ASSUME Init
  PROVE  TransInv
<1>1. /\ \A k \in Trans : ct[k] = NoCTrans
      /\ \A b \in Branch : st[b] = NoSTrans
      /\ \A b \in Branch : tu[b] = [seen |-> 0, answer |-> "none", canceled |-> FALSE]
      /\ user = [asked |-> FALSE, canceled |-> FALSE, provrecv |-> FALSE, calls |-> 0, result |-> "none"]
      /\ net = {}
  BY DEF Init
<1>2. TypeOK
  <2>1. NoCTrans \in CTrans /\ NoSTrans \in STrans
    BY DEF NoCTrans, NoSTrans, CTrans, STrans
  <2>2. ct \in [Trans -> CTrans] /\ st \in [Branch -> STrans]
    BY <2>1 DEF Init
  <2>3. tu \in [Branch -> [seen : Nat, answer : Final \cup {"487", "none"}, canceled : BOOLEAN]]
    BY DEF Init
  <2>4. user \in User
    BY <1>1 DEF User
  <2> QED
    BY <2>2, <2>3, <2>4, <1>1 DEF Init, TypeOK, User
<1>3. AskedFirst /\ ClientReq /\ ClientCancel /\ ClientIdle
  BY <1>1 DEF AskedFirst, ClientReq, ClientCancel, ClientIdle, NoCTrans, NoSTrans, Trans
<1>4. ServerTrans /\ SeenReliable /\ SeenUnreliable
  BY <1>1 DEF ServerTrans, SeenReliable, SeenUnreliable, NoSTrans, Branch, Unanswered
<1>5. ResponsesTrue /\ ResultTrue /\ CanceledFirst
  BY <1>1 DEF ResponsesTrue, ResultTrue, CanceledFirst, Branch
<1> QED
  BY <1>2, <1>3, <1>4, <1>5 DEF TransInv

(* Every step preserves the invariant. *)
LEMMA TransNextInv ==
  ASSUME TransInv, [Next]_vars
  PROVE  TransInv'
<1>1. CASE UNCHANGED vars
  BY <1>1 DEF vars, TransInv, TypeOK, AskedFirst, ClientReq, ClientCancel, ClientIdle,
    ServerTrans, SeenReliable, SeenUnreliable, ResponsesTrue, ResultTrue, CanceledFirst,
    invite, Unanswered, Quiet
<1>2. CASE Client
  <2>1. CASE Ask \/ Cancel \/ Provisional
    BY <2>1, AskInv, CancelInv, ProvisionalInv
  <2>2. ASSUME NEW k \in Trans, Flush(k) \/ ConnFailed(k) \/ ClientTimeout(k) \/ ClientRetransmit(k)
        PROVE  TransInv'
    BY <2>2, FlushInv, ConnFailedInv, ClientTimeoutInv, ClientRetransmitInv
  <2>3. ASSUME NEW c \in Code, FinalResponse(c) \/ LateResponse(c) \/ CancelResponse(c)
        PROVE  TransInv'
    BY <2>3, FinalResponseInv, LateResponseInv, CancelResponseInv
  <2> QED
    BY <1>2, <2>1, <2>2, <2>3 DEF Client
<1>3. CASE Server
  <2>1. CASE CancelRequest \/ AckRequest
    BY <2>1, CancelRequestInv, AckRequestInv
  <2>2. ASSUME NEW b \in Branch, RequestAgain(b) \/ LoopDetected(b) \/ NewRequest(b)
        PROVE  TransInv'
    BY <2>2, RequestAgainInv, LoopDetectedInv, NewRequestInv
  <2>3. ASSUME NEW b \in Branch, ReplyFails(b) \/ ServerRetransmit(b) \/ ServerTimeout(b)
        PROVE  TransInv'
    BY <2>3, ReplyFailsInv, ServerRetransmitInv, ServerTimeoutInv
  <2>4. ASSUME NEW b \in Branch, NEW c \in Final \cup {"1xx"}, Reply(b, c)
        PROVE  TransInv'
    BY <2>4, ReplyInv
  <2> QED
    BY <1>3, <2>1, <2>2, <2>3, <2>4 DEF Server
<1>4. CASE Fork \/ \E m \in Message : Lose(m)
  BY <1>4, ForkInv, LoseInv
<1> QED
  BY <1>1, <1>2, <1>3, <1>4 DEF Next

(* The invariant implies the safety properties. *)
LEMMA TransInvSafe ==
  ASSUME TransInv
  PROVE  TransSafe
<1>1. ServedOnce
  BY DEF TransInv, TypeOK, ServerTrans, SeenUnreliable, ServedOnce, Branch
<1>2. \A k \in Trans : ct[k].state # "none" =>
       \/ ct[k].tmr
       \/ k = "req" /\ invite /\ ct[k].state = "PROCEEDING" /\ ~user.canceled
  BY DEF TransInv, TypeOK, CTrans, ClientReq, ClientCancel, Trans
<1>3. \A b \in Branch : st[b].state # "none" =>
       \/ st[b].tmr
       \/ Unanswered(b) /\ tu[b].seen = 1 /\ tu[b].answer = "none"
  BY DEF TransInv, TypeOK, STrans, ServerTrans, Unanswered
<1>4. CancelWanted
  BY DEF TransInv, ResultTrue, CanceledFirst, CancelWanted
<1> QED
  BY <1>1, <1>2, <1>3, <1>4 DEF TransSafe, TimersRun, TransInv

(* ctrans.c and strans.c: the user of the server sees a request once, no
   transaction waits without a timer unless its user owes it an answer or it
   is an INVITE that rings, and only what was cancelled ends with 487. *)
THEOREM TransactionsSafe == Spec => []TransSafe
<1>1. Init => TransInv
  BY TransInitInv
<1>2. TransInv /\ [Next]_vars => TransInv'
  BY TransNextInv
<1>3. TransInv => TransSafe
  BY TransInvSafe
<1> QED
  BY <1>1, <1>2, <1>3, PTL DEF Spec

(* Each step of the two transactions is a step of the exchange or leaves it
   as it is. *)
LEMMA StepRefines ==
  ASSUME TransInv, TransInv', [Next]_vars
  PROVE  [Exchange!Next]_(Exchange!vars)
<1> DEFINE Stutter == UNCHANGED <<user.asked, tu["req"].seen > 0, tu["req"].answer, user.result>>
<1>1. Stutter => [Exchange!Next]_(Exchange!vars)
  BY DEF Exchange!vars
<1>t. user \in User /\ user' \in User /\ tu["req"].seen \in Nat
  BY DEF TransInv, TypeOK, User, Branch
<1>2. CASE UNCHANGED vars
  BY <1>2, <1>1 DEF vars
<1>3. CASE Ask
  <2>1. ~user.asked /\ user'.asked /\ user'.result \in {"none", "err"} /\ UNCHANGED tu
    BY <1>3, <1>t DEF Ask, User, TransInv, AskedFirst
  <2>2. Exchange!Ask
    BY <2>1, <1>t DEF Exchange!Ask, User
  <2> QED
    BY <2>2 DEF Exchange!Next
<1>4. CASE Cancel \/ Provisional
  <2>1. user'.asked = user.asked /\ user'.result = user.result /\ UNCHANGED tu
    BY <1>4, <1>t DEF Cancel, Provisional, User
  <2> QED
    BY <2>1, <1>1
<1>5. ASSUME NEW k \in Trans, Terminate(k)
      PROVE  [Exchange!Next]_(Exchange!vars)
  <2>1. CASE user' = user
    BY <2>1, <1>1, <1>5 DEF Terminate
  <2>2. CASE k = "req" /\ ct["req"].state # "COMPLETED" /\ user' = Told(user, "err")
    <3>1. user.asked /\ user.result = "none"
      BY <1>5, <2>2 DEF TransInv, TypeOK, AskedFirst, CTrans, Waiting, Terminate
    <3>2. user'.asked = user.asked /\ user'.result = "err" /\ UNCHANGED tu
      BY <1>5, <1>t, <2>2 DEF Terminate, Told, User
    <3>3. Exchange!Conclude
      BY <3>1, <3>2 DEF Exchange!Conclude
    <3> QED
      BY <3>3 DEF Exchange!Next
  <2> QED
    BY <1>5, <2>1, <2>2 DEF Terminate, terminate
<1>6. ASSUME NEW k \in Trans, Flush(k) \/ ConnFailed(k) \/ ClientTimeout(k) \/ ClientRetransmit(k)
      PROVE  [Exchange!Next]_(Exchange!vars)
  <2>1. CASE UNCHANGED <<user, tu>>
    BY <2>1, <1>1
  <2>2. UNCHANGED <<user, tu>> \/ Terminate(k)
    BY <1>6 DEF Flush, ConnFailed, ClientTimeout, ClientRetransmit, Terminate, TransInv, ClientIdle
  <2> QED
    BY <1>5, <2>1, <2>2
<1>7. ASSUME NEW c \in Code, FinalResponse(c)
      PROVE  [Exchange!Next]_(Exchange!vars)
  <2>1. user.asked /\ user.result = "none"
    BY <1>7 DEF TransInv, AskedFirst, FinalResponse, Waiting
  <2>2. user'.asked = user.asked /\ user'.result = c /\ UNCHANGED tu
    BY <1>7, <1>t DEF FinalResponse, Told, User
  <2>3. c \in {"err", "482"} \cup ({tu["req"].answer} \ {"none"})
    BY <1>7 DEF FinalResponse, TransInv, ResponsesTrue
  <2>4. Exchange!Conclude
    BY <2>1, <2>2, <2>3 DEF Exchange!Conclude
  <2> QED
    BY <2>4 DEF Exchange!Next
<1>8. ASSUME NEW c \in Code, LateResponse(c) \/ CancelResponse(c)
      PROVE  [Exchange!Next]_(Exchange!vars)
  <2>1. UNCHANGED <<user, tu>>
    BY <1>8 DEF LateResponse, CancelResponse
  <2> QED
    BY <2>1, <1>1
<1>9. CASE CancelRequest
  <2>1. CASE UNCHANGED <<user, tu>>
    BY <2>1, <1>1
  <2>2. CASE Unanswered("req") /\ tu' = [tu EXCEPT !["req"].answer = "487", !["req"].canceled = TRUE]
    <3>1. tu["req"].seen = 1 /\ tu["req"].answer = "none"
      BY <2>2 DEF TransInv, ServerTrans, Unanswered, Branch
    <3>2. tu'["req"].seen = 1 /\ tu'["req"].answer = "487"
      BY <2>2, <3>1 DEF TransInv, TypeOK, Branch
    <3>3. Exchange!Reply
      BY <1>9, <3>1, <3>2 DEF Exchange!Reply, CancelRequest
    <3> QED
      BY <3>3 DEF Exchange!Next
  <2> QED
    BY <1>9, <2>1, <2>2 DEF CancelRequest
<1>10. CASE AckRequest \/ Fork \/ \E m \in Message : Lose(m)
  <2>1. UNCHANGED <<user, tu>>
    BY <1>10 DEF AckRequest, Fork, Lose
  <2> QED
    BY <2>1, <1>1
<1>11. ASSUME NEW b \in Branch, RequestAgain(b) \/ LoopDetected(b) \/ ServerRetransmit(b) \/ ServerTimeout(b)
       PROVE  [Exchange!Next]_(Exchange!vars)
  <2>1. UNCHANGED <<user, tu>>
    BY <1>11 DEF RequestAgain, LoopDetected, ServerRetransmit, ServerTimeout
  <2> QED
    BY <2>1, <1>1
<1>12. ASSUME NEW b \in Branch, b # "req", tu'["req"] = tu["req"], UNCHANGED user
       PROVE  [Exchange!Next]_(Exchange!vars)
  BY <1>12, <1>1
<1>13. ASSUME NEW b \in Branch, NewRequest(b)
       PROVE  [Exchange!Next]_(Exchange!vars)
  <2>1. UNCHANGED user /\ (b # "req" => tu'["req"] = tu["req"])
    BY <1>13 DEF NewRequest, TransInv, TypeOK, Branch
  <2>2. CASE b = "req"
    <3>1. user.asked
      BY <1>13 DEF NewRequest, TransInv, AskedFirst
    <3>2. tu'["req"].seen = tu["req"].seen + 1 /\ tu'["req"].answer = tu["req"].answer
      BY <1>13, <2>2 DEF NewRequest, TransInv, TypeOK, Branch
    <3>3. tu'["req"].seen \in {0, 1}
      BY DEF TransInv, ServerTrans, Branch
    <3>4. tu["req"].seen = 0 /\ tu'["req"].seen = 1
      BY <1>t, <3>2, <3>3
    <3>5. Exchange!Serve
      BY <2>1, <3>1, <3>2, <3>4 DEF Exchange!Serve
    <3> QED
      BY <3>5 DEF Exchange!Next
  <2> QED
    BY <1>12, <2>1, <2>2
<1>14. ASSUME NEW b \in Branch, ReplyFails(b)
       PROVE  [Exchange!Next]_(Exchange!vars)
  <2>1. UNCHANGED user /\ (b # "req" => tu'["req"] = tu["req"])
    BY <1>14 DEF ReplyFails, TransInv, TypeOK, Branch
  <2>2. CASE b = "req"
    <3>1. tu["req"].seen = 1 /\ tu["req"].answer = "none"
      BY <1>14, <2>2 DEF ReplyFails, TransInv, ServerTrans, Unanswered, Branch
    <3>2. tu'["req"].seen = 0 /\ tu'["req"].answer = tu["req"].answer
      BY <1>14, <2>2 DEF ReplyFails, TransInv, TypeOK, Branch
    <3>3. Exchange!Abandon
      BY <2>1, <3>1, <3>2 DEF Exchange!Abandon
    <3> QED
      BY <3>3 DEF Exchange!Next
  <2> QED
    BY <1>12, <2>1, <2>2
<1>15. ASSUME NEW b \in Branch, NEW c \in Final \cup {"1xx"}, Reply(b, c)
       PROVE  [Exchange!Next]_(Exchange!vars)
  <2>1. UNCHANGED user /\ (b # "req" => tu'["req"] = tu["req"])
    BY <1>15 DEF Reply, TransInv, TypeOK, Branch
  <2>2. CASE b = "req"
    <3>1. tu["req"].seen = 1 /\ tu["req"].answer = "none"
      BY <1>15, <2>2 DEF Reply, TransInv, ServerTrans, Unanswered, Branch
    <3>2. tu'["req"].seen = 1 /\ tu'["req"].answer = IF c = "1xx" THEN "none" ELSE c
      BY <1>15, <2>2, <3>1 DEF Reply, TransInv, TypeOK, Branch
    <3>3. CASE c = "1xx"
      BY <1>1, <2>1, <3>1, <3>2, <3>3
    <3>4. CASE c # "1xx"
      <4>1. Exchange!Reply
        BY <2>1, <3>1, <3>2, <3>4 DEF Exchange!Reply
      <4> QED
        BY <4>1 DEF Exchange!Next
    <3> QED
      BY <3>3, <3>4
  <2> QED
    BY <1>12, <2>1, <2>2
<1> QED
  BY <1>2, <1>3, <1>4, <1>6, <1>7, <1>8, <1>9, <1>10, <1>11, <1>13, <1>14, <1>15
    DEF Next, Client, Server

(* The client and the server transaction, over a network that loses and
   repeats, implement the exchange of SipExchange: one request, one answer,
   one result, with the invariant as the condition of every step. *)
THEOREM ExchangeImplemented == Spec => Implements
<1>1. Init => TransInv
  BY TransInitInv
<1>2. TransInv /\ [Next]_vars => TransInv'
  BY TransNextInv
<1>3. Init => Exchange!Init
  BY DEF Init, Exchange!Init, Branch
<1>4. TransInv /\ TransInv' /\ [Next]_vars => [Exchange!Next]_(Exchange!vars)
  BY StepRefines
<1> QED
  BY <1>1, <1>2, <1>3, <1>4, PTL DEF Spec, Implements, Exchange!Spec
=============================================================================
