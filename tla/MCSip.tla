------------------------------- MODULE MCSip -------------------------------
(* The SIP stack below the session: a transaction, a request with its DNS  *)
(* lookups, a registration, a subscription and a notifier.  Each is        *)
(* explored against its own environment; they share no variable, so part   *)
(* says which one a behaviour is about.                                    *)
EXTENDS SipTrans, SipLoop

CONSTANTS
  Parts,
  MaxSrv, MaxAddr, Transports, Family,   \* SipRequest
  Expires, Granted, MaxRegFailc, Word,   \* SipReg
  MaxSubFailc,                           \* SipSub
  MaxVersion                             \* SipNot

VARIABLES
  part,
  req, alive, reqUser,
  reg, regUser, bound,
  sub, subAns, subPeer, subApp, subClosed,
  not, mb, notAns, got, notPeer, notApp, notClosed, self

reqVars == <<req, alive, reqUser>>
regVars == <<reg, regUser, bound>>
subVars == <<sub, subAns, subPeer, subApp, subClosed>>
notVars == <<not, mb, notAns, got, notPeer, notApp, notClosed, self>>

Rq == INSTANCE SipRequest WITH user <- reqUser
Reg == INSTANCE SipReg WITH user <- regUser, MaxFailc <- MaxRegFailc
Sub == INSTANCE SipSub WITH
         ans <- subAns, peer <- subPeer, app <- subApp, closed <- subClosed,
         MaxFailc <- MaxSubFailc, Granted <- Expires
Not == INSTANCE SipNot WITH
         ans <- notAns, peer <- notPeer, app <- notApp, closed <- notClosed

ASSUME MCSipAssumption ==
  /\ Rq!SipRequestAssumption /\ Reg!SipRegAssumption
  /\ Sub!SipSubAssumption /\ Not!SipNotAssumption

MCMethod == {"INVITE", "OPTIONS"}
MCFinal == {"2xx", "4xx"}
MCFamily == {"A", "AAAA"}

(* With Word = 2^22, 4661 seconds overflow as 4772186 do in 32 bits. *)
MCExpires == {60, 4661}
MCGranted == {30, 4660}

sipVars == <<part, vars, reqVars, regVars, subVars, notVars>>

(* A part that is not explored has one state, in which it can do nothing:  *)
(* the transaction, the request and the registration before their first    *)
(* step, the other two after their last one.                               *)
SipInit ==
  /\ part \in Parts
  /\ Init /\ (part # "trans" => met = "INVITE" /\ reliable)
  /\ Rq!Init /\ Reg!Init
  /\ IF part = "sub" THEN Sub!Init
     ELSE sub = Sub!Freed /\ subAns = "none" /\ subPeer = "none" /\ subApp = FALSE /\ subClosed = 0
  /\ IF part = "not" THEN Not!Init
     ELSE /\ not = Not!Freed /\ mb = 0 /\ got = 0 /\ notAns = "none" /\ notPeer = "ended"
          /\ notApp = FALSE /\ notClosed = 0 /\ self = FALSE

SipNext ==
  /\ UNCHANGED part
  /\ \/ /\ part = "trans" /\ Next
        /\ UNCHANGED <<reqVars, regVars, subVars, notVars>>
     \/ /\ part = "request" /\ Rq!Next
        /\ UNCHANGED <<vars, regVars, subVars, notVars>>
     \/ /\ part = "reg" /\ Reg!Next
        /\ UNCHANGED <<vars, reqVars, subVars, notVars>>
     \/ /\ part = "sub" /\ Sub!Next
        /\ UNCHANGED <<vars, reqVars, regVars, notVars>>
     \/ /\ part = "not" /\ Not!Next
        /\ UNCHANGED <<vars, reqVars, regVars, subVars>>

(* No fair step is enabled in a part that is not explored, so the fairness *)
(* of a part says nothing of the behaviours of another.                    *)
SipSpec ==
  /\ SipInit /\ [][SipNext]_sipVars
  /\ Fairness /\ Rq!Fairness /\ Reg!Fairness /\ Sub!Fairness /\ Not!Fairness

----------------------------------------------------------------------------
(* sip_request: see SipRequest.RequestSafe. *)
RequestSafe == Rq!RequestSafe

(* sip_request ends: see SipRequest.Ends. *)
RequestEnds == Rq!Ends

(* sipreg, sipsub and sipnot keep going while they are wanted, and leave   *)
(* nothing behind: see RegSafe, SubSafe and NotSafe of their modules.      *)
EventSafe == Reg!RegSafe /\ Sub!SubSafe /\ Not!NotSafe

(* A registration, a subscription and a notifier that were let go are      *)
(* freed at last, when the last answer has come.                           *)
EventFreed == Reg!Freed /\ Sub!FreedAtLast /\ Not!FreedAtLast
=============================================================================
