---------------------------- MODULE MCSipUplink ----------------------------
(* Instances of SipUplink, and statements of comments in SIPService.cpp     *)
(* that the code does not keep.                                             *)
EXTENDS SipUplink

(* HandleRegFail's comment: every further REGISTER counts the CSeq up.      *)
(* eXosip numbers its own retries from the challenged request and m_nCSeq   *)
(* does not hear of them.                                                   *)
CSeqCountsUp == ordered

(* HandleRegFail's other comment: without an answer, or with a failing one, *)
(* the failure of the registration is returned.  The process ends in the    *)
(* handler instead.                                                         *)
FailureReturned ==
    [][handling.code \in {403, 0} /\ handling' = NoEvent => alive']_vars
=============================================================================
