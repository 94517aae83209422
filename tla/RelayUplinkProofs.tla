-------------------------- MODULE RelayUplinkProofs --------------------------
(***************************************************************************)
(* Proofs about RelayUplink for every timer period, keepalive interval and *)
(* expiry.  KeepaliveGap alone is not inductive: how old the last          *)
(* keepalive may be depends on how long the timer still sleeps, which      *)
(* KeepaliveInv adds.  KeepaliveAfterAccept needs the two places where an  *)
(* acceptance is remembered on its way, AcceptInv.  That the binding runs  *)
(* down rests on FreshInv: since the first REGISTER, timLastRegister has   *)
(* never been older than the timer's last pass.                            *)
(***************************************************************************)
EXTENDS RelayUplink, TLAPS

(* Every action leaves the variables of TypeOK in their types. *)
THEOREM TypeCorrect == Spec => []TypeOK
<1>1. Init => TypeOK
  <2> SUFFICES ASSUME Init PROVE TypeOK
    OBVIOUS
  <2>1. accepted \in BOOLEAN /\ kept \in BOOLEAN /\ alive \in BOOLEAN
    BY Zenon DEF Init
  <2>2. /\ regAge \in 0 .. Expires /\ kaAge \in {Never} \cup 0 .. AgeCap
        /\ wake \in 0 .. Period /\ binding \in 0 .. Expires
    BY RelayAssumption DEF Init, AgeCap, Never
  <2>3. /\ nStatus \in {"NOT_REGISTER", "SUCCESS"} /\ pass \in {"asleep", "keepalive"}
        /\ request \in {"none", "sent"} /\ events \subseteq {"accepted", "challenged", "refused", "silent"}
    BY DEF Init
  <2> QED
    BY <2>1, <2>2, <2>3, Zenon DEF TypeOK
<1>2. TypeOK /\ [Next]_vars => TypeOK'
  <2> SUFFICES ASSUME TypeOK, [Next]_vars PROVE TypeOK'
    OBVIOUS
  <2> USE RelayAssumption DEF TypeOK, AgeCap, Never
  <2>1. CASE TimerRegister
    <3>1. UNCHANGED <<nStatus, kaAge, wake, binding, accepted, kept, alive>>
      BY <2>1 DEF TimerRegister
    <3>2. /\ regAge' \in 0 .. Expires /\ pass' \in {"asleep", "keepalive"}
          /\ request' \in {"none", "sent"}
          /\ events' \subseteq {"accepted", "challenged", "refused", "silent"}
      <4>1. regAge' = 0 /\ pass' = "keepalive"
        BY <2>1 DEF TimerRegister
      <4>2. \/ request' = request /\ events' = events
            \/ request' = "sent" /\ events' = events \ {"challenged"}
        BY <2>1 DEF TimerRegister
      <4>3. request' \in {"none", "sent"}
        BY <4>2
      <4>4. events' \subseteq {"accepted", "challenged", "refused", "silent"}
        BY <4>2, Zenon
      <4> QED
        BY <4>1, <4>3, <4>4
    <3> QED
      BY <3>1, <3>2, Zenon
  <2>2. CASE TimerRegisterFails
    <3>1. UNCHANGED <<nStatus, kaAge, wake, binding, accepted, kept, alive>>
      BY <2>2 DEF TimerRegisterFails
    <3>2. /\ regAge' \in 0 .. Expires /\ pass' \in {"asleep", "keepalive"}
          /\ request' \in {"none", "sent"}
          /\ events' \subseteq {"accepted", "challenged", "refused", "silent"}
      BY <2>2 DEF TimerRegisterFails
    <3> QED
      BY <3>1, <3>2, Zenon
  <2>3. CASE TimerKeepalive
    <3>1. kept' = kept \/ kept' = TRUE
      BY <2>3, Zenon DEF TimerKeepalive
    <3>2. kept' \in BOOLEAN
      BY <3>1, Zenon
    <3>3. kaAge' \in {Never} \cup 0 .. AgeCap /\ wake' \in 0 .. Period
      BY <2>3 DEF TimerKeepalive
    <3> QED
      BY <2>3, <3>2, <3>3, Zenon DEF TimerKeepalive
  <2>4. CASE OnRegisterToSucess
    BY <2>4 DEF OnRegisterToSucess
  <2>5. CASE HandleChallenge
    <3>1. request' \in {"none", "sent"}
      BY <2>5 DEF HandleChallenge
    <3> QED
      BY <2>5, <3>1, Zenon DEF HandleChallenge
  <2>6. CASE HandleRegFail
    BY <2>6 DEF HandleRegFail
  <2>7. CASE HandleNoAnswer
    BY <2>7, Zenon DEF HandleNoAnswer
  <2>8. CASE PlatformAccepts
    BY <2>8 DEF PlatformAccepts
  <2>9. CASE PlatformRefuses
    BY <2>9 DEF PlatformRefuses
  <2>10. CASE Tick
    BY <2>10 DEF Tick, Older
  <2>11. CASE UNCHANGED vars
    BY <2>11 DEF vars
  <2> QED
    BY <2>1, <2>2, <2>3, <2>4, <2>5, <2>6, <2>7, <2>8, <2>9, <2>10, <2>11 DEF Next
<1> QED
  BY <1>1, <1>2, PTL DEF Spec

(* The bound on the last keepalive's age that CirclingCheckingTask keeps,  *)
(* with the time the timer still sleeps taken off.                         *)
LEMMA KeepaliveInvHolds == Spec => []KeepaliveInv
<1>1. Init => KeepaliveInv
  BY RelayAssumption DEF Init, KeepaliveInv, Never
<1>2. TypeOK /\ KeepaliveInv /\ [Next]_vars => KeepaliveInv'
  <2> SUFFICES ASSUME TypeOK, KeepaliveInv, [Next]_vars PROVE KeepaliveInv'
    OBVIOUS
  <2> USE RelayAssumption DEF TypeOK, KeepaliveInv, AgeCap, Never
  <2>1. CASE TimerRegister \/ TimerRegisterFails
    BY <2>1 DEF TimerRegister, TimerRegisterFails
  <2>2. CASE TimerKeepalive
    <3>1. CASE nStatus = "SUCCESS" /\ KeepaliveDue
      BY <2>2, <3>1 DEF TimerKeepalive
    <3>2. CASE ~(nStatus = "SUCCESS" /\ KeepaliveDue)
      <4>1. CASE nStatus = "SUCCESS"
        BY <2>2, <3>2, <4>1 DEF TimerKeepalive, KeepaliveDue
      <4>2. CASE nStatus # "SUCCESS"
        BY <2>2, <4>2 DEF TimerKeepalive
      <4> QED
        BY <4>1, <4>2
    <3> QED
      BY <3>1, <3>2
  <2>3. CASE Tick
    BY <2>3 DEF Tick, Older
  <2>4. CASE UNCHANGED <<kaAge, wake, pass, nStatus>>
    BY <2>4
  <2>5. CASE OnRegisterToSucess
    BY <2>5 DEF OnRegisterToSucess
  <2> QED
    BY <2>1, <2>2, <2>3, <2>4, <2>5
    DEF Next, vars, HandleChallenge, HandleRegFail, HandleNoAnswer,
        PlatformAccepts, PlatformRefuses
<1> QED
  BY <1>1, <1>2, TypeCorrect, PTL DEF Spec

(* Two keepalives of a registered relay are less than one interval and one *)
(* timer period apart, whatever the two are.                               *)
THEOREM KeepaliveGapHolds == Spec => []KeepaliveGap
<1>1. TypeOK /\ KeepaliveInv => KeepaliveGap
  BY RelayAssumption DEF TypeOK, KeepaliveInv, KeepaliveGap, AgeCap, Never
<1> QED
  BY <1>1, TypeCorrect, KeepaliveInvHolds, PTL

(* No keepalive goes to a platform that has not accepted the relay: the    *)
(* status NeedSendkeepAlive reads was set by a 200 of the platform.        *)
THEOREM KeepaliveAfterAcceptHolds == Spec => []KeepaliveAfterAccept
<1>1. Init => AcceptInv
  BY Zenon DEF Init, AcceptInv, KeepaliveAfterAccept
<1>2. AcceptInv /\ [Next]_vars => AcceptInv'
  <2> SUFFICES ASSUME AcceptInv, [Next]_vars PROVE AcceptInv'
    OBVIOUS
  <2> USE DEF AcceptInv, KeepaliveAfterAccept
  <2>1. CASE TimerRegister \/ TimerRegisterFails
    BY <2>1 DEF TimerRegister, TimerRegisterFails
  <2>2. CASE TimerKeepalive
    BY <2>2 DEF TimerKeepalive
  <2>3. CASE OnRegisterToSucess
    BY <2>3 DEF OnRegisterToSucess
  <2>4. CASE HandleChallenge \/ HandleRegFail \/ HandleNoAnswer
    BY <2>4 DEF HandleChallenge, HandleRegFail, HandleNoAnswer
  <2>5. CASE PlatformAccepts
    BY <2>5 DEF PlatformAccepts
  <2>6. CASE PlatformRefuses
    BY <2>6 DEF PlatformRefuses
  <2>7. CASE Tick
    BY <2>7 DEF Tick
  <2>8. CASE UNCHANGED vars
    BY <2>8 DEF vars
  <2> QED
    BY <2>1, <2>2, <2>3, <2>4, <2>5, <2>6, <2>7, <2>8 DEF Next
<1>3. AcceptInv => KeepaliveAfterAccept
  BY DEF AcceptInv
<1> QED
  BY <1>1, <1>2, <1>3, PTL DEF Spec

(* Once a REGISTER has been sent, timLastRegister is as old as the time    *)
(* since the timer's last pass: NeedSendRegister moves it on every pass.   *)
FreshInv ==
    /\ pass = "keepalive" => wake = 0 /\ regAge = 0
    /\ request = "sent" \/ events # {} \/ nStatus = "SUCCESS" => regAge <= Period - wake
LEMMA FreshInvHolds == Spec => []FreshInv
<1>1. Init => FreshInv
  BY RelayAssumption DEF Init, FreshInv
<1>2. TypeOK /\ FreshInv /\ [Next]_vars => FreshInv'
  <2> SUFFICES ASSUME TypeOK, FreshInv, [Next]_vars PROVE FreshInv'
    OBVIOUS
  <2> USE RelayAssumption DEF TypeOK, FreshInv
  <2>1. CASE TimerRegister \/ TimerRegisterFails
    BY <2>1 DEF TimerRegister, TimerRegisterFails
  <2>2. CASE TimerKeepalive
    <3>1. /\ pass = "keepalive" /\ pass' = "asleep" /\ wake' = Period
          /\ UNCHANGED <<nStatus, regAge, request, events>>
      BY <2>2 DEF TimerKeepalive
    <3> QED
      BY <3>1
  <2>3. CASE Tick
    BY <2>3 DEF Tick, Older
  <2>4. CASE OnRegisterToSucess
    BY <2>4 DEF OnRegisterToSucess
  <2>5. CASE HandleChallenge \/ HandleRegFail \/ HandleNoAnswer
    BY <2>5 DEF HandleChallenge, HandleRegFail, HandleNoAnswer
  <2>6. CASE PlatformAccepts
    BY <2>6 DEF PlatformAccepts
  <2>7. CASE PlatformRefuses
    BY <2>7 DEF PlatformRefuses
  <2>8. CASE UNCHANGED vars
    BY <2>8 DEF vars
  <2> QED
    BY <2>1, <2>2, <2>3, <2>4, <2>5, <2>6, <2>7, <2>8 DEF Next
<1> QED
  BY <1>1, <1>2, TypeCorrect, PTL DEF Spec

(* A relay whose timer runs more often than its registration expires never *)
(* registers again: the expiry that NeedSendRegister waits for is never    *)
(* reached, whatever the two are.                                          *)
THEOREM BindingRunsDownHolds ==
    ASSUME Period < Expires
    PROVE  Spec => BindingRunsDown
<1>1. TypeOK /\ FreshInv /\ [Next]_vars
      => [nStatus = "SUCCESS" /\ ~UnderWay
            => nStatus' = "SUCCESS" /\ ~UnderWay' /\ binding' <= binding]_vars
  <2> SUFFICES ASSUME TypeOK, FreshInv, Next, nStatus = "SUCCESS", ~UnderWay
               PROVE  nStatus' = "SUCCESS" /\ ~UnderWay' /\ binding' <= binding
    BY Zenon
  <2> USE RelayAssumption DEF TypeOK, FreshInv, UnderWay
  <2>1. CASE TimerRegister \/ TimerRegisterFails
    BY <2>1 DEF TimerRegister, TimerRegisterFails, Fresh
  <2>2. CASE TimerKeepalive
    BY <2>2 DEF TimerKeepalive
  <2>3. CASE Tick
    BY <2>3 DEF Tick
  <2>4. CASE OnRegisterToSucess
    BY <2>4 DEF OnRegisterToSucess
  <2>5. CASE HandleRegFail \/ HandleNoAnswer
    BY <2>5 DEF HandleRegFail, HandleNoAnswer
  <2> QED
    BY <2>1, <2>2, <2>3, <2>4, <2>5 DEF Next, HandleChallenge, PlatformAccepts, PlatformRefuses
<1> QED
  BY <1>1, FreshInvHolds, TypeCorrect, PTL DEF Spec, BindingRunsDown
=============================================================================
