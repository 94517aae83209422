------------------------- MODULE PlatformRegProofs -------------------------
(***************************************************************************)
(* Proofs about PlatformReg for every value of its constants: the type     *)
(* invariant, that no call outlives the registration, the bound on the     *)
(* silence of a registered platform, and the back-off between REGISTERs.   *)
(***************************************************************************)
EXTENDS PlatformReg, TLAPS

(* GenerateCSeq yields a UINT that is not 0, and AsInt makes an int of it. *)
LEMMA GenerateCSeqType ==
  ASSUME NEW u \in UInts PROVE GenerateCSeq(u) \in UInts /\ AsInt(u) \in Ints
<1>1. u + 1 <= UIntMax + 1 /\ UIntMax \in Nat /\ u \in Nat /\ UIntMax = 2 * IntMax + 1
  BY SeqAssumption DEF UInts, UIntMax
<1>2. (u + 1) % (UIntMax + 1) \in UInts
  BY <1>1 DEF UInts
<1>3. 1 \in UInts
  BY <1>1, SeqAssumption DEF UInts
<1>4. GenerateCSeq(u) \in UInts
  BY <1>2, <1>3 DEF GenerateCSeq
<1>5. u <= 2 * IntMax + 1 /\ IntMax \in Nat
  BY <1>1, SeqAssumption DEF UInts
<1> QED
  BY <1>1, <1>4, <1>5 DEF AsInt, Ints

(* Blocks for App_to_Sipcom. *)
LEMMA OutMsgType ==
  ASSUME NEW cmd \in OutCmds, NEW u \in UInts PROVE OutMsg(cmd, u) \in OutBlock
<1>1. AsInt(u) \in Ints /\ 0 \in Ints
  BY GenerateCSeqType, SeqAssumption DEF Ints
<1> QED
  BY <1>1 DEF OutMsg, OutBlock

(* SendShared's push keeps App_to_Sipcom a queue of blocks within its      *)
(* capacity.                                                               *)
LEMMA PushedType ==
  ASSUME NEW q \in Seq(OutBlock), Len(q) <= OutCap, NEW m \in OutBlock
  PROVE  Pushed(q, m) \in Seq(OutBlock) /\ Len(Pushed(q, m)) <= OutCap
<1>1. Append(q, m) \in Seq(OutBlock) /\ Len(Append(q, m)) = Len(q) + 1 /\ Len(q) \in Nat
  OBVIOUS
<1> QED
  BY <1>1, CapAssumption DEF Pushed

(* What fits of a block into Sipcom_to_App. *)
LEMMA InFitsType ==
  ASSUME TypeOK, NEW m \in InBlock
  PROVE  InFits(m) \in Seq(InBlock) /\ Len(InFits(m)) <= InCap
<1>1. toApp \in Seq(InBlock) /\ Len(toApp) \in Nat /\ Len(toApp) <= InCap
  BY DEF TypeOK
<1>2. Append(toApp, m) \in Seq(InBlock) /\ Len(Append(toApp, m)) = Len(toApp) + 1
  BY <1>1
<1> QED
  BY <1>1, <1>2, CapAssumption DEF InFits

(* What comes back for a block of App_to_Sipcom is a block. *)
LEMMA AnswersType ==
  ASSUME NEW m \in OutBlock, NEW a \in Answers(m)
  PROVE  a \in InBlock
<1>1. AnyCall \in Calls
  BY CapAssumption DEF AnyCall
<1>2. m.seq \in Ints /\ 0 \in Ints
  BY SeqAssumption DEF OutBlock, Ints
<1>3. \A c \in InCmds, s \in Ints : Answer(c, s) \in InBlock
  BY <1>1 DEF Answer, InBlock
<1>4. CASE m.cmd \in {"REGISTER", "UNREGISTER"}
  BY <1>2, <1>3, <1>4 DEF Answers, InCmds
<1>5. CASE m.cmd \in {"KEEPALIVE", "DEVICE"}
  BY <1>2, <1>3, <1>5 DEF Answers, InCmds
<1>6. CASE m.cmd = "EXIT"
  BY <1>6 DEF Answers
<1> QED
  BY <1>4, <1>5, <1>6 DEF OutBlock, OutCmds

(* Taking the head off a queue leaves a queue. *)
LEMMA TailType ==
  ASSUME NEW S, NEW q \in Seq(S), q # <<>>
  PROVE  /\ Tail(q) \in Seq(S) /\ Len(Tail(q)) = Len(q) - 1 /\ Len(q) \in Nat
         /\ Head(q) \in S
OBVIOUS

(* Every step keeps the types: CSIPCom's state stays within its ranges     *)
(* whatever the SIP process answers.                                       *)
LEMMA TypeStep == TypeOK /\ [Next]_vars => TypeOK'
<1> SUFFICES ASSUME TypeOK, [Next]_vars PROVE TypeOK'
  OBVIOUS
<1> USE IntervalAssumption, CapAssumption, LoopAssumption DEF unit, ghost, Off
<1>0. /\ GenerateCSeq(unSeq) \in UInts /\ KeepaliveSeq \in UInts /\ KeepaliveSent \in UInts
      /\ GenerateCSeq(KeepaliveSent) \in UInts /\ AsInt(KeepaliveSeq) \in Ints
  <2>1. GenerateCSeq(unSeq) \in UInts
    BY GenerateCSeqType DEF TypeOK
  <2>2. KeepaliveSeq \in UInts
    BY <2>1 DEF KeepaliveSeq
  <2>3. KeepaliveSent \in UInts
    BY <2>2, GenerateCSeqType DEF KeepaliveSent
  <2> QED
    BY <2>1, <2>2, <2>3, GenerateCSeqType
<1>p. \A cmd \in OutCmds, u \in UInts :
        /\ Pushed(toSip, OutMsg(cmd, u)) \in Seq(OutBlock)
        /\ Len(Pushed(toSip, OutMsg(cmd, u))) <= OutCap
  BY PushedType, OutMsgType DEF TypeOK
<1>1. CASE TimerIdle
  BY <1>1 DEF TypeOK, TimerIdle, TimerRan
<1>r. /\ ResponseTime \in Off .. ResponseTime /\ Off \in Off .. ResponseTime
      /\ KeepaliveInterval \in 0 .. KeepaliveInterval /\ 0 \in 0 .. KeepaliveInterval
      /\ ExpiryInterval \in 0 .. ExpiryInterval /\ 0 \in 0 .. SilenceCap /\ 0 \in 0 .. LoopMax
  BY DEF SilenceCap
<1>s. SendRegister => /\ unSeq' \in UInts /\ toSip' \in Seq(OutBlock) /\ Len(toSip') <= OutCap
                      /\ sinceReg' \in 0 .. KeepaliveInterval
  BY <1>0, <1>p, <1>r DEF SendRegister, SendShared, OutCmds
<1>k. Keepalive => /\ unSeq' \in UInts /\ toSip' \in Seq(OutBlock) /\ Len(toSip') <= OutCap
                   /\ respIn' \in Off .. ResponseTime /\ lastKA' \in Ints
  BY <1>0, <1>p, <1>r DEF Keepalive, OutCmds
<1>2. CASE TimerRegister
  BY <1>r, <1>s, <1>2, Zenon DEF TypeOK, TimerRegister, TimerRan, SetPlatformStatus
<1>3. CASE TimerLost
  BY <1>r, <1>3, Zenon DEF TypeOK, TimerLost, TimerRan, SetPlatformStatus
<1>4. CASE TimerKeepalive
  BY <1>r, <1>k, <1>4, Zenon DEF TypeOK, TimerKeepalive, TimerRan
<1>5. CASE TimerRenew
  BY <1>r, <1>s, <1>5, Zenon DEF TypeOK, TimerRenew, TimerRan
<1>6. CASE TimerKeepaliveRenew
  <2> DEFINE q == Pushed(toSip, OutMsg("KEEPALIVE", KeepaliveSent))
  <2> DEFINE m == OutMsg("REGISTER", GenerateCSeq(KeepaliveSent))
  <2>1. q \in Seq(OutBlock) /\ Len(q) <= OutCap
    BY <1>0, <1>p DEF OutCmds
  <2>2. m \in OutBlock
    BY <1>0, OutMsgType DEF OutCmds
  <2>3. /\ toSip' = Pushed(q, m)
        /\ lastKA' = AsInt(KeepaliveSeq) /\ unSeq' = GenerateCSeq(KeepaliveSent)
    BY <1>6 DEF TimerKeepaliveRenew
  <2> HIDE DEF m, q
  <2>4. Pushed(q, m) \in Seq(OutBlock) /\ Len(Pushed(q, m)) <= OutCap
    BY <2>1, <2>2, PushedType
  <2> QED
    BY <1>0, <2>3, <2>4, <1>6 DEF TypeOK, TimerKeepaliveRenew, TimerRan
<1>7. CASE Drain
  <2>1. ASSUME NEW cmds, Pop(cmds)
        PROVE  /\ toApp' \in Seq(InBlock) /\ Len(toApp') <= InCap
               /\ Head(toApp).call \in Calls
               /\ UNCHANGED <<phase, away, devMsg, main>>
    <3>1. toApp \in Seq(InBlock) /\ toApp # <<>> /\ toApp' = Tail(toApp) /\ Len(toApp) <= InCap
      BY <2>1 DEF Pop, TypeOK
    <3>2. Tail(toApp) \in Seq(InBlock) /\ Len(Tail(toApp)) = Len(toApp) - 1
          /\ Len(toApp) \in Nat /\ Head(toApp) \in InBlock
      BY <3>1, TailType
    <3> QED
      BY <2>1, <3>1, <3>2 DEF Pop, InBlock
  <2>2. CASE RecvRefused
    BY <2>1, <2>2 DEF TypeOK, RecvRefused
  <2>3. CASE RecvPassedOn
    BY <2>1, <2>3 DEF TypeOK, RecvPassedOn
  <2>4. CASE RecvMessageResponse
    BY <2>1, <2>4 DEF TypeOK, RecvMessageResponse, SilenceCap
  <2>5. CASE RecvInvite
    BY <2>1, <2>5 DEF TypeOK, RecvInvite
  <2>6. CASE RecvRegisterSuccess
    BY <1>r, <1>k, <2>1, <2>6, Zenon DEF TypeOK, RecvRegisterSuccess, SetPlatformStatus
  <2>7. CASE RecvRegisterFail
    BY <2>1, <2>7 DEF TypeOK, RecvRegisterFail, SetPlatformStatus
  <2>8. CASE DrainDone
    BY <2>8 DEF TypeOK, DrainDone
  <2> QED
    BY <1>7, <2>2, <2>3, <2>4, <2>5, <2>6, <2>7, <2>8 DEF Drain
<1>8. CASE HandleMsgCheck
  BY <1>8 DEF TypeOK, HandleMsgCheck
<1>9. CASE HandleMsgSend
  BY <1>0, <1>p, <1>9 DEF TypeOK, HandleMsgSend, SendShared, OutCmds
<1>10. CASE Unregister
  BY <1>0, <1>p, <1>10 DEF TypeOK, Unregister, SendShared, OutCmds
<1>11. CASE ExitSubprocess
  BY <1>0, <1>p, <1>11 DEF TypeOK, ExitSubprocess, SendShared, OutCmds
<1>12. CASE SipAnswers
  <2>1. toSip \in Seq(OutBlock) /\ toSip # <<>>
    BY <1>12 DEF TypeOK, SipAnswers
  <2>2. Tail(toSip) \in Seq(OutBlock) /\ Len(Tail(toSip)) = Len(toSip) - 1
        /\ Len(toSip) \in Nat /\ Head(toSip) \in OutBlock
    BY <2>1, TailType
  <2>3. PICK a \in Answers(Head(toSip)) : toApp' = InFits(a)
    BY <1>12 DEF SipAnswers
  <2>4. a \in InBlock
    BY <2>2, AnswersType
  <2>5. toApp' \in Seq(InBlock) /\ Len(toApp') <= InCap
    BY <2>3, <2>4, InFitsType
  <2>6. toSip' \in Seq(OutBlock) /\ Len(toSip') <= OutCap
    BY <1>12, <2>2 DEF SipAnswers, TypeOK
  <2> QED
    BY <1>12, <2>5, <2>6 DEF SipAnswers, TypeOK
<1>13. CASE SipSilent
  <2>1. toSip \in Seq(OutBlock) /\ toSip # <<>>
    BY <1>13 DEF TypeOK, SipSilent
  <2>2. Tail(toSip) \in Seq(OutBlock) /\ Len(Tail(toSip)) = Len(toSip) - 1 /\ Len(toSip) \in Nat
    BY <2>1, TailType
  <2> QED
    BY <1>13, <2>2 DEF SipSilent, TypeOK
<1>14. CASE PlatformRequest
  <2>1. PICK k \in Requests, c \in Calls : toApp' = InFits([cmd |-> k, seq |-> 0, call |-> c])
    BY <1>14 DEF PlatformRequest
  <2>2. [cmd |-> k, seq |-> 0, call |-> c] \in InBlock
    BY RequestAssumption, SeqAssumption DEF InBlock, InCmds, Ints
  <2>3. toApp' \in Seq(InBlock) /\ Len(toApp') <= InCap
    BY <2>1, <2>2, InFitsType
  <2> QED
    BY <1>14, <2>3 DEF PlatformRequest, TypeOK
<1>15. CASE Tick
  <2>1. kaIn' \in 0 .. KeepaliveInterval /\ expIn' \in 0 .. ExpiryInterval
    BY <1>15 DEF TypeOK, Tick
  <2>2. respIn' \in Off .. ResponseTime
    BY <1>15 DEF TypeOK, Tick
  <2>3. silence' \in 0 .. SilenceCap
    BY <1>15 DEF TypeOK, Tick, UpTo, SilenceCap
  <2>4. sinceReg' \in 0 .. KeepaliveInterval
    BY <1>15 DEF TypeOK, Tick, UpTo
  <2>5. away' \in 0 .. LoopMax
    BY <1>15 DEF TypeOK, Tick
  <2> QED
    BY <1>15, <2>1, <2>2, <2>3, <2>4, <2>5 DEF TypeOK, Tick
<1>16. CASE UNCHANGED vars
  BY <1>16 DEF TypeOK, vars
<1> QED
  BY <1>1, <1>2, <1>3, <1>4, <1>5, <1>6, <1>7, <1>8, <1>9, <1>10, <1>11, <1>12, <1>13,
     <1>14, <1>15, <1>16 DEF Next, HandleShared, RegisterTimerProc, StopSubprocess

(* The type invariant: every variable of the registration state machine,   *)
(* its three deadlines and both queues stay in range for every choice of   *)
(* intervals, capacities and mode.                                         *)
THEOREM TypeCorrect == Spec => []TypeOK
<1>1. Init => TypeOK
  <2> SUFFICES ASSUME Init PROVE TypeOK
    OBVIOUS
  <2> USE IntervalAssumption, SeqAssumption, CapAssumption, LoopAssumption DEF Init
  <2>1. kaIn \in 0 .. KeepaliveInterval /\ expIn \in 0 .. ExpiryInterval
    OBVIOUS
  <2>2. respIn \in Off .. ResponseTime
    BY DEF Off
  <2>3. unSeq \in UInts /\ lastKA \in Ints /\ away \in 0 .. LoopMax
    BY DEF UInts, UIntMax
  <2>4. silence \in 0 .. SilenceCap /\ sinceReg \in 0 .. KeepaliveInterval
    BY DEF SilenceCap
  <2>5. toSip \in Seq(OutBlock) /\ Len(toSip) <= OutCap
    OBVIOUS
  <2>6. toApp \in Seq(InBlock) /\ Len(toApp) <= InCap
    OBVIOUS
  <2> QED
    BY <2>1, <2>2, <2>3, <2>4, <2>5, <2>6 DEF TypeOK
<1> QED
  BY <1>1, TypeStep, PTL DEF Spec

-----------------------------------------------------------------------------
(* No step leaves a call playing without a registration: calls start only  *)
(* behind HandleShared's login filter, and both ways out of REGISTERED     *)
(* stop them all.                                                          *)
LEMMA NoOrphanStep == NoOrphanPlay /\ [Next]_vars => NoOrphanPlay'
<1> SUFFICES ASSUME NoOrphanPlay, [Next]_vars PROVE NoOrphanPlay'
  OBVIOUS
<1> USE DEF NoOrphanPlay, unit
<1>1. CASE RegisterTimerProc
  BY <1>1 DEF RegisterTimerProc, TimerIdle, TimerRegister, TimerLost, TimerKeepalive,
     TimerRenew, TimerKeepaliveRenew, SetPlatformStatus
<1>2. CASE Drain
  BY <1>2 DEF Drain, RecvRefused, RecvPassedOn, RecvMessageResponse, RecvInvite,
     RecvRegisterSuccess, RecvRegisterFail, DrainDone, SetPlatformStatus, Accepted, Pop
<1>3. CASE HandleMsgCheck \/ HandleMsgSend \/ StopSubprocess
  BY <1>3 DEF HandleMsgCheck, HandleMsgSend, StopSubprocess, Unregister, ExitSubprocess
<1>4. CASE SipAnswers \/ SipSilent \/ PlatformRequest \/ Tick \/ UNCHANGED vars
  BY <1>4 DEF SipAnswers, SipSilent, PlatformRequest, Tick, vars
<1> QED
  BY <1>1, <1>2, <1>3, <1>4 DEF Next, HandleShared

(* While a lower gateway is not registered, RTSPCOM has been told to stop  *)
(* every call the platform started.                                        *)
THEOREM NoOrphanPlayHolds == Spec => []NoOrphanPlay
<1>1. Init => NoOrphanPlay
  BY DEF Init, NoOrphanPlay
<1> QED
  BY <1>1, NoOrphanStep, PTL DEF Spec

-----------------------------------------------------------------------------
(* The two deadlines and the seconds of silence move together in every     *)
(* step of a registered gateway.                                           *)
LEMMA SilenceStep == TypeOK /\ SilenceInv /\ [Next]_vars => SilenceInv'
<1> SUFFICES ASSUME TypeOK, SilenceInv, [Next]_vars, Mode # 1, (status = "REGISTERED")'
             PROVE  SilenceInv'
  BY DEF SilenceInv
<1>0. /\ kaIn \in 0 .. KeepaliveInterval /\ respIn \in -2 .. ResponseTime
      /\ silence \in 0 .. KeepaliveInterval + ResponseTime + 2 * LoopMax
      /\ KeepaliveInterval \in Nat /\ ResponseTime \in Nat
      /\ 0 < ResponseTime /\ ResponseTime < KeepaliveInterval
      /\ LoopMax \in Nat /\ LoopMax > 0 /\ away \in 0 .. LoopMax
  BY IntervalAssumption, LoopAssumption DEF TypeOK, SilenceCap, Off
<1> USE <1>0 DEF SilenceInv, unit, ghost, Off
<1>1. CASE TimerIdle
  BY <1>1 DEF TimerIdle, TimerRan, ResponseOverdue, KeepaliveDue
<1>2. CASE TimerRegister \/ TimerLost
  BY <1>2 DEF TimerRegister, TimerLost, SetPlatformStatus
<1>3. CASE TimerKeepalive
  BY <1>3 DEF TimerKeepalive, TimerRan, Keepalive, ResponseOverdue, KeepaliveDue
<1>4. CASE TimerRenew
  BY <1>4 DEF TimerRenew, TimerRan, SendRegister, ResponseOverdue, KeepaliveDue
<1>5. CASE TimerKeepaliveRenew
  BY <1>5 DEF TimerKeepaliveRenew, TimerRan, ResponseOverdue, KeepaliveDue
<1>6. CASE RecvRefused \/ RecvPassedOn \/ RecvInvite \/ DrainDone
  BY <1>6 DEF RecvRefused, RecvPassedOn, RecvInvite, DrainDone, Pop
<1>7. CASE RecvMessageResponse
  BY <1>7 DEF RecvMessageResponse, Pop
<1>8. CASE RecvRegisterSuccess
  BY <1>8 DEF RecvRegisterSuccess, SetPlatformStatus, Keepalive, Pop
<1>9. CASE RecvRegisterFail
  BY <1>9 DEF RecvRegisterFail, SetPlatformStatus
<1>10. CASE HandleMsgCheck \/ HandleMsgSend \/ StopSubprocess
  BY <1>10 DEF HandleMsgCheck, HandleMsgSend, StopSubprocess, Unregister, ExitSubprocess
<1>11. CASE SipAnswers \/ SipSilent \/ PlatformRequest \/ UNCHANGED vars
  BY <1>11 DEF SipAnswers, SipSilent, PlatformRequest, vars
<1>12. CASE Tick
  <2>1. /\ away < LoopMax /\ away' = away + 1 /\ status = "REGISTERED"
        /\ kaIn' = IF kaIn > 0 THEN kaIn - 1 ELSE 0
        /\ respIn' = IF respIn >= 0 THEN respIn - 1 ELSE respIn
        /\ silence' = UpTo(silence, SilenceCap)
    BY <1>12 DEF Tick
  <2>2. silence' <= silence + 1 /\ silence' \in Int
    BY <2>1 DEF UpTo, SilenceCap
  <2>3. CASE respIn = -2
    BY <2>1, <2>2, <2>3
  <2>4. CASE respIn = -1
    BY <2>1, <2>2, <2>4
  <2>5. CASE respIn >= 0
    <3>1. kaIn > 0
      BY <2>1, <2>5
    <3>2. kaIn' = kaIn - 1 /\ respIn' = respIn - 1
      BY <2>1, <2>5, <3>1
    <3> QED
      BY <2>1, <2>2, <2>5, <3>2
  <2> QED
    BY <2>3, <2>4, <2>5
<1> QED
  BY <1>1, <1>2, <1>3, <1>4, <1>5, <1>6, <1>7, <1>8, <1>9, <1>10, <1>11, <1>12
  DEF Next, HandleShared, RegisterTimerProc, Drain

(* A gateway that counts as registered has heard from its platform within  *)
(* one keepalive interval, one response time and two rounds of             *)
(* HandleShared, for every pair of intervals of which the first is the     *)
(* longer and however long a round may take.                               *)
THEOREM SilenceBounded == Spec => []SilenceBound
<1>1. Init => SilenceInv
  BY DEF Init, SilenceInv
<1>2. TypeOK /\ SilenceInv => SilenceBound
  BY IntervalAssumption, LoopAssumption DEF TypeOK, SilenceInv, SilenceBound, SilenceCap, Off
<1> QED
  BY <1>1, <1>2, SilenceStep, TypeCorrect, PTL DEF Spec

-----------------------------------------------------------------------------
(* In every step the time since the last REGISTER keeps covering what has  *)
(* passed of the deadline the next one waits for.                          *)
LEMMA BackoffStep == TypeOK /\ BackoffInv /\ [Next]_vars => BackoffInv'
<1> SUFFICES ASSUME TypeOK, BackoffInv, [Next]_vars PROVE BackoffInv'
  OBVIOUS
<1>0. /\ kaIn \in 0 .. KeepaliveInterval /\ expIn \in 0 .. ExpiryInterval
      /\ sinceReg \in 0 .. KeepaliveInterval
      /\ KeepaliveInterval \in Nat /\ ExpiryInterval \in Nat
      /\ 10 * KeepaliveInterval <= 9 * ExpiryInterval
  BY IntervalAssumption DEF TypeOK
<1> USE <1>0 DEF BackoffInv, unit, ghost
<1>1. CASE RegisterTimerProc
  BY <1>1 DEF RegisterTimerProc, TimerIdle, TimerRegister, TimerLost, TimerKeepalive,
     TimerRenew, TimerKeepaliveRenew, SetPlatformStatus, SendRegister
<1>2. CASE Drain
  BY <1>2 DEF Drain, RecvRefused, RecvPassedOn, RecvMessageResponse, RecvInvite,
     RecvRegisterSuccess, RecvRegisterFail, DrainDone, SetPlatformStatus, Pop
<1>3. CASE HandleMsgCheck \/ HandleMsgSend \/ StopSubprocess
  BY <1>3 DEF HandleMsgCheck, HandleMsgSend, StopSubprocess, Unregister, ExitSubprocess
<1>4. CASE SipAnswers \/ SipSilent \/ PlatformRequest \/ UNCHANGED vars
  BY <1>4 DEF SipAnswers, SipSilent, PlatformRequest, vars
<1>5. CASE Tick
  BY <1>5 DEF Tick, UpTo
<1> QED
  BY <1>1, <1>2, <1>3, <1>4, <1>5 DEF Next, HandleShared

(* A push of another command does not end the queue with a REGISTER. *)
LEMMA PushedLast ==
  ASSUME NEW q \in Seq(OutBlock), NEW m \in OutBlock, m.cmd # "REGISTER",
         Len(Pushed(q, m)) > Len(q)
  PROVE  Pushed(q, m)[Len(Pushed(q, m))].cmd # "REGISTER"
<1>1. Len(q) \in Nat /\ ~(Len(q) > Len(q))
  OBVIOUS
<1>2. Pushed(q, m) = Append(q, m)
  BY <1>1 DEF Pushed
<1>3. Append(q, m)[Len(Append(q, m))] = m
  BY <1>1
<1> QED
  BY <1>2, <1>3

(* A keepalive is due a whole interval after a REGISTER, a renewal nine    *)
(* tenths of the expiry after it: in both cases the back-off has passed.   *)
LEMMA SpacedStep == TypeOK /\ BackoffInv /\ [Next]_vars => [RegisterSpaced]_vars
<1> SUFFICES ASSUME TypeOK, BackoffInv, Next, Len(toSip') > Len(toSip),
                    toSip'[Len(toSip')].cmd = "REGISTER"
             PROVE  sinceReg = KeepaliveInterval
  BY DEF RegisterSpaced
<1>0. /\ kaIn \in 0 .. KeepaliveInterval /\ expIn \in 0 .. ExpiryInterval
      /\ sinceReg \in 0 .. KeepaliveInterval
      /\ KeepaliveInterval \in Nat /\ ExpiryInterval \in Nat
      /\ 10 * KeepaliveInterval <= 9 * ExpiryInterval
      /\ toSip \in Seq(OutBlock) /\ Len(toSip) \in Nat
  BY IntervalAssumption DEF TypeOK
<1>1. ASSUME NEW cmd \in OutCmds \ {"REGISTER"}, NEW u \in UInts,
             toSip' = Pushed(toSip, OutMsg(cmd, u))
      PROVE  FALSE
  <2>1. OutMsg(cmd, u) \in OutBlock /\ OutMsg(cmd, u).cmd # "REGISTER"
    BY OutMsgType DEF OutMsg
  <2> QED
    BY <1>0, <1>1, <2>1, PushedLast
<1>g. GenerateCSeq(unSeq) \in UInts
  BY GenerateCSeqType DEF TypeOK
<1>k. KeepaliveSent \in UInts
  BY <1>g, GenerateCSeqType DEF KeepaliveSent, KeepaliveSeq
<1>2. ASSUME toSip' = toSip PROVE FALSE
  BY <1>0, <1>2
<1>3. ASSUME toSip # <<>>, toSip' = Tail(toSip) PROVE FALSE
  <2>1. Len(Tail(toSip)) = Len(toSip) - 1
    BY <1>0, <1>3, TailType
  <2> QED
    BY <1>0, <1>3, <2>1
<1>4. CASE TimerRegister
  BY <1>0, <1>4 DEF TimerRegister, KeepaliveDue, BackoffInv
<1>5. CASE TimerRenew \/ TimerKeepaliveRenew
  BY <1>0, <1>5 DEF TimerRenew, TimerKeepaliveRenew, ExpiryDue, BackoffInv
<1>6. CASE TimerKeepalive \/ RecvRegisterSuccess
  BY <1>1, <1>k, <1>6 DEF TimerKeepalive, RecvRegisterSuccess, Keepalive, OutCmds
<1>7. CASE TimerIdle \/ TimerLost
  BY <1>2, <1>7 DEF TimerIdle, TimerLost
<1>8. CASE RecvRefused \/ RecvPassedOn \/ RecvMessageResponse \/ RecvInvite
           \/ RecvRegisterFail \/ DrainDone
  BY <1>2, <1>8 DEF RecvRefused, RecvPassedOn, RecvMessageResponse, RecvInvite,
     RecvRegisterFail, DrainDone
<1>9. CASE HandleMsgCheck \/ PlatformRequest \/ Tick
  BY <1>2, <1>9 DEF HandleMsgCheck, PlatformRequest, Tick
<1>10. CASE HandleMsgSend \/ Unregister \/ ExitSubprocess
  BY <1>1, <1>g, <1>10 DEF HandleMsgSend, Unregister, ExitSubprocess, SendShared, OutCmds
<1>11. CASE SipAnswers \/ SipSilent
  BY <1>3, <1>11 DEF SipAnswers, SipSilent
<1> QED
  BY <1>4, <1>5, <1>6, <1>7, <1>8, <1>9, <1>10, <1>11
  DEF Next, HandleShared, RegisterTimerProc, Drain, StopSubprocess

(* RegisterTimerProc never sends two REGISTERs within one keepalive        *)
(* interval, for every choice of intervals that the assumptions allow.     *)
THEOREM RegisterBackoffHolds == Spec => RegisterBackoff
<1>1. Init => BackoffInv
  BY IntervalAssumption DEF Init, BackoffInv
<1> QED
  BY <1>1, BackoffStep, SpacedStep, TypeCorrect, PTL DEF Spec, RegisterBackoff

=============================================================================
