---------------------------- MODULE PlatformReg ----------------------------
(***************************************************************************)
(* The gateway's registration with the upper platform: CSIPCom and its     *)
(* CSIPUnit in the application process (GB28181.Platform/SIPCom).          *)
(*                                                                         *)
(* Three threads touch this state.  pfnSharedQueueProc repeats             *)
(* HandleShared: run the timers, wait at most one second, drain the        *)
(* Sipcom_to_App queue.  pfnQueueProc runs HandleMsg for every message of  *)
(* the other modules.  The main thread calls StopSubprocess at exit.       *)
(*                                                                         *)
(* Deadlines are kept as the seconds that remain until them: the code      *)
(* compares m_tmKeepalive, m_tmExpiry and m_tmResponse only with time().   *)
(* Of the SIP process only what it may do to the two queues is kept: it    *)
(* takes blocks from App_to_Sipcom and puts any answer, or none, into      *)
(* Sipcom_to_App.  That is more than SIPService.cpp does (see SipUplink),  *)
(* and nothing here relies on an answer.                                   *)
(***************************************************************************)
EXTENDS Integers, Sequences

CONSTANTS
    KeepaliveInterval,   \* m_nKeepaliveInterval, seconds
    ExpiryInterval,      \* m_nExpiryInterval, seconds
    ResponseTime,        \* RESPONSE_TIME, seconds
    IntMax,              \* largest int, 2^31 - 1 in the code
    Mode,                \* app_work_mode: 0 lower, 1 upper, 2 relay
    Calls,               \* dialog ids of the platform's calls
    Requests,            \* kinds of request the platform sends
    Threads,             \* threads that run beside HandleShared: "device", "main"
    LoopMax,             \* seconds a round of HandleShared takes at most
    OutCap,              \* blocks that fit into App_to_Sipcom
    InCap                \* blocks that fit into Sipcom_to_App

(* A deadline that outlives the next keepalive would be pushed out by it   *)
(* for ever; the shipped configuration has 30 and 10.                      *)
ASSUME IntervalAssumption ==
    /\ KeepaliveInterval \in Nat /\ ResponseTime \in Nat /\ ExpiryInterval \in Nat
    /\ 0 < ResponseTime /\ ResponseTime < KeepaliveInterval
    /\ 10 * KeepaliveInterval <= 9 * ExpiryInterval
ASSUME SeqAssumption == IntMax \in Nat /\ IntMax > 0
ASSUME ModeAssumption == Mode \in {0, 1, 2}
(* A round waits for one second.  The drain loop that follows has no bound *)
(* of its own, so LoopMax may be any number.                               *)
ASSUME LoopAssumption == LoopMax \in Nat /\ LoopMax > 0
ASSUME RequestAssumption ==
    Requests \subseteq {"MESSAGE", "INVITE", "INVITE_DECODER", "ACK", "INVITE_RESPONSE",
                        "BYE", "INFO", "SUBSCRIBE"}
ASSUME CapAssumption == OutCap \in Nat /\ InCap \in Nat /\ Calls # {}

VARIABLES
    status,        \* m_ePlatformStatus
    kaIn,          \* seconds until m_tmKeepalive, 0 when it is reached
    expIn,         \* seconds until m_tmExpiry, 0 when it is reached
    respIn,        \* seconds until m_tmResponse, -1 once passed, Off when m_tmResponse = 0
    unSeq,         \* m_unSeq, a UINT
    lastKA,        \* m_nLastKeepaliveSeq, an int
    toSip,         \* App_to_Sipcom
    toApp,         \* Sipcom_to_App
    phase,         \* where the HandleShared thread is: "timer" or "drain"
    away,          \* seconds since RegisterTimerProc last ran
    devMsg,        \* HandleMsg's thread: "idle", or "checked" between the status test and SendShared
    main,          \* main thread: "run", "unregistered" (in Sleep(500)), "stopped"
    playing,       \* calls RTSPCOM has been told to play and not to stop
    silence,       \* seconds since a registered platform was last heard to answer (saturating)
    sinceReg       \* seconds since a REGISTER was last issued (saturating)

unit  == <<status, kaIn, expIn, respIn, unSeq, lastKA>>
ghost == <<silence, sinceReg>>
vars  == <<unit, toSip, toApp, phase, away, devMsg, main, playing, ghost>>

Off == -2
UIntMax == 2 * IntMax + 1
UInts == 0 .. UIntMax
Ints == -(IntMax + 1) .. IntMax
OutCmds == {"REGISTER", "KEEPALIVE", "DEVICE", "UNREGISTER", "EXIT"}
OutBlock == [cmd : OutCmds, seq : Ints]
InCmds == {"MESSAGE", "MESSAGE_RESPONSE", "INVITE", "INVITE_DECODER", "ACK",
           "INVITE_RESPONSE", "BYE", "INFO", "SUBSCRIBE",
           "REGISTER_SUCCESS", "REGISTER_FAIL"}
InBlock == [cmd : InCmds, seq : Ints, call : Calls]

SilenceCap == KeepaliveInterval + ResponseTime + 2 * LoopMax
UpTo(n, cap) == IF n < cap THEN n + 1 ELSE cap

(* Every variable is in its range: the deadlines within their intervals,   *)
(* m_unSeq a UINT, the CSeqs that leave the unit ints, both queues within  *)
(* their capacity.                                                         *)
TypeOK ==
    /\ status \in {"UNREGISTERED", "REGISTERING", "REGISTERED"}
    /\ kaIn \in 0 .. KeepaliveInterval
    /\ expIn \in 0 .. ExpiryInterval
    /\ respIn \in Off .. ResponseTime
    /\ unSeq \in UInts /\ lastKA \in Ints
    /\ toSip \in Seq(OutBlock) /\ Len(toSip) <= OutCap
    /\ toApp \in Seq(InBlock) /\ Len(toApp) <= InCap
    /\ phase \in {"timer", "drain"}
    /\ away \in 0 .. LoopMax
    /\ devMsg \in {"idle", "checked"}
    /\ main \in {"run", "unregistered", "stopped"}
    /\ playing \subseteq Calls
    /\ silence \in 0 .. SilenceCap
    /\ sinceReg \in 0 .. KeepaliveInterval

(* CSIPUnit's constructor, Init and SetPlatformStatus(UNREGISTERED); the   *)
(* constructor leaves m_nLastKeepaliveSeq as it finds it.                  *)
Init ==
    /\ status = "UNREGISTERED"
    /\ kaIn = KeepaliveInterval /\ expIn = ExpiryInterval /\ respIn = Off
    /\ unSeq = 0 /\ lastKA \in Ints
    /\ toSip = <<>> /\ toApp = <<>>
    /\ phase = "timer" /\ away = 0
    /\ devMsg = "idle" /\ main = "run"
    /\ playing = {}
    /\ silence = 0 /\ sinceReg = KeepaliveInterval

-----------------------------------------------------------------------------
(* CSIPUnit *)

(* m_unSeq++, which wraps from 2^32 - 1 to 0 and is then set to 1.  The    *)
(* function returns the UINT as an int: AsInt.                             *)
GenerateCSeq(u) == LET n == (u + 1) % (UIntMax + 1) IN IF n < 1 THEN 1 ELSE n
AsInt(u) == IF u > IntMax THEN u - (UIntMax + 1) ELSE u

(* Mutant: a change of status leaves the keepalive deadline as it was. *)
SetPlatformStatusStale(st) ==
    /\ status' = st
    /\ kaIn' = kaIn
    /\ expIn' = ExpiryInterval

SetPlatformStatus(st) ==
    /\ status' = st
    /\ kaIn' = KeepaliveInterval
    /\ expIn' = ExpiryInterval

KeepaliveDue == kaIn = 0
ExpiryDue == 10 * expIn <= ExpiryInterval
ResponseOverdue == respIn = -1
IsLastKeepaliveRes(s) == s = lastKA

(* The block with the UINT u's CSeq.  The CSeq matters only for what is    *)
(* answered with it; Register in the SIP process numbers its messages      *)
(* itself.                                                                 *)
OutMsg(cmd, u) == [cmd |-> cmd, seq |-> IF cmd \in {"KEEPALIVE", "DEVICE"} THEN AsInt(u) ELSE 0]

(* Mutant: the block is written whether or not PushAlloc had room for it. *)
PushedAlways(q, m) == Append(q, m)
(* SendShared: a block that does not fit is logged and forgotten. *)
Pushed(q, m) == IF Len(q) < OutCap THEN Append(q, m) ELSE q

(* SendShared without a CSeq takes a new one. *)
SendShared(cmd) ==
    /\ unSeq' = GenerateCSeq(unSeq)
    /\ toSip' = Pushed(toSip, OutMsg(cmd, GenerateCSeq(unSeq)))

SendRegister ==
    /\ SendShared("REGISTER")
    /\ sinceReg' = 0

(* Keepalive gives SendShared a CSeq of its own, which SendShared replaces *)
(* by another new one when it is not positive as an int: the CSeq that is  *)
(* waited for (KeepaliveSeq) is then not the one that was sent.            *)
KeepaliveSeq == GenerateCSeq(unSeq)
KeepaliveSent == IF AsInt(KeepaliveSeq) > 0 THEN KeepaliveSeq ELSE GenerateCSeq(KeepaliveSeq)

(* Mutant: the keepalive is sent without arming the response deadline. *)
KeepaliveUnarmed ==
    /\ unSeq' = KeepaliveSent
    /\ toSip' = Pushed(toSip, OutMsg("KEEPALIVE", KeepaliveSent))
    /\ respIn' = Off
    /\ lastKA' = AsInt(KeepaliveSeq)

Keepalive ==
    /\ unSeq' = KeepaliveSent
    /\ toSip' = Pushed(toSip, OutMsg("KEEPALIVE", KeepaliveSent))
    /\ respIn' = ResponseTime
    /\ lastKA' = AsInt(KeepaliveSeq)

-----------------------------------------------------------------------------
(* RegisterTimerProc: the first half of HandleShared *)

TimerRan == phase = "timer" /\ phase' = "drain" /\ away' = 0

(* Nothing is due, or the gateway is an upper platform, or it is in        *)
(* REGISTERING, where no deadline is looked at.                            *)
TimerIdle ==
    /\ TimerRan
    /\ \/ Mode = 1
       \/ status = "REGISTERING"
       \/ status = "UNREGISTERED" /\ ~KeepaliveDue
       \/ status = "REGISTERED" /\ ~ResponseOverdue /\ ~KeepaliveDue /\ ~ExpiryDue
    /\ UNCHANGED <<unit, toSip, toApp, devMsg, main, playing, ghost>>

TimerRegister ==
    /\ TimerRan /\ Mode # 1
    /\ status = "UNREGISTERED" /\ KeepaliveDue
    /\ SendRegister
    /\ SetPlatformStatus("REGISTERING")
    /\ respIn' = ResponseTime
    /\ UNCHANGED <<lastKA, toApp, devMsg, main, playing, silence>>

(* The keepalive was not answered in time.  CheckResponseTime rearms the   *)
(* deadline; SetPlatformStatus pushes the other two out, so that neither   *)
(* CheckKeepalive nor CheckExpiry is true in the same call.                *)
TimerLost ==
    /\ TimerRan /\ Mode # 1
    /\ status = "REGISTERED" /\ ResponseOverdue
    /\ SetPlatformStatus("UNREGISTERED")
    /\ respIn' = ResponseTime
    /\ playing' = {}
    /\ UNCHANGED <<unSeq, lastKA, toSip, toApp, devMsg, main, ghost>>

TimerKeepalive ==
    /\ TimerRan /\ Mode # 1
    /\ status = "REGISTERED" /\ ~ResponseOverdue /\ KeepaliveDue /\ ~ExpiryDue
    /\ kaIn' = KeepaliveInterval
    /\ Keepalive
    /\ UNCHANGED <<status, expIn, toApp, devMsg, main, playing, ghost>>

TimerRenew ==
    /\ TimerRan /\ Mode # 1
    /\ status = "REGISTERED" /\ ~ResponseOverdue /\ ~KeepaliveDue /\ ExpiryDue
    /\ expIn' = ExpiryInterval
    /\ SendRegister
    /\ UNCHANGED <<status, kaIn, respIn, lastKA, toApp, devMsg, main, playing, silence>>

(* Both are due: the keepalive goes first. *)
TimerKeepaliveRenew ==
    /\ TimerRan /\ Mode # 1
    /\ status = "REGISTERED" /\ ~ResponseOverdue /\ KeepaliveDue /\ ExpiryDue
    /\ kaIn' = KeepaliveInterval /\ expIn' = ExpiryInterval
    /\ lastKA' = AsInt(KeepaliveSeq)
    /\ unSeq' = GenerateCSeq(KeepaliveSent)
    /\ toSip' = Pushed(Pushed(toSip, OutMsg("KEEPALIVE", KeepaliveSent)),
                       OutMsg("REGISTER", GenerateCSeq(KeepaliveSent)))
    /\ respIn' = ResponseTime
    /\ sinceReg' = 0
    /\ UNCHANGED <<status, toApp, devMsg, main, playing, silence>>

RegisterTimerProc ==
    \/ TimerIdle \/ TimerRegister \/ TimerLost
    \/ TimerKeepalive \/ TimerRenew \/ TimerKeepaliveRenew

-----------------------------------------------------------------------------
(* The drain loop of HandleShared, one block per step *)

Accepted(m) ==
    \/ Mode # 0
    \/ status = "REGISTERED"
    \/ m.cmd \in {"REGISTER_SUCCESS", "REGISTER_FAIL"}

Pop(cmds) ==
    /\ phase = "drain" /\ toApp # <<>> /\ Head(toApp).cmd \in cmds
    /\ toApp' = Tail(toApp)
    /\ UNCHANGED <<phase, away, devMsg, main>>

(* Not logged in: everything but the outcome of a registration is dropped. *)
RecvRefused ==
    /\ Pop(InCmds) /\ ~Accepted(Head(toApp))
    /\ UNCHANGED <<unit, toSip, playing, ghost>>

(* Blocks that leave this component as it is.  MESSAGE and SUBSCRIBE reach *)
(* dispatchers whose cases are empty; ACK and INFO go to RTSPCOM for a     *)
(* call it already has, an INVITE without SDP to SDKCOM, INVITE_RESPONSE   *)
(* to GBADAPTORCOM; the push of BYE to RTSPCOM is commented out.           *)
RecvPassedOn ==
    /\ Pop({"MESSAGE", "SUBSCRIBE", "ACK", "INFO", "BYE", "INVITE_DECODER", "INVITE_RESPONSE"})
    /\ Accepted(Head(toApp))
    /\ UNCHANGED <<unit, toSip, playing, ghost>>

RecvMessageResponse ==
    /\ Pop({"MESSAGE_RESPONSE"}) /\ Accepted(Head(toApp))
    /\ respIn' = IF IsLastKeepaliveRes(Head(toApp).seq) THEN Off ELSE respIn
    /\ silence' = IF IsLastKeepaliveRes(Head(toApp).seq) THEN 0 ELSE silence
    /\ UNCHANGED <<status, kaIn, expIn, unSeq, lastKA, toSip, playing, sinceReg>>

RecvInvite ==
    /\ Pop({"INVITE"}) /\ Accepted(Head(toApp))
    /\ playing' = playing \cup {Head(toApp).call}
    /\ UNCHANGED <<unit, toSip, ghost>>

RecvRegisterSuccess ==
    /\ Pop({"REGISTER_SUCCESS"})
    /\ SetPlatformStatus("REGISTERED")
    /\ Keepalive
    /\ silence' = 0
    /\ UNCHANGED <<playing, sinceReg>>

(* Mutant: a refused renewal does not stop the calls. *)
RecvRegisterFailKeeps ==
    /\ Pop({"REGISTER_FAIL"})
    /\ SetPlatformStatus("UNREGISTERED")
    /\ UNCHANGED <<playing, respIn, unSeq, lastKA, toSip, ghost>>

RecvRegisterFail ==
    /\ Pop({"REGISTER_FAIL"})
    /\ SetPlatformStatus("UNREGISTERED")
    /\ playing' = IF status = "REGISTERED" THEN {} ELSE playing
    /\ UNCHANGED <<respIn, unSeq, lastKA, toSip, ghost>>

DrainDone ==
    /\ phase = "drain" /\ toApp = <<>>
    /\ phase' = "timer"
    /\ UNCHANGED <<unit, toSip, toApp, away, devMsg, main, playing, ghost>>

Drain ==
    \/ RecvRefused \/ RecvPassedOn \/ RecvMessageResponse \/ RecvInvite
    \/ RecvRegisterSuccess \/ RecvRegisterFail \/ DrainDone

HandleShared == RegisterTimerProc \/ Drain

-----------------------------------------------------------------------------
(* HandleMsg: the status is tested before SendShared, without a lock *)

HandleMsgCheck ==
    /\ "device" \in Threads /\ devMsg = "idle"
    /\ Mode = 0 => status = "REGISTERED"
    /\ devMsg' = "checked"
    /\ UNCHANGED <<unit, toSip, toApp, phase, away, main, playing, ghost>>

HandleMsgSend ==
    /\ devMsg = "checked"
    /\ SendShared("DEVICE")
    /\ devMsg' = "idle"
    /\ UNCHANGED <<status, kaIn, expIn, respIn, lastKA, toApp, phase, away, main, playing, ghost>>

(* StopSubprocess, on the main thread: Unregister, Sleep(500), EXIT *)
Unregister ==
    /\ "main" \in Threads /\ main = "run"
    /\ SendShared("UNREGISTER")
    /\ main' = "unregistered"
    /\ UNCHANGED <<status, kaIn, expIn, respIn, lastKA, toApp, phase, away, devMsg, playing, ghost>>

ExitSubprocess ==
    /\ main = "unregistered"
    /\ SendShared("EXIT")
    /\ main' = "stopped"
    /\ UNCHANGED <<status, kaIn, expIn, respIn, lastKA, toApp, phase, away, devMsg, playing, ghost>>

StopSubprocess == Unregister \/ ExitSubprocess

-----------------------------------------------------------------------------
(* The SIP process and the platform, as the two queues see them *)

InFits(m) == IF Len(toApp) < InCap THEN Append(toApp, m) ELSE toApp
AnyCall == CHOOSE c \in Calls : TRUE
Answer(cmd, s) == [cmd |-> cmd, seq |-> s, call |-> AnyCall]

(* What may come back for a block; {} when nothing does. *)
Answers(m) ==
    CASE m.cmd \in {"REGISTER", "UNREGISTER"} ->
             {Answer("REGISTER_SUCCESS", 0), Answer("REGISTER_FAIL", 0)}
      [] m.cmd \in {"KEEPALIVE", "DEVICE"} -> {Answer("MESSAGE_RESPONSE", m.seq)}
      [] OTHER -> {}

SipAnswers ==
    /\ toSip # <<>>
    /\ toSip' = Tail(toSip)
    /\ \E a \in Answers(Head(toSip)) : toApp' = InFits(a)
    /\ UNCHANGED <<unit, phase, away, devMsg, main, playing, ghost>>

(* No answer: a platform that is silent or rejects the credentials for     *)
(* ever, a REGISTER that cannot be built or sent, or a fault of the SIP    *)
(* process on an earlier block.                                            *)
SipSilent ==
    /\ toSip # <<>>
    /\ toSip' = Tail(toSip)
    /\ UNCHANGED <<unit, toApp, phase, away, devMsg, main, playing, ghost>>

PlatformRequest ==
    /\ \E k \in Requests, c \in Calls :
          toApp' = InFits([cmd |-> k, seq |-> 0, call |-> c])
    /\ UNCHANGED <<unit, toSip, phase, away, devMsg, main, playing, ghost>>

(* A second passes.  The timers run once in a round of HandleShared, which *)
(* waits for at most one second and then drains Sipcom_to_App for as long  *)
(* as the SIP process refills it: LoopMax seconds.                         *)
Tick ==
    /\ away < LoopMax
    /\ away' = away + 1
    /\ kaIn' = IF kaIn > 0 THEN kaIn - 1 ELSE 0
    /\ expIn' = IF expIn > 0 THEN expIn - 1 ELSE 0
    /\ respIn' = IF respIn >= 0 THEN respIn - 1 ELSE respIn
    /\ silence' = IF status = "REGISTERED" THEN UpTo(silence, SilenceCap) ELSE 0
    /\ sinceReg' = UpTo(sinceReg, KeepaliveInterval)
    /\ UNCHANGED <<status, unSeq, lastKA, toSip, toApp, phase, devMsg, main, playing>>

Next ==
    \/ HandleShared
    \/ HandleMsgCheck \/ HandleMsgSend
    \/ StopSubprocess
    \/ SipAnswers \/ SipSilent \/ PlatformRequest
    \/ Tick

Spec == Init /\ [][Next]_vars

-----------------------------------------------------------------------------
(* While the gateway is not registered no call of the platform is left     *)
(* playing: whichever way the registration is lost (RegisterTimerProc's    *)
(* timeout, ST_REGISTER_FAIL), RTSPCOM is told to stop everything, and no  *)
(* later block starts a call again before the next registration.           *)
NoOrphanPlay == Mode = 0 /\ status # "REGISTERED" => playing = {}

(* A platform that has gone silent is noticed: after the last answer to    *)
(* its newest keepalive the gateway never counts as registered for longer  *)
(* than a keepalive interval and a response time, each read up to a round  *)
(* of HandleShared late, however long the drain loop makes the rounds.     *)
SilenceBound ==
    Mode # 1 /\ status = "REGISTERED"
        => silence < KeepaliveInterval + ResponseTime + 2 * LoopMax

(* A step that puts a REGISTER into App_to_Sipcom comes a keepalive        *)
(* interval after the one before.                                          *)
RegisterSpaced ==
    Len(toSip') > Len(toSip) /\ toSip'[Len(toSip')].cmd = "REGISTER"
        => sinceReg = KeepaliveInterval

(* Two REGISTERs are never closer than the keepalive interval, whatever    *)
(* outcomes come back and however late: RegisterTimerProc does not flood a *)
(* platform that refuses it.                                               *)
RegisterBackoff == [][RegisterSpaced]_vars

(* Why SilenceBound holds: the response deadline and the keepalive         *)
(* deadline run together from the keepalive that armed both, the first one *)
(* shorter, and either has been waiting to be read for less time than      *)
(* RegisterTimerProc has been away.                                        *)
SilenceInv ==
    Mode # 1 /\ status = "REGISTERED" =>
        /\ respIn = Off /\ kaIn > 0 => silence <= KeepaliveInterval - kaIn
        /\ respIn = Off /\ kaIn = 0 => silence < KeepaliveInterval + away
        /\ respIn >= 0 => silence < KeepaliveInterval + LoopMax + ResponseTime - respIn
        /\ respIn = -1 => silence < KeepaliveInterval + LoopMax + ResponseTime + away
        /\ respIn # Off => respIn <= kaIn + ResponseTime - KeepaliveInterval \/ respIn = -1
        /\ respIn = -1 \/ kaIn = 0 => away > 0

(* Why RegisterBackoff holds: the time since the last REGISTER covers what *)
(* has passed of the deadline the next one waits for.                      *)
BackoffInv ==
    /\ status # "REGISTERED" => sinceReg >= KeepaliveInterval - kaIn
    /\ status = "REGISTERED" =>
          \/ sinceReg = KeepaliveInterval
          \/ sinceReg >= ExpiryInterval - expIn
=============================================================================
