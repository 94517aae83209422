---------------------------- MODULE RelayUplink ----------------------------
(***************************************************************************)
(* How a relay (app_work_mode 2) keeps itself registered with the upper    *)
(* platform: the timer thread of SipRegMgr (CirclingCheckingTask every ten *)
(* seconds over m_RemoteDomains) and pfnSIPProc, which reports a           *)
(* successful registration to the same CSipDomain.                         *)
(*                                                                         *)
(* time() is seen only through differences, which are kept as ages.  The   *)
(* upper platform and eXosip's transaction (with its retries on a          *)
(* challenge, see SipUplink) are external: a REGISTER is accepted,         *)
(* challenged, refused, given up by eXosip without an answer, or still     *)
(* under way when the next one replaces it.  HandleRegFail reads the       *)
(* answer before it looks at the work mode, so an event without an answer  *)
(* ends the process, which no step follows.                                *)
(***************************************************************************)
EXTENDS Integers

CONSTANTS
    Period,              \* m_CircleTaskWorker's interval, 10 seconds
    KeepaliveInterval,   \* nKeepaliveInterval of the upper domain
    Expires,             \* nExpires of the upper domain: what it registers for
    MayRefuse            \* whether a REGISTER may meet anything but an acceptance

(* A keepalive interval of 0 asks for a keepalive on every pass, which is  *)
(* one Period apart and not less.                                          *)
ASSUME RelayAssumption ==
    /\ Period \in Nat \ {0} /\ KeepaliveInterval \in Nat \ {0} /\ Expires \in Nat
    /\ MayRefuse \in BOOLEAN

VARIABLES
    nStatus,     \* CSipDomain's nStatus
    regAge,      \* seconds since timLastRegister, at most Expires
    kaAge,       \* seconds since timLastKeepAlive, Never when it is 0
    wake,        \* seconds until the timer thread wakes
    pass,        \* the timer thread: "asleep", or "keepalive" after NeedSendRegister
    request,     \* the REGISTER under way: "none" or "sent"
    events,      \* the outcomes in eXosip's event queue
    binding,     \* seconds the platform still holds our registration
    accepted,    \* the platform has accepted a REGISTER
    kept,        \* a keepalive has been sent
    alive        \* the process has not faulted

vars == <<nStatus, regAge, kaAge, wake, pass, request, events, binding, accepted, kept, alive>>

Never == -1
AgeCap == KeepaliveInterval + 2 * Period

(* Every variable is in its range; the timer never sleeps longer than its  *)
(* period nor past its end.                                                *)
TypeOK ==
    /\ nStatus \in {"NOT_REGISTER", "SUCCESS"}
    /\ regAge \in 0 .. Expires
    /\ kaAge \in {Never} \cup 0 .. AgeCap
    /\ wake \in 0 .. Period
    /\ pass \in {"asleep", "keepalive"}
    /\ request \in {"none", "sent"}
    /\ events \subseteq {"accepted", "challenged", "refused", "silent"}
    /\ binding \in 0 .. Expires
    /\ accepted \in BOOLEAN /\ kept \in BOOLEAN /\ alive \in BOOLEAN

(* timLastRegister and timLastKeepAlive are 0, that is, long ago. *)
Init ==
    /\ nStatus = "NOT_REGISTER"
    /\ regAge = Expires /\ kaAge = Never
    /\ wake = 0 /\ pass = "asleep"
    /\ request = "none" /\ events = {} /\ binding = 0
    /\ accepted = FALSE /\ kept = FALSE /\ alive = TRUE

-----------------------------------------------------------------------------
(* NeedSendRegister: nothing to do while the registration is fresh.  The   *)
(* domain is the upper one, so m_bNeedConneted is set.                     *)
Fresh == nStatus = "SUCCESS" /\ regAge < Expires

(* RegisterTo.  A REGISTER replaces the one before: eXosip forgets its     *)
(* context and the answer to come, and a challenge it has already queued   *)
(* finds no context to answer with; any other queued outcome stays.        *)
TimerRegister ==
    /\ alive /\ pass = "asleep" /\ wake = 0
    /\ IF Fresh
       THEN UNCHANGED <<request, events>>
       ELSE request' = "sent" /\ events' = events \ {"challenged"}
    /\ regAge' = 0
    /\ pass' = "keepalive"
    /\ UNCHANGED <<nStatus, kaAge, wake, binding, accepted, kept, alive>>

(* RegisterTo when the REGISTER is not built or not sent: the context      *)
(* before is gone all the same.                                            *)
TimerRegisterFails ==
    /\ MayRefuse /\ alive /\ pass = "asleep" /\ wake = 0
    /\ ~Fresh
    /\ request' = "none" /\ events' = events \ {"challenged"}
    /\ regAge' = 0
    /\ pass' = "keepalive"
    /\ UNCHANGED <<nStatus, kaAge, wake, binding, accepted, kept, alive>>

(* Mutant: a keepalive is due only when the interval is exceeded. *)
KeepaliveLate == kaAge = Never \/ kaAge > KeepaliveInterval
(* NeedSendkeepAlive's comparison for a registered domain. *)
KeepaliveDue == kaAge = Never \/ kaAge >= KeepaliveInterval

(* NeedSendkeepAlive and KeepAliveTo, then the timer sleeps. *)
TimerKeepalive ==
    /\ alive /\ pass = "keepalive"
    /\ IF nStatus = "SUCCESS" /\ KeepaliveDue
       THEN kaAge' = 0 /\ kept' = TRUE
       ELSE UNCHANGED <<kaAge, kept>>
    /\ pass' = "asleep" /\ wake' = Period
    /\ UNCHANGED <<nStatus, regAge, request, events, binding, accepted, alive>>

-----------------------------------------------------------------------------
(* Mutant: the event is taken and the domain's status is left alone. *)
OnRegisterToSucessLost ==
    /\ alive /\ "accepted" \in events
    /\ events' = events \ {"accepted"}
    /\ UNCHANGED <<nStatus, regAge, kaAge, wake, pass, request, binding, accepted, kept, alive>>
(* Mutant: the status stored is the registrar's STATUS_REGISTER_DEFAULT. *)
OnRegisterToSucessDefault ==
    /\ alive /\ "accepted" \in events
    /\ events' = events \ {"accepted"}
    /\ nStatus' = "DEFAULT"
    /\ UNCHANGED <<regAge, kaAge, wake, pass, request, binding, accepted, kept, alive>>
(* EXOSIP_REGISTRATION_SUCCESS on pfnSIPProc. *)
OnRegisterToSucess ==
    /\ alive /\ "accepted" \in events
    /\ events' = events \ {"accepted"}
    /\ nStatus' = "SUCCESS"
    /\ UNCHANGED <<regAge, kaAge, wake, pass, request, binding, accepted, kept, alive>>

(* HandleRegFail of a 401: another REGISTER in the same context, unless it *)
(* cannot be built or sent.                                                *)
HandleChallenge ==
    /\ alive /\ "challenged" \in events
    /\ events' = events \ {"challenged"}
    /\ request' \in IF MayRefuse THEN {"none", "sent"} ELSE {"sent"}
    /\ UNCHANGED <<nStatus, regAge, kaAge, wake, pass, binding, accepted, kept, alive>>

(* Mutant: a failure is recorded as the new status of the domain. *)
HandleRegFailSucceeds ==
    /\ alive /\ "refused" \in events
    /\ events' = events \ {"refused"}
    /\ nStatus' = "SUCCESS"
    /\ UNCHANGED <<regAge, kaAge, wake, pass, request, binding, accepted, kept, alive>>
(* HandleRegFail of any other answer: a relay tells nobody. *)
HandleRegFail ==
    /\ alive /\ "refused" \in events
    /\ events' = events \ {"refused"}
    /\ UNCHANGED <<nStatus, regAge, kaAge, wake, pass, request, binding, accepted, kept, alive>>

(* HandleRegFail of a REGISTER that met no answer: m_pEvent->response is   *)
(* null and its status_code is read.                                       *)
HandleNoAnswer ==
    /\ alive /\ "silent" \in events
    /\ events' = events \ {"silent"}
    /\ alive' = FALSE
    /\ UNCHANGED <<nStatus, regAge, kaAge, wake, pass, request, binding, accepted, kept>>

PlatformAccepts ==
    /\ alive /\ request = "sent"
    /\ request' = "none"
    /\ events' = events \cup {"accepted"}
    /\ binding' = Expires
    /\ accepted' = TRUE
    /\ UNCHANGED <<nStatus, regAge, kaAge, wake, pass, kept, alive>>

(* The platform challenges or refuses, or eXosip gives up: the transaction *)
(* times out or the transport fails.                                       *)
PlatformRefuses ==
    /\ MayRefuse /\ alive /\ request = "sent"
    /\ request' = "none"
    /\ \E e \in {"challenged", "refused", "silent"} : events' = events \cup {e}
    /\ UNCHANGED <<nStatus, regAge, kaAge, wake, pass, binding, accepted, kept, alive>>

Older(a, cap) == IF a < cap THEN a + 1 ELSE cap

(* A second passes.  The timer thread is not late by a second. *)
Tick ==
    /\ alive /\ pass = "asleep" /\ wake > 0
    /\ wake' = wake - 1
    /\ regAge' = Older(regAge, Expires)
    /\ kaAge' = IF kaAge = Never THEN Never ELSE Older(kaAge, AgeCap)
    /\ binding' = IF binding > 0 THEN binding - 1 ELSE 0
    /\ UNCHANGED <<nStatus, pass, request, events, accepted, kept, alive>>

Next ==
    \/ TimerRegister \/ TimerRegisterFails \/ TimerKeepalive
    \/ OnRegisterToSucess \/ HandleChallenge \/ HandleRegFail \/ HandleNoAnswer
    \/ PlatformAccepts \/ PlatformRefuses
    \/ Tick

Spec == Init /\ [][Next]_vars

(* The timer thread and pfnSIPProc run as long as the process, time        *)
(* passes, a REGISTER that is tried again and again goes out, and a        *)
(* platform that gets REGISTERs again and again accepts one.               *)
FairSpec ==
    /\ Spec
    /\ SF_vars(TimerRegister) /\ WF_vars(TimerKeepalive) /\ WF_vars(Tick)
    /\ WF_vars(OnRegisterToSucess) /\ WF_vars(HandleChallenge)
    /\ WF_vars(HandleRegFail) /\ WF_vars(HandleNoAnswer)
    /\ SF_vars(PlatformAccepts)

-----------------------------------------------------------------------------
(* Once keepalives have begun, two of them are less than one interval and  *)
(* one timer period apart, although the interval is only looked at when    *)
(* the timer wakes.                                                        *)
KeepaliveGap == kaAge < KeepaliveInterval + Period

(* KeepaliveGap with what the timer's position adds to it. *)
KeepaliveInv ==
    /\ kaAge = Never \/ nStatus = "SUCCESS"
    /\ pass = "asleep" => kaAge <= KeepaliveInterval + Period - 1 - wake
    /\ pass = "keepalive" => wake = 0 /\ kaAge <= KeepaliveInterval + Period - 1

(* A keepalive is never sent before the platform has accepted the relay:   *)
(* the status the timer thread reads comes from an answer.                 *)
KeepaliveAfterAccept == kept => accepted

(* KeepaliveAfterAccept with the steps that lead to a keepalive. *)
AcceptInv ==
    /\ KeepaliveAfterAccept
    /\ nStatus = "SUCCESS" => accepted
    /\ "accepted" \in events => accepted

(* The relay gets registered although answers may come too late for their  *)
(* REGISTER and challenges, refusals and REGISTERs that are not sent lie   *)
(* between.  Only a REGISTER that eXosip gives up without an answer can    *)
(* prevent it: HandleRegFail ends the process there.                       *)
GetsRegistered == [](~("silent" \in events)) => <>(nStatus = "SUCCESS")

(* CirclingCheckingTask's log: the registration's timeout is checked and   *)
(* the relay registers again.                                              *)
BindingRenewed == (binding = 0) ~> (binding > 0)

(* A REGISTER is out, or a challenge still makes another one. *)
UnderWay == request = "sent" \/ "challenged" \in events

(* What BindingRenewed fails on, for every period and expiry: a registered *)
(* relay with no REGISTER under way sends none any more, and what is left  *)
(* of its binding only runs down.                                          *)
BindingRunsDown ==
    [][nStatus = "SUCCESS" /\ ~UnderWay
         => nStatus' = "SUCCESS" /\ ~UnderWay' /\ binding' <= binding]_vars
=============================================================================
