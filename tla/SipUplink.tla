----------------------------- MODULE SipUplink -----------------------------
(***************************************************************************)
(* The SIP process of a lower gateway (app_work_mode 0): what becomes of a *)
(* REGISTER block of the application.                                      *)
(*                                                                         *)
(* Two threads share CSIPService's upper domain (m_oUpperPLTForm) and the  *)
(* eXosip context.  pfnSharedProc takes blocks from App_to_Sipcom          *)
(* (HandleShared, Register).  pfnSIPProc takes eXosip's events: it first   *)
(* lets eXosip_default_action answer a challenge, then runs HandleRegFail  *)
(* or HandleRegSuccess.  Each thread holds eXosip_lock only inside one     *)
(* step of this model, and answers may arrive between any two of them.     *)
(*                                                                         *)
(* An outcome is to be told to the application by SendDataToShared, which  *)
(* reads the length of the REGISTER's body.  A REGISTER has none, p_body   *)
(* is null, and the process faults there: no outcome ever reaches          *)
(* Sipcom_to_App, nor the test for a full queue behind it.                 *)
(*                                                                         *)
(* eXosip's registration contexts are modelled from its source in the      *)
(* repository; the platform is external.                                   *)
(***************************************************************************)
EXTENDS Integers, Sequences, FiniteSets, Functions

CONSTANTS
    Expiry,          \* expires of a REGISTER block, seconds
    MsgExpiry,       \* nExpired of the other blocks (ipc_sip_block_t's own default)
    SeqMax,          \* largest m_nCSeq, 2^31 - 1 in the code (int)
    Retries,         \* r_retry's limit in eXosip (3)
    Challenge,       \* whether the platform challenges a REGISTER without credentials
    Verdicts,        \* what it answers to the others: subset of {200, 401, 403, 0}, 0: nothing
    MayFail,         \* whether eXosip may fail to build or to send a REGISTER (no memory, bad address)
    MayExit,         \* whether the application may stop and unregister
    QueueCap,        \* blocks in App_to_Sipcom
    AskMax           \* REGISTERs the application issues

ASSUME NumberAssumption ==
    /\ Expiry \in Nat \ {0} /\ MsgExpiry \in Nat
    /\ SeqMax \in Nat \ {0} /\ Retries \in Nat
    /\ QueueCap \in Nat /\ AskMax \in Nat
ASSUME PlatformAssumption ==
    /\ Challenge \in BOOLEAN /\ MayFail \in BOOLEAN /\ MayExit \in BOOLEAN
    /\ Verdicts \subseteq {200, 401, 403, 0}

VARIABLES
    toSip,      \* App_to_Sipcom: REGISTER, UNREGISTER and MESSAGE blocks
    shared,     \* the block pfnSharedProc has taken and not yet sent, or "none"
    upper,      \* m_oUpperPLTForm: [exp |-> nExpires, rid |-> m_nRegisterID, cseq |-> m_nCSeq]
    lastId,     \* eXosip's static r_id, the last registration id given out
    regs,       \* eXosip's registration contexts (j_reg), by id
    creds,      \* eXosip_add_authentication_info has been called
    events,     \* eXosip's events that wait for pfnSIPProc
    handling,   \* the event pfnSIPProc holds between default action and handler, or NoEvent
    asked,      \* REGISTERs the application has issued
    exiting,    \* the application has run StopSubprocess
    seen,       \* the CSeq of the last REGISTER that reached the wire
    ordered,    \* every REGISTER so far had a larger CSeq than the one before
    alive       \* the process has not faulted

eXosip == <<upper, lastId, regs, creds>>
wire == <<seen, ordered>>
vars == <<toSip, shared, eXosip, events, handling, asked, exiting, wire, alive>>

Blocks == {"REGISTER", "UNREGISTER", "MESSAGE"}
Codes == {200, 401, 403, 0}
Ids == Nat \ {0}
CSeqs == Nat
Expiries == {0, Expiry, MsgExpiry}
Context == [expire : Expiries, retry : 0 .. Retries, cseq : CSeqs, auth : BOOLEAN, pending : BOOLEAN]
Event == [rid : Ids, code : Codes]
NoEvent == [rid |-> 0, code |-> 401]

(* Every variable is in its range; m_nCSeq never passes its maximum, and   *)
(* no id is above the last that eXosip gave out.                           *)
TypeOK ==
    /\ toSip \in Seq(Blocks) /\ Len(toSip) <= QueueCap
    /\ shared \in Blocks \cup {"none"}
    /\ upper \in [exp : Expiries, rid : Nat, cseq : 0 .. SeqMax]
    /\ lastId \in Nat /\ upper.rid <= lastId
    /\ DOMAIN regs \subseteq 1 .. lastId /\ \A r \in DOMAIN regs : regs[r] \in Context
    /\ creds \in BOOLEAN
    /\ events \in Seq(Event) /\ handling \in Event \cup {NoEvent}
    /\ asked \in 0 .. AskMax /\ exiting \in BOOLEAN
    /\ seen \in CSeqs \cup {-1} /\ ordered \in BOOLEAN
    /\ alive \in BOOLEAN

Init ==
    /\ toSip = <<>> /\ shared = "none"
    /\ upper = [exp |-> 0, rid |-> 0, cseq |-> 0]
    /\ lastId = 0 /\ regs = [r \in {} |-> 0] /\ creds = FALSE
    /\ events = <<>> /\ handling = NoEvent
    /\ asked = 0 /\ exiting = FALSE
    /\ seen = -1 /\ ordered = TRUE
    /\ alive = TRUE

-----------------------------------------------------------------------------
(* The application process.  Told no outcome, CSIPCom asks once and stays  *)
(* REGISTERING (PlatformReg); AskMax > 1 is an application that asks on    *)
(* its own.  StopSubprocess's UNREGISTER comes once, whatever is under     *)
(* way; keepalives and device messages at any moment.                      *)

AppRegister ==
    /\ asked < AskMax /\ Len(toSip) < QueueCap
    /\ toSip' = Append(toSip, "REGISTER")
    /\ asked' = asked + 1
    /\ UNCHANGED <<shared, eXosip, events, handling, exiting, wire, alive>>

AppUnregister ==
    /\ MayExit /\ ~exiting /\ Len(toSip) < QueueCap
    /\ toSip' = Append(toSip, "UNREGISTER")
    /\ exiting' = TRUE
    /\ UNCHANGED <<shared, eXosip, events, handling, asked, wire, alive>>

AppMessage ==
    /\ Len(toSip) < QueueCap
    /\ toSip' = Append(toSip, "MESSAGE")
    /\ UNCHANGED <<shared, eXosip, events, handling, asked, exiting, wire, alive>>

-----------------------------------------------------------------------------
(* CSipDomain::GetStrCSeq: the value used and the counter after it.  An    *)
(* overflowing m_nCSeq is negative and is reset on its next use.           *)
GetStrCSeq == upper.cseq
(* Mutant: the counter runs on past its largest value. *)
IncrementedOn(c) == c + 1
Incremented(c) == IF c = SeqMax THEN 0 ELSE c + 1

(* What the platform sees of a REGISTER. *)
OnWire(c) ==
    /\ seen' = c
    /\ ordered' = (ordered /\ c > seen)

(* HandleShared takes a block and writes its nExpired into the upper       *)
(* domain, whatever the block is, before it sends it and without a lock.   *)
ExpiryOf(cmd) == CASE cmd = "REGISTER" -> Expiry [] cmd = "UNREGISTER" -> 0 [] OTHER -> MsgExpiry
HandleShared ==
    /\ alive /\ shared = "none" /\ toSip # <<>>
    /\ shared' = Head(toSip)
    /\ toSip' = Tail(toSip)
    /\ upper' = [upper EXCEPT !.exp = ExpiryOf(Head(toSip))]
    /\ UNCHANGED <<lastId, regs, creds, events, handling, asked, exiting, wire, alive>>

(* SendSIP of anything but a REGISTER block. *)
SendMessage ==
    /\ alive /\ shared = "MESSAGE"
    /\ shared' = "none"
    /\ UNCHANGED <<toSip, eXosip, events, handling, asked, exiting, wire, alive>>

(* eXosip_register_build_initial_register: a new context with the next id, *)
(* its REGISTER sent or not.  r_id's wrap at INT_MAX is out of reach of    *)
(* one REGISTER and one UNREGISTER per run of the process.                 *)
NewContext(sent) ==
    [expire |-> upper.exp, retry |-> 0, cseq |-> GetStrCSeq, auth |-> FALSE, pending |-> sent]
NextId == lastId + 1
(* Mutant: the old registration is not removed. *)
RemovedNot(cs, id) == cs
(* eXosip_register_remove of the domain's m_nRegisterID. *)
Removed(cs, id) == Restrict(cs, DOMAIN cs \ {id})
With(cs, id, c) == [r \in DOMAIN cs \cup {id} |-> IF r = id THEN c ELSE cs[r]]

Registering == shared \in {"REGISTER", "UNREGISTER"}

Register ==
    /\ alive /\ Registering
    /\ lastId' = NextId
    /\ regs' = With(Removed(regs, upper.rid), NextId, NewContext(TRUE))
    /\ upper' = [upper EXCEPT !.rid = NextId, !.cseq = Incremented(@)]
    /\ OnWire(GetStrCSeq)
    /\ shared' = "none"
    /\ UNCHANGED <<toSip, creds, events, handling, asked, exiting, alive>>

(* Register when eXosip cannot build the REGISTER: the old context is gone *)
(* and m_nRegisterID keeps its id.  _eXosip_reg_init may fail before it    *)
(* counts r_id or after; when it is the build itself that fails, the new   *)
(* context is in j_reg already and stays there.                            *)
RegisterBuildFails ==
    /\ MayFail /\ alive /\ Registering
    /\ lastId' \in {lastId, NextId}
    /\ \/ regs' = Removed(regs, upper.rid)
       \/ /\ lastId' = NextId
          /\ regs' = With(Removed(regs, upper.rid), NextId, NewContext(FALSE))
    /\ shared' = "none"
    /\ UNCHANGED <<toSip, upper, creds, events, handling, asked, exiting, wire, alive>>

(* Register when the transaction cannot be made: the context is named and  *)
(* idle, and the CSeq is used up.                                          *)
RegisterSendFails ==
    /\ MayFail /\ alive /\ Registering
    /\ lastId' = NextId
    /\ regs' = With(Removed(regs, upper.rid), NextId, NewContext(FALSE))
    /\ upper' = [upper EXCEPT !.rid = NextId, !.cseq = Incremented(@)]
    /\ shared' = "none"
    /\ UNCHANGED <<toSip, creds, events, handling, asked, exiting, wire, alive>>

-----------------------------------------------------------------------------
(* The platform answers, or eXosip's transaction times out. *)

Replies(c) == IF Challenge /\ ~c.auth THEN {401} ELSE Verdicts
Answer(r, code) ==
    /\ alive /\ regs[r].pending
    /\ code \in Replies(regs[r])
    /\ regs' = [regs EXCEPT ![r].pending = FALSE]
    /\ events' = Append(events, [rid |-> r, code |-> code])
    /\ UNCHANGED <<toSip, shared, upper, lastId, creds, handling, asked, exiting, wire, alive>>

-----------------------------------------------------------------------------
(* pfnSIPProc *)

(* HandleSIP up to its switch: eXosip_default_action answers a challenge   *)
(* itself, at most Retries times for a context, with the CSeq that follows *)
(* the challenged one and with credentials only if it has them.  The       *)
(* attempt counts even when a request of the context is under way or the   *)
(* new one cannot be built.                                                *)
Retried(c) == [c EXCEPT !.retry = @ + 1, !.cseq = @ + 1, !.auth = creds, !.pending = TRUE]
MayRetry(ev) ==
    /\ ev.code = 401 /\ ev.rid \in DOMAIN regs
    /\ regs[ev.rid].retry < Retries
TakeEvent ==
    /\ alive /\ handling = NoEvent /\ events # <<>>
    /\ handling' = Head(events)
    /\ events' = Tail(events)
    /\ UNCHANGED <<toSip, shared, upper, lastId, creds, asked, exiting, alive>>
DefaultAction ==
    /\ TakeEvent
    /\ LET ev == Head(events) IN
         \/ /\ MayRetry(ev) /\ ~regs[ev.rid].pending
            /\ regs' = [regs EXCEPT ![ev.rid] = Retried(@)]
            /\ OnWire(regs[ev.rid].cseq + 1)
         \/ /\ MayRetry(ev) /\ (regs[ev.rid].pending \/ MayFail)
            /\ regs' = [regs EXCEPT ![ev.rid].retry = @ + 1]
            /\ UNCHANGED wire
         \/ /\ ~MayRetry(ev)
            /\ UNCHANGED <<regs, wire>>

(* A handler that ends pfnSIPProc's work on its event, and one that ends   *)
(* the process.                                                            *)
Handled ==
    /\ handling' = NoEvent
    /\ UNCHANGED <<toSip, shared, lastId, events, asked, exiting>>
Faults == Handled /\ alive' = FALSE /\ UNCHANGED <<upper, regs, creds, wire>>

(* HandleRegSuccess: SendDataToShared reads p_body->length of a REGISTER.  *)
HandleRegSuccess ==
    /\ alive /\ handling # NoEvent /\ handling.code = 200
    /\ Faults

(* Mutant: the credentials are not given to eXosip. *)
AuthenticatedNot == creds
(* eXosip_add_authentication_info: from now on eXosip can authenticate.    *)
Authenticated == TRUE

(* Mutant: the REGISTER with the credentials is left to eXosip, whose own  *)
(* retries may be used up.                                                 *)
HandleChallengeLeaves ==
    /\ alive /\ handling # NoEvent /\ handling.code = 401
    /\ creds' = Authenticated
    /\ Handled /\ UNCHANGED <<upper, regs, wire, alive>>

(* HandleRegFail on a 401: the credentials are given to eXosip; the build  *)
(* overwrites the context's expiry and fails when the context is gone or   *)
(* eXosip's own retry is under way.  The event's context is then the one   *)
(* m_nRegisterID names (EventsOfNamed).                                    *)
RebuildFails(ev) == ev.rid \in DOMAIN regs => regs[ev.rid].pending
Rebuilt(c) == [c EXCEPT !.expire = upper.exp, !.cseq = GetStrCSeq, !.auth = Authenticated, !.pending = TRUE]
HandleChallenge ==
    /\ alive /\ handling # NoEvent /\ handling.code = 401
    /\ ~RebuildFails(handling)
    /\ creds' = Authenticated
    /\ regs' = [regs EXCEPT ![upper.rid] = Rebuilt(@)]
    /\ upper' = [upper EXCEPT !.cseq = Incremented(@)]
    /\ OnWire(GetStrCSeq)
    /\ Handled /\ UNCHANGED alive

(* The build fails: because there is nothing to rebuild, *)
Expiring(cs, r) == [k \in DOMAIN cs |-> IF k = r THEN [cs[k] EXCEPT !.expire = upper.exp] ELSE cs[k]]
HandleChallengeStale ==
    /\ alive /\ handling # NoEvent /\ handling.code = 401
    /\ RebuildFails(handling)
    /\ creds' = Authenticated
    /\ regs' = Expiring(regs, handling.rid)
    /\ Handled /\ UNCHANGED <<upper, wire, alive>>

(* or because eXosip cannot, or cannot send what it built (then the CSeq   *)
(* is used up).                                                            *)
HandleChallengeFails ==
    /\ MayFail /\ alive /\ handling # NoEvent /\ handling.code = 401
    /\ ~RebuildFails(handling)
    /\ creds' = Authenticated
    /\ regs' = Expiring(regs, handling.rid)
    /\ \/ UNCHANGED upper
       \/ upper' = [upper EXCEPT !.cseq = Incremented(@)]
    /\ Handled /\ UNCHANGED <<wire, alive>>

(* Any other answer is to be reported as a failure, by SendDataToShared.   *)
HandleRefusal ==
    /\ alive /\ handling # NoEvent /\ handling.code = 403
    /\ Faults

(* No answer: m_pEvent->response is null and its status_code is read. *)
HandleTimeout ==
    /\ alive /\ handling # NoEvent /\ handling.code = 0
    /\ Faults

-----------------------------------------------------------------------------
SharedThread == HandleShared \/ SendMessage \/ Register
SipThread ==
    \/ DefaultAction \/ HandleRegSuccess \/ HandleChallenge \/ HandleChallengeStale
    \/ HandleRefusal \/ HandleTimeout
Platform == \E r \in DOMAIN regs, code \in Codes : Answer(r, code)

Next ==
    \/ AppRegister \/ AppUnregister \/ AppMessage
    \/ HandleShared \/ SendMessage
    \/ Register \/ RegisterBuildFails \/ RegisterSendFails
    \/ \E r \in DOMAIN regs, code \in Codes : Answer(r, code)
    \/ DefaultAction \/ HandleRegSuccess
    \/ HandleChallenge \/ HandleChallengeStale \/ HandleChallengeFails
    \/ HandleRefusal \/ HandleTimeout

Spec == Init /\ [][Next]_vars

(* Both threads run as long as the process does, and a transaction ends:   *)
(* eXosip's timers see to it.                                              *)
FairSpec == Spec /\ WF_vars(SharedThread) /\ WF_vars(SipThread) /\ WF_vars(Platform)

-----------------------------------------------------------------------------
(* A context that m_nRegisterID does not name, left behind by a REGISTER   *)
(* that could not be built, has no request under way: whatever the two     *)
(* threads interleave, at most one REGISTER of this process waits for an   *)
(* answer, and it is the one of the context the next Register removes.     *)
StrayIdle == \A r \in DOMAIN regs : r # upper.rid => ~regs[r].pending

(* Why: an event that waits, or is in pfnSIPProc's hands, is of the named  *)
(* context or of one that is gone, so that no retry wakes a stray one.     *)
OfNamed(ev) == ev.rid \in DOMAIN regs => ev.rid = upper.rid
EventsOfNamed ==
    /\ \A i \in 1 .. Len(events) : events[i].rid <= lastId /\ OfNamed(events[i])
    /\ handling.rid <= lastId /\ OfNamed(handling)

(* What is still under way for the application: a REGISTER in              *)
(* App_to_Sipcom or in pfnSharedProc's hands, a request on the wire, an    *)
(* answer that is not the challenge of a REGISTER since replaced, and the  *)
(* event in pfnSIPProc's hands if there is something left to do for it.    *)
InQueue == \E i \in 1 .. Len(toSip) : toSip[i] # "MESSAGE"
OnTheWire == \E r \in DOMAIN regs : regs[r].pending
Counts(ev) == ev.code # 401 \/ ev.rid \in DOMAIN regs
Unsettled == handling.code # 401 \/ ~RebuildFails(handling)
UnderWay ==
    \/ InQueue \/ Registering \/ OnTheWire
    \/ \E i \in 1 .. Len(events) : Counts(events[i])
    \/ Unsettled

(* What the application asked for is not mislaid: the last of it goes only *)
(* with the process (the faults on an outcome) or where eXosip could not   *)
(* build or send a REGISTER.  A challenge that is dropped because a later  *)
(* REGISTER replaced its own, or because eXosip has answered it, is never  *)
(* the last: the other request or its answer is still there.               *)
NotMislaid ==
    [][UnderWay /\ ~UnderWay' =>
         ~alive' \/ RegisterBuildFails \/ RegisterSendFails \/ HandleChallengeFails]_vars

(* The platform rejects credentials: a REGISTER that had them is answered  *)
(* 401 (or eXosip has just sent them once more because of it).             *)
Rejecting ==
    /\ handling # NoEvent /\ handling.code = 401 /\ handling.rid \in DOMAIN regs
    /\ regs[handling.rid].auth

(* What is under way comes to an end: challenges, eXosip's retries and     *)
(* HandleRegFail's own REGISTERs do not go on for ever, unless the         *)
(* platform rejects the credentials again and again.                       *)
ComesToAnEnd ==
    \/ []<>Rejecting
    \/ UnderWay ~> (~UnderWay \/ ~alive)
=============================================================================
