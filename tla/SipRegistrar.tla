---------------------------- MODULE SipRegistrar ----------------------------
(***************************************************************************)
(* The registrar of an upper platform or relay: SipRegMgr (RegMgrCom), as  *)
(* HandleSIP calls it for the REGISTERs and keepalives of the other        *)
(* domains.  It runs on pfnSIPProc alone; a handler stores, then builds    *)
(* and sends its answers one by one, and each of these is a step, since    *)
(* the build can fail and the answer can be lost.                          *)
(*                                                                         *)
(* The domains are external: each sends what it likes, repeats itself, and *)
(* believes what the last answer that reached it told it.                  *)
(***************************************************************************)
EXTENDS Integers, Sequences, FiniteSets

CONSTANTS
    Mode,          \* app_work_mode: 1 upper platform, 2 relay
    Upper, Lower,  \* ids of m_UpperList[0] and m_LowerList[0]
    Others,        \* further ids that requests name
    NeedAuth,      \* ids whose entry has nNeedAuth set
    Unregistering, \* domains that may send expires 0
    NetCap,        \* requests on the network
    ReplyCap       \* answers on the network when a request is taken

ASSUME DomainAssumption ==
    /\ Mode \in {1, 2}
    /\ Upper # Lower /\ {Upper, Lower} \cap Others = {}
    /\ NetCap \in Nat /\ ReplyCap \in Nat

Domains == {Upper, Lower} \cup Others

(* InitgGlobalConfigInfo: the ids AddRegisterObjectInfo is called for. *)
Configured == IF Mode = 2 THEN {Upper, Lower} ELSE {Upper}

VARIABLES
    nStatus,       \* m_RegisterObjects[id].nStatus of the configured ids
    alive,         \* keepalives seen: timLastKeepAlive # 0
    net,           \* requests on their way, a sequence
    hand,          \* the request pfnSIPProc is answering, with the answers still to build
    replies,       \* answers to REGISTERs on their way
    told,          \* per domain, what the last answer that reached it means to it
    fault          \* the process has read through a null pointer or not caught an exception

vars == <<nStatus, alive, net, hand, replies, told, fault>>

(* STATUS_* of the repository that m_RegisterObjects can hold.  The two    *)
(* other values, SENT_401 and SENDT_403, are stored by DealStatus_Sent401  *)
(* only, which runs only on a stored SENT_401.                             *)
Stored == {"NOT_REGISTER", "SUCCESS", "EXIT", "SENT_401", "SENDT_403"}

(* A request is well formed, or its From has no user name, or its Contact  *)
(* or its expires is missing, or the port or the expires is not a number;  *)
(* a REGISTER may ask to leave (expires 0) and carry an Authorization.     *)
Request ==
    [kind : {"REGISTER"}, id : Domains, leave : BOOLEAN, auth : BOOLEAN,
     form : {"ok", "nameless", "nocontact", "noexpires", "text"}]
    \cup [kind : {"KEEPALIVE"}, id : Domains, form : {"ok", "nameless"}]

(* An answer of SendRegAnsweredByCode, or of SendAnsweredByCode (plain).   *)
Answers == [code : {200, 401, 403}, plain : BOOLEAN]
Reg(code) == [code |-> code, plain |-> FALSE]
Plain(code) == [code |-> code, plain |-> TRUE]
Told == {"out", "in", "challenged", "forbidden", "left"}
Reply == [id : Domains, means : Told]
Hand == [req : Request, todo : Seq(Answers), answered : BOOLEAN]
Idle == [req |-> [kind |-> "NONE"], todo |-> <<>>, answered |-> FALSE]

(* Every variable is in its range; m_RegisterObjects counts only for the   *)
(* ids that AddRegisterObjectInfo was called for.                          *)
TypeOK ==
    /\ nStatus \in [Configured -> Stored]
    /\ alive \in [Configured -> BOOLEAN]
    /\ net \in Seq(Request) /\ Len(net) <= NetCap
    /\ hand \in Hand \cup {Idle}
    /\ replies \subseteq Reply
    /\ told \in [Domains -> Told]
    /\ fault \in BOOLEAN

Init ==
    /\ nStatus = [d \in Configured |-> "NOT_REGISTER"]
    /\ alive = [d \in Configured |-> FALSE]
    /\ net = <<>> /\ hand = Idle /\ replies = {}
    /\ told = [d \in Domains |-> "out"]
    /\ fault = FALSE

-----------------------------------------------------------------------------
(* The other domains and the network. *)

Send(m) ==
    /\ Len(net) < NetCap
    /\ net' = Append(net, m)
    /\ UNCHANGED <<nStatus, alive, hand, replies, told, fault>>

RegisterOf(d, form, leave) ==
    [kind |-> "REGISTER", id |-> d, form |-> form, leave |-> leave, auth |-> told[d] = "challenged"]
SendRegister(d) ==
    \/ \E f \in {"ok", "nameless", "nocontact", "noexpires", "text"} : Send(RegisterOf(d, f, FALSE))
    \/ d \in Unregistering /\ Send(RegisterOf(d, "ok", TRUE))

(* A domain keeps itself alive while it takes itself for registered; one   *)
(* that an earlier configuration knew still does.                          *)
SendKeepalive(d) ==
    /\ told[d] = "in" \/ d \in Others
    /\ \E f \in {"ok", "nameless"} : Send([kind |-> "KEEPALIVE", id |-> d, form |-> f])

(* An answer reaches its domain, in any order, or is lost. *)
Deliver(r) ==
    /\ r \in replies
    /\ replies' = replies \ {r}
    /\ told' = [told EXCEPT ![r.id] = r.means]
    /\ UNCHANGED <<nStatus, alive, net, hand, fault>>
Lose(r) ==
    /\ r \in replies
    /\ replies' = replies \ {r}
    /\ UNCHANGED <<nStatus, alive, net, hand, told, fault>>

-----------------------------------------------------------------------------
(* GetRegisterObjectInfo: operator[] adds an empty entry for an unknown    *)
(* id, and an entry without a strDeviceID counts as unknown.               *)
Found(d) == d \in Configured

(* Mutant: nNeedAuth is only looked at when a registered domain returns. *)
GetRegisteringStatusOpen(m) ==
    IF ~Found(m.id) THEN "SEND_403"
    ELSE CASE nStatus[m.id] = "NOT_REGISTER" -> IF m.leave THEN "SEND_403" ELSE "DEFAULT"
           [] nStatus[m.id] = "SUCCESS" -> IF m.id \in NeedAuth THEN "SEND_401" ELSE "DEFAULT"
           [] OTHER -> nStatus[m.id]
(* Mutant: a domain that is not registered has no case of its own. *)
GetRegisteringStatusCaseless(m) ==
    IF ~Found(m.id) THEN "SEND_403"
    ELSE CASE nStatus[m.id] = "SUCCESS" -> IF m.id \in NeedAuth THEN "SEND_401" ELSE "DEFAULT"
           [] OTHER -> nStatus[m.id]
(* Mutant: a domain that is stored as registered and asks again is refused. *)
GetRegisteringStatusOnce(m) ==
    IF ~Found(m.id) THEN "SEND_403"
    ELSE CASE nStatus[m.id] = "NOT_REGISTER" ->
                IF m.leave THEN "SEND_403"
                ELSE IF m.id \in NeedAuth THEN "SEND_401" ELSE "DEFAULT"
           [] nStatus[m.id] = "SUCCESS" -> IF m.leave THEN "DEFAULT" ELSE "SEND_403"
           [] OTHER -> nStatus[m.id]
(* What OnRegister is to do with a REGISTER whose header parses. *)
GetRegisteringStatus(m) ==
    IF ~Found(m.id) THEN "SEND_403"
    ELSE CASE nStatus[m.id] = "NOT_REGISTER" ->
                IF m.leave THEN "SEND_403"
                ELSE IF m.id \in NeedAuth THEN "SEND_401" ELSE "DEFAULT"
           [] nStatus[m.id] = "SUCCESS" -> IF m.id \in NeedAuth THEN "SEND_401" ELSE "DEFAULT"
           [] OTHER -> nStatus[m.id]

(* The handler has stored what it stores and is left with answers to give. *)
ToAnswer(m, todo) == hand' = [req |-> m, todo |-> todo, answered |-> FALSE]

DealStatus_Send401(m) == ToAnswer(m, <<Reg(401)>>) /\ UNCHANGED nStatus
DealStatus_Send403(m) == ToAnswer(m, <<Reg(403)>>) /\ UNCHANGED nStatus
(* CheckRegAuthentication compares the digest it computes with itself. *)
DealStatus_Sent401(m) ==
    IF m.auth
    THEN ToAnswer(m, <<Reg(200)>>) /\ nStatus' = [nStatus EXCEPT ![m.id] = "SUCCESS"]
    ELSE ToAnswer(m, <<Reg(401), Reg(403)>>) /\ nStatus' = [nStatus EXCEPT ![m.id] = "SENDT_403"]

(* Mutant: an unregistering domain is stored as registered. *)
DealStatus_DefaultRegisterStays(m) ==
    /\ nStatus' = [nStatus EXCEPT ![m.id] = "SUCCESS"]
    /\ ToAnswer(m, <<Reg(200)>>)
DealStatus_DefaultRegister(m) ==
    /\ nStatus' = [nStatus EXCEPT ![m.id] = IF m.leave THEN "EXIT" ELSE "SUCCESS"]
    /\ ToAnswer(m, <<Reg(200)>>)

Taken ==
    /\ net # <<>> /\ hand = Idle /\ ~fault /\ Cardinality(replies) < ReplyCap
    /\ net' = Tail(net)

(* OnRegister of a request that CheckRegMsgHeader does not accept: refused *)
(* twice when From or Contact is no good (CheckRegMsgHeader and            *)
(* OnRegister), once when expires is missing; std::stoi throws on a port   *)
(* or an expires that is not a number, and nothing catches it.             *)
OnRegisterMalformed ==
    /\ Taken /\ Head(net).kind = "REGISTER" /\ Head(net).form # "ok"
    /\ LET m == Head(net) IN
         CASE m.form \in {"nameless", "nocontact"} -> ToAnswer(m, <<Plain(403), Reg(403)>>) /\ UNCHANGED fault
           [] m.form = "noexpires" -> ToAnswer(m, <<Reg(403)>>) /\ UNCHANGED fault
           [] m.form = "text" -> fault' = TRUE /\ UNCHANGED hand
    /\ UNCHANGED <<nStatus, alive, replies, told>>

(* OnRegister of a well-formed request; a stored status without a case of  *)
(* its own is not answered.                                                *)
OnRegister ==
    /\ Taken /\ Head(net).kind = "REGISTER" /\ Head(net).form = "ok"
    /\ LET m == Head(net) IN
         CASE GetRegisteringStatus(m) = "SEND_401" -> DealStatus_Send401(m)
           [] GetRegisteringStatus(m) = "SENT_401" -> DealStatus_Sent401(m)
           [] GetRegisteringStatus(m) = "SEND_403" -> DealStatus_Send403(m)
           [] GetRegisteringStatus(m) \in {"SUCCESS", "DEFAULT"} -> DealStatus_DefaultRegister(m)
           [] OTHER -> UNCHANGED <<hand, nStatus>>
    /\ UNCHANGED <<alive, replies, told, fault>>

(* Mutant: the entry operator[] adds for an unknown id is kept alive too. *)
OnKeepAlivePhantom ==
    /\ Taken /\ Head(net).kind = "KEEPALIVE"
    /\ LET m == Head(net) IN
         /\ ToAnswer(m, <<Plain(IF m.form = "ok" THEN 200 ELSE 403)>>)
         /\ alive' = [d \in DOMAIN alive \cup {m.id} |->
                        (d \in Configured /\ alive[d]) \/ (m.form = "ok" /\ d = m.id)]
    /\ UNCHANGED <<nStatus, replies, told, fault>>
(* OnKeepAlive logs localCacheObject->strDeviceID before it looks at ret;  *)
(* the pointer is null when the id is not configured.                      *)
OnKeepAlive ==
    /\ Taken /\ Head(net).kind = "KEEPALIVE"
    /\ LET m == Head(net) IN
         /\ IF m.form = "ok" /\ ~Found(m.id)
            THEN fault' = TRUE /\ UNCHANGED hand
            ELSE ToAnswer(m, <<Plain(IF m.form = "ok" THEN 200 ELSE 403)>>) /\ UNCHANGED fault
         /\ alive' = [d \in Configured |-> alive[d] \/ (m.form = "ok" /\ d = m.id)]
    /\ UNCHANGED <<nStatus, replies, told>>

-----------------------------------------------------------------------------
(* The answers, one by one. *)

(* What a domain makes of an answer to its REGISTER. *)
Meaning(code, m) ==
    CASE code = 200 -> IF m.leave THEN "left" ELSE "in"
      [] code = 401 -> "challenged"
      [] OTHER -> "forbidden"

(* The handler goes on to its next answer, or is done. *)
Advance(answered) ==
    hand' = IF Len(hand.todo) = 1 THEN Idle
            ELSE [hand EXCEPT !.todo = Tail(@), !.answered = answered]

(* SendRegAnsweredByCode copies the user name of From into the answer's    *)
(* Contact, and faults when there is none.                                 *)
Faulty(h) == h.req.form = "nameless" /\ ~Head(h.todo).plain

(* The answer is built and handed to eXosip, which sends only the first of *)
(* a transaction.                                                          *)
SendAnswer ==
    /\ ~fault /\ hand # Idle /\ ~Faulty(hand)
    /\ Advance(TRUE)
    /\ replies' = IF hand.answered \/ hand.req.kind # "REGISTER" THEN replies
                  ELSE replies \cup {[id |-> hand.req.id, means |-> Meaning(Head(hand.todo).code, hand.req)]}
    /\ UNCHANGED <<nStatus, alive, net, told, fault>>

SendAnswerFaults ==
    /\ ~fault /\ hand # Idle /\ Faulty(hand)
    /\ fault' = TRUE
    /\ UNCHANGED <<nStatus, alive, net, hand, replies, told>>

(* BUILD_ANSWER_ERROR, which no caller looks at. *)
AnswerNotBuilt ==
    /\ ~fault /\ hand # Idle
    /\ Advance(hand.answered)
    /\ UNCHANGED <<nStatus, alive, net, replies, told, fault>>

Next ==
    \/ \E d \in Domains : SendRegister(d) \/ SendKeepalive(d)
    \/ \E r \in replies : Deliver(r) \/ Lose(r)
    \/ OnRegister \/ OnRegisterMalformed \/ OnKeepAlive
    \/ SendAnswer \/ SendAnswerFaults \/ AnswerNotBuilt

Spec == Init /\ [][Next]_vars

(* The lower domain registers properly again and again, pfnSIPProc takes   *)
(* every event and finishes with it, an answer on its way arrives or is    *)
(* lost, one to the domain can be built again and again, and the network   *)
(* does not lose every one of a kind.                                      *)
FairSpec ==
    /\ Spec
    /\ SF_vars(Send(RegisterOf(Lower, "ok", FALSE)))
    /\ WF_vars(OnRegister \/ OnRegisterMalformed \/ OnKeepAlive)
    /\ WF_vars(SendAnswer \/ SendAnswerFaults)
    /\ WF_vars(\E r \in replies : Deliver(r) \/ Lose(r))
    /\ SF_vars(hand # Idle /\ hand.req = RegisterOf(Lower, "ok", FALSE) /\ SendAnswer)
    /\ SF_vars(Deliver([id |-> Lower, means |-> "in"]))

-----------------------------------------------------------------------------
(* A domain that believes itself registered is stored as registered, or    *)
(* has left in the meantime and the answer to that has not reached it; one *)
(* that believes it has left is stored so.  What DealStatus_* store before *)
(* they answer and what a domain is told never part further than that,     *)
(* whatever refusals, failed builds, lost and overtaking answers lie       *)
(* between.                                                                *)
Agrees(d, means) ==
    /\ means = "in" =>
         d \in Configured /\ (nStatus[d] = "SUCCESS" \/ (d \in Unregistering /\ nStatus[d] = "EXIT"))
    /\ means = "left" => d \in Configured /\ nStatus[d] = "EXIT"
BeliefMatches == \A d \in Domains : Agrees(d, told[d])

(* A domain with nNeedAuth is never stored as registered.  It should be    *)
(* after a verified digest, but the challenge is noted on a local copy     *)
(* only, so that the answer to it is challenged again.                     *)
NoUncheckedAccess == \A d \in Configured \cap NeedAuth : nStatus[d] # "SUCCESS"

(* pfnSIPProc is done with a REGISTER without an attempt to answer it only *)
(* when its domain has left (that domain is then ignored for good, since   *)
(* no case of OnRegister handles a stored STATUS_REGISTER_EXIT) or when    *)
(* the request has ended the process.                                      *)
Dropped == (OnRegister \/ OnRegisterMalformed) /\ hand' = Idle
AnsweredUnlessLeft ==
    [][Dropped => \/ fault'
                  \/ Head(net).id \in Configured /\ nStatus[Head(net).id] = "EXIT"]_vars

(* The lower domain hears that it is registered when it keeps asking,      *)
(* whatever malformed requests of its own and of others lie between, and   *)
(* although it may be stored as registered with the answer not built or    *)
(* lost; unless it has left or a request has ended the process.            *)
LowerRegisters == <>(told[Lower] = "in" \/ nStatus[Lower] = "EXIT" \/ fault)
=============================================================================
