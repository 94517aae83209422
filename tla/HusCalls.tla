------------------------------ MODULE HusCalls ------------------------------
(***************************************************************************)
(* An upper gateway (app_work_mode 1) calls the lower domain for its TCP   *)
(* clients (HUS): a client's INVITE, ACK and BYE on their way to eXosip,   *)
(* and the answer to the INVITE on its way back to the client's socket.    *)
(*                                                                         *)
(* Five threads of two processes pass a request and its answer on:         *)
(*   CUASTCP's socket thread       RawDataHandleProc, SaveSession          *)
(*   CSIPCom's module thread       HandleMsg                               *)
(*   CSIPService's pfnSharedProc   SendInviteBroadCast, SendAckBroadCast,  *)
(*                                 SendCallBye                             *)
(*   CSIPService's pfnSIPProc      HandleInviteResponse, HandleBye         *)
(*   CSIPCom's HandleShared, then GBAdaptorCom's module thread.            *)
(* The answer finds its client through two tables: the SIP process's       *)
(* M_UniqueIDToCallID, keyed by the Call-ID as an int, and the socket      *)
(* server's sessions, keyed by the unique id.  (M_SeqIDToCallID is written *)
(* and read with the same key and is the same table here.)                 *)
(*                                                                         *)
(* Two objects are read after they were given away.  The socket thread     *)
(* reads the unique id of a message that SIPCOM may have freed, and        *)
(* HandleShared reads a block after PopDone, when a block pushed meanwhile *)
(* may take its memory.  Both reads may then find anything: another id,    *)
(* and any mixture of the two blocks.  misfiled and mixed remember the     *)
(* requests and the calls this has happened to.                            *)
(*                                                                         *)
(* CSmartSocket and SocketSession (one receiving thread, a map from unique *)
(* id to socket), the message pool, the shared-memory queues and the lower *)
(* domain are external; eXosip's calls are modelled from its source.       *)
(***************************************************************************)
EXTENDS Naturals, Sequences

CONSTANTS
    Clients,     \* the TCP clients
    MaxReq,      \* requests of all clients together
    CallIds,     \* numbers eXosip may draw for a Call-ID (unsigned, 32 bits)
    IntMax,      \* largest int: what atoi returns for a larger number
    OutCap,      \* blocks in App_to_Sipcom
    InCap        \* blocks in Sipcom_to_App

ASSUME BoundAssumption == MaxReq \in Nat /\ OutCap \in Nat /\ InCap \in Nat
ASSUME CallIdAssumption == CallIds \subseteq Nat /\ IntMax \in Nat

VARIABLES
    nUniqueID,   \* CUASTCP's counter of requests
    asker,       \* by unique id: the client whose request it was
    saving,      \* the id of the request pushed to SIPCOM whose session is not saved, or 0
    sessions,    \* SocketSession: by unique id, the client whose socket is stored
    misfiled,    \* the ids of requests whose session was saved under another id, and those ids
    sipQ,        \* messages in SIPCOM's module queue
    toSip,       \* App_to_Sipcom
    calls,       \* eXosip's calls, in the order of their cid
    uniqueIDs,   \* M_UniqueIDToCallID
    events,      \* eXosip's events that wait for pfnSIPProc
    toApp,       \* Sipcom_to_App
    held,        \* the block HandleShared reads after PopDone, at most one
    mixed,       \* the calls of a block that was overwritten while it was held
    adaptorQ,    \* messages in GBADAPTORCOM's module queue
    replies,     \* answers written to a client's socket
    lost,        \* calls whose answer went to INVALID_SOCKET
    dropped      \* calls whose answer found Sipcom_to_App full

tcp == <<nUniqueID, asker, saving, sessions, misfiled>>
sip == <<calls, uniqueIDs, events>>
app == <<toApp, held, mixed>>
vars == <<tcp, sipQ, toSip, sip, app, adaptorQ, replies, lost, dropped>>

ReqIds == 1 .. MaxReq
CallNos == 1 .. Len(calls)
Ops == {"INVITE", "ACK", "BYE", "OTHER"}
Request == [op : Ops, uid : ReqIds, call : Nat]
Call == [number : CallIds, uid : ReqIds, state : {"inviting", "answered", "confirmed", "over"}]
Event == [kind : {"ANSWERED", "CLOSED"}, call : Nat \ {0}]
Block == [kind : {"INVITE_RESPONSE", "BYE"}, call : Nat \ {0}, uid : 0 .. MaxReq]
Answer == [call : Nat \ {0}, uid : 0 .. MaxReq]
Reply == [call : Nat \ {0}, to : Clients]

(* Every queue and table holds what its code puts there; a unique id that  *)
(* the SIP process stores or sends back was given out.                     *)
TypeOK ==
    /\ nUniqueID \in 0 .. MaxReq /\ asker \in Seq(Clients) /\ Len(asker) = nUniqueID
    /\ saving \in 0 .. MaxReq /\ misfiled \subseteq 0 .. MaxReq
    /\ DOMAIN sessions \subseteq 0 .. MaxReq /\ \A u \in DOMAIN sessions : sessions[u] \in Clients
    /\ sipQ \in Seq(Request) /\ toSip \in Seq(Request)
    /\ calls \in Seq(Call)
    /\ DOMAIN uniqueIDs \subseteq Nat /\ \A k \in DOMAIN uniqueIDs : uniqueIDs[k] \in ReqIds
    /\ events \in Seq(Event) /\ toApp \in Seq(Block)
    /\ held \in Seq(Block) /\ Len(held) <= 1 /\ mixed \subseteq CallNos
    /\ adaptorQ \in Seq(Answer) /\ replies \in Seq(Reply)
    /\ lost \subseteq CallNos /\ dropped \subseteq CallNos

Init ==
    /\ nUniqueID = 0 /\ asker = <<>> /\ saving = 0 /\ sessions = <<>> /\ misfiled = {}
    /\ sipQ = <<>> /\ toSip = <<>>
    /\ calls = <<>> /\ uniqueIDs = <<>> /\ events = <<>>
    /\ toApp = <<>> /\ held = <<>> /\ mixed = {} /\ adaptorQ = <<>>
    /\ replies = <<>> /\ lost = {} /\ dropped = {}

-----------------------------------------------------------------------------
(* CUASTCP's socket thread *)

(* RawDataHandleProc up to PushMsg.  An ACK or a BYE names any call there  *)
(* is: nobody checks that it is one of the client's.                       *)
RawDataHandleProc(k, op, c) ==
    /\ saving = 0 /\ nUniqueID < MaxReq
    /\ (c = 0) <=> (op \notin {"ACK", "BYE"})
    /\ nUniqueID' = nUniqueID + 1
    /\ asker' = Append(asker, k)
    /\ sipQ' = Append(sipQ, [op |-> op, uid |-> nUniqueID', call |-> c])
    /\ saving' = nUniqueID'
    /\ UNCHANGED <<sessions, misfiled, toSip, sip, app, adaptorQ, replies, lost, dropped>>

(* HandleMsg has freed the message of request u. *)
Freed(u) == \A i \in 1 .. Len(sipQ) : sipQ[i].uid # u

Stored(f, u, k) == [x \in DOMAIN f \cup {u} |-> IF x = u THEN k ELSE f[x]]

(* Mutant: the session is stored under the id before it is counted on. *)
SaveSessionBefore(u) ==
    /\ saving # 0
    /\ u = saving \/ Freed(saving)
    /\ sessions' = Stored(sessions, saving - 1, asker[saving])
    /\ misfiled' = IF u = saving THEN misfiled ELSE misfiled \cup {saving, u}
    /\ saving' = 0
    /\ UNCHANGED <<nUniqueID, asker, sipQ, toSip, sip, app, adaptorQ, replies, lost, dropped>>
(* RawDataHandleProc's last line, when the request may be far along: the   *)
(* id is read from the message, and may be any once the message is freed   *)
(* (0 stands for those that no request has).                               *)
SaveSession(u) ==
    /\ saving # 0
    /\ u = saving \/ Freed(saving)
    /\ sessions' = Stored(sessions, u, asker[saving])
    /\ misfiled' = IF u = saving THEN misfiled ELSE misfiled \cup {saving, u}
    /\ saving' = 0
    /\ UNCHANGED <<nUniqueID, asker, sipQ, toSip, sip, app, adaptorQ, replies, lost, dropped>>

-----------------------------------------------------------------------------
(* CSIPCom::HandleMsg: calls become blocks, the client's other requests    *)
(* have no action for SIPCOM and are freed.  A full queue drops the block. *)
HandleMsg ==
    /\ sipQ # <<>>
    /\ sipQ' = Tail(sipQ)
    /\ toSip' = IF Head(sipQ).op # "OTHER" /\ Len(toSip) < OutCap
                THEN Append(toSip, Head(sipQ)) ELSE toSip
    /\ UNCHANGED <<tcp, sip, app, adaptorQ, replies, lost, dropped>>

-----------------------------------------------------------------------------
(* CSIPService's pfnSharedProc *)

(* MSVC's atoi stays at INT_MAX for a larger number. *)
atoi(n) == IF n > IntMax THEN IntMax ELSE n

(* Mutant: the entry is made by operator[], with 0, and not assigned. *)
EmplacedDefault(m, k, v) ==
    [x \in DOMAIN m \cup {k} |-> IF x \in DOMAIN m THEN m[x] ELSE 0]
(* unordered_map::emplace leaves an existing entry as it is. *)
Emplaced(m, k, v) ==
    [x \in DOMAIN m \cup {k} |-> IF x \in DOMAIN m THEN m[x] ELSE v]

(* A Call-ID number of this process that no earlier call has. *)
Fresh(n) == n \in CallIds /\ \A c \in CallNos : calls[c].number # n

(* SendInviteBroadCast with an INVITE that eXosip sends, or fails to send  *)
(* when the Call-ID is already in the table.                               *)
SendInviteBroadCast(n, sent) ==
    /\ toSip # <<>> /\ Head(toSip).op = "INVITE" /\ Fresh(n)
    /\ toSip' = Tail(toSip)
    /\ uniqueIDs' = Emplaced(uniqueIDs, atoi(n), Head(toSip).uid)
    /\ calls' = Append(calls, [number |-> n, uid |-> Head(toSip).uid,
                               state |-> IF sent THEN "inviting" ELSE "over"])
    /\ UNCHANGED <<tcp, sipQ, events, app, adaptorQ, replies, lost, dropped>>

(* eXosip_call_build_initial_invite fails: nothing is stored or reported. *)
BuildInviteFails ==
    /\ toSip # <<>> /\ Head(toSip).op = "INVITE"
    /\ toSip' = Tail(toSip)
    /\ UNCHANGED <<tcp, sipQ, sip, app, adaptorQ, replies, lost, dropped>>

(* eXosip finds the dialog by its id: a call that is over has none. *)
InDialog(c) == c \in CallNos /\ calls[c].state \in {"answered", "confirmed"}

SendAckBroadCast ==
    /\ toSip # <<>> /\ Head(toSip).op = "ACK"
    /\ toSip' = Tail(toSip)
    /\ calls' = IF InDialog(Head(toSip).call)
                THEN [calls EXCEPT ![Head(toSip).call].state = "confirmed"] ELSE calls
    /\ UNCHANGED <<tcp, sipQ, uniqueIDs, events, app, adaptorQ, replies, lost, dropped>>

SendCallBye ==
    /\ toSip # <<>> /\ Head(toSip).op = "BYE"
    /\ toSip' = Tail(toSip)
    /\ calls' = IF InDialog(Head(toSip).call)
                THEN [calls EXCEPT ![Head(toSip).call].state = "over"] ELSE calls
    /\ UNCHANGED <<tcp, sipQ, uniqueIDs, events, app, adaptorQ, replies, lost, dropped>>

-----------------------------------------------------------------------------
(* The lower domain *)

LowerAnswers(c) ==
    /\ c \in CallNos /\ calls[c].state = "inviting"
    /\ calls' = [calls EXCEPT ![c].state = "answered"]
    /\ events' = Append(events, [kind |-> "ANSWERED", call |-> c])
    /\ UNCHANGED <<tcp, sipQ, toSip, uniqueIDs, app, adaptorQ, replies, lost, dropped>>

(* It refuses the call or lets it time out; HandleSIP has no case for the  *)
(* event and nobody is told.                                               *)
LowerRefuses(c) ==
    /\ c \in CallNos /\ calls[c].state = "inviting"
    /\ calls' = [calls EXCEPT ![c].state = "over"]
    /\ UNCHANGED <<tcp, sipQ, toSip, uniqueIDs, events, app, adaptorQ, replies, lost, dropped>>

LowerBye(c) ==
    /\ InDialog(c)
    /\ calls' = [calls EXCEPT ![c].state = "over"]
    /\ events' = Append(events, [kind |-> "CLOSED", call |-> c])
    /\ UNCHANGED <<tcp, sipQ, toSip, uniqueIDs, app, adaptorQ, replies, lost, dropped>>

-----------------------------------------------------------------------------
(* CSIPService's pfnSIPProc: an answer carries the unique id stored under  *)
(* its Call-ID.  A full queue drops the block.                             *)

(* The id the SIP process has for call c. *)
KnownId(c) == uniqueIDs[atoi(calls[c].number)]

(* What the memory of block h may hold while or after b is written over it. *)
Mixtures(h, b) == [kind : {h.kind, b.kind}, call : {h.call, b.call}, uid : {h.uid, b.uid}]

(* SendShared into a queue that is not full.  The block may take the       *)
(* memory of the one HandleShared has released and still reads.            *)
PushBlock(b) ==
    /\ toApp' = Append(toApp, b)
    /\ \/ UNCHANGED <<held, mixed>>
       \/ /\ held # <<>>
          /\ \E h \in Mixtures(held[1], b) \ {held[1]} : held' = <<h>>
          /\ mixed' = mixed \cup {held[1].call, b.call}

HandleInviteResponse ==
    /\ events # <<>> /\ Head(events).kind = "ANSWERED"
    /\ events' = Tail(events)
    /\ LET c == Head(events).call IN
         IF Len(toApp) < InCap
         THEN /\ PushBlock([kind |-> "INVITE_RESPONSE", call |-> c, uid |-> KnownId(c)])
              /\ UNCHANGED dropped
         ELSE /\ dropped' = dropped \cup {c}
              /\ UNCHANGED app
    /\ UNCHANGED <<tcp, sipQ, toSip, calls, uniqueIDs, adaptorQ, replies, lost>>

(* The block of a BYE carries no unique id. *)
HandleBye ==
    /\ events # <<>> /\ Head(events).kind = "CLOSED"
    /\ events' = Tail(events)
    /\ IF Len(toApp) < InCap
       THEN PushBlock([kind |-> "BYE", call |-> Head(events).call, uid |-> 0])
       ELSE UNCHANGED app
    /\ UNCHANGED <<tcp, sipQ, toSip, calls, uniqueIDs, adaptorQ, replies, lost, dropped>>

-----------------------------------------------------------------------------
(* CSIPCom::HandleShared *)

(* PopAlloc and PopDone. *)
PopBlock ==
    /\ held = <<>> /\ toApp # <<>>
    /\ held' = <<Head(toApp)>>
    /\ toApp' = Tail(toApp)
    /\ UNCHANGED <<tcp, sipQ, toSip, sip, mixed, adaptorQ, replies, lost, dropped>>

(* Mutant: the case falls into a BYE case that sends its message, too. *)
RecvInviteResponseTwice ==
    /\ held # <<>> /\ held[1].kind = "INVITE_RESPONSE"
    /\ held' = <<>>
    /\ LET a == [call |-> held[1].call, uid |-> held[1].uid]
       IN  adaptorQ' = adaptorQ \o <<a, a>>
    /\ UNCHANGED <<tcp, sipQ, toSip, sip, toApp, mixed, replies, lost, dropped>>
(* Mutant: the answer is freed instead of being pushed. *)
RecvInviteResponseFreed ==
    /\ held # <<>> /\ held[1].kind = "INVITE_RESPONSE"
    /\ held' = <<>>
    /\ UNCHANGED <<tcp, sipQ, toSip, sip, toApp, mixed, adaptorQ, replies, lost, dropped>>
(* The case ST_CALL_INVITE_RESPONSE, which reads the released block. *)
RecvInviteResponse ==
    /\ held # <<>> /\ held[1].kind = "INVITE_RESPONSE"
    /\ held' = <<>>
    /\ adaptorQ' = Append(adaptorQ, [call |-> held[1].call, uid |-> held[1].uid])
    /\ UNCHANGED <<tcp, sipQ, toSip, sip, toApp, mixed, replies, lost, dropped>>

(* The case ST_CALL_BYE.  The push of play_ctrl_stop is commented out:     *)
(* nobody hears of a BYE.                                                  *)
RecvBye ==
    /\ held # <<>> /\ held[1].kind = "BYE"
    /\ held' = <<>>
    /\ UNCHANGED <<tcp, sipQ, toSip, sip, toApp, mixed, adaptorQ, replies, lost, dropped>>

-----------------------------------------------------------------------------
(* GBAdaptorCom's thread *)

(* Mutant: the socket is looked up with the newest unique id. *)
MatchRequestLatest(u) == asker[nUniqueID]
(* The client of a stored session. *)
MatchRequest(u) == sessions[u]

(* OnHusInviteRes and ReplyHusInvite; the socket is not checked. *)
OnHusInviteRes ==
    /\ adaptorQ # <<>>
    /\ adaptorQ' = Tail(adaptorQ)
    /\ LET a == Head(adaptorQ) IN
         IF a.uid \in DOMAIN sessions
         THEN /\ replies' = Append(replies, [call |-> a.call, to |-> MatchRequest(a.uid)])
              /\ UNCHANGED lost
         ELSE /\ lost' = lost \cup {a.call}
              /\ UNCHANGED replies
    /\ UNCHANGED <<tcp, sipQ, toSip, sip, app, dropped>>

-----------------------------------------------------------------------------
Next ==
    \/ \E k \in Clients, op \in Ops, c \in {0} \cup CallNos : RawDataHandleProc(k, op, c)
    \/ \E u \in 0 .. MaxReq : SaveSession(u)
    \/ HandleMsg
    \/ \E n \in CallIds, sent \in BOOLEAN : SendInviteBroadCast(n, sent)
    \/ BuildInviteFails
    \/ SendAckBroadCast
    \/ SendCallBye
    \/ \E c \in CallNos : LowerAnswers(c) \/ LowerRefuses(c) \/ LowerBye(c)
    \/ HandleInviteResponse
    \/ HandleBye
    \/ PopBlock
    \/ RecvInviteResponse
    \/ RecvBye
    \/ OnHusInviteRes

Spec == Init /\ [][Next]_vars

(* Every thread that carries an answer loops for ever. *)
FairSpec ==
    /\ Spec
    /\ WF_vars(HandleInviteResponse \/ HandleBye)
    /\ WF_vars(PopBlock \/ RecvInviteResponse \/ RecvBye)
    /\ WF_vars(OnHusInviteRes)

-----------------------------------------------------------------------------
(* Neither the session of c's request nor a block of c was read after it   *)
(* had been given away and changed.                                        *)
Intact(c) == c \notin mixed /\ calls[c].uid \notin misfiled

(* The key of c's Call-ID is c's own: no earlier call has it. *)
OwnKey(c) == KnownId(c) = calls[c].uid

(* The answer to an INVITE is written to the socket of the client that     *)
(* asked for the call, and to no other: what MatchRequest is for.  It is   *)
(* so for every intact call whose key is its own.                          *)
ReplyToAsker ==
    \A i \in 1 .. Len(replies) :
        LET c == replies[i].call IN
        Intact(c) /\ OwnKey(c) => replies[i].to = asker[calls[c].uid]

(* ReplyToAsker without the condition on the key: what MatchRequest's      *)
(* comment says.                                                           *)
MatchesSocket ==
    \A i \in 1 .. Len(replies) :
        LET c == replies[i].call IN Intact(c) => replies[i].to = asker[calls[c].uid]

(* A call's answer is in one place only, from eXosip's event to the        *)
(* client's socket: it is neither replied twice nor both lost and replied, *)
(* unless a block of the call was mixed with another one.                  *)
EventOf(c) == {i \in 1 .. Len(events) : events[i] = [kind |-> "ANSWERED", call |-> c]}
BlockOf(c) == {i \in 1 .. Len(toApp) : toApp[i].kind = "INVITE_RESPONSE" /\ toApp[i].call = c}
HeldOf(c) == {i \in 1 .. Len(held) : held[i].kind = "INVITE_RESPONSE" /\ held[i].call = c}
MessageOf(c) == {i \in 1 .. Len(adaptorQ) : adaptorQ[i].call = c}
ReplyOf(c) == {i \in 1 .. Len(replies) : replies[i].call = c}
Places(c) ==
    <<EventOf(c), BlockOf(c), HeldOf(c), MessageOf(c), ReplyOf(c), lost \cap {c}, dropped \cap {c}>>
SingleReply ==
    \A c \in CallNos \ mixed :
        LET P == Places(c) IN \A p, q \in 1 .. 7 : \A x \in P[p], y \in P[q] : p = q /\ x = y

(* The answer to an intact call with a key of its own is lost at the       *)
(* socket only while RawDataHandleProc is between PushMsg and SaveSession  *)
(* for the very request that asked for the call.                           *)
LostOnlyInWindow ==
    [][\A c \in lost' \ lost : Intact(c) /\ OwnKey(c) => saving = calls[c].uid]_vars

(* What the lower domain answers reaches a client's socket, unless the     *)
(* shared-memory queue was full, the session was not saved yet or the      *)
(* block was overwritten before it was read.                               *)
Settled(c) == ReplyOf(c) # {} \/ c \in lost \/ c \in dropped \/ c \in mixed
AnswerDelivered ==
    \A c \in ReqIds : (c \in CallNos /\ calls[c].state = "answered") ~> Settled(c)

(* The threads, tables and queues implement CallDesk: one desk that tells  *)
(* each call's owner its answer.  An answer that is on its way can neither *)
(* vanish nor come back, and goes to the owner or to nobody, until the     *)
(* call is adrift; a call that has its own key gets adrift only by one of  *)
(* the two late reads, and takes no other call with it than the one whose  *)
(* block or session it was mixed up with.                                  *)
Owner == [c \in CallNos |-> asker[calls[c].uid]]
FateOf(c) ==
    IF ~(Intact(c) /\ OwnKey(c)) THEN "adrift"
    ELSE IF calls[c].state = "inviting" THEN "asked"
    ELSE IF ReplyOf(c) # {} THEN "told"
    ELSE IF c \in lost \/ c \in dropped THEN "lost"
    ELSE IF EventOf(c) # {} \/ BlockOf(c) # {} \/ HeldOf(c) # {} \/ MessageOf(c) # {} THEN "coming"
    ELSE "failed"
Desk == INSTANCE CallDesk WITH owner <- Owner, fate <- [c \in CallNos |-> FateOf(c)]
DeskSpec == Desk!Spec
=============================================================================
