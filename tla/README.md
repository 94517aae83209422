# GB28181Platform: TLA+ models and proofs

GB28181Platform is a Windows gateway between a video management system (the
"site", reached through a vendor SDK) and the GB/T 28181 world, which speaks
SIP. It runs in one of three modes (`app_work_mode`): 0, a lower gateway that
registers with one upper platform; 1, an upper platform that others register
with; 2, a relay that does both and forwards between them.

This directory holds TLA+ modules of the parts of the gateway whose correctness
depends on the order of events, the TLC configurations that check them on small
instances, and TLAPS proofs that hold for every value of their constants.
`PROJECT.json` lists components, runs, hazards, theorems and, for every
definition that models code, the source lines it models.

Contents: 1 inventory, 2 modules and code, 3 runs and bounds, 4 fairness,
5 proofs, 6 what the models show about the code, 7 what is left out, 8 plan.

## 1. Inventory

Two processes. The *application* process (`GB28181.Platform`) is a set of
modules, each with its own thread and message queue, which exchange
`CModMessage`s through a router. The *SIP* process (`GB28181.SipCom`) wraps
eXosip. They share two bounded queues of IPC blocks, `App_to_Sipcom` and
`Sipcom_to_App`; a block that does not fit is logged and forgotten. The router,
the message pools and the shared queues themselves are in `Common`, a submodule
that is not part of the repository.

```
  site --SDK--> SDKCOM, DEVINFO, RTSPCOM, GBADAPTORCOM --router--> SIPCOM
                                                          App_to_Sipcom | ^ Sipcom_to_App
                                                                        v |
                                      CSIPService: pfnSharedProc, pfnSIPProc; SipRegMgr's timer
                                                                        |  eXosip
                                                     upper platform, lower domains
```

| component | state | operations | hard behaviour | what makes it correct |
|---|---|---|---|---|
| `CSIPCom`, `CSIPUnit` (SIPCOM) | platform status, three deadlines, CSeq, CSeq of the last keepalive | `RegisterTimerProc`, drain of `Sipcom_to_App`, `HandleMsg`, `StopSubprocess` | three threads without a lock; late, lost or refused answers; full queues | a silent platform is noticed; calls stop with the registration; REGISTERs keep their distance |
| `CSIPService`, registration | upper domain (expiry, registration id, CSeq), eXosip's contexts | `HandleShared`, `Register`, `HandleRegFail`, `HandleRegSuccess` | two threads on one domain; eXosip retries a challenge by itself | one request at a time; nothing asked for is mislaid, and it comes to an end |
| `SipRegMgr`, registrar | status and keepalive time of each configured domain | `OnRegister`, `OnKeepAlive`, `OnModifyPassword` | long sequences of legal requests, malformed and repeated ones | what is stored and what the domain was told agree; everyone who has not left is answered |
| `SipRegMgr`'s timer, `CSipDomain` | status, last REGISTER, last keepalive | `CirclingCheckingTask`, `OnRegisterToSucess` | timer thread against SIP thread, late answers | keepalives in time, only when registered; a binding is renewed |
| `CSDKCom`, record queries | queue of queries, record list, two events | `ProcRecordSearch`, `pfnSearchVideoRecordProc`, `ReportResult`, `HandleRecordSearchResult` | three threads; failed searches; results after the wait | an answer has its query's records, all of them; every query is answered |
| `CDevInfo`, `CDataStore` | catalogue, GUID and id maps, subscriptions, alarm cache | catalogue queries, SUBSCRIBE, NOTIFY, online status, alarms | messages used after they were passed on, partial updates | answers complete; subscribers told of changes; cancelled ones told nothing |
| `CSIPService`, calls | eXosip's calls, the table from Call-ID to unique id | INVITE, ACK, BYE out; answers and BYE in | BYE crossing an answer; ids that collide; full queues | an answer reaches the request it answers, once |
| `SipServiceRelay`, `SipMsgMaker` | the routes between the two domains of a relay | forwarding of requests, answers and notifications | repetitions; answers handled like requests; ids in two realms | a request is forwarded once, to the other domain, in its terms |
| `CRTSPCom`, media sessions | a thread for each call | play, control, stop, teardown | old and new thread of one call | one session for each call, gone after the stop |
| `CGBAdaptorCom`, `CUASTCP` | unique ids and sessions of TCP clients | requests and replies | an answer before its session is saved | each reply to its own client |
| device control, decoder | tables of windows | one SDK call for each command | little | |
| process control | module threads | start, stop, configuration | a module that ends alone | |
| XML, SDP and RTSP text | none | build, parse | buffers | |

The places where these behaviours bite in code that runs at this commit are under
`hazards` in `PROJECT.json`, each at its line, with the properties that would
catch it.

## 2. Modules and code

Each component has a module, an `MC` module that TLC runs, and a `Proofs` module
that extends the component's module. Names follow the code. Definitions marked
"Mutant" are deliberately wrong forms of the definition that follows them; no
specification uses them. They document which slip in the code a property
would catch.

### PlatformReg: SIPCom.cpp, SIPUnit.cpp

State is `CSIPUnit`'s fields, the two shared queues and the position of three
threads. `time()` only ever meets a stored deadline, so a deadline is kept as
the seconds that remain. `Tick` is a second. The timers run once in a round of
`HandleShared`; the round waits for at most one second and then drains
`Sipcom_to_App` for as long as it is refilled, which the code does not bound.
`away` counts the seconds since the timers last ran and `LoopMax`, any positive
number, is the longest round: `SilenceBound` is stated in terms of it.

* `RegisterTimerProc` is a disjunction by status and deadline. Each disjunct is
  the whole call, for instance `TimerKeepaliveRenew`, in which the keepalive
  precedes the REGISTER.
* The drain loop takes a block at a time: `RecvRefused` (the login filter),
  `RecvMessageResponse`, `RecvInvite`, `RecvRegisterSuccess`,
  `RecvRegisterFail`, and `RecvPassedOn` for blocks that leave this state alone.
  MESSAGE and SUBSCRIBE are among those: `DispatchModMessage` and
  `DispatchModSSMessage` have no case that passes anything on at this commit.
* A block is popped and read in one step. The code reads it after `PopDone`,
  when another block may overwrite it; HusCalls models that, and here it is an
  assumption that the block is read before its memory is used again.
* `m_unSeq` is a UINT that wraps by itself and `GenerateCSeq` returns it as an int
  (`AsInt`). In the upper half it is negative, and `SendShared` takes another
  number for a keepalive that brought such a one, so the CSeq that is waited for
  is not the one that was sent (`KeepaliveSeq`, `KeepaliveSent`).
* `HandleMsg` is two steps, since it tests the status and sends without a lock.
* `playing` is the set of calls that RTSPCOM has been told to play and not to
  stop. The push for BYE is commented out in the code, so a BYE leaves it alone.
* Of the SIP process only what it may do to the two queues is kept: any answer, a
  late one, one lost because the queue is full, or none, at any time. This is
  more than SIPService.cpp does. At this commit it reports no outcome at all (see
  SipUplink), so a gateway of both processes stays in REGISTERING; the safety
  properties are about a SIP process that does report, and no property here
  relies on an answer.

`silence` and `sinceReg` are history variables.

### SipUplink: SIPService.cpp, SipDomain.cpp, eXosip's registration

The two threads of the SIP process in mode 0. A block is taken
(`HandleShared`, which sets the upper domain's expiry whatever the block is) and
sent (`Register`, `SendMessage`) in two steps. `pfnSIPProc` lets
`eXosip_default_action` answer a challenge, releases the lock and then runs
`HandleRegSuccess` or `HandleRegFail`: again two steps, and an answer may arrive
between them. `regs` is eXosip's list of registration contexts with its retry
counter, taken from the eXosip source in the repository.

What can go wrong in the code is a step of the model:

* `RegisterBuildFails`: the old context is removed, `m_nRegisterID` keeps its id,
  and the new context is in eXosip's list without a name or is not
  (`eXregister_api.c:387` adds it before the build fails).
* `RegisterSendFails`, `HandleChallengeFails`: the CSeq is used up, nothing is on
  the wire. A retry of eXosip that cannot be built counts all the same.
* `HandleRegSuccess`, `HandleRefusal`: `SendDataToShared` reads
  `p_body->length` of the REGISTER request (`SIPService.cpp:1022`), which has no
  body, and the process ends. So no outcome ever reaches `Sipcom_to_App`, and the
  full queue behind that line (`:992-1003`) is never met.
* `HandleTimeout`: the response whose status `HandleRegFail` reads (`:1165`) is
  null.

`HandleChallenge` registers once more with the credentials; when the context is
gone or eXosip's own retry is under way the build fails
(`HandleChallengeStale`). `UnderWay` says that something of what the application
asked for is still in a queue, in a thread's hands, on the wire or in an event
that leads on. `AskMax` is 1 in the runs: told no outcome, `CSIPCom` asks
once. The UNREGISTER at exit comes on top, at any point.

### SipRegistrar: UASSipRegMgr.cpp

`GetRegisteringStatus` and the four `DealStatus_` functions are operators,
`OnRegister`, `OnRegisterMalformed` and `OnKeepAlive` actions. A request is
reduced to what these read: who, whether it asks to leave, whether credentials
are there, and its form: well formed, a From without a user name, no Contact, no
expires, or a port or expires that is not a number.

A handler stores first and answers afterwards. `hand` holds the request and the
answers still to be built; each is then sent (`SendAnswer`, of which eXosip lets
only the first of a transaction out), not built (`AnswerNotBuilt`:
`BUILD_ANSWER_ERROR`, which no caller looks at) or ends the process
(`SendAnswerFaults`: the user name of From is copied into the Contact). `std::stoi`
throws on what is not a number and nothing catches it. Answers on the network
(`replies`) arrive in any order or are lost; `told` is what a domain makes of
the last one that reached it. `DealStatus_Sent401` is kept although no stored
status ever leads to it (that is proved, `NeverSent401`).

### RelayUplink: UASSipRegMgr.cpp, SipDomain.cpp

`CirclingCheckingTask` is two steps (register, then keepalive), since
`pfnSIPProc` may set the status in between. Times are ages. A REGISTER may be
accepted, challenged, refused, not sent at all (`TimerRegisterFails`), replaced by
the next one, or given up by eXosip without an answer; in the last case
`HandleRegFail` reads the null response before it looks at the work mode, and
the process ends (`HandleNoAnswer`). `binding` is what the platform still holds;
`accepted` and `kept` are history variables.

### RecordSearch: SDKCom.cpp, SDKRecordSearcher.cpp, SDKInfoSearcherMgr.cpp, SDKEventsHandler.cpp, SipRecordBase.h

The build with the 5.0 SDK, the only one the project file has. A record stands
for the query it was found for, so `out[q].from` says whose records were sent as
q's answer. `GetCatalogBodyContent` is `PageCount`, `Surplus`, `First`, `Last` and
`Page`: the context between two messages is a position and a count that go
down to 0. `WaitSearchFinish` waits `MAKEWORD(0, 2000)` = 53248 ms and
`WaitSearchStart` `MAKEWORD(2000, 0)` = 208 ms.

A search may fail any number of times, at its start or in the middle; nothing in
the code handles that, the wait runs out and the head is searched for again.
`Late` says whether the site may outlast the wait, `SlipMax` how often. `Accepts` is then any
Boolean once the searcher's stack frame has gone: reading it is undefined.
The SDK is assumed to deliver its callbacks one after the other. Left out are
`m_strDeviceName`, the limit of the record pool and the addressing of later
pages (see the hazards). Records that a failed search had
already brought stay in the list and are sent again with those of the retry;
`AnswerComplete` counts them as collected, as the code does.

`RecordService` is the abstract specification: one server that takes the queries
in the order they were queued, collects records for the first, and from its
first message on only sends, a page at a time and the rest in the last message.
`RecordSearch!Service` maps `pending` to the queue, `found` to the length of the
record list and `sent` to the position of the paging context; that RecordSearch
implements it without `Late` (`ServiceSpec`) is checked and proved. With `Late` it
does not: the list then holds records of another query.

### HusCalls: UASTCP.cpp, SIPCom.cpp, SIPService.cpp

An upper gateway (mode 1) calls the lower domain for its TCP clients. Five
threads of two processes hand on a request and its answer; the module has an
action for each thread's step: `RawDataHandleProc` up to `PushMsg`, `SaveSession`
after it (the order of the code), `HandleMsg`, `SendInviteBroadCast`,
`SendAckBroadCast`, `SendCallBye`, `HandleInviteResponse`, `HandleBye`,
`PopBlock`, `RecvInviteResponse`, `RecvBye` and `OnHusInviteRes`. Two tables bring
the answer back: `uniqueIDs` (`M_UniqueIDToCallID`), whose key is `atoi` of the
Call-ID's number, and `sessions`. `atoi` is MSVC's, which stops at the largest
int, and `Emplaced` keeps an existing entry, as `emplace` does.
`M_SeqIDToCallID` is written and read with the same key and is not kept twice. An
ACK or a BYE may name any call: the server does not check whose it is. A
client's other requests are the op `OTHER`: SIPCOM has no action for them and
frees them.

Two objects are read after they were given away, and both reads are steps of
their own:

* `SaveSession` takes the unique id from the message after `PushMsg`
  (`UASTCP.cpp:109-110`). Once `HandleMsg` has freed it (`SIPCom.cpp:372`) the id
  may be any; `misfiled` remembers the request and the id it was saved under.
* `HandleShared` releases a block (`PopDone`, `SIPCom.cpp:410`) and reads it
  afterwards (`:425`, `:520-525`, and `CModMessage::FromSipDataBlock`). `held` is
  the released block; a block pushed meanwhile may take its memory, and what is
  read is then any mixture of the two (`Mixtures`). `mixed` remembers both calls.

`lost` (the answer went to `INVALID_SOCKET`) and `dropped` (it found
`Sipcom_to_App` full) are history variables, too.

The properties speak of a call that is `Intact`, that is, touched by neither late
read, and where it matters of one whose table key is its own (`OwnKey`). Neither
is assumed of the system: other calls may be mixed up or share a key at the
same time, and must not spoil this one.

`CallDesk` is the abstract specification, what the clients may rely on: a call
has one owner for ever; its answer, once the lower domain has given it, is told to
that owner, once, or lost; a call that failed is told to nobody; calls may get
adrift, at most two in a step, and nothing is promised of those. The state of a
call is not kept in one place by the code: `FateOf` reads it off eXosip's event
queue, the block in `Sipcom_to_App` or in `HandleShared`'s hands, the message to
GBADAPTORCOM, the reply and the history variables. That HusCalls implements it
(`DeskSpec`) is checked and proved, without a condition on Call-IDs.

### SipRelay: SipServiceRelay.cpp, SipMsgMaker.hpp, HandleSIP in mode 2

A relay between an upper and a lower domain; everything happens on `pfnSIPProc`.
An id is a realm (its first eight digits) and a number. Of a body the ids it
names are kept, which is what `replace_id_inbody` looks at. `relay_request` is
the common text of `relay_message_new`, `relay_message_answered` and
`relay_subscription`: drop what has no route, read the body's length (null when
there is none), build and send. The two domains and the network are external:
they send, repeat, respond, notify, lose and reorder. eXosip's part (which event
a request becomes) is from its source. `log` is a history variable: who sent
each request, what it answers, and how often it was relayed.

The handlers for ACK, INFO, BYE and for NOTIFY in a dialog are left out: a routed
INVITE faults before it is sent and a SUBSCRIBE is never accepted, so the
dialogs they serve do not exist.

## 3. Runs and bounds

| run | shows |
|---|---|
| `platform_reg` | `NoOrphanPlay`, `SilenceBound`, `RegisterBackoff` with all threads, refused, lost, missing and late answers, full queues and rounds of up to two seconds |
| `sip_uplink` | `StrayIdle`, `NotMislaid` and `ComesToAnEnd` with challenge, acceptance, refusal, silence, rejected credentials, REGISTERs that cannot be built or sent and an UNREGISTER at any point |
| `sip_uplink_fail` | violation of `FailureReturned` |
| `sip_uplink_cseq` | violation of `CSeqCountsUp` |
| `registrar` | `BeliefMatches`, `NoUncheckedAccess`, `AnsweredUnlessLeft`, `LowerRegisters` on a relay, with malformed requests and answers that are not built, lost or overtake one another |
| `relay_uplink` | `KeepaliveGap`, `KeepaliveAfterAccept`, `GetsRegistered` with challenges, refusals, REGISTERs that are not sent and the fault on a missing answer |
| `relay_binding_expiry` | violation of `BindingRenewed` |
| `record_search` | `OwnRecords`, `NoFault`, `AnswerComplete`, the refinement `ServiceSpec`, `Answered` with a site that ends searches within the wait |
| `record_search_late` | violation of `OwnRecords` when it does not |
| `hus_calls` | `ReplyToAsker`, `SingleReply`, `LostOnlyInWindow`, the refinement `DeskSpec`, `AnswerDelivered` with both late reads and Call-IDs on both sides of the largest int |
| `hus_calls_wide` | violation of `MatchesSocket` with two Call-IDs above the largest int |
| `sip_relay` | `Confined`, `Translated`, `AnswerNamesAsked`, `InOrder`, `PassedOn` over a network that loses and reorders, with repetitions and strangers |

Every run with invariants also checks the module's `TypeOK`, which says for
instance that a CSeq never passes its largest value.

Bounds, all of them constants of the modules:

* *Time.* PlatformReg: keepalive 2, response 1, expiry 3, so that the
  renewal at nine tenths of the expiry falls between two keepalives, together
  with one, and after a refusal; a round of `HandleShared` takes up to 2 seconds,
  so that a deadline is read late. The shipped values are 30 and 10 seconds for
  the first two; the theorems do not depend on them. RelayUplink: period 3,
  keepalive 6, expiry 10: the interval a multiple of the period (the edge of the
  comparison), the expiry not.
* *Queues.* One block each way in PlatformReg: both full queues happen, and with
  them lost REGISTERs, keepalives and outcomes. Longer queues, and with them two
  REGISTERs that wait at once, are left to the theorems, which cover all its
  properties. Two blocks in `sip_uplink`, a REGISTER and the UNREGISTER.
* *Counters.* The largest int is 1 in PlatformReg, so that CSeqs are 0 to 3 and
  wrap, and half of them are negative as ints. `m_nCSeq` wraps after 2 in
  `sip_uplink`. `Retries` is eXosip's own 3. One REGISTER and the UNREGISTER make
  two contexts, the number at which one replaces another.
* *Domains.* One with authentication, one that registers and leaves, one that
  is not configured; one request on its way to the registrar, one in its hands
  and two answers on their way back. OnRegister looks at one domain's entry
  only, so that more of them add nothing.
* *Queries.* Three, two of them for one streamer, pages of 2 records and at most
  3 records: none, a full page, a full and a partly filled one. Searches may
  fail without limit; with `Late` one search outlasts the wait. A second answer to
  one query needs two searches of it, a third query behind them shows that the
  queue moves on.
* *Calls.* Two clients and two requests: two calls of different clients, whose
  answers, blocks and sessions can be mixed up, or a call and an ACK or BYE of
  either client. Queues of one block, so that answers are dropped. The largest
  int is 5; what matters is on which side of it the Call-IDs lie, and `hus_calls`
  has one on each (two above it are `hus_calls_wide`). Three calls at once are
  left to the proofs.
* *Relay.* Two requests of the domains or a stranger and three altogether, so
  that a query, its response and a repetition meet. One camera, named by the
  lower domain's id and by one of the relay's realm. No request is looked at
  together with another, and so more of them only add interleavings.

`CHECK_DEADLOCK FALSE` is said where the system really may stop:
`sip_uplink` (the process ends on an outcome), `registrar` (on a keepalive of an
unknown id or a malformed REGISTER), `relay_uplink` (on a REGISTER without an
answer), `sip_relay` (on a keepalive of an unknown id, a routed INVITE or a
missing body) and `hus_calls` (the clients have asked what they wanted).

## 4. Fairness

Weak fairness stands for a thread that loops for ever or for a timer of the
system; strong fairness only for what the environment must do for the property
to make sense.

* PlatformReg: none. Its properties are safety properties; that the gateway gets
  registered would rest on a SIP process that reports outcomes, which this one
  does not.
* SipUplink: both threads run and a SIP transaction ends by answer or timeout
  (eXosip's timers) (WF). Nothing is assumed of what the platform answers:
  `ComesToAnEnd` excuses one that rejects the credentials for ever.
* SipRegistrar: the SIP thread takes events and finishes with them, an answer on
  its way arrives or is lost (WF). The lower domain sends a proper REGISTER again
  and again, an answer to it can be built again and again, and the network does
  not lose every one of them (SF).
* RelayUplink: the two threads and time (WF); a REGISTER that is tried on every
  pass of the timer goes out some time, and the platform accepts one (SF).
* RecordSearch: search thread, callback thread, and a site that ends every
  search, by failing if need be (WF). `Answered` excuses a site that refuses the
  same query for ever: the code retries it for ever, and the queries behind it
  wait.
* HusCalls: the threads that carry an answer back run (WF). Nothing is
  assumed of the clients, the lower domain or the way out.
* SipRelay: `pfnSIPProc` takes every event (WF); nothing is assumed of the
  domains or the network.

## 5. Proofs

All of them hold for every value of the constants that satisfies the named
assumptions, which TLC evaluates in each run.

| theorem | argument |
|---|---|
| `PlatformRegProofs!TypeCorrect` | inductive as it stands; `GenerateCSeqType`, `OutMsgType`, `PushedType`, `InFitsType`, `AnswersType` for the operators |
| `NoOrphanPlayHolds` | inductive: a call starts only behind the login filter, and both ways out of REGISTERED stop all calls |
| `SilenceBounded` | `SilenceInv`. The bound alone is not inductive. The keepalive arms the response deadline and restarts its own, so the two run down together with the shorter one ahead, and a deadline that has been reached waits for no longer than the timers have been away. Needs `ResponseTime < KeepaliveInterval` (`IntervalAssumption`); holds for every `LoopMax` |
| `RegisterBackoffHolds` | `BackoffInv`: the time since the last REGISTER covers what has passed of the deadline the next one waits for. Needs the keepalive interval to be at most nine tenths of the expiry |
| `SipUplinkProofs!TypeCorrect`, `StrayIdleHolds` | `IInv`, which adds `EventsOfNamed`: an event that waits or is in hand is of the context that `m_nRegisterID` names or of one that is gone, so that neither eXosip's retry nor `HandleChallenge` wakes a context left behind by a failed build |
| `NotMislaidHolds` | one lemma for each step that could end what is under way: `Register` leaves a request on the wire, a challenge is dropped only when its context is gone (and `Counts` does not count it) or when the retry is on the wire; what remains are the faults and the failures of eXosip |
| `SipRegistrarProofs!BeliefMatchesHolds`, `NoUncheckedAccessHolds`, `AnsweredUnlessLeftHolds` | `Inv`, which adds that the answers on their way and those still to be built agree with what is stored (`RepliesAgree`, `HandAgrees`), that only those leave who may, and `NeverSent401`: without it `DealStatus_Sent401` could store SUCCESS for a domain with authentication, and a stored SENDT_403 would leave a REGISTER without an answer |
| `SipRegistrarProofs!TypeCorrect` | `Shape`: a handler that is not done has an answer to give |
| `RelayUplinkProofs!TypeCorrect`, `KeepaliveGapHolds`, `KeepaliveAfterAcceptHolds` | `KeepaliveInv` takes the seconds the timer still sleeps off the bound; `AcceptInv` follows an acceptance through event and status |
| `BindingRunsDownHolds` (assumes `Period < Expires`) | `FreshInv`: once a REGISTER has been sent, `timLastRegister` is no older than the timer's last pass, and so never as old as the expiry |
| `RecordSearchProofs!TypeCorrect` | `Base`: the types need that an answer under way has a head of the queue |
| `NoFaultHolds`, `OwnRecordsHolds` (both assume `~Late`) | `SearchInv`: search thread, site and callback are at work on the head of the queue one after the other (`OneAtATime`), the record list holds the head's records only (`ListOfHead`), only the head can have been pushed (`QueueFresh`) |
| `AnswerCompleteHolds` (assumes `~Late`) | `PageInv` on top of `SearchInv`: the list holds as many records as were collected for the head, the messages sent for it hold those before `pos`, `surplus` more messages hold the rest (`SentSoFar`), and every query behind the head is blank. `OnePageLess` and `PageCountMeans` are the arithmetic of the pages, for every page length |
| `ImplementsService` (assumes `~Late`) | from `Base`, `SearchInv` and `PageInv`: a record collected is one for the head and comes before its first message (`Collect`); `SentSoFar` makes a page `SendPage` or `Finish` according to `surplus`; the search thread is invisible |
| `HusCallsProofs!TypeCorrect` | `IndInv` = `Sockets`, `Table`, `Queues`: ids that come back from the SIP process name requests and calls that exist; `TypeOK` alone does not say so |
| `ReplyToAskerHolds`, `LostOnlyInWindowHolds` | `IndInv` also says that the block, message or reply of a call that is not mixed carries the id its key leads to, and that an id given out and not misfiled has its own client's session or is the one being saved. `Grows`: calls, their keys and askers stay, `mixed` and `misfiled` only grow, so that what holds of a call holds on |
| `SingleReplyHolds` | `Placed`: a call that is not mixed and still inviting has an answer nowhere, any other in one of the seven places at most. No condition on keys or sessions |
| `ImplementsDesk` | `DeskInv` = `IndInv`, `Placed` and `Distinct`. As an answer is in one place at most, a step that takes it from one place to the next leaves `FateOf` alone, and one that takes it off for good is `Tell` or `Lose`. A late read is `Drift` of two calls at most: the two blocks that were mixed, or, since no two calls come from one request (`Distinct`), the calls of the two ids. A call whose key another has is placed adrift |
| `SipRelayProofs!TypeCorrect` | inductive as it stands |
| `ConfinedHolds`, `TranslatedHolds`, `AnswerNamesAskedHolds` (assume `DistinctRealms`) | `Ind`: a From that names a domain is true (`Honest`), what is sent is built from its entry of the log (`Built`), a response from the query it answers (`Answering`), each entry has one event (`Waiting`, `Single`) or has been relayed (`Once`), and an answered request carries the relay's From, which has no route |
| `InOrderHolds` | `Ord`: events that are no answers wait in the order of the log (`Rising`), behind all that was relayed (`Behind`), with none missing that has to be relayed (`Kept`); an answer carries the relay's own From and counts for nothing. No assumption on the realms |

Only model-checked: the liveness properties (`ComesToAnEnd`, `LowerRegisters`,
`GetsRegistered`, `Answered`, `AnswerDelivered`, `PassedOn`), as the prover does not
handle fairness and `ENABLED`. Every other property of a passing run has its
theorem. For three of the liveness properties theorems say what is left to
fairness: with `NotMislaidHolds` what was asked for cannot vanish, with
`ImplementsService` and `ImplementsDesk` a query or an answer moves only towards
its end. Facts that need induction over data are out of the prover's reach, and
so is every module with a RECURSIVE operator; none is used here.

## 6. What the models show about the code

Five runs end in a violation. Each property is what a comment or a log line of
the code claims; `findings` quotes it.

* `FailureReturned`: the comment says that a refused REGISTER and one without an
  answer are reported as failures. The handler of the first reads the body of the
  REGISTER, that of the second the response; both are null, and the process ends.
  An accepted REGISTER ends it in the same place.
* `CSeqCountsUp`: eXosip numbers its retries from the challenged request;
  `m_nCSeq` does not hear of them, so the next REGISTER repeats a CSeq on the
  same Call-ID.
* `BindingRenewed`: `NeedSendRegister` moves `timLastRegister` to now on every
  pass, so the expiry is never reached and the binding lapses. The run shows it
  for one choice of times; `BindingRunsDownHolds` says it of every period below
  the expiry: a registered relay with no REGISTER under way never sends another,
  and its binding only runs down.
* `OwnRecords` with `Late`: a search that outlasts the wait is started again;
  its second result passes the check for the streamer's id and answers the next
  query for that streamer.
* `MatchesSocket` with wide Call-IDs: eXosip draws 32 unsigned bits and `atoi`
  stops at the largest int, so half of all calls share one key, `emplace`
  keeps the first entry, and the answers of the others go to the first client.

Further facts that the passing properties state with an exception, which is
where the code has a gap: a domain that has left is never answered again
(`AnsweredUnlessLeft`); a keepalive of an id that is not configured, a REGISTER
whose From has no user name and one whose port or expires is not a number end the
process (`fault` in `AnsweredUnlessLeft` and `LowerRegisters`); a domain may be
stored as registered and not know it, until it asks again (`BeliefMatches` speaks
of what a domain was told); a domain with `nNeedAuth` never gets in, since its
challenge is noted on a copy (`NoUncheckedAccess`); a platform that rejects the
credentials is registered with again and again, and the application hears nothing
(`Rejecting` in `ComesToAnEnd`); a REGISTER that eXosip cannot build or send is
forgotten (`NotMislaid`), and `REGISTERING` has no deadline that would repeat it; in
mode 1 only 403 awaits a lower domain, since a relay alone adds it to the
registered objects (`LowerRegisters` is checked for a relay); a relay whose
REGISTER meets no answer ends (`GetsRegistered`); one record query that the site
refuses for ever holds up all others (`Answered`); an answer to a call is lost when
its queue is full or its session not yet saved (`AnswerDelivered`), it may go
astray when a message or a block is read too late (`mixed`, `misfiled`), and a
client is never told that its call was refused or has ended (`LowerRefuses`,
`RecvBye`).

For the relay:

* it answers no MESSAGE, and its 200 for a SUBSCRIBE is built for a transaction
  eXosip does not list; whoever sends either runs into a timeout. That the
  repetition is one more request and no loop arises is `Confined`: the only
  guard against a loop is that the relay's own id has no route;
* a response keeps the lower domain's device ids, as only the ids of its own
  target, the relay, are replaced. The upper domain recognises them if it asked
  with them (`AnswerNamesAsked`), and not if it asked with an id of the relay's
  realm;
* a NOTIFY comes as `MESSAGE_NEW` and goes on as a MESSAGE; one that a device
  sends under its own id is dropped;
* a routed INVITE and a routed request without a body end the process.

## 7. What is left out

* `GB28181.Lib`: does not run at this commit (its client sources are outside the
  project file, its creation and its receive path are commented out).
* `regManagerCom` is not started. `CSubscribeList`, `CCatalogLayer` and
  `DevInfo/SDKDevInfo.cpp` have no caller or are not built.
* The catalogue, its subscriptions, alarms and the online status (`CDevInfo`,
  `CDataStore`): `SDKDevInfo.cpp:437` returns for every device of the site,
  because `strType` was set to the empty string three lines before, so the store
  stays empty and there is nothing to list, to subscribe to or to notify of. A
  model would be of code that does not run.
* Media: `RTSPSessionBuilder` never returns a session and the lookup of a device
  to play finds nothing in the empty store, so the RTSP state machine cannot run.
* MESSAGE, INFO, SUBSCRIBE and INVITE that come in at a gateway which is not a
  relay: they end in `fill_sip_block_from_event`, which reads the status of a
  response that the event does not have.
* Text: XML, SDP and RTSP building and parsing, digests, logging. Of bodies, only
  when a page is full and when it does not fit are modelled.
* Vendored code: eXosip, osip, SQLite. Of eXosip the registration contexts, the
  calls and the choice of an event for a request are modelled, from its source.
* Subscription deadlines in `CSIPUnit`: `CheckSubExpiry` returns 0 whatever it
  finds, so they have no effect.
* `OnModifyPassword`, the message pools, device control, process control, tools
  and tests.

## 8. Plan

The parts that run and whose order of events matters have their modules, and the
properties that do not need fairness their proofs. What remains, in this order:

1. SipUplink and PlatformReg composed, once an outcome gets past
   `SIPService.cpp:1022`: each REGISTER has one outcome, and a lost registration
   returns.
2. The relay together with `RelayUplink` and `SipRegistrar`: what a request
   meets whose target is not registered, which `get_dst_domian_by` never asks.
3. The catalogue (`DevInfo`, `CDataStore`) and the media threads, when
   `SDKDevInfo.cpp:437` lets a device into the store: answers list what exists, a
   subscriber is told of every change until it cancels, the thread gets through
   every query.
