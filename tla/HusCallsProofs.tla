-------------------------- MODULE HusCallsProofs ---------------------------
(* Type correctness of HusCalls and, for every call that the two late reads *)
(* have spared, that its answer stays with the client that asked, is        *)
(* delivered once at most and is lost only before its session is saved; and *)
(* that HusCalls implements CallDesk.  All of it for every number of        *)
(* clients, requests, Call-IDs and queue slots.                             *)
EXTENDS HusCalls, TLAPS

(* What an element of each queue and table is, beyond its type: it names    *)
(* requests and calls that exist and, unless its block was overwritten,     *)
(* carries the id the SIP process has for its call.                         *)
Uids == 1 .. nUniqueID
Ids == 0 .. nUniqueID
Steady(c) == Intact(c) /\ OwnKey(c)
GoodRequest == {r \in Request : r.uid \in Uids}
GoodCall == {x \in Call : x.uid \in Uids}
GoodEvent == {e \in Event : e.call \in CallNos}
GoodBlock == {b \in Block : /\ b.call \in CallNos /\ b.uid \in Ids
                            /\ b.kind = "INVITE_RESPONSE" => b.uid = KnownId(b.call)}
HeldBlock == {b \in Block : /\ b.call \in CallNos /\ b.uid \in Ids
                            /\ b.kind = "INVITE_RESPONSE" =>
                                 b.call \in mixed \/ b.uid = KnownId(b.call)}
GoodAnswer == {a \in Answer : /\ a.call \in CallNos /\ a.uid \in Ids
                              /\ a.call \in mixed \/ a.uid = KnownId(a.call)}
GoodReply == {p \in Reply : /\ p.call \in CallNos
                            /\ Steady(p.call) => p.to = asker[calls[p.call].uid]}

Sockets ==
    /\ nUniqueID \in 0 .. MaxReq /\ asker \in Seq(Clients) /\ Len(asker) = nUniqueID
    /\ saving \in Ids /\ misfiled \subseteq 0 .. MaxReq
    /\ DOMAIN sessions \subseteq 0 .. MaxReq /\ \A u \in DOMAIN sessions : sessions[u] \in Clients
    /\ \A u \in Uids : u \in DOMAIN sessions \/ u = saving \/ u \in misfiled
    /\ \A u \in DOMAIN sessions : u \notin misfiled => u \in Uids /\ sessions[u] = asker[u]
Table ==
    /\ DOMAIN uniqueIDs \subseteq Nat /\ \A k \in DOMAIN uniqueIDs : uniqueIDs[k] \in Uids
    /\ \A c \in CallNos : atoi(calls[c].number) \in DOMAIN uniqueIDs
Queues ==
    /\ sipQ \in Seq(GoodRequest) /\ toSip \in Seq(GoodRequest)
    /\ calls \in Seq(GoodCall)
    /\ events \in Seq(GoodEvent) /\ toApp \in Seq(GoodBlock)
    /\ held \in Seq(HeldBlock) /\ Len(held) <= 1 /\ mixed \subseteq CallNos
    /\ adaptorQ \in Seq(GoodAnswer) /\ replies \in Seq(GoodReply)
    /\ lost \subseteq CallNos /\ dropped \subseteq CallNos
IndInv == Sockets /\ Table /\ Queues

(* What a step may do to the facts that a queue's elements rest on: ids,    *)
(* calls and keys stay what they are, and no late read is undone.           *)
Grows ==
    /\ Uids \subseteq Uids' /\ Ids \subseteq Ids' /\ \A u \in Uids : asker'[u] = asker[u]
    /\ CallNos \subseteq CallNos'
    /\ \A c \in CallNos : calls'[c].number = calls[c].number /\ calls'[c].uid = calls[c].uid
    /\ \A k \in DOMAIN uniqueIDs : k \in DOMAIN uniqueIDs' /\ uniqueIDs'[k] = uniqueIDs[k]
    /\ mixed \subseteq mixed' /\ misfiled \subseteq misfiled'

(* A queue of good elements stays one when the notion of good widens.      *)
LEMMA Widen ==
    ASSUME NEW S, NEW T, S \subseteq T, NEW q \in Seq(S)
    PROVE  q \in Seq(T)
  OBVIOUS

(* Taking the first element off a queue.                                   *)
LEMMA Taken ==
    ASSUME NEW S, NEW q \in Seq(S), q # <<>>
    PROVE  Tail(q) \in Seq(S) /\ Head(q) \in S
  OBVIOUS

(* The queue of at most one element.                                       *)
LEMMA TheOne ==
    ASSUME NEW S, NEW q \in Seq(S), q # <<>>, Len(q) <= 1
    PROVE  Len(q) = 1 /\ q[1] \in S
  <1>1. Len(q) \in Nat /\ Len(q) # 0
    OBVIOUS
  <1>2. Len(q) = 1
    <2>1. PICK n \in Nat : n = Len(q)
      BY <1>1
    <2>2. n = 1
      BY <1>1, <2>1
    <2> QED
      BY <2>1, <2>2
  <1>3. q[1] \in S
    BY <1>2
  <1> QED
    BY <1>2, <1>3

(* The invariant contains the type invariant.                              *)
LEMMA IndInvType == IndInv => TypeOK
  <1> SUFFICES ASSUME IndInv PROVE TypeOK
    OBVIOUS
  <1>1. Uids \subseteq ReqIds /\ saving \in 0 .. MaxReq
    BY BoundAssumption DEF IndInv, Sockets, Uids, Ids, ReqIds
  <1>2. /\ GoodRequest \subseteq Request /\ GoodCall \subseteq Call /\ GoodEvent \subseteq Event
        /\ GoodBlock \subseteq Block /\ HeldBlock \subseteq Block
        /\ GoodAnswer \subseteq Answer /\ GoodReply \subseteq Reply
    BY DEF GoodRequest, GoodCall, GoodEvent, GoodBlock, HeldBlock, GoodAnswer, GoodReply
  <1>3. /\ sipQ \in Seq(Request) /\ toSip \in Seq(Request) /\ calls \in Seq(Call)
        /\ events \in Seq(Event) /\ toApp \in Seq(Block) /\ held \in Seq(Block)
        /\ adaptorQ \in Seq(Answer) /\ replies \in Seq(Reply)
    BY <1>2, Widen DEF IndInv, Queues
  <1> QED
    BY <1>1, <1>3 DEF IndInv, Sockets, Table, Queues, TypeOK

(* Nothing has been asked.                                                 *)
LEMMA InitInd == Init => IndInv
  <1> SUFFICES ASSUME Init PROVE IndInv
    OBVIOUS
  <1>1. Sockets
    BY BoundAssumption DEF Init, Sockets, Uids, Ids
  <1>2. Table
    BY DEF Init, Table, CallNos
  <1>3. Queues
    BY DEF Init, Queues
  <1> QED
    BY <1>1, <1>2, <1>3 DEF IndInv

(* A call keeps its id in the SIP process, and stays as sound or as unsound *)
(* as it was or becomes less so.                                            *)
LEMMA CallKept ==
    ASSUME IndInv, Grows, NEW c \in CallNos
    PROVE  /\ KnownId(c)' = KnownId(c) /\ calls'[c].uid = calls[c].uid
           /\ asker'[calls'[c].uid] = asker[calls[c].uid]
           /\ OwnKey(c)' <=> OwnKey(c)
           /\ Steady(c)' => Steady(c)
  <1>1. calls[c] \in GoodCall /\ atoi(calls[c].number) \in DOMAIN uniqueIDs
    BY DEF IndInv, Queues, Table, CallNos
  <1>2. calls'[c].number = calls[c].number /\ calls'[c].uid = calls[c].uid
    BY DEF Grows
  <1>3. KnownId(c)' = KnownId(c)
    BY <1>1, <1>2 DEF Grows, KnownId, atoi
  <1>4. asker'[calls'[c].uid] = asker[calls[c].uid]
    BY <1>1, <1>2 DEF GoodCall, Grows
  <1>5. OwnKey(c)' <=> OwnKey(c)
    BY <1>2, <1>3 DEF OwnKey
  <1>6. Intact(c)' => Intact(c)
    BY <1>2 DEF Grows, Intact
  <1> QED
    BY <1>2, <1>3, <1>4, <1>5, <1>6 DEF Steady

(* So what waits in a queue stays good.                                    *)
LEMMA StaysGood ==
    ASSUME IndInv, Grows
    PROVE  /\ GoodRequest \subseteq GoodRequest' /\ GoodCall \subseteq GoodCall'
           /\ GoodEvent \subseteq GoodEvent' /\ GoodBlock \subseteq GoodBlock'
           /\ HeldBlock \subseteq HeldBlock'
           /\ GoodAnswer \subseteq GoodAnswer' /\ GoodReply \subseteq GoodReply'
           /\ sipQ \in Seq(GoodRequest') /\ toSip \in Seq(GoodRequest')
           /\ calls \in Seq(GoodCall') /\ events \in Seq(GoodEvent')
           /\ toApp \in Seq(GoodBlock') /\ held \in Seq(HeldBlock')
           /\ adaptorQ \in Seq(GoodAnswer') /\ replies \in Seq(GoodReply')
           /\ lost \subseteq CallNos' /\ dropped \subseteq CallNos'
  <1>1. /\ Uids \subseteq Uids' /\ Ids \subseteq Ids' /\ CallNos \subseteq CallNos'
        /\ mixed \subseteq mixed'
    BY DEF Grows
  <1>2. GoodRequest \subseteq GoodRequest' /\ GoodCall \subseteq GoodCall'
    BY <1>1 DEF GoodRequest, GoodCall
  <1>3. GoodEvent \subseteq GoodEvent'
    BY <1>1 DEF GoodEvent
  <1>4. ASSUME NEW b \in GoodBlock PROVE b \in GoodBlock'
    <2>1. KnownId(b.call)' = KnownId(b.call)
      BY <1>4, CallKept DEF GoodBlock
    <2> QED
      BY <1>1, <1>4, <2>1 DEF GoodBlock
  <1>5. ASSUME NEW b \in HeldBlock PROVE b \in HeldBlock'
    <2>1. KnownId(b.call)' = KnownId(b.call)
      BY <1>5, CallKept DEF HeldBlock
    <2> QED
      BY <1>1, <1>5, <2>1 DEF HeldBlock
  <1>6. ASSUME NEW a \in GoodAnswer PROVE a \in GoodAnswer'
    <2>1. KnownId(a.call)' = KnownId(a.call)
      BY <1>6, CallKept DEF GoodAnswer
    <2> QED
      BY <1>1, <1>6, <2>1 DEF GoodAnswer
  <1>7. ASSUME NEW p \in GoodReply PROVE p \in GoodReply'
    <2>1. /\ p.call \in CallNos
          /\ asker'[calls'[p.call].uid] = asker[calls[p.call].uid]
          /\ Steady(p.call)' => Steady(p.call)
      BY <1>7, CallKept DEF GoodReply
    <2> QED
      BY <1>1, <1>7, <2>1 DEF GoodReply
  <1>8. /\ sipQ \in Seq(GoodRequest') /\ toSip \in Seq(GoodRequest')
        /\ calls \in Seq(GoodCall') /\ events \in Seq(GoodEvent')
    BY <1>2, <1>3, Widen DEF IndInv, Queues
  <1>9. /\ toApp \in Seq(GoodBlock') /\ held \in Seq(HeldBlock')
        /\ adaptorQ \in Seq(GoodAnswer') /\ replies \in Seq(GoodReply')
    <2>1. /\ GoodBlock \subseteq GoodBlock' /\ HeldBlock \subseteq HeldBlock'
          /\ GoodAnswer \subseteq GoodAnswer' /\ GoodReply \subseteq GoodReply'
      BY <1>4, <1>5, <1>6, <1>7
    <2> QED
      BY <2>1, Widen DEF IndInv, Queues
  <1> QED
    BY <1>1, <1>2, <1>3, <1>4, <1>5, <1>6, <1>7, <1>8, <1>9 DEF IndInv, Queues

(* A step that makes no request and no call.                               *)
LEMMA SameIds ==
    ASSUME IndInv, UNCHANGED <<nUniqueID, asker, calls, uniqueIDs>>,
           mixed \subseteq mixed', misfiled \subseteq misfiled'
    PROVE  Grows /\ CallNos' = CallNos /\ Uids' = Uids /\ Ids' = Ids /\ Table' /\ (UNCHANGED tcp => Sockets')
  <1>1. CallNos' = CallNos /\ Uids' = Uids /\ Ids' = Ids
    BY DEF CallNos, Uids, Ids
  <1>2. Grows
    BY <1>1 DEF Grows
  <1>3. Table'
    BY <1>1 DEF IndInv, Table, atoi
  <1>4. UNCHANGED tcp => Sockets'
    BY <1>1 DEF IndInv, Sockets, tcp
  <1> QED
    BY <1>1, <1>2, <1>3, <1>4

(* A new request leaves what the earlier ones are named by.                *)
LEMMA RequestStep ==
    ASSUME IndInv, NEW k \in Clients, NEW op \in Ops, NEW c \in {0} \cup CallNos,
           RawDataHandleProc(k, op, c)
    PROVE  IndInv' /\ Grows
  <1>1. nUniqueID' = nUniqueID + 1 /\ asker' = Append(asker, k) /\ saving' = nUniqueID + 1
        /\ saving = 0 /\ nUniqueID < MaxReq /\ sessions' = sessions /\ misfiled' = misfiled
    BY DEF RawDataHandleProc
  <1>2. UNCHANGED <<toSip, calls, uniqueIDs, events, toApp, held, mixed, adaptorQ, replies, lost, dropped>>
    BY DEF RawDataHandleProc, sip, app
  <1>3. nUniqueID \in Nat /\ asker \in Seq(Clients) /\ Len(asker) = nUniqueID
    BY DEF IndInv, Sockets
  <1>4. /\ Uids \subseteq Uids' /\ Ids \subseteq Ids' /\ nUniqueID + 1 \in Uids' /\ nUniqueID + 1 \in ReqIds
        /\ CallNos' = CallNos /\ Uids' = Uids \cup {nUniqueID + 1}
    BY <1>1, <1>2, <1>3, BoundAssumption DEF Uids, Ids, CallNos, ReqIds
  <1>5. \A u \in Uids : asker'[u] = asker[u]
    BY <1>1, <1>3 DEF Uids
  <1>6. Grows
    BY <1>1, <1>2, <1>4, <1>5 DEF Grows
  <1>7. Sockets'
    <2>1. nUniqueID' \in 0 .. MaxReq /\ asker' \in Seq(Clients) /\ Len(asker') = nUniqueID' /\ saving' \in Ids'
      BY <1>1, <1>3, BoundAssumption DEF Ids
    <2>2. \A u \in Uids' : u \in DOMAIN sessions' \/ u = saving' \/ u \in misfiled'
      BY <1>1, <1>3, <1>4 DEF IndInv, Sockets, Uids
    <2>3. \A u \in DOMAIN sessions' : u \notin misfiled' => u \in Uids' /\ sessions'[u] = asker'[u]
      BY <1>1, <1>4, <1>5 DEF IndInv, Sockets
    <2> QED
      BY <1>1, <2>1, <2>2, <2>3 DEF IndInv, Sockets
  <1>8. Table'
    BY <1>2, <1>4 DEF IndInv, Table, atoi
  <1>9. PICK r : r = [op |-> op, uid |-> nUniqueID + 1, call |-> c]
    OBVIOUS
  <1>10. r \in GoodRequest'
    <2>1. r \in Request
      BY <1>4, <1>9 DEF Request, CallNos
    <2> QED
      BY <1>4, <1>9, <2>1 DEF GoodRequest
  <1>11. sipQ' \in Seq(GoodRequest')
    <2>1. sipQ' = Append(sipQ, r)
      BY <1>1, <1>9 DEF RawDataHandleProc
    <2> QED
      BY <1>6, <1>10, <2>1, StaysGood
  <1>12. Queues'
    BY <1>2, <1>4, <1>6, <1>11, StaysGood DEF IndInv, Queues
  <1> QED
    BY <1>6, <1>7, <1>8, <1>12 DEF IndInv

(* SaveSession stores the socket under the id of its request, or misfiles  *)
(* it and both ids.                                                        *)
LEMMA SaveSessionStep == ASSUME IndInv, NEW u \in 0 .. MaxReq, SaveSession(u) PROVE IndInv' /\ Grows
  <1>1. UNCHANGED <<nUniqueID, asker, calls, uniqueIDs, mixed>> /\ misfiled \subseteq misfiled'
        /\ saving \in Uids /\ saving' = 0
    BY DEF SaveSession, sip, app, IndInv, Sockets, Uids, Ids
  <1>2. Grows /\ CallNos' = CallNos /\ Uids' = Uids /\ Ids' = Ids /\ Table'
    BY <1>1, SameIds
  <1>3. /\ DOMAIN sessions' = DOMAIN sessions \cup {u}
        /\ sessions'[u] = asker[saving]
        /\ \A x \in DOMAIN sessions : x # u => sessions'[x] = sessions[x]
    BY DEF SaveSession, Stored
  <1>4. \/ u = saving /\ misfiled' = misfiled
        \/ u # saving /\ misfiled' = misfiled \cup {saving, u}
    BY DEF SaveSession
  <1>5. Sockets'
    <2>1. asker[saving] \in Clients /\ saving \in 0 .. MaxReq /\ 0 \in Ids
      BY <1>1, BoundAssumption DEF IndInv, Sockets, Uids, Ids
    <2>2. misfiled' \subseteq 0 .. MaxReq /\ DOMAIN sessions' \subseteq 0 .. MaxReq
      BY <1>3, <1>4, <2>1 DEF IndInv, Sockets
    <2>3. \A x \in DOMAIN sessions' : sessions'[x] \in Clients
      BY <1>3, <2>1 DEF IndInv, Sockets
    <2>4. \A x \in Uids' : x \in DOMAIN sessions' \/ x = saving' \/ x \in misfiled'
      BY <1>2, <1>3, <1>4 DEF IndInv, Sockets
    <2>5. \A x \in DOMAIN sessions' : x \notin misfiled' => x \in Uids' /\ sessions'[x] = asker'[x]
      BY <1>1, <1>2, <1>3, <1>4 DEF IndInv, Sockets
    <2> QED
      BY <1>1, <1>2, <2>1, <2>2, <2>3, <2>4, <2>5 DEF IndInv, Sockets
  <1>6. UNCHANGED <<sipQ, toSip, events, toApp, held, adaptorQ, replies, lost, dropped>>
    BY DEF SaveSession, sip, app
  <1>7. Queues'
    BY <1>1, <1>2, <1>6, StaysGood DEF IndInv, Queues
  <1> QED
    BY <1>2, <1>5, <1>7 DEF IndInv

(* HandleMsg passes a request on or drops it; BuildInviteFails drops one.  *)
LEMMA HandleMsgStep == ASSUME IndInv, HandleMsg \/ BuildInviteFails PROVE IndInv' /\ Grows
  <1>1. /\ UNCHANGED <<nUniqueID, asker, calls, uniqueIDs, mixed, misfiled>> /\ UNCHANGED tcp
        /\ UNCHANGED <<events, toApp, held, adaptorQ, replies, lost, dropped>>
    BY DEF HandleMsg, BuildInviteFails, sip, app, tcp
  <1>2. Grows /\ CallNos' = CallNos /\ Table' /\ Sockets'
    BY <1>1, SameIds
  <1>3. sipQ' \in Seq(GoodRequest) /\ toSip' \in Seq(GoodRequest)
    <2>1. sipQ \in Seq(GoodRequest) /\ toSip \in Seq(GoodRequest)
      BY DEF IndInv, Queues
    <2>2. CASE HandleMsg
      <3>1. Tail(sipQ) \in Seq(GoodRequest) /\ Head(sipQ) \in GoodRequest
        BY <2>1, <2>2, Taken DEF HandleMsg
      <3> QED
        BY <2>1, <2>2, <3>1 DEF HandleMsg
    <2>3. CASE BuildInviteFails
      BY <2>1, <2>3, Taken DEF BuildInviteFails
    <2> QED
      BY <2>2, <2>3
  <1>4. GoodRequest \subseteq GoodRequest'
    BY <1>2, StaysGood
  <1>5. sipQ' \in Seq(GoodRequest') /\ toSip' \in Seq(GoodRequest')
    BY <1>3, <1>4, Widen
  <1>6. Queues'
    BY <1>1, <1>2, <1>5, StaysGood DEF IndInv, Queues
  <1> QED
    BY <1>2, <1>6 DEF IndInv

(* A step of the calls' states and of one queue.                           *)
LEMMA StateChange ==
    ASSUME IndInv, NEW c \in CallNos, NEW st \in {"answered", "confirmed", "over"},
           calls' = [calls EXCEPT ![c].state = st], UNCHANGED tcp, UNCHANGED <<uniqueIDs, mixed>>
    PROVE  /\ Grows /\ CallNos' = CallNos /\ calls' \in Seq(GoodCall') /\ Sockets' /\ Table'
           /\ calls'[c].state = st /\ \A d \in CallNos : d # c => calls'[d] = calls[d]
  <1>1. calls \in Seq(GoodCall) /\ calls[c] \in GoodCall
    BY DEF IndInv, Queues, CallNos
  <1>2. [calls[c] EXCEPT !.state = st] \in GoodCall
    BY <1>1 DEF GoodCall, Call
  <1>3. calls' = [calls EXCEPT ![c] = [calls[c] EXCEPT !.state = st]]
    OBVIOUS
  <1>4. calls' \in Seq(GoodCall) /\ Len(calls') = Len(calls)
    BY <1>1, <1>2, <1>3 DEF CallNos
  <1>5. \A x \in CallNos : calls'[x].number = calls[x].number /\ calls'[x].uid = calls[x].uid
    BY <1>1, <1>3 DEF CallNos, GoodCall, Call
  <1>6. calls'[c].state = st /\ \A d \in CallNos : d # c => calls'[d] = calls[d]
    BY <1>1, <1>3 DEF CallNos, GoodCall, Call
  <1>7. CallNos' = CallNos /\ Uids' = Uids /\ Ids' = Ids /\ asker' = asker /\ misfiled' = misfiled
    BY <1>4 DEF CallNos, Uids, Ids, tcp
  <1>8. Grows
    BY <1>5, <1>7 DEF Grows
  <1>9. Sockets'
    BY <1>7 DEF IndInv, Sockets, tcp
  <1>10. Table'
    BY <1>5, <1>7 DEF IndInv, Table, atoi
  <1>11. calls' \in Seq(GoodCall')
    BY <1>4, <1>8, StaysGood, Widen
  <1> QED
    BY <1>6, <1>7, <1>8, <1>9, <1>10, <1>11

(* SendAckBroadCast and SendCallBye.                                       *)
LEMMA DialogStep == ASSUME IndInv, SendAckBroadCast \/ SendCallBye PROVE IndInv' /\ Grows
  <1>1. toSip' \in Seq(GoodRequest)
    BY Taken DEF SendAckBroadCast, SendCallBye, IndInv, Queues
  <1>2. /\ UNCHANGED <<uniqueIDs, sipQ, events, toApp, held, mixed, adaptorQ, replies, lost, dropped>>
        /\ UNCHANGED tcp
    BY DEF SendAckBroadCast, SendCallBye, app
  <1>3. Grows /\ CallNos' = CallNos /\ calls' \in Seq(GoodCall') /\ Sockets' /\ Table'
    <2>1. \/ calls' = calls
          \/ \E c \in CallNos, st \in {"answered", "confirmed", "over"} : calls' = [calls EXCEPT ![c].state = st]
      BY DEF SendAckBroadCast, SendCallBye, InDialog
    <2>2. CASE calls' = calls
      <3>1. UNCHANGED <<nUniqueID, asker, misfiled>>
        BY <1>2 DEF tcp
      <3>2. Grows /\ CallNos' = CallNos /\ Table' /\ Sockets'
        BY <1>2, <2>2, <3>1, SameIds
      <3> QED
        BY <2>2, <3>2, StaysGood
    <2>3. CASE \E c \in CallNos, st \in {"answered", "confirmed", "over"} : calls' = [calls EXCEPT ![c].state = st]
      BY <1>2, <2>3, StateChange
    <2> QED
      BY <2>1, <2>2, <2>3
  <1>4. toSip' \in Seq(GoodRequest')
    BY <1>1, <1>3, StaysGood, Widen
  <1>5. Queues'
    BY <1>2, <1>3, <1>4, StaysGood DEF IndInv, Queues
  <1> QED
    BY <1>3, <1>5 DEF IndInv

(* The lower domain answers, refuses or ends a call that exists.           *)
LEMMA LowerStep ==
    ASSUME IndInv, NEW c \in CallNos, LowerAnswers(c) \/ LowerRefuses(c) \/ LowerBye(c)
    PROVE  IndInv' /\ Grows
  <1>1. /\ UNCHANGED <<uniqueIDs, sipQ, toSip, toApp, held, mixed, adaptorQ, replies, lost, dropped>>
        /\ UNCHANGED tcp
    BY DEF LowerAnswers, LowerRefuses, LowerBye, app
  <1>2. PICK st \in {"answered", "confirmed", "over"} : calls' = [calls EXCEPT ![c].state = st]
    BY DEF LowerAnswers, LowerRefuses, LowerBye
  <1>3. Grows /\ CallNos' = CallNos /\ calls' \in Seq(GoodCall') /\ Sockets' /\ Table'
    BY <1>1, <1>2, StateChange
  <1>4. events' \in Seq(GoodEvent)
    <2>1. \A k \in {"ANSWERED", "CLOSED"} : [kind |-> k, call |-> c] \in GoodEvent
      BY DEF GoodEvent, Event, CallNos
    <2>2. events \in Seq(GoodEvent)
      BY DEF IndInv, Queues
    <2> QED
      BY <2>1, <2>2 DEF LowerAnswers, LowerRefuses, LowerBye
  <1>5. events' \in Seq(GoodEvent')
    BY <1>3, <1>4, StaysGood, Widen
  <1>6. Queues'
    BY <1>1, <1>3, <1>5, StaysGood DEF IndInv, Queues
  <1> QED
    BY <1>3, <1>6 DEF IndInv

(* A new call: its key is in the table, for its own request or an earlier. *)
LEMMA InviteStep ==
    ASSUME IndInv, NEW n \in CallIds, NEW sent \in BOOLEAN, SendInviteBroadCast(n, sent)
    PROVE  IndInv' /\ Grows
  <1> DEFINE u == Head(toSip).uid
             L == Len(calls)
  <1>1. toSip' \in Seq(GoodRequest) /\ Head(toSip) \in GoodRequest /\ u \in Uids /\ u \in ReqIds
    BY Taken DEF SendInviteBroadCast, IndInv, Queues, GoodRequest, Request
  <1>2. PICK x : x = [number |-> n, uid |-> u, state |-> IF sent THEN "inviting" ELSE "over"]
    OBVIOUS
  <1>3. x \in GoodCall /\ x.number = n /\ x.uid = u
    BY <1>1, <1>2 DEF GoodCall, Call
  <1>4. calls \in Seq(GoodCall) /\ calls' = Append(calls, x)
    BY <1>2 DEF SendInviteBroadCast, IndInv, Queues
  <1>5. UNCHANGED <<sipQ, events, toApp, held, mixed, adaptorQ, replies, lost, dropped>> /\ UNCHANGED tcp
    BY DEF SendInviteBroadCast, app
  <1>6. Uids' = Uids /\ Ids' = Ids /\ asker' = asker /\ misfiled' = misfiled /\ Sockets'
    BY <1>5 DEF IndInv, Sockets, Uids, Ids, tcp
  <1>7. /\ L \in Nat /\ CallNos = 1 .. L /\ CallNos' = 1 .. (L + 1)
        /\ \A c \in CallNos : calls'[c] = calls[c]
        /\ calls'[L + 1] = x
    BY <1>4 DEF CallNos
  <1>8. CallNos \subseteq CallNos' /\ CallNos' = CallNos \cup {L + 1}
    BY <1>7
  <1>9. /\ DOMAIN uniqueIDs' = DOMAIN uniqueIDs \cup {atoi(n)}
        /\ \A k \in DOMAIN uniqueIDs : uniqueIDs'[k] = uniqueIDs[k]
        /\ atoi(n) \notin DOMAIN uniqueIDs => uniqueIDs'[atoi(n)] = u
    BY DEF SendInviteBroadCast, Emplaced
  <1>10. Grows
    BY <1>5, <1>6, <1>7, <1>8, <1>9 DEF Grows
  <1>11. Queues'
    <2>1. toSip' \in Seq(GoodRequest')
      BY <1>1, <1>10, StaysGood, Widen
    <2>2. calls \in Seq(GoodCall') /\ x \in GoodCall'
      BY <1>3, <1>10, StaysGood
    <2>3. calls' \in Seq(GoodCall')
      BY <1>4, <2>2
    <2> QED
      BY <1>5, <1>8, <1>10, <2>1, <2>3, StaysGood DEF IndInv, Queues
  <1>12. Table'
    <2>1. atoi(n) \in Nat
      BY CallIdAssumption DEF atoi
    <2>2. DOMAIN uniqueIDs' \subseteq Nat /\ \A k \in DOMAIN uniqueIDs' : uniqueIDs'[k] \in Uids'
      BY <1>1, <1>6, <1>9, <2>1 DEF IndInv, Table
    <2>3. ASSUME NEW c \in CallNos' PROVE atoi(calls'[c].number) \in DOMAIN uniqueIDs'
      <3>1. CASE c \in CallNos
        BY <1>7, <1>9, <3>1 DEF IndInv, Table
      <3>2. CASE c = L + 1
        BY <1>3, <1>7, <1>9, <3>2
      <3> QED
        BY <1>8, <3>1, <3>2
    <2> QED
      BY <2>2, <2>3 DEF Table, atoi
  <1> QED
    BY <1>6, <1>10, <1>11, <1>12 DEF IndInv

(* What PushBlock leaves in the memory that HandleShared reads.             *)
LEMMA PushedBlock ==
    ASSUME IndInv, NEW b \in GoodBlock, PushBlock(b), UNCHANGED <<calls, uniqueIDs, nUniqueID>>
    PROVE  /\ toApp' \in Seq(GoodBlock) /\ mixed \subseteq mixed' /\ mixed' \subseteq CallNos
           /\ held' \in Seq(HeldBlock') /\ Len(held') <= 1
           /\ \/ held' = held /\ mixed' = mixed
              \/ /\ held # <<>> /\ held[1] \in HeldBlock
                 /\ mixed' = mixed \cup {held[1].call, b.call}
                 /\ \E h \in Block : held' = <<h>> /\ h.call \in {held[1].call, b.call}
  <1>1. toApp \in Seq(GoodBlock) /\ toApp' = Append(toApp, b)
    BY DEF PushBlock, IndInv, Queues
  <1>2. toApp' \in Seq(GoodBlock)
    BY <1>1
  <1>3. CallNos' = CallNos /\ Ids' = Ids /\ \A c : KnownId(c)' = KnownId(c)
    BY DEF CallNos, Ids, KnownId, atoi
  <1>4. held \in Seq(HeldBlock) /\ Len(held) <= 1 /\ mixed \subseteq CallNos
    BY DEF IndInv, Queues
  <1>5. CASE UNCHANGED <<held, mixed>>
    <2>1. HeldBlock' = HeldBlock
      BY <1>3, <1>5 DEF HeldBlock
    <2> QED
      BY <1>2, <1>4, <1>5, <2>1
  <1>6. CASE ~UNCHANGED <<held, mixed>>
    <2>1. /\ held # <<>>
          /\ \E h \in Mixtures(held[1], b) \ {held[1]} : held' = <<h>>
          /\ mixed' = mixed \cup {held[1].call, b.call}
      BY <1>6 DEF PushBlock
    <2>2. PICK g \in HeldBlock : g = held[1]
      BY <1>4, <2>1, TheOne
    <2>3. PICK h \in Mixtures(g, b) : held' = <<h>>
      BY <2>1, <2>2
    <2>4. /\ h \in Block /\ h.call \in CallNos /\ h.uid \in Ids /\ h.call \in {g.call, b.call}
      BY <2>3 DEF Mixtures, HeldBlock, GoodBlock, Block
    <2>5. h \in HeldBlock'
      BY <1>3, <2>1, <2>2, <2>4 DEF HeldBlock
    <2>6. held' \in Seq(HeldBlock') /\ Len(held') <= 1
      BY <2>3, <2>5
    <2>7. mixed \subseteq mixed' /\ mixed' \subseteq CallNos
      BY <1>4, <2>1, <2>2 DEF HeldBlock, GoodBlock
    <2> QED
      BY <1>2, <2>1, <2>2, <2>3, <2>4, <2>6, <2>7
  <1> QED
    BY <1>5, <1>6

(* What an event of eXosip becomes: a block for the application, or none.   *)
LEMMA EventTaken ==
    ASSUME IndInv, HandleInviteResponse \/ HandleBye
    PROVE  /\ UNCHANGED tcp /\ UNCHANGED <<sipQ, toSip, calls, uniqueIDs, adaptorQ, replies, lost>>
           /\ events # <<>> /\ events' = Tail(events) /\ Head(events) \in GoodEvent
           /\ \E b \in GoodBlock :
                /\ b.call = Head(events).call
                /\ Head(events).kind = "ANSWERED" <=> b.kind = "INVITE_RESPONSE"
                /\ \/ PushBlock(b) /\ dropped' = dropped
                   \/ UNCHANGED app /\ dropped' = dropped /\ Head(events).kind = "CLOSED"
                   \/ UNCHANGED app /\ dropped' = dropped \cup {b.call} /\ Head(events).kind = "ANSWERED"
  <1>1. /\ UNCHANGED tcp /\ UNCHANGED <<sipQ, toSip, calls, uniqueIDs, adaptorQ, replies, lost>>
        /\ events # <<>> /\ events' = Tail(events)
    BY DEF HandleInviteResponse, HandleBye
  <1>2. PICK e \in GoodEvent : e = Head(events)
    BY <1>1, Taken DEF IndInv, Queues
  <1>3. e.call \in CallNos /\ e.call \in Nat \ {0}
    BY DEF GoodEvent, Event
  <1>4. KnownId(e.call) \in Ids /\ KnownId(e.call) \in 0 .. MaxReq /\ 0 \in Ids /\ 0 \in 0 .. MaxReq
    BY <1>3, BoundAssumption DEF IndInv, Table, KnownId, Uids, Ids, Sockets
  <1>5. CASE HandleInviteResponse
    <2>1. PICK b : b = [kind |-> "INVITE_RESPONSE", call |-> e.call, uid |-> KnownId(e.call)]
      OBVIOUS
    <2>2. b \in Block
      BY <1>3, <1>4, <2>1 DEF Block
    <2>3. b \in GoodBlock /\ b.call = e.call /\ b.kind = "INVITE_RESPONSE"
      BY <1>3, <1>4, <2>1, <2>2 DEF GoodBlock
    <2>4. \/ PushBlock(b) /\ dropped' = dropped
          \/ UNCHANGED app /\ dropped' = dropped \cup {b.call}
      BY <1>2, <1>5, <2>1, <2>3 DEF HandleInviteResponse
    <2>5. e.kind = "ANSWERED"
      BY <1>2, <1>5 DEF HandleInviteResponse
    <2> QED
      BY <1>1, <1>2, <2>3, <2>4, <2>5
  <1>6. CASE HandleBye
    <2>1. PICK b : b = [kind |-> "BYE", call |-> e.call, uid |-> 0]
      OBVIOUS
    <2>2. b \in Block
      BY <1>3, <1>4, <2>1 DEF Block
    <2>3. b \in GoodBlock /\ b.call = e.call /\ b.kind = "BYE"
      BY <1>3, <1>4, <2>1, <2>2 DEF GoodBlock
    <2>4. (PushBlock(b) \/ UNCHANGED app) /\ dropped' = dropped
      BY <1>2, <1>6, <2>1 DEF HandleBye
    <2>5. e.kind = "CLOSED"
      BY <1>2, <1>6 DEF HandleBye
    <2> QED
      BY <1>1, <1>2, <2>3, <2>4, <2>5
  <1> QED
    BY <1>5, <1>6

(* An answer carries what the table holds for its call.                    *)
LEMMA ResponseStep == ASSUME IndInv, HandleInviteResponse \/ HandleBye PROVE IndInv' /\ Grows
  <1>1. /\ UNCHANGED tcp /\ UNCHANGED <<sipQ, toSip, calls, uniqueIDs, adaptorQ, replies, lost>>
        /\ events # <<>> /\ events' = Tail(events)
    BY EventTaken
  <1>2. PICK b \in GoodBlock : \/ PushBlock(b) /\ dropped' = dropped
                               \/ UNCHANGED app /\ dropped' \in {dropped, dropped \cup {b.call}}
    BY EventTaken
  <1>3. UNCHANGED <<nUniqueID, asker, misfiled>>
    BY <1>1 DEF tcp
  <1>4. /\ toApp' \in Seq(GoodBlock) /\ mixed \subseteq mixed' /\ mixed' \subseteq CallNos
        /\ held' \in Seq(HeldBlock') /\ Len(held') <= 1
    <2>1. CASE PushBlock(b)
      BY <1>1, <1>3, <2>1, PushedBlock
    <2>2. CASE UNCHANGED app
      <3>1. toApp' = toApp /\ held' = held /\ mixed' = mixed
        BY <2>2 DEF app
      <3>2. Grows
        BY <1>1, <1>3, <3>1, SameIds
      <3> QED
        BY <3>1, <3>2, StaysGood DEF IndInv, Queues
    <2> QED
      BY <1>2, <2>1, <2>2
  <1>5. Grows /\ CallNos' = CallNos /\ Table' /\ Sockets'
    BY <1>1, <1>3, <1>4, SameIds
  <1>6. events' \in Seq(GoodEvent') /\ toApp' \in Seq(GoodBlock')
    <2>1. events' \in Seq(GoodEvent)
      BY <1>1, Taken DEF IndInv, Queues
    <2> QED
      BY <1>4, <1>5, <2>1, StaysGood, Widen
  <1>7. dropped' \subseteq CallNos
    BY <1>2 DEF IndInv, Queues, GoodBlock
  <1>8. Queues'
    BY <1>1, <1>4, <1>5, <1>6, <1>7, StaysGood DEF IndInv, Queues
  <1> QED
    BY <1>5, <1>8 DEF IndInv

(* HandleShared takes a block and hands the answer it finds in it to the   *)
(* adaptor.                                                                *)
LEMMA SharedStep == ASSUME IndInv, PopBlock \/ RecvInviteResponse \/ RecvBye PROVE IndInv' /\ Grows
  <1>1. /\ UNCHANGED <<nUniqueID, asker, calls, uniqueIDs, mixed, misfiled>> /\ UNCHANGED tcp
        /\ UNCHANGED <<sipQ, toSip, events, replies, lost, dropped>>
    BY DEF PopBlock, RecvInviteResponse, RecvBye, sip, tcp
  <1>2. Grows /\ CallNos' = CallNos /\ Ids' = Ids /\ Table' /\ Sockets'
    BY <1>1, SameIds
  <1>3. toApp \in Seq(GoodBlock) /\ held \in Seq(HeldBlock) /\ adaptorQ \in Seq(GoodAnswer) /\ Len(held) <= 1
    BY DEF IndInv, Queues
  <1>4. /\ toApp' \in Seq(GoodBlock) /\ held' \in Seq(HeldBlock) /\ Len(held') <= 1
        /\ adaptorQ' \in Seq(GoodAnswer)
    <2>1. CASE PopBlock
      <3>1. Tail(toApp) \in Seq(GoodBlock) /\ Head(toApp) \in GoodBlock
        BY <1>3, <2>1, Taken DEF PopBlock
      <3>2. PICK b \in HeldBlock : b = Head(toApp)
        BY <3>1 DEF GoodBlock, HeldBlock
      <3>3. held' = <<b>> /\ toApp' = Tail(toApp) /\ adaptorQ' = adaptorQ
        BY <2>1, <3>2 DEF PopBlock
      <3>4. held' \in Seq(HeldBlock) /\ Len(held') <= 1
        BY <3>3
      <3> QED
        BY <1>3, <3>1, <3>3, <3>4
    <2>2. CASE RecvInviteResponse
      <3>1. PICK h \in HeldBlock : h = held[1] /\ h.kind = "INVITE_RESPONSE"
        BY <1>3, <2>2, TheOne DEF RecvInviteResponse
      <3>2. PICK a : a = [call |-> h.call, uid |-> h.uid]
        OBVIOUS
      <3>3. a \in Answer /\ a.call = h.call /\ a.uid = h.uid
        BY <3>2 DEF HeldBlock, Block, Answer
      <3>4. a \in GoodAnswer
        BY <3>1, <3>3 DEF HeldBlock, GoodAnswer
      <3>5. held' = <<>> /\ toApp' = toApp /\ adaptorQ' = Append(adaptorQ, a)
        BY <2>2, <3>1, <3>2 DEF RecvInviteResponse
      <3>6. adaptorQ' \in Seq(GoodAnswer)
        BY <1>3, <3>4, <3>5
      <3>7. held' \in Seq(HeldBlock) /\ Len(held') <= 1
        BY <3>5
      <3> QED
        BY <1>3, <3>5, <3>6, <3>7
    <2>3. CASE RecvBye
      <3>1. held' = <<>> /\ toApp' = toApp /\ adaptorQ' = adaptorQ
        BY <2>3 DEF RecvBye
      <3>2. held' \in Seq(HeldBlock) /\ Len(held') <= 1
        BY <3>1
      <3> QED
        BY <1>3, <3>1, <3>2
    <2> QED
      BY <2>1, <2>2, <2>3
  <1>5. toApp' \in Seq(GoodBlock') /\ held' \in Seq(HeldBlock') /\ adaptorQ' \in Seq(GoodAnswer')
    BY <1>2, <1>4, StaysGood, Widen
  <1>6. Queues'
    BY <1>1, <1>2, <1>4, <1>5, StaysGood DEF IndInv, Queues
  <1> QED
    BY <1>2, <1>6 DEF IndInv

(* What OnHusInviteRes does with an answer.  An answer to a steady call     *)
(* carries its own request's id, and finds the asker's socket or none.      *)
LEMMA AnswerTaken ==
    ASSUME IndInv, OnHusInviteRes
    PROVE  /\ adaptorQ # <<>> /\ adaptorQ' = Tail(adaptorQ)
           /\ UNCHANGED tcp /\ UNCHANGED <<sipQ, toSip, calls, uniqueIDs, events, toApp, held, mixed, dropped>>
           /\ \E a \in GoodAnswer :
                /\ a = Head(adaptorQ)
                /\ \/ /\ lost' = lost
                      /\ \E p \in GoodReply : p.call = a.call /\ replies' = Append(replies, p)
                   \/ /\ replies' = replies /\ lost' = lost \cup {a.call}
                      /\ Steady(a.call) => saving = calls[a.call].uid
  <1>1. /\ adaptorQ # <<>> /\ adaptorQ' = Tail(adaptorQ) /\ UNCHANGED tcp
        /\ UNCHANGED <<sipQ, toSip, calls, uniqueIDs, events, toApp, held, mixed, dropped>>
    BY DEF OnHusInviteRes, sip, app
  <1>2. PICK a \in GoodAnswer : a = Head(adaptorQ)
    BY <1>1, Taken DEF IndInv, Queues
  <1>3. a.call \in CallNos /\ a.call \in Nat \ {0} /\ calls[a.call].uid \in Uids
    BY DEF GoodAnswer, Answer, IndInv, Queues, CallNos, GoodCall
  <1>4. Steady(a.call) => a.uid = calls[a.call].uid /\ a.uid \in Uids /\ a.uid \notin misfiled
    BY <1>3 DEF GoodAnswer, Steady, Intact, OwnKey
  <1>5. CASE a.uid \in DOMAIN sessions
    <2>1. PICK p : p = [call |-> a.call, to |-> sessions[a.uid]]
      OBVIOUS
    <2>2. p \in Reply /\ p.call = a.call /\ p.to = sessions[a.uid]
      BY <1>3, <1>5, <2>1 DEF Reply, IndInv, Sockets
    <2>3. Steady(a.call) => sessions[a.uid] = asker[calls[a.call].uid]
      BY <1>4, <1>5 DEF IndInv, Sockets
    <2>4. p \in GoodReply
      BY <1>3, <2>2, <2>3 DEF GoodReply
    <2>5. replies' = Append(replies, p) /\ lost' = lost
      BY <1>2, <1>5, <2>1 DEF OnHusInviteRes, MatchRequest
    <2> QED
      BY <1>1, <1>2, <2>2, <2>4, <2>5
  <1>6. CASE a.uid \notin DOMAIN sessions
    <2>1. replies' = replies /\ lost' = lost \cup {a.call}
      BY <1>2, <1>6 DEF OnHusInviteRes
    <2>2. Steady(a.call) => saving = calls[a.call].uid
      BY <1>4, <1>6 DEF IndInv, Sockets
    <2> QED
      BY <1>1, <1>2, <2>1, <2>2
  <1> QED
    BY <1>5, <1>6

(* The adaptor writes the answer to a socket.                              *)
LEMMA ReplyStep == ASSUME IndInv, OnHusInviteRes PROVE IndInv' /\ Grows
  <1>1. /\ adaptorQ # <<>> /\ adaptorQ' = Tail(adaptorQ) /\ UNCHANGED tcp
        /\ UNCHANGED <<sipQ, toSip, calls, uniqueIDs, events, toApp, held, mixed, dropped>>
    BY AnswerTaken
  <1>2. UNCHANGED <<nUniqueID, asker, misfiled>>
    BY <1>1 DEF tcp
  <1>3. Grows /\ CallNos' = CallNos /\ Table' /\ Sockets'
    BY <1>1, <1>2, SameIds
  <1>4. adaptorQ' \in Seq(GoodAnswer')
    <2>1. adaptorQ' \in Seq(GoodAnswer)
      BY <1>1, Taken DEF IndInv, Queues
    <2> QED
      BY <1>3, <2>1, StaysGood, Widen
  <1>5. replies' \in Seq(GoodReply') /\ lost' \subseteq CallNos
    <2>1. PICK a \in GoodAnswer :
             \/ lost' = lost /\ \E p \in GoodReply : replies' = Append(replies, p)
             \/ replies' = replies /\ lost' = lost \cup {a.call}
      BY AnswerTaken
    <2>2. lost' \subseteq CallNos
      BY <2>1 DEF IndInv, Queues, GoodAnswer
    <2>3. replies \in Seq(GoodReply)
      BY DEF IndInv, Queues
    <2>4. replies' \in Seq(GoodReply)
      BY <2>1, <2>3
    <2> QED
      BY <1>3, <2>2, <2>4, StaysGood, Widen
  <1>6. Queues'
    BY <1>1, <1>3, <1>4, <1>5, StaysGood DEF IndInv, Queues
  <1> QED
    BY <1>3, <1>6 DEF IndInv

(* Every step of the five threads, the clients and the lower domain.       *)
LEMMA NextInd == IndInv /\ [Next]_vars => IndInv' /\ Grows
  <1> SUFFICES ASSUME IndInv, [Next]_vars PROVE IndInv' /\ Grows
    OBVIOUS
  <1>1. CASE UNCHANGED vars
    <2>1. /\ UNCHANGED <<nUniqueID, asker, calls, uniqueIDs, mixed, misfiled>> /\ UNCHANGED tcp
          /\ UNCHANGED <<sipQ, toSip, events, toApp, held, adaptorQ, replies, lost, dropped>>
      BY <1>1 DEF vars, tcp, sip, app
    <2>2. Grows /\ CallNos' = CallNos /\ Table' /\ Sockets'
      BY <2>1, SameIds
    <2>3. Queues'
      BY <2>1, <2>2, StaysGood DEF IndInv, Queues
    <2> QED
      BY <2>2, <2>3 DEF IndInv
  <1> QED
    BY <1>1, RequestStep, SaveSessionStep, HandleMsgStep, InviteStep, DialogStep, LowerStep,
       ResponseStep, SharedStep, ReplyStep DEF Next

(* The queues, tables and eXosip's calls keep their types; ids that travel *)
(* back from the SIP process name requests and calls that exist.           *)
THEOREM TypeCorrect == Spec => []TypeOK
  BY InitInd, NextInd, IndInvType, PTL DEF Spec

(* The answer to an intact call whose key is its own goes to the client    *)
(* that asked for it.                                                      *)
THEOREM ReplyToAskerHolds == Spec => []ReplyToAsker
  <1>1. IndInv => ReplyToAsker
    BY DEF IndInv, Queues, GoodReply, Steady, ReplyToAsker
  <1> QED
    BY <1>1, InitInd, NextInd, PTL DEF Spec

(* An answer to such a call that finds no socket was faster than           *)
(* SaveSession for the request that asked for the call.                    *)
THEOREM LostOnlyInWindowHolds == Spec => LostOnlyInWindow
  <1>1. IndInv /\ [Next]_vars =>
          [\A c \in lost' \ lost : Intact(c) /\ OwnKey(c) => saving = calls[c].uid]_vars
    <2> SUFFICES ASSUME IndInv, [Next]_vars, NEW c \in lost' \ lost, Intact(c) /\ OwnKey(c)
                 PROVE  saving = calls[c].uid
      BY Zenon
    <2>1. OnHusInviteRes
      BY DEF Next, RawDataHandleProc, SaveSession, HandleMsg, SendInviteBroadCast, BuildInviteFails,
             SendAckBroadCast, SendCallBye, LowerAnswers, LowerRefuses, LowerBye,
             HandleInviteResponse, HandleBye, PopBlock, RecvInviteResponse, RecvBye, vars
    <2> QED
      BY <2>1, AnswerTaken DEF Steady
  <1> QED
    BY <1>1, InitInd, NextInd, PTL DEF Spec, LostOnlyInWindow

-----------------------------------------------------------------------------
(* A call's answer is in one place.  Where a queue holds elements of a set. *)
Pos(q, S) == {i \in 1 .. Len(q) : q[i] \in S}
AtMostOne(S) == \A x, y \in S : x = y
AnsweredOf(c) == {e \in Event : e.kind = "ANSWERED" /\ e.call = c}
ResponseOf(c) == {b \in Block : b.kind = "INVITE_RESPONSE" /\ b.call = c}
AnswerFor(c) == {a \in Answer : a.call = c}
ReplyFor(c) == {p \in Reply : p.call = c}

E(c) == Pos(events, AnsweredOf(c))
B(c) == Pos(toApp, ResponseOf(c))
H(c) == Pos(held, ResponseOf(c))
M(c) == Pos(adaptorQ, AnswerFor(c))
R(c) == Pos(replies, ReplyFor(c))

Gone(c) == c \in lost \/ c \in dropped
Nowhere(c) == E(c) = {} /\ B(c) = {} /\ H(c) = {} /\ M(c) = {} /\ R(c) = {} /\ ~Gone(c)
OnePlace(c) ==
    /\ AtMostOne(E(c)) /\ AtMostOne(B(c)) /\ AtMostOne(H(c)) /\ AtMostOne(M(c)) /\ AtMostOne(R(c))
    /\ E(c) # {} => B(c) = {} /\ H(c) = {} /\ M(c) = {} /\ R(c) = {} /\ ~Gone(c)
    /\ B(c) # {} => H(c) = {} /\ M(c) = {} /\ R(c) = {} /\ ~Gone(c)
    /\ H(c) # {} => M(c) = {} /\ R(c) = {} /\ ~Gone(c)
    /\ M(c) # {} => R(c) = {} /\ ~Gone(c)
    /\ R(c) # {} => ~Gone(c)
    /\ c \in lost => c \notin dropped

(* The inductive form of SingleReply: a call that is not answered yet has  *)
(* no answer anywhere.                                                     *)
Sound(c) == OnePlace(c) /\ (calls[c].state = "inviting" => Nowhere(c))
Placed == \A c \in CallNos \ mixed : Sound(c)

(* An element added at the end of a queue.                                 *)
LEMMA PosAppend ==
    ASSUME NEW T, NEW q \in Seq(T), NEW e \in T, NEW S
    PROVE  /\ e \notin S => Pos(Append(q, e), S) = Pos(q, S)
           /\ Pos(q, S) = {} => AtMostOne(Pos(Append(q, e), S))
           /\ e \in S => Pos(Append(q, e), S) # {}
  <1>1. /\ e \notin S => Pos(Append(q, e), S) = Pos(q, S)
        /\ Pos(q, S) = {} => AtMostOne(Pos(Append(q, e), S))
    BY DEF Pos, AtMostOne
  <1>2. Len(q) + 1 \in 1 .. Len(Append(q, e)) /\ Append(q, e)[Len(q) + 1] = e
    OBVIOUS
  <1> QED
    BY <1>1, <1>2 DEF Pos

(* The first element taken off a queue.                                    *)
LEMMA PosTail ==
    ASSUME NEW T, NEW q \in Seq(T), q # <<>>, NEW S
    PROVE  /\ AtMostOne(Pos(q, S)) => AtMostOne(Pos(Tail(q), S))
           /\ Pos(q, S) = {} => Pos(Tail(q), S) = {}
           /\ Head(q) \in S => Pos(q, S) # {}
           /\ Head(q) \in S /\ AtMostOne(Pos(q, S)) => Pos(Tail(q), S) = {}
           /\ Head(q) \notin S => (Pos(Tail(q), S) = {} <=> Pos(q, S) = {})
  <1>1. \A i \in Pos(Tail(q), S) : i + 1 \in Pos(q, S) /\ i \in 1 .. Len(q) /\ i + 1 # 1
    BY DEF Pos
  <1>2. Head(q) \in S => 1 \in Pos(q, S)
    BY DEF Pos
  <1>3. AtMostOne(Pos(q, S)) => AtMostOne(Pos(Tail(q), S))
    BY <1>1 DEF AtMostOne
  <1>4. ASSUME Head(q) \notin S, NEW i \in Pos(q, S) PROVE i - 1 \in Pos(Tail(q), S)
    <2>1. i \in 1 .. Len(q) /\ q[i] \in S /\ i # 1
      BY <1>4 DEF Pos
    <2>2. i - 1 \in 1 .. Len(Tail(q)) /\ Tail(q)[i - 1] = q[i]
      BY <2>1
    <2> QED
      BY <2>1, <2>2 DEF Pos
  <1> QED
    BY <1>1, <1>2, <1>3, <1>4 DEF AtMostOne

(* The places in the terms of the module.                                  *)
LEMMA PlacesAre ==
    ASSUME TypeOK, NEW c \in CallNos
    PROVE  E(c) = EventOf(c) /\ B(c) = BlockOf(c) /\ H(c) = HeldOf(c) /\ M(c) = MessageOf(c) /\ R(c) = ReplyOf(c)
  <1>0. c \in Nat \ {0}
    BY DEF CallNos
  <1>1. E(c) = EventOf(c)
    BY <1>0 DEF TypeOK, E, Pos, AnsweredOf, EventOf, Event
  <1>2. B(c) = BlockOf(c) /\ H(c) = HeldOf(c)
    BY <1>0 DEF TypeOK, B, H, Pos, ResponseOf, BlockOf, HeldOf
  <1>3. M(c) = MessageOf(c) /\ R(c) = ReplyOf(c)
    BY <1>0 DEF TypeOK, M, R, Pos, AnswerFor, ReplyFor, MessageOf, ReplyOf
  <1> QED
    BY <1>1, <1>2, <1>3

LEMMA PlacedMeans == TypeOK /\ Placed => SingleReply
  <1> SUFFICES ASSUME TypeOK, Placed, NEW c \in CallNos \ mixed, NEW p \in 1 .. 7, NEW q \in 1 .. 7,
                      NEW x \in Places(c)[p], NEW y \in Places(c)[q]
               PROVE  p = q /\ x = y
    BY DEF SingleReply
  <1>1. E(c) = EventOf(c) /\ B(c) = BlockOf(c) /\ H(c) = HeldOf(c) /\ M(c) = MessageOf(c) /\ R(c) = ReplyOf(c)
    BY PlacesAre
  <1>2. /\ Places(c)[1] = E(c) /\ Places(c)[2] = B(c) /\ Places(c)[3] = H(c) /\ Places(c)[4] = M(c)
        /\ Places(c)[5] = R(c) /\ Places(c)[6] = lost \cap {c} /\ Places(c)[7] = dropped \cap {c}
    BY <1>1 DEF Places
  <1>3. OnePlace(c)
    BY DEF Placed, Sound
  <1>4. p \in {1, 2, 3, 4, 5, 6, 7} /\ q \in {1, 2, 3, 4, 5, 6, 7}
    OBVIOUS
  <1> HIDE DEF Places
  <1> QED
    BY <1>2, <1>3, <1>4 DEF OnePlace, AtMostOne, Gone

(* Elements of a queue name calls that exist.                              *)
LEMMA UnknownNowhere ==
    ASSUME IndInv, NEW c, c \notin CallNos
    PROVE  Nowhere(c)
  <1>1. E(c) = {} /\ B(c) = {}
    BY DEF IndInv, Queues, E, B, Pos, AnsweredOf, ResponseOf, GoodEvent, GoodBlock
  <1>2. M(c) = {} /\ R(c) = {}
    BY DEF IndInv, Queues, M, R, Pos, AnswerFor, ReplyFor, GoodAnswer, GoodReply
  <1>3. H(c) = {}
    BY DEF IndInv, Queues, H, Pos, ResponseOf, HeldBlock
  <1> QED
    BY <1>1, <1>2, <1>3 DEF IndInv, Queues, Nowhere, Gone

(* Steps that move no answer: calls may be added or change their state,     *)
(* but none goes back to inviting.                                          *)
LEMMA NoMove ==
    ASSUME IndInv, Placed, UNCHANGED <<events, toApp, held, mixed, adaptorQ, replies, lost, dropped>>,
           \A c \in CallNos' : c \in CallNos /\ calls'[c].state = "inviting" => calls[c].state = "inviting"
    PROVE  Placed'
  <1> SUFFICES ASSUME NEW c \in CallNos', c \notin mixed
               PROVE  Sound(c)'
    BY DEF Placed
  <1>1. (OnePlace(c) <=> OnePlace(c)') /\ (Nowhere(c) <=> Nowhere(c)')
    BY DEF OnePlace, Nowhere, Gone, E, B, H, M, R
  <1>2. CASE c \in CallNos
    BY <1>1, <1>2 DEF Placed, Sound
  <1>3. CASE c \notin CallNos
    <2>1. Nowhere(c)
      BY <1>3, UnknownNowhere
    <2> QED
      BY <1>1, <2>1 DEF Nowhere, OnePlace, AtMostOne, Gone, Sound
  <1> QED
    BY <1>2, <1>3

(* What the lower domain's steps do to the places of a call.               *)
LEMMA LowerPlaces ==
    ASSUME IndInv, NEW c \in CallNos, LowerAnswers(c) \/ LowerBye(c), NEW d \in CallNos
    PROVE  /\ B(d)' = B(d) /\ H(d)' = H(d) /\ M(d)' = M(d) /\ R(d)' = R(d) /\ (Gone(d)' <=> Gone(d))
           /\ LowerBye(c) \/ d # c => E(d)' = E(d)
           /\ E(d) = {} => AtMostOne(E(d)')
           /\ LowerAnswers(c) => E(c)' # {}
           /\ CallNos' = CallNos /\ mixed' = mixed /\ lost' = lost /\ dropped' = dropped
           /\ d # c => calls'[d] = calls[d]
           /\ calls'[c].state # "inviting"
  <1>1. c \in Nat \ {0} /\ events \in Seq(Event)
    BY Widen DEF CallNos, IndInv, Queues, GoodEvent
  <1>2. UNCHANGED <<toApp, held, mixed, adaptorQ, replies, lost, dropped, uniqueIDs>> /\ UNCHANGED tcp
    BY DEF LowerAnswers, LowerBye, app
  <1>3. PICK st \in {"answered", "over"} : calls' = [calls EXCEPT ![c].state = st]
    BY DEF LowerAnswers, LowerBye
  <1>4. CallNos' = CallNos /\ calls'[c].state = st /\ \A x \in CallNos : x # c => calls'[x] = calls[x]
    BY <1>2, <1>3, StateChange
  <1>5. B(d)' = B(d) /\ H(d)' = H(d) /\ M(d)' = M(d) /\ R(d)' = R(d) /\ (Gone(d)' <=> Gone(d))
    BY <1>2 DEF B, H, M, R, Gone
  <1>6. /\ LowerBye(c) \/ d # c => E(d)' = E(d)
        /\ E(d) = {} => AtMostOne(E(d)')
        /\ LowerAnswers(c) /\ d = c => E(d)' # {}
    <2>1. PICK e : e = [kind |-> IF LowerAnswers(c) THEN "ANSWERED" ELSE "CLOSED", call |-> c]
      OBVIOUS
    <2>2. e \in Event /\ events' = Append(events, e)
      BY <1>1, <2>1 DEF LowerAnswers, LowerBye, Event
    <2>3. LowerBye(c) \/ d # c => e \notin AnsweredOf(d)
      <3>1. LowerBye(c) => ~LowerAnswers(c)
        BY DEF LowerBye, LowerAnswers, InDialog
      <3> QED
        BY <2>1, <3>1 DEF AnsweredOf
    <2>4. LowerAnswers(c) => e \in AnsweredOf(c)
      BY <2>1, <2>2 DEF AnsweredOf
    <2>5. PICK S : S = AnsweredOf(d) /\ E(d) = Pos(events, S) /\ E(d)' = Pos(events', S)
      BY DEF E, AnsweredOf
    <2>6. LowerAnswers(c) /\ d = c => e \in S
      BY <2>4, <2>5
    <2> QED
      BY <1>1, <2>2, <2>3, <2>5, <2>6, PosAppend
  <1>7. LowerAnswers(c) => E(c)' # {}
    <2> SUFFICES ASSUME LowerAnswers(c) PROVE E(c)' # {}
      OBVIOUS
    <2>1. PICK e : e = [kind |-> "ANSWERED", call |-> c]
      OBVIOUS
    <2>2. e \in Event /\ events' = Append(events, e) /\ e \in AnsweredOf(c)
      BY <1>1, <2>1 DEF LowerAnswers, Event, AnsweredOf
    <2>3. PICK S : S = AnsweredOf(c) /\ E(c)' = Pos(events', S)
      BY DEF E, AnsweredOf
    <2> QED
      BY <1>1, <2>2, <2>3, PosAppend
  <1> QED
    BY <1>2, <1>4, <1>5, <1>6, <1>7

(* The answer enters eXosip's events, once; other calls are not concerned. *)
LEMMA LowerPlaced ==
    ASSUME IndInv, Placed, NEW c \in CallNos, LowerAnswers(c) \/ LowerBye(c)
    PROVE  Placed'
  <1>1. CallNos' = CallNos /\ mixed' = mixed
    BY LowerPlaces
  <1> SUFFICES ASSUME NEW d \in CallNos \ mixed
               PROVE  Sound(d)'
    BY <1>1 DEF Placed
  <1>2. /\ B(d)' = B(d) /\ H(d)' = H(d) /\ M(d)' = M(d) /\ R(d)' = R(d) /\ (Gone(d)' <=> Gone(d))
        /\ LowerBye(c) \/ d # c => E(d)' = E(d)
        /\ E(d) = {} => AtMostOne(E(d)')
        /\ lost' = lost /\ dropped' = dropped
        /\ d # c => calls'[d] = calls[d]
        /\ calls'[c].state # "inviting"
    BY LowerPlaces
  <1>3. OnePlace(d) /\ (calls[d].state = "inviting" => Nowhere(d))
    BY DEF Placed, Sound
  <1>4. CASE LowerAnswers(c) /\ d = c
    <2>1. Nowhere(d)
      BY <1>3, <1>4 DEF LowerAnswers
    <2>2. OnePlace(d)'
      BY <1>2, <2>1 DEF Nowhere, OnePlace, AtMostOne, Gone
    <2> QED
      BY <1>2, <1>4, <2>2 DEF Sound
  <1>5. CASE LowerBye(c) \/ d # c
    <2>1. OnePlace(d)'
      BY <1>2, <1>3, <1>5 DEF OnePlace
    <2>2. (calls[d].state = "inviting" => Nowhere(d))'
      BY <1>2, <1>3, <1>5 DEF Nowhere
    <2> QED
      BY <2>1, <2>2 DEF Sound
  <1> QED
    BY <1>4, <1>5

(* What a step of pfnSIPProc does to the answer of call d: it waits on, it  *)
(* enters Sipcom_to_App, or it finds it full.                               *)
Waits(d) ==
    /\ (E(d)' = {} <=> E(d) = {}) /\ (AtMostOne(E(d)) => AtMostOne(E(d)'))
    /\ B(d)' = B(d) /\ (d \in dropped' <=> d \in dropped)
Leaves(d) == E(d) # {} /\ (AtMostOne(E(d)) => E(d)' = {})
Enters(d) ==
    /\ Leaves(d) /\ B(d)' # {} /\ (B(d) = {} => AtMostOne(B(d)')) /\ dropped' = dropped
FindsFull(d) == Leaves(d) /\ B(d)' = B(d) /\ dropped' = dropped \cup {d} /\ mixed' = mixed

LEMMA ResponsePlaces ==
    ASSUME IndInv, HandleInviteResponse \/ HandleBye
    PROVE  /\ UNCHANGED <<calls, uniqueIDs, asker, misfiled, adaptorQ, replies, lost>>
           /\ \E x, y \in CallNos : mixed' \in {mixed, mixed \cup {x, y}}
           /\ \E z \in CallNos : dropped' = dropped \/ (dropped' = dropped \cup {z} /\ mixed' = mixed)
           /\ \A d \in CallNos \ mixed' : H(d)' = H(d) /\ (Waits(d) \/ Enters(d) \/ FindsFull(d))
  <1>1. /\ UNCHANGED <<calls, uniqueIDs, asker, nUniqueID, misfiled, adaptorQ, replies, lost>>
        /\ events # <<>> /\ events' = Tail(events)
    BY EventTaken DEF tcp
  <1>2. PICK e \in GoodEvent : e = Head(events)
    BY EventTaken
  <1>3. PICK b \in GoodBlock :
          /\ b.call = e.call
          /\ e.kind = "ANSWERED" <=> b.kind = "INVITE_RESPONSE"
          /\ \/ PushBlock(b) /\ dropped' = dropped
             \/ UNCHANGED app /\ dropped' = dropped /\ e.kind = "CLOSED"
             \/ UNCHANGED app /\ dropped' = dropped \cup {b.call} /\ e.kind = "ANSWERED"
    BY <1>2, EventTaken
  <1>4. b.call \in CallNos /\ b \in Block /\ e \in Event
    BY DEF GoodBlock, GoodEvent
  <1>5. CASE PushBlock(b) /\ dropped' = dropped
    <2>1. \/ held' = held /\ mixed' = mixed
          \/ /\ held # <<>> /\ held[1] \in HeldBlock
             /\ mixed' = mixed \cup {held[1].call, b.call}
             /\ \E h \in Block : held' = <<h>> /\ h.call \in {held[1].call, b.call}
      BY <1>1, <1>5, PushedBlock
    <2>2. \E x, y \in CallNos : mixed' \in {mixed, mixed \cup {x, y}}
      BY <1>4, <2>1 DEF HeldBlock
    <2>3. ASSUME NEW d \in CallNos \ mixed' PROVE H(d)' = H(d)
      <3>1. CASE held' = held
        BY <3>1 DEF H, ResponseOf
      <3>2. CASE /\ held # <<>> /\ held[1] \in HeldBlock
                 /\ mixed' = mixed \cup {held[1].call, b.call}
                 /\ \E h \in Block : held' = <<h>> /\ h.call \in {held[1].call, b.call}
        <4>1. PICK h \in Block : held' = <<h>> /\ h.call # d
          BY <2>3, <3>2
        <4>2. H(d)' = {}
          BY <4>1 DEF H, Pos, ResponseOf
        <4>3. held \in Seq(HeldBlock) /\ Len(held) <= 1 /\ held[1].call # d
          BY <2>3, <3>2 DEF IndInv, Queues
        <4>4. Len(held) = 1
          BY <3>2, <4>3, TheOne
        <4>5. H(d) = {}
          <5>1. \A i \in 1 .. Len(held) : held[i] \notin ResponseOf(d)
            BY <4>3, <4>4 DEF ResponseOf
          <5> QED
            BY <5>1 DEF H, Pos
        <4> QED
          BY <4>2, <4>5
      <3> QED
        BY <2>1, <3>1, <3>2
    <2>4. ASSUME NEW d \in CallNos PROVE Waits(d) \/ Enters(d)
      <3>1. events \in Seq(Event) /\ toApp \in Seq(Block) /\ toApp' = Append(toApp, b)
        BY <1>5, Widen DEF IndInv, Queues, GoodEvent, GoodBlock, PushBlock
      <3>2. PICK S : S = AnsweredOf(d) /\ E(d) = Pos(events, S) /\ E(d)' = Pos(events', S)
        BY DEF E, AnsweredOf
      <3>3. PICK T : T = ResponseOf(d) /\ B(d) = Pos(toApp, T) /\ B(d)' = Pos(toApp', T)
        BY DEF B, ResponseOf
      <3>4. CASE e \in S
        <4>1. b \in T
          BY <1>3, <1>4, <3>2, <3>3, <3>4 DEF AnsweredOf, ResponseOf
        <4>2. B(d)' # {} /\ (B(d) = {} => AtMostOne(B(d)'))
          BY <1>4, <3>1, <3>3, <4>1, PosAppend
        <4>3. Leaves(d)
          BY <1>1, <1>2, <3>1, <3>2, <3>4, PosTail DEF Leaves
        <4> QED
          BY <1>5, <4>2, <4>3 DEF Enters
      <3>5. CASE e \notin S
        <4>1. b \notin T
          BY <1>3, <1>4, <3>2, <3>3, <3>5 DEF AnsweredOf, ResponseOf
        <4>2. B(d)' = B(d)
          BY <1>4, <3>1, <3>3, <4>1, PosAppend
        <4>3. (E(d)' = {} <=> E(d) = {}) /\ (AtMostOne(E(d)) => AtMostOne(E(d)'))
          BY <1>1, <1>2, <3>1, <3>2, <3>5, PosTail
        <4> QED
          BY <1>5, <4>2, <4>3 DEF Waits
      <3> QED
        BY <3>4, <3>5
    <2> QED
      BY <1>1, <1>4, <1>5, <2>2, <2>3, <2>4
  <1>6. CASE UNCHANGED app
    <2>1. toApp' = toApp /\ held' = held /\ mixed' = mixed
      BY <1>6 DEF app
    <2>2. ASSUME NEW d \in CallNos \ mixed' PROVE H(d)' = H(d) /\ B(d)' = B(d)
      BY <2>1 DEF H, B
    <2>3. ASSUME NEW d \in CallNos PROVE Waits(d) \/ Enters(d) \/ FindsFull(d)
      <3>1. events \in Seq(Event) /\ B(d)' = B(d)
        BY <2>1, Widen DEF IndInv, Queues, GoodEvent, B
      <3>2. PICK S : S = AnsweredOf(d) /\ E(d) = Pos(events, S) /\ E(d)' = Pos(events', S)
        BY DEF E, AnsweredOf
      <3>3. CASE e \in S
        <4>1. Leaves(d)
          BY <1>1, <1>2, <3>1, <3>2, <3>3, PosTail DEF Leaves
        <4>2. e.kind = "ANSWERED" /\ e.call = d
          BY <3>2, <3>3 DEF AnsweredOf
        <4>3. CASE PushBlock(b)
          BY <2>1, <4>3 DEF PushBlock, IndInv, Queues
        <4>4. CASE dropped' = dropped \cup {b.call}
          BY <1>3, <2>1, <3>1, <4>1, <4>2, <4>4 DEF FindsFull
        <4> QED
          BY <1>3, <4>2, <4>3, <4>4
      <3>4. CASE e \notin S
        <4>1. (E(d)' = {} <=> E(d) = {}) /\ (AtMostOne(E(d)) => AtMostOne(E(d)'))
          BY <1>1, <1>2, <3>1, <3>2, <3>4, PosTail
        <4>2. d \in dropped' <=> d \in dropped
          <5>1. e.kind = "ANSWERED" => e.call # d
            BY <1>4, <3>2, <3>4 DEF AnsweredOf
          <5> QED
            BY <1>3, <5>1
        <4> QED
          BY <3>1, <4>1, <4>2 DEF Waits
      <3> QED
        BY <3>3, <3>4
    <2> QED
      BY <1>1, <1>3, <1>4, <2>1, <2>2, <2>3
  <1> QED
    BY <1>3, <1>5, <1>6

(* From eXosip's events into Sipcom_to_App, or dropped.                    *)
LEMMA ResponsePlaced ==
    ASSUME IndInv, Placed, HandleInviteResponse \/ HandleBye
    PROVE  Placed'
  <1>1. UNCHANGED <<calls, adaptorQ, replies, lost>> /\ mixed \subseteq mixed' /\ CallNos' = CallNos
    BY ResponsePlaces DEF CallNos
  <1> SUFFICES ASSUME NEW d \in CallNos \ mixed'
               PROVE  Sound(d)'
    BY <1>1 DEF Placed
  <1>2. OnePlace(d) /\ (calls[d].state = "inviting" => Nowhere(d))
    BY <1>1 DEF Placed, Sound
  <1>3. M(d)' = M(d) /\ R(d)' = R(d)
    BY <1>1 DEF M, R
  <1>4. H(d)' = H(d) /\ (Waits(d) \/ Enters(d) \/ FindsFull(d))
    BY ResponsePlaces
  <1>5. CASE Waits(d)
    <2>1. Gone(d)' <=> Gone(d)
      BY <1>1, <1>5 DEF Waits, Gone
    <2>2. OnePlace(d)'
      BY <1>1, <1>2, <1>3, <1>4, <1>5, <2>1 DEF OnePlace, Waits
    <2>3. (calls[d].state = "inviting" => Nowhere(d))'
      BY <1>1, <1>2, <1>3, <1>4, <1>5, <2>1 DEF Nowhere, Waits
    <2> QED
      BY <2>2, <2>3 DEF Sound
  <1>6. CASE Enters(d) \/ FindsFull(d)
    <2>1. /\ E(d) # {} /\ E(d)' = {} /\ B(d) = {} /\ H(d) = {} /\ M(d) = {} /\ R(d) = {}
          /\ d \notin lost /\ d \notin dropped
      BY <1>2, <1>6 DEF OnePlace, Gone, Enters, FindsFull, Leaves
    <2>2. calls[d].state # "inviting"
      BY <1>2, <2>1 DEF Nowhere
    <2>3. AtMostOne(B(d)') /\ (d \in dropped' => B(d)' = {})
      BY <1>6, <2>1 DEF Enters, FindsFull, AtMostOne
    <2>4. OnePlace(d)'
      BY <1>1, <1>3, <1>4, <2>1, <2>3 DEF OnePlace, AtMostOne, Gone
    <2> QED
      BY <1>1, <2>2, <2>4 DEF Sound
  <1> QED
    BY <1>4, <1>5, <1>6

(* What a step of HandleShared does to the answer of call d: nothing, it   *)
(* takes its block off, or it hands it to the adaptor.                     *)
Untouched(d) ==
    /\ (B(d)' = {} <=> B(d) = {}) /\ (AtMostOne(B(d)) => AtMostOne(B(d)'))
    /\ H(d)' = H(d) /\ M(d)' = M(d)
TakenOff(d) ==
    /\ B(d) # {} /\ (AtMostOne(B(d)) => B(d)' = {})
    /\ H(d) = {} /\ H(d)' # {} /\ AtMostOne(H(d)') /\ M(d)' = M(d)
HandedOn(d) ==
    /\ B(d)' = B(d) /\ H(d) # {} /\ H(d)' = {}
    /\ M(d)' # {} /\ (M(d) = {} => AtMostOne(M(d)'))

LEMMA SharedPlaces ==
    ASSUME IndInv, PopBlock \/ RecvInviteResponse \/ RecvBye
    PROVE  /\ UNCHANGED <<calls, uniqueIDs, asker, misfiled, mixed, events, replies, lost, dropped>>
           /\ \A d \in CallNos : Untouched(d) \/ TakenOff(d) \/ HandedOn(d)
  <1>1. UNCHANGED <<calls, uniqueIDs, asker, misfiled, mixed, events, replies, lost, dropped>>
    BY DEF PopBlock, RecvInviteResponse, RecvBye, sip, tcp
  <1>2. /\ toApp \in Seq(Block) /\ held \in Seq(Block) /\ adaptorQ \in Seq(Answer) /\ Len(held) <= 1
    BY Widen DEF IndInv, Queues, GoodBlock, HeldBlock, GoodAnswer
  <1> SUFFICES ASSUME NEW d \in CallNos PROVE Untouched(d) \/ TakenOff(d) \/ HandedOn(d)
    BY <1>1
  <1>3. PICK T : /\ T = ResponseOf(d)
                 /\ B(d) = Pos(toApp, T) /\ B(d)' = Pos(toApp', T)
                 /\ H(d) = Pos(held, T) /\ H(d)' = Pos(held', T)
    BY DEF B, H, ResponseOf
  <1>4. PICK S : S = AnswerFor(d) /\ M(d) = Pos(adaptorQ, S) /\ M(d)' = Pos(adaptorQ', S)
    BY DEF M, AnswerFor
  <1>5. \A q : Len(q) = 0 => Pos(q, T) = {}
    BY DEF Pos
  <1>6. ASSUME NEW q, Len(q) = 1
        PROVE  AtMostOne(Pos(q, T)) /\ (q[1] \in T => Pos(q, T) # {}) /\ (q[1] \notin T => Pos(q, T) = {})
    BY <1>6 DEF Pos, AtMostOne
  <1>7. CASE PopBlock
    <2>1. held = <<>> /\ toApp # <<>> /\ held' = <<Head(toApp)>> /\ toApp' = Tail(toApp) /\ M(d)' = M(d)
      BY <1>7 DEF PopBlock, M
    <2>2. H(d) = {}
      BY <1>3, <1>5, <2>1
    <2>3. Len(held') = 1 /\ held'[1] = Head(toApp)
      BY <2>1
    <2>4. /\ AtMostOne(H(d)') /\ (Head(toApp) \in T => H(d)' # {}) /\ (Head(toApp) \notin T => H(d)' = {})
      BY <1>3, <1>6, <2>3
    <2>5. /\ AtMostOne(B(d)) => AtMostOne(B(d)')
          /\ Head(toApp) \in T => B(d) # {} /\ (AtMostOne(B(d)) => B(d)' = {})
          /\ Head(toApp) \notin T => (B(d)' = {} <=> B(d) = {})
      BY <1>2, <1>3, <2>1, PosTail
    <2> QED
      BY <2>1, <2>2, <2>4, <2>5 DEF Untouched, TakenOff
  <1>8. ASSUME RecvInviteResponse \/ RecvBye
        PROVE  held # <<>> /\ toApp' = toApp /\ B(d)' = B(d) /\ H(d)' = {} /\ held[1] \in Block
    <2>1. held # <<>> /\ held' = <<>> /\ toApp' = toApp
      BY <1>8 DEF RecvInviteResponse, RecvBye
    <2>2. Len(held) = 1 /\ held[1] \in Block
      BY <1>2, <2>1, TheOne
    <2>3. H(d)' = {}
      BY <1>3, <1>5, <2>1
    <2> QED
      BY <1>3, <1>6, <2>1, <2>2, <2>3
  <1>9. CASE RecvBye
    <2>1. M(d)' = M(d) /\ held[1] \notin T
      BY <1>3, <1>9 DEF RecvBye, M, ResponseOf
    <2>2. H(d) = {}
      BY <1>6, <1>8, <1>9, <2>1, <1>2, <1>3, TheOne
    <2> QED
      BY <1>8, <1>9, <2>1, <2>2 DEF Untouched
  <1>10. CASE RecvInviteResponse
    <2>1. PICK h \in Block : h = held[1]
      BY <1>8, <1>10
    <2>2. PICK a : a = [call |-> h.call, uid |-> h.uid]
      OBVIOUS
    <2>3. a \in Answer /\ a.call = h.call
      BY <2>2 DEF Answer, Block
    <2>4. h.kind = "INVITE_RESPONSE" /\ adaptorQ' = Append(adaptorQ, a)
      BY <1>10, <2>1, <2>2 DEF RecvInviteResponse
    <2>5. h \in T <=> a \in S
      BY <1>3, <1>4, <2>3, <2>4 DEF ResponseOf, AnswerFor
    <2>6. /\ a \notin S => M(d)' = M(d)
          /\ M(d) = {} => AtMostOne(M(d)')
          /\ a \in S => M(d)' # {}
      BY <1>2, <1>4, <2>3, <2>4, PosAppend
    <2>7. (h \in T => H(d) # {}) /\ (h \notin T => H(d) = {})
      BY <1>2, <1>3, <1>6, <1>8, <1>10, <2>1, TheOne
    <2> QED
      BY <1>8, <1>10, <2>5, <2>6, <2>7 DEF Untouched, HandedOn
  <1> QED
    BY <1>7, <1>9, <1>10

(* Out of Sipcom_to_App to the adaptor; a BYE goes nowhere.                *)
LEMMA SharedPlaced ==
    ASSUME IndInv, Placed, PopBlock \/ RecvInviteResponse \/ RecvBye
    PROVE  Placed'
  <1>1. UNCHANGED <<calls, mixed, events, replies, lost, dropped>> /\ CallNos' = CallNos
    BY SharedPlaces DEF CallNos
  <1> SUFFICES ASSUME NEW d \in CallNos \ mixed
               PROVE  Sound(d)'
    BY <1>1 DEF Placed
  <1>2. E(d)' = E(d) /\ R(d)' = R(d) /\ (Gone(d)' <=> Gone(d))
    BY <1>1 DEF E, R, Gone
  <1>3. OnePlace(d) /\ (calls[d].state = "inviting" => Nowhere(d))
    BY DEF Placed, Sound
  <1>4. Untouched(d) \/ TakenOff(d) \/ HandedOn(d)
    BY SharedPlaces
  <1>5. OnePlace(d)'
    <2>1. CASE Untouched(d)
      BY <1>1, <1>2, <1>3, <2>1 DEF OnePlace, Untouched
    <2>2. CASE TakenOff(d)
      BY <1>1, <1>2, <1>3, <2>2 DEF OnePlace, TakenOff, AtMostOne
    <2>3. CASE HandedOn(d)
      BY <1>1, <1>2, <1>3, <2>3 DEF OnePlace, HandedOn, AtMostOne
    <2> QED
      BY <1>4, <2>1, <2>2, <2>3
  <1>6. (calls[d].state = "inviting" => Nowhere(d))'
    BY <1>1, <1>2, <1>3, <1>4 DEF Nowhere, Untouched, TakenOff, HandedOn
  <1> QED
    BY <1>5, <1>6 DEF Sound

(* What OnHusInviteRes does to the answer of call d: nothing, it writes it *)
(* to a socket, or it loses it.                                            *)
Queued(d) ==
    /\ (M(d)' = {} <=> M(d) = {}) /\ (AtMostOne(M(d)) => AtMostOne(M(d)'))
    /\ R(d)' = R(d) /\ (d \in lost' <=> d \in lost)
Written(d) ==
    /\ M(d) # {} /\ (AtMostOne(M(d)) => M(d)' = {})
    /\ R(d)' # {} /\ (R(d) = {} => AtMostOne(R(d)')) /\ lost' = lost
Unsaved(d) ==
    /\ M(d) # {} /\ (AtMostOne(M(d)) => M(d)' = {})
    /\ R(d)' = R(d) /\ d \in lost'

LEMMA ReplyPlaces ==
    ASSUME IndInv, OnHusInviteRes
    PROVE  /\ UNCHANGED <<calls, uniqueIDs, asker, misfiled, events, toApp, held, mixed, dropped>>
           /\ \E c \in CallNos :
                /\ \A d \in CallNos : d # c => Queued(d)
                /\ \/ Written(c) /\ \E p \in GoodReply : p.call = c /\ replies' = Append(replies, p)
                   \/ Unsaved(c) /\ replies' = replies
  <1>1. /\ UNCHANGED <<calls, uniqueIDs, asker, misfiled, events, toApp, held, mixed, dropped>>
        /\ adaptorQ # <<>> /\ adaptorQ' = Tail(adaptorQ)
    BY AnswerTaken DEF tcp
  <1>2. PICK a \in GoodAnswer :
          /\ a = Head(adaptorQ)
          /\ \/ lost' = lost /\ \E p \in GoodReply : p.call = a.call /\ replies' = Append(replies, p)
             \/ replies' = replies /\ lost' = lost \cup {a.call}
    BY AnswerTaken
  <1>3. PICK c \in CallNos : c = a.call
    BY DEF GoodAnswer
  <1>4. adaptorQ \in Seq(Answer) /\ replies \in Seq(Reply) /\ a \in Answer
    BY Widen DEF IndInv, Queues, GoodAnswer, GoodReply
  <1>5. ASSUME NEW d \in CallNos
        PROVE  /\ AtMostOne(M(d)) => AtMostOne(M(d)')
               /\ d # c => (M(d)' = {} <=> M(d) = {})
               /\ d = c => M(d) # {} /\ (AtMostOne(M(d)) => M(d)' = {})
    <2>1. PICK S : S = AnswerFor(d) /\ M(d) = Pos(adaptorQ, S) /\ M(d)' = Pos(adaptorQ', S)
      BY DEF M, AnswerFor
    <2>2. a \in S <=> d = c
      BY <1>3, <1>4, <2>1 DEF AnswerFor
    <2> QED
      BY <1>1, <1>2, <1>4, <2>1, <2>2, PosTail
  <1>6. CASE lost' = lost /\ \E p \in GoodReply : p.call = a.call /\ replies' = Append(replies, p)
    <2>1. PICK p \in GoodReply : p.call = c /\ replies' = Append(replies, p)
      BY <1>3, <1>6
    <2>2. ASSUME NEW d \in CallNos
          PROVE  /\ d # c => R(d)' = R(d)
                 /\ d = c => R(d)' # {} /\ (R(d) = {} => AtMostOne(R(d)'))
      <3>1. PICK S : S = ReplyFor(d) /\ R(d) = Pos(replies, S) /\ R(d)' = Pos(replies', S)
        BY DEF R, ReplyFor
      <3>2. p \in Reply /\ (p \in S <=> d = c)
        BY <2>1, <3>1 DEF ReplyFor, GoodReply
      <3> QED
        BY <1>4, <2>1, <3>1, <3>2, PosAppend
    <2>3. \A d \in CallNos : d # c => Queued(d)
      BY <1>5, <1>6, <2>2 DEF Queued
    <2>4. Written(c)
      BY <1>5, <1>6, <2>2 DEF Written
    <2> QED
      BY <1>1, <2>1, <2>3, <2>4
  <1>7. CASE replies' = replies /\ lost' = lost \cup {a.call}
    <2>1. \A d : R(d)' = R(d)
      BY <1>7 DEF R
    <2>2. \A d \in CallNos : d # c => Queued(d)
      BY <1>3, <1>5, <1>7, <2>1 DEF Queued
    <2>3. Unsaved(c)
      BY <1>3, <1>5, <1>7, <2>1 DEF Unsaved
    <2> QED
      BY <1>1, <1>7, <2>2, <2>3
  <1> QED
    BY <1>2, <1>6, <1>7

(* From the adaptor's queue to a socket, or to none.                       *)
LEMMA ReplyPlaced ==
    ASSUME IndInv, Placed, OnHusInviteRes
    PROVE  Placed'
  <1>1. UNCHANGED <<calls, events, toApp, held, mixed, dropped>> /\ CallNos' = CallNos
    BY ReplyPlaces DEF CallNos
  <1> SUFFICES ASSUME NEW d \in CallNos \ mixed
               PROVE  Sound(d)'
    BY <1>1 DEF Placed
  <1>2. E(d)' = E(d) /\ B(d)' = B(d) /\ H(d)' = H(d)
    BY <1>1 DEF E, B, H
  <1>3. OnePlace(d) /\ (calls[d].state = "inviting" => Nowhere(d))
    BY DEF Placed, Sound
  <1>4. Queued(d) \/ Written(d) \/ Unsaved(d)
    BY ReplyPlaces
  <1>5. CASE Queued(d)
    <2>1. Gone(d)' <=> Gone(d)
      BY <1>1, <1>5 DEF Gone, Queued
    <2>2. OnePlace(d)'
      BY <1>1, <1>2, <1>3, <1>5, <2>1 DEF OnePlace, Queued
    <2>3. (calls[d].state = "inviting" => Nowhere(d))'
      BY <1>1, <1>2, <1>3, <1>5, <2>1 DEF Nowhere, Queued
    <2> QED
      BY <2>2, <2>3 DEF Sound
  <1>6. CASE Written(d) \/ Unsaved(d)
    <2>1. /\ E(d) = {} /\ B(d) = {} /\ H(d) = {} /\ M(d) # {} /\ M(d)' = {} /\ R(d) = {}
          /\ d \notin lost /\ d \notin dropped
      BY <1>3, <1>6 DEF OnePlace, Gone, Written, Unsaved
    <2>2. calls[d].state # "inviting"
      BY <1>3, <2>1 DEF Nowhere
    <2>3. AtMostOne(R(d)') /\ (d \in lost' => R(d)' = {})
      BY <1>6, <2>1 DEF Written, Unsaved, AtMostOne
    <2>4. OnePlace(d)'
      BY <1>1, <1>2, <2>1, <2>3 DEF OnePlace, AtMostOne, Gone
    <2> QED
      BY <1>1, <2>2, <2>4 DEF Sound
  <1> QED
    BY <1>4, <1>5, <1>6

(* Every step keeps each answer in one place.                              *)
LEMMA PlacedStep == IndInv /\ Placed /\ [Next]_vars => Placed'
  <1> SUFFICES ASSUME IndInv, Placed, [Next]_vars PROVE Placed'
    OBVIOUS
  <1>1. CASE \/ (\E k \in Clients, op \in Ops, c \in {0} \cup CallNos : RawDataHandleProc(k, op, c))
             \/ (\E u \in 0 .. MaxReq : SaveSession(u))
             \/ HandleMsg \/ BuildInviteFails \/ UNCHANGED vars
    <2>1. UNCHANGED <<calls, events, toApp, held, mixed, adaptorQ, replies, lost, dropped>>
      BY <1>1 DEF RawDataHandleProc, SaveSession, HandleMsg, BuildInviteFails, vars, sip, app
    <2> QED
      BY <2>1, NoMove
  <1>2. CASE \E n \in CallIds, sent \in BOOLEAN : SendInviteBroadCast(n, sent)
    <2>1. UNCHANGED <<events, toApp, held, mixed, adaptorQ, replies, lost, dropped>>
      BY <1>2 DEF SendInviteBroadCast, app
    <2>2. PICK x : calls' = Append(calls, x)
      BY <1>2 DEF SendInviteBroadCast
    <2>3. \A c \in CallNos : calls'[c] = calls[c]
      BY <2>2 DEF CallNos, IndInv, Queues
    <2> QED
      BY <2>1, <2>3, NoMove
  <1>3. CASE SendAckBroadCast \/ SendCallBye \/ \E c \in CallNos : LowerRefuses(c)
    <2>1. UNCHANGED <<events, toApp, held, mixed, adaptorQ, replies, lost, dropped>>
      BY <1>3 DEF SendAckBroadCast, SendCallBye, LowerRefuses, app
    <2>2. \/ calls' = calls
          \/ \E c \in CallNos, st \in {"confirmed", "over"} : calls' = [calls EXCEPT ![c].state = st]
      BY <1>3 DEF SendAckBroadCast, SendCallBye, LowerRefuses, InDialog
    <2>3. \A c \in CallNos : calls'[c].state = "inviting" => calls[c].state = "inviting"
      <3>1. calls \in Seq(GoodCall)
        BY DEF IndInv, Queues
      <3>2. ASSUME NEW c \in CallNos, NEW st \in {"confirmed", "over"},
                   calls' = [calls EXCEPT ![c].state = st]
            PROVE  \A d \in CallNos : calls'[d].state = "inviting" => calls[d].state = "inviting"
        BY <3>1, <3>2 DEF CallNos, GoodCall, Call
      <3> QED
        BY <2>2, <3>2
    <2> QED
      BY <2>1, <2>3, NoMove
  <1> QED
    BY <1>1, <1>2, <1>3, LowerPlaced, ResponsePlaced, SharedPlaced, ReplyPlaced DEF Next

(* No answer is delivered twice, or both delivered and lost, whatever the  *)
(* threads and the lower domain do and whatever the Call-IDs are, unless   *)
(* its block was overwritten before it was read.                           *)
THEOREM SingleReplyHolds == Spec => []SingleReply
  <1>1. Init => Placed
    BY DEF Init, Placed, CallNos
  <1> QED
    BY <1>1, InitInd, NextInd, IndInvType, PlacedStep, PlacedMeans, PTL DEF Spec

-----------------------------------------------------------------------------
(* A request is in one place, too, and makes one call at most.              *)
UidsOf(q) == {q[i].uid : i \in 1 .. Len(q)}
Inj(q) == \A i, j \in 1 .. Len(q) : q[i].uid = q[j].uid => i = j
Distinct ==
    /\ Inj(sipQ) /\ Inj(toSip) /\ Inj(calls)
    /\ UidsOf(sipQ) \cap UidsOf(toSip) = {}
    /\ UidsOf(sipQ) \cap UidsOf(calls) = {}
    /\ UidsOf(toSip) \cap UidsOf(calls) = {}

LEMMA UidsAppend ==
    ASSUME NEW T, NEW q \in Seq(T), NEW e \in T
    PROVE  /\ UidsOf(Append(q, e)) = UidsOf(q) \cup {e.uid}
           /\ Inj(q) /\ e.uid \notin UidsOf(q) => Inj(Append(q, e))
  <1>1. PICK n \in Nat : n = Len(q)
    OBVIOUS
  <1>2. PICK r : r = Append(q, e)
    OBVIOUS
  <1>3. Len(r) = n + 1 /\ r[n + 1] = e /\ \A i \in 1 .. n : r[i] = q[i]
    BY <1>1, <1>2
  <1>4. 1 .. (n + 1) = (1 .. n) \cup {n + 1} /\ n + 1 \notin 1 .. n
    BY <1>1
  <1>5. UidsOf(r) = UidsOf(q) \cup {e.uid}
    BY <1>1, <1>3, <1>4 DEF UidsOf
  <1>6. Inj(q) /\ e.uid \notin UidsOf(q) => Inj(r)
    BY <1>1, <1>3, <1>4 DEF UidsOf, Inj
  <1> QED
    BY <1>2, <1>5, <1>6

LEMMA UidsTail ==
    ASSUME NEW T, NEW q \in Seq(T), q # <<>>
    PROVE  /\ UidsOf(Tail(q)) \subseteq UidsOf(q) /\ Head(q).uid \in UidsOf(q)
           /\ Inj(q) => Inj(Tail(q)) /\ Head(q).uid \notin UidsOf(Tail(q))
  <1>1. PICK n \in Nat : n = Len(q) /\ n # 0
    OBVIOUS
  <1>2. PICK t : t = Tail(q)
    OBVIOUS
  <1>3. Len(t) = n - 1 /\ (\A i \in 1 .. (n - 1) : t[i] = q[i + 1]) /\ Head(q) = q[1]
    BY <1>1, <1>2
  <1>4. 1 \in 1 .. n /\ \A i \in 1 .. (n - 1) : i + 1 \in 1 .. n /\ i + 1 # 1
    BY <1>1
  <1>5. UidsOf(t) \subseteq UidsOf(q) /\ Head(q).uid \in UidsOf(q)
    BY <1>1, <1>3, <1>4 DEF UidsOf
  <1>6. Inj(q) => Head(q).uid \notin UidsOf(t)
    BY <1>1, <1>3, <1>4 DEF UidsOf, Inj
  <1>7. Inj(q) => Inj(t)
    <2> SUFFICES ASSUME Inj(q), NEW i \in 1 .. (n - 1), NEW j \in 1 .. (n - 1), t[i].uid = t[j].uid
                 PROVE  i = j
      BY <1>3 DEF Inj
    <2>1. i + 1 = j + 1
      BY <1>1, <1>3, <1>4 DEF Inj
    <2> QED
      BY <2>1
  <1> QED
    BY <1>2, <1>5, <1>6, <1>7

(* Calls that keep their requests.                                         *)
LEMMA UidsSame ==
    ASSUME IndInv, CallNos' = CallNos, \A c \in CallNos : calls'[c].uid = calls[c].uid,
           calls' \in Seq(GoodCall')
    PROVE  UidsOf(calls') = UidsOf(calls) /\ (Inj(calls) => Inj(calls'))
  <1>1. 1 .. Len(calls') = 1 .. Len(calls) /\ \A c \in 1 .. Len(calls) : calls'[c].uid = calls[c].uid
    BY DEF CallNos
  <1> QED
    BY <1>1 DEF UidsOf, Inj

(* Every step leaves a request in one place.                               *)
LEMMA DistinctStep == IndInv /\ Distinct /\ [Next]_vars => Distinct'
  <1> SUFFICES ASSUME IndInv, Distinct, [Next]_vars PROVE Distinct'
    OBVIOUS
  <1>1. sipQ \in Seq(GoodRequest) /\ toSip \in Seq(GoodRequest) /\ calls \in Seq(GoodCall)
    BY DEF IndInv, Queues
  <1>2. UidsOf(sipQ) \subseteq Uids /\ UidsOf(toSip) \subseteq Uids /\ UidsOf(calls) \subseteq Uids
    BY <1>1 DEF UidsOf, GoodRequest, GoodCall
  <1>3. ASSUME NEW k \in Clients, NEW op \in Ops, NEW c \in {0} \cup CallNos, RawDataHandleProc(k, op, c)
        PROVE  Distinct'
    <2>1. PICK r : r = [op |-> op, uid |-> nUniqueID + 1, call |-> c]
      OBVIOUS
    <2>2. sipQ' = Append(sipQ, r) /\ UNCHANGED <<toSip, calls>>
      BY <1>3, <2>1 DEF RawDataHandleProc, sip
    <2>3. r.uid \notin Uids
      BY <2>1 DEF IndInv, Sockets, Uids
    <2>4. r \in Request
      BY <1>3, <2>1, BoundAssumption DEF RawDataHandleProc, Request, ReqIds, CallNos, IndInv, Sockets
    <2>5. sipQ \in Seq(Request)
      BY <1>1, Widen DEF GoodRequest
    <2>6. Inj(sipQ') /\ UidsOf(sipQ') = UidsOf(sipQ) \cup {r.uid}
      BY <1>2, <2>2, <2>3, <2>4, <2>5, UidsAppend DEF Distinct
    <2> QED
      BY <1>2, <2>2, <2>3, <2>6 DEF Distinct
  <1>4. CASE HandleMsg
    <2>1. PICK r \in GoodRequest : r = Head(sipQ)
      BY <1>1, <1>4, Taken DEF HandleMsg
    <2>2. PICK t : t = Tail(sipQ)
      OBVIOUS
    <2>3. /\ sipQ' = t /\ calls' = calls
          /\ toSip' = toSip \/ toSip' = Append(toSip, r)
      BY <1>4, <2>1, <2>2 DEF HandleMsg, sip
    <2>4. /\ UidsOf(t) \subseteq UidsOf(sipQ) /\ r.uid \in UidsOf(sipQ)
          /\ Inj(t) /\ r.uid \notin UidsOf(t)
      BY <1>1, <1>4, <2>1, <2>2, UidsTail DEF HandleMsg, Distinct
    <2>5. r.uid \notin UidsOf(toSip) /\ r.uid \notin UidsOf(calls)
      BY <2>4 DEF Distinct
    <2>6. CASE toSip' = toSip
      BY <2>3, <2>4, <2>6 DEF Distinct
    <2>7. CASE toSip' = Append(toSip, r)
      <3>1. Inj(toSip') /\ UidsOf(toSip') = UidsOf(toSip) \cup {r.uid}
        BY <1>1, <2>5, <2>7, UidsAppend DEF Distinct
      <3> QED
        BY <2>3, <2>4, <2>5, <3>1 DEF Distinct
    <2> QED
      BY <2>3, <2>6, <2>7
  <1>5. ASSUME toSip # <<>>, toSip' = Tail(toSip), sipQ' = sipQ,
               UidsOf(calls') = UidsOf(calls), Inj(calls')
        PROVE  Distinct'
    <2>1. UidsOf(toSip') \subseteq UidsOf(toSip) /\ Inj(toSip')
      BY <1>1, <1>5, UidsTail DEF Distinct
    <2> QED
      BY <1>5, <2>1 DEF Distinct
  <1>6. CASE BuildInviteFails
    BY <1>5, <1>6 DEF BuildInviteFails, sip, Distinct
  <1>7. CASE SendAckBroadCast \/ SendCallBye
    <2>1. IndInv' /\ Grows
      BY <1>7, DialogStep
    <2>2. CallNos' = CallNos
      BY <1>1, <1>7 DEF SendAckBroadCast, SendCallBye, CallNos
    <2>3. UidsOf(calls') = UidsOf(calls) /\ Inj(calls')
      BY <2>1, <2>2, UidsSame DEF IndInv, Queues, Grows, Distinct
    <2> QED
      BY <1>5, <1>7, <2>3 DEF SendAckBroadCast, SendCallBye
  <1>8. ASSUME NEW n \in CallIds, NEW sent \in BOOLEAN, SendInviteBroadCast(n, sent) PROVE Distinct'
    <2>1. toSip # <<>> /\ toSip' = Tail(toSip) /\ sipQ' = sipQ
      BY <1>8 DEF SendInviteBroadCast
    <2>2. PICK x : x = [number |-> n, uid |-> Head(toSip).uid, state |-> IF sent THEN "inviting" ELSE "over"]
      OBVIOUS
    <2>3. calls' = Append(calls, x) /\ x.uid = Head(toSip).uid
      BY <1>8, <2>2 DEF SendInviteBroadCast
    <2>4. x \in GoodCall
      BY <1>1, <2>1, <2>2, Taken DEF GoodRequest, Request, GoodCall, Call
    <2>5. /\ UidsOf(toSip') \subseteq UidsOf(toSip) /\ x.uid \in UidsOf(toSip)
          /\ Inj(toSip') /\ x.uid \notin UidsOf(toSip')
      BY <1>1, <2>1, <2>3, UidsTail DEF Distinct
    <2>6. x.uid \notin UidsOf(sipQ) /\ x.uid \notin UidsOf(calls)
      BY <2>5 DEF Distinct
    <2>7. Inj(calls') /\ UidsOf(calls') = UidsOf(calls) \cup {x.uid}
      BY <1>1, <2>3, <2>4, <2>6, UidsAppend DEF Distinct
    <2> QED
      BY <2>1, <2>5, <2>6, <2>7 DEF Distinct
  <1>9. ASSUME NEW c \in CallNos, LowerAnswers(c) \/ LowerRefuses(c) \/ LowerBye(c) PROVE Distinct'
    <2>1. IndInv' /\ Grows
      BY <1>9, LowerStep
    <2>2. CallNos' = CallNos /\ UNCHANGED <<sipQ, toSip>>
      BY <1>1, <1>9 DEF LowerAnswers, LowerRefuses, LowerBye, CallNos
    <2>3. UidsOf(calls') = UidsOf(calls) /\ Inj(calls')
      BY <2>1, <2>2, UidsSame DEF IndInv, Queues, Grows, Distinct
    <2> QED
      BY <2>2, <2>3 DEF Distinct
  <1>10. CASE \/ (\E u \in 0 .. MaxReq : SaveSession(u)) \/ HandleInviteResponse \/ HandleBye
              \/ PopBlock \/ RecvInviteResponse \/ RecvBye \/ OnHusInviteRes \/ UNCHANGED vars
    <2>1. UNCHANGED <<sipQ, toSip, calls>>
      BY <1>10 DEF SaveSession, HandleInviteResponse, HandleBye, PopBlock, RecvInviteResponse, RecvBye,
                   OnHusInviteRes, vars, sip
    <2> QED
      BY <2>1 DEF Distinct
  <1> QED
    BY <1>3, <1>4, <1>6, <1>7, <1>8, <1>9, <1>10 DEF Next

-----------------------------------------------------------------------------
(* HusCalls implements CallDesk.  A call's fate, by the places its answer   *)
(* can be in.                                                               *)
Fates == [c \in CallNos |-> FateOf(c)]
Coming(c) == E(c) # {} \/ B(c) # {} \/ H(c) # {} \/ M(c) # {}
FateIn(c) ==
    IF ~Steady(c) THEN "adrift"
    ELSE IF calls[c].state = "inviting" THEN "asked"
    ELSE IF R(c) # {} THEN "told"
    ELSE IF Gone(c) THEN "lost"
    ELSE IF Coming(c) THEN "coming"
    ELSE "failed"
DeskInv == IndInv /\ Placed /\ Distinct

(* The queues' elements that make a fate are the ones the places count.    *)
LEMMA FatesAreIn == TypeOK => \A d \in CallNos : FateOf(d) = FateIn(d)
  <1> SUFFICES ASSUME TypeOK, NEW d \in CallNos PROVE FateOf(d) = FateIn(d)
    OBVIOUS
  <1>1. E(d) = EventOf(d) /\ B(d) = BlockOf(d) /\ H(d) = HeldOf(d) /\ M(d) = MessageOf(d) /\ R(d) = ReplyOf(d)
    BY PlacesAre
  <1> QED
    BY <1>1 DEF FateOf, FateIn, Coming, Gone, Steady

(* The same on both sides of a step.                                       *)
LEMMA FateThenAndNow ==
    ASSUME IndInv, IndInv'
    PROVE  /\ \A c \in CallNos : FateOf(c) = FateIn(c)
           /\ \A c \in CallNos' : FateOf(c)' = FateIn(c)'
  <1>1. TypeOK /\ TypeOK'
    BY IndInvType, PTL
  <1>2. \A c \in CallNos : FateOf(c) = FateIn(c)
    BY <1>1, FatesAreIn
  <1>3. (TypeOK => \A d \in CallNos : FateOf(d) = FateIn(d))'
    BY FatesAreIn, PTL
  <1> QED
    BY <1>1, <1>2, <1>3

(* A late read that did not concern a call leaves it as it is.             *)
LEMMA SteadySame ==
    ASSUME IndInv, Grows, NEW c \in CallNos,
           c \in mixed' <=> c \in mixed, calls[c].uid \in misfiled' <=> calls[c].uid \in misfiled
    PROVE  Steady(c)' <=> Steady(c)
  <1>1. (OwnKey(c)' <=> OwnKey(c)) /\ calls'[c].uid = calls[c].uid
    BY CallKept
  <1>2. Intact(c)' <=> Intact(c)
    BY <1>1 DEF Intact
  <1> QED
    BY <1>1, <1>2 DEF Steady

(* What a fate depends on.                                                 *)
LEMMA SameFate ==
    ASSUME IndInv, IndInv', NEW c \in CallNos, c \in CallNos', Steady(c)' <=> Steady(c),
           Steady(c)' => /\ (calls'[c].state = "inviting" <=> calls[c].state = "inviting")
                         /\ (R(c)' = {} <=> R(c) = {})
                         /\ (Gone(c)' <=> Gone(c))
                         /\ (Coming(c)' <=> Coming(c))
    PROVE  FateOf(c)' = FateOf(c)
  <1>1. FateIn(c)' = FateIn(c)
    BY DEF FateIn
  <1> QED
    BY <1>1, FateThenAndNow

(* Owners and fates after a step that makes no call.                       *)
LEMMA DeskMove ==
    ASSUME IndInv, Grows, CallNos' = CallNos
    PROVE  /\ Owner' = Owner /\ DOMAIN Owner = CallNos /\ \A c \in CallNos : Owner[c] = asker[calls[c].uid]
           /\ DOMAIN Fates = CallNos /\ \A c \in CallNos : Fates[c] = FateOf(c)
           /\ Fates' = [d \in CallNos |-> FateOf(d)']
  <1>1. \A c \in CallNos : asker'[calls'[c].uid] = asker[calls[c].uid]
    BY CallKept
  <1>2. Owner' = Owner
    BY <1>1 DEF Owner
  <1>3. Fates' = [d \in CallNos |-> FateOf(d)']
    BY DEF Fates
  <1> QED
    BY <1>2, <1>3 DEF Owner, Fates

(* A step that leaves every call its fate, and tells nobody.               *)
LEMMA DeskStutter ==
    ASSUME IndInv, Grows, CallNos' = CallNos, replies' = replies,
           \A c \in CallNos : FateOf(c)' = FateOf(c)
    PROVE  UNCHANGED Desk!deskVars
  <1>1. Owner' = Owner
    BY DeskMove
  <1>2. Fates' = Fates
    BY DEF Fates
  <1> QED
    BY <1>1, <1>2 DEF Desk!deskVars, Fates

(* A step that changes one fate.                                           *)
LEMMA DeskOne ==
    ASSUME IndInv, Grows, CallNos' = CallNos, NEW c \in CallNos,
           \A d \in CallNos : d # c => FateOf(d)' = FateOf(d)
    PROVE  /\ Owner' = Owner /\ Fates' = [Fates EXCEPT ![c] = FateOf(c)'] /\ Fates[c] = FateOf(c)
           /\ c \in DOMAIN Owner /\ Owner[c] = asker[calls[c].uid]
  <1>1. /\ Owner' = Owner /\ c \in DOMAIN Owner /\ Owner[c] = asker[calls[c].uid] /\ Fates[c] = FateOf(c)
        /\ Fates' = [d \in CallNos |-> FateOf(d)']
    BY DeskMove
  <1>2. Fates = [d \in CallNos |-> FateOf(d)]
    BY DEF Fates
  <1> HIDE DEF Fates
  <1>3. Fates' = [Fates EXCEPT ![c] = FateOf(c)']
    BY <1>1, <1>2
  <1> QED
    BY <1>1, <1>3

(* A step that sets two calls adrift.                                      *)
LEMMA DeskDrift ==
    ASSUME IndInv, Grows, CallNos' = CallNos, replies' = replies, NEW c \in CallNos, NEW d \in CallNos,
           FateOf(c)' = "adrift", FateOf(d)' = "adrift",
           \A x \in CallNos \ {c, d} : FateOf(x)' = FateOf(x)
    PROVE  Desk!Next
  <1>1. Owner' = Owner /\ DOMAIN Owner = CallNos /\ Fates' = [x \in CallNos |-> FateOf(x)']
    BY DeskMove
  <1>2. Fates = [x \in CallNos |-> FateOf(x)]
    BY DEF Fates
  <1> HIDE DEF Fates
  <1>3. Fates' = [Fates EXCEPT ![c] = "adrift", ![d] = "adrift"]
    BY <1>1, <1>2
  <1> QED
    BY <1>1, <1>3 DEF Desk!Next, Desk!Drift, Fates

(* Requests and the dialog's later life leave every answer where it is.    *)
LEMMA QuietSteps ==
    ASSUME IndInv, IndInv', Grows, CallNos' = CallNos,
           UNCHANGED <<misfiled, events, toApp, held, mixed, adaptorQ, replies, lost, dropped>>,
           \A c \in CallNos : calls'[c].state = "inviting" <=> calls[c].state = "inviting"
    PROVE  UNCHANGED Desk!deskVars
  <1>1. ASSUME NEW c \in CallNos PROVE FateOf(c)' = FateOf(c)
    <2>1. R(c)' = R(c) /\ (Coming(c)' <=> Coming(c)) /\ (Gone(c)' <=> Gone(c))
      BY DEF E, B, H, M, R, Coming, Gone
    <2>2. Steady(c)' <=> Steady(c)
      BY <1>1, SteadySame
    <2> QED
      BY <1>1, <2>1, <2>2, SameFate
  <1> QED
    BY <1>1, DeskStutter

(* SaveSession sets adrift the call of the request it was called for and   *)
(* that of the id it found, if there are such calls.                       *)
LEMMA SaveDrifts ==
    ASSUME DeskInv, IndInv', Grows, NEW u \in 0 .. MaxReq, SaveSession(u)
    PROVE  Desk!Next \/ UNCHANGED Desk!deskVars
  <1>1. /\ UNCHANGED <<calls, events, toApp, held, mixed, adaptorQ, replies, lost, dropped>>
        /\ CallNos' = CallNos /\ misfiled' \subseteq misfiled \cup {saving, u} /\ IndInv
    BY DEF SaveSession, sip, app, CallNos, DeskInv
  <1>2. ASSUME NEW c \in CallNos, Steady(c)' <=> Steady(c) PROVE FateOf(c)' = FateOf(c)
    <2>1. R(c)' = R(c) /\ (Coming(c)' <=> Coming(c)) /\ (Gone(c)' <=> Gone(c))
      BY <1>1 DEF E, B, H, M, R, Coming, Gone
    <2> QED
      BY <1>1, <1>2, <2>1, SameFate
  <1>3. ASSUME NEW c \in CallNos, FateOf(c)' # FateOf(c)
        PROVE  calls[c].uid \in {saving, u} /\ FateOf(c)' = "adrift"
    <2>1. ~(Steady(c)' <=> Steady(c))
      BY <1>2, <1>3
    <2>2. Steady(c)' => Steady(c)
      BY <1>1, <1>3, CallKept
    <2>3. ~Steady(c)'
      BY <2>1, <2>2
    <2>4. FateIn(c)' = "adrift"
      BY <2>3 DEF FateIn
    <2>5. FateOf(c)' = "adrift"
      BY <1>1, <1>3, <2>4, FateThenAndNow
    <2>6. misfiled \subseteq misfiled'
      BY DEF Grows
    <2>7. calls[c].uid \in {saving, u}
      BY <1>1, <1>3, <2>1, <2>6, SteadySame
    <2> QED
      BY <2>5, <2>7
  <1>4. \A c, d \in CallNos : calls[c].uid = calls[d].uid => c = d
    BY DEF DeskInv, Distinct, Inj, CallNos
  <1>5. CASE \A c \in CallNos : FateOf(c)' = FateOf(c)
    BY <1>1, <1>5, DeskStutter
  <1>6. CASE \E c \in CallNos : FateOf(c)' # FateOf(c)
    <2>1. PICK c \in CallNos : FateOf(c)' # FateOf(c)
      BY <1>6
    <2>2. PICK d \in CallNos : /\ FateOf(d)' # FateOf(d)
                               /\ \A x \in CallNos \ {c, d} : FateOf(x)' = FateOf(x)
      <3>1. CASE \E d \in CallNos \ {c} : FateOf(d)' # FateOf(d)
        <4>1. PICK d \in CallNos \ {c} : FateOf(d)' # FateOf(d)
          BY <3>1
        <4>2. ASSUME NEW x \in CallNos \ {c, d} PROVE FateOf(x)' = FateOf(x)
          <5>1. calls[c].uid \in {saving, u} /\ calls[d].uid \in {saving, u} /\ calls[c].uid # calls[d].uid
            BY <1>3, <1>4, <2>1, <4>1
          <5>2. calls[x].uid # calls[c].uid /\ calls[x].uid # calls[d].uid
            BY <1>4, <4>1, <4>2
          <5>3. calls[x].uid \notin {saving, u}
            BY <5>1, <5>2
          <5> QED
            BY <1>3, <4>2, <5>3
        <4> QED
          BY <4>1, <4>2
      <3>2. CASE \A d \in CallNos \ {c} : FateOf(d)' = FateOf(d)
        BY <2>1, <3>2
      <3> QED
        BY <3>1, <3>2
    <2>3. FateOf(c)' = "adrift" /\ FateOf(d)' = "adrift"
      BY <1>3, <2>1, <2>2
    <2> QED
      BY <1>1, <2>2, <2>3, DeskDrift
  <1> QED
    BY <1>5, <1>6

(* An INVITE that is sent, or fails as it is, is a new call of its asker.  *)
LEMMA InvitePlaces ==
    ASSUME IndInv, IndInv', Grows, NEW n \in CallIds, NEW sent \in BOOLEAN, SendInviteBroadCast(n, sent)
    PROVE  Desk!Next
  <1>1. PICK x : /\ calls' = Append(calls, x) /\ x.uid = Head(toSip).uid
                 /\ x.state = IF sent THEN "inviting" ELSE "over"
    BY DEF SendInviteBroadCast
  <1>2. /\ UNCHANGED <<misfiled, events, toApp, held, mixed, adaptorQ, replies, lost, dropped, asker>>
        /\ toSip # <<>>
    BY DEF SendInviteBroadCast, tcp, app
  <1>3. PICK L \in Nat : L = Len(calls)
    BY DEF IndInv, Queues
  <1>4. calls \in Seq(GoodCall)
    BY DEF IndInv, Queues
  <1>5. /\ CallNos = 1 .. L /\ CallNos' = 1 .. (L + 1) /\ calls'[L + 1] = x
        /\ \A c \in CallNos : calls'[c] = calls[c] /\ c \in CallNos'
    BY <1>1, <1>3, <1>4 DEF CallNos
  <1>6. \A c : E(c)' = E(c) /\ B(c)' = B(c) /\ H(c)' = H(c) /\ M(c)' = M(c) /\ R(c)' = R(c)
               /\ (Coming(c)' <=> Coming(c)) /\ (Gone(c)' <=> Gone(c))
    BY <1>2 DEF E, B, H, M, R, Coming, Gone
  <1>7. ASSUME NEW c \in CallNos PROVE FateOf(c)' = FateOf(c)
    <2>1. Steady(c)' <=> Steady(c)
      BY <1>2, <1>7, SteadySame
    <2> QED
      BY <1>5, <1>6, <1>7, <2>1, SameFate
  <1>8. PICK how \in {"asked", "failed", "adrift"} : how = FateOf(L + 1)'
    <2>1. Nowhere(L + 1) /\ L + 1 \in CallNos'
      BY <1>3, <1>5, UnknownNowhere
    <2>2. FateIn(L + 1)' \in {"asked", "failed", "adrift"}
      BY <1>6, <2>1 DEF FateIn, Nowhere, Coming
    <2> QED
      BY <2>1, <2>2, FateThenAndNow
  <1>9. PICK k \in Clients : k = asker[x.uid]
    <2>1. Head(toSip) \in GoodRequest
      BY <1>2, Taken DEF IndInv, Queues
    <2> QED
      BY <1>1, <2>1 DEF GoodRequest, IndInv, Sockets, Uids
  <1>10. Owner' = Append(Owner, k)
    <2>1. Owner = [c \in 1 .. L |-> asker[calls[c].uid]]
      BY <1>5 DEF Owner
    <2>2. Owner' = [c \in 1 .. (L + 1) |-> asker'[calls'[c].uid]]
      BY <1>5 DEF Owner
    <2>3. Owner' = [c \in 1 .. (L + 1) |-> IF c = L + 1 THEN k ELSE asker[calls[c].uid]]
      BY <1>2, <1>5, <1>9, <2>2
    <2> QED
      BY <1>3, <2>1, <2>3
  <1>11. Fates' = Append(Fates, how)
    <2>1. Fates = [c \in 1 .. L |-> FateOf(c)]
      BY <1>5 DEF Fates
    <2>2. Fates' = [c \in 1 .. (L + 1) |-> FateOf(c)']
      BY <1>5 DEF Fates
    <2>3. Fates' = [c \in 1 .. (L + 1) |-> IF c = L + 1 THEN how ELSE FateOf(c)]
      BY <1>5, <1>7, <1>8, <2>2
    <2> QED
      BY <1>3, <2>1, <2>3
  <1> QED
    BY <1>2, <1>10, <1>11 DEF Desk!Next, Desk!Place, Fates

(* The lower domain decides on a call: it answers, refuses or ends it.  A   *)
(* call that is adrift stays adrift.                                        *)
LEMMA LowerDecides ==
    ASSUME DeskInv, IndInv', Grows, NEW c \in CallNos, LowerAnswers(c) \/ LowerRefuses(c) \/ LowerBye(c)
    PROVE  Desk!Next \/ UNCHANGED Desk!deskVars
  <1>1. /\ UNCHANGED <<misfiled, mixed, toApp, held, adaptorQ, replies, lost, dropped, uniqueIDs>>
        /\ UNCHANGED tcp /\ IndInv /\ Placed
    BY DEF LowerAnswers, LowerRefuses, LowerBye, tcp, app, DeskInv
  <1>2. PICK st \in {"answered", "over"} : calls' = [calls EXCEPT ![c].state = st]
    BY DEF LowerAnswers, LowerRefuses, LowerBye
  <1>3. /\ CallNos' = CallNos /\ calls'[c].state = st
        /\ \A d \in CallNos : d # c => calls'[d] = calls[d]
    BY <1>1, <1>2, StateChange
  <1>4. ASSUME NEW d \in CallNos PROVE Steady(d)' <=> Steady(d)
    BY <1>1, <1>4, SteadySame
  <1>5. \A d : B(d)' = B(d) /\ H(d)' = H(d) /\ M(d)' = M(d) /\ R(d)' = R(d) /\ (Gone(d)' <=> Gone(d))
    BY <1>1 DEF B, H, M, R, Gone
  <1>6. \A d \in CallNos : d # c \/ ~LowerAnswers(c) => E(d)' = E(d)
    <2>1. CASE LowerRefuses(c)
      BY <2>1 DEF LowerRefuses, E
    <2>2. CASE LowerAnswers(c) \/ LowerBye(c)
      BY <1>1, <2>2, LowerPlaces
    <2> QED
      BY <2>1, <2>2
  <1>7. ASSUME NEW d \in CallNos, d # c PROVE FateOf(d)' = FateOf(d)
    <2>1. Coming(d)' <=> Coming(d)
      BY <1>5, <1>6, <1>7 DEF Coming
    <2> QED
      BY <1>1, <1>3, <1>4, <1>5, <1>7, <2>1, SameFate
  <1>8. FateOf(c) = FateIn(c) /\ FateOf(c)' = FateIn(c)'
    BY <1>1, <1>3, FateThenAndNow
  <1>9. CASE ~Steady(c)
    <2>1. FateOf(c)' = FateOf(c)
      BY <1>4, <1>8, <1>9 DEF FateIn
    <2>2. \A d \in CallNos : FateOf(d)' = FateOf(d)
      BY <1>7, <2>1
    <2> QED
      BY <1>1, <1>3, <2>2, DeskStutter
  <1>10. ASSUME Steady(c), calls[c].state = "inviting" PROVE Nowhere(c)
    BY <1>1, <1>10 DEF Placed, Sound, Steady, Intact
  <1>11. CASE Steady(c) /\ LowerRefuses(c)
    <2>1. calls[c].state = "inviting" /\ Nowhere(c) /\ E(c)' = E(c)
      BY <1>6, <1>10, <1>11 DEF LowerRefuses, LowerAnswers
    <2>2. FateOf(c) = "asked" /\ FateOf(c)' = "failed"
      BY <1>3, <1>4, <1>5, <1>8, <1>11, <2>1 DEF FateIn, Nowhere, Coming
    <2>3. Owner' = Owner /\ Fates' = [Fates EXCEPT ![c] = "failed"] /\ Fates[c] = "asked" /\ c \in DOMAIN Owner
      BY <1>1, <1>3, <1>7, <2>2, DeskOne
    <2> QED
      BY <1>1, <2>3 DEF Desk!Next, Desk!Refuse, Desk!Becomes, Fates
  <1>12. CASE Steady(c) /\ LowerAnswers(c)
    <2>1. calls[c].state = "inviting" /\ Nowhere(c)
      BY <1>10, <1>12 DEF LowerAnswers
    <2>2. E(c)' # {}
      BY <1>1, <1>12, LowerPlaces
    <2>3. FateOf(c) = "asked" /\ FateOf(c)' = "coming"
      BY <1>3, <1>4, <1>5, <1>8, <1>12, <2>1, <2>2 DEF FateIn, Nowhere, Coming
    <2>4. Owner' = Owner /\ Fates' = [Fates EXCEPT ![c] = "coming"] /\ Fates[c] = "asked" /\ c \in DOMAIN Owner
      BY <1>1, <1>3, <1>7, <2>3, DeskOne
    <2> QED
      BY <1>1, <2>4 DEF Desk!Next, Desk!Answer, Desk!Becomes, Fates
  <1>13. CASE LowerBye(c)
    <2>1. calls[c].state # "inviting" /\ ~LowerAnswers(c)
      BY <1>13 DEF LowerBye, LowerAnswers, InDialog
    <2>2. Coming(c)' <=> Coming(c)
      BY <1>5, <1>6, <2>1 DEF Coming
    <2>3. FateOf(c)' = FateOf(c)
      BY <1>1, <1>3, <1>4, <1>5, <2>1, <2>2, SameFate
    <2>4. \A d \in CallNos : FateOf(d)' = FateOf(d)
      BY <1>7, <2>3
    <2> QED
      BY <1>1, <1>3, <2>4, DeskStutter
  <1> QED
    BY <1>9, <1>11, <1>12, <1>13

(* From eXosip's events into Sipcom_to_App, where the answer is still on    *)
(* its way, or dropped.  A block that is overwritten while HandleShared     *)
(* reads it sets two calls adrift.                                          *)
LEMMA ResponseDecides ==
    ASSUME DeskInv, IndInv', Grows, HandleInviteResponse \/ HandleBye
    PROVE  Desk!Next \/ UNCHANGED Desk!deskVars
  <1>1. IndInv /\ Placed
    BY DEF DeskInv
  <1>2. UNCHANGED <<calls, uniqueIDs, asker, misfiled, adaptorQ, replies, lost>> /\ CallNos' = CallNos
    BY <1>1, ResponsePlaces DEF CallNos
  <1>3. PICK x, y \in CallNos : mixed' \in {mixed, mixed \cup {x, y}}
    BY <1>1, ResponsePlaces
  <1>4. ASSUME NEW d \in CallNos, d \in mixed' <=> d \in mixed PROVE Steady(d)' <=> Steady(d)
    BY <1>1, <1>2, <1>4, SteadySame
  <1>5. \A d : M(d)' = M(d) /\ R(d)' = R(d)
    BY <1>2 DEF M, R
  <1>6. \A d \in CallNos : FateOf(d) = FateIn(d) /\ FateOf(d)' = FateIn(d)'
    BY <1>1, <1>2, FateThenAndNow
  <1>7. ASSUME NEW d \in CallNos, Steady(d)
        PROVE  OnePlace(d) /\ (calls[d].state = "inviting" => Nowhere(d))
    BY <1>1, <1>7 DEF Placed, Sound, Steady, Intact
  <1>8. ASSUME NEW d \in CallNos, d \in mixed' <=> d \in mixed, ~FindsFull(d)
        PROVE  FateOf(d)' = FateOf(d)
    <2>1. CASE ~Steady(d)
      BY <1>4, <1>6, <1>8, <2>1 DEF FateIn
    <2>2. CASE Steady(d)
      <3>1. d \notin mixed' /\ H(d)' = H(d) /\ (Waits(d) \/ Enters(d))
        BY <1>1, <1>8, <2>2, ResponsePlaces DEF Steady, Intact
      <3>2. (Gone(d)' <=> Gone(d)) /\ (Coming(d)' <=> Coming(d))
        <4>1. CASE Waits(d)
          BY <1>2, <1>5, <3>1, <4>1 DEF Waits, Gone, Coming
        <4>2. CASE Enters(d)
          BY <1>2, <4>2 DEF Enters, Leaves, Gone, Coming
        <4> QED
          BY <3>1, <4>1, <4>2
      <3> QED
        BY <1>1, <1>2, <1>4, <1>5, <1>8, <3>2, SameFate
    <2> QED
      BY <2>1, <2>2
  <1>9. CASE mixed' = mixed /\ \A d \in CallNos : ~(FindsFull(d) /\ Steady(d))
    <2>1. ASSUME NEW d \in CallNos PROVE FateOf(d)' = FateOf(d)
      <3>1. CASE ~Steady(d)
        BY <1>4, <1>6, <1>9, <3>1 DEF FateIn
      <3> QED
        BY <1>8, <1>9, <3>1
    <2> QED
      BY <1>1, <1>2, <2>1, DeskStutter
  <1>10. CASE \E d \in CallNos : FindsFull(d) /\ Steady(d)
    <2>1. PICK c \in CallNos : FindsFull(c) /\ Steady(c)
      BY <1>10
    <2>2. /\ E(c) # {} /\ E(c)' = {} /\ R(c) = {} /\ ~Gone(c) /\ Gone(c)' /\ calls[c].state # "inviting"
          /\ mixed' = mixed /\ dropped' = dropped \cup {c}
      BY <1>7, <2>1 DEF OnePlace, Nowhere, FindsFull, Leaves, Gone
    <2>3. ASSUME NEW d \in CallNos, d # c PROVE FateOf(d)' = FateOf(d)
      <3>1. FindsFull(d) => d \in dropped
        BY <2>2, <2>3 DEF FindsFull
      <3>2. CASE FindsFull(d) /\ Steady(d)
        BY <1>7, <3>1, <3>2 DEF OnePlace, FindsFull, Leaves, Gone
      <3>3. CASE ~Steady(d)
        BY <1>4, <1>6, <2>2, <3>3 DEF FateIn
      <3> QED
        BY <1>8, <2>2, <3>2, <3>3
    <2>4. FateOf(c) = "coming" /\ FateOf(c)' = "lost"
      BY <1>2, <1>4, <1>5, <1>6, <2>1, <2>2 DEF FateIn, Coming
    <2>5. Owner' = Owner /\ Fates' = [Fates EXCEPT ![c] = "lost"] /\ Fates[c] = "coming" /\ c \in DOMAIN Owner
      BY <1>1, <1>2, <2>3, <2>4, DeskOne
    <2> QED
      BY <1>2, <2>5 DEF Desk!Next, Desk!Lose, Desk!Becomes, Fates
  <1>11. CASE mixed' # mixed
    <2>1. mixed' = mixed \cup {x, y}
      BY <1>3, <1>11
    <2>2. ~Steady(x)' /\ ~Steady(y)'
      BY <2>1 DEF Steady, Intact
    <2>3. FateOf(x)' = "adrift" /\ FateOf(y)' = "adrift"
      BY <1>6, <2>2 DEF FateIn
    <2>4. ASSUME NEW d \in CallNos \ {x, y} PROVE FateOf(d)' = FateOf(d)
      <3>1. (d \in mixed' <=> d \in mixed) /\ ~FindsFull(d)
        BY <1>11, <2>1, <2>4 DEF FindsFull
      <3> QED
        BY <1>8, <2>4, <3>1
    <2> QED
      BY <1>1, <1>2, <2>3, <2>4, DeskDrift
  <1> QED
    BY <1>9, <1>10, <1>11

(* Out of Sipcom_to_App into the adaptor's queue: still on its way.        *)
LEMMA SharedKeeps ==
    ASSUME IndInv, IndInv', Grows, PopBlock \/ RecvInviteResponse \/ RecvBye
    PROVE  UNCHANGED Desk!deskVars
  <1>1. /\ UNCHANGED <<calls, misfiled, mixed, events, replies, lost, dropped>> /\ CallNos' = CallNos
    BY SharedPlaces DEF CallNos
  <1>2. ASSUME NEW d \in CallNos PROVE FateOf(d)' = FateOf(d)
    <2>1. Steady(d)' <=> Steady(d)
      BY <1>1, <1>2, SteadySame
    <2>2. E(d)' = E(d) /\ R(d)' = R(d) /\ (Gone(d)' <=> Gone(d))
      BY <1>1 DEF E, R, Gone
    <2>3. Untouched(d) \/ TakenOff(d) \/ HandedOn(d)
      BY <1>2, SharedPlaces
    <2>4. Coming(d)' <=> Coming(d)
      BY <2>2, <2>3 DEF Coming, Untouched, TakenOff, HandedOn
    <2> QED
      BY <1>1, <1>2, <2>1, <2>2, <2>4, SameFate
  <1> QED
    BY <1>1, <1>2, DeskStutter

(* OnHusInviteRes tells the call's owner or loses the answer; an answer to  *)
(* a call that is adrift it tells to anybody.                               *)
LEMMA ReplyDecides ==
    ASSUME DeskInv, IndInv', Grows, OnHusInviteRes
    PROVE  Desk!Next \/ UNCHANGED Desk!deskVars
  <1>1. IndInv /\ Placed
    BY DEF DeskInv
  <1>2. /\ UNCHANGED <<calls, misfiled, mixed, events, toApp, held, dropped>> /\ CallNos' = CallNos
    BY <1>1, ReplyPlaces DEF CallNos
  <1>3. PICK c \in CallNos :
          /\ \A d \in CallNos : d # c => Queued(d)
          /\ \/ Written(c) /\ \E p \in GoodReply : p.call = c /\ replies' = Append(replies, p)
             \/ Unsaved(c) /\ replies' = replies
    BY <1>1, ReplyPlaces
  <1>4. ASSUME NEW d \in CallNos PROVE Steady(d)' <=> Steady(d)
    BY <1>1, <1>2, <1>4, SteadySame
  <1>5. \A d : E(d)' = E(d) /\ B(d)' = B(d) /\ H(d)' = H(d)
    BY <1>2 DEF E, B, H
  <1>6. ASSUME NEW d \in CallNos, d # c PROVE FateOf(d)' = FateOf(d)
    <2>1. Queued(d)
      BY <1>3, <1>6
    <2>2. R(d)' = R(d) /\ (Gone(d)' <=> Gone(d)) /\ (Coming(d)' <=> Coming(d))
      BY <1>2, <1>5, <2>1 DEF Queued, Gone, Coming
    <2> QED
      BY <1>1, <1>2, <1>4, <1>6, <2>2, SameFate
  <1>7. FateOf(c) = FateIn(c) /\ FateOf(c)' = FateIn(c)'
    BY <1>1, <1>2, FateThenAndNow
  <1>8. CASE ~Steady(c)
    <2>1. FateOf(c) = "adrift" /\ FateOf(c)' = "adrift"
      BY <1>4, <1>7, <1>8 DEF FateIn
    <2>2. \A d \in CallNos : FateOf(d)' = FateOf(d)
      BY <1>6, <2>1
    <2>3. CASE replies' = replies
      BY <1>1, <1>2, <2>2, <2>3, DeskStutter
    <2>4. CASE \E p \in GoodReply : p.call = c /\ replies' = Append(replies, p)
      <3>1. PICK p \in GoodReply : p.call = c /\ replies' = Append(replies, p)
        BY <2>4
      <3>2. p = [call |-> c, to |-> p.to] /\ p.to \in Clients
        BY <3>1 DEF GoodReply, Reply
      <3>3. Owner' = Owner /\ c \in DOMAIN Owner /\ Fates[c] = "adrift"
        BY <1>1, <1>2, <2>1, DeskMove
      <3>4. Fates' = Fates
        BY <1>2, <2>2 DEF Fates
      <3>5. PICK k \in Clients : replies' = Append(replies, [call |-> c, to |-> k])
        BY <3>1, <3>2
      <3> QED
        BY <3>3, <3>4, <3>5 DEF Desk!Next, Desk!TellAdrift, Fates
    <2> QED
      BY <1>3, <2>3, <2>4
  <1>9. CASE Steady(c)
    <2>1. OnePlace(c) /\ (calls[c].state = "inviting" => Nowhere(c))
      BY <1>1, <1>9 DEF Placed, Sound, Steady, Intact
    <2>2. /\ M(c) # {} /\ M(c)' = {} /\ E(c) = {} /\ B(c) = {} /\ H(c) = {} /\ R(c) = {} /\ ~Gone(c)
          /\ calls[c].state # "inviting"
      BY <1>3, <2>1 DEF OnePlace, Nowhere, Written, Unsaved
    <2>3. FateOf(c) = "coming"
      BY <1>7, <1>9, <2>2 DEF FateIn, Coming
    <2>4. CASE Written(c) /\ \E p \in GoodReply : p.call = c /\ replies' = Append(replies, p)
      <3>1. PICK p \in GoodReply : p.call = c /\ replies' = Append(replies, p)
        BY <2>4
      <3>2. p = [call |-> c, to |-> asker[calls[c].uid]]
        BY <1>9, <3>1 DEF GoodReply, Reply
      <3>3. FateOf(c)' = "told"
        BY <1>2, <1>4, <1>7, <1>9, <2>2, <2>4 DEF FateIn, Written
      <3>4. /\ Owner' = Owner /\ Fates' = [Fates EXCEPT ![c] = "told"] /\ Fates[c] = "coming"
            /\ c \in DOMAIN Owner /\ Owner[c] = asker[calls[c].uid]
        BY <1>1, <1>2, <1>6, <2>3, <3>3, DeskOne
      <3> QED
        BY <3>1, <3>2, <3>4 DEF Desk!Next, Desk!Tell, Desk!Becomes, Fates
    <2>5. CASE Unsaved(c) /\ replies' = replies
      <3>1. FateOf(c)' = "lost"
        BY <1>2, <1>4, <1>7, <1>9, <2>2, <2>5 DEF FateIn, Unsaved, Gone
      <3>2. /\ Owner' = Owner /\ Fates' = [Fates EXCEPT ![c] = "lost"] /\ Fates[c] = "coming"
            /\ c \in DOMAIN Owner
        BY <1>1, <1>2, <1>6, <2>3, <3>1, DeskOne
      <3> QED
        BY <2>5, <3>2 DEF Desk!Next, Desk!Lose, Desk!Becomes, Fates
    <2> QED
      BY <1>3, <2>4, <2>5
  <1> QED
    BY <1>8, <1>9

(* The two processes' five threads are to their clients one desk: every    *)
(* step of SendInviteBroadCast, of the lower domain, of                    *)
(* HandleInviteResponse, of OnHusInviteRes and of SaveSession is a step of *)
(* CallDesk or invisible in it, and every other step is invisible.         *)
THEOREM ImplementsDesk == Spec => DeskSpec
  <1>1. Init => Desk!Init
    <2> SUFFICES ASSUME Init PROVE Desk!Init
      OBVIOUS
    <2>1. CallNos = {} /\ replies = <<>>
      BY DEF Init, CallNos
    <2> QED
      BY <2>1 DEF Desk!Init, Owner
  <1>2. Init => DeskInv
    <2>1. Init => Placed /\ Distinct
      BY DEF Init, Placed, CallNos, Distinct, Inj, UidsOf
    <2> QED
      BY <2>1, InitInd DEF DeskInv
  <1>3. DeskInv /\ [Next]_vars => DeskInv' /\ IndInv' /\ Grows
    BY NextInd, PlacedStep, DistinctStep DEF DeskInv
  <1>4. DeskInv /\ IndInv' /\ Grows /\ [Next]_vars => [Desk!Next]_(Desk!deskVars)
    <2> SUFFICES ASSUME DeskInv, IndInv', Grows, [Next]_vars
                 PROVE  Desk!Next \/ UNCHANGED Desk!deskVars
      OBVIOUS
    <2>0. IndInv
      BY DEF DeskInv
    <2>1. CASE \/ (\E k \in Clients, op \in Ops, c \in {0} \cup CallNos : RawDataHandleProc(k, op, c))
               \/ HandleMsg \/ BuildInviteFails \/ UNCHANGED vars
      <3>1. UNCHANGED <<misfiled, calls, events, toApp, held, mixed, adaptorQ, replies, lost, dropped>>
        BY <2>1 DEF RawDataHandleProc, HandleMsg, BuildInviteFails, vars, tcp, sip, app
      <3> QED
        BY <2>0, <3>1, QuietSteps DEF CallNos
    <2>2. CASE SendAckBroadCast \/ SendCallBye
      <3>1. /\ UNCHANGED <<misfiled, uniqueIDs, events, toApp, held, mixed, adaptorQ, replies, lost, dropped>>
            /\ UNCHANGED tcp
        BY <2>2 DEF SendAckBroadCast, SendCallBye, tcp, app
      <3>2. \/ calls' = calls
            \/ \E c \in CallNos, st \in {"confirmed", "over"} :
                 calls[c].state # "inviting" /\ calls' = [calls EXCEPT ![c].state = st]
        BY <2>2 DEF SendAckBroadCast, SendCallBye, InDialog
      <3>3. CASE calls' = calls
        BY <2>0, <3>1, <3>3, QuietSteps DEF CallNos
      <3>4. ASSUME NEW c \in CallNos, NEW st \in {"confirmed", "over"},
                   calls[c].state # "inviting", calls' = [calls EXCEPT ![c].state = st]
            PROVE  UNCHANGED Desk!deskVars
        <4>1. /\ CallNos' = CallNos /\ calls'[c].state = st
              /\ \A d \in CallNos : d # c => calls'[d] = calls[d]
          BY <2>0, <3>1, <3>4, StateChange
        <4> QED
          BY <2>0, <3>1, <3>4, <4>1, QuietSteps
      <3> QED
        BY <3>2, <3>3, <3>4
    <2> QED
      BY <2>0, <2>1, <2>2, SaveDrifts, InvitePlaces, LowerDecides, ResponseDecides, SharedKeeps,
         ReplyDecides DEF Next
  <1> QED
    BY <1>1, <1>2, <1>3, <1>4, PTL DEF Spec, DeskSpec, Desk!Spec
=============================================================================
