---------------------------- MODULE RecordSearch ----------------------------
(***************************************************************************)
(* The video record queries of CSDKCom, in the build with the 5.0 SDK.     *)
(* Three threads take part:                                                *)
(*   - SDKCom's message thread puts a query into m_VideoRecordMgr          *)
(*     (ProcRecordSearch);                                                 *)
(*   - the search thread (pfnSearchVideoRecordProc) looks at the head of   *)
(*     the queue without removing it, has a VideoRecordSearcher on its own *)
(*     stack search the site for it and waits for the finish event;        *)
(*   - the SDK's callback thread collects the records found (ReportResult) *)
(*     and answers the head of the queue once the search is complete       *)
(*     (HandleRecordSearchResult), ten records to a message.               *)
(* Late says whether the site may outlast WaitSearchFinish: the searcher   *)
(* is then gone, or another one stands in its place on the stack, when the *)
(* result arrives.  A search may fail in either case; nothing in the code  *)
(* handles that, so the wait runs out and the head is searched for again.  *)
(***************************************************************************)
EXTENDS Naturals, Sequences

CONSTANTS
    Query,      \* record queries, one CModMessage each
    Identity,   \* streamerid_to_search of each query (GUID_NULL for a DVR)
    MaxListLen, \* MAX_LIST_LEN, the records of one message
    RecordMax,  \* bound: records found for a query
    SlipMax,    \* bound: searches that outlast the wait
    Late        \* may a search outlast WaitSearchFinish?

ASSUME PageAssumption == MaxListLen \in Nat \ {0}
ASSUME BoundAssumption == RecordMax \in Nat /\ SlipMax \in Nat
ASSUME LateAssumption == Late \in BOOLEAN

VARIABLES
    asked,       \* queries SDKCom has received
    queue,       \* m_oUnifiedMsgList with the two GUID lists
    list,        \* m_oRecordList: each record stands for the query it was found for
    startEvent,  \* m_oStartEvent
    finishEvent, \* m_oFinishEvent
    pc,          \* where the search thread is
    cur,         \* its pUnifiedMsg, and the query its VideoRecordSearcher was set up for
    running,     \* searches under way at the site, by query
    answering,   \* the callback thread is in HandleRecordSearchResult
    pos,         \* tContext.posRecordMap, 0 for NULL
    surplus,     \* tContext.nSurplus
    out,         \* what SIPCOM has been sent for each query
    reported,    \* records inserted for each query
    slips,       \* searches that outlasted the wait
    fault        \* a null, freed or dead object has been used

site == <<running, slips>>
answer == <<answering, pos, surplus>>
vars == <<asked, queue, list, startEvent, finishEvent, pc, cur, site, answer, out, reported, fault>>

Nothing == [pages |-> 0, count |-> 0, from |-> {}, sums |-> {}, status |-> "open"]

Init ==
    /\ asked = {} /\ queue = <<>> /\ list = <<>>
    /\ startEvent = FALSE /\ finishEvent = FALSE
    /\ pc = "top" /\ cur \in Query
    /\ running = [q \in Query |-> 0] /\ slips = 0
    /\ answering = FALSE /\ pos = 0 /\ surplus = 0
    /\ out = [q \in Query |-> Nothing] /\ reported = [q \in Query |-> 0]
    /\ fault = FALSE

\* The message of q has been pushed to SIPCOM, which frees it once sent.
Pushed(q) == out[q].pages > 0

-----------------------------------------------------------------------------
(* SDKCom's message thread.                                                *)

\* A device id that ChannelLookup does not find: the message is freed, no answer.
UnknownDevice(q) ==
    /\ q \notin asked /\ asked' = asked \cup {q}
    /\ UNCHANGED <<queue, list, startEvent, finishEvent, pc, cur, site, answer, out, reported, fault>>

\* A start time that has not come yet: an empty answer at once.
FutureStart(q) ==
    /\ q \notin asked /\ asked' = asked \cup {q}
    /\ out' = [out EXCEPT ![q] = [pages |-> 1, count |-> 0, from |-> {}, sums |-> {0}, status |-> "sent"]]
    /\ UNCHANGED <<queue, list, startEvent, finishEvent, pc, cur, site, answer, reported, fault>>

\* SetSearchMessage and SetSearchStart.
QueueSearch(q) ==
    /\ q \notin asked /\ asked' = asked \cup {q}
    /\ queue' = Append(queue, q)
    /\ startEvent' = TRUE
    /\ UNCHANGED <<list, finishEvent, pc, cur, site, answer, out, reported, fault>>

ProcRecordSearch == \E q \in Query : UnknownDevice(q) \/ FutureStart(q) \/ QueueSearch(q)

-----------------------------------------------------------------------------
(* The search thread.                                                      *)

\* Mutant: the head is taken off the queue when its search begins.
GetSearchMessageRemoves ==
    /\ pc = "top" /\ queue # <<>>
    /\ cur' = Head(queue) /\ queue' = Tail(queue) /\ pc' = "got"
    /\ UNCHANGED <<asked, list, startEvent, finishEvent, site, answer, out, reported, fault>>

\* Mutant: the size of the queue is not looked at.
GetSearchMessageUnchecked ==
    /\ pc = "top"
    /\ cur' = (IF queue = <<>> THEN "null" ELSE Head(queue)) /\ pc' = "got"
    /\ UNCHANGED <<asked, queue, list, startEvent, finishEvent, site, answer, out, reported, fault>>

\* The head of the queue, which stays where it is.
GetSearchMessage ==
    /\ pc = "top" /\ queue # <<>>
    /\ cur' = Head(queue) /\ pc' = "got"
    /\ UNCHANGED <<asked, queue, list, startEvent, finishEvent, site, answer, out, reported, fault>>

GetNoMessage ==
    /\ pc = "top" /\ queue = <<>>
    /\ pc' = "waitStart"
    /\ UNCHANGED <<asked, queue, list, startEvent, finishEvent, cur, site, answer, out, reported, fault>>

\* The event or 208 ms, whichever comes first; the thread looks again either way.
WaitSearchStart ==
    /\ pc = "waitStart"
    /\ pc' = "top" /\ startEvent' = FALSE
    /\ UNCHANGED <<asked, queue, list, finishEvent, cur, site, answer, out, reported, fault>>

\* InitVideoSearch and SearchRecord, whose result is ignored: started says whether
\* RetrieveResult succeeded.  Reads the message obtained one step earlier.
SearchRecord(started) ==
    /\ pc = "got" /\ pc' = "waitFinish"
    /\ running' = [running EXCEPT ![cur] = IF started THEN @ + 1 ELSE @]
    /\ fault' = (fault \/ Pushed(cur))
    /\ UNCHANGED <<asked, queue, list, startEvent, finishEvent, cur, slips, answer, out, reported>>

WaitSearchFinish ==
    /\ pc = "waitFinish" /\ finishEvent
    /\ pc' = "top" /\ finishEvent' = FALSE
    /\ UNCHANGED <<asked, queue, list, startEvent, cur, site, answer, out, reported, fault>>

\* A search, or its answer, is still under way.
Busy == answering \/ \E q \in Query : running[q] > 0

\* Mutant: a wait shorter than the site may take, whatever Late says.
WaitTimesOutEarly ==
    /\ pc = "waitFinish" /\ ~finishEvent
    /\ Busy => slips < SlipMax
    /\ pc' = "top" /\ slips' = IF Busy THEN slips + 1 ELSE slips
    /\ UNCHANGED <<asked, queue, list, startEvent, finishEvent, cur, running, answer, out, reported, fault>>

\* The wait runs out: always once the search has failed, and before its end if Late.
WaitTimesOut ==
    /\ pc = "waitFinish" /\ ~finishEvent
    /\ Busy => Late /\ slips < SlipMax
    /\ pc' = "top" /\ slips' = IF Busy THEN slips + 1 ELSE slips
    /\ UNCHANGED <<asked, queue, list, startEvent, finishEvent, cur, running, answer, out, reported, fault>>

-----------------------------------------------------------------------------
(* The callback thread.                                                    *)

\* The outcomes of comparing the result's identity with streamerid_to_search.  The
\* searcher lives on the search thread's stack while that thread waits; later its
\* storage may hold anything.
Accepts(q) == IF pc = "waitFinish" THEN {Identity[q] = Identity[cur]} ELSE BOOLEAN

\* The callback dereferences the searcher and the head of the queue.
BadHead == queue = <<>> \/ Pushed(Head(queue))

\* SearchResultStatus_InProgress: addSingleRecord for a record found for q.
ReportRecord(q, accepted) ==
    /\ running[q] > 0 /\ ~answering /\ reported[q] < RecordMax
    /\ list' = IF accepted THEN Append(list, q) ELSE list
    /\ reported' = [reported EXCEPT ![q] = IF accepted THEN @ + 1 ELSE @]
    /\ fault' = (fault \/ pc # "waitFinish" \/ (accepted /\ BadHead))
    /\ UNCHANGED <<asked, queue, startEvent, finishEvent, pc, cur, site, answer, out>>

\* SearchResultStatus_Completed: the head of the queue is about to be answered.
ReportCompleted(q, accepted) ==
    /\ running[q] > 0 /\ ~answering
    /\ running' = [running EXCEPT ![q] = @ - 1]
    /\ answering' = (accepted /\ queue # <<>>)
    /\ pos' = 0 /\ surplus' = 0
    /\ fault' = (fault \/ pc # "waitFinish" \/ (accepted /\ BadHead))
    /\ UNCHANGED <<asked, queue, list, startEvent, finishEvent, pc, cur, slips, out, reported>>

\* Any other status, or none ever: nothing is done.
SearchFails(q) ==
    /\ running[q] > 0 /\ ~answering
    /\ running' = [running EXCEPT ![q] = @ - 1]
    /\ UNCHANGED <<asked, queue, list, startEvent, finishEvent, pc, cur, slips, answer, out, reported, fault>>

ReportResult ==
    \E q \in Query :
        \/ \E accepted \in Accepts(q) : ReportRecord(q, accepted) \/ ReportCompleted(q, accepted)
        \/ SearchFails(q)

\* Mutant: the last, partly filled message is forgotten.
PageCountFloor(n) == n \div MaxListLen

\* Messages that n records take, at first.
PageCount(n) == IF n % MaxListLen > 0 THEN n \div MaxListLen + 1 ELSE n \div MaxListLen

\* The context as GetCatalogBodyContent uses it: a NULL position starts anew.
Surplus == IF pos = 0 THEN PageCount(Len(list)) ELSE surplus
First == IF pos = 0 THEN 1 ELSE pos
Last == IF First + MaxListLen - 1 < Len(list) THEN First + MaxListLen - 1 ELSE Len(list)
Page == IF Surplus = 0 THEN {} ELSE First .. Last

\* The message pushed for q, its body holding the records of Page.
Push(q) == [out[q] EXCEPT !.pages = @ + 1,
                          !.count = IF Surplus = 0 THEN @ ELSE @ + (Last - First + 1),
                          !.from = @ \cup {list[i] : i \in Page},
                          !.sums = @ \cup {Len(list)}]

\* GetCatalogBodyContent returned a number above 0: more messages follow.
AnswerPage ==
    /\ answering /\ Surplus > 1
    /\ out' = [out EXCEPT ![Head(queue)] = Push(Head(queue))]
    /\ pos' = Last + 1 /\ surplus' = Surplus - 1
    /\ UNCHANGED <<asked, queue, list, startEvent, finishEvent, pc, cur, site, answering, reported, fault>>

\* Mutant: the records are not removed with the last message.
AnswerLastKeepsRecords ==
    /\ answering /\ Surplus <= 1
    /\ out' = [out EXCEPT ![Head(queue)] = [Push(Head(queue)) EXCEPT !.status = "sent"]]
    /\ queue' = Tail(queue) /\ finishEvent' = TRUE
    /\ answering' = FALSE /\ pos' = 0 /\ surplus' = 0
    /\ UNCHANGED <<asked, list, startEvent, pc, cur, site, reported, fault>>

\* It returned 0: RemoveAll, the last message, RemoveHeadSearchMessage and SetSearchFinish.
AnswerLast ==
    /\ answering /\ Surplus <= 1
    /\ out' = [out EXCEPT ![Head(queue)] = [Push(Head(queue)) EXCEPT !.status = "sent"]]
    /\ queue' = Tail(queue) /\ list' = <<>> /\ finishEvent' = TRUE
    /\ answering' = FALSE /\ pos' = 0 /\ surplus' = 0
    /\ UNCHANGED <<asked, startEvent, pc, cur, site, reported, fault>>

\* It returned -1, the body having outgrown its buffer: every record is freed and the
\* message is pushed as it is.
AnswerFails ==
    /\ answering
    /\ out' = [out EXCEPT ![Head(queue)].pages = @ + 1, ![Head(queue)].status = "broken"]
    /\ queue' = Tail(queue) /\ list' = <<>> /\ finishEvent' = TRUE
    /\ answering' = FALSE /\ pos' = 0 /\ surplus' = 0
    /\ UNCHANGED <<asked, startEvent, pc, cur, site, reported, fault>>

HandleRecordSearchResult == AnswerPage \/ AnswerLast \/ AnswerFails

-----------------------------------------------------------------------------
SearchThread ==
    \/ GetSearchMessage \/ GetNoMessage \/ WaitSearchStart
    \/ \E started \in BOOLEAN : SearchRecord(started)
    \/ WaitSearchFinish \/ WaitTimesOut

Next == ProcRecordSearch \/ SearchThread \/ ReportResult \/ HandleRecordSearchResult

Spec == Init /\ [][Next]_vars

\* The search thread loops, a wait ends, the callback thread runs and the site ends
\* every search one way or the other, and may fail the same one for ever.
SiteEnds == \E q \in Query :
                SearchFails(q) \/ \E accepted \in Accepts(q) : ReportCompleted(q, accepted)
FairSpec == Spec /\ WF_vars(SearchThread) /\ WF_vars(HandleRecordSearchResult) /\ WF_vars(SiteEnds)

-----------------------------------------------------------------------------
Answers == [pages : Nat, count : Nat, from : SUBSET Query, sums : SUBSET Nat,
            status : {"open", "sent", "broken"}]

\* Every variable has its type; the search thread is at one of its four places.
TypeOK ==
    /\ asked \subseteq Query /\ queue \in Seq(Query) /\ list \in Seq(Query)
    /\ startEvent \in BOOLEAN /\ finishEvent \in BOOLEAN
    /\ pc \in {"top", "waitStart", "got", "waitFinish"} /\ cur \in Query
    /\ running \in [Query -> Nat] /\ slips \in 0 .. SlipMax
    /\ answering \in BOOLEAN /\ pos \in Nat /\ surplus \in Nat
    /\ out \in [Query -> Answers] /\ reported \in [Query -> 0 .. RecordMax]
    /\ fault \in BOOLEAN

\* ReportResult's "if the result doesn't match current searching id, just discard it":
\* what is sent as the answer to a query was found for that query.
OwnRecords == \A q \in Query : out[q].from \subseteq {q}

\* HandleRecordSearchResult never meets an empty queue, no thread touches a message that
\* SIPCOM already owns (the head stays queued while its answer's messages go out), and no
\* callback reaches a searcher whose stack frame is gone.
NoFault == ~fault

\* GetCatalogBodyContent: the messages of an answer together hold every record collected
\* for the query, each announces that total, and there are no more than the records need.
AnswerComplete ==
    \A q \in Query : out[q].status = "sent" =>
        /\ out[q].count = reported[q] /\ out[q].sums = {reported[q]}
        /\ out[q].pages = IF reported[q] = 0 THEN 1 ELSE PageCount(reported[q])

\* The three threads implement RecordService: to SIPCOM they are one server that takes the
\* queries in turn.  Head lookups, retries after failed searches and both events are hidden.
Sent == IF answering /\ pos > 0 THEN pos - 1 ELSE 0
Fate == [q \in Query |-> out[q].status]
Service == INSTANCE RecordService
               WITH PageLen <- MaxListLen, pending <- queue, found <- Len(list), sent <- Sent, fate <- Fate
ServiceSpec == Service!Spec

\* The site has not searched for h, at the head of the queue: RetrieveResult failed, or the
\* search ended in another status than Completed.
Refused(h) ==
    /\ queue # <<>> /\ Head(queue) = h
    /\ SearchFails(h) \/ (cur = h /\ SearchRecord(FALSE))

\* pfnSearchVideoRecordProc: a query that was queued is answered, unless the site refuses
\* one query again and again.  Nothing in the code gives a refused head up, so one query
\* refused for ever holds up all that come after it; nothing else does.
Answered ==
    \A q \in Query :
        \/ (\E i \in DOMAIN queue : queue[i] = q) ~> out[q].status # "open"
        \/ \E h \in Query : []<><<Refused(h)>>_vars

=============================================================================
