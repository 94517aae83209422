------------------------- MODULE RecordSearchProofs -------------------------
(***************************************************************************)
(* Proofs about RecordSearch for every set of queries, every page length   *)
(* and any number of failing searches.  NoFault and OwnRecords are proved  *)
(* for a site that ends its searches before WaitSearchFinish runs out.     *)
(* Neither is inductive: both rest on the head of the queue being the      *)
(* query searched for from GetSearchMessage to the finish event, and on    *)
(* every record in the list having been found for that query (SearchInv).  *)
(* AnswerComplete is proved under the same assumption from PageInv, which  *)
(* follows an answer from message to message; and so is that the three     *)
(* threads implement RecordService.                                        *)
(***************************************************************************)
EXTENDS RecordSearch, TLAPS

(* The search thread, the site and the callback thread are at work on the  *)
(* head of the queue, one after the other.                                 *)
OneAtATime ==
    /\ \A q \in Query : running[q] > 0 =>
           /\ pc = "waitFinish" /\ ~finishEvent /\ ~answering /\ q = cur /\ running[q] = 1
    /\ answering => pc = "waitFinish" /\ ~finishEvent
    /\ finishEvent => pc = "waitFinish"
    /\ pc = "got" \/ (pc = "waitFinish" /\ ~finishEvent) => queue # <<>> /\ Head(queue) = cur

(* Records are collected for the head of the queue only. *)
ListOfHead == \A i \in 1 .. Len(list) : queue # <<>> /\ list[i] = Head(queue)

(* Only the head can have been pushed, and only while it is answered. *)
QueueFresh ==
    /\ \A q \in Query : q \notin asked => ~Pushed(q)
    /\ \A i \in 1 .. Len(queue) : queue[i] \in asked /\ (Pushed(queue[i]) => i = 1 /\ answering)
    /\ \A i, j \in 1 .. Len(queue) : queue[i] = queue[j] => i = j

SearchInv == OneAtATime /\ ListOfHead /\ QueueFresh /\ OwnRecords /\ NoFault

(* A number of records takes a natural number of messages.                 *)
LEMMA PageCountNat == ASSUME NEW n \in Nat PROVE PageCount(n) \in Nat
  BY PageAssumption DEF PageCount

(* The position in the record list never runs past its end. *)
TypeInv == TypeOK /\ pos <= Len(list) + 1

(* First and Last bound a page inside the list. *)
LEMMA PageBounds ==
    ASSUME TypeInv
    PROVE  /\ First \in Nat /\ Last \in Nat /\ Surplus \in Nat /\ Len(list) \in Nat
           /\ Last - First + 1 \in Nat /\ Last <= Len(list) /\ 1 <= First
           /\ Page \subseteq 1 .. Len(list)
  <1>1. Len(list) \in Nat /\ pos \in Nat /\ pos <= Len(list) + 1 /\ surplus \in Nat
    BY DEF TypeInv, TypeOK
  <1>2. Surplus \in Nat
    BY <1>1, PageCountNat DEF Surplus
  <1>3. First \in Nat /\ 1 <= First /\ First <= Len(list) + 1
    BY <1>1 DEF First
  <1>4. Last \in Nat /\ Last <= Len(list) /\ First <= Last + 1
    BY <1>1, <1>3, PageAssumption DEF Last
  <1>5. Page \subseteq 1 .. Len(list)
    BY <1>1, <1>3, <1>4 DEF Page
  <1> QED
    BY <1>1, <1>2, <1>3, <1>4, <1>5

(* A pushed page keeps the type of what has been sent. *)
LEMMA PushType ==
    ASSUME TypeInv, NEW q \in Query
    PROVE  /\ Push(q) \in Answers
           /\ Push(q).pages = out[q].pages + 1
           /\ Push(q).from = out[q].from \cup {list[i] : i \in Page}
  <1> DEFINE n == IF Surplus = 0 THEN out[q].count ELSE out[q].count + (Last - First + 1)
             f == out[q].from \cup {list[i] : i \in Page}
             s == out[q].sums \cup {Len(list)}
  <1>1. out[q] \in Answers
    BY DEF TypeInv, TypeOK
  <1>2. out[q].pages \in Nat /\ out[q].count \in Nat /\ out[q].from \subseteq Query /\ out[q].sums \subseteq Nat
    BY <1>1 DEF Answers
  <1>3. n \in Nat
    BY <1>2, PageBounds
  <1>4. f \subseteq Query
    <2>1. \A i \in 1 .. Len(list) : list[i] \in Query
      BY DEF TypeInv, TypeOK
    <2>2. \A i \in Page : list[i] \in Query
      BY <2>1, PageBounds
    <2> QED
      BY <1>2, <2>2
  <1>5. s \subseteq Nat
    BY <1>2, PageBounds
  <1>6. Push(q) = [out[q] EXCEPT !.pages = @ + 1, !.count = n, !.from = f, !.sums = s]
    BY DEF Push
  <1> HIDE DEF n, f, s
  <1>7. Push(q) = [pages |-> out[q].pages + 1, count |-> n, from |-> f, sums |-> s, status |-> out[q].status]
    BY <1>1, <1>6 DEF Answers
  <1>8. out[q].status \in {"open", "sent", "broken"}
    BY <1>1 DEF Answers
  <1>9. Push(q) \in Answers
    BY <1>2, <1>3, <1>4, <1>5, <1>7, <1>8 DEF Answers
  <1> QED
    BY <1>7, <1>9 DEF f
(* What HandleRecordSearchResult leaves for the head's answer has its type. *)
LEMMA AnswerType ==
    ASSUME TypeInv, queue # <<>>, NEW a \in Answers, out' = [out EXCEPT ![Head(queue)] = a]
    PROVE  out' \in [Query -> Answers]
  BY DEF TypeInv, TypeOK

(* The initial state has its types.                                        *)
LEMMA TypeInit == Init => TypeInv
  <1> SUFFICES ASSUME Init PROVE TypeInv
    OBVIOUS
  <1>1. startEvent \in BOOLEAN /\ finishEvent \in BOOLEAN /\ answering \in BOOLEAN /\ fault \in BOOLEAN
    BY Zenon DEF Init
  <1>2. out \in [Query -> Answers]
    BY DEF Init, Nothing, Answers
  <1>3. /\ asked \subseteq Query /\ queue \in Seq(Query) /\ list \in Seq(Query) /\ Len(list) = 0
        /\ pc \in {"top", "waitStart", "got", "waitFinish"} /\ cur \in Query
        /\ running \in [Query -> Nat] /\ slips \in 0 .. SlipMax
        /\ pos = 0 /\ surplus \in Nat /\ reported \in [Query -> 0 .. RecordMax]
    BY BoundAssumption DEF Init
  <1>4. pos \in Nat /\ pos <= Len(list) + 1
    BY <1>3
  <1> QED
    BY <1>1, <1>2, <1>3, <1>4, Zenon DEF TypeInv, TypeOK

(* The head of the queue is there whenever an answer is under way. *)
HeadThere == answering => queue # <<>>

(* No answer is under way at first.                                        *)
LEMMA HeadInit == Init => HeadThere
  BY DEF Init, HeadThere
Base == TypeInv /\ HeadThere

(* Every step of the three threads keeps the types and the head of the     *)
(* queue that an answer under way needs.                                   *)
LEMMA BaseStep == Base /\ [Next]_vars => Base'
  <1> SUFFICES ASSUME Base, [Next]_vars PROVE Base'
    OBVIOUS
  <1> USE DEF Base
  <1>1. ASSUME NEW q \in Query, UnknownDevice(q) PROVE Base'
    BY <1>1 DEF UnknownDevice, site, answer, TypeInv, TypeOK, HeadThere
  <1>2. ASSUME NEW q \in Query, FutureStart(q) PROVE Base'
    <2>1. [pages |-> 1, count |-> 0, from |-> {}, sums |-> {0}, status |-> "sent"] \in Answers
      BY DEF Answers
    <2>2. out' \in [Query -> Answers]
      BY <1>2, <2>1 DEF FutureStart, TypeInv, TypeOK
    <2> QED
      BY <1>2, <2>2 DEF FutureStart, site, answer, TypeInv, TypeOK, HeadThere
  <1>3. ASSUME NEW q \in Query, QueueSearch(q) PROVE Base'
    <2>1. queue' \in Seq(Query) /\ Len(queue') = Len(queue) + 1 /\ Len(queue) \in Nat
      BY <1>3 DEF QueueSearch, TypeInv, TypeOK
    <2>2. queue' # <<>>
      BY <2>1
    <2> QED
      BY <1>3, <2>1, <2>2 DEF QueueSearch, site, answer, TypeInv, TypeOK, HeadThere
  <1>4. CASE GetSearchMessage
    BY <1>4 DEF GetSearchMessage, site, answer, TypeInv, TypeOK, HeadThere
  <1>5. CASE GetNoMessage
    BY <1>5 DEF GetNoMessage, site, answer, TypeInv, TypeOK, HeadThere
  <1>6. CASE WaitSearchStart
    BY <1>6 DEF WaitSearchStart, site, answer, TypeInv, TypeOK, HeadThere
  <1>7. ASSUME NEW started \in BOOLEAN, SearchRecord(started) PROVE Base'
    <2>1. fault' \in BOOLEAN
      BY <1>7, Zenon DEF SearchRecord
    <2>2. running' \in [Query -> Nat] /\ slips' \in 0 .. SlipMax
      BY <1>7, BoundAssumption DEF SearchRecord, TypeInv, TypeOK
    <2> QED
      BY <1>7, <2>1, <2>2 DEF SearchRecord, answer, TypeInv, TypeOK, HeadThere
  <1>8. CASE WaitSearchFinish
    BY <1>8 DEF WaitSearchFinish, site, answer, TypeInv, TypeOK, HeadThere
  <1>9. CASE WaitTimesOut
    <2>1. slips' \in 0 .. SlipMax
      BY <1>9, BoundAssumption DEF WaitTimesOut, TypeInv, TypeOK
    <2> QED
      BY <1>9, <2>1 DEF WaitTimesOut, answer, TypeInv, TypeOK, HeadThere
  <1>10. ASSUME NEW q \in Query, NEW accepted \in BOOLEAN, ReportRecord(q, accepted) PROVE Base'
    <2>1. fault' \in BOOLEAN
      BY <1>10, Zenon DEF ReportRecord
    <2>2. list' \in Seq(Query) /\ Len(list') \in Nat /\ Len(list) <= Len(list')
      BY <1>10 DEF ReportRecord, TypeInv, TypeOK
    <2>3. pos' <= Len(list') + 1
      BY <1>10, <2>2 DEF ReportRecord, answer, TypeInv, TypeOK
    <2>4. reported' \in [Query -> 0 .. RecordMax]
      BY <1>10, BoundAssumption DEF ReportRecord, TypeInv, TypeOK
    <2> QED
      BY <1>10, <2>1, <2>2, <2>3, <2>4 DEF ReportRecord, site, answer, TypeInv, TypeOK, HeadThere
  <1>11. ASSUME NEW q \in Query, NEW accepted \in BOOLEAN, ReportCompleted(q, accepted) PROVE Base'
    <2>1. fault' \in BOOLEAN /\ answering' \in BOOLEAN
      BY <1>11, Zenon DEF ReportCompleted
    <2>2. running' \in [Query -> Nat]
      BY <1>11 DEF ReportCompleted, TypeInv, TypeOK
    <2>3. HeadThere'
      BY <1>11 DEF ReportCompleted, HeadThere
    <2>4. pos' \in Nat /\ surplus' \in Nat /\ pos' <= Len(list') + 1
      BY <1>11 DEF ReportCompleted, TypeInv, TypeOK
    <2> QED
      BY <1>11, <2>1, <2>2, <2>3, <2>4 DEF ReportCompleted, TypeInv, TypeOK
  <1>12. ASSUME NEW q \in Query, SearchFails(q) PROVE Base'
    <2>1. running' \in [Query -> Nat] /\ slips' \in 0 .. SlipMax
      BY <1>12, BoundAssumption DEF SearchFails, TypeInv, TypeOK
    <2> QED
      BY <1>12, <2>1 DEF SearchFails, answer, TypeInv, TypeOK, HeadThere
  <1>13. CASE AnswerPage
    <2>1. queue # <<>> /\ Head(queue) \in Query
      BY <1>13 DEF AnswerPage, HeadThere, TypeInv, TypeOK
    <2>2. out' \in [Query -> Answers]
      BY <1>13, <2>1, PushType, AnswerType DEF AnswerPage
    <2>3. pos' \in Nat /\ surplus' \in Nat /\ pos' <= Len(list') + 1
      BY <1>13, PageBounds DEF AnswerPage
    <2> QED
      BY <1>13, <2>1, <2>2, <2>3 DEF AnswerPage, site, TypeInv, TypeOK, HeadThere
  <1>14. CASE AnswerLast
    <2>1. queue # <<>> /\ Head(queue) \in Query
      BY <1>14 DEF AnswerLast, HeadThere, TypeInv, TypeOK
    <2>2. [Push(Head(queue)) EXCEPT !.status = "sent"] \in Answers
      BY <2>1, PushType DEF Answers
    <2>3. out' \in [Query -> Answers]
      BY <1>14, <2>1, <2>2, AnswerType DEF AnswerLast
    <2>4. queue' \in Seq(Query) /\ list' \in Seq(Query) /\ Len(list') = 0
      BY <1>14, <2>1 DEF AnswerLast, TypeInv, TypeOK
    <2>5. pos' \in Nat /\ surplus' \in Nat /\ pos' <= Len(list') + 1
      BY <1>14, <2>4 DEF AnswerLast
    <2> QED
      BY <1>14, <2>3, <2>4, <2>5 DEF AnswerLast, site, TypeInv, TypeOK, HeadThere
  <1>15. CASE AnswerFails
    <2>1. queue # <<>> /\ Head(queue) \in Query
      BY <1>15 DEF AnswerFails, HeadThere, TypeInv, TypeOK
    <2>2. [out[Head(queue)] EXCEPT !.pages = @ + 1, !.status = "broken"] \in Answers
      <3> DEFINE o == out[Head(queue)]
                 p == o.pages + 1
                 b == "broken"
      <3>1. o \in Answers
        BY <2>1 DEF TypeInv, TypeOK
      <3>2. p \in Nat
        BY <3>1 DEF Answers
      <3>3. b \in {"open", "sent", "broken"}
        OBVIOUS
      <3> HIDE DEF o, p, b
      <3>4. [o EXCEPT !.pages = p, !.status = b] \in Answers
        BY <3>1, <3>2, <3>3 DEF Answers
      <3> QED
        BY <3>4 DEF o, p, b
    <2>3. out' = [out EXCEPT ![Head(queue)] = [out[Head(queue)] EXCEPT !.pages = @ + 1, !.status = "broken"]]
      BY <1>15, <2>1 DEF AnswerFails, TypeInv, TypeOK
    <2>4. out' \in [Query -> Answers]
      BY <2>1, <2>2, <2>3, AnswerType
    <2>5. queue' \in Seq(Query) /\ list' \in Seq(Query) /\ Len(list') = 0
      BY <1>15, <2>1 DEF AnswerFails, TypeInv, TypeOK
    <2>6. pos' \in Nat /\ surplus' \in Nat /\ pos' <= Len(list') + 1
      BY <1>15, <2>5 DEF AnswerFails
    <2> QED
      BY <1>15, <2>4, <2>5, <2>6 DEF AnswerFails, site, TypeInv, TypeOK, HeadThere
  <1>16. CASE UNCHANGED vars
    BY <1>16 DEF vars, site, answer, TypeInv, TypeOK, HeadThere
  <1>17. \A q \in Query : Accepts(q) \subseteq BOOLEAN
    BY Zenon DEF Accepts
  <1> QED
    BY <1>1, <1>2, <1>3, <1>4, <1>5, <1>6, <1>7, <1>8, <1>9, <1>10, <1>11, <1>12, <1>13, <1>14, <1>15,
       <1>16, <1>17, Zenon
       DEF Next, ProcRecordSearch, SearchThread, ReportResult, HandleRecordSearchResult

(* Every action of the three threads leaves the variables of TypeOK in     *)
(* their types.                                                            *)
THEOREM TypeCorrect == Spec => []TypeOK
<1>1. Init => Base
  BY TypeInit, HeadInit DEF Base
<1>2. Base => TypeOK
  BY DEF Base, TypeInv
<1> QED
  BY <1>1, <1>2, BaseStep, PTL DEF Spec
-----------------------------------------------------------------------------

(* The head of a queue that is not empty is its first query.               *)
LEMMA HeadIsFirst ==
    ASSUME Base, queue # <<>>
    PROVE  Len(queue) \in Nat /\ 1 <= Len(queue) /\ Head(queue) = queue[1] /\ Head(queue) \in Query
  BY DEF Base, TypeInv, TypeOK

(* While a search is under way the callback finds its searcher alive and   *)
(* the query it searched for at the head of the queue, not yet pushed.     *)
LEMMA CallbackSafe ==
    ASSUME Base, SearchInv, NEW q \in Query, running[q] > 0
    PROVE  /\ pc = "waitFinish" /\ ~finishEvent /\ ~answering /\ q = cur
           /\ running[q] = 1 /\ queue # <<>> /\ Head(queue) = q /\ ~BadHead
  <1>1. /\ pc = "waitFinish" /\ ~finishEvent /\ ~answering /\ q = cur
        /\ running[q] = 1 /\ queue # <<>> /\ Head(queue) = q
    BY DEF SearchInv, OneAtATime
  <1>2. ~Pushed(queue[1])
    BY <1>1, HeadIsFirst DEF SearchInv, QueueFresh
  <1> QED
    BY <1>1, <1>2, HeadIsFirst DEF BadHead

(* The last message of an answer, built or not: the head leaves the queue  *)
(* and the list is empty.                                                  *)
LEMMA AnswerEnds ==
    ASSUME Base, SearchInv, answering, NEW a \in Answers, a.from \subseteq {Head(queue)},
           out' = [out EXCEPT ![Head(queue)] = a],
           queue' = Tail(queue), list' = <<>>, finishEvent' = TRUE, answering' = FALSE,
           UNCHANGED <<asked, pc, cur, running, fault>>
    PROVE  SearchInv'
  <1>1. queue # <<>> /\ pc = "waitFinish" /\ ~finishEvent
    BY DEF Base, HeadThere, SearchInv, OneAtATime
  <1>2. Len(queue) \in Nat /\ 1 <= Len(queue) /\ Head(queue) = queue[1] /\ Head(queue) \in Query
    BY <1>1, HeadIsFirst
  <1>3. Len(queue') = Len(queue) - 1 /\ \A i \in 1 .. Len(queue') : queue'[i] = queue[i + 1]
    BY <1>1 DEF Base, TypeInv, TypeOK
  <1>4. \A i \in 1 .. Len(queue') : i + 1 \in 1 .. Len(queue) /\ i + 1 # 1
    BY <1>2, <1>3
  <1>5. \A q \in Query : q # Head(queue) => out'[q] = out[q]
    BY DEF Base, TypeInv, TypeOK
  <1>6. OneAtATime'
    <2>1. \A q \in Query : ~(running[q] > 0)
      BY DEF SearchInv, OneAtATime
    <2> QED
      BY <1>1, <2>1 DEF OneAtATime
  <1>7. ListOfHead'
    BY DEF ListOfHead
  <1>8. QueueFresh'
    <2>1. ASSUME NEW q \in Query, q \notin asked' PROVE ~Pushed(q)'
      <3>1. 1 \in 1 .. Len(queue)
        BY <1>2
      <3>2. q # Head(queue)
        BY <1>2, <2>1, <3>1 DEF SearchInv, QueueFresh
      <3> QED
        BY <1>5, <2>1, <3>2 DEF SearchInv, QueueFresh, Pushed
    <2>2. ASSUME NEW i \in 1 .. Len(queue')
          PROVE  (queue[i] \in asked /\ ~Pushed(queue[i]))'
      <3>1. i + 1 \in 1 .. Len(queue) /\ i + 1 # 1 /\ 1 \in 1 .. Len(queue) /\ queue'[i] = queue[i + 1]
        BY <1>2, <1>3, <1>4
      <3>2. queue[i + 1] # Head(queue) /\ ~Pushed(queue[i + 1]) /\ queue[i + 1] \in asked
        BY <1>2, <3>1 DEF SearchInv, QueueFresh
      <3>3. queue[i + 1] \in Query
        BY <3>2 DEF Base, TypeInv, TypeOK
      <3> QED
        BY <1>5, <3>1, <3>2, <3>3 DEF Pushed
    <2>3. ASSUME NEW i \in 1 .. Len(queue'), NEW j \in 1 .. Len(queue'), queue'[i] = queue'[j]
          PROVE  i = j
      <3>1. i + 1 = j + 1
        BY <1>3, <1>4, <2>3 DEF SearchInv, QueueFresh
      <3> QED
        BY <3>1, <1>2, <1>3
    <2> QED
      BY <2>1, <2>2, <2>3 DEF QueueFresh
  <1>9. OwnRecords'
    BY <1>2, <1>5 DEF SearchInv, OwnRecords, Base, TypeInv, TypeOK
  <1>10. NoFault'
    BY DEF SearchInv, NoFault
  <1> QED
    BY <1>6, <1>7, <1>8, <1>9, <1>10 DEF SearchInv

(* The initial state satisfies the invariant of the searches.              *)
LEMMA SearchInit == Init => SearchInv
  <1> SUFFICES ASSUME Init PROVE SearchInv
    OBVIOUS
  <1>1. OneAtATime
    BY DEF Init, OneAtATime
  <1>2. ListOfHead /\ QueueFresh
    BY DEF Init, ListOfHead, QueueFresh, Pushed, Nothing
  <1>3. OwnRecords /\ NoFault
    BY DEF Init, OwnRecords, NoFault, Nothing
  <1> QED
    BY <1>1, <1>2, <1>3 DEF SearchInv
(* One step of a thread, the site in time. *)
LEMMA SearchStep ==
    ASSUME ~Late
    PROVE  Base /\ SearchInv /\ [Next]_vars => SearchInv'
  <1> SUFFICES ASSUME Base, SearchInv, [Next]_vars PROVE SearchInv'
    OBVIOUS
  <1>0. Base'
    BY BaseStep
  <1>1. ASSUME NEW q \in Query, UnknownDevice(q) PROVE SearchInv'
    <2>1. QueueFresh'
      BY <1>1 DEF UnknownDevice, answer, SearchInv, QueueFresh, Pushed
    <2> QED
      BY <1>1, <2>1 DEF UnknownDevice, site, answer, SearchInv, OneAtATime, ListOfHead, OwnRecords, NoFault
  <1>2. ASSUME NEW q \in Query, FutureStart(q) PROVE SearchInv'
    <2>1. \A i \in 1 .. Len(queue) : queue[i] # q /\ queue[i] \in Query
      BY <1>2 DEF FutureStart, SearchInv, QueueFresh, Base, TypeInv, TypeOK
    <2>2. \A r \in Query : r # q => out'[r] = out[r]
      BY <1>2 DEF FutureStart, Base, TypeInv, TypeOK
    <2>3. out'[q].from = {}
      BY <1>2 DEF FutureStart, Base, TypeInv, TypeOK
    <2>4. QueueFresh'
      BY <1>2, <2>1, <2>2 DEF FutureStart, answer, SearchInv, QueueFresh, Pushed
    <2>5. OwnRecords'
      BY <2>2, <2>3 DEF SearchInv, OwnRecords
    <2> QED
      BY <1>2, <2>4, <2>5 DEF FutureStart, site, answer, SearchInv, OneAtATime, ListOfHead, NoFault
  <1>3. ASSUME NEW q \in Query, QueueSearch(q) PROVE SearchInv'
    <2>1. /\ Len(queue) \in Nat /\ Len(queue') = Len(queue) + 1
          /\ \A i \in 1 .. Len(queue) : queue'[i] = queue[i]
          /\ queue'[Len(queue) + 1] = q
      BY <1>3 DEF QueueSearch, Base, TypeInv, TypeOK
    <2>2. queue' # <<>>
      BY <2>1
    <2>3. queue # <<>> => Head(queue') = Head(queue)
      BY <1>3, <2>1, <2>2, HeadIsFirst DEF QueueSearch, Base, TypeInv, TypeOK
    <2>4. \A i \in 1 .. Len(queue) : queue[i] # q
      BY <1>3 DEF QueueSearch, SearchInv, QueueFresh
    <2>5. ~Pushed(q)
      BY <1>3 DEF QueueSearch, SearchInv, QueueFresh
    <2>6. QueueFresh'
      <3>1. \A r \in Query : r \notin asked' => ~Pushed(r)'
        BY <1>3 DEF QueueSearch, SearchInv, QueueFresh, Pushed
      <3>2. \A i \in 1 .. Len(queue') : (queue[i] \in asked /\ (Pushed(queue[i]) => i = 1 /\ answering))'
        BY <1>3, <2>1, <2>5 DEF QueueSearch, answer, SearchInv, QueueFresh, Pushed
      <3>3. \A i, j \in 1 .. Len(queue') : queue'[i] = queue'[j] => i = j
        BY <2>1, <2>4 DEF SearchInv, QueueFresh
      <3> QED
        BY <3>1, <3>2, <3>3 DEF QueueFresh
    <2>7. OneAtATime'
      BY <1>3, <2>2, <2>3 DEF QueueSearch, site, answer, SearchInv, OneAtATime
    <2>8. ListOfHead'
      BY <1>3, <2>2, <2>3 DEF QueueSearch, SearchInv, ListOfHead
    <2> QED
      BY <1>3, <2>6, <2>7, <2>8 DEF QueueSearch, SearchInv, OwnRecords, NoFault
  <1>4. CASE GetSearchMessage
    BY <1>4 DEF GetSearchMessage, site, answer, SearchInv, OneAtATime, ListOfHead, QueueFresh, Pushed, OwnRecords, NoFault
  <1>5. CASE GetNoMessage
    BY <1>5 DEF GetNoMessage, site, answer, SearchInv, OneAtATime, ListOfHead, QueueFresh, Pushed, OwnRecords, NoFault
  <1>6. CASE WaitSearchStart
    BY <1>6 DEF WaitSearchStart, site, answer, SearchInv, OneAtATime, ListOfHead, QueueFresh, Pushed, OwnRecords, NoFault
  <1>7. ASSUME NEW started \in BOOLEAN, SearchRecord(started) PROVE SearchInv'
    <2>1. ~answering /\ ~finishEvent /\ queue # <<>> /\ Head(queue) = cur /\ \A q \in Query : ~(running[q] > 0)
      BY <1>7 DEF SearchRecord, SearchInv, OneAtATime
    <2>2. ~Pushed(cur)
      BY <2>1, HeadIsFirst DEF SearchInv, QueueFresh
    <2>3. \A q \in Query : running'[q] > 0 => q = cur /\ running'[q] = 1
      BY <1>7, <2>1 DEF SearchRecord, Base, TypeInv, TypeOK
    <2>4. OneAtATime'
      BY <1>7, <2>1, <2>3 DEF SearchRecord, answer, OneAtATime
    <2>5. NoFault'
      BY <1>7, <2>2 DEF SearchRecord, SearchInv, NoFault
    <2> QED
      BY <1>7, <2>4, <2>5 DEF SearchRecord, answer, SearchInv, ListOfHead, QueueFresh, Pushed, OwnRecords
  <1>8. CASE WaitSearchFinish
    BY <1>8 DEF WaitSearchFinish, site, answer, SearchInv, OneAtATime, ListOfHead, QueueFresh, Pushed, OwnRecords, NoFault
  <1>9. CASE WaitTimesOut
    <2>1. ~answering /\ \A q \in Query : ~(running[q] > 0)
      BY <1>9 DEF WaitTimesOut, Busy
    <2> QED
      BY <1>9, <2>1 DEF WaitTimesOut, answer, SearchInv, OneAtATime, ListOfHead, QueueFresh, Pushed, OwnRecords, NoFault
  <1>10. ASSUME NEW q \in Query, NEW accepted \in BOOLEAN, ReportRecord(q, accepted) PROVE SearchInv'
    <2>1. /\ pc = "waitFinish" /\ queue # <<>> /\ Head(queue) = q /\ ~BadHead
      BY <1>10, CallbackSafe DEF ReportRecord
    <2>2. ListOfHead'
      <3>1. CASE accepted
        <4>1. list' = Append(list, q) /\ queue' = queue
          BY <1>10, <3>1 DEF ReportRecord
        <4>2. /\ Len(list) \in Nat /\ Len(list') = Len(list) + 1 /\ list'[Len(list) + 1] = q
              /\ \A i \in 1 .. Len(list) : list'[i] = list[i]
          BY <4>1 DEF Base, TypeInv, TypeOK
        <4>3. \A i \in 1 .. Len(list) : list[i] = q
          BY <2>1 DEF SearchInv, ListOfHead
        <4>4. \A i \in 1 .. Len(list') : list'[i] = q
          BY <4>2, <4>3
        <4> QED
          BY <2>1, <4>1, <4>4 DEF ListOfHead
      <3>2. CASE ~accepted
        BY <1>10, <3>2 DEF ReportRecord, SearchInv, ListOfHead
      <3> QED
        BY <3>1, <3>2
    <2>3. NoFault'
      BY <1>10, <2>1 DEF ReportRecord, SearchInv, NoFault
    <2> QED
      BY <1>10, <2>2, <2>3 DEF ReportRecord, site, answer, SearchInv, OneAtATime, QueueFresh, Pushed, OwnRecords
  <1>11. ASSUME NEW q \in Query, NEW accepted \in BOOLEAN, ReportCompleted(q, accepted) PROVE SearchInv'
    <2>1. /\ pc = "waitFinish" /\ ~finishEvent /\ ~answering /\ q = cur
          /\ running[q] = 1 /\ queue # <<>> /\ Head(queue) = q /\ ~BadHead
      BY <1>11, CallbackSafe DEF ReportCompleted
    <2>2. \A r \in Query : ~(running'[r] > 0)
      BY <1>11, <2>1 DEF ReportCompleted, Base, TypeInv, TypeOK, SearchInv, OneAtATime
    <2>3. OneAtATime'
      BY <1>11, <2>1, <2>2 DEF ReportCompleted, OneAtATime
    <2>4. QueueFresh'
      BY <1>11, <2>1 DEF ReportCompleted, SearchInv, QueueFresh, Pushed
    <2>5. NoFault'
      BY <1>11, <2>1 DEF ReportCompleted, SearchInv, NoFault
    <2> QED
      BY <1>11, <2>3, <2>4, <2>5 DEF ReportCompleted, SearchInv, ListOfHead, OwnRecords
  <1>12. ASSUME NEW q \in Query, SearchFails(q) PROVE SearchInv'
    <2>1. /\ pc = "waitFinish" /\ ~finishEvent /\ ~answering /\ q = cur
          /\ running[q] = 1 /\ queue # <<>> /\ Head(queue) = q
      BY <1>12, CallbackSafe DEF SearchFails
    <2>2. \A r \in Query : ~(running'[r] > 0)
      BY <1>12, <2>1 DEF SearchFails, Base, TypeInv, TypeOK, SearchInv, OneAtATime
    <2>3. OneAtATime'
      BY <1>12, <2>1, <2>2 DEF SearchFails, answer, OneAtATime
    <2> QED
      BY <1>12, <2>3 DEF SearchFails, answer, SearchInv, ListOfHead, QueueFresh, Pushed, OwnRecords, NoFault
  <1>13. CASE AnswerPage
    <2> DEFINE h == Head(queue)
    <2>1. queue # <<>> /\ answering
      BY <1>13 DEF AnswerPage, Base, HeadThere
    <2>2. h \in Query /\ h = queue[1]
      BY <2>1, HeadIsFirst
    <2>3. Push(h).from \subseteq {h}
      BY <2>2, PushType, PageBounds DEF Base, SearchInv, ListOfHead, OwnRecords
    <2>4. \A r \in Query : out'[r] = IF r = h THEN Push(h) ELSE out[r]
      BY <1>13, <2>2 DEF AnswerPage, Base, TypeInv, TypeOK
    <2>5. OwnRecords'
      BY <2>3, <2>4 DEF SearchInv, OwnRecords
    <2>6. QueueFresh'
      <3>1. h \in asked
        BY <2>1, <2>2, HeadIsFirst DEF SearchInv, QueueFresh
      <3>2. \A i \in 1 .. Len(queue) : queue[i] \in Query /\ (queue[i] = h => i = 1)
        BY <2>1, <2>2, HeadIsFirst DEF SearchInv, QueueFresh, Base, TypeInv, TypeOK
      <3> HIDE DEF h
      <3> QED
        BY <1>13, <2>1, <2>4, <3>1, <3>2 DEF AnswerPage, SearchInv, QueueFresh, Pushed
    <2> QED
      BY <1>13, <2>5, <2>6 DEF AnswerPage, site, SearchInv, OneAtATime, ListOfHead, NoFault
  <1>14. CASE AnswerLast
    <2> DEFINE h == Head(queue)
               a == [Push(h) EXCEPT !.status = "sent"]
    <2>1. queue # <<>> /\ answering
      BY <1>14 DEF AnswerLast, Base, HeadThere
    <2>2. h \in Query /\ h = queue[1]
      BY <2>1, HeadIsFirst
    <2>3. Push(h).from \subseteq {h} /\ Push(h) \in Answers
      <3>1. Push(h) \in Answers
        BY <2>2, PushType DEF Base
      <3>2. Push(h).from \subseteq {h}
        BY <2>2, PushType, PageBounds DEF Base, SearchInv, ListOfHead, OwnRecords
      <3> QED
        BY <3>1, <3>2
    <2>4. a \in Answers /\ a.from = Push(h).from
      BY <2>3 DEF Answers
    <2> QED
      BY <1>14, <2>1, <2>3, <2>4, AnswerEnds DEF AnswerLast, site
  <1>15. CASE AnswerFails
    <2> DEFINE h == Head(queue)
               a == [out[h] EXCEPT !.pages = @ + 1, !.status = "broken"]
    <2>1. queue # <<>> /\ answering
      BY <1>15 DEF AnswerFails, Base, HeadThere
    <2>2. h \in Query /\ h = queue[1]
      BY <2>1, HeadIsFirst
    <2>3. out' = [out EXCEPT ![h] = a]
      BY <1>15, <2>2 DEF AnswerFails, Base, TypeInv, TypeOK
    <2>4. out'[h] = a /\ out'[h] \in Answers
      BY <1>0, <2>2, <2>3 DEF Base, TypeInv, TypeOK
    <2>5. out[h] \in Answers /\ out[h].from \subseteq {h}
      BY <2>2 DEF Base, TypeInv, TypeOK, SearchInv, OwnRecords
    <2>6. a.from = out[h].from
      BY <2>5 DEF Answers
    <2> QED
      BY <1>15, <2>1, <2>3, <2>4, <2>5, <2>6, AnswerEnds DEF AnswerFails, site
  <1>16. CASE UNCHANGED vars
    BY <1>16 DEF vars, site, answer, SearchInv, OneAtATime, ListOfHead, QueueFresh, Pushed, OwnRecords, NoFault
  <1>17. \A q \in Query : Accepts(q) \subseteq BOOLEAN
    BY Zenon DEF Accepts
  <1> QED
    BY <1>1, <1>2, <1>3, <1>4, <1>5, <1>6, <1>7, <1>8, <1>9, <1>10, <1>11, <1>12, <1>13, <1>14, <1>15,
       <1>16, <1>17, Zenon
       DEF Next, ProcRecordSearch, SearchThread, ReportResult, HandleRecordSearchResult

(* The invariant of the searches holds as long as no search outlasts       *)
(* WaitSearchFinish.                                                       *)
LEMMA SearchInvHolds ==
    ASSUME ~Late
    PROVE  Spec => []SearchInv
<1>1. Init => Base /\ SearchInv
  BY TypeInit, HeadInit, SearchInit DEF Base
<1>2. Base /\ SearchInv /\ [Next]_vars => (Base /\ SearchInv)'
  BY BaseStep, SearchStep
<1> QED
  BY <1>1, <1>2, PTL DEF Spec

(* With a site that ends its searches before WaitSearchFinish runs out, no *)
(* thread uses an empty queue's head, a message SIPCOM owns or a searcher  *)
(* whose frame is gone, however many searches fail.                        *)
THEOREM NoFaultHolds ==
    ASSUME ~Late
    PROVE  Spec => []NoFault
<1>1. SearchInv => NoFault
  BY DEF SearchInv
<1> QED
  BY <1>1, SearchInvHolds, PTL

(* Under the same assumption HandleRecordSearchResult sends as the answer  *)
(* to a query only records found for it, also after failed searches and    *)
(* after answers that could not be built.                                  *)
THEOREM OwnRecordsHolds ==
    ASSUME ~Late
    PROVE  Spec => []OwnRecords
<1>1. SearchInv => OwnRecords
  BY DEF SearchInv
<1> QED
  BY <1>1, SearchInvHolds, PTL

-----------------------------------------------------------------------------
(* Complete answers.                                                       *)

(* A number of records is a number of full messages and a rest. *)
LEMMA DivRest ==
    ASSUME NEW n \in Nat
    PROVE  /\ n \div MaxListLen \in Nat /\ n % MaxListLen \in Nat /\ n % MaxListLen < MaxListLen
           /\ n = (MaxListLen * (n \div MaxListLen)) + (n % MaxListLen)
  BY PageAssumption

(* There is one way to divide. *)
LEMMA DivUnique ==
    ASSUME NEW k \in Nat, NEW r \in Nat, NEW l \in Nat, NEW s \in Nat,
           r < MaxListLen, s < MaxListLen, MaxListLen * k + r = MaxListLen * l + s
    PROVE  k = l /\ r = s
  <1>1. MaxListLen * (k - l) = s - r /\ MaxListLen * (l - k) = r - s
    BY PageAssumption
  <1>2. ~(k - l >= 1)
    <2> SUFFICES ASSUME k - l >= 1 PROVE FALSE
      OBVIOUS
    <2>1. MaxListLen * (k - l) >= MaxListLen
      BY PageAssumption
    <2> QED
      BY <1>1, <2>1, PageAssumption
  <1>3. ~(l - k >= 1)
    <2> SUFFICES ASSUME l - k >= 1 PROVE FALSE
      OBVIOUS
    <2>1. MaxListLen * (l - k) >= MaxListLen
      BY PageAssumption
    <2> QED
      BY <1>1, <2>1, PageAssumption
  <1>4. k = l
    BY <1>2, <1>3
  <1> QED
    BY <1>4, PageAssumption

(* A full message less is one message less. *)
LEMMA OnePageLess ==
    ASSUME NEW n \in Nat, n >= MaxListLen
    PROVE  PageCount(n - MaxListLen) = PageCount(n) - 1
  <1>1. n - MaxListLen \in Nat
    BY PageAssumption
  <1>2. PICK k \in Nat, r \in Nat :
          k = n \div MaxListLen /\ r = n % MaxListLen /\ r < MaxListLen /\ n = MaxListLen * k + r
    BY DivRest
  <1>3. PICK l \in Nat, s \in Nat :
          /\ l = (n - MaxListLen) \div MaxListLen /\ s = (n - MaxListLen) % MaxListLen
          /\ s < MaxListLen /\ n - MaxListLen = MaxListLen * l + s
    BY <1>1, DivRest
  <1>4. MaxListLen * k + r = MaxListLen * (l + 1) + s
    BY <1>2, <1>3, PageAssumption
  <1>5. k = l + 1 /\ r = s
    BY <1>2, <1>3, <1>4, DivUnique
  <1> QED
    BY <1>2, <1>3, <1>5 DEF PageCount

(* What the number of messages says of the number of records. *)
LEMMA PageCountMeans ==
    ASSUME NEW n \in Nat
    PROVE  /\ PageCount(n) \in Nat
           /\ PageCount(n) = 0 <=> n = 0
           /\ PageCount(n) > 1 => n > MaxListLen
           /\ PageCount(n) = 1 => n <= MaxListLen
  <1>1. PICK k \in Nat, r \in Nat :
          k = n \div MaxListLen /\ r = n % MaxListLen /\ r < MaxListLen /\ n = MaxListLen * k + r
    BY DivRest
  <1>2. CASE k = 0
    <2>1. n = r
      BY <1>1, <1>2, PageAssumption
    <2> QED
      BY <1>1, <1>2, <2>1, PageAssumption DEF PageCount
  <1>3. CASE k = 1
    <2>1. n = MaxListLen + r
      BY <1>1, <1>3, PageAssumption
    <2> QED
      BY <1>1, <1>3, <2>1, PageAssumption DEF PageCount
  <1>4. CASE k >= 2
    <2>1. MaxListLen * k >= MaxListLen * 2
      BY <1>4, PageAssumption
    <2> QED
      BY <1>1, <1>4, <2>1, PageAssumption DEF PageCount
  <1> QED
    BY <1>2, <1>3, <1>4

(* Nothing was found for q and nothing sent. *)
Blank(q) == reported[q] = 0 /\ out[q] = Nothing

(* The messages sent for the head q so far hold the records before pos,    *)
(* and surplus more will hold the rest.                                    *)
SentSoFar(q) ==
    /\ out[q].status = "open"
    /\ ~(answering /\ pos > 0) => out[q] = Nothing
    /\ answering /\ pos > 0 =>
          /\ pos <= Len(list) /\ out[q].count = pos - 1 /\ out[q].sums = {Len(list)}
          /\ surplus = PageCount(Len(list) - (pos - 1))
          /\ out[q].pages + surplus = PageCount(Len(list))

(* The inductive form of AnswerComplete: the record list holds all that    *)
(* was found for the head, and those behind it are blank.                  *)
PageInv ==
    /\ \A q \in Query : q \notin asked => Blank(q)
    /\ \A i \in 1 .. Len(queue) : i # 1 => Blank(queue[i])
    /\ queue # <<>> => reported[Head(queue)] = Len(list) /\ SentSoFar(Head(queue))
    /\ AnswerComplete

(* No query, no answer. *)
LEMMA PageInit == Init => PageInv
  <1> SUFFICES ASSUME Init PROVE PageInv
    OBVIOUS
  <1>1. \A q \in Query : Blank(q)
    BY DEF Init, Blank
  <1>2. AnswerComplete
    BY DEF Init, AnswerComplete, Nothing
  <1> QED
    BY <1>1, <1>2 DEF Init, PageInv

(* The fields of a pushed message. *)
LEMMA PushCounts ==
    ASSUME TypeInv, NEW q \in Query
    PROVE  /\ Push(q).pages = out[q].pages + 1 /\ Push(q).status = out[q].status
           /\ Push(q).sums = out[q].sums \cup {Len(list)}
           /\ Surplus = 0 => Push(q).count = out[q].count
           /\ Surplus # 0 => Push(q).count = out[q].count + (Last - First + 1)
  <1>1. out[q] \in Answers
    BY DEF TypeInv, TypeOK
  <1> QED
    BY <1>1 DEF Push, Answers

(* What is left to send, in both cases of the context. *)
LEMMA Rest ==
    ASSUME Base, PageInv, answering, queue # <<>>, Head(queue) \in Query
    PROVE  LET h == Head(queue) IN
           /\ reported[h] = Len(list) /\ First \in 1 .. Len(list) + 1
           /\ out[h].status = "open" /\ out[h].count = First - 1 /\ out[h].pages \in Nat
           /\ out[h].sums \subseteq {Len(list)}
           /\ Surplus = PageCount(Len(list) - (First - 1))
           /\ out[h].pages + Surplus = PageCount(Len(list))
           /\ Surplus = 0 => Len(list) = 0 /\ First = 1
           /\ Surplus = 0 => out[h].pages = 0
  <1> DEFINE h == Head(queue)
  <1>1. Len(list) \in Nat /\ pos \in Nat /\ PageCount(Len(list)) \in Nat
    BY PageCountNat DEF Base, TypeInv, TypeOK
  <1>2. reported[h] = Len(list) /\ SentSoFar(h)
    BY DEF PageInv
  <1> HIDE DEF h
  <1>3. CASE pos = 0
    <2>1. out[h] = Nothing /\ First = 1 /\ Surplus = PageCount(Len(list))
      BY <1>2, <1>3 DEF SentSoFar, First, Surplus
    <2>2. out[h].status = "open" /\ out[h].count = 0 /\ out[h].pages = 0 /\ out[h].sums = {}
      BY <2>1 DEF Nothing
    <2>3. Surplus = 0 => Len(list) = 0
      BY <1>1, <2>1, PageCountMeans
    <2>4. Len(list) - (First - 1) = Len(list)
      BY <1>1, <2>1
    <2> QED
      BY <1>1, <1>2, <2>1, <2>2, <2>3, <2>4 DEF h
  <1>4. CASE pos # 0
    <2>1. /\ out[h].status = "open" /\ pos <= Len(list) /\ out[h].count = pos - 1
          /\ out[h].sums = {Len(list)} /\ surplus = PageCount(Len(list) - (pos - 1))
          /\ out[h].pages + surplus = PageCount(Len(list))
      BY <1>1, <1>2, <1>4 DEF SentSoFar
    <2>2. First = pos /\ Surplus = surplus
      BY <1>4 DEF First, Surplus
    <2>3. Len(list) - (pos - 1) \in Nat /\ Len(list) - (pos - 1) # 0
      BY <1>1, <1>4, <2>1
    <2>4. Surplus # 0
      BY <2>1, <2>2, <2>3, PageCountMeans
    <2>5. out[h].pages \in Nat
      <3>1. out[h] \in Answers
        BY DEF Base, TypeInv, TypeOK, h
      <3> QED
        BY <3>1 DEF Answers
    <2> QED
      BY <1>1, <1>2, <1>4, <2>1, <2>2, <2>4, <2>5 DEF h
  <1> QED
    BY <1>3, <1>4

(* The head has been answered, completely or not at all, and leaves.       *)
LEMMA AnswerLeaves ==
    ASSUME Base, SearchInv, PageInv, queue # <<>>,
           NEW a \in Answers, out' = [out EXCEPT ![Head(queue)] = a],
           a.status = "sent" =>
             /\ a.count = reported[Head(queue)] /\ a.sums = {reported[Head(queue)]}
             /\ a.pages = IF reported[Head(queue)] = 0 THEN 1 ELSE PageCount(reported[Head(queue)]),
           queue' = Tail(queue), list' = <<>>, answering' = FALSE,
           UNCHANGED <<asked, reported>>
    PROVE  PageInv'
  <1> DEFINE h == Head(queue)
  <1>1. h \in Query /\ h = queue[1] /\ Len(queue) \in Nat /\ 1 <= Len(queue)
    BY HeadIsFirst
  <1>2. \A q \in Query : out'[q] = IF q = h THEN a ELSE out[q]
    BY <1>1 DEF Base, TypeInv, TypeOK
  <1>3. /\ Len(queue') = Len(queue) - 1
        /\ \A i \in 1 .. Len(queue') : queue'[i] = queue[i + 1] /\ i + 1 \in 1 .. Len(queue)
    BY <1>1 DEF Base, TypeInv, TypeOK
  <1>4. h \in asked /\ \A i \in 1 .. Len(queue) : queue[i] \in Query /\ (queue[i] = h => i = 1)
    BY <1>1 DEF SearchInv, QueueFresh, Base, TypeInv, TypeOK
  <1> HIDE DEF h
  <1>5. \A q \in Query : q \notin asked' => Blank(q)'
    BY <1>2, <1>4 DEF PageInv, Blank
  <1>6. \A i \in 1 .. Len(queue') : reported'[queue'[i]] = 0 /\ out'[queue'[i]] = Nothing
    <2> SUFFICES ASSUME NEW i \in 1 .. Len(queue')
                 PROVE  reported'[queue'[i]] = 0 /\ out'[queue'[i]] = Nothing
      OBVIOUS
    <2>1. PICK r \in Query : r = queue[i + 1] /\ r = queue'[i] /\ r # h /\ Blank(r)
      BY <1>1, <1>3, <1>4 DEF PageInv
    <2>2. reported'[r] = 0 /\ out'[r] = Nothing
      BY <1>2, <2>1 DEF Blank
    <2> QED
      BY <2>1, <2>2
  <1>7. AnswerComplete'
    <2> SUFFICES ASSUME NEW q \in Query, out'[q].status = "sent"
                 PROVE  /\ out'[q].count = reported[q] /\ out'[q].sums = {reported[q]}
                        /\ out'[q].pages = IF reported[q] = 0 THEN 1 ELSE PageCount(reported[q])
      BY DEF AnswerComplete, PageCount
    <2> QED
      BY <1>2 DEF PageInv, AnswerComplete, h
  <1>8. queue' # <<>> => (reported[Head(queue)] = Len(list) /\ SentSoFar(Head(queue)))'
    <2> SUFFICES ASSUME queue' # <<>>
                 PROVE  (reported[Head(queue)] = Len(list) /\ SentSoFar(Head(queue)))'
      OBVIOUS
    <2>1. Len(queue') >= 1 /\ Head(queue') = queue'[1]
      BY <1>1, <1>3 DEF Base, TypeInv, TypeOK
    <2>2. reported'[Head(queue')] = 0 /\ out'[Head(queue')] = Nothing
      <3>1. 1 \in 1 .. Len(queue')
        BY <1>1, <1>3, <2>1
      <3>2. reported'[queue'[1]] = 0 /\ out'[queue'[1]] = Nothing
        BY <1>6, <3>1
      <3> QED
        BY <2>1, <3>2
    <2>3. Nothing.status = "open"
      BY DEF Nothing
    <2> QED
      BY <2>2, <2>3 DEF SentSoFar
  <1>9. (\A i \in 1 .. Len(queue) : i # 1 => Blank(queue[i]))'
    BY <1>6 DEF Blank
  <1> QED
    BY <1>5, <1>7, <1>8, <1>9 DEF PageInv

(* A step that leaves the queue, the records and the answers alone keeps   *)
(* PageInv.                                                                *)
LEMMA PageFrame ==
    ASSUME PageInv, UNCHANGED <<asked, queue, list, answer, out, reported>>
    PROVE  PageInv'
  BY DEF PageInv, answer, Blank, SentSoFar, AnswerComplete, PageCount

(* A message of an answer with more to come. *)
LEMMA PageMore ==
    ASSUME Base, PageInv, AnswerPage
    PROVE  LET h == Head(queue) IN
           /\ pos' > 0 /\ pos' <= Len(list) /\ Push(h).status = "open"
           /\ Push(h).count = pos' - 1 /\ Push(h).sums = {Len(list)}
           /\ surplus' = PageCount(Len(list) - (pos' - 1))
           /\ Push(h).pages + surplus' = PageCount(Len(list))
  <1> DEFINE h == Head(queue)
             n == Len(list) - (First - 1)
  <1>1. queue # <<>> /\ answering /\ h \in Query /\ Len(list) \in Nat /\ Surplus > 1
    BY HeadIsFirst DEF AnswerPage, Base, HeadThere, TypeInv, TypeOK
  <1>2. /\ First \in 1 .. Len(list) + 1 /\ out[h].status = "open" /\ out[h].count = First - 1
        /\ out[h].pages \in Nat /\ out[h].sums \subseteq {Len(list)}
        /\ Surplus = PageCount(n) /\ out[h].pages + Surplus = PageCount(Len(list))
    BY <1>1, Rest
  <1>3. n \in Nat /\ PageCount(n) \in Nat /\ n > MaxListLen
    <2>1. n \in Nat
      BY <1>1, <1>2
    <2> QED
      BY <1>1, <1>2, <2>1, PageCountMeans
  <1>4. Last = First + MaxListLen - 1 /\ pos' = First + MaxListLen
    BY <1>1, <1>2, <1>3, PageAssumption DEF Last, AnswerPage
  <1>5. pos' > 0 /\ pos' <= Len(list) /\ Len(list) - (pos' - 1) = n - MaxListLen
    BY <1>1, <1>2, <1>3, <1>4, PageAssumption
  <1>6. surplus' = PageCount(n) - 1 /\ PageCount(n - MaxListLen) = PageCount(n) - 1
    BY <1>2, <1>3, OnePageLess, PageAssumption DEF AnswerPage
  <1>7. /\ Push(h).pages = out[h].pages + 1 /\ Push(h).status = out[h].status
        /\ Push(h).sums = out[h].sums \cup {Len(list)}
        /\ Push(h).count = out[h].count + (Last - First + 1)
    BY <1>1, PushCounts DEF Base
  <1> HIDE DEF h, n
  <1>8. Push(h).count = pos' - 1
    BY <1>2, <1>4, <1>7, PageAssumption
  <1>9. Push(h).sums = {Len(list)}
    BY <1>2, <1>7
  <1>10. Push(h).pages + surplus' = PageCount(Len(list))
    <2>1. PICK p \in Nat, m \in Nat : p = out[h].pages /\ m = PageCount(n) /\ p + m = PageCount(Len(list))
      BY <1>2, <1>3
    <2>2. Push(h).pages = p + 1 /\ surplus' = m - 1
      BY <1>6, <1>7, <2>1
    <2>3. (p + 1) + (m - 1) = p + m
      OBVIOUS
    <2> QED
      BY <2>1, <2>2, <2>3
  <1> QED
    BY <1>2, <1>5, <1>6, <1>7, <1>8, <1>9, <1>10 DEF h

(* The last message of an answer holds what is left.                       *)
LEMMA PageLast ==
    ASSUME Base, PageInv, answering, Surplus <= 1
    PROVE  LET h == Head(queue) IN
           /\ Push(h).count = reported[h] /\ Push(h).sums = {reported[h]}
           /\ Push(h).pages = IF reported[h] = 0 THEN 1 ELSE PageCount(reported[h])
  <1> DEFINE h == Head(queue)
             n == Len(list) - (First - 1)
  <1>1. queue # <<>> /\ h \in Query /\ Len(list) \in Nat /\ Surplus \in Nat
    BY HeadIsFirst, PageBounds DEF Base, HeadThere, TypeInv, TypeOK
  <1>2. /\ reported[h] = Len(list) /\ First \in 1 .. Len(list) + 1 /\ out[h].count = First - 1
        /\ out[h].pages \in Nat /\ out[h].sums \subseteq {Len(list)}
        /\ Surplus = PageCount(n) /\ out[h].pages + Surplus = PageCount(Len(list))
        /\ Surplus = 0 => Len(list) = 0 /\ First = 1 /\ out[h].pages = 0
    BY <1>1, Rest
  <1>3. /\ Push(h).pages = out[h].pages + 1 /\ Push(h).sums = out[h].sums \cup {Len(list)}
        /\ Surplus = 0 => Push(h).count = out[h].count
        /\ Surplus # 0 => Push(h).count = out[h].count + (Last - First + 1)
    BY <1>1, PushCounts DEF Base
  <1> HIDE DEF h
  <1>4. CASE Surplus = 0
    <2>1. reported[h] = 0 /\ Push(h).pages = 1 /\ Push(h).count = 0
      <3>1. Len(list) = 0 /\ First = 1 /\ out[h].pages = 0 /\ reported[h] = Len(list) /\ out[h].count = First - 1
        BY <1>2, <1>4, Zenon
      <3>2. Push(h).pages = out[h].pages + 1 /\ Push(h).count = out[h].count
        BY <1>3, <1>4, Zenon
      <3> QED
        BY <3>1, <3>2
    <2>2. Push(h).sums = {reported[h]}
      BY <1>2, <1>3
    <2> QED
      BY <2>1, <2>2 DEF h
  <1>5. CASE Surplus = 1
    <2>1. n \in Nat
      BY <1>1, <1>2
    <2>2. n <= MaxListLen /\ n # 0
      BY <1>2, <1>5, <2>1, PageCountMeans
    <2>3. Last = Len(list) /\ Len(list) # 0
      BY <1>1, <1>2, <2>2, PageAssumption DEF Last
    <2>4. Push(h).count = Len(list)
      BY <1>1, <1>2, <1>3, <1>5, <2>3
    <2>5. Push(h).pages = PageCount(Len(list))
      BY <1>2, <1>3, <1>5
    <2>6. Push(h).sums = {reported[h]}
      BY <1>2, <1>3
    <2> QED
      BY <1>2, <2>3, <2>4, <2>5, <2>6 DEF h
  <1>6. Surplus = 0 \/ Surplus = 1
    BY <1>1
  <1> QED
    BY <1>4, <1>5, <1>6

(* Every step of the three threads keeps PageInv. *)
LEMMA PageStep ==
    ASSUME ~Late
    PROVE  Base /\ SearchInv /\ PageInv /\ [Next]_vars => PageInv'
  <1> SUFFICES ASSUME Base, SearchInv, PageInv, [Next]_vars PROVE PageInv'
    OBVIOUS
  <1>1. ASSUME NEW q \in Query, UnknownDevice(q) PROVE PageInv'
    BY <1>1 DEF UnknownDevice, answer, PageInv, Blank, SentSoFar, AnswerComplete, PageCount
  <1>2. ASSUME NEW q \in Query, FutureStart(q) PROVE PageInv'
    <2> DEFINE a == [pages |-> 1, count |-> 0, from |-> {}, sums |-> {0}, status |-> "sent"]
    <2>1. a.status = "sent" /\ a.count = 0 /\ a.sums = {0} /\ a.pages = 1
      OBVIOUS
    <2>2. \A r \in Query : out'[r] = IF r = q THEN a ELSE out[r]
      BY <1>2 DEF FutureStart, Base, TypeInv, TypeOK
    <2> HIDE DEF a
    <2>3. q \notin asked /\ asked' = asked \cup {q} /\ reported[q] = 0
      BY <1>2 DEF FutureStart, PageInv, Blank
    <2>4. UNCHANGED <<queue, list, answering, pos, surplus, reported>>
      BY <1>2 DEF FutureStart, answer
    <2>5. \A i \in 1 .. Len(queue) : queue[i] \in Query /\ queue[i] # q
      BY <2>3 DEF SearchInv, QueueFresh, Base, TypeInv, TypeOK
    <2>6. (\A r \in Query : r \notin asked => Blank(r))'
      BY <2>2, <2>3, <2>4 DEF PageInv, Blank
    <2>7. (\A i \in 1 .. Len(queue) : i # 1 => Blank(queue[i]))'
      BY <2>2, <2>4, <2>5 DEF PageInv, Blank
    <2>8. (queue # <<>> => reported[Head(queue)] = Len(list) /\ SentSoFar(Head(queue)))'
      <3> SUFFICES ASSUME queue # <<>>
                   PROVE  (reported[Head(queue)] = Len(list) /\ SentSoFar(Head(queue)))'
        BY <2>4
      <3>1. Head(queue) \in Query /\ Head(queue) # q
        BY <2>5, HeadIsFirst
      <3>2. out'[Head(queue)] = out[Head(queue)]
        BY <2>2, <3>1
      <3> QED
        BY <2>4, <3>2 DEF PageInv, SentSoFar, PageCount
    <2>9. AnswerComplete'
      BY <2>1, <2>2, <2>3, <2>4 DEF PageInv, AnswerComplete, PageCount
    <2> QED
      BY <2>6, <2>7, <2>8, <2>9 DEF PageInv
  <1>3. ASSUME NEW q \in Query, QueueSearch(q) PROVE PageInv'
    <2>1. q \notin asked /\ asked' = asked \cup {q} /\ Blank(q)
      BY <1>3 DEF QueueSearch, PageInv
    <2>2. UNCHANGED <<list, answering, pos, surplus, out, reported>>
      BY <1>3 DEF QueueSearch, answer
    <2>3. /\ Len(queue') = Len(queue) + 1 /\ Len(queue) \in Nat /\ queue' # <<>> /\ Head(queue') = queue'[1]
          /\ \A i \in 1 .. Len(queue') : queue'[i] = IF i = Len(queue) + 1 THEN q ELSE queue[i]
      <3>1. queue' \in Seq(Query) /\ queue \in Seq(Query) /\ queue' = Append(queue, q)
        BY <1>3 DEF QueueSearch, Base, TypeInv, TypeOK
      <3>2. Len(queue') = Len(queue) + 1 /\ Len(queue) \in Nat
        BY <3>1
      <3>3. \A i \in 1 .. Len(queue') : queue'[i] = IF i = Len(queue) + 1 THEN q ELSE queue[i]
        BY <3>1, <3>2
      <3>4. queue' # <<>>
        BY <3>1, <3>2
      <3>5. Head(queue') = queue'[1]
        BY <3>1, <3>4
      <3> QED
        BY <3>2, <3>3, <3>4, <3>5
    <2>4. (\A r \in Query : r \notin asked => Blank(r))'
      BY <2>1, <2>2 DEF PageInv, Blank
    <2>5. (\A i \in 1 .. Len(queue) : i # 1 => Blank(queue[i]))'
      BY <2>1, <2>2, <2>3 DEF PageInv, Blank
    <2>6. (reported[Head(queue)] = Len(list) /\ SentSoFar(Head(queue)))'
      <3>1. CASE queue = <<>>
        <4>1. Len(queue) = 0 /\ ~answering /\ Len(list) = 0
          <5>1. Len(list) \in Nat /\ ~(1 \in 1 .. Len(list))
            BY <3>1 DEF SearchInv, ListOfHead, Base, TypeInv, TypeOK
          <5> QED
            BY <3>1, <5>1 DEF Base, HeadThere
        <4>2. Head(queue') = q
          BY <2>3, <4>1
        <4>3. reported'[q] = 0 /\ out'[q] = Nothing /\ Nothing.status = "open"
          BY <2>1, <2>2 DEF Blank, Nothing
        <4> QED
          BY <2>2, <4>1, <4>2, <4>3 DEF SentSoFar
      <3>2. CASE queue # <<>>
        <4>1. Head(queue') = Head(queue)
          BY <2>3, <3>2, HeadIsFirst
        <4> QED
          BY <2>2, <3>2, <4>1 DEF PageInv, SentSoFar, PageCount
      <3> QED
        BY <3>1, <3>2
    <2>7. AnswerComplete'
      BY <2>2 DEF PageInv, AnswerComplete, PageCount
    <2> QED
      BY <2>4, <2>5, <2>6, <2>7 DEF PageInv
  <1>4. CASE GetSearchMessage
    BY <1>4, PageFrame DEF GetSearchMessage
  <1>5. CASE GetNoMessage
    BY <1>5, PageFrame DEF GetNoMessage
  <1>6. CASE WaitSearchStart
    BY <1>6, PageFrame DEF WaitSearchStart
  <1>7. ASSUME NEW started \in BOOLEAN, SearchRecord(started) PROVE PageInv'
    BY <1>7, PageFrame DEF SearchRecord
  <1>8. CASE WaitSearchFinish
    BY <1>8, PageFrame DEF WaitSearchFinish
  <1>9. CASE WaitTimesOut
    BY <1>9, PageFrame DEF WaitTimesOut
  <1>10. ASSUME NEW q \in Query, NEW accepted \in BOOLEAN, ReportRecord(q, accepted) PROVE PageInv'
    <2>1. ~answering /\ queue # <<>> /\ Head(queue) = q /\ queue[1] = q /\ q \in asked /\ Len(queue) \in Nat
      <3>1. ~answering /\ queue # <<>> /\ Head(queue) = q
        BY <1>10, CallbackSafe DEF ReportRecord
      <3>2. Len(queue) \in Nat /\ 1 \in 1 .. Len(queue) /\ queue[1] = q
        BY <3>1, HeadIsFirst
      <3> QED
        BY <3>1, <3>2 DEF SearchInv, QueueFresh
    <2>2. UNCHANGED <<asked, queue, answering, pos, surplus, out>>
      BY <1>10 DEF ReportRecord, answer
    <2>3. /\ \A r \in Query : r # q => reported'[r] = reported[r]
          /\ reported'[q] = Len(list')
      <3>1. Len(list) \in Nat /\ reported[q] = Len(list)
        BY <2>1 DEF PageInv, Base, TypeInv, TypeOK
      <3>2. Len(list') = IF accepted THEN Len(list) + 1 ELSE Len(list)
        BY <1>10, <3>1 DEF ReportRecord, Base, TypeInv, TypeOK
      <3>3. \A r \in Query : reported'[r] = IF r = q /\ accepted THEN reported[r] + 1 ELSE reported[r]
        BY <1>10 DEF ReportRecord, Base, TypeInv, TypeOK
      <3> QED
        BY <3>1, <3>2, <3>3
    <2>4. \A i \in 1 .. Len(queue) : queue[i] \in Query /\ (i # 1 => queue[i] # q)
      <3>1. 1 \in 1 .. Len(queue)
        BY <2>1, HeadIsFirst
      <3> QED
        BY <2>1, <3>1 DEF SearchInv, QueueFresh, Base, TypeInv, TypeOK
    <2>5. out[q] = Nothing /\ Nothing.status = "open"
      BY <2>1 DEF PageInv, SentSoFar, Nothing
    <2>6. (\A r \in Query : r \notin asked => Blank(r))'
      BY <2>1, <2>2, <2>3 DEF PageInv, Blank
    <2>7. (\A i \in 1 .. Len(queue) : i # 1 => Blank(queue[i]))'
      BY <2>2, <2>3, <2>4 DEF PageInv, Blank
    <2>8. (reported[Head(queue)] = Len(list) /\ SentSoFar(Head(queue)))'
      BY <2>1, <2>2, <2>3, <2>5 DEF SentSoFar
    <2>9. AnswerComplete'
      <3> SUFFICES ASSUME NEW r \in Query, out'[r].status = "sent"
                   PROVE  reported'[r] = reported[r]
        BY <2>2 DEF PageInv, AnswerComplete, PageCount
      <3>1. r # q
        BY <2>2, <2>5
      <3> QED
        BY <2>3, <3>1
    <2> QED
      BY <2>6, <2>7, <2>8, <2>9 DEF PageInv
  <1>11. ASSUME NEW q \in Query, NEW accepted \in BOOLEAN, ReportCompleted(q, accepted) PROVE PageInv'
    <2>1. ~answering /\ queue # <<>> /\ Head(queue) = q
      BY <1>11, CallbackSafe DEF ReportCompleted
    <2>2. UNCHANGED <<asked, queue, list, out, reported>> /\ pos' = 0
      BY <1>11 DEF ReportCompleted
    <2>3. out[q] = Nothing /\ Nothing.status = "open" /\ reported[q] = Len(list)
      BY <2>1 DEF PageInv, SentSoFar, Nothing
    <2>4. (reported[Head(queue)] = Len(list) /\ SentSoFar(Head(queue)))'
      BY <2>1, <2>2, <2>3 DEF SentSoFar
    <2>5. (\A r \in Query : r \notin asked => Blank(r))'
      BY <2>2 DEF PageInv, Blank
    <2>6. (\A i \in 1 .. Len(queue) : i # 1 => Blank(queue[i]))'
      BY <2>2 DEF PageInv, Blank
    <2>7. AnswerComplete'
      BY <2>2 DEF PageInv, AnswerComplete, PageCount
    <2> QED
      BY <2>4, <2>5, <2>6, <2>7 DEF PageInv
  <1>12. ASSUME NEW q \in Query, SearchFails(q) PROVE PageInv'
    BY <1>12, PageFrame DEF SearchFails
  <1>13. CASE AnswerPage
    <2> DEFINE h == Head(queue)
    <2>1. queue # <<>> /\ answering
      BY <1>13 DEF AnswerPage, Base, HeadThere
    <2>2. h \in Query /\ h = queue[1] /\ 1 \in 1 .. Len(queue)
      BY <2>1, HeadIsFirst
    <2>3. h \in asked /\ \A i \in 1 .. Len(queue) : queue[i] \in Query /\ (queue[i] = h => i = 1)
      BY <2>2 DEF SearchInv, QueueFresh, Base, TypeInv, TypeOK
    <2>4. \A r \in Query : out'[r] = IF r = h THEN Push(h) ELSE out[r]
      BY <1>13, <2>2 DEF AnswerPage, Base, TypeInv, TypeOK
    <2>5. UNCHANGED <<asked, queue, list, answering, reported>>
      BY <1>13 DEF AnswerPage
    <2>6. /\ pos' > 0 /\ pos' <= Len(list) /\ Push(h).status = "open"
          /\ Push(h).count = pos' - 1 /\ Push(h).sums = {Len(list)}
          /\ surplus' = PageCount(Len(list) - (pos' - 1))
          /\ Push(h).pages + surplus' = PageCount(Len(list))
      BY <1>13, PageMore
    <2>7. reported[h] = Len(list)
      BY <2>1 DEF PageInv
    <2>8. Head(queue') = h
      BY <2>5
    <2> HIDE DEF h
    <2>9. (\A r \in Query : r \notin asked => Blank(r))'
      BY <2>3, <2>4, <2>5 DEF PageInv, Blank
    <2>10. (\A i \in 1 .. Len(queue) : i # 1 => Blank(queue[i]))'
      BY <2>3, <2>4, <2>5 DEF PageInv, Blank
    <2>11. AnswerComplete'
      <3> SUFFICES ASSUME NEW r \in Query, out'[r].status = "sent"
                   PROVE  out'[r] = out[r]
        BY <2>5 DEF PageInv, AnswerComplete, PageCount
      <3> QED
        BY <2>4, <2>6
    <2>12. (reported[Head(queue)] = Len(list) /\ SentSoFar(Head(queue)))'
      <3>1. out'[h] = Push(h)
        BY <2>2, <2>4
      <3>2. (out[Head(queue)].status = "open" /\ reported[Head(queue)] = Len(list))'
        BY <2>5, <2>6, <2>7, <2>8, <3>1
      <3>3. (/\ pos <= Len(list) /\ out[Head(queue)].count = pos - 1
             /\ out[Head(queue)].sums = {Len(list)})'
        BY <2>5, <2>6, <2>8, <3>1
      <3>4. (/\ surplus = PageCount(Len(list) - (pos - 1))
             /\ out[Head(queue)].pages + surplus = PageCount(Len(list)))'
        BY <2>5, <2>6, <2>8, <3>1 DEF PageCount
      <3>5. answering' /\ pos' > 0
        BY <2>1, <2>5, <2>6
      <3> QED
        BY <3>2, <3>3, <3>4, <3>5 DEF SentSoFar
    <2> QED
      BY <2>9, <2>10, <2>11, <2>12 DEF PageInv
  <1>14. CASE AnswerLast
    <2> DEFINE h == Head(queue)
               a == [Push(h) EXCEPT !.status = "sent"]
    <2>1. queue # <<>> /\ answering /\ Surplus <= 1
      BY <1>14 DEF AnswerLast, Base, HeadThere
    <2>2. h \in Query
      BY <2>1, HeadIsFirst
    <2>3. Push(h) \in Answers
      BY <2>2, PushType DEF Base
    <2>4. /\ a \in Answers /\ a.count = Push(h).count /\ a.sums = Push(h).sums
          /\ a.pages = Push(h).pages
      BY <2>3 DEF Answers
    <2>5. /\ Push(h).count = reported[h] /\ Push(h).sums = {reported[h]}
          /\ Push(h).pages = IF reported[h] = 0 THEN 1 ELSE PageCount(reported[h])
      BY <2>1, PageLast
    <2>6. /\ out' = [out EXCEPT ![h] = a] /\ queue' = Tail(queue) /\ list' = <<>>
          /\ answering' = FALSE /\ UNCHANGED <<asked, reported>>
      BY <1>14 DEF AnswerLast
    <2> HIDE DEF a
    <2> QED
      BY <2>1, <2>4, <2>5, <2>6, AnswerLeaves
  <1>15. CASE AnswerFails
    <2> DEFINE h == Head(queue)
               a == [out[h] EXCEPT !.pages = @ + 1, !.status = "broken"]
    <2>1. queue # <<>>
      BY <1>15 DEF AnswerFails, Base, HeadThere
    <2>2. h \in Query
      BY <2>1, HeadIsFirst
    <2>3. out' = [out EXCEPT ![h] = a]
      BY <1>15, <2>2 DEF AnswerFails, Base, TypeInv, TypeOK
    <2>4. out'[h] = a /\ out'[h] \in Answers
      BY BaseStep, <2>2, <2>3 DEF Base, TypeInv, TypeOK
    <2>5. a.status = "broken"
      <3>1. out[h] \in Answers
        BY <2>2 DEF Base, TypeInv, TypeOK
      <3> QED
        BY <3>1 DEF Answers
    <2>6. /\ queue' = Tail(queue) /\ list' = <<>>
          /\ answering' = FALSE /\ UNCHANGED <<asked, reported>>
      BY <1>15 DEF AnswerFails
    <2>7. a.status # "sent" /\ a \in Answers
      BY <2>4, <2>5
    <2> HIDE DEF a
    <2> QED
      BY <2>1, <2>3, <2>6, <2>7, AnswerLeaves
  <1>16. CASE UNCHANGED vars
    BY <1>16, PageFrame DEF vars
  <1>17. \A q \in Query : Accepts(q) \subseteq BOOLEAN
    BY Zenon DEF Accepts
  <1> QED
    BY <1>1, <1>2, <1>3, <1>4, <1>5, <1>6, <1>7, <1>8, <1>9, <1>10, <1>11, <1>12, <1>13, <1>14, <1>15,
       <1>16, <1>17, Zenon
       DEF Next, ProcRecordSearch, SearchThread, ReportResult, HandleRecordSearchResult

(* GetCatalogBodyContent, for every page length and every number of        *)
(* records: the messages of an answer hold every record collected for its  *)
(* query and announce that total, and there is none too many, also after   *)
(* searches that failed and were made again.                               *)
THEOREM AnswerCompleteHolds ==
    ASSUME ~Late
    PROVE  Spec => []AnswerComplete
<1>1. Init => Base /\ SearchInv /\ PageInv
  BY TypeInit, HeadInit, SearchInit, PageInit DEF Base
<1>2. Base /\ SearchInv /\ PageInv /\ [Next]_vars => (Base /\ SearchInv /\ PageInv)'
  BY BaseStep, SearchStep, PageStep
<1>3. PageInv => AnswerComplete
  BY DEF PageInv
<1> QED
  BY <1>1, <1>2, <1>3, PTL DEF Spec


-----------------------------------------------------------------------------
(* RecordSearch implements RecordService.                                  *)

(* Steps that RecordService does not see. *)
LEMMA Hidden ==
    ASSUME UNCHANGED <<asked, queue, list, out>>, Sent' = Sent
    PROVE  UNCHANGED Service!serviceVars
  BY DEF Fate, Service!serviceVars

(* A query is dropped, answered at once or queued. *)
LEMMA ReceiveRefines ==
    ASSUME Base, NEW q \in Query, UnknownDevice(q) \/ FutureStart(q) \/ QueueSearch(q)
    PROVE  Service!Next
  <1>1. Sent' = Sent /\ Len(list') = Len(list) /\ Service!Receive(q)
    BY DEF UnknownDevice, FutureStart, QueueSearch, answer, Sent, Service!Receive
  <1>2. CASE UnknownDevice(q)
    <2>1. UNCHANGED <<queue, Fate>>
      BY <1>2 DEF UnknownDevice, Fate
    <2>2. Service!Drop(q)
      BY <1>1, <2>1 DEF Service!Drop
    <2> QED
      BY <2>2 DEF Service!Next
  <1>3. CASE FutureStart(q)
    <2> DEFINE a == [pages |-> 1, count |-> 0, from |-> {}, sums |-> {0}, status |-> "sent"]
    <2>1. a.status = "sent" /\ out' = [out EXCEPT ![q] = a] /\ queue' = queue
      BY <1>3 DEF FutureStart
    <2> HIDE DEF a
    <2>2. Fate' = [Fate EXCEPT ![q] = "sent"]
      BY <2>1 DEF Fate, Base, TypeInv, TypeOK
    <2>3. Service!AnswerAtOnce(q)
      BY <1>1, <2>1, <2>2 DEF Service!AnswerAtOnce
    <2> QED
      BY <2>3 DEF Service!Next
  <1>4. CASE QueueSearch(q)
    <2>1. queue' = Append(queue, q) /\ Fate' = Fate
      BY <1>4 DEF QueueSearch, Fate
    <2>2. Service!Enqueue(q)
      BY <1>1, <2>1 DEF Service!Enqueue
    <2> QED
      BY <2>2 DEF Service!Next
  <1> QED
    BY <1>2, <1>3, <1>4

(* A record is collected for the query at the head, before anything of its *)
(* answer is out; one of another streamer is discarded.                    *)
LEMMA CollectRefines ==
    ASSUME Base, SearchInv, NEW q \in Query, NEW accepted, ReportRecord(q, accepted)
    PROVE  Service!Next \/ UNCHANGED Service!serviceVars
  <1>1. running[q] > 0 /\ UNCHANGED <<asked, queue, answering, pos, out>>
    BY DEF ReportRecord, answer
  <1>2. ~answering /\ queue # <<>>
    BY <1>1, CallbackSafe
  <1>3. Sent = 0 /\ Sent' = 0 /\ Fate' = Fate
    BY <1>1, <1>2 DEF Sent, Fate
  <1>4. CASE list' = list
    BY <1>1, <1>3, <1>4, Hidden
  <1>5. CASE list' = Append(list, q)
    <2>1. Len(list') = Len(list) + 1
      BY <1>5 DEF Base, TypeInv, TypeOK
    <2>2. Service!Collect
      BY <1>1, <1>2, <1>3, <2>1 DEF Service!Collect
    <2> QED
      BY <2>2 DEF Service!Next
  <1> QED
    BY <1>4, <1>5 DEF ReportRecord

(* A message of an answer takes a full page. *)
LEMMA PageRefines ==
    ASSUME Base, PageInv, AnswerPage
    PROVE  Service!SendPage
  <1>1. queue # <<>> /\ answering /\ Head(queue) \in Query /\ Len(list) \in Nat /\ Surplus > 1
    BY HeadIsFirst DEF AnswerPage, Base, HeadThere, TypeInv, TypeOK
  <1>2. /\ First \in 1 .. Len(list) + 1 /\ Surplus = PageCount(Len(list) - (First - 1))
        /\ out[Head(queue)].status = "open"
    BY <1>1, Rest
  <1>3. Len(list) - (First - 1) \in Nat /\ Len(list) - (First - 1) > MaxListLen
    <2>1. Len(list) - (First - 1) \in Nat
      BY <1>1, <1>2
    <2> QED
      BY <1>1, <1>2, <2>1, PageCountMeans
  <1>4. pos' = First + MaxListLen /\ answering'
    BY <1>1, <1>2, <1>3, PageAssumption DEF Last, AnswerPage
  <1>5. pos \in Nat /\ MaxListLen \in Nat \ {0}
    BY PageAssumption DEF Base, TypeInv, TypeOK
  <1>6. Sent = First - 1
    BY <1>1, <1>5 DEF Sent, First
  <1>7. Sent' = Sent + MaxListLen
    BY <1>2, <1>4, <1>5, <1>6 DEF Sent
  <1>8. UNCHANGED <<asked, queue, list>>
    BY DEF AnswerPage
  <1>9. Fate' = Fate
    <2>1. out' = [out EXCEPT ![Head(queue)] = Push(Head(queue))] /\ out \in [Query -> Answers]
      BY DEF AnswerPage, Base, TypeInv, TypeOK
    <2>2. Push(Head(queue)).status = out[Head(queue)].status
      BY <1>1, PushCounts DEF Base
    <2> QED
      BY <1>1, <2>1, <2>2 DEF Fate
  <1>10. Len(list) > Sent + MaxListLen
    BY <1>1, <1>2, <1>3, <1>5, <1>6
  <1> QED
    BY <1>1, <1>7, <1>8, <1>9, <1>10 DEF Service!SendPage

(* The first query leaves with the last message of its answer. *)
LEMMA LeaveRefines ==
    ASSUME Base, PageInv, AnswerLast \/ AnswerFails
    PROVE  Service!Finish \/ Service!Break
  <1>1. queue # <<>> /\ answering /\ Head(queue) \in Query /\ Len(list) \in Nat
        /\ out \in [Query -> Answers]
    BY HeadIsFirst DEF AnswerLast, AnswerFails, Base, HeadThere, TypeInv, TypeOK
  <1>2. queue' = Tail(queue) /\ list' = <<>> /\ ~answering' /\ asked' = asked
    BY DEF AnswerLast, AnswerFails
  <1>3. Len(list') = 0 /\ Sent' = 0
    BY <1>2 DEF Sent
  <1>4. ASSUME NEW how, Fate' = [Fate EXCEPT ![Head(queue)] = how] PROVE Service!Leave(how)
    BY <1>1, <1>2, <1>3, <1>4 DEF Service!Leave
  <1>5. ASSUME NEW a, out' = [out EXCEPT ![Head(queue)] = a]
        PROVE  Fate' = [Fate EXCEPT ![Head(queue)] = a.status]
    BY <1>1, <1>5 DEF Fate
  <1>6. CASE AnswerLast
    <2>1. /\ First \in 1 .. Len(list) + 1 /\ Surplus = PageCount(Len(list) - (First - 1))
          /\ Surplus \in Nat /\ Surplus <= 1
      BY <1>1, <1>6, Rest, PageBounds DEF AnswerLast, Base
    <2>2. PICK n \in Nat : n = Len(list) - (First - 1)
      BY <1>1, <2>1
    <2>3. n <= MaxListLen
      <3>1. PageCount(n) = 0 \/ PageCount(n) = 1
        BY <2>1, <2>2
      <3>2. 0 <= MaxListLen
        BY PageAssumption
      <3> QED
        BY <3>1, <3>2, PageCountMeans
    <2>4. Sent = First - 1 /\ pos \in Nat
      BY <1>1 DEF Sent, First, Base, TypeInv, TypeOK
    <2>5. Len(list) <= Sent + MaxListLen
      BY <1>1, <2>1, <2>2, <2>3, <2>4, PageAssumption
    <2> DEFINE a == [Push(Head(queue)) EXCEPT !.status = "sent"]
    <2>6. out' = [out EXCEPT ![Head(queue)] = a]
      BY <1>6 DEF AnswerLast
    <2>7. a.status = "sent"
      BY <1>1, PushType DEF Answers, Base
    <2> HIDE DEF a
    <2>8. Service!Leave("sent")
      BY <1>4, <1>5, <2>6, <2>7
    <2> QED
      BY <2>5, <2>8 DEF Service!Finish
  <1>7. CASE AnswerFails
    <2>1. out[Head(queue)] \in Answers
      BY <1>1
    <2> DEFINE a == [out[Head(queue)] EXCEPT !.pages = out[Head(queue)].pages + 1, !.status = "broken"]
    <2>2. out' = [out EXCEPT ![Head(queue)] = a]
      BY <1>1, <1>7 DEF AnswerFails
    <2>3. a.status = "broken"
      BY <2>1 DEF Answers
    <2> HIDE DEF a
    <2>4. Service!Leave("broken")
      BY <1>4, <1>5, <2>2, <2>3
    <2> QED
      BY <2>4 DEF Service!Break
  <1> QED
    BY <1>6, <1>7

(* With a site that ends its searches before the wait runs out, the        *)
(* message thread, the search thread and the callback thread together are  *)
(* RecordService, for every set of queries, page length and pattern of     *)
(* failed searches.                                                        *)
THEOREM ImplementsService ==
    ASSUME ~Late
    PROVE  Spec => ServiceSpec
<1>1. Init => Base /\ SearchInv /\ PageInv
  BY TypeInit, HeadInit, SearchInit, PageInit DEF Base
<1>2. Base /\ SearchInv /\ PageInv /\ [Next]_vars => (Base /\ SearchInv /\ PageInv)'
  BY BaseStep, SearchStep, PageStep
<1>3. Init => Service!Init
  <2> SUFFICES ASSUME Init PROVE Service!Init
    OBVIOUS
  <2>1. Len(list) = 0 /\ Sent = 0
    BY DEF Init, Sent
  <2>2. Fate = [q \in Query |-> "open"]
    BY DEF Init, Fate, Nothing
  <2> QED
    BY <2>1, <2>2 DEF Init, Service!Init
<1>4. Base /\ SearchInv /\ PageInv /\ [Next]_vars => [Service!Next]_Service!serviceVars
  <2> SUFFICES ASSUME Base, SearchInv, PageInv, [Next]_vars
               PROVE  Service!Next \/ UNCHANGED Service!serviceVars
    OBVIOUS
  <2>1. CASE ProcRecordSearch
    BY <2>1, ReceiveRefines DEF ProcRecordSearch
  <2>2. CASE SearchThread \/ vars' = vars
    <3>1. UNCHANGED <<asked, queue, list, out, answering, pos>>
      BY <2>2 DEF SearchThread, GetSearchMessage, GetNoMessage, WaitSearchStart, SearchRecord,
         WaitSearchFinish, WaitTimesOut, answer, vars
    <3>2. Sent' = Sent
      BY <3>1 DEF Sent
    <3> QED
      BY <3>1, <3>2, Hidden
  <2>3. CASE ReportResult
    <3>1. PICK q \in Query :
             \/ \E accepted \in Accepts(q) : ReportRecord(q, accepted) \/ ReportCompleted(q, accepted)
             \/ SearchFails(q)
      BY <2>3 DEF ReportResult
    <3>2. CASE \E accepted \in Accepts(q) : ReportRecord(q, accepted)
      BY <3>2, CollectRefines
    <3>3. CASE \E accepted \in Accepts(q) : ReportCompleted(q, accepted)
      <4>1. ~answering /\ pos' = 0 /\ UNCHANGED <<asked, queue, list, out>>
        BY <3>3 DEF ReportCompleted
      <4>2. Sent' = 0 /\ Sent = 0
        BY <4>1 DEF Sent
      <4> QED
        BY <4>1, <4>2, Hidden
    <3>4. CASE SearchFails(q)
      <4>1. UNCHANGED <<asked, queue, list, out, answering, pos>>
        BY <3>4 DEF SearchFails, answer
      <4>2. Sent' = Sent
        BY <4>1 DEF Sent
      <4> QED
        BY <4>1, <4>2, Hidden
    <3> QED
      BY <3>1, <3>2, <3>3, <3>4
  <2>4. CASE HandleRecordSearchResult
    BY <2>4, PageRefines, LeaveRefines DEF HandleRecordSearchResult, Service!Next
  <2> QED
    BY <2>1, <2>2, <2>3, <2>4 DEF Next
<1> QED
  BY <1>1, <1>2, <1>3, <1>4, PTL DEF Spec, ServiceSpec, Service!Spec
=============================================================================
