---------------------------- MODULE RecordService ----------------------------
(***************************************************************************)
(* What the record queries promise SIPCOM, with the three threads, the     *)
(* events between them and the failed searches hidden: queries are         *)
(* answered one at a time in the order they were queued; nothing more is   *)
(* collected for a query once the first message of its answer is out; each *)
(* message takes PageLen records and the last one takes the rest.          *)
(***************************************************************************)
EXTENDS Naturals, Sequences

CONSTANTS
    Query,    \* record queries
    PageLen   \* records of one message

VARIABLES
    asked,    \* queries received
    pending,  \* queries that wait for their answer, the first being worked on
    found,    \* records collected for the first
    sent,     \* records of its answer that are out
    fate      \* of each query: "open", "sent" or "broken"

serviceVars == <<asked, pending, found, sent, fate>>

Init ==
    /\ asked = {} /\ pending = <<>>
    /\ found = 0 /\ sent = 0
    /\ fate = [q \in Query |-> "open"]

(* A query is dropped, answered at once, or queued. *)
Receive(q) == q \notin asked /\ asked' = asked \cup {q}
Drop(q) == Receive(q) /\ UNCHANGED <<pending, found, sent, fate>>
AnswerAtOnce(q) ==
    /\ Receive(q) /\ fate' = [fate EXCEPT ![q] = "sent"]
    /\ UNCHANGED <<pending, found, sent>>
Enqueue(q) ==
    /\ Receive(q) /\ pending' = Append(pending, q)
    /\ UNCHANGED <<found, sent, fate>>

Collect ==
    /\ pending # <<>> /\ sent = 0
    /\ found' = found + 1
    /\ UNCHANGED <<asked, pending, sent, fate>>

SendPage ==
    /\ pending # <<>> /\ found > sent + PageLen
    /\ sent' = sent + PageLen
    /\ UNCHANGED <<asked, pending, found, fate>>

(* The last message of the first query, which leaves with its records. *)
Leave(how) ==
    /\ pending # <<>>
    /\ fate' = [fate EXCEPT ![Head(pending)] = how]
    /\ pending' = Tail(pending) /\ found' = 0 /\ sent' = 0
    /\ UNCHANGED asked
Finish == found <= sent + PageLen /\ Leave("sent")
Break == Leave("broken")

Next ==
    \/ \E q \in Query : Drop(q) \/ AnswerAtOnce(q) \/ Enqueue(q)
    \/ Collect \/ SendPage \/ Finish \/ Break

Spec == Init /\ [][Next]_serviceVars
=============================================================================
