------------------------------ MODULE CallDesk ------------------------------
(***************************************************************************)
(* What an upper gateway promises the clients it calls for, with the five  *)
(* threads, the two tables and the queues between them hidden: a call has  *)
(* one owner for ever; its answer, once the lower domain has given it, is  *)
(* told to the owner, once, or lost; a call that failed is told to nobody. *)
(* A call may get adrift, alone or with one other: nothing is promised of  *)
(* it any more, and nothing else changes for the calls that are not.       *)
(***************************************************************************)
EXTENDS Naturals, Sequences

CONSTANT Clients

VARIABLES
    owner,    \* by call: the client that asked for it
    fate,     \* by call: "asked", "failed", "coming", "told", "lost" or "adrift"
    replies   \* answers told, each with its call and its client

deskVars == <<owner, fate, replies>>

Init == owner = <<>> /\ fate = <<>> /\ replies = <<>>

(* A call is set up, or fails or is adrift as it is. *)
Place(k, how) ==
    /\ owner' = Append(owner, k) /\ fate' = Append(fate, how)
    /\ UNCHANGED replies

Becomes(c, from, to) ==
    /\ fate[c] = from /\ fate' = [fate EXCEPT ![c] = to]
    /\ UNCHANGED owner
Refuse(c) == Becomes(c, "asked", "failed") /\ UNCHANGED replies
Answer(c) == Becomes(c, "asked", "coming") /\ UNCHANGED replies
Lose(c) == Becomes(c, "coming", "lost") /\ UNCHANGED replies
Tell(c) ==
    /\ Becomes(c, "coming", "told")
    /\ replies' = Append(replies, [call |-> c, to |-> owner[c]])

(* Calls get adrift, and one that is adrift is told to anybody, any number *)
(* of times.                                                               *)
Drift(c, d) ==
    /\ fate' = [fate EXCEPT ![c] = "adrift", ![d] = "adrift"]
    /\ UNCHANGED <<owner, replies>>
TellAdrift(c, k) ==
    /\ fate[c] = "adrift"
    /\ replies' = Append(replies, [call |-> c, to |-> k])
    /\ UNCHANGED <<owner, fate>>

Next ==
    \/ \E k \in Clients, how \in {"asked", "failed", "adrift"} : Place(k, how)
    \/ \E c \in DOMAIN owner : Refuse(c) \/ Answer(c) \/ Lose(c) \/ Tell(c)
    \/ \E c, d \in DOMAIN owner : Drift(c, d)
    \/ \E c \in DOMAIN owner, k \in Clients : TellAdrift(c, k)

Spec == Init /\ [][Next]_deskVars
=============================================================================
