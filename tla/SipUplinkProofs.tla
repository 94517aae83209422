-------------------------- MODULE SipUplinkProofs --------------------------
(* Type correctness of SipUplink, that a context the upper domain does not  *)
(* name stays idle, and that nothing the application asked for is mislaid,  *)
(* for every value of the constants.                                        *)
EXTENDS SipUplink, TLAPS

(* Taking an element off a queue leaves a shorter one.                     *)
LEMMA TailOfQueue ==
    ASSUME NEW S, NEW q \in Seq(S), q # <<>>
    PROVE  /\ Tail(q) \in Seq(S) /\ Head(q) \in S /\ Len(Tail(q)) = Len(q) - 1
           /\ Head(q) = q[1] /\ \A i \in 1 .. Len(Tail(q)) : Tail(q)[i] = q[i + 1]
  OBVIOUS

(* The inductive invariant.                                                *)
IInv == TypeOK /\ StrayIdle /\ EventsOfNamed

(* The conjuncts of TypeOK that a step on the contexts disturbs.           *)
ContextsOK ==
    /\ upper \in [exp : Expiries, rid : Nat, cseq : 0 .. SeqMax]
    /\ lastId \in Nat /\ upper.rid <= lastId
    /\ DOMAIN regs \subseteq 1 .. lastId /\ \A r \in DOMAIN regs : regs[r] \in Context

(* A process that has just started holds no context.                       *)
LEMMA InitIInv == Init => IInv
  <1> SUFFICES ASSUME Init PROVE IInv
    OBVIOUS
  <1>1. toSip \in Seq(Blocks) /\ Len(toSip) <= QueueCap /\ events \in Seq(Event) /\ Len(events) = 0
    BY NumberAssumption DEF Init
  <1>2. upper \in [exp : Expiries, rid : Nat, cseq : 0 .. SeqMax] /\ upper.rid = 0 /\ lastId = 0
    BY NumberAssumption DEF Init, Expiries
  <1>3. DOMAIN regs = {} /\ handling.rid = 0
    BY DEF Init, NoEvent
  <1>4. asked \in 0 .. AskMax /\ seen \in CSeqs \cup {-1}
    BY NumberAssumption DEF Init, CSeqs
  <1>5. TypeOK
    <2>1. DOMAIN regs \subseteq 1 .. lastId /\ \A r \in DOMAIN regs : regs[r] \in Context
      BY <1>3
    <2>2. upper.rid <= lastId /\ lastId \in Nat
      BY <1>2
    <2> QED
      BY <1>1, <1>2, <1>4, <2>1, <2>2, Zenon DEF Init, TypeOK
  <1>6. StrayIdle
    BY <1>3 DEF StrayIdle
  <1>7. EventsOfNamed
    BY <1>1, <1>2, <1>3 DEF EventsOfNamed, OfNamed
  <1> QED
    BY <1>5, <1>6, <1>7 DEF IInv

(* Each way of Register: the named context is removed and a new one, with  *)
(* an id no event has, may take its place; only the one that is named then *)
(* has a request under way.                                                *)
LEMMA ContextReplaced ==
    ASSUME IInv, NEW c \in Context,
           lastId' \in {lastId, NextId}, upper' \in [exp : Expiries, rid : Nat, cseq : 0 .. SeqMax],
           \/ /\ regs' = Removed(regs, upper.rid)
              /\ upper'.rid = upper.rid
           \/ /\ regs' = With(Removed(regs, upper.rid), NextId, c)
              /\ lastId' = NextId
              /\ upper'.rid = NextId \/ (upper'.rid = upper.rid /\ ~c.pending),
           UNCHANGED <<events, handling>>
    PROVE  ContextsOK' /\ StrayIdle' /\ EventsOfNamed'
  <1>1. lastId \in Nat /\ upper.rid \in Nat /\ upper.rid <= lastId /\ DOMAIN regs \subseteq 1 .. lastId
        /\ NextId = lastId + 1 /\ \A r \in DOMAIN regs : regs[r] \in Context
    BY DEF IInv, TypeOK, NextId
  <1>2. DOMAIN Removed(regs, upper.rid) = DOMAIN regs \ {upper.rid}
        /\ \A r \in DOMAIN regs \ {upper.rid} : Removed(regs, upper.rid)[r] = regs[r]
    BY DEF Removed, Restrict
  <1>3. \A r \in DOMAIN regs \ {upper.rid} : ~regs[r].pending
    BY DEF IInv, StrayIdle
  <1>4. \A ev \in Event \cup {NoEvent} : ev.rid <= lastId /\ OfNamed(ev) =>
            ev.rid \notin DOMAIN regs \ {upper.rid} /\ ev.rid # NextId
    BY <1>1 DEF OfNamed, Event, NoEvent, Ids
  <1>5. ASSUME \A ev \in Event \cup {NoEvent} :
                  ev.rid <= lastId /\ OfNamed(ev) => ev.rid <= lastId' /\ OfNamed(ev)'
        PROVE  EventsOfNamed'
    <2>1. events \in Seq(Event) /\ handling \in Event \cup {NoEvent}
      BY DEF IInv, TypeOK
    <2>2. \A i \in 1 .. Len(events) : events[i] \in Event
      BY <2>1
    <2>3. \A i \in 1 .. Len(events) : events[i].rid <= lastId' /\ (events[i].rid \in DOMAIN regs' => events[i].rid = upper'.rid)
      BY <1>5, <2>2, Zenon DEF IInv, EventsOfNamed, OfNamed
    <2>4. handling.rid <= lastId' /\ (handling.rid \in DOMAIN regs' => handling.rid = upper'.rid)
      BY <1>5, <2>1, Zenon DEF IInv, EventsOfNamed, OfNamed
    <2> QED
      BY <2>3, <2>4, Zenon DEF EventsOfNamed, OfNamed
  <1>6. CASE regs' = Removed(regs, upper.rid) /\ upper'.rid = upper.rid
    <2>1. DOMAIN regs' = DOMAIN regs \ {upper.rid} /\ \A r \in DOMAIN regs' : regs'[r] = regs[r]
      BY <1>2, <1>6
    <2>2. lastId' \in Nat /\ lastId <= lastId'
      BY <1>1
    <2>3. ContextsOK' /\ StrayIdle'
      BY <1>1, <1>3, <1>6, <2>1, <2>2 DEF ContextsOK, StrayIdle
    <2>4. \A ev \in Event \cup {NoEvent} :
              ev.rid <= lastId /\ OfNamed(ev) => ev.rid <= lastId' /\ OfNamed(ev)'
      BY <1>1, <1>4, <2>1, <2>2 DEF OfNamed, Event, NoEvent, Ids
    <2> QED
      BY <1>5, <2>3, <2>4
  <1>7. CASE /\ regs' = With(Removed(regs, upper.rid), NextId, c)
             /\ lastId' = NextId
             /\ upper'.rid = NextId \/ (upper'.rid = upper.rid /\ ~c.pending)
    <2>1. DOMAIN regs' = (DOMAIN regs \ {upper.rid}) \cup {NextId} /\ regs'[NextId] = c
          /\ \A r \in DOMAIN regs \ {upper.rid} : r # NextId => regs'[r] = regs[r]
      BY <1>2, <1>7 DEF With
    <2>2. NextId \notin DOMAIN regs
      BY <1>1
    <2>3. ContextsOK'
      <3>1. upper'.rid <= lastId' /\ lastId' \in Nat /\ DOMAIN regs' \subseteq 1 .. lastId'
        BY <1>1, <1>7, <2>1
      <3>2. \A r \in DOMAIN regs' : regs'[r] \in Context
        BY <1>1, <2>1, <2>2
      <3> QED
        BY <3>1, <3>2 DEF ContextsOK
    <2>4. StrayIdle'
      BY <1>3, <1>7, <2>1, <2>2 DEF StrayIdle
    <2>5. \A ev \in Event \cup {NoEvent} :
              ev.rid <= lastId /\ OfNamed(ev) => ev.rid <= lastId' /\ OfNamed(ev)'
      BY <1>1, <1>4, <1>7, <2>1 DEF OfNamed, Event, NoEvent, Ids
    <2> QED
      BY <1>5, <2>3, <2>4, <2>5
  <1> QED
    BY <1>6, <1>7

(* Register, built and sent or not.                                        *)
LEMMA RegisterStep ==
    ASSUME IInv, Register \/ RegisterBuildFails \/ RegisterSendFails
    PROVE  IInv'
  <1>1. upper.exp \in Expiries /\ upper.cseq \in 0 .. SeqMax /\ upper.rid \in Nat /\ lastId \in Nat
        /\ upper \in [exp : Expiries, rid : Nat, cseq : 0 .. SeqMax]
    BY DEF IInv, TypeOK
  <1>2. \A b \in BOOLEAN : NewContext(b) \in Context /\ NewContext(b).pending = b
    BY <1>1, NumberAssumption DEF NewContext, GetStrCSeq, Context, CSeqs
  <1>3. ASSUME upper' = [upper EXCEPT !.rid = NextId, !.cseq = Incremented(@)]
        PROVE  upper' \in [exp : Expiries, rid : Nat, cseq : 0 .. SeqMax] /\ upper'.rid = NextId
    <2>1. Incremented(upper.cseq) \in 0 .. SeqMax /\ NextId \in Nat
      BY <1>1, NumberAssumption DEF Incremented, NextId
    <2> QED
      BY <1>1, <1>3, <2>1
  <1>4. UNCHANGED <<events, handling>> /\ lastId' \in {lastId, NextId}
    BY DEF Register, RegisterBuildFails, RegisterSendFails
  <1>5. ContextsOK' /\ StrayIdle' /\ EventsOfNamed'
    <2>1. CASE Register
      <3>1. upper' \in [exp : Expiries, rid : Nat, cseq : 0 .. SeqMax] /\ upper'.rid = NextId
        BY <1>3, <2>1 DEF Register
      <3>2. regs' = With(Removed(regs, upper.rid), NextId, NewContext(TRUE)) /\ lastId' = NextId
        BY <2>1 DEF Register
      <3> QED
        BY <1>2, <1>4, <3>1, <3>2, ContextReplaced
    <2>2. CASE RegisterSendFails
      <3>1. upper' \in [exp : Expiries, rid : Nat, cseq : 0 .. SeqMax] /\ upper'.rid = NextId
        BY <1>3, <2>2 DEF RegisterSendFails
      <3>2. regs' = With(Removed(regs, upper.rid), NextId, NewContext(FALSE)) /\ lastId' = NextId
        BY <2>2 DEF RegisterSendFails
      <3> QED
        BY <1>2, <1>4, <3>1, <3>2, ContextReplaced
    <2>3. CASE RegisterBuildFails
      <3>1. upper' \in [exp : Expiries, rid : Nat, cseq : 0 .. SeqMax] /\ upper'.rid = upper.rid
        BY <1>1, <2>3 DEF RegisterBuildFails
      <3>2. \/ regs' = Removed(regs, upper.rid)
            \/ regs' = With(Removed(regs, upper.rid), NextId, NewContext(FALSE)) /\ lastId' = NextId
        BY <2>3 DEF RegisterBuildFails
      <3>3. NewContext(FALSE) \in Context /\ ~NewContext(FALSE).pending
        BY <1>2
      <3> QED
        BY <1>4, <3>1, <3>2, <3>3, ContextReplaced
    <2> QED
      BY <2>1, <2>2, <2>3
  <1>6. seen' \in CSeqs \cup {-1} /\ ordered' \in BOOLEAN
    <2>1. CASE Register
      BY <1>1, <2>1, NumberAssumption DEF Register, OnWire, GetStrCSeq, CSeqs, IInv, TypeOK
    <2>2. CASE RegisterBuildFails \/ RegisterSendFails
      BY <2>2 DEF RegisterBuildFails, RegisterSendFails, wire, IInv, TypeOK
    <2> QED
      BY <2>1, <2>2
  <1>7. UNCHANGED <<toSip, creds, events, handling, asked, exiting, alive>> /\ shared' = "none"
    BY DEF Register, RegisterBuildFails, RegisterSendFails
  <1> QED
    BY <1>5, <1>6, <1>7, Zenon DEF IInv, TypeOK, ContextsOK

(* A step that changes one context in its place.  Only the named one may   *)
(* come to have a request under way.                                       *)
LEMMA ContextUpdated ==
    ASSUME IInv, NEW r, NEW c \in Context, regs' = [regs EXCEPT ![r] = c],
           upper' \in [exp : Expiries, rid : Nat, cseq : 0 .. SeqMax], upper'.rid = upper.rid, lastId' = lastId,
           c.pending => (r \in DOMAIN regs => r = upper.rid)
    PROVE  ContextsOK' /\ StrayIdle' /\ DOMAIN regs' = DOMAIN regs
  <1>1. DOMAIN regs' = DOMAIN regs /\ \A k \in DOMAIN regs : regs'[k] = IF k = r THEN c ELSE regs[k]
    OBVIOUS
  <1>2. \A k \in DOMAIN regs' : regs'[k] \in Context
    BY <1>1 DEF IInv, TypeOK
  <1>3. StrayIdle'
    BY <1>1 DEF IInv, StrayIdle
  <1> QED
    BY <1>1, <1>2, <1>3 DEF IInv, TypeOK, ContextsOK

(* The events in the queue and in hand keep naming what they named.        *)
LEMMA SameEvents ==
    ASSUME IInv, UNCHANGED events, handling' \in {handling, NoEvent}, DOMAIN regs' = DOMAIN regs,
           upper'.rid = upper.rid, lastId' = lastId
    PROVE  EventsOfNamed'
  <1>1. lastId \in Nat /\ DOMAIN regs \subseteq 1 .. lastId
    BY DEF IInv, TypeOK
  <1>2. NoEvent.rid = 0
    BY DEF NoEvent
  <1>3. handling'.rid <= lastId' /\ (handling'.rid \in DOMAIN regs' => handling'.rid = upper'.rid)
    BY <1>1, <1>2 DEF IInv, EventsOfNamed, OfNamed
  <1> QED
    BY <1>3 DEF IInv, EventsOfNamed, OfNamed

(* An answer changes its context, which is the named one, and is of it.    *)
LEMMA AnswerStep ==
    ASSUME IInv, NEW r \in DOMAIN regs, NEW code \in Codes, Answer(r, code)
    PROVE  IInv'
  <1>1. regs[r] \in Context /\ r \in Nat /\ r # 0 /\ r <= lastId /\ lastId \in Nat
        /\ UNCHANGED <<upper, lastId, handling>>
        /\ upper \in [exp : Expiries, rid : Nat, cseq : 0 .. SeqMax]
    BY DEF Answer, IInv, TypeOK
  <1>2. PICK c : c = [regs[r] EXCEPT !.pending = FALSE]
    OBVIOUS
  <1>3. c \in Context /\ ~c.pending
    BY <1>1, <1>2 DEF Context
  <1>4. regs' = [regs EXCEPT ![r] = c]
    BY <1>2 DEF Answer
  <1>5. ContextsOK' /\ StrayIdle' /\ DOMAIN regs' = DOMAIN regs
    BY <1>1, <1>3, <1>4, ContextUpdated
  <1>6. PICK ev : ev = [rid |-> r, code |-> code]
    OBVIOUS
  <1>7. ev \in Event /\ ev.rid = r
    BY <1>1, <1>6 DEF Event, Ids
  <1>8. r = upper.rid
    BY DEF IInv, StrayIdle, Answer
  <1>9. events' = Append(events, ev) /\ events \in Seq(Event)
    BY <1>6 DEF Answer, IInv, TypeOK
  <1>10. events' \in Seq(Event)
    BY <1>7, <1>9
  <1>11. EventsOfNamed'
    <2>1. \A i \in 1 .. Len(events') : events'[i] = ev \/ (i \in 1 .. Len(events) /\ events'[i] = events[i])
      BY <1>9
    <2>2. \A i \in 1 .. Len(events') :
              events'[i].rid <= lastId' /\ (events'[i].rid \in DOMAIN regs' => events'[i].rid = upper'.rid)
      BY <1>1, <1>5, <1>7, <1>8, <2>1 DEF IInv, EventsOfNamed, OfNamed
    <2>3. handling'.rid <= lastId' /\ (handling'.rid \in DOMAIN regs' => handling'.rid = upper'.rid)
      BY <1>1, <1>5 DEF IInv, EventsOfNamed, OfNamed
    <2> QED
      BY <2>2, <2>3 DEF EventsOfNamed, OfNamed
  <1> QED
    BY <1>5, <1>10, <1>11, Zenon DEF Answer, wire, IInv, TypeOK, ContextsOK

(* eXosip's own retry stays within the context that was challenged.        *)
LEMMA DefaultActionStep ==
    ASSUME IInv, DefaultAction
    PROVE  IInv'
  <1>1. PICK ev : ev = Head(events)
    OBVIOUS
  <1>2. events \in Seq(Event) /\ events # <<>> /\ handling' = ev /\ events' = Tail(events)
        /\ UNCHANGED <<toSip, shared, upper, lastId, creds, asked, exiting, alive>>
    BY <1>1 DEF DefaultAction, TakeEvent, IInv, TypeOK
  <1>3. ev \in Event /\ events' \in Seq(Event) /\ ev = events[1] /\ Len(events') = Len(events) - 1
        /\ Len(events) \in Nat /\ \A i \in 1 .. Len(events') : events'[i] = events[i + 1]
    BY <1>1, <1>2, TailOfQueue
  <1>4. ev.rid <= lastId /\ (ev.rid \in DOMAIN regs => ev.rid = upper.rid)
    BY <1>2, <1>3 DEF IInv, EventsOfNamed, OfNamed
  <1>5. upper \in [exp : Expiries, rid : Nat, cseq : 0 .. SeqMax]
    BY DEF IInv, TypeOK
  <1>6. /\ ContextsOK' /\ StrayIdle' /\ DOMAIN regs' = DOMAIN regs
        /\ seen' \in CSeqs \cup {-1} /\ ordered' \in BOOLEAN
    <2>1. CASE /\ MayRetry(ev) /\ ~regs[ev.rid].pending
               /\ regs' = [regs EXCEPT ![ev.rid] = Retried(@)]
               /\ OnWire(regs[ev.rid].cseq + 1)
      <3>1. ev.rid \in DOMAIN regs /\ regs[ev.rid] \in Context /\ regs[ev.rid].retry < Retries
        BY <2>1 DEF MayRetry, IInv, TypeOK
      <3>2. PICK c : c = Retried(regs[ev.rid])
        OBVIOUS
      <3>3. c \in Context
        <4>1. regs[ev.rid].retry + 1 \in 0 .. Retries /\ regs[ev.rid].cseq + 1 \in CSeqs
          BY <3>1, NumberAssumption DEF Context, CSeqs
        <4>2. creds \in BOOLEAN
          BY DEF IInv, TypeOK
        <4> QED
          BY <3>1, <3>2, <4>1, <4>2 DEF Context, Retried
      <3>4. ContextsOK' /\ StrayIdle' /\ DOMAIN regs' = DOMAIN regs
        <4>1. regs' = [regs EXCEPT ![ev.rid] = c]
          BY <2>1, <3>2
        <4> QED
          BY <1>2, <1>4, <1>5, <3>3, <4>1, ContextUpdated
      <3>5. regs[ev.rid].cseq + 1 \in CSeqs
        BY <3>1 DEF Context, CSeqs
      <3>6. seen' \in CSeqs \cup {-1} /\ ordered' \in BOOLEAN
        BY <2>1, <3>5 DEF OnWire, IInv, TypeOK
      <3> QED
        BY <3>4, <3>6
    <2>2. CASE /\ MayRetry(ev)
               /\ regs' = [regs EXCEPT ![ev.rid].retry = @ + 1]
               /\ UNCHANGED wire
      <3>1. ev.rid \in DOMAIN regs /\ regs[ev.rid] \in Context /\ regs[ev.rid].retry < Retries
        BY <2>2 DEF MayRetry, IInv, TypeOK
      <3>2. PICK c : c = [regs[ev.rid] EXCEPT !.retry = @ + 1]
        OBVIOUS
      <3>3. c \in Context
        <4>1. regs[ev.rid].retry + 1 \in 0 .. Retries
          BY <3>1, NumberAssumption DEF Context
        <4> QED
          BY <3>1, <3>2, <4>1 DEF Context
      <3>4. regs' = [regs EXCEPT ![ev.rid] = c]
        BY <2>2, <3>2
      <3>5. ContextsOK' /\ StrayIdle' /\ DOMAIN regs' = DOMAIN regs
        BY <1>2, <1>4, <1>5, <3>3, <3>4, ContextUpdated
      <3> QED
        BY <2>2, <3>5 DEF wire, IInv, TypeOK
    <2>3. CASE UNCHANGED <<regs, wire>>
      BY <1>2, <2>3 DEF wire, IInv, TypeOK, ContextsOK, StrayIdle
    <2> QED
      BY <1>1, <2>1, <2>2, <2>3 DEF DefaultAction
  <1>7. EventsOfNamed'
    <2>1. \A i \in 1 .. Len(events') : i + 1 \in 1 .. Len(events)
      BY <1>3
    <2>2. \A i \in 1 .. Len(events') :
              events'[i].rid <= lastId' /\ (events'[i].rid \in DOMAIN regs' => events'[i].rid = upper'.rid)
      BY <1>2, <1>3, <1>6, <2>1 DEF IInv, EventsOfNamed, OfNamed
    <2> QED
      BY <1>2, <1>4, <1>6, <2>2 DEF EventsOfNamed, OfNamed
  <1> QED
    BY <1>2, <1>3, <1>6, <1>7, Zenon DEF IInv, TypeOK, ContextsOK

(* HandleRegFail on a 401 rebuilds the named context or only notes the     *)
(* expiry in the one the event is of.                                      *)
LEMMA ChallengeStep ==
    ASSUME IInv, HandleChallenge \/ HandleChallengeStale \/ HandleChallengeFails
    PROVE  IInv'
  <1>1. upper.exp \in Expiries /\ upper.cseq \in 0 .. SeqMax /\ upper.rid \in Nat
        /\ upper \in [exp : Expiries, rid : Nat, cseq : 0 .. SeqMax]
    BY DEF IInv, TypeOK
  <1>2. UNCHANGED <<toSip, shared, lastId, events, asked, exiting, alive>> /\ handling' = NoEvent /\ creds' = TRUE
    BY DEF HandleChallenge, HandleChallengeStale, HandleChallengeFails, Handled, Authenticated
  <1>3. ASSUME upper' = [upper EXCEPT !.cseq = Incremented(@)]
        PROVE  upper' \in [exp : Expiries, rid : Nat, cseq : 0 .. SeqMax] /\ upper'.rid = upper.rid
    <2>1. Incremented(upper.cseq) \in 0 .. SeqMax
      BY <1>1, NumberAssumption DEF Incremented
    <2> QED
      BY <1>1, <1>3, <2>1
  <1>4. CASE HandleChallenge
    <2>1. handling.rid \in DOMAIN regs /\ handling.rid = upper.rid
      BY <1>4 DEF HandleChallenge, RebuildFails, IInv, EventsOfNamed, OfNamed
    <2>2. PICK c : c = Rebuilt(regs[upper.rid])
      OBVIOUS
    <2>3. c \in Context
      <3>1. regs[upper.rid] \in Context /\ GetStrCSeq \in CSeqs
        BY <1>1, <2>1, NumberAssumption DEF GetStrCSeq, CSeqs, IInv, TypeOK
      <3> QED
        BY <1>1, <2>2, <3>1 DEF Context, Rebuilt, Authenticated
    <2>4. regs' = [regs EXCEPT ![upper.rid] = c]
      BY <1>4, <2>2 DEF HandleChallenge
    <2>5. upper' \in [exp : Expiries, rid : Nat, cseq : 0 .. SeqMax] /\ upper'.rid = upper.rid
      BY <1>3, <1>4 DEF HandleChallenge
    <2>6. ContextsOK' /\ StrayIdle' /\ DOMAIN regs' = DOMAIN regs
      BY <1>2, <2>3, <2>4, <2>5, ContextUpdated
    <2>7. EventsOfNamed'
      BY <1>2, <2>5, <2>6, SameEvents
    <2>8. seen' \in CSeqs \cup {-1} /\ ordered' \in BOOLEAN
      BY <1>1, <1>4, NumberAssumption DEF HandleChallenge, OnWire, GetStrCSeq, CSeqs, IInv, TypeOK
    <2> QED
      BY <1>2, <2>6, <2>7, <2>8, Zenon DEF IInv, TypeOK, ContextsOK
  <1>5. CASE HandleChallengeStale \/ HandleChallengeFails
    <2>1. regs' = Expiring(regs, handling.rid) /\ UNCHANGED <<seen, ordered>>
      BY <1>5 DEF HandleChallengeStale, HandleChallengeFails, wire
    <2>2. upper' \in [exp : Expiries, rid : Nat, cseq : 0 .. SeqMax] /\ upper'.rid = upper.rid
      BY <1>1, <1>3, <1>5 DEF HandleChallengeStale, HandleChallengeFails
    <2>3. DOMAIN regs' = DOMAIN regs
      BY <2>1 DEF Expiring
    <2>4. \A r \in DOMAIN regs : regs'[r] \in Context /\ regs'[r].pending = regs[r].pending
      <3> SUFFICES ASSUME NEW r \in DOMAIN regs
                   PROVE  regs'[r] \in Context /\ regs'[r].pending = regs[r].pending
        OBVIOUS
      <3>1. regs[r] \in Context
        BY DEF IInv, TypeOK
      <3>2. PICK c : c = [regs[r] EXCEPT !.expire = upper.exp]
        OBVIOUS
      <3>3. c \in Context /\ c.pending = regs[r].pending
        BY <1>1, <3>1, <3>2 DEF Context
      <3> QED
        BY <2>1, <3>1, <3>2, <3>3 DEF Expiring
    <2>5. ContextsOK'
      BY <1>2, <2>2, <2>3, <2>4 DEF ContextsOK, IInv, TypeOK
    <2>6. StrayIdle'
      BY <2>2, <2>3, <2>4 DEF IInv, StrayIdle
    <2>7. EventsOfNamed'
      BY <1>2, <2>2, <2>3, SameEvents
    <2> QED
      BY <1>2, <2>1, <2>5, <2>6, <2>7, Zenon DEF IInv, TypeOK, ContextsOK
  <1> QED
    BY <1>4, <1>5

(* The steps that leave the contexts alone.                                *)
LEMMA OtherSteps ==
    ASSUME IInv,
           \/ AppRegister \/ AppUnregister \/ AppMessage
           \/ HandleShared \/ SendMessage
           \/ HandleRegSuccess \/ HandleRefusal \/ HandleTimeout
    PROVE  IInv'
  <1>1. UNCHANGED <<lastId, regs, events>> /\ upper'.rid = upper.rid
        /\ upper' \in [exp : Expiries, rid : Nat, cseq : 0 .. SeqMax] /\ handling' \in {handling, NoEvent}
    <2>1. CASE HandleShared
      <3>1. ExpiryOf(Head(toSip)) \in Expiries
        BY DEF ExpiryOf, Expiries
      <3>2. upper \in [exp : Expiries, rid : Nat, cseq : 0 .. SeqMax]
        BY DEF IInv, TypeOK
      <3> QED
        BY <2>1, <3>1, <3>2 DEF HandleShared
    <2>2. CASE ~HandleShared
      BY <2>2 DEF AppRegister, AppUnregister, AppMessage, SendMessage, HandleRegSuccess, HandleRefusal,
                  HandleTimeout, Faults, Handled, eXosip, IInv, TypeOK
    <2> QED
      BY <2>1, <2>2
  <1>2. StrayIdle'
    BY <1>1 DEF IInv, StrayIdle
  <1>3. EventsOfNamed'
    BY <1>1, SameEvents
  <1>4. ContextsOK'
    BY <1>1 DEF IInv, TypeOK, ContextsOK
  <1>5. toSip \in Seq(Blocks) /\ Len(toSip) <= QueueCap /\ asked \in 0 .. AskMax
    BY DEF IInv, TypeOK
  <1>6. toSip' \in Seq(Blocks) /\ Len(toSip') <= QueueCap /\ shared' \in Blocks \cup {"none"}
    <2>1. CASE AppRegister \/ AppUnregister \/ AppMessage
      <3>1. PICK b \in Blocks : toSip' = Append(toSip, b) /\ Len(toSip) < QueueCap
        BY <2>1, Zenon DEF AppRegister, AppUnregister, AppMessage, Blocks
      <3>2. shared' = shared /\ shared \in Blocks \cup {"none"}
        BY <2>1 DEF AppRegister, AppUnregister, AppMessage, IInv, TypeOK
      <3> QED
        BY <1>5, <3>1, <3>2, NumberAssumption
    <2>2. CASE HandleShared
      BY <1>5, <2>2, TailOfQueue, NumberAssumption DEF HandleShared
    <2>3. CASE ~HandleShared /\ ~(AppRegister \/ AppUnregister \/ AppMessage)
      BY <2>3 DEF SendMessage, HandleRegSuccess, HandleRefusal, HandleTimeout, Faults, Handled, IInv, TypeOK
    <2> QED
      BY <2>1, <2>2, <2>3
  <1>7. asked' \in 0 .. AskMax
    BY <1>5, NumberAssumption DEF AppRegister, AppUnregister, AppMessage, HandleShared, SendMessage,
           HandleRegSuccess, HandleRefusal, HandleTimeout, Faults, Handled
  <1>8. exiting' \in BOOLEAN /\ alive' \in BOOLEAN /\ UNCHANGED <<creds, seen, ordered>>
    BY DEF AppRegister, AppUnregister, AppMessage, HandleShared, SendMessage, HandleRegSuccess, HandleRefusal,
           HandleTimeout, Faults, Handled, eXosip, wire, IInv, TypeOK
  <1>9. handling' \in Event \cup {NoEvent} /\ events' \in Seq(Event)
    BY <1>1, Zenon DEF IInv, TypeOK
  <1> QED
    BY <1>2, <1>3, <1>4, <1>6, <1>7, <1>8, <1>9, Zenon DEF IInv, TypeOK, ContextsOK

(* Every step of the two threads, the application and the platform.        *)
LEMMA NextIInv == IInv /\ [Next]_vars => IInv'
  <1> SUFFICES ASSUME IInv, [Next]_vars PROVE IInv'
    OBVIOUS
  <1>1. CASE vars' = vars
    BY <1>1 DEF vars, eXosip, wire, IInv, TypeOK, StrayIdle, EventsOfNamed, OfNamed
  <1>2. CASE Next
    BY <1>2, RegisterStep, AnswerStep, DefaultActionStep, ChallengeStep, OtherSteps DEF Next
  <1> QED
    BY <1>1, <1>2

(* The invariant of every reachable state.                                 *)
LEMMA AlwaysIInv == Spec => []IInv
  BY InitIInv, NextIInv, PTL DEF Spec

(* The process keeps its registration state, eXosip's contexts and its      *)
(* queues in their types, m_nCSeq's wrap included.                          *)
THEOREM TypeCorrect == Spec => []TypeOK
  <1>1. IInv => TypeOK
    BY DEF IInv
  <1> QED
    BY <1>1, AlwaysIInv, PTL

(* However REGISTERs, challenges, eXosip's retries, its failures and late   *)
(* answers interleave, a context that the upper domain does not name has no *)
(* request under way.                                                       *)
THEOREM StrayIdleHolds == Spec => []StrayIdle
  <1>1. IInv => StrayIdle
    BY DEF IInv
  <1> QED
    BY <1>1, AlwaysIInv, PTL

-----------------------------------------------------------------------------
(* Nothing is mislaid: every step that is none of the excused ones leaves   *)
(* something under way if there was something.                              *)

(* An event in the queue or in hand, and the contexts, are as before.       *)
LEMMA SameUnderWay ==
    ASSUME UNCHANGED <<regs, events, handling>>,
           InQueue \/ Registering => InQueue' \/ Registering', UnderWay
    PROVE  UnderWay'
  <1>1. Unsettled => Unsettled'
    BY DEF Unsettled, RebuildFails
  <1>2. OnTheWire => OnTheWire'
    BY DEF OnTheWire
  <1>3. (\E i \in 1 .. Len(events) : Counts(events[i])) => (\E i \in 1 .. Len(events) : Counts(events[i]))'
    BY DEF Counts
  <1> QED
    BY <1>1, <1>2, <1>3 DEF UnderWay

(* A block of the application joins the queue, or pfnSharedProc takes it.   *)
LEMMA BlocksKept ==
    ASSUME IInv, UnderWay, AppRegister \/ AppUnregister \/ AppMessage \/ HandleShared \/ SendMessage
    PROVE  UnderWay'
  <1>1. toSip \in Seq(Blocks)
    BY DEF IInv, TypeOK
  <1>2. UNCHANGED <<regs, events, handling>>
    BY DEF AppRegister, AppUnregister, AppMessage, HandleShared, SendMessage, eXosip
  <1>3. InQueue \/ Registering => InQueue' \/ Registering'
    <2>1. CASE AppRegister \/ AppUnregister \/ AppMessage
      <3>1. PICK b \in Blocks : toSip' = Append(toSip, b) /\ shared' = shared
        BY <2>1, Zenon DEF AppRegister, AppUnregister, AppMessage, Blocks
      <3>2. \A i \in 1 .. Len(toSip) : i \in 1 .. Len(toSip') /\ toSip'[i] = toSip[i]
        BY <1>1, <3>1
      <3> QED
        BY <3>1, <3>2 DEF InQueue, Registering
    <2>2. CASE HandleShared
      <3>1. shared = "none" /\ shared' = toSip[1] /\ toSip[1] \in Blocks /\ toSip' = Tail(toSip)
            /\ Len(toSip') = Len(toSip) - 1 /\ \A i \in 1 .. Len(toSip') : toSip'[i] = toSip[i + 1]
        BY <1>1, <2>2, TailOfQueue DEF HandleShared
      <3>2. \A i \in 1 .. Len(toSip) : i = 1 \/ (i - 1 \in 1 .. Len(toSip') /\ toSip'[i - 1] = toSip[i])
        BY <1>1, <3>1
      <3> QED
        BY <3>1, <3>2 DEF InQueue, Registering, Blocks
    <2>3. CASE SendMessage
      BY <2>3 DEF SendMessage, InQueue, Registering
    <2> QED
      BY <2>1, <2>2, <2>3
  <1> QED
    BY <1>2, <1>3, SameUnderWay

(* A REGISTER that Register has sent, and a challenge that was answered,    *)
(* are on the wire.                                                         *)
LEMMA SentOnWire ==
    ASSUME IInv, Register \/ HandleChallenge
    PROVE  OnTheWire'
  <1>1. CASE Register
    <2>1. NextId \in DOMAIN regs' /\ regs'[NextId] = NewContext(TRUE)
      BY <1>1 DEF Register, With
    <2> QED
      BY <2>1 DEF OnTheWire, NewContext
  <1>2. CASE HandleChallenge
    <2>1. upper.rid \in DOMAIN regs
      BY <1>2 DEF HandleChallenge, RebuildFails, IInv, EventsOfNamed, OfNamed
    <2>2. regs[upper.rid] \in Context
      BY <2>1 DEF IInv, TypeOK
    <2>3. upper.rid \in DOMAIN regs' /\ regs'[upper.rid] = Rebuilt(regs[upper.rid])
      BY <1>2, <2>1 DEF HandleChallenge
    <2> QED
      BY <2>2, <2>3 DEF OnTheWire, Rebuilt, Context
  <1> QED
    BY <1>1, <1>2

(* An answer takes the place of the request on the wire.                    *)
LEMMA AnswerKept ==
    ASSUME IInv, NEW r \in DOMAIN regs, NEW code \in Codes, Answer(r, code)
    PROVE  UnderWay'
  <1>1. PICK ev : ev = [rid |-> r, code |-> code]
    OBVIOUS
  <1>2. events' = Append(events, ev) /\ events \in Seq(Event) /\ ev.rid = r
    BY <1>1 DEF Answer, IInv, TypeOK
  <1>3. Len(events') \in 1 .. Len(events') /\ events'[Len(events')] = ev
    BY <1>2
  <1>4. r \in DOMAIN regs'
    BY DEF Answer
  <1> QED
    BY <1>2, <1>3, <1>4 DEF UnderWay, Counts

(* The event taken up is in hand, unless eXosip has answered it; the others *)
(* and the contexts stay.                                                   *)
LEMMA TakenUpKept ==
    ASSUME IInv, UnderWay, DefaultAction
    PROVE  UnderWay'
  <1>1. PICK ev : ev = Head(events)
    OBVIOUS
  <1>2. events \in Seq(Event) /\ events # <<>> /\ handling = NoEvent /\ handling' = ev /\ events' = Tail(events)
        /\ UNCHANGED <<toSip, shared>>
    BY <1>1 DEF DefaultAction, TakeEvent, IInv, TypeOK
  <1>3. ev \in Event /\ ev = events[1] /\ Len(events') = Len(events) - 1 /\ Len(events) \in Nat
        /\ \A i \in 1 .. Len(events') : events'[i] = events[i + 1]
    BY <1>1, <1>2, TailOfQueue
  <1>4. DOMAIN regs' = DOMAIN regs
    BY DEF DefaultAction
  <1>5. \A r \in DOMAIN regs : regs[r].pending => regs'[r].pending
    <2>1. \A r \in DOMAIN regs : regs[r] \in Context
      BY DEF IInv, TypeOK
    <2> SUFFICES ASSUME NEW r \in DOMAIN regs, regs[r].pending PROVE regs'[r].pending
      OBVIOUS
    <2>2. CASE /\ ~regs[ev.rid].pending
               /\ regs' = [regs EXCEPT ![ev.rid] = Retried(@)]
      BY <2>2
    <2>3. CASE regs' = [regs EXCEPT ![ev.rid].retry = @ + 1]
      BY <2>1, <2>3 DEF Context
    <2>4. CASE UNCHANGED regs
      BY <2>4
    <2> QED
      BY <1>1, <2>2, <2>3, <2>4 DEF DefaultAction
  <1>6. CASE InQueue \/ Registering
    BY <1>2, <1>6 DEF UnderWay, InQueue, Registering
  <1>7. CASE OnTheWire
    BY <1>4, <1>5, <1>7 DEF UnderWay, OnTheWire
  <1>8. CASE Unsettled
    <2>1. NoEvent.rid \notin DOMAIN regs /\ NoEvent.code = 401
      BY DEF NoEvent, IInv, TypeOK
    <2> QED
      BY <1>2, <1>8, <2>1 DEF Unsettled, RebuildFails
  <1>9. CASE \E i \in 1 .. Len(events) : Counts(events[i])
    <2>1. PICK i \in 1 .. Len(events) : Counts(events[i])
      BY <1>9
    <2>2. CASE i = 1
      <3>1. handling'.code # 401 \/ handling'.rid \in DOMAIN regs'
        BY <1>2, <1>3, <1>4, <2>1, <2>2 DEF Counts
      <3>2. CASE handling'.code # 401
        BY <3>2 DEF UnderWay, Unsettled
      <3>3. CASE handling'.rid \in DOMAIN regs'
        <4>1. regs'[handling'.rid].pending => OnTheWire'
          BY <3>3 DEF OnTheWire
        <4>2. ~regs'[handling'.rid].pending => Unsettled'
          BY <3>3 DEF Unsettled, RebuildFails
        <4> QED
          BY <4>1, <4>2 DEF UnderWay
      <3> QED
        BY <3>1, <3>2, <3>3
    <2>3. CASE i # 1
      <3>1. i - 1 \in 1 .. Len(events') /\ events'[i - 1] = events[i]
        BY <1>3, <2>3
      <3>2. events'[i - 1].code # 401 \/ events'[i - 1].rid \in DOMAIN regs'
        BY <1>4, <2>1, <3>1 DEF Counts
      <3> QED
        BY <3>1, <3>2 DEF UnderWay, Counts
    <2> QED
      BY <2>2, <2>3
  <1> QED
    BY <1>6, <1>7, <1>8, <1>9 DEF UnderWay

(* A challenge that there is nothing left to do for is dropped.             *)
LEMMA StaleKept ==
    ASSUME IInv, UnderWay, HandleChallengeStale
    PROVE  UnderWay'
  <1>1. UNCHANGED <<toSip, shared, events>> /\ ~Unsettled
    BY DEF HandleChallengeStale, Handled, Unsettled
  <1>2. DOMAIN regs' = DOMAIN regs
    BY DEF HandleChallengeStale, Expiring
  <1>3. \A r \in DOMAIN regs : regs'[r].pending = regs[r].pending
    <2>1. \A r \in DOMAIN regs : regs[r] \in Context
      BY DEF IInv, TypeOK
    <2> QED
      BY <2>1 DEF HandleChallengeStale, Expiring, Context
  <1>4. OnTheWire => OnTheWire'
    BY <1>2, <1>3 DEF OnTheWire
  <1>5. InQueue \/ Registering => InQueue' \/ Registering'
    BY <1>1 DEF InQueue, Registering
  <1>6. (\E i \in 1 .. Len(events) : Counts(events[i])) => (\E i \in 1 .. Len(events) : Counts(events[i]))'
    BY <1>1, <1>2 DEF Counts
  <1> QED
    BY <1>1, <1>4, <1>5, <1>6 DEF UnderWay

(* For every interleaving, and with answers that overtake the handler, the *)
(* last of what the application asked for goes only with the process or    *)
(* where eXosip cannot build or send a REGISTER.                           *)
THEOREM NotMislaidHolds == Spec => NotMislaid
  <1> DEFINE A == UnderWay /\ ~UnderWay' =>
                    ~alive' \/ RegisterBuildFails \/ RegisterSendFails \/ HandleChallengeFails
  <1>1. IInv /\ [Next]_vars => [A]_vars
    <2> SUFFICES ASSUME IInv, Next, UnderWay, ~UnderWay'
                 PROVE  ~alive' \/ RegisterBuildFails \/ RegisterSendFails \/ HandleChallengeFails
      OBVIOUS
    <2>1. CASE Register \/ HandleChallenge
      BY <2>1, SentOnWire DEF UnderWay
    <2>2. CASE HandleRegSuccess \/ HandleRefusal \/ HandleTimeout
      BY <2>2 DEF HandleRegSuccess, HandleRefusal, HandleTimeout, Faults
    <2> QED
      BY <2>1, <2>2, BlocksKept, AnswerKept, TakenUpKept, StaleKept DEF Next
  <1> QED
    BY <1>1, AlwaysIInv, PTL DEF Spec, NotMislaid
=============================================================================
