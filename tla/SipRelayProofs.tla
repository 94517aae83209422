--------------------------- MODULE SipRelayProofs ---------------------------
(***************************************************************************)
(* Proofs about SipRelay, for every choice of ids and bounds: the module   *)
(* is type correct and relays in order, and with three different realms    *)
(* what it relays stays confined and translated, and responses name what   *)
(* was asked.                                                              *)
(***************************************************************************)
EXTENDS SipRelay, TLAPS

-----------------------------------------------------------------------------
(* Queues *)

(* The elements of a sequence that one more was appended to. *)
LEMMA Appended ==
    ASSUME NEW S, NEW q \in Seq(S), NEW e \in S
    PROVE  /\ Append(q, e) \in Seq(S) /\ Len(Append(q, e)) = Len(q) + 1 /\ Len(q) \in Nat
           /\ \A i \in 1 .. Len(q) : Append(q, e)[i] = q[i]
           /\ Append(q, e)[Len(q) + 1] = e
           /\ \A i \in 1 .. Len(Append(q, e)) : i \in 1 .. Len(q) \/ i = Len(q) + 1
OBVIOUS

(* The elements of a sequence that the first was taken off. *)
LEMMA Rest ==
    ASSUME NEW S, NEW q \in Seq(S), q # <<>>
    PROVE  /\ Len(q) \in Nat /\ Len(q) > 0 /\ q[1] = Head(q) /\ Head(q) \in S
           /\ Tail(q) \in Seq(S) /\ Len(Tail(q)) = Len(q) - 1
           /\ \A i \in 1 .. Len(Tail(q)) : Tail(q)[i] = q[i + 1] /\ i + 1 \in 1 .. Len(q)
OBVIOUS

-----------------------------------------------------------------------------
(* The operators on ids *)

(* init_from_to turns an id into an id of the target's realm. *)
LEMMA FinalTargetId ==
    ASSUME NEW uri \in Id, NEW t \in Domains
    PROVE  FinalTarget(uri, t) \in Id /\ FinalTarget(uri, t).realm = t.realm
BY IdAssumption DEF FinalTarget, Id, Domains

(* replace_id_inbody turns a body into a body. *)
LEMMA ReplacedBody ==
    ASSUME NEW body \in SUBSET Id, NEW uri \in Id, NEW t \in Domains
    PROVE  replace_id_inbody(body, uri, t) \in SUBSET Id
<1>1. t \in Id
    BY IdAssumption DEF Domains
<1>2. Replaced(body, Relay, t) \in SUBSET Id
    BY <1>1 DEF Replaced
<1>. QED
    BY <1>2, FinalTargetId DEF replace_id_inbody, Replaced

(* The route of a request leads to a configured domain other than the one  *)
(* its From names, and the relay's own id has none.                        *)
LEMMA Route ==
    ASSUME NEW from
    PROVE  /\ get_dst_domian_by(from) \subseteq Domains
           /\ get_dst_domian_by(from) # {} => from \in Domains
           /\ from \in Domains => from \notin get_dst_domian_by(from)
           /\ get_dst_domian_by(Relay) = {}
           /\ \A t, u \in get_dst_domian_by(from) : t = u
BY IdAssumption DEF get_dst_domian_by, Routing, Domains

(* A relayed request is a request. *)
LEMMA BuiltMessage ==
    ASSUME NEW m \in Message, NEW kind \in Kinds, NEW t \in Domains
    PROVE  build_new_request(m, kind, t) \in Message
<1>1. m.uri \in Id /\ m.body \in SUBSET Id /\ m.n \in Serials
    BY DEF Message
<1>2. FinalTarget(m.uri, t) \in Id /\ replace_id_inbody(m.body, m.uri, t) \in SUBSET Id
    BY <1>1, FinalTargetId, ReplacedBody
<1>. QED
    BY <1>1, <1>2, IdAssumption DEF build_new_request, Message

-----------------------------------------------------------------------------
(* The effects of the three kinds of steps *)

(* Send adds one entry to the log and one event. *)
SentOne(d, kind, from, uri, body, re) ==
    \E m \in Message, t \in {"NEW", "SUBSCRIPTION", "INVITE"} :
        /\ m.kind = kind /\ m.from = from /\ m.uri = uri /\ m.body = body
        /\ m.n = Len(log) + 1
        /\ log' = Append(log, [by |-> d, msg |-> m, re |-> re, relays |-> 0])
        /\ events' = Append(events, [type |-> t, msg |-> m])
        /\ out' = out /\ got' = got /\ alive' = alive
LEMMA SendEffect ==
    ASSUME TypeOK, NEW d \in Id, NEW kind \in Kinds, NEW from \in Id, NEW uri \in Id,
           NEW body \in SUBSET Id, NEW re \in Nat, Send(d, kind, from, uri, body, re)
    PROVE  SentOne(d, kind, from, uri, body, re)
<1>. DEFINE m == [kind |-> kind, from |-> from, uri |-> uri, body |-> body, n |-> Len(log) + 1]
<1>1. Len(log) \in Nat
    BY DEF TypeOK
<1>2. m \in Message
    BY <1>1 DEF Message, Serials
<1>3. EventType(kind) \in {"NEW", "SUBSCRIPTION", "INVITE"}
    BY DEF EventType
<1>4. /\ log' = Append(log, [by |-> d, msg |-> m, re |-> re, relays |-> 0])
      /\ events' = Append(events, [type |-> EventType(kind), msg |-> m])
      /\ out' = out /\ got' = got /\ alive' = alive
    BY DEF Send
<1>5. m.kind = kind /\ m.from = from /\ m.uri = uri /\ m.body = body /\ m.n = Len(log) + 1
    OBVIOUS
<1>. HIDE DEF m
<1>. QED
    BY <1>2, <1>3, <1>4, <1>5 DEF SentOne

(* relay_request counts at most one relay and changes no entry otherwise;  *)
(* what it adds to out is one request, built for the route of its From.    *)
LEMMA RelayEffect ==
    ASSUME TypeOK, NEW m \in Message, NEW kind \in Kinds, m.n <= Len(log),
           relay_request(m, kind)
    PROVE  /\ got' = got /\ alive' \in BOOLEAN
           /\ log' \in Seq(Sent) /\ Len(log') = Len(log)
           /\ \A n \in 1 .. Len(log) : /\ log'[n].msg = log[n].msg /\ log'[n].by = log[n].by
                                       /\ log'[n].re = log[n].re
           /\ \A n \in 1 .. Len(log) : n # m.n => log'[n] = log[n]
           /\ get_dst_domian_by(m.from) = {} => log' = log
           /\ log'[m.n].relays <= log[m.n].relays + 1
           /\ get_dst_domian_by(m.from) # {} /\ m.body # {} => log'[m.n].relays = log[m.n].relays + 1
           /\ \A x \in out' \ out : \E t \in get_dst_domian_by(m.from) :
                 x = [to |-> t, msg |-> build_new_request(m, kind, t)]
           /\ out \subseteq out'
<1>1. m.n \in 1 .. Len(log) /\ log \in Seq(Sent) /\ Len(log) \in Nat
    BY DEF TypeOK, Message, Serials
<1>2. \A n \in 1 .. Len(log) : log[n] \in Sent
    BY <1>1
<1>3. CASE get_dst_domian_by(m.from) = {} \/ m.body = {}
    <2>1. log' = log /\ out' = out /\ got' = got /\ alive' \in BOOLEAN
        BY <1>3 DEF relay_request
    <2>2. log[m.n].relays \in Nat
        BY <1>1, <1>2 DEF Sent
    <2>. QED
        BY <1>1, <1>3, <2>1, <2>2
<1>4. CASE ~(get_dst_domian_by(m.from) = {} \/ m.body = {})
    <2>1. log' = [log EXCEPT ![m.n].relays = @ + 1]
        BY <1>4 DEF relay_request
    <2>2. [log[m.n] EXCEPT !.relays = @ + 1] \in Sent
        <3>1. PICK s \in Sent : s = log[m.n]
            BY <1>1, <1>2
        <3>2. s.relays + 1 \in Nat
            BY DEF Sent
        <3>3. [s EXCEPT !.relays = s.relays + 1] \in Sent
            BY <3>2 DEF Sent
        <3>. QED
            BY <3>1, <3>3
    <2>3. log' = [log EXCEPT ![m.n] = [log[m.n] EXCEPT !.relays = @ + 1]]
        BY <2>1
    <2>4. log' \in Seq(Sent) /\ Len(log') = Len(log)
        BY <1>1, <2>2, <2>3
    <2>5. \A n \in 1 .. Len(log) : n # m.n => log'[n] = log[n]
        BY <1>1, <2>3
    <2>6. log'[m.n] = [log[m.n] EXCEPT !.relays = @ + 1]
        BY <1>1, <2>3
    <2>7. /\ log'[m.n].msg = log[m.n].msg /\ log'[m.n].by = log[m.n].by
          /\ log'[m.n].re = log[m.n].re /\ log'[m.n].relays = log[m.n].relays + 1
        BY <2>6, <1>1, <1>2 DEF Sent
    <2>8. log[m.n].relays \in Nat
        BY <1>1, <1>2 DEF Sent
    <2>9. /\ out \subseteq out' /\ got' = got /\ alive' \in BOOLEAN
          /\ \A x \in out' \ out : \E t \in get_dst_domian_by(m.from) :
                 x = [to |-> t, msg |-> build_new_request(m, kind, t)]
        BY <1>4 DEF relay_request
    <2>. QED
        BY <1>1, <1>4, <2>4, <2>5, <2>7, <2>8, <2>9
<1>. QED
    BY <1>3, <1>4

(* Taken hands over the first event and leaves the others in order. *)
LEMMA TakenEffect ==
    ASSUME TypeOK, NEW type, Taken(type)
    PROVE  /\ Len(events) > 0 /\ events[1] = Head(events) /\ Head(events) \in Event
           /\ Head(events).type = type
           /\ Head(events).msg \in Message /\ Head(events).msg.n <= Len(log)
           /\ events' \in Seq(Event) /\ Len(events') = Len(events) - 1
           /\ \A i \in 1 .. Len(events') : events'[i] = events[i + 1] /\ i + 1 \in 1 .. Len(events)
<1>1. events \in Seq(Event) /\ events # <<>> /\ events' = Tail(events) /\ Head(events).type = type
    BY DEF TypeOK, Taken
<1>2. /\ Len(events) > 0 /\ Len(events) \in Nat /\ events[1] = Head(events) /\ Head(events) \in Event
      /\ events' \in Seq(Event) /\ Len(events') = Len(events) - 1
      /\ \A i \in 1 .. Len(events') : events'[i] = events[i + 1] /\ i + 1 \in 1 .. Len(events)
    BY <1>1, Rest
<1>3. Head(events).msg \in Message
    BY <1>2 DEF Event
<1>4. 1 \in 1 .. Len(events)
    BY <1>2
<1>5. Head(events).msg.n <= Len(log)
    BY <1>2, <1>4 DEF TypeOK
<1>. QED
    BY <1>1, <1>2, <1>3, <1>5

-----------------------------------------------------------------------------
(* Type correctness *)

LEMMA TypeSend ==
    ASSUME TypeOK, NEW d \in Id, NEW kind \in Kinds, NEW from \in Id, NEW uri \in Id,
           NEW body \in SUBSET Id, NEW re \in Nat, re <= Len(log),
           Send(d, kind, from, uri, body, re)
    PROVE  TypeOK'
<1>0. SentOne(d, kind, from, uri, body, re)
    BY SendEffect
<1>1. PICK m \in Message, t \in {"NEW", "SUBSCRIPTION", "INVITE"} :
             /\ m.kind = kind /\ m.from = from /\ m.uri = uri /\ m.body = body
             /\ m.n = Len(log) + 1
             /\ log' = Append(log, [by |-> d, msg |-> m, re |-> re, relays |-> 0])
             /\ events' = Append(events, [type |-> t, msg |-> m])
             /\ out' = out /\ got' = got /\ alive' = alive
    BY <1>0 DEF SentOne
<1>2. PICK s \in Sent : s = [by |-> d, msg |-> m, re |-> re, relays |-> 0]
    BY DEF Sent
<1>3. PICK e \in Event : e = [type |-> t, msg |-> m]
    BY DEF Event
<1>4. s.msg.n = Len(log) + 1 /\ s.re < Len(log) + 1 /\ e.msg.n = Len(log) + 1
    BY <1>1, <1>2, <1>3 DEF TypeOK
<1>5. /\ log' \in Seq(Sent) /\ Len(log') = Len(log) + 1
      /\ \A n \in 1 .. Len(log') : log'[n].msg.n = n /\ log'[n].re < n
    BY <1>1, <1>2, <1>4 DEF TypeOK
<1>6. events' \in Seq(Event) /\ \A n \in 1 .. Len(events') : events'[n].msg.n <= Len(log')
    <2>1. events' = Append(events, e) /\ events \in Seq(Event)
        BY <1>1, <1>3 DEF TypeOK
    <2>2. \A n \in 1 .. Len(events) : events[n] \in Event
        BY <2>1
    <2>3. \A n \in 1 .. Len(events) : events[n].msg.n \in Nat
        BY <2>2 DEF Event, Message, Serials
    <2>4. \A n \in 1 .. Len(events) : events[n].msg.n <= Len(log) + 1
        BY <2>3 DEF TypeOK
    <2>. QED
        BY <1>4, <1>5, <2>1, <2>4, Appended
<1>7. \A m2 \in out' \cup got' : m2.msg.n <= Len(log')
    <2>1. \A m2 \in out \cup got : m2.msg.n \in Nat
        BY DEF TypeOK, Relayed, Message, Serials
    <2>. QED
        BY <1>1, <1>5, <2>1 DEF TypeOK
<1>. QED
    BY <1>1, <1>5, <1>6, <1>7 DEF TypeOK

LEMMA TypeRelay ==
    ASSUME TypeOK, NEW type, Taken(type), NEW kind \in Kinds,
           relay_request(Head(events).msg, kind)
    PROVE  TypeOK'
<1>1. PICK m \in Message : m = Head(events).msg /\ m.n <= Len(log)
    BY TakenEffect
<1>2. relay_request(m, kind)
    BY <1>1
<1>3. /\ got' = got /\ alive' \in BOOLEAN /\ log' \in Seq(Sent) /\ Len(log') = Len(log)
      /\ \A n \in 1 .. Len(log) : log'[n].msg = log[n].msg /\ log'[n].re = log[n].re
      /\ \A x \in out' \ out : \E t \in get_dst_domian_by(m.from) :
            x = [to |-> t, msg |-> build_new_request(m, kind, t)]
    BY <1>1, <1>2, RelayEffect
<1>4. events' \in Seq(Event) /\ \A i \in 1 .. Len(events') : events'[i].msg.n <= Len(log')
    BY <1>3, TakenEffect DEF TypeOK
<1>5. \A x \in out' \ out : x \in Relayed /\ x.msg.n <= Len(log')
    <2>. SUFFICES ASSUME NEW x \in out' \ out PROVE x \in Relayed /\ x.msg.n <= Len(log')
        OBVIOUS
    <2>1. PICK t \in get_dst_domian_by(m.from) : x = [to |-> t, msg |-> build_new_request(m, kind, t)]
        BY <1>3
    <2>2. t \in Domains
        BY <2>1, Route
    <2>3. build_new_request(m, kind, t) \in Message
        BY <2>2, BuiltMessage
    <2>4. build_new_request(m, kind, t).n = m.n
        BY DEF build_new_request
    <2>. QED
        BY <1>1, <1>3, <2>1, <2>2, <2>3, <2>4 DEF Relayed
<1>. QED
    BY <1>3, <1>4, <1>5 DEF TypeOK

LEMMA TypeNext == TypeOK /\ [Next]_vars => TypeOK'
<1>. SUFFICES ASSUME TypeOK, [Next]_vars PROVE TypeOK'
    OBVIOUS
<1>1. CASE UNCHANGED vars
    BY <1>1 DEF vars, TypeOK
<1>2. ASSUME NEW d \in Domains \cup Strangers, NEW kind \in Kinds \ {"NOTIFY"}, NEW uri \in Addressed,
             NEW body \in Bodies(d, uri), Submit(d, kind, uri, body)
      PROVE  TypeOK'
    <2>1. d \in Id /\ uri \in Id /\ body \in SUBSET Id
        BY <1>2, IdAssumption DEF Domains, Bodies
    <2>2. TypeOK'
        <3>1. Send(d, kind, d, uri, body, 0) /\ 0 <= Len(log)
            BY <1>2 DEF Submit, TypeOK
        <3>. QED
            BY <2>1, <3>1, TypeSend
    <2>. QED
        BY <2>2
<1>3. ASSUME NEW n \in 1 .. Len(log), Repeat(n) PROVE TypeOK'
    <2>1. PICK s \in Sent : s = log[n] /\ s.re < n
        BY <1>3 DEF TypeOK
    <2>2. s.by \in Id /\ s.msg \in Message /\ s.re \in Nat
        BY DEF Sent
    <2>3. s.msg.kind \in Kinds /\ s.msg.from \in Id /\ s.msg.uri \in Id /\ s.msg.body \in SUBSET Id
        BY <2>2 DEF Message
    <2>4. s.re <= Len(log)
        BY <1>3, <2>1, <2>2 DEF TypeOK
    <2>5. Send(s.by, s.msg.kind, s.msg.from, s.msg.uri, s.msg.body, s.re)
        BY <1>3, <2>1 DEF Repeat
    <2>. QED
        BY <2>2, <2>3, <2>4, <2>5, TypeSend
<1>4. ASSUME NEW m \in out, NEW answered \in BOOLEAN, Deliver(m, answered) PROVE TypeOK'
    <2>1. m \in Relayed /\ m.msg \in Message /\ m.msg.n <= Len(log)
        BY DEF TypeOK, Relayed
    <2>2. PICK e \in Event : e = [type |-> "ANSWERED", msg |-> m.msg]
        BY <2>1 DEF Event
    <2>3. e.msg.n <= Len(log)
        BY <2>1, <2>2
    <2>4. events' = events \/ events' = Append(events, e)
        BY <1>4, <2>2 DEF Deliver
    <2>5. events' \in Seq(Event) /\ \A i \in 1 .. Len(events') : events'[i].msg.n <= Len(log)
        <3>1. events \in Seq(Event) /\ \A i \in 1 .. Len(events) : events[i].msg.n <= Len(log)
            BY DEF TypeOK
        <3>2. CASE events' = events
            BY <3>1, <3>2
        <3>3. CASE events' = Append(events, e)
            BY <2>3, <3>1, <3>3, Appended
        <3>. QED
            BY <2>4, <3>2, <3>3
    <2>. QED
        BY <1>4, <2>1, <2>5 DEF Deliver, TypeOK
<1>5. ASSUME NEW m \in out, Lose(m) PROVE TypeOK'
    BY <1>5 DEF Lose, TypeOK
<1>6. ASSUME NEW m \in got, Respond(m) PROVE TypeOK'
    <2>1. m.msg \in Message /\ m.msg.n <= Len(log)
        BY DEF TypeOK, Relayed
    <2>2. m.msg.uri \in Id /\ m.msg.body \in SUBSET Id /\ m.msg.n \in Nat
        BY <2>1 DEF Message, Serials
    <2>3. "NOTIFY" \in Kinds /\ "MESSAGE" \in Kinds /\ Lower \in Id /\ Relay \in Id
        BY IdAssumption DEF Kinds
    <2>4. CASE m.msg.kind = "SUBSCRIBE"
        <3>1. Send(Lower, "NOTIFY", m.msg.uri, Relay, m.msg.body, m.msg.n)
            BY <1>6, <2>4 DEF Respond
        <3>. QED
            BY <2>1, <2>2, <2>3, <3>1, TypeSend
    <2>5. CASE m.msg.kind # "SUBSCRIBE"
        <3>1. Send(Lower, "MESSAGE", Lower, Relay, m.msg.body, m.msg.n)
            BY <1>6, <2>5 DEF Respond
        <3>. QED
            BY <2>1, <2>2, <2>3, <3>1, TypeSend
    <2>. QED
        BY <2>4, <2>5
<1>7. CASE MessageNew
    BY <1>7, TypeRelay DEF MessageNew, Kinds
<1>8. CASE KeepAlive
    BY <1>8, TakenEffect DEF KeepAlive, TypeOK
<1>9. CASE SubscriptionNew
    BY <1>9, TypeRelay DEF SubscriptionNew, Kinds
<1>10. CASE MessageAnswered
    BY <1>10, TypeRelay DEF MessageAnswered, Kinds
<1>11. CASE CallInvite
    BY <1>11, TakenEffect DEF CallInvite, TypeOK
<1>. QED
    BY <1>1, <1>2, <1>3, <1>4, <1>5, <1>6, <1>7, <1>8, <1>9, <1>10, <1>11 DEF Next

(* Every request, event and relayed request has its form, and what the     *)
(* relay sends goes to one of its two domains.                             *)
THEOREM TypeCorrect == Spec => []TypeOK
<1>1. Init => TypeOK
    BY DEF Init, TypeOK
<1>. QED
    BY <1>1, TypeNext, PTL DEF Spec

-----------------------------------------------------------------------------
(* The inductive invariant.  A request that the relay has sent is the      *)
(* translation of a request that the other domain sent; an event that is   *)
(* no answer is the only one of its request and waits for its first relay; *)
(* an answer is to a request of the relay; and a From that has a route     *)
(* tells the truth.                                                        *)
BuiltFrom(m, s) ==
    /\ m.msg.from = Relay
    /\ m.msg.uri = FinalTarget(s.msg.uri, m.to)
    /\ m.msg.body = replace_id_inbody(s.msg.body, s.msg.uri, m.to)
    /\ s.by \in Domains \ {m.to}
Responds(s, q) ==
    /\ s.by = Lower /\ s.msg.uri = Relay
    /\ s.msg.body = replace_id_inbody(q.msg.body, q.msg.uri, Lower)

Honest == \A n \in 1 .. Len(log) : log[n].msg.from \in Domains => log[n].by = log[n].msg.from
Built == \A m \in out \cup got : BuiltFrom(m, log[m.msg.n])
Answering == \A n \in 1 .. Len(log) : log[n].re # 0 => Responds(log[n], log[log[n].re])
Once == \A n \in 1 .. Len(log) : log[n].relays <= 1
Pending(e) == e.type # "ANSWERED"
Waiting ==
    \A i \in 1 .. Len(events) :
        /\ ~Pending(events[i]) => events[i].msg.from = Relay
        /\ Pending(events[i]) => /\ events[i].msg = log[events[i].msg.n].msg
                                 /\ log[events[i].msg.n].relays = 0
Single ==
    \A i, j \in 1 .. Len(events) :
        Pending(events[i]) /\ Pending(events[j]) /\ events[i].msg.n = events[j].msg.n => i = j
Ind == TypeOK /\ Honest /\ Built /\ Answering /\ Once /\ Waiting /\ Single

(* A new request that tells the truth keeps the invariant. *)
LEMMA IndSend ==
    ASSUME Ind, NEW d \in Id, NEW kind \in Kinds, NEW from \in Id, NEW uri \in Id,
           NEW body \in SUBSET Id, NEW re \in Nat, re <= Len(log),
           Send(d, kind, from, uri, body, re),
           from \in Domains => d = from,
           re # 0 => /\ d = Lower /\ uri = Relay
                     /\ body = replace_id_inbody(log[re].msg.body, log[re].msg.uri, Lower)
    PROVE  Ind'
<1>0. TypeOK /\ TypeOK'
    BY TypeSend DEF Ind
<1>1. SentOne(d, kind, from, uri, body, re)
    BY <1>0, SendEffect
<1>2. PICK m \in Message, t \in {"NEW", "SUBSCRIPTION", "INVITE"} :
             /\ m.kind = kind /\ m.from = from /\ m.uri = uri /\ m.body = body
             /\ m.n = Len(log) + 1
             /\ log' = Append(log, [by |-> d, msg |-> m, re |-> re, relays |-> 0])
             /\ events' = Append(events, [type |-> t, msg |-> m])
             /\ out' = out /\ got' = got /\ alive' = alive
    BY <1>1 DEF SentOne
<1>3. PICK s \in Sent : s = [by |-> d, msg |-> m, re |-> re, relays |-> 0]
    BY DEF Sent
<1>4. PICK e \in Event : e = [type |-> t, msg |-> m]
    BY DEF Event
<1>5. /\ s.by = d /\ s.msg = m /\ s.re = re /\ s.relays = 0 /\ e.msg = m /\ Pending(e)
    BY <1>3, <1>4 DEF Pending
<1>6. log \in Seq(Sent) /\ events \in Seq(Event) /\ Len(log) \in Nat /\ Len(events) \in Nat
    BY <1>0 DEF TypeOK
<1>7. log' = Append(log, s) /\ events' = Append(events, e)
    BY <1>2, <1>3, <1>4
<1>8. /\ Len(log') = Len(log) + 1 /\ log'[Len(log) + 1] = s
      /\ \A n \in 1 .. Len(log) : log'[n] = log[n]
      /\ \A n \in 1 .. Len(log') : n \in 1 .. Len(log) \/ n = Len(log) + 1
    BY <1>6, <1>7, Appended
<1>9. /\ Len(events') = Len(events) + 1 /\ events'[Len(events) + 1] = e
      /\ \A i \in 1 .. Len(events) : events'[i] = events[i]
      /\ \A i \in 1 .. Len(events') : i \in 1 .. Len(events) \/ i = Len(events) + 1
    BY <1>6, <1>7, Appended
<1>10. \A i \in 1 .. Len(events) : events[i].msg.n \in 1 .. Len(log)
    <2>1. \A i \in 1 .. Len(events) : events[i] \in Event
        BY <1>6
    <2>2. \A i \in 1 .. Len(events) : events[i].msg.n \in Serials
        BY <2>1 DEF Event, Message
    <2>. QED
        BY <1>0, <1>6, <2>2 DEF TypeOK, Serials
<1>11. Honest'
    BY <1>2, <1>5, <1>8 DEF Ind, Honest
<1>12. Built'
    <2>1. \A x \in out \cup got : x.msg.n \in 1 .. Len(log)
        BY <1>0, <1>6 DEF TypeOK, Relayed, Message, Serials
    <2>2. \A x \in out \cup got : log'[x.msg.n] = log[x.msg.n]
        BY <1>8, <2>1
    <2>. QED
        BY <1>2, <2>2 DEF Ind, Built
<1>13. Answering'
    <2>. SUFFICES ASSUME NEW n \in 1 .. Len(log'), log'[n].re # 0
                  PROVE  Responds(log'[n], log'[log'[n].re])
        BY DEF Answering
    <2>1. CASE n \in 1 .. Len(log)
        <3>1. log'[n] = log[n] /\ log[n] \in Sent /\ log[n].re < n
            BY <1>0, <1>6, <1>8, <2>1 DEF TypeOK
        <3>2. log[n].re \in Nat
            BY <3>1 DEF Sent
        <3>3. log[n].re \in 1 .. Len(log)
            BY <3>1, <3>2, <2>1, <1>6
        <3>. QED
            BY <3>1, <3>3, <2>1, <1>8 DEF Ind, Answering
    <2>2. CASE n = Len(log) + 1
        <3>1. log'[n] = s /\ re # 0 /\ re \in 1 .. Len(log)
            BY <1>5, <1>6, <1>8, <2>2
        <3>2. log'[re] = log[re]
            BY <1>8, <3>1
        <3>. QED
            BY <1>2, <1>5, <3>1, <3>2 DEF Responds
    <2>. QED
        BY <1>8, <2>1, <2>2
<1>14. Once'
    BY <1>5, <1>8 DEF Ind, Once
<1>15. Waiting'
    <2>. SUFFICES ASSUME NEW i \in 1 .. Len(events')
                  PROVE  /\ ~Pending(events'[i]) => events'[i].msg.from = Relay
                         /\ Pending(events'[i]) => /\ events'[i].msg = log'[events'[i].msg.n].msg
                                                   /\ log'[events'[i].msg.n].relays = 0
        BY DEF Waiting
    <2>1. CASE i \in 1 .. Len(events)
        BY <1>8, <1>9, <1>10, <2>1 DEF Ind, Waiting
    <2>2. CASE i = Len(events) + 1
        BY <1>2, <1>5, <1>8, <1>9, <2>2
    <2>. QED
        BY <1>9, <2>1, <2>2
<1>16. Single'
    <2>1. e.msg.n = Len(log) + 1
        BY <1>2, <1>5
    <2>2. \A i \in 1 .. Len(events) : events[i].msg.n # e.msg.n
        BY <1>6, <1>10, <2>1
    <2>. QED
        BY <1>9, <2>2 DEF Ind, Single
<1>. QED
    BY <1>0, <1>11, <1>12, <1>13, <1>14, <1>15, <1>16 DEF Ind

(* Taking an event off keeps what holds of the others. *)
LEMMA IndTaken ==
    ASSUME Ind, NEW type, Taken(type), log' = log
    PROVE  Waiting' /\ Single'
<1>1. /\ Len(events') = Len(events) - 1 /\ Len(events) \in Nat
      /\ \A i \in 1 .. Len(events') : events'[i] = events[i + 1] /\ i + 1 \in 1 .. Len(events)
    BY TakenEffect DEF Ind, TypeOK
<1>2. Waiting'
    BY <1>1 DEF Ind, Waiting
<1>3. Single'
    BY <1>1 DEF Ind, Single
<1>. QED
    BY <1>2, <1>3

(* relay_request keeps the invariant, whatever event it is called for. *)
LEMMA IndRelay ==
    ASSUME Ind, NEW type, Taken(type), NEW kind \in Kinds,
           relay_request(Head(events).msg, kind)
    PROVE  Ind'
<1>0. TypeOK /\ TypeOK'
    BY TypeRelay DEF Ind
<1>1. PICK m \in Message : m = Head(events).msg /\ m.n <= Len(log)
    BY <1>0, TakenEffect
<1>2. relay_request(m, kind)
    BY <1>1
<1>3. /\ got' = got /\ out \subseteq out'
      /\ log' \in Seq(Sent) /\ Len(log') = Len(log)
      /\ \A n \in 1 .. Len(log) : /\ log'[n].msg = log[n].msg /\ log'[n].by = log[n].by
                                  /\ log'[n].re = log[n].re
      /\ \A n \in 1 .. Len(log) : n # m.n => log'[n] = log[n]
      /\ get_dst_domian_by(m.from) = {} => log' = log
      /\ log'[m.n].relays <= log[m.n].relays + 1
      /\ \A x \in out' \ out : \E t \in get_dst_domian_by(m.from) :
            x = [to |-> t, msg |-> build_new_request(m, kind, t)]
    BY <1>0, <1>1, <1>2, RelayEffect
<1>4. /\ m.n \in 1 .. Len(log) /\ Len(log) \in Nat /\ log \in Seq(Sent)
      /\ \A n \in 1 .. Len(log) : log[n] \in Sent /\ log[n].relays \in Nat
    <2>1. log \in Seq(Sent) /\ Len(log) \in Nat
        BY <1>0 DEF TypeOK
    <2>2. m.n \in 1 .. Len(log)
        BY <1>1, <2>1 DEF Message, Serials
    <2>3. \A n \in 1 .. Len(log) : log[n] \in Sent
        BY <2>1
    <2>. QED
        BY <2>1, <2>2, <2>3 DEF Sent
<1>5. /\ Len(events') = Len(events) - 1 /\ Len(events) \in Nat /\ Len(events) > 0
      /\ events[1].msg = m
      /\ \A i \in 1 .. Len(events') : events'[i] = events[i + 1] /\ i + 1 \in 1 .. Len(events)
    BY <1>0, <1>1, TakenEffect DEF TypeOK
<1>6. \A i \in 1 .. Len(events) : events[i].msg.n \in 1 .. Len(log)
    <2>1. \A i \in 1 .. Len(events) : events[i] \in Event
        BY <1>0 DEF TypeOK
    <2>2. \A i \in 1 .. Len(events) : events[i].msg.n \in Serials
        BY <2>1 DEF Event, Message
    <2>. QED
        BY <1>0, <1>4, <2>2 DEF TypeOK, Serials
<1>7. Honest'
    BY <1>3 DEF Ind, Honest
<1>8. Answering'
    <2>. SUFFICES ASSUME NEW n \in 1 .. Len(log), log[n].re # 0
                  PROVE  Responds(log'[n], log'[log[n].re])
        BY <1>3 DEF Answering
    <2>1. log[n].re \in Nat /\ log[n].re < n
        BY <1>0, <1>4 DEF TypeOK, Sent
    <2>2. log[n].re \in 1 .. Len(log)
        BY <1>4, <2>1
    <2>3. Responds(log[n], log[log[n].re])
        BY DEF Ind, Answering
    <2>. QED
        BY <1>3, <2>2, <2>3 DEF Responds
<1>9. \A x \in out \cup got : BuiltFrom(x, log'[x.msg.n])
    <2>1. \A x \in out \cup got : x.msg.n \in 1 .. Len(log)
        BY <1>0, <1>4 DEF TypeOK, Relayed, Message, Serials
    <2>. QED
        BY <1>3, <2>1 DEF Ind, Built, BuiltFrom
<1>10. CASE get_dst_domian_by(m.from) = {}
    <2>1. log' = log /\ out' = out
        BY <1>3, <1>10
    <2>2. Waiting' /\ Single'
        BY <2>1, IndTaken
    <2>. QED
        BY <1>0, <1>3, <1>7, <1>8, <1>9, <2>1, <2>2 DEF Ind, Built, Once
<1>11. CASE get_dst_domian_by(m.from) # {}
    <2>1. m.from \in Domains /\ m.from # Relay
        BY <1>11, Route, IdAssumption
    <2>2. Pending(events[1]) /\ m = log[m.n].msg /\ log[m.n].relays = 0
        BY <1>5, <2>1 DEF Ind, Waiting
    <2>3. log[m.n].by = m.from
        BY <1>4, <2>1, <2>2 DEF Ind, Honest
    <2>4. Built'
        <3>. SUFFICES ASSUME NEW x \in out' \ out PROVE BuiltFrom(x, log'[x.msg.n])
            BY <1>3, <1>9 DEF Built
        <3>1. PICK t \in get_dst_domian_by(m.from) :
                    x = [to |-> t, msg |-> build_new_request(m, kind, t)]
            BY <1>3
        <3>2. /\ x.to = t /\ x.msg.from = Relay /\ x.msg.n = m.n
              /\ x.msg.uri = FinalTarget(m.uri, t)
              /\ x.msg.body = replace_id_inbody(m.body, m.uri, t)
            BY <3>1 DEF build_new_request
        <3>3. m.from \in Domains \ {t}
            BY <2>1, <3>1, Route
        <3>4. log'[m.n].msg = m /\ log'[m.n].by = m.from
            BY <1>3, <1>4, <2>2, <2>3
        <3>. QED
            BY <3>2, <3>3, <3>4 DEF BuiltFrom
    <2>5. Once'
        BY <1>3, <1>4, <2>2 DEF Ind, Once
    <2>6. \A i \in 2 .. Len(events) : Pending(events[i]) => events[i].msg.n # m.n
        BY <1>5, <2>2 DEF Ind, Single
    <2>7. Waiting'
        <3>. SUFFICES ASSUME NEW i \in 1 .. Len(events')
                      PROVE  /\ ~Pending(events'[i]) => events'[i].msg.from = Relay
                             /\ Pending(events'[i]) => /\ events'[i].msg = log'[events'[i].msg.n].msg
                                                       /\ log'[events'[i].msg.n].relays = 0
            BY DEF Waiting
        <3>1. events'[i] = events[i + 1] /\ i + 1 \in 1 .. Len(events) /\ i + 1 \in 2 .. Len(events)
            BY <1>5
        <3>2. Pending(events[i + 1]) => log'[events[i + 1].msg.n] = log[events[i + 1].msg.n]
            BY <1>3, <1>6, <2>6, <3>1
        <3>. QED
            BY <3>1, <3>2 DEF Ind, Waiting
    <2>8. Single'
        BY <1>5 DEF Ind, Single
    <2>. QED
        BY <1>0, <1>7, <1>8, <2>4, <2>5, <2>7, <2>8 DEF Ind
<1>. QED
    BY <1>10, <1>11

(* Every step keeps the invariant: the domains tell the truth, because a   *)
(* subscription's NOTIFY comes from an id of the lower domain's realm.     *)
LEMMA IndNext == DistinctRealms /\ Ind /\ [Next]_vars => Ind'
<1>. SUFFICES ASSUME DistinctRealms, Ind, [Next]_vars PROVE Ind'
    OBVIOUS
<1>0. TypeOK /\ TypeOK'
    BY TypeNext DEF Ind
<1>1. CASE UNCHANGED vars
    BY <1>0, <1>1 DEF vars, Ind, Honest, Built, Answering, Once, Waiting, Single
<1>2. ASSUME NEW d \in Domains \cup Strangers, NEW kind \in Kinds \ {"NOTIFY"}, NEW uri \in Addressed,
             NEW body \in Bodies(d, uri), Submit(d, kind, uri, body)
      PROVE  Ind'
    <2>1. d \in Id /\ uri \in Id /\ body \in SUBSET Id
        BY <1>2, IdAssumption DEF Domains, Bodies
    <2>2. Send(d, kind, d, uri, body, 0) /\ 0 <= Len(log)
        BY <1>0, <1>2 DEF Submit, TypeOK
    <2>. QED
        BY <2>1, <2>2, IndSend
<1>3. ASSUME NEW n \in 1 .. Len(log), Repeat(n) PROVE Ind'
    <2>1. PICK s \in Sent : s = log[n] /\ s.re < n
        BY <1>0, <1>3 DEF TypeOK
    <2>2. s.by \in Id /\ s.msg \in Message /\ s.re \in Nat
        BY DEF Sent
    <2>3. s.msg.kind \in Kinds /\ s.msg.from \in Id /\ s.msg.uri \in Id /\ s.msg.body \in SUBSET Id
        BY <2>2 DEF Message
    <2>4. s.re <= Len(log)
        BY <1>0, <1>3, <2>1, <2>2 DEF TypeOK
    <2>5. Send(s.by, s.msg.kind, s.msg.from, s.msg.uri, s.msg.body, s.re)
        BY <1>3, <2>1 DEF Repeat
    <2>6. s.msg.from \in Domains => s.by = s.msg.from
        BY <1>3, <2>1 DEF Ind, Honest
    <2>7. s.re # 0 => /\ s.by = Lower /\ s.msg.uri = Relay
                      /\ s.msg.body = replace_id_inbody(log[s.re].msg.body, log[s.re].msg.uri, Lower)
        BY <1>3, <2>1 DEF Ind, Answering, Responds
    <2>. QED
        BY <2>2, <2>3, <2>4, <2>5, <2>6, <2>7, IndSend
<1>4. ASSUME NEW m \in out, NEW answered \in BOOLEAN, Deliver(m, answered) PROVE Ind'
    <2>1. m.msg \in Message /\ m.msg.from = Relay
        BY <1>0 DEF TypeOK, Relayed, Ind, Built, BuiltFrom
    <2>2. PICK e \in Event : e = [type |-> "ANSWERED", msg |-> m.msg]
        BY <2>1 DEF Event
    <2>3. ~Pending(e) /\ e.msg.from = Relay
        BY <2>1, <2>2 DEF Pending
    <2>4. /\ log' = log /\ out' \cup got' \subseteq out \cup got
          /\ events' = events \/ events' = Append(events, e)
        BY <1>4, <2>2 DEF Deliver
    <2>5. Honest' /\ Built' /\ Answering' /\ Once'
        BY <2>4 DEF Ind, Honest, Built, Answering, Once
    <2>6. CASE events' = events
        BY <1>0, <2>4, <2>5, <2>6 DEF Ind, Waiting, Single
    <2>7. CASE events' = Append(events, e)
        <3>1. events \in Seq(Event)
            BY <1>0 DEF TypeOK
        <3>2. /\ events'[Len(events) + 1] = e
              /\ \A i \in 1 .. Len(events) : events'[i] = events[i]
              /\ \A i \in 1 .. Len(events') : i \in 1 .. Len(events) \/ i = Len(events) + 1
            BY <2>7, <3>1, Appended
        <3>3. Waiting'
            BY <2>3, <2>4, <3>2 DEF Ind, Waiting
        <3>4. Single'
            BY <2>3, <3>2 DEF Ind, Single
        <3>. QED
            BY <1>0, <2>5, <3>3, <3>4 DEF Ind
    <2>. QED
        BY <2>4, <2>6, <2>7
<1>5. ASSUME NEW m \in out, Lose(m) PROVE Ind'
    BY <1>0, <1>5 DEF Lose, Ind, Honest, Built, Answering, Once, Waiting, Single
<1>6. ASSUME NEW m \in got, Respond(m) PROVE Ind'
    <2>1. m.to = Lower /\ m.msg \in Message /\ m.msg.n <= Len(log)
        BY <1>0, <1>6 DEF TypeOK, Relayed, Respond
    <2>2. m.msg.uri \in Id /\ m.msg.body \in SUBSET Id /\ m.msg.n \in Nat /\ m.msg.n \in 1 .. Len(log)
        BY <2>1, <1>0 DEF Message, Serials, TypeOK
    <2>3. "NOTIFY" \in Kinds /\ "MESSAGE" \in Kinds /\ Lower \in Id /\ Relay \in Id
        BY IdAssumption DEF Kinds
    <2>4. PICK s \in Sent : s = log[m.msg.n]
        BY <1>0, <2>2 DEF TypeOK
    <2>5. /\ m.msg.body = replace_id_inbody(s.msg.body, s.msg.uri, Lower)
          /\ m.msg.uri = FinalTarget(s.msg.uri, Lower)
        BY <2>1, <2>4 DEF Ind, Built, BuiltFrom
    <2>6. s.msg.uri \in Id
        BY DEF Sent, Message
    <2>7. m.msg.uri.realm = Lower.realm
        BY <2>5, <2>6, FinalTargetId DEF Domains
    <2>8. m.msg.uri \in Domains => Lower = m.msg.uri
        BY <2>7 DEF Domains, DistinctRealms
    <2>9. CASE m.msg.kind = "SUBSCRIBE"
        <3>1. Send(Lower, "NOTIFY", m.msg.uri, Relay, m.msg.body, m.msg.n)
            BY <1>6, <2>9 DEF Respond
        <3>. QED
            BY <2>1, <2>2, <2>3, <2>4, <2>5, <2>8, <3>1, IndSend
    <2>10. CASE m.msg.kind # "SUBSCRIBE"
        <3>1. Send(Lower, "MESSAGE", Lower, Relay, m.msg.body, m.msg.n)
            BY <1>6, <2>10 DEF Respond
        <3>. QED
            BY <2>1, <2>2, <2>3, <2>4, <2>5, <3>1, IndSend
    <2>. QED
        BY <2>9, <2>10
<1>7. CASE MessageNew
    BY <1>7, IndRelay DEF MessageNew, Kinds
<1>8. CASE KeepAlive
    <2>1. log' = log /\ out' = out /\ got' = got /\ Taken("NEW")
        BY <1>8 DEF KeepAlive
    <2>. QED
        BY <1>0, <2>1, IndTaken DEF Ind, Honest, Built, Answering, Once
<1>9. CASE SubscriptionNew
    BY <1>9, IndRelay DEF SubscriptionNew, Kinds
<1>10. CASE MessageAnswered
    BY <1>10, IndRelay DEF MessageAnswered, Kinds
<1>11. CASE CallInvite
    <2>1. log' = log /\ out' = out /\ got' = got /\ Taken("INVITE")
        BY <1>11 DEF CallInvite
    <2>. QED
        BY <1>0, <2>1, IndTaken DEF Ind, Honest, Built, Answering, Once
<1>. QED
    BY <1>1, <1>2, <1>3, <1>4, <1>5, <1>6, <1>7, <1>8, <1>9, <1>10, <1>11 DEF Next

LEMMA InitInd == Init => Ind
BY DEF Init, Ind, TypeOK, Honest, Built, Answering, Once, Waiting, Single

(* With three different realms every request is relayed once at most, and  *)
(* to the other domain.                                                    *)
THEOREM ConfinedHolds ==
    ASSUME DistinctRealms
    PROVE  Spec => []Confined
<1>1. Ind => Confined
    BY DEF Ind, Once, Built, BuiltFrom, Confined
<1>2. Ind /\ [Next]_vars => Ind'
    BY IndNext
<1>. QED
    BY InitInd, <1>1, <1>2, PTL DEF Spec

(* What the relay sent goes back to an entry of the log.                   *)
LEMMA Origin ==
    ASSUME Ind, NEW m \in out \cup got
    PROVE  /\ m \in Relayed /\ m.msg.n \in 1 .. Len(log)
           /\ log[m.msg.n] \in Sent /\ log[m.msg.n].msg \in Message
           /\ log[m.msg.n].re \in 0 .. (m.msg.n - 1)
<1>1. log \in Seq(Sent) /\ m \in Relayed /\ m.msg.n <= Len(log)
    BY DEF Ind, TypeOK
<1>2. m.msg \in Message
    BY <1>1 DEF Relayed
<1>3. m.msg.n \in Nat /\ m.msg.n # 0
    BY <1>2 DEF Message, Serials
<1>4. Len(log) \in Nat
    BY <1>1
<1>5. m.msg.n \in 1 .. Len(log)
    BY <1>1, <1>3, <1>4
<1>6. log[m.msg.n] \in Sent
    BY <1>1, <1>5
<1>7. log[m.msg.n].msg \in Message /\ log[m.msg.n].re \in Nat
    BY <1>6 DEF Sent
<1>8. log[m.msg.n].re < m.msg.n
    BY <1>5 DEF Ind, TypeOK
<1>9. log[m.msg.n].re \in 0 .. (m.msg.n - 1)
    BY <1>3, <1>7, <1>8
<1>. QED
    BY <1>1, <1>5, <1>6, <1>7, <1>9

(* A replacement leaves alone what does not name the old id. *)
LEMMA Untouched ==
    ASSUME NEW u, NEW old, NEW new, u # old
    PROVE  Replaced({u}, old, new) = {u}
BY DEF Replaced

(* With three different realms what is relayed is in the target's terms. *)
THEOREM TranslatedHolds ==
    ASSUME DistinctRealms
    PROVE  Spec => []Translated
<1>1. Ind => Translated
    <2>. SUFFICES ASSUME Ind, NEW m \in out \cup got
                  PROVE  LET s == log[m.msg.n].msg IN
                           /\ m.msg.uri.realm = m.to.realm
                           /\ Relay \notin m.msg.body
                           /\ s.body \subseteq {Relay, s.uri} => m.msg.body \subseteq {m.to, m.msg.uri}
        BY DEF Translated
    <2>1. m \in Relayed /\ m.msg.n \in 1 .. Len(log) /\ log[m.msg.n].msg \in Message
        BY Origin
    <2>2. PICK s \in Message : s = log[m.msg.n].msg
        BY <2>1
    <2>3. s.uri \in Id /\ s.body \in SUBSET Id /\ m.to \in Domains /\ m.to \in Id
        BY <2>1, <2>2, IdAssumption DEF Message, Relayed, Domains
    <2>4. /\ m.msg.uri = FinalTarget(s.uri, m.to)
          /\ m.msg.body = replace_id_inbody(s.body, s.uri, m.to)
        BY <2>2 DEF Ind, Built, BuiltFrom
    <2>5. m.msg.uri.realm = m.to.realm
        BY <2>3, <2>4, FinalTargetId
    <2>6. m.to # Relay /\ m.msg.uri # Relay
        BY <2>3, <2>5, IdAssumption DEF Domains, DistinctRealms
    <2>7. Relay \notin m.msg.body
        BY <2>4, <2>6 DEF replace_id_inbody, Replaced
    <2>8. s.body \subseteq {Relay, s.uri} => m.msg.body \subseteq {m.to, m.msg.uri}
        BY <2>4 DEF replace_id_inbody, Replaced
    <2>. QED
        BY <2>2, <2>5, <2>7, <2>8
<1>2. Ind /\ [Next]_vars => Ind'
    BY IndNext
<1>. QED
    BY InitInd, <1>1, <1>2, PTL DEF Spec

(* With three different realms the response to a query about a device of   *)
(* the lower domain names the device as the query did.                     *)
THEOREM AnswerNamesAskedHolds ==
    ASSUME DistinctRealms
    PROVE  Spec => []AnswerNamesAsked
<1>1. Ind => AnswerNamesAsked
    <2>. SUFFICES ASSUME Ind, NEW m \in out \cup got
                  PROVE  LET q == log[m.msg.n].re IN
                           (/\ q # 0
                            /\ log[q].msg.uri.realm = Lower.realm
                            /\ log[q].msg.body = {log[q].msg.uri})
                           => m.to = Upper /\ m.msg.body = {log[q].msg.uri}
        BY DEF AnswerNamesAsked
    <2>1. /\ m \in Relayed /\ m.msg.n \in 1 .. Len(log)
          /\ log[m.msg.n] \in Sent /\ log[m.msg.n].re \in 0 .. (m.msg.n - 1)
        BY Origin
    <2>2. PICK s \in Sent : s = log[m.msg.n]
        BY <2>1
    <2>3. PICK q \in Nat : q = log[m.msg.n].re /\ q < m.msg.n
        BY <2>1
    <2>a. log \in Seq(Sent) /\ Len(log) \in Nat
        BY DEF Ind, TypeOK
    <2>4. q # 0 => q \in 1 .. Len(log)
        BY <2>1, <2>3, <2>a
    <2>b. q # 0 => log[q].msg.uri \in Id
        <3>1. q # 0 => log[q] \in Sent
            BY <2>4, <2>a
        <3>2. q # 0 => log[q].msg \in Message
            BY <3>1 DEF Sent
        <3>. QED
            BY <3>2 DEF Message
    <2>c. SUFFICES ASSUME q # 0, log[q].msg.uri.realm = Lower.realm,
                          log[q].msg.body = {log[q].msg.uri}
                   PROVE  m.to = Upper /\ m.msg.body = {log[q].msg.uri}
        BY <2>3
    <2>5. PICK u \in Id : u = log[q].msg.uri
        BY <2>b, <2>c
    <2>6. u # Relay /\ u.realm = Lower.realm /\ log[q].msg.body = {u}
        BY <2>5, <2>c DEF DistinctRealms
    <2>7. s.by = Lower /\ s.msg.uri = Relay /\ s.msg.body = replace_id_inbody({u}, u, Lower)
        BY <2>1, <2>2, <2>3, <2>c, <2>5, <2>6 DEF Ind, Answering, Responds
    <2>8. FinalTarget(u, Lower) = u
        BY <2>6, IdAssumption DEF FinalTarget, Id
    <2>9. s.msg.body = {u}
        BY <2>6, <2>7, <2>8 DEF replace_id_inbody, Replaced
    <2>10. /\ m.msg.body = replace_id_inbody(s.msg.body, s.msg.uri, m.to)
           /\ s.by \in Domains \ {m.to} /\ m.to \in Domains
        BY <2>1, <2>2 DEF Ind, Built, BuiltFrom, Relayed
    <2>11. m.to = Upper
        BY <2>7, <2>10 DEF Domains
    <2>12. m.msg.body = {u}
        <3>1. m.msg.body = replace_id_inbody({u}, Relay, m.to)
            BY <2>7, <2>9, <2>10
        <3>2. Replaced({u}, Relay, m.to) = {u}
            BY <2>6, Untouched
        <3>3. Replaced({u}, Relay, FinalTarget(Relay, m.to)) = {u}
            BY <2>6, Untouched
        <3>. QED
            BY <3>1, <3>2, <3>3 DEF replace_id_inbody
    <2>. QED
        BY <2>5, <2>11, <2>12
<1>2. Ind /\ [Next]_vars => Ind'
    BY IndNext
<1>. QED
    BY InitInd, <1>1, <1>2, PTL DEF Spec

-----------------------------------------------------------------------------
(* Order.  Events that are no answers wait in the order of the log, behind  *)
(* everything that was relayed; none of what has to be relayed is missing   *)
(* among them; and an answer, which is to the relay's own request, counts   *)
(* for nothing.  No assumption on the realms is needed.                     *)
OwnFrom == \A m \in out \cup got : m.msg.from = Relay
Named ==
    \A i \in 1 .. Len(events) :
        /\ ~Pending(events[i]) => events[i].msg.from = Relay
        /\ Pending(events[i]) => /\ events[i].msg = log[events[i].msg.n].msg
                                 /\ events[i].type = EventType(events[i].msg.kind)
Rising ==
    \A i, j \in 1 .. Len(events) :
        i < j /\ Pending(events[i]) /\ Pending(events[j]) => events[i].msg.n < events[j].msg.n
Behind ==
    \A i \in 1 .. Len(events), n \in 1 .. Len(log) :
        Pending(events[i]) /\ log[n].relays > 0 => n < events[i].msg.n
Kept ==
    \A n \in 1 .. Len(log) :
        Passable(log[n]) /\ log[n].relays = 0
          => \E i \in 1 .. Len(events) : Pending(events[i]) /\ events[i].msg.n = n
Ord == OwnFrom /\ Named /\ Rising /\ Behind /\ Kept

(* The numbers that events and log entries carry. *)
LEMMA Counted ==
    ASSUME TypeOK
    PROVE  /\ Len(log) \in Nat /\ Len(events) \in Nat
           /\ \A i \in 1 .. Len(events) : events[i].msg.n \in 1 .. Len(log)
           /\ \A n \in 1 .. Len(log) : log[n].relays \in Nat /\ log[n].msg.n = n
<1>1. /\ log \in Seq(Sent) /\ events \in Seq(Event) /\ Len(log) \in Nat /\ Len(events) \in Nat
      /\ \A n \in 1 .. Len(log) : log[n].msg.n = n
    BY DEF TypeOK
<1>2. \A i \in 1 .. Len(events) : events[i] \in Event
    BY <1>1
<1>3. \A i \in 1 .. Len(events) : events[i].msg.n \in Serials
    BY <1>2 DEF Event, Message
<1>4. \A i \in 1 .. Len(events) : events[i].msg.n \in 1 .. Len(log)
    BY <1>1, <1>3 DEF TypeOK, Serials
<1>5. \A n \in 1 .. Len(log) : log[n] \in Sent
    BY <1>1
<1>. QED
    BY <1>1, <1>4, <1>5 DEF Sent

(* The invariant says what it is for. *)
LEMMA OrdMeans == TypeOK /\ Ord => InOrder
<1>. SUFFICES ASSUME TypeOK, Ord, NEW n \in 1 .. Len(log), NEW m \in 1 .. Len(log),
                     n < m, Passable(log[n]), log[m].relays > 0, ~(log[n].relays > 0)
              PROVE  FALSE
    BY DEF InOrder
<1>1. log[n].relays = 0
    BY Counted
<1>2. PICK i \in 1 .. Len(events) : Pending(events[i]) /\ events[i].msg.n = n
    BY <1>1 DEF Ord, Kept
<1>3. m < n
    BY <1>2 DEF Ord, Behind
<1>4. m \in Nat /\ n \in Nat
    BY Counted
<1>. QED
    BY <1>3, <1>4

(* A new request goes to the end of the log and of the events. *)
LEMMA OrdSend ==
    ASSUME TypeOK, Ord, NEW d \in Id, NEW kind \in Kinds, NEW from \in Id, NEW uri \in Id,
           NEW body \in SUBSET Id, NEW re \in Nat, Send(d, kind, from, uri, body, re)
    PROVE  Ord'
<1>1. PICK m : m = [kind |-> kind, from |-> from, uri |-> uri, body |-> body, n |-> Len(log) + 1]
    OBVIOUS
<1>2. m \in Message /\ m.kind = kind /\ m.n = Len(log) + 1
    BY <1>1, Counted DEF Message, Serials
<1>3. PICK s \in Sent : s = [by |-> d, msg |-> m, re |-> re, relays |-> 0]
    BY <1>2 DEF Sent
<1>4. EventType(kind) \in {"NEW", "SUBSCRIPTION", "INVITE"}
    BY DEF EventType
<1>5. PICK e \in Event : e = [type |-> EventType(kind), msg |-> m]
    BY <1>2, <1>4 DEF Event
<1>6. log' = Append(log, s) /\ events' = Append(events, e) /\ out' = out /\ got' = got
    BY <1>1, <1>3, <1>5 DEF Send
<1>7. s.msg = m /\ s.relays = 0 /\ e.msg = m /\ e.type = EventType(m.kind) /\ Pending(e)
    BY <1>2, <1>3, <1>4, <1>5 DEF Pending
<1>8. log \in Seq(Sent) /\ events \in Seq(Event)
    BY DEF TypeOK
<1>9. PICK L \in Nat, V \in Nat : L = Len(log) /\ V = Len(events)
    BY Counted
<1>10. /\ Len(log') = L + 1 /\ log'[L + 1] = s
       /\ \A n \in 1 .. L : log'[n] = log[n]
    BY <1>6, <1>8, <1>9, Appended
<1>11. /\ Len(events') = V + 1 /\ events'[V + 1] = e
       /\ \A i \in 1 .. V : events'[i] = events[i]
    BY <1>6, <1>8, <1>9, Appended
<1>12. \A i \in 1 .. V : events[i].msg.n \in 1 .. L
    BY <1>9, Counted
<1>13. \A i \in 1 .. (V + 1) : i \in 1 .. V \/ i = V + 1
    OBVIOUS
<1>14. \A n \in 1 .. (L + 1) : n \in 1 .. L \/ n = L + 1
    OBVIOUS
<1>15. e.msg.n = L + 1
    BY <1>2, <1>7, <1>9
<1>16. OwnFrom'
    BY <1>6 DEF Ord, OwnFrom
<1>17. Named'
    <2>. SUFFICES ASSUME NEW i \in 1 .. (V + 1)
                  PROVE  /\ ~Pending(events'[i]) => events'[i].msg.from = Relay
                         /\ Pending(events'[i]) => /\ events'[i].msg = log'[events'[i].msg.n].msg
                                                   /\ events'[i].type = EventType(events'[i].msg.kind)
        BY <1>11 DEF Named
    <2>1. CASE i \in 1 .. V
        <3>1. /\ ~Pending(events[i]) => events[i].msg.from = Relay
              /\ Pending(events[i]) => /\ events[i].msg = log[events[i].msg.n].msg
                                       /\ events[i].type = EventType(events[i].msg.kind)
            BY <1>9, <2>1 DEF Ord, Named
        <3>. QED
            BY <1>10, <1>11, <1>12, <2>1, <3>1
    <2>2. CASE i = V + 1
        BY <1>7, <1>10, <1>11, <1>15, <2>2
    <2>. QED
        BY <1>13, <2>1, <2>2
<1>18. Rising'
    <2>. SUFFICES ASSUME NEW i \in 1 .. (V + 1), NEW j \in 1 .. (V + 1), i < j,
                         Pending(events'[i]), Pending(events'[j])
                  PROVE  events'[i].msg.n < events'[j].msg.n
        BY <1>11 DEF Rising
    <2>1. i \in 1 .. V
        BY <1>13
    <2>2. CASE j \in 1 .. V
        BY <1>9, <1>11, <2>1, <2>2 DEF Ord, Rising
    <2>3. CASE j = V + 1
        BY <1>11, <1>12, <1>15, <2>1, <2>3
    <2>. QED
        BY <1>13, <2>2, <2>3
<1>19. Behind'
    <2>. SUFFICES ASSUME NEW i \in 1 .. (V + 1), NEW n \in 1 .. (L + 1),
                         Pending(events'[i]), log'[n].relays > 0
                  PROVE  n < events'[i].msg.n
        BY <1>10, <1>11 DEF Behind
    <2>1. n \in 1 .. L
        BY <1>7, <1>10, <1>14
    <2>2. CASE i \in 1 .. V
        BY <1>9, <1>10, <1>11, <2>1, <2>2 DEF Ord, Behind
    <2>3. CASE i = V + 1
        BY <1>11, <1>15, <2>1, <2>3
    <2>. QED
        BY <1>13, <2>2, <2>3
<1>20. Kept'
    <2>. SUFFICES ASSUME NEW n \in 1 .. (L + 1), Passable(log'[n]), log'[n].relays = 0
                  PROVE  \E i \in 1 .. (V + 1) : Pending(events'[i]) /\ events'[i].msg.n = n
        BY <1>10, <1>11 DEF Kept, Passable
    <2>1. CASE n \in 1 .. L
        <3>1. PICK i \in 1 .. V : Pending(events[i]) /\ events[i].msg.n = n
            BY <1>9, <1>10, <2>1 DEF Ord, Kept
        <3>. QED
            BY <1>11, <3>1
    <2>2. CASE n = L + 1
        BY <1>7, <1>11, <1>15, <2>2
    <2>. QED
        BY <1>14, <2>1, <2>2
<1>. QED
    BY <1>16, <1>17, <1>18, <1>19, <1>20 DEF Ord

(* Taking an event off keeps the order of the others. *)
LEMMA RisingTaken ==
    ASSUME TypeOK, Rising, NEW type, Taken(type)
    PROVE  Rising'
<1>. SUFFICES ASSUME NEW i \in 1 .. Len(events'), NEW j \in 1 .. Len(events'), i < j,
                     Pending(events'[i]), Pending(events'[j])
              PROVE  events'[i].msg.n < events'[j].msg.n
    BY DEF Rising
<1>1. PICK V \in Nat : V = Len(events)
    BY Counted
<1>2. /\ Len(events') = V - 1 /\ V > 0
      /\ events'[i] = events[i + 1] /\ i + 1 \in 1 .. Len(events)
      /\ events'[j] = events[j + 1] /\ j + 1 \in 1 .. Len(events)
    BY <1>1, TakenEffect
<1>3. i + 1 < j + 1
    BY <1>1, <1>2
<1>. QED
    BY <1>2, <1>3 DEF Rising

(* What else is said of them holds on; all that has to be relayed is still *)
(* among them, unless the event taken was to be relayed itself.            *)
LEMMA OrdTaken ==
    ASSUME TypeOK, Ord, NEW type, Taken(type), log' = log
    PROVE  /\ Named' /\ Rising' /\ Behind'
           /\ ~(Pending(events[1]) /\ Passable(log[events[1].msg.n])) => Kept'
<1>1. PICK V \in Nat : V = Len(events)
    BY Counted
<1>2. /\ Len(events') = V - 1 /\ V > 0
      /\ \A i \in 1 .. Len(events') : events'[i] = events[i + 1] /\ i + 1 \in 1 .. Len(events)
    BY <1>1, TakenEffect
<1>3. Named'
    <2>. SUFFICES ASSUME NEW i \in 1 .. Len(events')
                  PROVE  /\ ~Pending(events'[i]) => events'[i].msg.from = Relay
                         /\ Pending(events'[i]) => /\ events'[i].msg = log'[events'[i].msg.n].msg
                                                   /\ events'[i].type = EventType(events'[i].msg.kind)
        BY DEF Named
    <2>1. events'[i] = events[i + 1] /\ i + 1 \in 1 .. Len(events)
        BY <1>2
    <2>. QED
        BY <2>1 DEF Ord, Named
<1>4. Rising'
    BY RisingTaken DEF Ord
<1>5. Behind'
    BY <1>2 DEF Ord, Behind
<1>6. ASSUME ~(Pending(events[1]) /\ Passable(log[events[1].msg.n])) PROVE Kept'
    <2>. SUFFICES ASSUME NEW n \in 1 .. Len(log), Passable(log[n]), log[n].relays = 0
                  PROVE  \E i \in 1 .. Len(events') : Pending(events'[i]) /\ events'[i].msg.n = n
        BY DEF Kept, Passable
    <2>1. PICK i \in 1 .. V : Pending(events[i]) /\ events[i].msg.n = n
        BY <1>1 DEF Ord, Kept
    <2>2. i # 1
        BY <1>6, <2>1
    <2>3. i - 1 \in 1 .. Len(events') /\ (i - 1) + 1 = i
        BY <1>2, <2>1, <2>2
    <2>. QED
        BY <1>2, <2>1, <2>3
<1>. QED
    BY <1>3, <1>4, <1>5, <1>6

(* relay_request, called for the first event, relays it when it has to be. *)
LEMMA OrdRelay ==
    ASSUME TypeOK, Ord, NEW type, Taken(type), NEW kind \in Kinds,
           relay_request(Head(events).msg, kind)
    PROVE  Ord'
<1>1. PICK m \in Message : m = Head(events).msg /\ m.n <= Len(log)
    BY TakenEffect
<1>2. relay_request(m, kind)
    BY <1>1
<1>3. /\ got' = got /\ Len(log') = Len(log)
      /\ \A n \in 1 .. Len(log) : log'[n].msg = log[n].msg
      /\ \A n \in 1 .. Len(log) : n # m.n => log'[n] = log[n]
      /\ get_dst_domian_by(m.from) # {} /\ m.body # {} => log'[m.n].relays = log[m.n].relays + 1
      /\ \A x \in out' \ out : \E t \in get_dst_domian_by(m.from) :
            x = [to |-> t, msg |-> build_new_request(m, kind, t)]
    BY <1>1, <1>2, RelayEffect
<1>4. OwnFrom'
    BY <1>3 DEF Ord, OwnFrom, build_new_request
<1>5. PICK V \in Nat, L \in Nat : V = Len(events) /\ L = Len(log)
    BY Counted
<1>6. /\ Len(events') = V - 1 /\ V > 0 /\ events[1].msg = m /\ 1 \in 1 .. V
      /\ \A i \in 1 .. Len(events') : events'[i] = events[i + 1] /\ i + 1 \in 1 .. V
    BY <1>1, <1>5, TakenEffect
<1>7. m.n \in 1 .. L
    BY <1>5, <1>6, Counted
<1>8. CASE get_dst_domian_by(m.from) = {} \/ m.body = {}
    <2>1. log' = log
        BY <1>2, <1>8 DEF relay_request
    <2>2. m.from \notin Domains \/ m.body = {}
        BY <1>8 DEF get_dst_domian_by, Routing
    <2>3. ~(Pending(events[1]) /\ Passable(log[events[1].msg.n]))
        BY <1>5, <1>6, <2>2 DEF Ord, Named, Passable
    <2>. QED
        BY <1>4, <2>1, <2>3, OrdTaken DEF Ord
<1>9. CASE ~(get_dst_domian_by(m.from) = {} \/ m.body = {})
    <2>1. m.from \in Domains /\ m.from # Relay
        BY <1>9, Route, IdAssumption
    <2>2. Pending(events[1])
        BY <1>5, <1>6, <2>1 DEF Ord, Named
    <2>3. log'[m.n].relays > 0 /\ log'[m.n].relays # 0
        BY <1>3, <1>5, <1>7, <1>9, Counted
    <2>4. \A i \in 2 .. V : Pending(events[i]) => m.n < events[i].msg.n
        BY <1>5, <1>6, <2>2 DEF Ord, Rising
    <2>5. \A i \in 1 .. Len(events') : i + 1 \in 2 .. V
        BY <1>6
    <2>6. Named'
        <3>1. \A i \in 1 .. V : events[i].msg.n \in 1 .. L
            BY <1>5, Counted
        <3>. SUFFICES ASSUME NEW i \in 1 .. Len(events')
                      PROVE  /\ ~Pending(events'[i]) => events'[i].msg.from = Relay
                             /\ Pending(events'[i]) => /\ events'[i].msg = log'[events'[i].msg.n].msg
                                                       /\ events'[i].type = EventType(events'[i].msg.kind)
            BY DEF Named
        <3>2. events'[i] = events[i + 1] /\ i + 1 \in 1 .. V
            BY <1>6
        <3>3. log'[events[i + 1].msg.n].msg = log[events[i + 1].msg.n].msg
            BY <1>3, <1>5, <3>1, <3>2
        <3>. QED
            BY <1>5, <3>2, <3>3 DEF Ord, Named
    <2>7. Rising'
        BY RisingTaken DEF Ord
    <2>8. Behind'
        <3>. SUFFICES ASSUME NEW i \in 1 .. Len(events'), NEW n \in 1 .. L,
                             Pending(events'[i]), log'[n].relays > 0
                      PROVE  n < events'[i].msg.n
            BY <1>3, <1>5 DEF Behind
        <3>1. CASE n = m.n
            BY <1>6, <2>4, <2>5, <3>1
        <3>2. CASE n # m.n
            BY <1>3, <1>5, <1>6, <3>2 DEF Ord, Behind
        <3>. QED
            BY <3>1, <3>2
    <2>9. Kept'
        <3>. SUFFICES ASSUME NEW n \in 1 .. L, Passable(log'[n]), log'[n].relays = 0
                      PROVE  \E i \in 1 .. Len(events') : Pending(events'[i]) /\ events'[i].msg.n = n
            BY <1>3, <1>5 DEF Kept, Passable
        <3>1. n # m.n
            BY <2>3
        <3>2. Passable(log[n]) /\ log[n].relays = 0
            BY <1>3, <1>5, <3>1
        <3>3. PICK i \in 1 .. V : Pending(events[i]) /\ events[i].msg.n = n
            BY <1>5, <3>2 DEF Ord, Kept
        <3>4. i # 1
            BY <1>6, <3>1, <3>3
        <3>5. i - 1 \in 1 .. Len(events') /\ (i - 1) + 1 = i
            BY <1>6, <3>3, <3>4
        <3>. QED
            BY <1>6, <3>3, <3>5
    <2>. QED
        BY <1>4, <2>6, <2>7, <2>8, <2>9 DEF Ord
<1>. QED
    BY <1>8, <1>9

(* Every step keeps the order. *)
LEMMA OrdNext == TypeOK /\ Ord /\ [Next]_vars => Ord'
<1>. SUFFICES ASSUME TypeOK, Ord, [Next]_vars PROVE Ord'
    OBVIOUS
<1>1. CASE UNCHANGED vars
    BY <1>1 DEF vars, Ord, OwnFrom, Named, Rising, Behind, Kept, Passable
<1>2. ASSUME NEW d \in Domains \cup Strangers, NEW kind \in Kinds \ {"NOTIFY"}, NEW uri \in Addressed,
             NEW body \in Bodies(d, uri), Submit(d, kind, uri, body)
      PROVE  Ord'
    <2>1. d \in Id /\ uri \in Id /\ body \in SUBSET Id
        BY <1>2, IdAssumption DEF Domains, Bodies
    <2>2. Send(d, kind, d, uri, body, 0)
        BY <1>2 DEF Submit
    <2>. QED
        BY <2>1, <2>2, OrdSend
<1>3. ASSUME NEW n \in 1 .. Len(log), Repeat(n) PROVE Ord'
    <2>1. PICK s \in Sent : s = log[n]
        BY <1>3 DEF TypeOK
    <2>2. s.by \in Id /\ s.msg \in Message /\ s.re \in Nat
        BY DEF Sent
    <2>3. s.msg.kind \in Kinds /\ s.msg.from \in Id /\ s.msg.uri \in Id /\ s.msg.body \in SUBSET Id
        BY <2>2 DEF Message
    <2>4. Send(s.by, s.msg.kind, s.msg.from, s.msg.uri, s.msg.body, s.re)
        BY <1>3, <2>1 DEF Repeat
    <2>. QED
        BY <2>2, <2>3, <2>4, OrdSend
<1>4. ASSUME NEW m \in out, NEW answered \in BOOLEAN, Deliver(m, answered) PROVE Ord'
    <2>1. m.msg \in Message /\ m.msg.from = Relay
        BY DEF TypeOK, Relayed, Ord, OwnFrom
    <2>2. PICK e \in Event : e = [type |-> "ANSWERED", msg |-> m.msg]
        BY <2>1 DEF Event
    <2>3. ~Pending(e) /\ e.msg.from = Relay
        BY <2>1, <2>2 DEF Pending
    <2>4. /\ log' = log /\ out' \cup got' \subseteq out \cup got
          /\ events' = events \/ events' = Append(events, e)
        BY <1>4, <2>2 DEF Deliver
    <2>5. OwnFrom'
        BY <2>4 DEF Ord, OwnFrom
    <2>6. CASE events' = events
        BY <2>4, <2>5, <2>6 DEF Ord, Named, Rising, Behind, Kept, Passable
    <2>7. CASE events' = Append(events, e)
        <3>1. events \in Seq(Event)
            BY DEF TypeOK
        <3>2. /\ events'[Len(events) + 1] = e
              /\ \A i \in 1 .. Len(events) : events'[i] = events[i] /\ i \in 1 .. Len(events')
              /\ \A i \in 1 .. Len(events') : i \in 1 .. Len(events) \/ i = Len(events) + 1
            BY <2>7, <3>1, Appended
        <3>3. Named'
            BY <2>3, <2>4, <3>2 DEF Ord, Named
        <3>4. Rising'
            BY <2>3, <3>2 DEF Ord, Rising
        <3>5. Behind'
            BY <2>3, <2>4, <3>2 DEF Ord, Behind
        <3>6. Kept'
            <4>. SUFFICES ASSUME NEW n \in 1 .. Len(log), Passable(log[n]), log[n].relays = 0
                          PROVE  \E i \in 1 .. Len(events') : Pending(events'[i]) /\ events'[i].msg.n = n
                BY <2>4 DEF Kept, Passable
            <4>1. PICK i \in 1 .. Len(events) : Pending(events[i]) /\ events[i].msg.n = n
                BY DEF Ord, Kept
            <4>. QED
                BY <3>2, <4>1
        <3>. QED
            BY <2>5, <3>3, <3>4, <3>5, <3>6 DEF Ord
    <2>. QED
        BY <2>4, <2>6, <2>7
<1>5. ASSUME NEW m \in out, Lose(m) PROVE Ord'
    BY <1>5 DEF Lose, Ord, OwnFrom, Named, Rising, Behind, Kept, Passable
<1>6. ASSUME NEW m \in got, Respond(m) PROVE Ord'
    <2>1. m.msg \in Message
        BY DEF TypeOK, Relayed
    <2>2. m.msg.uri \in Id /\ m.msg.body \in SUBSET Id /\ m.msg.n \in Nat
        BY <2>1 DEF Message, Serials
    <2>3. "NOTIFY" \in Kinds /\ "MESSAGE" \in Kinds /\ Lower \in Id /\ Relay \in Id
        BY IdAssumption DEF Kinds
    <2>4. \/ Send(Lower, "NOTIFY", m.msg.uri, Relay, m.msg.body, m.msg.n)
          \/ Send(Lower, "MESSAGE", Lower, Relay, m.msg.body, m.msg.n)
        BY <1>6 DEF Respond
    <2>. QED
        BY <2>2, <2>3, <2>4, OrdSend
<1>7. CASE MessageNew \/ SubscriptionNew \/ MessageAnswered
    BY <1>7, OrdRelay DEF MessageNew, SubscriptionNew, MessageAnswered, Kinds
<1>8. CASE KeepAlive \/ CallInvite
    <2>1. PICK type \in {"NEW", "INVITE"} : Taken(type) /\ log' = log /\ out' = out /\ got' = got
        BY <1>8 DEF KeepAlive, CallInvite
    <2>2. Head(events) = events[1] /\ Head(events).type = type /\ 1 \in 1 .. Len(events)
        BY <2>1, TakenEffect, Counted
    <2>3. Head(events).msg.kind = "KEEPALIVE" \/ Head(events).type = "INVITE"
        BY <1>8 DEF KeepAlive, CallInvite, Taken
    <2>4. ~(Pending(events[1]) /\ Passable(log[events[1].msg.n]))
        BY <2>2, <2>3 DEF Ord, Named, Passable, EventType
    <2>. QED
        BY <2>1, <2>4, OrdTaken DEF Ord, OwnFrom
<1>. QED
    BY <1>1, <1>2, <1>3, <1>4, <1>5, <1>6, <1>7, <1>8 DEF Next

(* Requests are relayed in the order they came, and none that has to be    *)
(* relayed is skipped, whatever the realms, the losses and the repetitions. *)
THEOREM InOrderHolds == Spec => []InOrder
<1>1. Init => TypeOK /\ Ord
    BY DEF Init, TypeOK, Ord, OwnFrom, Named, Rising, Behind, Kept
<1>. QED
    BY <1>1, TypeNext, OrdNext, OrdMeans, PTL DEF Spec
=============================================================================
