------------------------------ MODULE SipRelay ------------------------------
(***************************************************************************)
(* A gateway in relay mode (app_work_mode 2) between an upper and a lower  *)
(* domain: HandleSIP's cases for a relay, CSipServiceRealy's routing, and  *)
(* SipMessageMaker's new From, To and ids.  It all runs on pfnSIPProc.     *)
(*                                                                         *)
(* An id is a realm (its first eight digits) and a number (the rest).  Of  *)
(* a body the ids it names are kept; the empty set is a request without a  *)
(* body.  The two domains, strangers and the network are external: domains *)
(* repeat what was not answered, the network loses and reorders.  eXosip   *)
(* answers INFO and BYE outside a dialog itself, and reports a NOTIFY for  *)
(* no subscription of its own as a MESSAGE_NEW (udp.c, jcallback.c).       *)
(***************************************************************************)
EXTENDS Naturals, Sequences

CONSTANTS
    Realms, Numbers,
    Upper, Lower, Relay,   \* the configured ids of the two domains and of this one
    Strangers,             \* ids of other senders
    Addressed,             \* ids that requests are sent to
    MaxNew,                \* requests that are neither repetition nor response
    MaxSent                \* requests altogether

Id == [realm : Realms, no : Numbers]
Domains == {Upper, Lower}

ASSUME IdAssumption ==
    /\ Upper \in Id /\ Lower \in Id /\ Relay \in Id
    /\ Upper # Lower /\ Relay \notin Domains
    /\ Strangers \subseteq Id /\ Strangers \cap {Upper, Lower, Relay} = {}
    /\ Addressed \subseteq Id
ASSUME BoundAssumption == MaxNew \in Nat /\ MaxSent \in Nat

VARIABLES
    log,      \* requests sent to the relay: by whom, in answer to which, how often relayed
    events,   \* eXosip's events that wait for pfnSIPProc
    out,      \* requests of the relay on their way
    got,      \* requests of the relay that have arrived
    alive     \* the process has not read through a null pointer

vars == <<log, events, out, got, alive>>

Kinds == {"MESSAGE", "KEEPALIVE", "SUBSCRIBE", "NOTIFY", "INVITE"}
Serials == Nat \ {0}
Message == [kind : Kinds, from : Id, uri : Id, body : SUBSET Id, n : Serials]
Sent == [by : Id, msg : Message, re : Nat, relays : Nat]
Event == [type : {"NEW", "SUBSCRIPTION", "INVITE", "ANSWERED"}, msg : Message]
Relayed == [to : Domains, msg : Message]

(* What the relay sends goes to one of its two domains; an entry of the    *)
(* log answers an earlier one or none.                                     *)
TypeOK ==
    /\ log \in Seq(Sent) /\ \A n \in 1 .. Len(log) : log[n].msg.n = n /\ log[n].re < n
    /\ events \in Seq(Event)
    /\ out \subseteq Relayed /\ got \subseteq Relayed
    /\ \A n \in 1 .. Len(events) : events[n].msg.n <= Len(log)
    /\ \A m \in out \cup got : m.msg.n <= Len(log)
    /\ alive \in BOOLEAN

Init ==
    /\ log = <<>> /\ events = <<>>
    /\ out = {} /\ got = {}
    /\ alive = TRUE

-----------------------------------------------------------------------------
(* The domains and the network *)

EventType(kind) ==
    CASE kind = "SUBSCRIBE" -> "SUBSCRIPTION"
      [] kind = "INVITE" -> "INVITE"
      [] OTHER -> "NEW"

(* What is sent to a process that has faulted goes nowhere. *)
Send(d, kind, from, uri, body, re) ==
    LET m == [kind |-> kind, from |-> from, uri |-> uri, body |-> body, n |-> Len(log) + 1]
    IN  /\ alive
        /\ log' = Append(log, [by |-> d, msg |-> m, re |-> re, relays |-> 0])
        /\ events' = Append(events, [type |-> EventType(kind), msg |-> m])
        /\ UNCHANGED <<out, got, alive>>

(* A new request names what it is sent to, a device of its sender's realm, *)
(* or has no body.                                                         *)
Bodies(d, uri) == {{}, {uri}} \cup {{i} : i \in {j \in Addressed : j.realm = d.realm}}
Submit(d, kind, uri, body) ==
    /\ Len(log) < MaxNew /\ Len(log) < MaxSent
    /\ kind = "KEEPALIVE" => body # {}
    /\ Send(d, kind, d, uri, body, 0)

(* The relay does not answer a MESSAGE: its sender runs into the timeout. *)
Repeat(n) ==
    /\ Len(log) < MaxSent
    /\ LET s == log[n] IN Send(s.by, s.msg.kind, s.msg.from, s.msg.uri, s.msg.body, s.re)

(* A request arrives and is answered; the answer arrives, or does not. *)
Deliver(m, answered) ==
    /\ out' = out \ {m} /\ got' = got \cup {m}
    /\ events' = IF answered
                 THEN Append(events, [type |-> "ANSWERED", msg |-> m.msg]) ELSE events
    /\ UNCHANGED <<log, alive>>

Lose(m) ==
    /\ out' = out \ {m}
    /\ UNCHANGED <<log, events, got, alive>>

(* The lower domain responds to a query with what it was asked about; the  *)
(* NOTIFY of a subscription comes from the id that was subscribed to.      *)
Respond(m) ==
    /\ m.to = Lower /\ Len(log) < MaxSent
    /\ IF m.msg.kind = "SUBSCRIBE"
       THEN Send(Lower, "NOTIFY", m.msg.uri, Relay, m.msg.body, m.msg.n)
       ELSE Send(Lower, "MESSAGE", Lower, Relay, m.msg.body, m.msg.n)

-----------------------------------------------------------------------------
(* CSipServiceRealy and SipMessageMaker *)

(* Mutant: AddRelayRouting enters the route up only. *)
RoutingOneWay == [d \in {Lower} |-> Upper]
(* AddRelayRouting: each domain's id leads to the other domain. *)
Routing == [d \in Domains |-> IF d = Lower THEN Upper ELSE Lower]

(* Mutant: an unknown From is added to the table by operator[]. *)
get_dst_domian_byDefault(from) == IF from \in DOMAIN Routing THEN {Routing[from]} ELSE {from}
(* The domain a request is relayed to, if any. *)
get_dst_domian_by(from) == IF from \in DOMAIN Routing THEN {Routing[from]} ELSE {}

(* Mutant: whatever goes to a domain is addressed to the domain. *)
FinalTargetDomain(uri, target) == target
(* init_from_to: this domain's id becomes the target's, a device keeps its *)
(* number and gets the target's realm.                                     *)
FinalTarget(uri, target) ==
    IF uri = Relay THEN target ELSE [uri EXCEPT !.realm = target.realm]

Replaced(body, old, new) == {IF i = old THEN new ELSE i : i \in body}

(* Mutant: only the domain's id is replaced. *)
replace_id_inbodyDomain(body, uri, target) == Replaced(body, Relay, target)
replace_id_inbody(body, uri, target) ==
    Replaced(Replaced(body, Relay, target), uri, FinalTarget(uri, target))

(* Mutant: the new request keeps the From of the old one. *)
build_new_requestKeepsFrom(m, kind, target) ==
    [kind |-> kind, from |-> m.from, uri |-> FinalTarget(m.uri, target),
     body |-> replace_id_inbody(m.body, m.uri, target), n |-> m.n]
(* The new request comes from this domain. *)
build_new_request(m, kind, target) ==
    [kind |-> kind, from |-> Relay, uri |-> FinalTarget(m.uri, target),
     body |-> replace_id_inbody(m.body, m.uri, target), n |-> m.n]

(* A request of an unknown sender is dropped; the length of a body that is *)
(* not there is read through a null pointer.  Nothing is answered, and     *)
(* nobody looks whether the target is registered.                          *)
relay_request(m, kind) ==
    /\ out' = out \cup {[to |-> t, msg |-> build_new_request(m, kind, t)] :
                          t \in IF m.body = {} THEN {} ELSE get_dst_domian_by(m.from)}
    /\ log' = IF get_dst_domian_by(m.from) = {} \/ m.body = {} THEN log
              ELSE [log EXCEPT ![m.n].relays = @ + 1]
    /\ alive' = (get_dst_domian_by(m.from) = {} \/ m.body # {})
    /\ UNCHANGED got

-----------------------------------------------------------------------------
(* HandleSIP *)

Taken(type) ==
    /\ alive /\ events # <<>> /\ Head(events).type = type
    /\ events' = Tail(events)

(* EXOSIP_MESSAGE_NEW that is no REGISTER and no keepalive. *)
MessageNew ==
    /\ Taken("NEW") /\ Head(events).msg.kind # "KEEPALIVE"
    /\ relay_request(Head(events).msg, "MESSAGE")

(* OnKeepAlive, which faults for an id that is not configured. *)
KeepAlive ==
    /\ Taken("NEW") /\ Head(events).msg.kind = "KEEPALIVE"
    /\ alive' = (Head(events).msg.from \in Domains)
    /\ UNCHANGED <<log, out, got>>

(* EXOSIP_IN_SUBSCRIPTION_NEW: the 200 is built for a transaction eXosip   *)
(* does not find among its messages, and is not sent.                      *)
SubscriptionNew ==
    /\ Taken("SUBSCRIPTION")
    /\ relay_request(Head(events).msg, "SUBSCRIBE")

(* EXOSIP_MESSAGE_ANSWERED: relay_message_answered looks at the request    *)
(* that was answered, which is the relay's own.                            *)
MessageAnswered ==
    /\ Taken("ANSWERED")
    /\ relay_request(Head(events).msg, "MESSAGE")

(* EXOSIP_CALL_INVITE: the Contact of a routed INVITE is set on a null     *)
(* message.                                                                *)
CallInvite ==
    /\ Taken("INVITE")
    /\ alive' = (get_dst_domian_by(Head(events).msg.from) = {})
    /\ UNCHANGED <<log, out, got>>

HandleSIP == MessageNew \/ KeepAlive \/ SubscriptionNew \/ MessageAnswered \/ CallInvite

-----------------------------------------------------------------------------
Next ==
    \/ \E d \in Domains \cup Strangers, kind \in Kinds \ {"NOTIFY"}, uri \in Addressed :
         \E body \in Bodies(d, uri) : Submit(d, kind, uri, body)
    \/ \E n \in 1 .. Len(log) : Repeat(n)
    \/ \E m \in out : (\E answered \in BOOLEAN : Deliver(m, answered)) \/ Lose(m)
    \/ \E m \in got : Respond(m)
    \/ MessageNew \/ KeepAlive \/ SubscriptionNew \/ MessageAnswered \/ CallInvite

Spec == Init /\ [][Next]_vars

(* pfnSIPProc takes every event. *)
FairSpec == Spec /\ WF_vars(HandleSIP)

-----------------------------------------------------------------------------
(* The first eight digits tell the three domains apart. *)
DistinctRealms ==
    Upper.realm # Lower.realm /\ Relay.realm # Upper.realm /\ Relay.realm # Lower.realm

(* What the relay sends goes to the other of its two domains, never back   *)
(* where it came from, and each request is passed on once at most: neither *)
(* its answers nor the responses make the relay send it again.             *)
Confined ==
    /\ \A n \in 1 .. Len(log) : log[n].relays <= 1
    /\ \A m \in out \cup got : log[m.msg.n].by \in Domains \ {m.to}

(* What a request says of its own target or of the relay reaches the other *)
(* domain in that domain's terms: addressed within its realm, with a body  *)
(* that names the target as the address does and the relay not at all.     *)
Translated ==
    \A m \in out \cup got :
        LET s == log[m.msg.n].msg IN
          /\ m.msg.uri.realm = m.to.realm
          /\ Relay \notin m.msg.body
          /\ s.body \subseteq {Relay, s.uri} => m.msg.body \subseteq {m.to, m.msg.uri}

(* When the upper domain asks about a device under the id the lower domain *)
(* knows it by, the response that reaches it names the device by that id.  *)
(* (Asked under any other id it is answered under the lower domain's: ids  *)
(* in a response's body are not translated back.)                          *)
AnswerNamesAsked ==
    \A m \in out \cup got :
        LET q == log[m.msg.n].re IN
          (/\ q # 0
           /\ log[q].msg.uri.realm = Lower.realm
           /\ log[q].msg.body = {log[q].msg.uri})
          => m.to = Upper /\ m.msg.body = {log[q].msg.uri}

(* Nothing is skipped or overtaken: when a request has been relayed, all   *)
(* that either domain sent before it, with a body and outside a call, has  *)
(* been relayed, too, whatever answers and repetitions came in between.    *)
Passable(s) == s.msg.from \in Domains /\ s.msg.kind \notin {"KEEPALIVE", "INVITE"} /\ s.msg.body # {}
InOrder ==
    \A n, m \in 1 .. Len(log) :
        n < m /\ Passable(log[n]) /\ log[m].relays > 0 => log[n].relays > 0

(* What either domain sends, with a body and outside a call, is relayed in *)
(* the end, unless something else has made the process fault.              *)
PassedOn ==
    \A n \in 1 .. MaxSent :
        (n <= Len(log) /\ Passable(log[n]))
          ~> ((n <= Len(log) /\ log[n].relays > 0) \/ ~alive)
=============================================================================
