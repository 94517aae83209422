------------------------- MODULE SipRegistrarProofs -------------------------
(* BeliefMatches, NoUncheckedAccess and AnsweredUnlessLeft of SipRegistrar  *)
(* for every set of domains, every configuration and every choice of        *)
(* nNeedAuth, and its type correctness.                                     *)
EXTENDS SipRegistrar, TLAPS

(* DealStatus_Sent401 never runs: the status it waits for is never stored. *)
NeverSent401 == \A d \in Configured : nStatus[d] \notin {"SENT_401", "SENDT_403"}

(* Only the domains that may leave ask to.                                  *)
MayLeave(m) == m.kind = "REGISTER" /\ m.leave => m.id \in Unregistering
LeaversOnly ==
    /\ \A i \in 1 .. Len(net) : MayLeave(net[i])
    /\ hand # Idle => MayLeave(hand.req)

(* What is on its way to a domain, and what is still to be sent, agrees     *)
(* with what is stored as much as what has arrived.                         *)
RepliesAgree == \A r \in replies : Agrees(r.id, r.means)
HandAgrees ==
    hand # Idle /\ hand.req.kind = "REGISTER" =>
        \A i \in 1 .. Len(hand.todo) : Agrees(hand.req.id, Meaning(hand.todo[i].code, hand.req))

(* Every variable has its type, and a handler that is not done has an       *)
(* answer to give.                                                          *)
Shape == TypeOK /\ (hand # Idle => hand.todo # <<>>)

Inv ==
    /\ Shape /\ NeverSent401 /\ LeaversOnly
    /\ BeliefMatches /\ RepliesAgree /\ HandAgrees /\ NoUncheckedAccess

(* The configured ids are among those that requests name.                  *)
LEMMA ConfiguredIsDomain == Configured \subseteq Domains
  BY DEF Configured, Domains

(* A registrar that has just read its configuration.                       *)
LEMMA InitInv == Init => Inv
  <1> SUFFICES ASSUME Init PROVE Inv
    OBVIOUS
  <1>1. net = <<>> /\ Len(net) = 0 /\ Len(net) <= NetCap /\ net \in Seq(Request)
    BY DomainAssumption DEF Init
  <1>2. nStatus \in [Configured -> Stored] /\ told \in [Domains -> Told] /\ replies \subseteq Reply
    BY DEF Init, Stored, Told
  <1>3. alive \in [Configured -> BOOLEAN] /\ fault \in BOOLEAN /\ hand \in Hand \cup {Idle}
    BY Zenon DEF Init
  <1>4. Shape
    BY <1>1, <1>2, <1>3, Zenon DEF Shape, TypeOK, Init
  <1> QED
    BY <1>1, <1>4 DEF Init, Inv, NeverSent401, BeliefMatches, NoUncheckedAccess, RepliesAgree, HandAgrees,
                      LeaversOnly, Agrees

(* The stored status of a domain moves from registered only to left, and    *)
(* from left not at all: what a domain was told stays in agreement.         *)
LEMMA AgreesKept ==
    ASSUME Inv, NEW m, m.id \in Configured, nStatus[m.id] \in {"NOT_REGISTER", "SUCCESS"}, MayLeave(m),
           m.kind = "REGISTER", DealStatus_DefaultRegister(m), NEW d, NEW w, Agrees(d, w)
    PROVE  Agrees(d, w)'
  <1>1. nStatus \in [Configured -> Stored]
    BY DEF Inv, Shape, TypeOK
  <1>2. nStatus' = [nStatus EXCEPT ![m.id] = IF m.leave THEN "EXIT" ELSE "SUCCESS"]
    BY DEF DealStatus_DefaultRegister
  <1> QED
    BY <1>1, <1>2 DEF Agrees, MayLeave

(* A request that is taken is well typed and leaves room.                  *)
LEMMA TakenFacts ==
    ASSUME Inv, Taken
    PROVE  /\ Head(net) \in Request /\ MayLeave(Head(net)) /\ Head(net).id \in Domains /\ hand = Idle
           /\ net' \in Seq(Request) /\ Len(net') <= NetCap
           /\ \A i \in 1 .. Len(net') : MayLeave(net'[i])
  <1>1. net \in Seq(Request) /\ net # <<>> /\ net' = Tail(net) /\ Len(net) <= NetCap /\ hand = Idle
    BY DEF Taken, Inv, Shape, TypeOK
  <1>2. Len(net) \in Nat \ {0} /\ Len(net') = Len(net) - 1 /\ Head(net) = net[1] /\ Head(net) \in Request
        /\ net' \in Seq(Request) /\ \A i \in 1 .. Len(net') : net'[i] = net[i + 1] /\ i + 1 \in 1 .. Len(net)
    BY <1>1
  <1>3. MayLeave(net[1]) /\ \A i \in 1 .. Len(net') : MayLeave(net'[i])
    BY <1>2 DEF Inv, LeaversOnly
  <1>4. Head(net).id \in Domains
    BY <1>2 DEF Request
  <1> QED
    BY <1>1, <1>2, <1>3, <1>4, DomainAssumption

(* A handler that stores nothing and is left with refusals to give.         *)
LEMMA RefusedStep ==
    ASSUME Inv, Taken, NEW todo \in Seq(Answers), todo # <<>>,
           Head(net).kind = "KEEPALIVE" \/ \A i \in 1 .. Len(todo) : todo[i].code \in {401, 403},
           ToAnswer(Head(net), todo), UNCHANGED <<nStatus, replies, told>>,
           alive' \in [Configured -> BOOLEAN], fault' \in BOOLEAN
    PROVE  Inv'
  <1>1. PICK m : m = Head(net)
    OBVIOUS
  <1>2. m \in Request /\ MayLeave(m) /\ m.id \in Domains /\ hand = Idle
    BY <1>1, TakenFacts
  <1>3. hand' = [req |-> m, todo |-> todo, answered |-> FALSE]
    BY <1>1 DEF ToAnswer
  <1>4. hand' \in Hand /\ hand'.todo = todo /\ hand'.req = m
    BY <1>2, <1>3 DEF Hand
  <1>5. Shape'
    BY <1>4, TakenFacts DEF Inv, Shape, TypeOK
  <1>6. HandAgrees'
    <2> SUFFICES ASSUME m.kind = "REGISTER", NEW i \in 1 .. Len(todo)
                 PROVE  Meaning(todo[i].code, m) \notin {"in", "left"}
      BY <1>4 DEF HandAgrees, Agrees
    <2>1. todo[i].code \in {401, 403}
      BY <1>1
    <2> QED
      BY <2>1 DEF Meaning
  <1>7. LeaversOnly'
    BY <1>2, <1>4, TakenFacts DEF LeaversOnly
  <1>8. NeverSent401' /\ BeliefMatches' /\ RepliesAgree' /\ NoUncheckedAccess'
    BY DEF Inv, NeverSent401, BeliefMatches, RepliesAgree, NoUncheckedAccess, Agrees
  <1> QED
    BY <1>5, <1>6, <1>7, <1>8 DEF Inv

(* A handler that answers nothing.                                          *)
LEMMA DroppedStep ==
    ASSUME Inv, Taken, UNCHANGED <<nStatus, hand, replies, told>>, fault' \in BOOLEAN,
           alive' \in [Configured -> BOOLEAN]
    PROVE  Inv'
  <1>1. Shape'
    BY TakenFacts DEF Inv, Shape, TypeOK
  <1>2. LeaversOnly' /\ HandAgrees'
    BY TakenFacts DEF LeaversOnly, HandAgrees
  <1>3. NeverSent401' /\ BeliefMatches' /\ RepliesAgree' /\ NoUncheckedAccess'
    BY DEF Inv, NeverSent401, BeliefMatches, RepliesAgree, NoUncheckedAccess, Agrees
  <1> QED
    BY <1>1, <1>2, <1>3 DEF Inv

(* A REGISTER that is let in: stored first, to be answered then.            *)
LEMMA DefaultStep ==
    ASSUME Inv, Taken, Head(net).kind = "REGISTER", Head(net).id \in Configured, Head(net).id \notin NeedAuth,
           nStatus[Head(net).id] \in {"NOT_REGISTER", "SUCCESS"},
           DealStatus_DefaultRegister(Head(net)), UNCHANGED <<alive, replies, told, fault>>
    PROVE  Inv'
  <1>1. PICK m : m = Head(net)
    OBVIOUS
  <1>2. m \in Request /\ MayLeave(m) /\ m.id \in Domains /\ m.id \in Configured /\ m.kind = "REGISTER"
        /\ nStatus[m.id] \in {"NOT_REGISTER", "SUCCESS"} /\ DealStatus_DefaultRegister(m)
    BY <1>1, TakenFacts
  <1>3. PICK todo : todo = <<Reg(200)>>
    OBVIOUS
  <1>4. todo \in Seq(Answers) /\ todo # <<>> /\ Len(todo) = 1 /\ todo[1].code = 200
    BY <1>3 DEF Answers, Reg
  <1>5. hand' = [req |-> m, todo |-> todo, answered |-> FALSE]
    BY <1>2, <1>3 DEF DealStatus_DefaultRegister, ToAnswer
  <1>6. hand' \in Hand /\ hand'.todo = todo /\ hand'.req = m
    BY <1>2, <1>4, <1>5 DEF Hand
  <1>7. nStatus' = [nStatus EXCEPT ![m.id] = IF m.leave THEN "EXIT" ELSE "SUCCESS"]
        /\ nStatus \in [Configured -> Stored]
    BY <1>2 DEF DealStatus_DefaultRegister, Inv, Shape, TypeOK
  <1>8. Shape'
    <2>1. nStatus' \in [Configured -> Stored]
      BY <1>7 DEF Stored
    <2> QED
      BY <1>4, <1>6, <2>1, TakenFacts DEF Inv, Shape, TypeOK
  <1>9. NeverSent401' /\ NoUncheckedAccess'
    BY <1>1, <1>7 DEF Inv, NeverSent401, NoUncheckedAccess
  <1>10. \A d, w : Agrees(d, w) => Agrees(d, w)'
    BY <1>2, AgreesKept
  <1>11. BeliefMatches' /\ RepliesAgree'
    <2>1. \A d \in Domains : Agrees(d, told[d])
      BY DEF Inv, BeliefMatches
    <2>2. \A r \in replies : Agrees(r.id, r.means)
      BY DEF Inv, RepliesAgree
    <2>3. \A d \in Domains : Agrees(d, told[d])'
      <3> SUFFICES ASSUME NEW d \in Domains PROVE Agrees(d, told[d])'
        OBVIOUS
      <3>1. PICK w : w = told[d]
        OBVIOUS
      <3>2. Agrees(d, w)'
        BY <1>10, <2>1, <3>1
      <3> QED
        BY <3>1, <3>2 DEF Agrees
    <2>4. \A r \in replies : Agrees(r.id, r.means)'
      BY <1>10, <2>2
    <2> QED
      BY <2>3, <2>4 DEF BeliefMatches, RepliesAgree
  <1>12. HandAgrees'
    <2>1. nStatus'[m.id] = IF m.leave THEN "EXIT" ELSE "SUCCESS"
      BY <1>2, <1>7
    <2>2. Meaning(todo[1].code, m) = IF m.leave THEN "left" ELSE "in"
      BY <1>4 DEF Meaning
    <2>3. Agrees(m.id, Meaning(todo[1].code, m))'
      BY <1>2, <2>1, <2>2 DEF Agrees
    <2>4. \A i \in 1 .. Len(hand'.todo) : hand'.todo[i] = todo[1]
      <3>1. hand'.todo = todo /\ Len(todo) = 1
        BY <1>4, <1>6
      <3>2. \A i \in 1 .. 1 : i = 1
        OBVIOUS
      <3> QED
        BY <3>1, <3>2
    <2> QED
      BY <1>6, <2>3, <2>4 DEF HandAgrees, Agrees
  <1>13. LeaversOnly'
    BY <1>2, <1>6, TakenFacts DEF LeaversOnly
  <1> QED
    BY <1>8, <1>9, <1>11, <1>12, <1>13 DEF Inv

(* OnRegister of a well-formed request, by what GetRegisteringStatus says. *)
LEMMA RegisterStep == ASSUME Inv, OnRegister PROVE Inv'
  <1>1. PICK m : m = Head(net)
    OBVIOUS
  <1>2. Taken /\ m.kind = "REGISTER" /\ m \in Request /\ UNCHANGED <<alive, replies, told, fault>>
    BY <1>1, TakenFacts DEF OnRegister
  <1>3. PICK g : g = GetRegisteringStatus(m)
    OBVIOUS
  <1>4. g \in {"SEND_401", "SEND_403", "DEFAULT", "EXIT"}
    BY <1>3 DEF GetRegisteringStatus, Found, Inv, Shape, TypeOK, NeverSent401, Stored
  <1>5. g = "DEFAULT" => m.id \in Configured /\ m.id \notin NeedAuth /\ nStatus[m.id] \in {"NOT_REGISTER", "SUCCESS"}
    BY <1>3 DEF GetRegisteringStatus, Found, Inv, Shape, TypeOK, NeverSent401, Stored
  <1>6. alive' \in [Configured -> BOOLEAN] /\ fault' \in BOOLEAN
    BY <1>2, Zenon DEF Inv, Shape, TypeOK
  <1>7. ASSUME NEW code \in {401, 403}, ToAnswer(m, <<Reg(code)>>), UNCHANGED nStatus
        PROVE  Inv'
    <2>1. PICK todo : todo = <<Reg(code)>>
      OBVIOUS
    <2>2. todo \in Seq(Answers) /\ todo # <<>> /\ \A i \in 1 .. Len(todo) : todo[i].code \in {401, 403}
      BY <2>1 DEF Answers, Reg
    <2>3. ToAnswer(Head(net), todo)
      BY <1>1, <1>7, <2>1
    <2> QED
      BY <1>2, <1>6, <1>7, <2>2, <2>3, RefusedStep
  <1>8. CASE g = "SEND_401"
    BY <1>1, <1>3, <1>7, <1>8 DEF OnRegister, DealStatus_Send401
  <1>9. CASE g = "SEND_403"
    BY <1>1, <1>3, <1>7, <1>9 DEF OnRegister, DealStatus_Send403
  <1>10. CASE g = "DEFAULT"
    <2>1. DealStatus_DefaultRegister(m)
      BY <1>1, <1>3, <1>10 DEF OnRegister
    <2> QED
      BY <1>1, <1>2, <1>5, <1>10, <2>1, DefaultStep
  <1>11. CASE g = "EXIT"
    <2>1. UNCHANGED <<hand, nStatus>>
      BY <1>1, <1>3, <1>11 DEF OnRegister
    <2> QED
      BY <1>2, <1>6, <2>1, DroppedStep
  <1> QED
    BY <1>4, <1>8, <1>9, <1>10, <1>11

(* OnRegister of the others.                                               *)
LEMMA MalformedStep == ASSUME Inv, OnRegisterMalformed PROVE Inv'
  <1>1. Taken /\ UNCHANGED <<nStatus, alive, replies, told>> /\ alive' \in [Configured -> BOOLEAN]
    BY Zenon DEF OnRegisterMalformed, Inv, Shape, TypeOK
  <1>2. Head(net).kind = "REGISTER" /\ Head(net) \in Request /\ Head(net).form # "ok"
    BY <1>1, TakenFacts DEF OnRegisterMalformed
  <1>3. Head(net).form \in {"nameless", "nocontact", "noexpires", "text"}
    BY <1>2 DEF Request
  <1>4. CASE Head(net).form \in {"nameless", "nocontact"}
    <2>1. PICK todo : todo = <<Plain(403), Reg(403)>>
      OBVIOUS
    <2>2. todo \in Seq(Answers) /\ todo # <<>> /\ \A i \in 1 .. Len(todo) : todo[i].code \in {401, 403}
      BY <2>1 DEF Answers, Reg, Plain
    <2>3. ToAnswer(Head(net), todo) /\ UNCHANGED fault
      BY <1>4, <2>1 DEF OnRegisterMalformed
    <2>4. fault' \in BOOLEAN
      BY <2>3, Zenon DEF Inv, Shape, TypeOK
    <2> QED
      BY <1>1, <2>2, <2>3, <2>4, RefusedStep
  <1>5. CASE Head(net).form = "noexpires"
    <2>1. PICK todo : todo = <<Reg(403)>>
      OBVIOUS
    <2>2. todo \in Seq(Answers) /\ todo # <<>> /\ \A i \in 1 .. Len(todo) : todo[i].code \in {401, 403}
      BY <2>1 DEF Answers, Reg
    <2>3. ToAnswer(Head(net), todo) /\ UNCHANGED fault
      BY <1>5, <2>1 DEF OnRegisterMalformed
    <2>4. fault' \in BOOLEAN
      BY <2>3, Zenon DEF Inv, Shape, TypeOK
    <2> QED
      BY <1>1, <2>2, <2>3, <2>4, RefusedStep
  <1>6. CASE Head(net).form = "text"
    <2>1. fault' = TRUE /\ UNCHANGED hand
      BY <1>6 DEF OnRegisterMalformed
    <2> QED
      BY <1>1, <2>1, DroppedStep
  <1> QED
    BY <1>3, <1>4, <1>5, <1>6

(* A keepalive stores only that it came.                                    *)
LEMMA KeepAliveStep == ASSUME Inv, OnKeepAlive PROVE Inv'
  <1>1. Taken /\ UNCHANGED <<nStatus, replies, told>> /\ Head(net).kind = "KEEPALIVE"
    BY DEF OnKeepAlive
  <1>2. alive' \in [Configured -> BOOLEAN]
    BY Zenon DEF OnKeepAlive
  <1>3. CASE Head(net).form = "ok" /\ ~Found(Head(net).id)
    <2>1. fault' = TRUE /\ UNCHANGED hand
      BY <1>3 DEF OnKeepAlive
    <2> QED
      BY <1>1, <1>2, <2>1, DroppedStep
  <1>4. CASE ~(Head(net).form = "ok" /\ ~Found(Head(net).id))
    <2>1. PICK todo : todo = <<Plain(IF Head(net).form = "ok" THEN 200 ELSE 403)>>
      OBVIOUS
    <2>2. todo \in Seq(Answers) /\ todo # <<>>
      BY <2>1 DEF Answers, Plain
    <2>3. ToAnswer(Head(net), todo) /\ UNCHANGED fault
      BY <1>4, <2>1 DEF OnKeepAlive
    <2>4. fault' \in BOOLEAN
      BY <2>3, Zenon DEF Inv, Shape, TypeOK
    <2> QED
      BY <1>1, <1>2, <2>2, <2>3, <2>4, RefusedStep
  <1> QED
    BY <1>3, <1>4

(* What is left of a queue of more than one element. *)
LEMMA RestOfQueue ==
    ASSUME NEW S, NEW q \in Seq(S), q # <<>>, Len(q) # 1
    PROVE  /\ Tail(q) \in Seq(S) /\ Tail(q) # <<>> /\ Len(Tail(q)) = Len(q) - 1
           /\ \A i \in 1 .. Len(Tail(q)) : Tail(q)[i] = q[i + 1] /\ i + 1 \in 1 .. Len(q)
  <1>1. Len(q) \in Nat /\ Len(q) # 0
    OBVIOUS
  <1>2. Tail(q) \in Seq(S) /\ Len(Tail(q)) = Len(q) - 1
    BY <1>1
  <1>3. Tail(q) # <<>>
    <2>1. PICK t : t = Tail(q)
      OBVIOUS
    <2>2. Len(t) # 0
      BY <1>1, <1>2, <2>1
    <2>3. t # <<>>
      BY <2>2
    <2> QED
      BY <2>1, <2>3
  <1>4. ASSUME NEW i \in 1 .. Len(Tail(q)) PROVE Tail(q)[i] = q[i + 1] /\ i + 1 \in 1 .. Len(q)
    BY <1>1, <1>2
  <1> QED
    BY <1>2, <1>3, <1>4

(* The handler goes on: what is left to send is part of what was.           *)
LEMMA AdvanceStep ==
    ASSUME Inv, hand # Idle, NEW b \in BOOLEAN, Advance(b), UNCHANGED <<nStatus, net>>
    PROVE  /\ hand' \in Hand \cup {Idle} /\ (hand' # Idle => hand'.todo # <<>>)
           /\ HandAgrees' /\ LeaversOnly'
  <1>1. hand \in Hand /\ hand.todo \in Seq(Answers) /\ hand.todo # <<>> /\ hand.req \in Request
    BY DEF Inv, Shape, TypeOK, Hand
  <1>2. CASE Len(hand.todo) = 1
    <2>1. hand' = Idle
      BY <1>2 DEF Advance
    <2> QED
      BY <2>1 DEF Inv, HandAgrees, LeaversOnly
  <1>3. CASE Len(hand.todo) # 1
    <2>1. PICK t : t = Tail(hand.todo)
      OBVIOUS
    <2>2. t \in Seq(Answers) /\ t # <<>> /\ Len(t) = Len(hand.todo) - 1
          /\ \A i \in 1 .. Len(t) : t[i] = hand.todo[i + 1] /\ i + 1 \in 1 .. Len(hand.todo)
      BY <1>1, <1>3, <2>1, RestOfQueue
    <2>3. hand' = [hand EXCEPT !.todo = t, !.answered = b]
      BY <1>3, <2>1 DEF Advance
    <2>4. hand' \in Hand /\ hand'.todo = t /\ hand'.req = hand.req
      BY <1>1, <2>2, <2>3 DEF Hand
    <2>5. HandAgrees'
      <3> SUFFICES ASSUME hand.req.kind = "REGISTER", NEW i \in 1 .. Len(t)
                   PROVE  Agrees(hand.req.id, Meaning(t[i].code, hand.req))
        BY <2>4 DEF HandAgrees, Agrees
      <3> QED
        BY <2>2 DEF Inv, HandAgrees
    <2>6. LeaversOnly'
      BY <2>4 DEF Inv, LeaversOnly
    <2> QED
      BY <2>2, <2>4, <2>5, <2>6
  <1> QED
    BY <1>2, <1>3

(* An answer, given or not.                                                 *)
LEMMA AnswerStep == ASSUME Inv, SendAnswer \/ AnswerNotBuilt PROVE Inv'
  <1>1. UNCHANGED <<nStatus, alive, net, told, fault>> /\ hand # Idle
    BY DEF SendAnswer, AnswerNotBuilt
  <1>2. hand \in Hand /\ hand.todo \in Seq(Answers) /\ hand.todo # <<>> /\ hand.req \in Request
        /\ hand.answered \in BOOLEAN
    BY <1>1 DEF Inv, Shape, TypeOK, Hand
  <1>3. /\ hand' \in Hand \cup {Idle} /\ (hand' # Idle => hand'.todo # <<>>)
        /\ HandAgrees' /\ LeaversOnly'
    BY <1>1, <1>2, AdvanceStep DEF SendAnswer, AnswerNotBuilt
  <1>4. replies' \subseteq Reply /\ RepliesAgree'
    <2>1. CASE replies' = replies
      BY <1>1, <2>1 DEF Inv, Shape, TypeOK, RepliesAgree, Agrees
    <2>2. CASE hand.req.kind = "REGISTER" /\ replies' = replies \cup {[id |-> hand.req.id, means |-> Meaning(Head(hand.todo).code, hand.req)]}
      <3>1. PICK r : r = [id |-> hand.req.id, means |-> Meaning(Head(hand.todo).code, hand.req)]
        OBVIOUS
      <3>2. Meaning(Head(hand.todo).code, hand.req) \in Told /\ hand.req.id \in Domains
        BY <1>2 DEF Meaning, Told, Request
      <3>3. r \in Reply
        BY <3>1, <3>2 DEF Reply
      <3>4. Head(hand.todo) = hand.todo[1] /\ 1 \in 1 .. Len(hand.todo)
        BY <1>2
      <3>5. Agrees(hand.req.id, Meaning(hand.todo[1].code, hand.req))
        BY <1>1, <2>2, <3>4 DEF Inv, HandAgrees
      <3>6. r.id = hand.req.id /\ r.means = Meaning(hand.todo[1].code, hand.req)
        BY <3>1, <3>4
      <3>7. Agrees(r.id, r.means)
        BY <3>5, <3>6
      <3>8. replies' = replies \cup {r} /\ replies \subseteq Reply
        BY <2>2, <3>1 DEF Inv, Shape, TypeOK
      <3>9. \A k \in replies' : Agrees(k.id, k.means)
        BY <3>7, <3>8 DEF Inv, RepliesAgree
      <3> QED
        BY <1>1, <3>3, <3>8, <3>9 DEF RepliesAgree, Agrees
    <2> QED
      BY <1>2, <2>1, <2>2 DEF SendAnswer, AnswerNotBuilt, Request
  <1>5. Shape'
    BY <1>1, <1>3, <1>4, Zenon DEF Inv, Shape, TypeOK
  <1>6. NeverSent401' /\ BeliefMatches' /\ NoUncheckedAccess'
    BY <1>1 DEF Inv, NeverSent401, BeliefMatches, NoUncheckedAccess, Agrees
  <1> QED
    BY <1>3, <1>4, <1>5, <1>6 DEF Inv

(* A request on the network changes nothing that is stored.                *)
LEMMA SendStep == ASSUME Inv, NEW m \in Request, MayLeave(m), Send(m) PROVE Inv'
  <1>1. net \in Seq(Request) /\ net' = Append(net, m) /\ Len(net) < NetCap
        /\ UNCHANGED <<nStatus, alive, hand, replies, told, fault>>
    BY DEF Send, Inv, Shape, TypeOK
  <1>2. net' \in Seq(Request) /\ Len(net') <= NetCap
        /\ \A i \in 1 .. Len(net') : net'[i] = m \/ (i \in 1 .. Len(net) /\ net'[i] = net[i])
    BY <1>1, DomainAssumption
  <1>3. Shape'
    BY <1>1, <1>2, Zenon DEF Inv, Shape, TypeOK
  <1>4. LeaversOnly'
    BY <1>1, <1>2 DEF Inv, LeaversOnly
  <1>5. NeverSent401' /\ BeliefMatches' /\ RepliesAgree' /\ HandAgrees' /\ NoUncheckedAccess'
    BY <1>1 DEF Inv, NeverSent401, BeliefMatches, RepliesAgree, HandAgrees, NoUncheckedAccess, Agrees
  <1> QED
    BY <1>3, <1>4, <1>5 DEF Inv

(* The domains send what their requests may be.                             *)
LEMMA DomainStep == ASSUME Inv, NEW d \in Domains, SendRegister(d) \/ SendKeepalive(d) PROVE Inv'
  <1>1. ASSUME NEW f \in {"ok", "nameless", "nocontact", "noexpires", "text"}, NEW l \in BOOLEAN,
               l => d \in Unregistering, Send(RegisterOf(d, f, l))
        PROVE  Inv'
    <2>1. PICK m : m = RegisterOf(d, f, l)
      OBVIOUS
    <2>2. (told[d] = "challenged") \in BOOLEAN
      OBVIOUS
    <2>3. m \in Request /\ MayLeave(m)
      BY <1>1, <2>1, <2>2 DEF RegisterOf, Request, MayLeave
    <2> QED
      BY <1>1, <2>1, <2>3, SendStep
  <1>2. CASE SendRegister(d)
    <2>1. \/ \E f \in {"ok", "nameless", "nocontact", "noexpires", "text"} : Send(RegisterOf(d, f, FALSE))
          \/ d \in Unregistering /\ Send(RegisterOf(d, "ok", TRUE))
      BY <1>2 DEF SendRegister
    <2> QED
      BY <1>1, <2>1
  <1>3. CASE SendKeepalive(d)
    <2>1. PICK f \in {"ok", "nameless"} : Send([kind |-> "KEEPALIVE", id |-> d, form |-> f])
      BY <1>3 DEF SendKeepalive
    <2>2. PICK m : m = [kind |-> "KEEPALIVE", id |-> d, form |-> f]
      OBVIOUS
    <2>3. m \in Request /\ MayLeave(m)
      BY <2>2 DEF Request, MayLeave
    <2> QED
      BY <2>1, <2>2, <2>3, SendStep
  <1> QED
    BY <1>2, <1>3

(* An answer that arrives is believed, one that is lost is not.             *)
LEMMA NetworkStep == ASSUME Inv, NEW r \in replies, Deliver(r) \/ Lose(r) PROVE Inv'
  <1>1. replies' = replies \ {r} /\ UNCHANGED <<nStatus, alive, net, hand, fault>> /\ r \in Reply
    BY DEF Deliver, Lose, Inv, Shape, TypeOK
  <1>2. r.id \in Domains /\ r.means \in Told /\ Agrees(r.id, r.means)
    BY <1>1 DEF Reply, Inv, RepliesAgree
  <1>3. told \in [Domains -> Told] /\ (told' = told \/ told' = [told EXCEPT ![r.id] = r.means])
    BY DEF Deliver, Lose, Inv, Shape, TypeOK
  <1>4. told' \in [Domains -> Told]
    BY <1>2, <1>3
  <1>5. Shape'
    BY <1>1, <1>4, Zenon DEF Inv, Shape, TypeOK
  <1>6. BeliefMatches'
    <2> SUFFICES ASSUME NEW d \in Domains PROVE Agrees(d, told'[d])
      BY <1>1 DEF BeliefMatches, Agrees
    <2>1. told'[d] = told[d] \/ (d = r.id /\ told'[d] = r.means)
      BY <1>3
    <2> QED
      BY <1>2, <2>1 DEF Inv, BeliefMatches
  <1>7. NeverSent401' /\ RepliesAgree' /\ HandAgrees' /\ NoUncheckedAccess' /\ LeaversOnly'
    BY <1>1 DEF Inv, NeverSent401, RepliesAgree, HandAgrees, NoUncheckedAccess, LeaversOnly, Agrees
  <1> QED
    BY <1>5, <1>6, <1>7 DEF Inv

(* Every step keeps stored status, answers and belief together.            *)
LEMMA NextInv == Inv /\ [Next]_vars => Inv'
  <1> SUFFICES ASSUME Inv, [Next]_vars PROVE Inv'
    OBVIOUS
  <1>1. CASE SendAnswerFaults
    <2>1. fault' = TRUE /\ UNCHANGED <<nStatus, alive, net, hand, replies, told>>
      BY <1>1 DEF SendAnswerFaults
    <2>2. Shape'
      BY <2>1 DEF Inv, Shape, TypeOK
    <2> QED
      BY <2>1, <2>2 DEF Inv, NeverSent401, BeliefMatches, RepliesAgree, HandAgrees, NoUncheckedAccess,
                        LeaversOnly, Agrees
  <1>2. CASE vars' = vars
    BY <1>2 DEF vars, Inv, Shape, TypeOK, NeverSent401, BeliefMatches, RepliesAgree, HandAgrees, NoUncheckedAccess,
                LeaversOnly, Agrees
  <1> QED
    BY <1>1, <1>2, DomainStep, NetworkStep, RegisterStep, MalformedStep, KeepAliveStep, AnswerStep DEF Next

(* The invariant of every reachable state.                                  *)
LEMMA AlwaysInv == Spec => []Inv
  BY InitInv, NextInv, PTL DEF Spec

(* What a domain was last told of its registration is what the registrar    *)
(* has stored for it, or was before it left.                                *)
THEOREM BeliefMatchesHolds == Spec => []BeliefMatches
  <1>1. Inv => BeliefMatches
    BY DEF Inv
  <1> QED
    BY <1>1, AlwaysInv, PTL

(* No domain with nNeedAuth is ever stored as registered.                   *)
THEOREM NoUncheckedAccessHolds == Spec => []NoUncheckedAccess
  <1>1. Inv => NoUncheckedAccess
    BY DEF Inv
  <1> QED
    BY <1>1, AlwaysInv, PTL

(* Every request, answer and stored status of the registrar has its type,    *)
(* and the network holds no more than NetCap requests.                       *)
THEOREM TypeCorrect == Spec => []TypeOK
  <1>1. Inv => TypeOK
    BY DEF Inv, Shape
  <1> QED
    BY <1>1, AlwaysInv, PTL

(* A REGISTER without an attempt to answer it is one that ended the process, *)
(* or one that GetRegisteringStatus leaves to the stored status, and that    *)
(* status can only be the one of a domain that has left.                     *)
THEOREM AnsweredUnlessLeftHolds == Spec => AnsweredUnlessLeft
  <1> DEFINE A == Dropped => \/ fault'
                             \/ Head(net).id \in Configured /\ nStatus[Head(net).id] = "EXIT"
  <1>1. ASSUME Inv, Dropped, ~fault'
        PROVE  Head(net).id \in Configured /\ nStatus[Head(net).id] = "EXIT"
    <2>1. PICK m : m = Head(net)
      OBVIOUS
    <2>2. Taken /\ hand' = Idle /\ m \in Request
      BY <1>1, <2>1, TakenFacts DEF Dropped, OnRegister, OnRegisterMalformed
    <2>3. \A todo : ~ToAnswer(m, todo)
      <3> SUFFICES ASSUME NEW todo, ToAnswer(m, todo) PROVE FALSE
        OBVIOUS
      <3>1. hand'.req = m /\ hand'.req = [kind |-> "NONE"]
        BY <2>2 DEF ToAnswer, Idle
      <3> QED
        BY <2>2, <3>1 DEF Request
    <2>4. ~OnRegisterMalformed
      <3> SUFFICES ASSUME OnRegisterMalformed PROVE FALSE
        OBVIOUS
      <3>1. m.form \in {"nameless", "nocontact", "noexpires", "text"}
        BY <2>1, <2>2 DEF OnRegisterMalformed, Request
      <3> QED
        BY <1>1, <2>1, <2>3, <3>1 DEF OnRegisterMalformed
    <2>5. OnRegister
      BY <1>1, <2>4 DEF Dropped
    <2>6. PICK g : g = GetRegisteringStatus(m)
      OBVIOUS
    <2>7. g \in {"SEND_401", "SEND_403", "DEFAULT", "EXIT"}
      BY <1>1, <2>6 DEF GetRegisteringStatus, Found, Inv, Shape, TypeOK, NeverSent401, Stored
    <2>8. g = "EXIT" => m.id \in Configured /\ nStatus[m.id] = "EXIT"
      BY <1>1, <2>6 DEF GetRegisteringStatus, Found, Inv, Shape, TypeOK, NeverSent401, Stored
    <2>9. g \notin {"SEND_401", "SEND_403", "DEFAULT"}
      BY <2>1, <2>3, <2>5, <2>6 DEF OnRegister, DealStatus_Send401, DealStatus_Send403, DealStatus_DefaultRegister
    <2> QED
      BY <2>1, <2>7, <2>8, <2>9
  <1>2. Inv /\ [Next]_vars => [A]_vars
    BY <1>1
  <1> QED
    BY <1>2, AlwaysInv, PTL DEF Spec, AnsweredUnlessLeft
=============================================================================
