------------------------ MODULE ControlRouterProofs ------------------------
(***************************************************************************)
(* Proofs about ControlRouter, for any agents, sessions, streams, requests *)
(* and controls, and queues of any size.                                   *)
(*                                                                         *)
(* The invariants need one another.  A delivery that is neither settled    *)
(* nor registered would sleep (NoSettledWaiter): deliver() starts with an  *)
(* unsettled one only because the streams of its targets are distinct      *)
(* (SubsOwn, AliasesFunctional).  A returned outcome is final because the  *)
(* entry is gone, which NoSettledWaiter says, once outcomes are known to   *)
(* belong to returned deliveries (OutcomeOfReturned).                      *)
(***************************************************************************)
EXTENDS ControlRouter, TLAPS

(* A registered subscription is registered under its own agent and stream. *)
SubsOwn ==
  \A a \in Agent, s \in Stream :
    subs[a][s] # 0 => request[subs[a][s]].agent = a /\ request[subs[a][s]].stream = s
                      /\ subs[a][s] \in 1 .. opened

AliasesFunctional == \A al, be \in aliases : al[1] = be[1] => al[2] = be[2]

OutcomeOfReturned == \A c \in Control : outcome[c] # "none" <=> status[c] = "returned"

SuccessWitnessed ==
  \A c \in Control : AnySuccess(acks[c]) => \E n \in Sub : <<c, n>> \in succeeded

(***************************************************************************)
(* Types.                                                                  *)
(***************************************************************************)
LEMMA TargetsAreSubs ==
  ASSUME TypeOK, NEW a \in Agent, NEW session \in Session
  PROVE  /\ LiveTargets(a, session) \subseteq Sub
         /\ LiveTargets(a, session) \subseteq open
  <1>1. LiveTargets(a, session) \subseteq open
    BY DEF LiveTargets
  <1>2. open \subseteq Sub
    BY MaxSubsAssumption DEF TypeOK, Sub
  <1> QED BY <1>1, <1>2

LEMMA VerdictType == \A all \in BOOLEAN : \A as : Verdict(all, as) \in DeliveryResult
  BY DEF Verdict, DeliveryResult

LEMMA MaybeResolveType ==
  ASSUME TypeOK, NEW cs, MaybeResolve(cs)
  PROVE  /\ pending' \subseteq Control
         /\ status' \in [Control -> Status]
         /\ outcome' \in [Control -> DeliveryResult \cup {"none"}]
  <1>1. pending' \subseteq Control
    BY DEF MaybeResolve, TypeOK
  <1>2. status' \in [Control -> Status]
    BY DEF MaybeResolve, TypeOK, Status
  <1>3. outcome' \in [Control -> DeliveryResult \cup {"none"}]
    BY VerdictType DEF MaybeResolve, TypeOK
  <1> QED BY <1>1, <1>2, <1>3

LEMMA TypeInit == Init => TypeOK
  BY MaxSubsAssumption, RequestAssumption DEF Init, TypeOK, Sub, Status, DeliveryResult

LEMMA TypeSubscribe ==
  ASSUME TypeOK, NEW r \in Request, Subscribe(r)
  PROVE  TypeOK'
  <1>1. r.agent \in Agent /\ r.stream \in Stream
    BY RequestAssumption
  <1>2. opened' \in 0 .. MaxSubs /\ opened + 1 \in Sub
    BY MaxSubsAssumption DEF Subscribe, TypeOK, Sub
  <1>3. subs' \in [Agent -> [Stream -> 0 .. MaxSubs]]
    BY <1>1, <1>2, MaxSubsAssumption DEF Subscribe, TypeOK, Sub
  <1>4. request' \in [Sub -> Request]
    BY <1>2 DEF Subscribe, TypeOK
  <1>5. open' \subseteq 1 .. opened'
    BY MaxSubsAssumption DEF Subscribe, TypeOK
  <1> QED
    BY <1>2, <1>3, <1>4, <1>5 DEF Subscribe, TypeOK, delivery, clients

LEMMA TypeUnsubscribe ==
  ASSUME TypeOK, NEW n \in Sub, Unsubscribe(n)
  PROVE  TypeOK'
  <1>1. request[n].agent \in Agent /\ request[n].stream \in Stream
    BY RequestAssumption DEF TypeOK
  <1>2. subs' \in [Agent -> [Stream -> 0 .. MaxSubs]]
    BY <1>1, MaxSubsAssumption DEF Unsubscribe, TypeOK
  <1>3. queue' \in [Sub -> Seq(Control)]
    BY DEF Unsubscribe, TypeOK
  <1>4. expected' \in [Control -> SUBSET Stream]
    BY DEF Unsubscribe, TypeOK
  <1>5. /\ pending' \subseteq Control
        /\ status' \in [Control -> Status]
        /\ outcome' \in [Control -> DeliveryResult \cup {"none"}]
    BY MaybeResolveType DEF Unsubscribe
  <1>6. aliases' \subseteq Agent \X Agent
    BY DEF Unsubscribe, TypeOK
  <1> QED
    BY <1>2, <1>3, <1>4, <1>5, <1>6 DEF Unsubscribe, TypeOK, clients

LEMMA TypeDeliver ==
  ASSUME TypeOK, NEW c \in Control, NEW a \in Agent, NEW session \in Session, NEW all \in BOOLEAN,
         Deliver(c, a, session, all)
  PROVE  TypeOK'
  <1> DEFINE targets == LiveTargets(a, session)
             full == {n \in targets : Len(queue[n]) >= QueueMax}
             streams(ns) == {request[n].stream : n \in ns}
  <1>1. targets \subseteq Sub
    BY TargetsAreSubs
  <1>2. \A n \in targets : request[n].stream \in Stream
    BY <1>1, RequestAssumption DEF TypeOK
  <1>3. expected' \in [Control -> SUBSET Stream]
    BY <1>2 DEF Deliver, TypeOK
  <1>4. [stream : streams(full), ok : {FALSE}] \subseteq AckRecord
    BY <1>2 DEF AckRecord
  <1>5. acks' \in [Control -> SUBSET AckRecord]
    BY <1>4 DEF Deliver, TypeOK
  <1>6. queue' \in [Sub -> Seq(Control)]
    <2>1. \A n \in Sub : Append(queue[n], c) \in Seq(Control)
      BY DEF TypeOK
    <2> QED BY <2>1 DEF Deliver, TypeOK
  <1>7. /\ require_all' \in [Control -> BOOLEAN]
        /\ status' \in [Control -> Status]
        /\ outcome' \in [Control -> DeliveryResult \cup {"none"}]
        /\ pending' \subseteq Control
    BY DEF Deliver, TypeOK, Status, DeliveryResult
  <1> QED
    BY <1>3, <1>5, <1>6, <1>7 DEF Deliver, TypeOK, clients

LEMMA TypeRecordAck ==
  ASSUME TypeOK, NEW c \in Control, NEW n \in Sub, NEW ok \in BOOLEAN, RecordAck(c, n, ok)
  PROVE  TypeOK'
  <1>1. request[n].telemetry \in Stream
    BY RequestAssumption DEF TypeOK
  <1>2. received' \subseteq Control \X Sub /\ succeeded' \subseteq Control \X Sub
    BY DEF RecordAck, TypeOK
  <1>3. ASSUME NEW s \in Stream,
               expected' = [expected EXCEPT ![c] = @ \ {s}],
               acks' = [acks EXCEPT ![c] = @ \cup {[stream |-> s, ok |-> ok]}],
               MaybeResolve({c}), UNCHANGED require_all
        PROVE  TypeOK'
    <2>1. expected' \in [Control -> SUBSET Stream]
      BY <1>3 DEF TypeOK
    <2>2. acks' \in [Control -> SUBSET AckRecord]
      BY <1>3 DEF TypeOK, AckRecord
    <2>3. /\ pending' \subseteq Control
          /\ status' \in [Control -> Status]
          /\ outcome' \in [Control -> DeliveryResult \cup {"none"}]
      BY <1>3, MaybeResolveType
    <2> QED
      BY <1>2, <1>3, <2>1, <2>2, <2>3 DEF RecordAck, TypeOK, routing
  <1>4. CASE UNCHANGED delivery
    BY <1>2, <1>4 DEF RecordAck, TypeOK, routing, delivery
  <1> QED
    BY <1>1, <1>3, <1>4 DEF RecordAck, TypeOK

LEMMA TypeStep == TypeOK /\ [Next]_vars => TypeOK'
  <1> SUFFICES ASSUME TypeOK, [Next]_vars PROVE TypeOK'
    OBVIOUS
  <1>1. ASSUME NEW r \in Request, Subscribe(r) PROVE TypeOK'
    BY <1>1, TypeSubscribe
  <1>2. ASSUME NEW n \in Sub, Unsubscribe(n) PROVE TypeOK'
    BY <1>2, TypeUnsubscribe
  <1>3. ASSUME NEW a \in Agent, NEW b \in Agent, RegisterAlias(a, b) PROVE TypeOK'
    BY <1>3 DEF RegisterAlias, TypeOK, delivery, clients
  <1>4. ASSUME NEW c \in Control, NEW a \in Agent, NEW session \in Session,
               DeliverUnavailable(c, a, session)
        PROVE  TypeOK'
    BY <1>4 DEF DeliverUnavailable, TypeOK, routing, clients, Status, DeliveryResult
  <1>5. ASSUME NEW c \in Control, NEW a \in Agent, NEW session \in Session, NEW all \in BOOLEAN,
               Deliver(c, a, session, all)
        PROVE  TypeOK'
    BY <1>5, TypeDeliver
  <1>6. ASSUME NEW c \in Control, TimeoutFires(c) PROVE TypeOK'
    BY <1>6 DEF TimeoutFires, TypeOK, routing, clients, Status
  <1>7. ASSUME NEW c \in Control, TimeoutReturns(c) PROVE TypeOK'
    BY <1>7 DEF TimeoutReturns, TypeOK, routing, clients, Status, DeliveryResult
  <1>8. ASSUME NEW c \in Control, CallerCancelled(c) PROVE TypeOK'
    BY <1>8 DEF CallerCancelled, TypeOK, routing, clients, Status
  <1>9. ASSUME NEW n \in Sub, SendEvent(n) PROVE TypeOK'
    <2>1. Head(queue[n]) \in Control /\ Tail(queue[n]) \in Seq(Control)
      BY <1>9 DEF SendEvent, TypeOK
    <2>2. queue' \in [Sub -> Seq(Control)] /\ received' \subseteq Control \X Sub
      BY <1>9, <2>1 DEF SendEvent, TypeOK
    <2> QED BY <1>9, <2>2 DEF SendEvent, TypeOK, delivery
  <1>10. ASSUME NEW c \in Control, NEW n \in Sub, NEW ok \in BOOLEAN, RecordAck(c, n, ok)
         PROVE  TypeOK'
    BY <1>10, TypeRecordAck
  <1>11. CASE UNCHANGED vars
    BY <1>11 DEF TypeOK, vars, routing, delivery, clients
  <1> QED
    BY <1>1, <1>2, <1>3, <1>4, <1>5, <1>6, <1>7, <1>8, <1>9, <1>10, <1>11 DEF Next

(* Every variable keeps its type.                                          *)
THEOREM TypeCorrect == Spec => []TypeOK
  BY TypeInit, TypeStep, PTL DEF Spec
-----------------------------------------------------------------------------
(***************************************************************************)
(* The routing tables.                                                     *)
(***************************************************************************)
Routes == SubsOwn /\ AliasesFunctional

LEMMA RoutesInit == Init => Routes
  BY DEF Init, Routes, SubsOwn, AliasesFunctional

LEMMA RoutesStep == TypeOK /\ Routes /\ [Next]_vars => Routes'
  <1> SUFFICES ASSUME TypeOK, Routes, [Next]_vars PROVE Routes'
    OBVIOUS
  <1>1. ASSUME NEW r \in Request, Subscribe(r) PROVE Routes'
    <2>1. opened \in Nat /\ opened' = opened + 1 /\ opened + 1 \in Sub
      BY <1>1, MaxSubsAssumption DEF Subscribe, TypeOK, Sub
    <2>2. \A a \in Agent, s \in Stream :
            subs'[a][s] = IF a = r.agent /\ s = r.stream THEN opened + 1 ELSE subs[a][s]
      BY <1>1 DEF Subscribe, TypeOK
    <2>3. \A n \in Sub : request'[n] = IF n = opened + 1 THEN r ELSE request[n]
      BY <1>1 DEF Subscribe, TypeOK
    <2>4. SubsOwn'
      <3> SUFFICES ASSUME NEW a \in Agent, NEW s \in Stream, subs'[a][s] # 0
                   PROVE  /\ request'[subs'[a][s]].agent = a
                          /\ request'[subs'[a][s]].stream = s
                          /\ subs'[a][s] \in 1 .. opened'
        BY DEF SubsOwn
      <3>1. CASE a = r.agent /\ s = r.stream
        BY <2>1, <2>2, <2>3, <3>1
      <3>2. CASE ~(a = r.agent /\ s = r.stream)
        <4>1. subs'[a][s] = subs[a][s] /\ subs[a][s] \in 1 .. opened
          BY <2>2, <3>2 DEF Routes, SubsOwn
        <4>2. subs[a][s] \in Sub /\ subs[a][s] # opened + 1
          BY <2>1, <4>1, MaxSubsAssumption DEF Sub
        <4> QED BY <2>1, <2>3, <4>1, <4>2 DEF Routes, SubsOwn
      <3> QED BY <3>1, <3>2
    <2> QED BY <1>1, <2>4 DEF Subscribe, Routes, AliasesFunctional
  <1>2. ASSUME NEW n \in Sub, Unsubscribe(n) PROVE Routes'
    <2>1. \A a \in Agent, s \in Stream : subs'[a][s] \in {0, subs[a][s]}
      BY <1>2 DEF Unsubscribe, TypeOK
    <2>2. UNCHANGED <<opened, request>> /\ aliases' \subseteq aliases
      BY <1>2 DEF Unsubscribe
    <2> QED BY <2>1, <2>2 DEF Routes, SubsOwn, AliasesFunctional
  <1>3. ASSUME NEW a \in Agent, NEW b \in Agent, RegisterAlias(a, b) PROVE Routes'
    <2>1. AliasesFunctional'
      BY <1>3 DEF RegisterAlias, Routes, AliasesFunctional
    <2> QED BY <1>3, <2>1 DEF RegisterAlias, Routes, SubsOwn
  <1>4. CASE UNCHANGED <<subs, opened, request, aliases>>
    BY <1>4 DEF Routes, SubsOwn, AliasesFunctional
  <1>5. \/ \E r \in Request : Subscribe(r)
        \/ \E n \in Sub : Unsubscribe(n)
        \/ \E a \in Agent, b \in Agent : RegisterAlias(a, b)
        \/ UNCHANGED <<subs, opened, request, aliases>>
    <2>1. CASE Next
      <3>1. ASSUME NEW c \in Control PROVE
              /\ \A a \in Agent, session \in Session :
                   /\ DeliverUnavailable(c, a, session) => UNCHANGED <<subs, opened, request, aliases>>
                   /\ \A all \in BOOLEAN :
                        Deliver(c, a, session, all) => UNCHANGED <<subs, opened, request, aliases>>
              /\ TimeoutFires(c) => UNCHANGED <<subs, opened, request, aliases>>
              /\ TimeoutReturns(c) => UNCHANGED <<subs, opened, request, aliases>>
              /\ CallerCancelled(c) => UNCHANGED <<subs, opened, request, aliases>>
        BY DEF Deliver, DeliverUnavailable, TimeoutFires, TimeoutReturns, CallerCancelled, routing
      <3>2. ASSUME NEW n \in Sub PROVE
              /\ SendEvent(n) => UNCHANGED <<subs, opened, request, aliases>>
              /\ \A c \in Control, ok \in BOOLEAN :
                   RecordAck(c, n, ok) => UNCHANGED <<subs, opened, request, aliases>>
        BY DEF SendEvent, RecordAck, routing
      <3> QED BY <2>1, <3>1, <3>2 DEF Next
    <2>2. CASE UNCHANGED vars
      BY <2>2 DEF vars, routing
    <2> QED BY <2>1, <2>2
  <1> QED
    BY <1>1, <1>2, <1>3, <1>4, <1>5

(* The subscriptions deliver() selects have distinct stream ids.           *)
LEMMA TargetStreamsDistinct ==
  ASSUME TypeOK, Routes, NEW a \in Agent, NEW session \in Session,
         NEW n \in LiveTargets(a, session), NEW m \in LiveTargets(a, session),
         request[n].stream = request[m].stream
  PROVE  n = m
  <1>1. ASSUME NEW b \in Agent, n \in Bucket(b), m \in Bucket(b) PROVE n = m
    BY <1>1 DEF Bucket, Routes, SubsOwn
  <1>2. CASE Bucket(a) # {}
    BY <1>1, <1>2 DEF LiveTargets
  <1>3. CASE Bucket(a) = {}
    <2>1. PICK al \in aliases : al[1] = a /\ n \in Bucket(al[2])
      BY <1>3 DEF LiveTargets
    <2>2. PICK be \in aliases : be[1] = a /\ m \in Bucket(be[2])
      BY <1>3 DEF LiveTargets
    <2>3. al[2] = be[2] /\ al[2] \in Agent
      BY <2>1, <2>2 DEF Routes, AliasesFunctional, TypeOK
    <2> QED BY <1>1, <2>1, <2>2, <2>3
  <1> QED BY <1>2, <1>3
-----------------------------------------------------------------------------
(***************************************************************************)
(* Deliveries.                                                             *)
(***************************************************************************)
Deliveries ==
  /\ NoSettledWaiter
  /\ OutcomeOfReturned
  /\ SuccessWitnessed
  /\ SuccessMeansAcked
  /\ FailureHidesNoSuccess

LEMMA DeliveriesInit == Init => Deliveries
  BY DEF Init, Deliveries, NoSettledWaiter, OutcomeOfReturned, SuccessWitnessed,
         SuccessMeansAcked, FailureHidesNoSuccess, AnySuccess

LEMMA VerdictMeaning ==
  ASSUME NEW all \in BOOLEAN, NEW as
  PROVE  /\ Verdict(all, as) = "SUCCESS" => AnySuccess(as)
         /\ Verdict(all, as) = "FAILED" /\ ~all => ~AnySuccess(as)
         /\ Verdict(all, as) \in {"SUCCESS", "FAILED"}
  BY DEF Verdict

(* A step that gives the deliveries of cs new streams or acks, and then    *)
(* resolves those of them that are settled.                                *)
LEMMA ResolveKeepsDeliveries ==
  ASSUME TypeOK, Deliveries, NEW cs \in SUBSET pending, MaybeResolve(cs),
         \A c \in Control \ cs : expected'[c] = expected[c] /\ acks'[c] = acks[c],
         UNCHANGED require_all, succeeded \subseteq succeeded', SuccessWitnessed'
  PROVE  Deliveries'
  <1> DEFINE resolved == {c \in cs : status[c] = "waiting"
                                     /\ Settled(require_all[c], expected'[c], acks'[c])}
  <1>1. /\ pending' = pending \ resolved
        /\ \A c \in Control :
             /\ status'[c] = IF c \in resolved THEN "returned" ELSE status[c]
             /\ outcome'[c] = IF c \in resolved THEN Verdict(require_all[c], acks'[c]) ELSE outcome[c]
    BY DEF MaybeResolve
  <1>2. \A c \in Control : require_all[c] \in BOOLEAN
    BY DEF TypeOK
  <1>3. \A c \in cs : c \in Control /\ status[c] \in {"waiting", "expired", "abandoned"}
    BY DEF TypeOK, Deliveries, NoSettledWaiter
  <1>4. NoSettledWaiter'
    <2>1. \A c \in Control : c \in pending' <=> status'[c] \in {"waiting", "expired", "abandoned"}
      BY <1>1 DEF Deliveries, NoSettledWaiter
    <2>2. pending' \subseteq Control
      BY <1>1 DEF TypeOK
    <2>3. ASSUME NEW c \in Control, status'[c] = "waiting"
          PROVE  ~Settled(require_all'[c], expected'[c], acks'[c])
      <3>1. status[c] = "waiting" /\ c \notin resolved
        BY <1>1, <2>3
      <3>2. CASE c \in cs
        BY <3>1, <3>2
      <3>3. CASE c \notin cs
        BY <3>1, <3>3 DEF Deliveries, NoSettledWaiter
      <3> QED BY <3>2, <3>3
    <2> QED BY <2>1, <2>2, <2>3 DEF NoSettledWaiter
  <1>5. OutcomeOfReturned'
    <2> SUFFICES ASSUME NEW c \in Control
                 PROVE  outcome'[c] # "none" <=> status'[c] = "returned"
      BY DEF OutcomeOfReturned
    <2>1. CASE c \in resolved
      BY <1>1, <1>2, <2>1, VerdictMeaning
    <2>2. CASE c \notin resolved
      BY <1>1, <2>2 DEF Deliveries, OutcomeOfReturned
    <2> QED BY <2>1, <2>2
  <1>6. SuccessMeansAcked'
    <2> SUFFICES ASSUME NEW c \in Control, outcome'[c] = "SUCCESS"
                 PROVE  \E n \in Sub : <<c, n>> \in succeeded'
      BY DEF SuccessMeansAcked
    <2>1. CASE c \in resolved
      <3>1. AnySuccess(acks'[c])
        BY <1>1, <1>2, <2>1, VerdictMeaning
      <3> QED BY <3>1 DEF SuccessWitnessed
    <2>2. CASE c \notin resolved
      BY <1>1, <2>2 DEF Deliveries, SuccessMeansAcked
    <2> QED BY <2>1, <2>2
  <1>7. FailureHidesNoSuccess'
    <2> SUFFICES ASSUME NEW c \in Control, outcome'[c] = "FAILED", ~require_all'[c]
                 PROVE  ~AnySuccess(acks'[c])
      BY DEF FailureHidesNoSuccess
    <2>1. CASE c \in resolved
      BY <1>1, <1>2, <2>1, VerdictMeaning
    <2>2. CASE c \notin resolved
      <3>1. status[c] = "returned" /\ outcome[c] = "FAILED"
        BY <1>1, <2>2 DEF Deliveries, OutcomeOfReturned
      <3>2. c \notin cs
        BY <1>3, <3>1
      <3> QED BY <3>1, <3>2 DEF Deliveries, FailureHidesNoSuccess
    <2> QED BY <2>1, <2>2
  <1> QED BY <1>4, <1>5, <1>6, <1>7 DEF Deliveries

LEMMA UnsubscribeKeepsDeliveries ==
  ASSUME TypeOK, Deliveries, NEW n \in Sub, Unsubscribe(n)
  PROVE  Deliveries'
  <1> DEFINE s == request[n].stream
             touched == {c \in pending : s \in expected[c]}
  <1>1. touched \in SUBSET pending /\ MaybeResolve(touched)
    BY DEF Unsubscribe
  <1>2. \A c \in Control \ touched : expected'[c] = expected[c] /\ acks'[c] = acks[c]
    BY DEF Unsubscribe
  <1>3. UNCHANGED <<require_all, succeeded, acks>>
    BY DEF Unsubscribe, clients
  <1>4. SuccessWitnessed'
    BY <1>3 DEF Deliveries, SuccessWitnessed
  <1> HIDE DEF s, touched
  <1> QED BY <1>1, <1>2, <1>3, <1>4, ResolveKeepsDeliveries

LEMMA RecordAckKeepsDeliveries ==
  ASSUME TypeOK, Deliveries, NEW c \in Control, NEW n \in Sub, NEW ok \in BOOLEAN,
         RecordAck(c, n, ok)
  PROVE  Deliveries'
  <1>1. succeeded \subseteq succeeded' /\ (ok => <<c, n>> \in succeeded')
    BY DEF RecordAck
  <1>2. CASE UNCHANGED delivery
    <2>1. SuccessWitnessed' /\ SuccessMeansAcked'
      BY <1>1, <1>2 DEF delivery, Deliveries, SuccessWitnessed, SuccessMeansAcked
    <2> QED
      BY <1>2, <2>1 DEF delivery, Deliveries, NoSettledWaiter, OutcomeOfReturned,
                        FailureHidesNoSuccess
  <1>3. ASSUME NEW s, c \in pending,
               expected' = [expected EXCEPT ![c] = @ \ {s}],
               acks' = [acks EXCEPT ![c] = @ \cup {[stream |-> s, ok |-> ok]}],
               MaybeResolve({c}), UNCHANGED require_all
        PROVE  Deliveries'
    <2>1. {c} \in SUBSET pending
      BY <1>3
    <2>2. \A d \in Control \ {c} : expected'[d] = expected[d] /\ acks'[d] = acks[d]
      BY <1>3 DEF TypeOK
    <2>3. SuccessWitnessed'
      <3> SUFFICES ASSUME NEW d \in Control, AnySuccess(acks'[d])
                   PROVE  \E m \in Sub : <<d, m>> \in succeeded'
        BY DEF SuccessWitnessed
      <3>1. CASE d # c
        <4>1. AnySuccess(acks[d])
          BY <2>2, <3>1
        <4> QED BY <1>1, <4>1 DEF Deliveries, SuccessWitnessed
      <3>2. CASE d = c /\ AnySuccess(acks[c])
        BY <1>1, <3>2 DEF Deliveries, SuccessWitnessed
      <3>3. CASE d = c /\ ~AnySuccess(acks[c])
        <4>1. acks'[c] = acks[c] \cup {[stream |-> s, ok |-> ok]}
          BY <1>3 DEF TypeOK
        <4>2. ok
          BY <3>3, <4>1 DEF AnySuccess
        <4> QED BY <1>1, <3>3, <4>2
      <3> QED BY <3>1, <3>2, <3>3
    <2> QED BY <1>1, <1>3, <2>1, <2>2, <2>3, ResolveKeepsDeliveries
  <1> QED
    BY <1>2, <1>3 DEF RecordAck

LEMMA DeliverKeepsDeliveries ==
  ASSUME TypeOK, Routes, Deliveries, NEW c \in Control, NEW a \in Agent, NEW session \in Session,
         NEW all \in BOOLEAN, Deliver(c, a, session, all)
  PROVE  Deliveries'
  <1> DEFINE targets == LiveTargets(a, session)
             full == {n \in targets : Len(queue[n]) >= QueueMax}
             streams(ns) == {request[n].stream : n \in ns}
  <1>1. /\ status[c] = "unsent"
        /\ require_all' = [require_all EXCEPT ![c] = all]
        /\ expected' = [expected EXCEPT ![c] = streams(targets) \ streams(full)]
        /\ acks' = [acks EXCEPT ![c] = [stream : streams(full), ok : {FALSE}]]
        /\ UNCHANGED succeeded
    BY DEF Deliver, clients
  <1>2. c \notin pending /\ outcome[c] = "none"
    BY <1>1 DEF Deliveries, NoSettledWaiter, OutcomeOfReturned
  <1>3. /\ require_all'[c] = all
        /\ expected'[c] = streams(targets) \ streams(full)
        /\ acks'[c] = [stream : streams(full), ok : {FALSE}]
        /\ \A d \in Control : d # c => /\ require_all'[d] = require_all[d]
                                       /\ expected'[d] = expected[d]
                                       /\ acks'[d] = acks[d]
    BY <1>1 DEF TypeOK
  <1>4. ~AnySuccess(acks'[c])
    <2>1. \A x \in [stream : streams(full), ok : {FALSE}] : ~x.ok
      OBVIOUS
    <2> QED BY <1>3, <2>1 DEF AnySuccess
  <1>5. CASE targets = full
    <2>1. /\ status' = [status EXCEPT ![c] = "returned"]
          /\ outcome' = [outcome EXCEPT ![c] = "FAILED"]
          /\ pending' = pending
      BY <1>5 DEF Deliver
    <2>2. /\ status'[c] = "returned" /\ outcome'[c] = "FAILED"
          /\ \A d \in Control : d # c => status'[d] = status[d] /\ outcome'[d] = outcome[d]
      BY <2>1 DEF TypeOK
    <2> HIDE DEF targets, full, streams
    <2>3. NoSettledWaiter'
      BY <1>1, <1>2, <1>3, <2>1, <2>2 DEF Deliveries, NoSettledWaiter
    <2>4. OutcomeOfReturned'
      BY <2>2 DEF Deliveries, OutcomeOfReturned
    <2>5. SuccessWitnessed' /\ SuccessMeansAcked'
      BY <1>1, <1>3, <1>4, <2>2 DEF Deliveries, SuccessWitnessed, SuccessMeansAcked
    <2>6. FailureHidesNoSuccess'
      BY <1>3, <1>4, <2>2 DEF Deliveries, FailureHidesNoSuccess
    <2> QED BY <2>3, <2>4, <2>5, <2>6 DEF Deliveries
  <1>6. CASE targets # full
    <2>1. /\ status' = [status EXCEPT ![c] = "waiting"]
          /\ outcome' = outcome
          /\ pending' = pending \cup {c}
      BY <1>6 DEF Deliver
    <2>2. /\ status'[c] = "waiting"
          /\ \A d \in Control : d # c => status'[d] = status[d]
      BY <2>1 DEF TypeOK
    <2>3. expected'[c] # {}
      <3>1. PICK n \in targets : n \notin full
        BY <1>6
      <3>2. request[n].stream \notin streams(full)
        BY <3>1, TargetStreamsDistinct
      <3> QED BY <1>3, <3>1, <3>2
    <2>4. ~Settled(require_all'[c], expected'[c], acks'[c])
      BY <1>4, <2>3 DEF Settled
    <2> HIDE DEF targets, full, streams
    <2>5. NoSettledWaiter'
      BY <1>2, <1>3, <2>1, <2>2, <2>4 DEF Deliveries, NoSettledWaiter
    <2>6. OutcomeOfReturned'
      BY <1>2, <2>1, <2>2 DEF Deliveries, OutcomeOfReturned
    <2>7. SuccessWitnessed' /\ SuccessMeansAcked'
      BY <1>1, <1>3, <1>4, <2>1 DEF Deliveries, SuccessWitnessed, SuccessMeansAcked
    <2>8. FailureHidesNoSuccess'
      BY <1>2, <1>3, <2>1 DEF Deliveries, FailureHidesNoSuccess
    <2> QED BY <2>5, <2>6, <2>7, <2>8 DEF Deliveries
  <1> QED BY <1>5, <1>6

LEMMA DeliveriesStep == TypeOK /\ Routes /\ Deliveries /\ [Next]_vars => Deliveries'
  <1> SUFFICES ASSUME TypeOK, Routes, Deliveries, [Next]_vars PROVE Deliveries'
    OBVIOUS
  <1>1. CASE UNCHANGED <<delivery, succeeded>>
    BY <1>1 DEF delivery, Deliveries, NoSettledWaiter, OutcomeOfReturned, SuccessWitnessed,
                SuccessMeansAcked, FailureHidesNoSuccess
  <1>2. ASSUME NEW n \in Sub, Unsubscribe(n) PROVE Deliveries'
    BY <1>2, UnsubscribeKeepsDeliveries
  <1>3. ASSUME NEW c \in Control, NEW a \in Agent, NEW session \in Session, NEW all \in BOOLEAN,
               Deliver(c, a, session, all)
        PROVE  Deliveries'
    BY <1>3, DeliverKeepsDeliveries
  <1>4. ASSUME NEW c \in Control, NEW n \in Sub, NEW ok \in BOOLEAN, RecordAck(c, n, ok)
        PROVE  Deliveries'
    BY <1>4, RecordAckKeepsDeliveries
  <1>5. ASSUME NEW c \in Control, NEW after \in {"expired", "returned", "abandoned"},
               NEW result \in DeliveryResult \ {"SUCCESS", "FAILED"},
               status[c] \in {"unsent", "waiting", "expired"},
               status' = [status EXCEPT ![c] = after],
               outcome' = IF after = "returned" THEN [outcome EXCEPT ![c] = result] ELSE outcome,
               pending' = IF after = "returned" THEN pending \ {c} ELSE pending,
               after # "returned" => status[c] = "waiting",
               UNCHANGED <<expected, acks, require_all, succeeded>>
        PROVE  Deliveries'
    <2>1. /\ status'[c] = after
          /\ \A d \in Control : d # c => status'[d] = status[d] /\ outcome'[d] = outcome[d]
          /\ outcome'[c] = IF after = "returned" THEN result ELSE outcome[c]
      BY <1>5 DEF TypeOK
    <2>2. result \notin {"SUCCESS", "FAILED", "none"}
      BY <1>5 DEF DeliveryResult
    <2>3. outcome[c] = "none"
      BY <1>5 DEF Deliveries, OutcomeOfReturned
    <2>4. NoSettledWaiter'
      BY <1>5, <2>1 DEF Deliveries, NoSettledWaiter
    <2>5. OutcomeOfReturned'
      BY <1>5, <2>1, <2>2, <2>3 DEF Deliveries, OutcomeOfReturned
    <2>6. SuccessWitnessed' /\ SuccessMeansAcked' /\ FailureHidesNoSuccess'
      BY <1>5, <2>1, <2>2, <2>3
      DEF Deliveries, SuccessWitnessed, SuccessMeansAcked, FailureHidesNoSuccess
    <2> QED BY <2>4, <2>5, <2>6 DEF Deliveries
  <1>6. ASSUME NEW c \in Control, NEW a \in Agent, NEW session \in Session,
               DeliverUnavailable(c, a, session)
        PROVE  Deliveries'
    <2>1. pending' = pending \ {c}
      BY <1>6 DEF DeliverUnavailable, Deliveries, NoSettledWaiter
    <2> QED
      BY <1>5, <1>6, <2>1 DEF DeliverUnavailable, clients, DeliveryResult
  <1>7. ASSUME NEW c \in Control, TimeoutFires(c) PROVE Deliveries'
    <2>1. "UNAVAILABLE" \in DeliveryResult \ {"SUCCESS", "FAILED"}
      BY DEF DeliveryResult
    <2>2. /\ status' = [status EXCEPT ![c] = "expired"] /\ status[c] = "waiting"
          /\ UNCHANGED <<outcome, pending, expected, acks, require_all, succeeded>>
      BY <1>7 DEF TimeoutFires, clients
    <2> QED BY <1>5, <2>1, <2>2
  <1>8. ASSUME NEW c \in Control, TimeoutReturns(c) PROVE Deliveries'
    BY <1>5, <1>8 DEF TimeoutReturns, clients, DeliveryResult
  <1>9. ASSUME NEW c \in Control, CallerCancelled(c) PROVE Deliveries'
    <2>1. "UNAVAILABLE" \in DeliveryResult \ {"SUCCESS", "FAILED"}
      BY DEF DeliveryResult
    <2>2. /\ status' = [status EXCEPT ![c] = "abandoned"] /\ status[c] = "waiting"
          /\ UNCHANGED <<outcome, pending, expected, acks, require_all, succeeded>>
      BY <1>9 DEF CallerCancelled, clients
    <2> QED BY <1>5, <2>1, <2>2
  <1>10. ASSUME NEW n \in Sub, SendEvent(n) PROVE Deliveries'
    BY <1>1, <1>10 DEF SendEvent
  <1> QED
    BY <1>1, <1>2, <1>3, <1>4, <1>6, <1>7, <1>8, <1>9, <1>10
    DEF Next, Subscribe, RegisterAlias, vars, clients
-----------------------------------------------------------------------------
IInv == TypeOK /\ Routes /\ Deliveries

LEMMA InvariantHolds == Spec => []IInv
  <1>1. Init => IInv
    BY TypeInit, RoutesInit, DeliveriesInit DEF IInv
  <1>2. IInv /\ [Next]_vars => IInv'
    BY TypeStep, RoutesStep, DeliveriesStep DEF IInv
  <1> QED BY <1>1, <1>2, PTL DEF Spec

(* No deliver() sleeps on an answer it has, and _pending holds exactly the *)
(* deliveries in wait_for and those whose caller was cancelled there.      *)
THEOREM WaitersUnsettled == Spec => []NoSettledWaiter
  <1>1. IInv => NoSettledWaiter
    BY DEF IInv, Deliveries
  <1> QED BY <1>1, InvariantHolds, PTL

(* SUCCESS is reported only of an event a client received and acknowledged *)
(* with success.                                                           *)
THEOREM SuccessSound == Spec => []SuccessMeansAcked
  <1>1. IInv => SuccessMeansAcked
    BY DEF IInv, Deliveries
  <1> QED BY <1>1, InvariantHolds, PTL

(* With first-success delivery, FAILED is reported only if no ack recorded *)
(* was a success.                                                          *)
THEOREM FailureSound == Spec => []FailureHidesNoSuccess
  <1>1. IInv => FailureHidesNoSuccess
    BY DEF IInv, Deliveries
  <1> QED BY <1>1, InvariantHolds, PTL

(* A step changes the result and the acks of no delivery that has returned.*)
LEMMA ReturnedIsFinal ==
  ASSUME TypeOK, Deliveries, Next, NEW c \in Control
  PROVE  /\ outcome[c] # "none" => outcome'[c] = outcome[c]
         /\ status[c] = "returned" => status'[c] = "returned" /\ acks'[c] = acks[c]
  <1> SUFFICES ASSUME status[c] = "returned"
               PROVE  /\ outcome'[c] = outcome[c]
                      /\ status'[c] = "returned" /\ acks'[c] = acks[c]
    BY DEF Deliveries, OutcomeOfReturned
  <1>1. c \notin pending
    BY DEF Deliveries, NoSettledWaiter
  <1>2. ASSUME NEW cs \in SUBSET pending, MaybeResolve(cs)
        PROVE  status'[c] = status[c] /\ outcome'[c] = outcome[c]
    BY <1>1, <1>2 DEF MaybeResolve
  <1>3. CASE UNCHANGED delivery
    BY <1>3 DEF delivery
  <1>4. ASSUME NEW n \in Sub, Unsubscribe(n)
        PROVE  outcome'[c] = outcome[c] /\ status'[c] = "returned" /\ acks'[c] = acks[c]
    <2>1. PICK cs \in SUBSET pending : MaybeResolve(cs)
      BY <1>4 DEF Unsubscribe
    <2> QED BY <1>2, <1>4, <2>1 DEF Unsubscribe
  <1>5. ASSUME NEW d \in Control, NEW n \in Sub, NEW ok \in BOOLEAN, RecordAck(d, n, ok)
        PROVE  outcome'[c] = outcome[c] /\ status'[c] = "returned" /\ acks'[c] = acks[c]
    <2>1. CASE UNCHANGED delivery
      BY <1>3, <2>1
    <2>2. ASSUME NEW s, d \in pending, MaybeResolve({d}),
                 acks' = [acks EXCEPT ![d] = @ \cup {[stream |-> s, ok |-> ok]}]
          PROVE  outcome'[c] = outcome[c] /\ status'[c] = "returned" /\ acks'[c] = acks[c]
      <3>1. {d} \in SUBSET pending /\ c # d
        BY <1>1, <2>2
      <3> QED BY <1>2, <2>2, <3>1 DEF TypeOK
    <2> QED BY <1>5, <2>1, <2>2 DEF RecordAck
  <1>6. ASSUME NEW d \in Control, NEW a \in Agent, NEW session \in Session, NEW all \in BOOLEAN,
               Deliver(d, a, session, all)
        PROVE  outcome'[c] = outcome[c] /\ status'[c] = "returned" /\ acks'[c] = acks[c]
    <2>1. c # d
      BY <1>6 DEF Deliver
    <2>2. acks'[c] = acks[c]
      BY <1>6, <2>1 DEF Deliver, TypeOK
    <2>3. status'[c] = status[c] /\ outcome'[c] = outcome[c]
      BY <1>6, <2>1 DEF Deliver, TypeOK
    <2> QED BY <2>2, <2>3
  <1>7. ASSUME NEW d \in Control, NEW a \in Agent, NEW session \in Session,
               DeliverUnavailable(d, a, session)
        PROVE  outcome'[c] = outcome[c] /\ status'[c] = "returned" /\ acks'[c] = acks[c]
    BY <1>7 DEF DeliverUnavailable, TypeOK
  <1>8. ASSUME NEW d \in Control, TimeoutFires(d) \/ TimeoutReturns(d) \/ CallerCancelled(d)
        PROVE  outcome'[c] = outcome[c] /\ status'[c] = "returned" /\ acks'[c] = acks[c]
    BY <1>8 DEF TimeoutFires, TimeoutReturns, CallerCancelled, TypeOK
  <1> QED
    BY <1>3, <1>4, <1>5, <1>6, <1>7, <1>8 DEF Next, Subscribe, RegisterAlias, SendEvent

(* An outcome, once returned, never changes, and no ack is added to it.    *)
THEOREM OutcomesFinal == Spec => OutcomeFinal
  <1>1. IInv /\ [Next]_vars =>
          [\A c \in Control :
             /\ outcome[c] # "none" => outcome'[c] = outcome[c]
             /\ status[c] = "returned" => status'[c] = "returned" /\ acks'[c] = acks[c]]_vars
    BY ReturnedIsFinal DEF IInv
  <1> QED BY <1>1, InvariantHolds, PTL DEF Spec, OutcomeFinal
=============================================================================
