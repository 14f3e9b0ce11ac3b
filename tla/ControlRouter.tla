---------------------------- MODULE ControlRouter ----------------------------
(***************************************************************************)
(* server/harmonograf_server/control_router.py, class ControlRouter, with  *)
(* the SubscribeControl RPC (rpc/control.py) that drains a subscription    *)
(* and the clients that receive control events and acknowledge them on     *)
(* their telemetry stream (ingest.py, handle_message).                     *)
(*                                                                         *)
(* The server is one asyncio loop.  No critical section of the router      *)
(* awaits, so its lock is never contended and each method is atomic, but   *)
(* for deliver(), which suspends in wait_for: an ack, an unsubscribe, the  *)
(* timeout and the cancellation of the caller may come first.  When the    *)
(* timeout fires, wait_for cancels the future and deliver() runs again one *)
(* loop iteration later: TimeoutFires and TimeoutReturns.                  *)
(*                                                                         *)
(* A subscription object is a number; two of them may carry one stream id. *)
(***************************************************************************)
EXTENDS Naturals, Sequences, FiniteSets

CONSTANTS
  Agent,      \* agent ids: those of transports and names of their sub-agents
  Session,    \* session ids
  Stream,     \* stream ids of SubscribeControl requests
  Request,    \* the SubscribeControl requests clients issue, each with the
              \* telemetry stream the client acknowledges its events on
  Control,    \* control ids, each sent at most once (uuid4)
  MaxSubs,    \* bound: subscriptions opened in a behaviour
  QueueMax    \* maxsize of a subscription's queue (256)

ASSUME RequestAssumption ==
  /\ Request \subseteq [agent : Agent, session : Session, stream : Stream, telemetry : Stream]
  /\ Request # {}
ASSUME MaxSubsAssumption == MaxSubs \in Nat
ASSUME QueueMaxAssumption == QueueMax \in Nat

VARIABLES
  subs,        \* _subs: agent -> stream -> subscription, 0 where there is none
  opened,      \* number of subscriptions opened so far
  request,     \* subscription -> the request that opened it
  open,        \* subscriptions whose RPC is still running
  queue,       \* subscription -> events queued for it
  aliases,     \* _aliases: set of <<sub-agent, stream agent>>, a function
  pending,     \* keys of _pending
  expected,    \* _PendingDelivery.expected_stream_ids
  acks,        \* _PendingDelivery.acks: [stream, ok]
  require_all, \* _PendingDelivery.require_all
  status,      \* where the deliver() of a control id stands
  outcome,     \* what it returned
  received,    \* <<control, subscription>>: handed to the client, not acked
  succeeded    \* <<control, subscription>>: acked with success by the client

routing == <<subs, opened, request, open, queue, aliases>>
delivery == <<pending, expected, acks, require_all, status, outcome>>
clients == <<received, succeeded>>
vars == <<routing, delivery, clients>>

Sub == 1 .. MaxSubs
AckRecord == [stream : Stream, ok : BOOLEAN]
DeliveryResult == {"SUCCESS", "UNAVAILABLE", "DEADLINE_EXCEEDED", "FAILED"}

(* waiting: in wait_for; expired: wait_for cancelled the future, deliver() *)
(* has not run yet; abandoned: the RPC that called deliver() was cancelled.*)
Status == {"unsent", "waiting", "expired", "returned", "abandoned"}

Init ==
  /\ subs = [a \in Agent |-> [s \in Stream |-> 0]]
  /\ opened = 0
  /\ request = [n \in Sub |-> CHOOSE r \in Request : TRUE]   \* meaningful up to opened
  /\ open = {}
  /\ queue = [n \in Sub |-> <<>>]
  /\ aliases = {}
  /\ pending = {}
  /\ expected = [c \in Control |-> {}]
  /\ acks = [c \in Control |-> {}]
  /\ require_all = [c \in Control |-> FALSE]
  /\ status = [c \in Control |-> "unsent"]
  /\ outcome = [c \in Control |-> "none"]
  /\ received = {}
  /\ succeeded = {}
-----------------------------------------------------------------------------
(* _maybe_resolve: when a delivery is settled, and with what result.       *)
AnySuccess(as) == \E a \in as : a.ok
AllSuccess(as) == \A a \in as : a.ok

Settled(all, exp, as) ==
  IF all THEN exp = {} ELSE AnySuccess(as) \/ exp = {}

(* Mutant: all() over no acks is true, so a delivery nobody answers        *)
(* succeeds.                                                               *)
Verdict_VacuousAll(all, as) ==
  IF (all /\ AllSuccess(as)) \/ (~all /\ AnySuccess(as)) THEN "SUCCESS" ELSE "FAILED"

(* Mutant: one failure fails every delivery.                               *)
Verdict_OneFailureFails(all, as) ==
  IF AnySuccess(as) /\ AllSuccess(as) THEN "SUCCESS" ELSE "FAILED"

Verdict(all, as) ==
  IF AnySuccess(as) /\ (all => AllSuccess(as)) THEN "SUCCESS" ELSE "FAILED"

(* Mutant: a resolved delivery stays in _pending.                          *)
MaybeResolve_KeepsEntry(cs) ==
  LET resolved == {c \in cs : /\ status[c] = "waiting"
                              /\ Settled(require_all[c], expected'[c], acks'[c])}
  IN  /\ pending' = pending
      /\ status' = [c \in Control |-> IF c \in resolved THEN "returned" ELSE status[c]]
      /\ outcome' = [c \in Control |->
                       IF c \in resolved THEN Verdict(require_all[c], acks'[c]) ELSE outcome[c]]

(* The deliveries in cs, whose expected streams and acks have just become  *)
(* expected' and acks', resolve if they can.                               *)
MaybeResolve(cs) ==
  LET resolved == {c \in cs : /\ status[c] = "waiting"
                              /\ Settled(require_all[c], expected'[c], acks'[c])}
  IN  /\ pending' = pending \ resolved
      /\ status' = [c \in Control |-> IF c \in resolved THEN "returned" ELSE status[c]]
      /\ outcome' = [c \in Control |->
                       IF c \in resolved THEN Verdict(require_all[c], acks'[c]) ELSE outcome[c]]
-----------------------------------------------------------------------------
(* subscribe(): a later subscription replaces one of the same stream id.   *)
Subscribe(r) ==
  LET n == opened + 1
  IN  /\ opened < MaxSubs
      /\ opened' = n
      /\ request' = [request EXCEPT ![n] = r]
      /\ open' = open \cup {n}
      /\ subs' = [subs EXCEPT ![r.agent][r.stream] = n]
      /\ UNCHANGED <<queue, aliases, delivery, clients>>

(* unsubscribe(), from the RPC's finally: the entry of its stream id goes, *)
(* whichever subscription it holds, and every delivery stops expecting the *)
(* stream.  The queue goes with the RPC.                                   *)
Unsubscribe(n) ==
  LET a == request[n].agent
      s == request[n].stream
      touched == {c \in pending : s \in expected[c]}
  IN  /\ n \in open
      /\ open' = open \ {n}
      /\ queue' = [queue EXCEPT ![n] = <<>>]
      /\ subs' = [subs EXCEPT ![a][s] = 0]
      /\ expected' = [c \in Control |-> IF c \in touched THEN expected[c] \ {s} ELSE expected[c]]
      /\ acks' = acks
      /\ MaybeResolve(touched)
      /\ aliases' = IF \A t \in Stream : subs'[a][t] = 0
                      THEN {al \in aliases : al[2] # a} ELSE aliases
      /\ UNCHANGED <<opened, request, require_all, clients>>

(* register_alias(), from ingest on a span of a sub-agent.                 *)
RegisterAlias(sub_agent, stream_agent) ==
  /\ sub_agent # stream_agent
  /\ aliases' = {al \in aliases : al[1] # sub_agent} \cup {<<sub_agent, stream_agent>>}
  /\ UNCHANGED <<subs, opened, request, open, queue, delivery, clients>>

(* The subscriptions deliver() selects: those of the agent, or else of the *)
(* agent it is an alias of; among them those of the session, if any.       *)
Bucket(a) == {subs[a][s] : s \in Stream} \ {0}

LiveTargets(a, session) ==
  LET bucket == IF Bucket(a) # {} THEN Bucket(a)
                ELSE UNION {Bucket(al[2]) : al \in {al \in aliases : al[1] = a}}
      live == bucket \cap open
      matched == {n \in live : request[n].session = session}
  IN  IF matched # {} THEN matched ELSE live

(* deliver(), up to wait_for, finding nobody.                              *)
DeliverUnavailable(c, a, session) ==
  /\ status[c] = "unsent"
  /\ LiveTargets(a, session) = {}
  /\ status' = [status EXCEPT ![c] = "returned"]
  /\ outcome' = [outcome EXCEPT ![c] = "UNAVAILABLE"]
  /\ UNCHANGED <<routing, pending, expected, acks, require_all, clients>>

(* deliver(), up to wait_for: the event is queued for every target, and a  *)
(* full queue counts as a failure ack.                                     *)
Deliver(c, a, session, all) ==
  LET targets == LiveTargets(a, session)
      full == {n \in targets : Len(queue[n]) >= QueueMax}
      streams(ns) == {request[n].stream : n \in ns}
  IN  /\ status[c] = "unsent"
      /\ targets # {}
      /\ require_all' = [require_all EXCEPT ![c] = all]
      /\ expected' = [expected EXCEPT ![c] = streams(targets) \ streams(full)]
      /\ acks' = [acks EXCEPT ![c] = [stream : streams(full), ok : {FALSE}]]
      /\ queue' = [n \in Sub |-> IF n \in targets \ full THEN Append(queue[n], c) ELSE queue[n]]
      /\ IF targets = full
           THEN /\ status' = [status EXCEPT ![c] = "returned"]
                /\ outcome' = [outcome EXCEPT ![c] = "FAILED"]
                /\ UNCHANGED pending
           ELSE /\ status' = [status EXCEPT ![c] = "waiting"]
                /\ pending' = pending \cup {c}
                /\ UNCHANGED outcome
      /\ UNCHANGED <<subs, opened, request, open, aliases, clients>>

(* Mutants: the deadline runs only until the first ack; the late return    *)
(* leaves the entry to the acks that come after it.                        *)
TimeoutFires_BeforeFirstAck(c) ==
  /\ status[c] = "waiting"
  /\ acks[c] = {}
  /\ status' = [status EXCEPT ![c] = "expired"]
  /\ UNCHANGED <<routing, pending, expected, acks, require_all, outcome, clients>>

(* deliver(): the deadline passes, then deliver() runs again and returns   *)
(* with the acks that came meanwhile.                                      *)
TimeoutFires(c) ==
  /\ status[c] = "waiting"
  /\ status' = [status EXCEPT ![c] = "expired"]
  /\ UNCHANGED <<routing, pending, expected, acks, require_all, outcome, clients>>

TimeoutReturns(c) ==
  /\ status[c] = "expired"
  /\ status' = [status EXCEPT ![c] = "returned"]
  /\ outcome' = [outcome EXCEPT ![c] = "DEADLINE_EXCEEDED"]
  /\ pending' = pending \ {c}
  /\ UNCHANGED <<routing, expected, acks, require_all, clients>>

(* The RPC awaiting deliver() is cancelled: CancelledError is not caught,  *)
(* and the pending delivery stays behind.                                  *)
CallerCancelled(c) ==
  /\ status[c] = "waiting"
  /\ status' = [status EXCEPT ![c] = "abandoned"]
  /\ UNCHANGED <<routing, pending, expected, acks, require_all, outcome, clients>>

(* SubscribeControl's loop: the oldest queued event goes to the client.    *)
SendEvent(n) ==
  /\ n \in open
  /\ queue[n] # <<>>
  /\ queue' = [queue EXCEPT ![n] = Tail(@)]
  /\ received' = received \cup {<<Head(queue[n]), n>>}
  /\ UNCHANGED <<subs, opened, request, open, aliases, delivery, succeeded>>

(* record_ack(), for the ack a client sends on its telemetry stream after  *)
(* receiving event c on subscription n.  An ack whose stream is not one of *)
(* those expected is credited to any one of them.                          *)
RecordAck(c, n, ok) ==
  LET credit == IF request[n].telemetry \in expected[c]
                  THEN {request[n].telemetry} ELSE expected[c]
  IN  /\ <<c, n>> \in received
      /\ received' = received \ {<<c, n>>}
      /\ succeeded' = IF ok THEN succeeded \cup {<<c, n>>} ELSE succeeded
      /\ \/ /\ c \in pending
            /\ \E s \in credit :
                 /\ expected' = [expected EXCEPT ![c] = @ \ {s}]
                 /\ acks' = [acks EXCEPT ![c] = @ \cup {[stream |-> s, ok |-> ok]}]
                 /\ MaybeResolve({c})
                 /\ UNCHANGED require_all
         \/ /\ c \notin pending \/ credit = {}
            /\ UNCHANGED delivery
      /\ UNCHANGED routing

Next ==
  \/ \E r \in Request : Subscribe(r)
  \/ \E n \in Sub : Unsubscribe(n)
  \/ \E a, b \in Agent : RegisterAlias(a, b)
  \/ \E c \in Control, a \in Agent, session \in Session :
       \/ DeliverUnavailable(c, a, session)
       \/ \E all \in BOOLEAN : Deliver(c, a, session, all)
  \/ \E c \in Control : TimeoutFires(c)
  \/ \E c \in Control : TimeoutReturns(c)
  \/ \E c \in Control : CallerCancelled(c)
  \/ \E n \in Sub : SendEvent(n)
  \/ \E c \in Control, n \in Sub, ok \in BOOLEAN : RecordAck(c, n, ok)

(* wait_for's timer fires, and the loop runs what is ready.                *)
Fairness ==
  /\ \A c \in Control : WF_vars(TimeoutFires(c))
  /\ \A c \in Control : WF_vars(TimeoutReturns(c))

Spec == Init /\ [][Next]_vars
FairSpec == Spec /\ Fairness
-----------------------------------------------------------------------------
TypeOK ==
  /\ subs \in [Agent -> [Stream -> 0 .. MaxSubs]]
  /\ opened \in 0 .. MaxSubs
  /\ request \in [Sub -> Request]
  /\ open \subseteq 1 .. opened
  /\ queue \in [Sub -> Seq(Control)]
  /\ aliases \subseteq Agent \X Agent
  /\ pending \subseteq Control
  /\ expected \in [Control -> SUBSET Stream]
  /\ acks \in [Control -> SUBSET AckRecord]
  /\ require_all \in [Control -> BOOLEAN]
  /\ status \in [Control -> Status]
  /\ outcome \in [Control -> DeliveryResult \cup {"none"}]
  /\ received \subseteq Control \X Sub
  /\ succeeded \subseteq Control \X Sub

(* No deliver() sleeps on an answer it already has: while it waits, its    *)
(* entry is in _pending, where acks and unsubscribes find it, and what it  *)
(* waits for is still undecided.  Nothing else keeps an entry alive, but a *)
(* timeout about to return and the calls whose RPC was cancelled.          *)
NoSettledWaiter ==
  /\ pending = {c \in Control : status[c] \in {"waiting", "expired", "abandoned"}}
  /\ \A c \in Control :
       status[c] = "waiting" => ~Settled(require_all[c], expected[c], acks[c])

(* SUCCESS is never reported to the frontend (and an annotation never      *)
(* stamped as delivered) unless a client received that very event and      *)
(* acknowledged it with success: not on a full queue, a client that went   *)
(* away, or an ack for another control id.                                 *)
SuccessMeansAcked ==
  \A c \in Control :
    outcome[c] = "SUCCESS" => \E n \in Sub : <<c, n>> \in succeeded

(* FAILED hides no success: with first-success delivery, no ack recorded   *)
(* before the result was a success.                                        *)
FailureHidesNoSuccess ==
  \A c \in Control :
    outcome[c] = "FAILED" /\ ~require_all[c] => ~AnySuccess(acks[c])

(* A deliver() returns one outcome, whatever acks, unsubscribes and        *)
(* timeouts come after it, and no ack is added to one that has returned.   *)
OutcomeFinal ==
  [][\A c \in Control :
       /\ outcome[c] # "none" => outcome'[c] = outcome[c]
       /\ status[c] = "returned" => status'[c] = "returned" /\ acks'[c] = acks[c]]_vars

(* Every deliver() returns, or its caller has gone.                        *)
DeliverReturns ==
  \A c \in Control : status[c] = "waiting" ~> status[c] \in {"returned", "abandoned"}
=============================================================================
