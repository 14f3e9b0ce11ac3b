----------------------------- MODULE SessionBus -----------------------------
(***************************************************************************)
(* server/harmonograf_server/bus.py, class SessionBus, for one session: a  *)
(* subscription of each watcher with its bounded queue of deltas.  The     *)
(* bus lock is never held across a suspension, so each method is one step  *)
(* of the event loop.                                                      *)
(***************************************************************************)
EXTENDS Naturals, Sequences, SequencesExt, FiniteSets

CONSTANTS
  Watcher,   \* WatchSession calls
  Maxsize    \* queue_maxsize

ASSUME MaxsizeAssumption == Maxsize \in Nat \ {0}

VARIABLES
  registered,  \* watchers whose subscription is in _subs
  queue,       \* Subscription.queue of each
  dropped      \* Subscription.dropped of each

bus == <<registered, queue, dropped>>

BusInit ==
  /\ registered = {}
  /\ queue = [w \in Watcher |-> <<>>]
  /\ dropped = [w \in Watcher |-> 0]

Subscribe(w) ==
  /\ registered' = registered \cup {w}
  /\ UNCHANGED <<queue, dropped>>

Unsubscribe(w) ==
  /\ registered' = registered \ {w}
  /\ queue' = [queue EXCEPT ![w] = <<>>]
  /\ UNCHANGED dropped

IsFull(q) == Len(q) >= Maxsize

(* put_nowait, whose QueueFull the caller drops.                           *)
PutNowait(q, d) == IF IsFull(q) THEN q ELSE Append(q, d)

Backpressure == [kind |-> "backpressure"]

(* What publish does to one subscription: a delta that finds the queue     *)
(* full is dropped and counted, and a backpressure delta offered instead.  *)
Enqueue(q, d) == IF IsFull(q) THEN PutNowait(q, Backpressure) ELSE PutNowait(q, d)

Misses(q, d) == IF IsFull(q) THEN 1 ELSE 0

Publish(d) ==
  /\ queue' = [w \in Watcher |-> IF w \in registered THEN Enqueue(queue[w], d) ELSE queue[w]]
  /\ dropped' = [w \in Watcher |->
       IF w \in registered THEN dropped[w] + Misses(queue[w], d) ELSE dropped[w]]
  /\ UNCHANGED registered

(* Two publishes with no suspension between them.                          *)
PublishBoth(d, e) ==
  /\ queue' = [w \in Watcher |->
       IF w \in registered THEN Enqueue(Enqueue(queue[w], d), e) ELSE queue[w]]
  /\ dropped' = [w \in Watcher |->
       IF w \in registered
         THEN dropped[w] + Misses(queue[w], d) + Misses(Enqueue(queue[w], d), e)
         ELSE dropped[w]]
  /\ UNCHANGED registered

BusTypeOK ==
  /\ registered \subseteq Watcher
  /\ \A w \in Watcher : Len(queue[w]) <= Maxsize /\ dropped[w] \in Nat
=============================================================================
