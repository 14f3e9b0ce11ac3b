--------------------------- MODULE EventRingBuffer ---------------------------
(***************************************************************************)
(* client/harmonograf_client/buffer.py, class EventRingBuffer: the buffer  *)
(* between the agent threads, which push one envelope per emit, and the    *)
(* transport thread, which pops batches and sends them.                    *)
(*                                                                         *)
(* Each method runs under the buffer's lock, so each is one action.  An    *)
(* envelope is abstracted to its emission number, its kind and its payload *)
(* flag; the buffer looks at nothing else.                                 *)
(*                                                                         *)
(* push() ends in a branch that drops the incoming envelope.  It is reached*)
(* only when _evict_one_locked() finds an empty deque at capacity, which   *)
(* capacity > 0 rules out, so no action stands for it.                     *)
(***************************************************************************)
EXTENDS Naturals, Sequences, SequencesExt

CONSTANTS
  Capacity,      \* the constructor's capacity (2000 by default)
  EnvelopeKind,  \* the kinds the run's producers emit
  BatchMax,      \* largest max_items the transport passes to pop_batch
  MaxEmits       \* bound: envelopes emitted in a behaviour

ASSUME CapacityAssumption == Capacity \in Nat \ {0}
ASSUME KindAssumption == "span_update" \in EnvelopeKind
ASSUME BatchAssumption == BatchMax \in Nat \ {0}
ASSUME EmitsAssumption == MaxEmits \in Nat

VARIABLES
  dq,                    \* _dq, oldest first
  dropped_updates,       \* BufferStats.dropped_updates
  dropped_payload_refs,  \* BufferStats.dropped_payload_refs
  dropped_spans,         \* BufferStats.dropped_spans
  emitted,               \* envelopes pushed so far: the next one's number less one
  popped                 \* envelopes handed to the transport, in order

stats == <<dropped_updates, dropped_payload_refs, dropped_spans>>
vars == <<dq, stats, emitted, popped>>

SpanEnvelope == [id : Nat, kind : EnvelopeKind, has_payload_ref : BOOLEAN]

(* BufferStats.dropped_total, the Heartbeat's dropped_events.              *)
dropped_total == dropped_updates + dropped_spans

Updates == {i \in DOMAIN dq : dq[i].kind = "span_update"}
WithPayloadRef == {i \in DOMAIN dq : dq[i].has_payload_ref}

(* The index a scan from the left of the deque finds first.                *)
IsOldest(i, S) == i \in S /\ \A j \in S : i <= j

Init ==
  /\ dq = <<>>
  /\ dropped_updates = 0
  /\ dropped_payload_refs = 0
  /\ dropped_spans = 0
  /\ emitted = 0
  /\ popped = <<>>
-----------------------------------------------------------------------------
(* Mutants, used in place of the actions below: the capacity test off by   *)
(* one, a drop not counted, the new envelope put in the dropped one's      *)
(* place, a stripped envelope re-tagged instead of cleared, a tier skipped,*)
(* a batch taken from the wrong end.                                       *)
PushFits_OffByOne(env) ==
  /\ Len(dq) <= Capacity
  /\ dq' = Append(dq, env)
  /\ UNCHANGED stats

PushDropsSpan_SkipsTierTwo(env) ==
  /\ Len(dq) >= Capacity
  /\ Updates = {}
  /\ dq' = Append(Tail(dq), env)
  /\ dropped_spans' = dropped_spans + 1
  /\ UNCHANGED <<dropped_updates, dropped_payload_refs>>

PopBatch_Newest ==
  \E max_items \in 1 .. BatchMax :
    /\ max_items <= Len(dq)
    /\ popped' = popped \o SubSeq(dq, Len(dq) - max_items + 1, Len(dq))
    /\ dq' = SubSeq(dq, 1, Len(dq) - max_items)
    /\ UNCHANGED <<stats, emitted>>

(* push(env): room left.                                                   *)
PushFits(env) ==
  /\ Len(dq) < Capacity
  /\ dq' = Append(dq, env)
  /\ UNCHANGED stats

(* push(env) at capacity, tier 1: the oldest update makes room.            *)
PushDropsUpdate(env) ==
  /\ Len(dq) >= Capacity
  /\ \E i \in DOMAIN dq :
       /\ IsOldest(i, Updates)
       /\ dq' = Append(RemoveAt(dq, i), env)
  /\ dropped_updates' = dropped_updates + 1
  /\ UNCHANGED <<dropped_payload_refs, dropped_spans>>

(* push(env) at capacity, tier 2: no update, so the oldest payload         *)
(* reference is stripped.  The envelope that carried it stays and the new  *)
(* one is appended beside it.                                              *)
PushStripsPayloadRef(env) ==
  /\ Len(dq) >= Capacity
  /\ Updates = {}
  /\ \E i \in DOMAIN dq :
       /\ IsOldest(i, WithPayloadRef)
       /\ dq' = Append([dq EXCEPT ![i].has_payload_ref = FALSE], env)
  /\ dropped_payload_refs' = dropped_payload_refs + 1
  /\ UNCHANGED <<dropped_updates, dropped_spans>>

(* push(env) at capacity, tier 3: only bare starts and ends are left, and  *)
(* the oldest goes.                                                        *)
PushDropsSpan(env) ==
  /\ Len(dq) >= Capacity
  /\ Updates = {}
  /\ WithPayloadRef = {}
  /\ dq' = Append(Tail(dq), env)
  /\ dropped_spans' = dropped_spans + 1
  /\ UNCHANGED <<dropped_updates, dropped_payload_refs>>

(* push(env), called by any agent thread.                                  *)
Push ==
  /\ emitted < MaxEmits
  /\ emitted' = emitted + 1
  /\ UNCHANGED popped
  /\ \E env \in [id : {emitted + 1}, kind : EnvelopeKind, has_payload_ref : BOOLEAN] :
       \/ PushFits(env)
       \/ PushDropsUpdate(env)
       \/ PushStripsPayloadRef(env)
       \/ PushDropsSpan(env)

(* pop_batch(max_items), called by the transport's send loop.  On an empty *)
(* buffer it changes nothing.                                              *)
PopBatch ==
  \E max_items \in 1 .. BatchMax :
    LET n == IF max_items <= Len(dq) THEN max_items ELSE Len(dq)
    IN  /\ dq # <<>>
        /\ popped' = popped \o SubSeq(dq, 1, n)
        /\ dq' = SubSeq(dq, n + 1, Len(dq))
        /\ UNCHANGED <<stats, emitted>>

Next == Push \/ PopBatch

Spec == Init /\ [][Next]_vars
-----------------------------------------------------------------------------
TypeOK ==
  /\ dq \in Seq(SpanEnvelope)
  /\ popped \in Seq(SpanEnvelope)
  /\ emitted \in Nat
  /\ dropped_updates \in Nat
  /\ dropped_payload_refs \in Nat
  /\ dropped_spans \in Nat

(* The numbers the heartbeat reports account for every emit: an envelope   *)
(* was handed to the transport, waits in the deque, or is one of           *)
(* dropped_total (buffer.py, push and pop_batch together).                 *)
HeartbeatAccountsForEmits ==
  emitted = Len(popped) + Len(dq) + dropped_total

(* How far the deque outgrows its capacity: by no more than the number of  *)
(* payload references tier 2 has stripped, since each strip admits an      *)
(* envelope and frees no slot (_evict_one_locked).                         *)
OvershootBounded == Len(dq) <= Capacity + dropped_payload_refs

(* The buffer is well formed and, pops and pushes in whatever order, stays *)
(* within its bound and the overshoot that stripping allows it (push).     *)
Bounded == TypeOK /\ OvershootBounded

(* Envelopes leave in emission order, each at most once, whatever the      *)
(* drop policy took out of the middle of the deque.                        *)
EmissionOrder ==
  LET s == popped \o dq
  IN  \A i, j \in 1 .. Len(s) : i < j => s[i].id < s[j].id

(* The drop policy's promise: a push that loses a span boundary found no   *)
(* update to lose and no payload reference to strip (_evict_one_locked).   *)
BoundariesDroppedLast ==
  [][\A i \in DOMAIN dq :
       (/\ dq[i].kind # "span_update"
        /\ \A j \in DOMAIN (popped' \o dq') : (popped' \o dq')[j].id # dq[i].id)
       => Updates = {} /\ WithPayloadRef = {}]_vars

(* The buffer is a queue that counts its losses: Push and PopBatch map to  *)
(* its Send, SendLosing and Receive.                                       *)
Ids(s) == [i \in DOMAIN s |-> s[i].id]

Queue == INSTANCE CountedLossQueue WITH
           sent <- emitted, queue <- Ids(dq), received <- Ids(popped),
           lost <- dropped_total

ImplementsCountedLossQueue == Queue!Spec
=============================================================================
