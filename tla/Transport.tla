------------------------------ MODULE Transport ------------------------------
(***************************************************************************)
(* client/harmonograf_client/transport.py, class Transport: the daemon     *)
(* thread that drains the event buffer onto the StreamTelemetry RPC, with  *)
(* the agent thread that emits (client.py), and the server's end of the    *)
(* RPC (rpc/telemetry.py, StreamTelemetry).                                *)
(*                                                                         *)
(* The transport thread is one asyncio loop.  Its send queue is unbounded, *)
(* so the send loop suspends only in wait_for(_wake): other coroutines run *)
(* only when pc is "waiting" or "closing".  The agent thread runs between  *)
(* any two steps; each of its locked calls is one.  A timed-out wait and a *)
(* wake do the same, so _wake is left out.                                 *)
(*                                                                         *)
(* Whenever a connection ends before shutdown, _serve awaits the tasks it  *)
(* has just cancelled; their CancelledError is not an Exception, so it     *)
(* leaves _serve, and _run takes it for its own cancellation and returns.  *)
(*                                                                         *)
(* The event buffer is what CountedLossQueue promises of it: pushing onto  *)
(* a full buffer loses one envelope or, after stripping a payload          *)
(* reference, none.  Envelopes are numbered as they are emitted.           *)
(***************************************************************************)
EXTENDS Naturals, Sequences, SequencesExt, FiniteSets

CONSTANTS
  Capacity,          \* the event buffer's capacity
  BatchMax,          \* SEND_BATCH_MAX
  ChunkInterleave,   \* PAYLOAD_CHUNK_INTERLEAVE
  BreakerThreshold,  \* breaker_failure_threshold
  MaxEmits,          \* bound: envelopes emitted
  MaxPayloads,       \* bound: payload chunks staged
  MaxAcks,           \* bound: control events received
  MaxHeartbeats,     \* bound: heartbeats sent
  MaxFailures        \* bound: consecutive failures to open a channel

ASSUME CapacityAssumption == Capacity \in Nat \ {0}
ASSUME BatchAssumption == BatchMax \in Nat \ {0} /\ ChunkInterleave \in Nat \ {0}
ASSUME BreakerAssumption == BreakerThreshold \in Nat \ {0}
ASSUME BoundsAssumption == {MaxEmits, MaxPayloads, MaxAcks, MaxHeartbeats, MaxFailures} \subseteq Nat

VARIABLES
  emitted,      \* envelopes emitted so far
  events,       \* _events: emission numbers, oldest first
  refs,         \* those pushed with has_payload_ref and not stripped
  dropped,      \* emission numbers the buffer dropped
  staging,      \* an emit has staged its payload and not pushed its envelope
  chunks,       \* length of _chunk_queue
  staged,       \* chunks ever put there
  session_sub,  \* a session subscription is registered
  stop,         \* _stop
  accepted,     \* value of emitted when _stop was set
  pc,           \* where the transport thread is
  batch,        \* popped from the buffer, not yet on the send queue
  since_chunk,  \* sent_since_chunk
  hello_sent,   \* _hello_sent
  healthy,      \* _healthy
  breaker,      \* _breaker_state
  failures,     \* _consecutive_failures
  welcome,      \* Welcome has arrived
  acks,         \* control events received
  heartbeats,   \* heartbeats sent
  rpc,          \* the StreamTelemetry RPC
  sendq,        \* frames on the send queue or on the wire
  received      \* frames the server has handled

agent == <<emitted, events, refs, dropped, staging, chunks, staged, session_sub, stop, accepted>>
sending == <<batch, since_chunk, hello_sent, acks, heartbeats>>
link == <<healthy, breaker, failures>>
stream == <<welcome, rpc, sendq, received>>
vars == <<agent, pc, sending, link, stream>>

Ids(s) == {s[k] : k \in DOMAIN s}
Min2(a, b) == IF a <= b THEN a ELSE b

(* Upstream frames.  Only a span frame carries an envelope.                *)
Kind == {"hello", "span", "chunk", "control_ack", "heartbeat", "goodbye", "eof"}
Frame == [kind : Kind, id : Nat]
FrameOf(kind) == [kind |-> kind, id |-> 0]
SpanFrame(i) == [kind |-> "span", id |-> i]

Init ==
  /\ emitted = 0 /\ events = <<>> /\ refs = {} /\ dropped = {}
  /\ staging = FALSE /\ chunks = 0 /\ staged = 0
  /\ session_sub = FALSE /\ stop = FALSE /\ accepted = 0
  /\ pc = "idle"
  /\ batch = <<>> /\ since_chunk = 0 /\ hello_sent = FALSE
  /\ acks = 0 /\ heartbeats = 0
  /\ healthy = FALSE /\ breaker = "closed" /\ failures = 0
  /\ welcome = FALSE /\ rpc = "none" /\ sendq = <<>> /\ received = <<>>
-----------------------------------------------------------------------------
(* The agent thread: emit_span_start and its like.  _attach_payload comes  *)
(* first, and enqueue_payload wakes the transport.                         *)
StagePayload ==
  /\ ~staging /\ emitted < MaxEmits /\ staged < MaxPayloads
  /\ staging' = TRUE
  /\ chunks' = chunks + 1
  /\ staged' = staged + 1
  /\ UNCHANGED <<emitted, events, refs, dropped, session_sub, stop, accepted, pc, sending, link, stream>>

PushEnvelope ==
  /\ emitted < MaxEmits
  /\ emitted' = emitted + 1
  /\ LET flagged == IF staging THEN {emitted + 1} ELSE {}
     IN  \/ /\ Len(events) < Capacity
            /\ events' = Append(events, emitted + 1)
            /\ refs' = refs \cup flagged
            /\ UNCHANGED dropped
         \/ \E i \in Ids(events) \cap refs :
              /\ Len(events) >= Capacity
              /\ events' = Append(events, emitted + 1)
              /\ refs' = (refs \ {i}) \cup flagged
              /\ UNCHANGED dropped
         \/ \E k \in DOMAIN events :
              /\ Len(events) >= Capacity
              /\ events' = Append(RemoveAt(events, k), emitted + 1)
              /\ refs' = refs \cup flagged
              /\ dropped' = dropped \cup {events[k]}
  /\ staging' = FALSE
  /\ UNCHANGED <<chunks, staged, session_sub, stop, accepted, pc, sending, link, stream>>

(* open_session_subscription, from the telemetry plugin's before_run.  It  *)
(* needs no Welcome.                                                       *)
OpenSessionSubscription ==
  /\ ~session_sub
  /\ session_sub' = TRUE
  /\ UNCHANGED <<emitted, events, refs, dropped, staging, chunks, staged, stop, accepted, pc, sending, link, stream>>

(* Client.shutdown: it waits for an empty buffer, but not beyond its       *)
(* deadline.                                                               *)
Shutdown ==
  /\ ~stop
  /\ stop' = TRUE
  /\ accepted' = emitted
  /\ UNCHANGED <<emitted, events, refs, dropped, staging, chunks, staged, session_sub, pc, sending, link, stream>>
-----------------------------------------------------------------------------
(* _run: one attempt, after the cooldown if the breaker is open.           *)
Attempt ==
  /\ pc = "idle" /\ ~stop
  /\ pc' = "connecting"
  /\ breaker' = IF breaker = "open" THEN "half_open" ELSE breaker
  /\ healthy' = FALSE
  /\ UNCHANGED <<agent, sending, failures, stream>>

RunStops ==
  /\ pc = "idle" /\ stop
  /\ pc' = "ended"
  /\ UNCHANGED <<agent, sending, link, stream>>

(* Mutant: one failure too many.                                           *)
ConnectFails_OffByOne ==
  /\ pc = "connecting" /\ failures < MaxFailures
  /\ failures' = failures + 1
  /\ breaker' = IF failures' > BreakerThreshold \/ breaker = "half_open" THEN "open" ELSE breaker
  /\ pc' = "idle"
  /\ UNCHANGED <<agent, sending, healthy, stream>>

(* The channel cannot be opened: _on_failed_attempt.                       *)
ConnectFails ==
  /\ pc = "connecting" /\ failures < MaxFailures
  /\ failures' = failures + 1
  /\ breaker' = IF failures' >= BreakerThreshold \/ breaker = "half_open" THEN "open" ELSE breaker
  /\ pc' = "idle"
  /\ UNCHANGED <<agent, sending, healthy, stream>>

(* _serve, up to the send loop's first look at _stop.                      *)
Connect ==
  /\ pc = "connecting"
  /\ pc' = IF stop THEN "draining" ELSE "waiting"
  /\ rpc' = "open"
  /\ hello_sent' = FALSE
  /\ sendq' = <<>> /\ received' = <<>> /\ welcome' = FALSE
  /\ UNCHANGED <<agent, batch, since_chunk, acks, heartbeats, link>>

MarkHealthy ==
  /\ healthy' = TRUE
  /\ breaker' = IF healthy THEN breaker ELSE "closed"
  /\ failures' = IF healthy THEN failures ELSE 0

(* _maybe_send_hello, as the frame it puts before the first envelope.      *)
Hello(ids) == IF hello_sent \/ ids = <<>> THEN <<>> ELSE <<FrameOf("hello")>>

(* What a stretch of the buffer becomes on the send queue, with the frames *)
(* that follow it.                                                         *)
Burst(ids, rest) == Hello(ids) \o [k \in DOMAIN ids |-> SpanFrame(ids[k])] \o rest

SendBurst(ids, rest) ==
  /\ sendq' = sendq \o Burst(ids, rest)
  /\ hello_sent' = (hello_sent \/ ids # <<>>)

(* Mutants: the newest envelopes go first; those beyond the batch are lost.*)
PopBatch_Newest ==
  LET n == Min2(BatchMax, Len(events))
  IN  /\ pc = "waiting"
      /\ pc' = "sending"
      /\ batch' = SubSeq(events, Len(events) - n + 1, Len(events))
      /\ events' = SubSeq(events, 1, Len(events) - n)
      /\ since_chunk' = 0
      /\ UNCHANGED <<emitted, refs, dropped, staging, chunks, staged, session_sub, stop, accepted,
                     hello_sent, acks, heartbeats, link, stream>>

PopBatch_LosesRest ==
  /\ pc = "waiting"
  /\ pc' = "sending"
  /\ batch' = SubSeq(events, 1, Min2(BatchMax, Len(events)))
  /\ events' = <<>>
  /\ since_chunk' = 0
  /\ UNCHANGED <<emitted, refs, dropped, staging, chunks, staged, session_sub, stop, accepted,
                 hello_sent, acks, heartbeats, link, stream>>

(* _send_loop: an iteration begins with pop_batch.                         *)
PopBatch ==
  LET n == Min2(BatchMax, Len(events))
  IN  /\ pc = "waiting"
      /\ pc' = "sending"
      /\ batch' = SubSeq(events, 1, n)
      /\ events' = SubSeq(events, n + 1, Len(events))
      /\ since_chunk' = 0
      /\ UNCHANGED <<emitted, refs, dropped, staging, chunks, staged, session_sub, stop, accepted,
                     hello_sent, acks, heartbeats, link, stream>>

(* One envelope of the batch, and a payload chunk after every so many.     *)
SendEnvelope ==
  LET chunk_due == since_chunk + 1 >= ChunkInterleave
      chunk == IF chunk_due /\ chunks > 0 THEN <<FrameOf("chunk")>> ELSE <<>>
  IN  /\ pc = "sending" /\ batch # <<>>
      /\ SendBurst(<<Head(batch)>>, chunk)
      /\ batch' = Tail(batch)
      /\ since_chunk' = IF chunk_due THEN 0 ELSE since_chunk + 1
      /\ chunks' = chunks - Len(chunk)
      /\ MarkHealthy
      /\ UNCHANGED <<emitted, events, refs, dropped, staging, staged, session_sub, stop, accepted,
                     pc, acks, heartbeats, welcome, rpc, received>>

(* The batch is sent: the chunks that are left follow.                     *)
FlushChunk ==
  /\ pc = "sending" /\ batch = <<>> /\ chunks > 0
  /\ chunks' = chunks - 1
  /\ sendq' = Append(sendq, FrameOf("chunk"))
  /\ UNCHANGED <<emitted, events, refs, dropped, staging, staged, session_sub, stop, accepted,
                 pc, sending, link, welcome, rpc, received>>

(* Mutant: heartbeats do not wait for Hello.                               *)
EndIteration_EagerHeartbeat ==
  /\ pc = "sending" /\ batch = <<>> /\ chunks = 0
  /\ pc' = IF stop THEN "draining" ELSE "waiting"
  /\ \/ UNCHANGED <<sendq, heartbeats, link>>
     \/ /\ heartbeats < MaxHeartbeats
        /\ sendq' = Append(sendq, FrameOf("heartbeat"))
        /\ heartbeats' = heartbeats + 1
        /\ MarkHealthy
  /\ UNCHANGED <<agent, batch, since_chunk, hello_sent, acks, welcome, rpc, received>>

(* The iteration ends, with a heartbeat if one is due and Hello was sent,  *)
(* and the loop looks at _stop.                                            *)
EndIteration ==
  /\ pc = "sending" /\ batch = <<>> /\ chunks = 0
  /\ pc' = IF stop THEN "draining" ELSE "waiting"
  /\ \/ UNCHANGED <<sendq, heartbeats, link>>
     \/ /\ hello_sent /\ heartbeats < MaxHeartbeats
        /\ sendq' = Append(sendq, FrameOf("heartbeat"))
        /\ heartbeats' = heartbeats + 1
        /\ MarkHealthy
  /\ UNCHANGED <<agent, batch, since_chunk, hello_sent, acks, welcome, rpc, received>>

(* The finally of _send_loop: up to a capacity of envelopes, Goodbye, EOF. *)
Remaining == SubSeq(events, 1, Min2(Capacity, Len(events)))

DrainBuffer ==
  LET goodbye == IF hello_sent \/ Remaining # <<>> THEN <<FrameOf("goodbye")>> ELSE <<>>
  IN  /\ events' = SubSeq(events, Len(Remaining) + 1, Len(events))
      /\ SendBurst(Remaining, goodbye \o <<FrameOf("eof")>>)
      /\ UNCHANGED <<emitted, refs, dropped, staging, chunks, staged, session_sub, stop, accepted,
                     batch, since_chunk, acks, heartbeats, link, welcome, received>>

(* _stop was seen: the stream is flushed and the server's end awaited.     *)
Drain ==
  /\ pc = "draining"
  /\ pc' = "closing"
  /\ DrainBuffer
  /\ UNCHANGED rpc

(* The server closed its end, or _SHUTDOWN_DRAIN_TIMEOUT_S passed and the  *)
(* call is cancelled with what it has not delivered.                       *)
CloseEnds ==
  /\ pc = "closing" /\ rpc # "open"
  /\ pc' = "ended"
  /\ UNCHANGED <<agent, sending, link, stream>>

(* Mutant: no timeout.                                                     *)
DrainTimesOut_Never == FALSE /\ UNCHANGED vars

DrainTimesOut ==
  /\ pc = "closing" /\ rpc = "open"
  /\ pc' = "ended"
  /\ rpc' = "failed"
  /\ UNCHANGED <<agent, sending, link, welcome, sendq, received>>

(* The RPC, or the home control subscription, ended under a running send   *)
(* loop: the loop is cancelled, drains the buffer onto a queue nobody      *)
(* reads, and _run returns.                                                *)
TearDown ==
  /\ pc = "waiting" /\ (rpc = "failed" \/ welcome)
  /\ pc' = "ended"
  /\ rpc' = "failed"
  /\ DrainBuffer
-----------------------------------------------------------------------------
(* The control loop answers an event: on the home subscription, opened     *)
(* after Welcome, or on a session subscription.                            *)
SendControlAck ==
  /\ pc = "waiting" /\ rpc = "open" /\ (welcome \/ session_sub) /\ acks < MaxAcks
  /\ acks' = acks + 1
  /\ sendq' = Append(sendq, FrameOf("control_ack"))
  /\ UNCHANGED <<agent, pc, batch, since_chunk, hello_sent, heartbeats, link, welcome, rpc, received>>

WelcomeArrives ==
  /\ pc \in {"waiting", "closing"} /\ rpc = "open" /\ received # <<>> /\ ~welcome
  /\ welcome' = TRUE
  /\ UNCHANGED <<agent, pc, sending, link, rpc, sendq, received>>

(* StreamTelemetry: a first frame that is not Hello aborts the RPC, as     *)
(* does a stream that ends without one; the end of a stream completes it.  *)
ServerReceives ==
  /\ rpc = "open" /\ sendq # <<>>
  /\ sendq' = Tail(sendq)
  /\ IF received = <<>> /\ Head(sendq).kind # "hello"
       THEN rpc' = "failed" /\ UNCHANGED received
       ELSE IF Head(sendq).kind = "eof"
              THEN rpc' = "closed" /\ UNCHANGED received
              ELSE received' = Append(received, Head(sendq)) /\ UNCHANGED rpc
  /\ UNCHANGED <<agent, pc, sending, link, welcome>>

LinkFails ==
  /\ rpc = "open"
  /\ rpc' = "failed"
  /\ UNCHANGED <<agent, pc, sending, link, welcome, sendq, received>>

Worker ==
  \/ Attempt \/ RunStops \/ ConnectFails \/ Connect
  \/ PopBatch \/ SendEnvelope \/ FlushChunk \/ EndIteration
  \/ Drain \/ CloseEnds \/ DrainTimesOut \/ TearDown

Next ==
  \/ StagePayload \/ PushEnvelope \/ OpenSessionSubscription \/ Shutdown
  \/ Worker
  \/ SendControlAck \/ WelcomeArrives \/ ServerReceives \/ LinkFails

Spec == Init /\ [][Next]_vars

(* The thread is scheduled and its timers fire.                            *)
FairSpec == Spec /\ WF_vars(Worker)
-----------------------------------------------------------------------------
TypeOK ==
  /\ emitted \in 0 .. MaxEmits /\ accepted \in 0 .. emitted
  /\ events \in Seq(1 .. emitted) /\ Len(events) <= Capacity + staged
  /\ refs \subseteq 1 .. emitted /\ dropped \subseteq 1 .. emitted
  /\ staging \in BOOLEAN /\ session_sub \in BOOLEAN /\ stop \in BOOLEAN
  /\ staged \in 0 .. MaxPayloads /\ chunks \in 0 .. staged
  /\ pc \in {"idle", "connecting", "waiting", "sending", "draining", "closing", "ended"}
  /\ batch \in Seq(1 .. emitted) /\ Len(batch) <= BatchMax
  /\ since_chunk \in 0 .. ChunkInterleave
  /\ hello_sent \in BOOLEAN /\ healthy \in BOOLEAN /\ welcome \in BOOLEAN
  /\ acks \in 0 .. MaxAcks /\ heartbeats \in 0 .. MaxHeartbeats
  /\ breaker \in {"closed", "open", "half_open"} /\ failures \in 0 .. MaxFailures
  /\ rpc \in {"none", "open", "failed", "closed"}
  /\ sendq \in Seq(Frame) /\ received \in Seq(Frame)

(* What went into the stream, and the envelopes in a stretch of it.        *)
Sent == received \o sendq

SpanAt(fs) == {k \in DOMAIN fs : fs[k].kind = "span"}
SpanIds(fs) == {fs[k].id : k \in SpanAt(fs)}

(* The envelopes on the client's side, and those emitted so far that are   *)
(* in the stream or still to come.                                         *)
Pending == batch \o events
Pipeline == SpanIds(Sent) \cup Ids(Pending)

(* The stream carries its envelopes in the order of their numbers, and so  *)
(* does what is still to come, after all of them.                          *)
PipelineInOrder ==
  /\ \A j, k \in SpanAt(Sent) : j < k => Sent[j].id < Sent[k].id
  /\ \A j, k \in DOMAIN Pending : j < k => Pending[j] < Pending[k]
  /\ \A i \in SpanIds(Sent), j \in Ids(Pending) : i < j

(* Until a connection breaks, every envelope emitted is in one place: the  *)
(* stream, the batch in hand, the buffer, or the buffer's losses; and they *)
(* leave in the order they were emitted.                                   *)
EnvelopesAccounted ==
  rpc # "failed" => /\ PipelineInOrder
                    /\ Pipeline \cup dropped = 1 .. emitted
                    /\ Pipeline \cap dropped = {}

(* The lazy Hello: one per stream, sent with the first envelope, so that a *)
(* client that emits nothing leaves no trace; and no span, heartbeat or    *)
(* Goodbye without it.                                                     *)
LazyHello ==
  /\ \A k \in DOMAIN Sent :
       Sent[k].kind \in {"span", "heartbeat", "goodbye"} =>
         \E j \in 1 .. k - 1 : Sent[j].kind = "hello"
  /\ \A j \in DOMAIN Sent : Sent[j].kind = "hello" =>
       /\ \A k \in DOMAIN Sent : Sent[k].kind = "hello" => k = j
       /\ j + 1 \in DOMAIN Sent /\ Sent[j + 1].kind = "span"

(* When the server reads Goodbye it has every envelope emitted before      *)
(* shutdown() but those the buffer lost, and the few beyond the buffer's   *)
(* capacity that the drain left in it: no more than payloads were staged.  *)
GoodbyeComesLast ==
  LET missing == 1 .. accepted \ (SpanIds(received) \cup dropped)
  IN  (\E k \in DOMAIN received : received[k].kind = "goodbye") =>
        missing \subseteq Ids(events) /\ Cardinality(missing) <= staged

(* The envelopes of a stream stand between one Hello and one Goodbye.      *)
StreamFramed == LazyHello /\ GoodbyeComesLast

(* Between attempts, the breaker is open exactly when as many attempts as  *)
(* its threshold have failed since the last healthy connection, however    *)
(* the trials after a cooldown went.                                       *)
BreakerCountsFailures ==
  /\ pc = "idle" => (breaker = "open" <=> failures >= BreakerThreshold)
  /\ healthy => breaker = "closed" /\ failures = 0

(* The thread's variables have their types, and the breaker and the count  *)
(* of failures agree (_on_failed_attempt, _on_healthy_disconnect).         *)
ThreadConsistent == TypeOK /\ BreakerCountsFailures

(* shutdown() ends the thread, whatever the server does.                   *)
ShutdownEnds == stop ~> pc = "ended"

(* If the server reads its stream, an envelope in the buffer of a live     *)
(* connection reaches it, unless it is dropped, the connection breaks or   *)
(* the client shuts down.                                                  *)
EnvelopesArrive ==
  WF_vars(ServerReceives) => \A i \in 1 .. MaxEmits :
    (i \in Ids(events) /\ rpc = "open") ~>
      (i \in SpanIds(received) \cup dropped \/ rpc = "failed" \/ stop)

(* "Reconnect is exponential backoff with jitter" (transport.py): the      *)
(* thread ends only at shutdown.                                           *)
WorkerOutlivesConnection == pc = "ended" => stop
=============================================================================
