# Harmonograf in TLA+

Harmonograf watches and steers goldfive multi-agent runs. A client library in the agent's process buffers spans and
events and streams them to a server; the server stores them, fans them out to browsers, and carries control events
(pause, steer, cancel) back to the agents. This directory models the parts of it where order, loss and concurrency
decide whether it is correct. It holds TLA+ modules translated from the source, TLC runs that check them on small
instances, and TLAPS proofs of the main results for all values of the constants.

Paths below are relative to the repository root. `client/` is `client/harmonograf_client/`, `server/` is
`server/harmonograf_server/`, `frontend/` is `frontend/src/`.

Contents: [the system](#the-system) - [modules](#the-modules) - [runs](#the-runs) - [fairness](#fairness) -
[proofs](#the-proofs) - [disagreements](#where-the-code-and-its-documents-disagree) -
[not modelled](#what-is-not-modelled) - [plan](#plan).

## The system

```
 agent threads          transport thread            server (one asyncio loop)              browser
 Client.emit_* --push--> EventRingBuffer --pop--+
 _attach_payload ------> PayloadBuffer --chunks-+--StreamTelemetry--> IngestPipeline --> Store
                                                |                        |       \
                         control loop <---------+--SubscribeControl---  ControlRouter  SessionBus --WatchSession--> SessionStore
                                \---- control_ack, on StreamTelemetry --> record_ack
                                                                         ^
                                                                 SendControl, PostAnnotation <------------------- operator
```

| Component | State | Operations | Hard behaviour | What makes it correct |
|---|---|---|---|---|
| Event ring buffer, `client/buffer.py` | deque, three drop counters | `push` with three eviction tiers, `pop_batch` | producers race the transport; eviction takes from the middle | losses counted, order kept, updates lost before payload references before boundaries |
| Transport, `client/transport.py` | send queue, chunk queue, Hello flag, breaker, health, stop flag | connect, send loop, control loops, heartbeat, drain, tear-down | emits between any two steps; lost connections; shutdown against a silent server | nothing lost, duplicated or reordered on a live connection; Hello first and lazily, Goodbye last; shutdown returns |
| Payload buffer and upload, `client/buffer.py`, `client/transport.py`, `server/ingest.py` | blobs by digest, chunk queue, assemblers | put, take, evict, peek, assemble | same digest staged twice, eviction between chunks | a payload is stored whole or reported evicted |
| Control router, `server/control_router.py`, `server/rpc/control.py` | subscriptions, aliases, pending deliveries | subscribe, unsubscribe, deliver, record_ack, register_alias | acks, closes, timeouts and cancelled callers in any order | a delivery returns once, with what the clients answered |
| Session bus, `server/bus.py` | subscriptions with bounded queues | subscribe, unsubscribe, publish | slow readers | what is dropped is known to be dropped |
| WatchSession, `server/rpc/frontend.py`, `frontend/rpc/hooks.ts` | one generator per browser; the browser's store | snapshot, tail, leave | rows change between the snapshot's reads | what the browser shows ends at what is stored |
| Ingest, `server/ingest.py`, `server/rpc/telemetry.py` | stream registry, route caches, task index, pending bindings | one handler per message, sweeps | handlers of several streams interleave at each store call | rows and deltas agree; agent status follows its streams; tasks bind to spans |
| Stores, `server/storage/` | tables | one locked call each | none in the store; calls interleave | - |
| Shared subscription, `frontend/rpc/hooks.ts` | reference count, controller, status cache, each component's state | mount, unmount, read | components leave in any order, caches outlive states | one stream per tab, closed with the last component; what is shown of the session is true |
| Browser session store, `frontend/gantt/`, `frontend/rpc/goldfiveEvent.ts` | agent rows, span index with lanes, markers, delegations, plans | one reader per frame kind, queries | the same frame twice, late starts, two rows of one agent | what a query finds is what was stored, each once, in lanes that do not collide |
| Annotations, `server/rpc/frontend.py`, `frontend/rpc/hooks.ts`, `frontend/state/annotationStore.ts` | annotation rows, optimistic rows, drafts of ranges | PostAnnotation, retry, range note, Steer | answer and frame in any order, either may fail | no note lost or shown as pending for ever; a checkmark means an ack |
| Deletion and retention, `server/retention.py` | - | DeleteSession, sweep | deletes what it checked awaits ago | no live session goes by accident |
| Plan history, `server/ingest.py`, `server/rpc/frontend.py`, `frontend/gantt/index.ts`, `frontend/state/planHistoryStore.ts` | plan row, revisions, event log; two registries in the browser | plan events, burst, deltas, GetSessionPlanHistory with its backfill | three sources in any order; a row stored before its metadata | the registries hold the store's revisions, in order |
| Control bridge, interventions, `client/_control_bridge.py`, `server/interventions.py` | inbox; none | start, stop, dispatch; a merge | the runner's loop ends | - |
| Goldfive sink and plugin, `client/sink.py`, `client/telemetry_plugin.py` | open spans per invocation | callbacks | a callback that never comes | every span opened is ended |
| Rendering, UI, CLI, config, metrics, conversion | - | - | - | - |

`PROJECT.json` lists all of them with their status, and the hazards of the code line by line.

Four hazards are known and in no module's reach yet: acks take another queue than spans to the same stream
(`client/transport.py:913`, modelled, but no property relates the two); the control bridge drops what is in its inbox
at `stop()` in the belief that it will be sent again (`client/_control_bridge.py:174`); a route cached on a stream
outlives the session it was cached for (`server/ingest.py:501`); a browser that falls behind by a whole bus queue
loses frames for good (`server/bus.py`; `SessionWatch` excludes such a browser from `CatchesUp`).

## The modules

| Module | Models | How its state and actions correspond to the code |
|---|---|---|
| `EventRingBuffer` | `client/buffer.py`, `EventRingBuffer` | `dq` and the three counters are the object's fields. `push` is four actions, one per way it can end (`PushFits` and one per eviction tier), `pop_batch` is `PopBatch`. Each is atomic because each runs under the buffer's lock. An envelope keeps its number, kind and payload flag: all the buffer looks at. `emitted` and `popped` are history. |
| `CountedLossQueue` | the buffer's promise | a queue that may lose messages, never reorders, duplicates or invents one, and counts what it loses |
| `ControlRouter` | `ControlRouter` and `SubscribeControl` | `subs`, `aliases`, `pending` are the dictionaries of the class; `expected`, `acks`, `require_all` are the fields of a `_PendingDelivery`. Methods are atomic, since no critical section awaits, but for `deliver`, which suspends in `wait_for`. `Deliver` runs up to it; the answer comes from `MaybeResolve` inside `RecordAck` or `Unsubscribe`, from `TimeoutFires` and `TimeoutReturns` (two loop iterations, between which acks and closes still land), or not at all (`CallerCancelled`). |
| `Transport` | `client/transport.py`, `StreamTelemetry` in `server/rpc/telemetry.py` | `pc` is where the worker thread is. The agent thread's calls (`StagePayload`, `PushEnvelope`, `OpenSessionSubscription`, `Shutdown`) come between any two worker steps. The send queue is unbounded, so the send loop suspends only in `wait_for(_wake)`: the control loop runs only then. `DrainBuffer` is the `finally` of the send loop, which runs at shutdown and when the loop is cancelled. The buffer is what `CountedLossQueue` promises, widened by the overshoot of a stripped reference. |
| `PayloadBuffer`, `Payloads` | the payload buffer and chunk queue of the client, `_handle_payload` and its assemblers, the payload table, `DeleteSession` and `sweep_once` | `PayloadBuffer` is the class with its insertion order and byte count. In `Payloads` the send loop takes from the other end of both queues than the agent's thread, so an envelope and the chunks it releases go out in one step; `peeked` is the moment in which `_peek_payload` has taken a blob out to read it and has not put it back. A chunk that finds its blob gone becomes an eviction notice. Spans and payloads share the payload table: a span row refers to a digest, and the three clean-ups decide by those references. |
| `SessionBus` | `server/bus.py`, one session | one bounded queue per watcher; `Publish` drops, counts and offers a backpressure delta |
| `SessionWatch` | span and run handlers of `server/ingest.py`, `WatchSession`, the browser's reading of updates | extends `SessionBus`. A handler that is suspended keeps its continuation in `handler[stream]`. The server is one loop and a store call one locked step, so a call and what follows it up to the next await are one action: a row's write with its delta, the session row's read with the subscription. `view` is what the browser shows once it has read all it was sent. |
| `AgentStreams` | `handle_hello`, `_ensure_route`, `_handle_heartbeat`, `_handle_goodbye`, `close_stream` and `sweep_heartbeats` of `server/ingest.py`, `StreamTelemetry` and `heartbeat_sweeper` of `server/rpc/telemetry.py`, for one agent | `registry` is `_streams_by_agent`, `row` the agent's row in each session, `shown` what a browser shows of it. The registry's lock is never held across a suspension, so `CloseStream` is atomic; the store's lock is, so `calls` is the line of callers before it. A handler is cut at its store calls: `pc` names the call it waits for, the action of that call carries it out and runs on to the next. `RpcCancelled` is a cancellation in any of them. |
| `TaskBinding` | the plan, task and invocation handlers of `server/ingest.py`: `_upsert_plan`, `_on_task_started` and its like, `_lookup_task`, `_drain_pending_bindings_for_span`, `_bind_task_to_span`; the tab's `TaskRegistry` | two streams, each with one handler: `o` (plans and task events, from the orchestrator) and `a` (spans), cut at their store calls. `tasks` are the rows, `index` is `_task_index`, `intents` is `_pending_task_bindings`. A stream may be lost inside a handler and the server may restart, which empties `index` and `intents`. |
| `PlanRevisions`, `PlanHistory` | `TaskRegistry` and `PlanHistoryRegistry` of the browser; the plan handlers of `server/ingest.py`, the plan part of `WatchSession`, `GetSessionPlanHistory` | `PlanRevisions` has the pure part: how a registry takes a plan in, the folds that tell which task replaced which. `PlanHistory` brings them revisions by three ways that overtake each other: the burst, the deltas, and the RPC with its backfill. The registries outlive the watch stream, so a session may be opened twice. |
| `SpanIndex`, `BrowserStore` | `frontend/gantt/spatialIndex.ts` and `layout.ts`; `SessionStore` as `hooks.ts` and `goldfiveEvent.ts` fill it | `SpanIndex` has the sorted rows, the binary searches, `queryAgent`'s walk with its budget, `packLanes` and `reassignAgent`. `BrowserStore` feeds it frames of agents, spans, plans, drifts, cancels and delegations from a burst and a queue that overlap, over two visits; the orchestrator has a made-up row before the server's own arrives, and the two are merged. |
| `WatchHooks` | `useSessionWatch`, `sessionIsInactive` | `refs`, `controller`, `statusCache`, `heard` are the module-level caches of `hooks.ts`; `view` is each mounted component's state, `stream` the streams the tab has opened with what is left to read of them. `OpenStream` is the mount that finds no stream, `Join` every other; `Unmount` counts down and aborts with the last. |
| `Annotations` | `PostAnnotation`, `usePostAnnotation`, `annotationStore.ts`, the range layer, the span menu's Steer | `handler` is the server's call, cut at its two writes and its delivery; `rows` is the browser's store, with temporary ids until the answer comes; a frame of the same note comes from a burst or the queue, before or after the answer, or twice. |
| `MC...` | - | the constants of TLC's instances |
| `...Proofs` | - | see [the proofs](#the-proofs) |

`SessionWatch` is composed with `SessionBus` by EXTENDS, because they share a step: a handler writes and publishes with
no suspension between; in the same way `Payloads` extends `PayloadBuffer`, `PlanHistory` extends `PlanRevisions` and
`BrowserStore` extends `SpanIndex`, whose operators its steps apply. `EventRingBuffer` and `Transport` meet through
`CountedLossQueue`: the buffer is proved to implement it, and the transport is modelled on top of what it promises
instead of on the three tiers.

Definitions whose names carry a suffix (`PopBatch_Newest`), and those a comment calls a mutant, are the same operation
with a plausible bug. They are used by no specification. Replacing the definition by its mutant makes TLC report the
property it is listed with in `PROJECT.json`, so each property is known to depend on the code it is about.

## The runs

A property that a run checks is a conjunction of named parts, defined just above it; the first of a module also holds
its type invariant. What `ControlRouterProofs` and `EventRingBufferProofs` prove of all instances (the router's
`TypeOK` and `OutcomeFinal`, the buffer's `EmissionOrder` and `HeartbeatAccountsForEmits`) is not run again.

| Run | Question | Bounds |
|---|---|---|
| `EventRingBuffer` | Is the overshoot bounded (`Bounded`), are boundaries lost last (`BoundariesDroppedLast`)? Is it a `CountedLossQueue`, so in order and with losses counted? | capacity 2, batches up to 2, 5 emits of starts and updates with or without a payload: all tiers fire, twice in a row, with pops between |
| `ControlRouter` | Does no `deliver` sleep on an answer it has (`NoSettledWaiter`)? Does SUCCESS mean a client acked this event with success (`SuccessMeansAcked`)? Does FAILED hide none (`FailureHidesNoSuccess`)? Does every `deliver` return (`DeliverReturns`)? | one delivery, three subscriptions of two processes that share one id, an alias, queues of one event. Two subscriptions are the least with a choice of whom an ack is credited to, the third can come and replace; a queue of one is the least that can be full |
| `Transport` | Does the breaker count failures (`ThreadConsistent`)? Is every envelope in one place until the connection breaks, in order (`EnvelopesAccounted`)? Is Hello sent once, before what needs it and never by an idle client, and has the server all that was accepted when it reads Goodbye (`StreamFramed`)? Does shutdown end the thread (`ShutdownEnds`)? Does what is buffered arrive (`EnvelopesArrive`)? | buffer 1, batch 1, 3 emits, 1 payload, 1 ack, 1 heartbeat, 3 failures to connect against a threshold of 2: overflow, strip, a drain that leaves something, a failing trial after a cooldown, all happen |
| `TransportNoReconnect` | violation: the thread outlives a connection | 1 emit |
| `Payloads` | Is the byte count what the buffer holds (`BufferConsistent`)? Are payloads put together whole and refused only after an eviction (`PayloadsWhole`)? Is the payload of a stored span there, unless it was reported gone (`ReferencedFound`)? Does no clean-up take a referenced payload (`ReferencedKept`), nor the sweep a live session (`SweepSparesLive`)? | a buffer of 2 against payloads of 1, 2 and 3 chunks, two spans that share one of them, a session from earlier, 3 emits, one message on the wire, one deletion and one sweep: eviction between chunks, restaging and a shared payload all happen. One stream; more messages on the wire only delay the server, whose steps do not depend on the client's |
| `SessionWatch` | Does the queue of a browser that missed nothing lead from what it shows to what is stored, whatever was written between subscription, snapshot and tail (`CatchesUp`)? Does it see spans end before their session (`SpansEndBeforeSession`)? | two streams, an invocation older than the window and a tool call, each with one attribute change, two runs that end and may overlap, one browser with a queue of 2. Watchers share only what they read, so one stands for all; a queue of 2 is filled and drained while handlers are suspended |
| `AgentStreams` | Has every registered stream an RPC that serves it, and does a browser show the stored status once all is quiet (`RowsAndRegistryAgree`)? Is an agent whose streams are all gone shown as gone, whatever overtook what (`AgentEndsDisconnected`)? Do heartbeats win in the end over the close or sweep of another stream (`HeartbeatsConnect`)? | two streams of one agent, two sessions, one restart. Two streams are the least of which one can be the last to close while the other is in Hello; two sessions the least with a row that is not the closing stream's |
| `TaskBinding` | Is a started task bound, or waiting for a span that is not there (`BindingsFound`)? Does the tab show the stored statuses once it has read all (`TasksShown`)? Does every started task end bound or waiting, unless its row, the server's memory or its stream is gone (`StartedTasksSettle`)? | one task that may be assigned to either of two agents, a plan and a revision, one invocation of each agent, one leaf span, two frames queued (`QueueBounded`: a longer queue delays the tab's reading, on which no handler depends) |
| `PlanHistory` | Is the history sorted and true to the stored revisions (`HistoryFaithful`)? Does the live plan catch up though old deltas come after the burst (`PlansCatchUp`), the history in the first visit (`HistoryCatchesUp`)? Do the folds agree with the records they pass over (`FoldsAgree`)? | three revisions of up to three tasks that keep, drop, replace by claim, replace unclaimed and take back tasks; one task event, two visits, two notices |
| `BrowserStore` | Is the store well formed after every frame (`StoreConsistent`)? Do queries find what overlaps them (`QueriesFind`)? Have overlapping spans lanes of their own and no lane too many (`LanesPacked`)? Does the tab end with what the server has (`CaughtUp`)? | a worker with two spans that touch, the orchestrator with one, a plan, a drift, a cancel, a delegation, each stored at any time; a budget of 1 for the walk; two visits, two frames in the queue |
| `WatchHooks` | Do components share one stream, whoever leaves first (`StreamShared`)? Is what they show of the session's state true (`ViewsTrue`)? Is its end seen (`EndIsSeen`)? | three components (opener, joiner, one that comes back), three streams, one frame of other news |
| `Annotations` | Are rows settled when their post is, and checkmarks true (`RowsTrue`)? Is no note lost (`NoNoteLost`)? Does the tab end with what the server has (`NotesCaughtUp`)? Does a range stay on its row (`RangesStay`)? | two posts, the second of which may retry the first, one drag, one span, two opens of the stream |

All bounds are constants, named in the modules where they are declared. Every run sets `CHECK_DEADLOCK FALSE`, because
each system really can stop: the bounds on emits, posts, visits and updates are used up, the thread has ended, the
browser has left.

What the runs do not show by their size: more than two handlers at once, or more of a kind than the table says. Nothing
in the code distinguishes the third from the second (the registries are maps and the loops over them treat entries
alike); where there is a proof it removes the bound.

## Fairness

- `ControlRouter`: weak fairness of `TimeoutFires` and `TimeoutReturns` for each delivery. `asyncio.wait_for` sets a
  timer for each wait and the loop runs what is ready; nothing is assumed of clients. `DeliverReturns` therefore says
  that the timeout is enough.
- `Transport`: weak fairness of the worker's steps taken together (`Worker`): the thread is scheduled, its waits have
  timeouts (the send loop's tick, the drain's `_SHUTDOWN_DRAIN_TIMEOUT_S`), and connection attempts return. Nothing is
  assumed of the agent or, for `ShutdownEnds`, of the server. `EnvelopesArrive` states its one further assumption
  inside the property: that the server reads its stream.
- `AgentStreams`: weak fairness of `Stored`: the store carries out the call whose turn it is (its lock is fair and its
  calls return). That a client keeps its RPC open and sends heartbeats is assumed inside `HeartbeatsConnect`, of the
  stream it speaks of alone.
- `TaskBinding`: weak fairness of the steps of handlers that have begun, and of the tab's reading: store calls return
  and the event loops run what is ready. That messages arrive, or that a span ever comes, is not assumed.
- `WatchHooks`: weak fairness of `Read`: the tab's event loop delivers what its stream has. Components need never leave.
- `SessionWatch`, `EventRingBuffer`, `PlanHistory`, `BrowserStore`, `Annotations`, `Payloads`: safety only. "Catches
  up" is in each of them a statement about the state when nothing is left to read, so that it needs no fairness.

## The proofs

15000 obligations in eight modules, checked with Z3, Zenon and LS4. Each component's proofs extend its module.

**Buffer** (`EventRingBufferProofs`). Assumed: `Capacity` and `BatchMax` positive, `"span_update"` among the kinds.

1. Lemmas about sequences: length and elements of `Append`, `Tail`, `\o`, `SubSeq` and `RemoveAt`, stated once.
2. `QueueCorrect`: a counting lossy queue is in order and accounts for every message. Its invariant adds to the two
   properties that no message number exceeds `sent`; without it a `Send` could break the order.
3. `BufferBounded`: `TypeOK /\ OvershootBounded` is inductive. Tiers 1 and 3 keep the length, tier 2 adds one to both
   sides.
4. `BufferImplementsQueue`: under that invariant each push is a `Send` or a `SendLosing` (of the oldest update's or the
   first position) and each pop a `Receive`.
5. `BufferCorrect`: `HeartbeatAccountsForEmits` and `EmissionOrder`, carried from 2 through 4.
6. `BoundariesLast`: a step in which a boundary's number leaves both the deque and what was popped is tier 3's, which
   finds neither an update nor a reference. A pop only regroups `popped \o dq`.

**Router** (`ControlRouterProofs`). Assumed: `Request` is a non-empty set of requests, `MaxSubs` and `QueueMax`
natural. The sets of agents, sessions, streams and control ids are arbitrary.

The inductive invariant is `TypeOK /\ Routes /\ Deliveries`. `Routes` says that a registered subscription is registered
under the agent and stream it asked for, and that `aliases` is a function; it is needed because a delivery selects
subscriptions and expects *streams*: only if the selected subscriptions have distinct streams
(`TargetStreamsDistinct`) does a full queue fail no more than its own. `Deliveries` holds the three safety properties
and what they lack to be inductive: a recorded success is witnessed by a client's ack (`SuccessWitnessed`), and only a
returned delivery has an outcome (`OutcomeOfReturned`). `ResolveKeepsDeliveries` is the one lemma about
`_maybe_resolve`, used by acks and by closes. The results are `TypeCorrect`, `WaitersUnsettled`, `SuccessSound`,
`FailureSound` and, as an action property from the same invariant, `OutcomesFinal`.

**Agents' streams** (`AgentStreamsProofs`). Assumed: there is a session, and neither the sweeper nor `"none"` is a
stream. `RowsAgree` is `Spec => []RowsAndRegistryAgree`. A heartbeat with a context sample writes the agent's row in
one store call and tells the browsers after another. What could come in between is a close of another stream, and what
rules it out is the order of the store's callers. `Registered` says that a stream that is past its Hello and served is
in the registry; a close asks the store only when the registry is empty, so every close in the line is ahead of every
heartbeat (`ClosesFirst`), and none is left when a sample is stored (`SampledLast`). A row then differs from what is
shown only where a sample is under way (`ShownOrSampled`). `InLine` (a caller waits in one place) is what makes the
positions of the line meaningful. Sweeps of live streams and cancelled handlers break the argument, and the property
excludes them.

`AgentEnds` is `Spec => []AgentEndsDisconnected`, and holds with both, a cancelled Hello
apart. Its invariant says that while the row is
CONNECTED, a stream is served or a close is under way (`EndComes`): a close that finds others in the registry writes
nothing, but those others are served (`RegistryServed`) and will end too. It needs that a close writes the session
its stream's Hello named (`HomesKnown`), also when the sweeper closes it, and that `InLine` leaves no caller out.

**Transport** (`TransportProofs`). Assumed: capacity, batch size, chunk interleave and breaker threshold positive, the
bounds on events natural.

`ThreadIsConsistent` adds to `BreakerCountsFailures` what each attempt starts from (`Breaker`). `NoEnvelopeLost` sees a
connection as a pipeline, received - on the wire - in the batch - in the buffer: every step moves a part along or adds
to an end, so it is enough to follow the sequence of the numbers, which rises, and their set, which with the losses is
what was emitted. `StreamIsFramed` has three parts. `Framing` ties `_hello_sent` to a Hello in the stream. `Farewell`
says that only the end of the stream follows Goodbye and that the server misses nothing but what was still in the
buffer. How much that can be is `Outgrown`: each payload staged pays for one envelope beyond the capacity, as a payload
not yet referenced, a reference not yet stripped, or the envelope itself.

**Session watch** (`SessionWatchProofs`). Assumed: every span has one stream, spans end with the statuses the code
writes, the bounds are natural, the queue holds at least one delta.

`WatchCatchesUp` is about all the deltas in a queue, replayed from what is shown. `SpansFollow` says of a watcher that
missed nothing that the replay gives the stored row. In the burst there is no view to start from, so it is said of
*every* view a burst could produce: a row read before a delta was published and one read after it must end alike. Rows
that a handler has written and not published yet (`Unpublished`) are excepted, and `HandlersOK` says what these handlers
still owe. `StatusFollows` does the same for the session's status while one finalization runs at a time
(`OneFinalizer`). A step of a handler is reduced to what its deltas do to a replay (`Carried`), so that each handler is
proved once and not for each phase of the watcher. `SignalComesLast` adds `EndsFollow`: whatever a finalization has
told of, a replay up to its signal shows as ended.

**Plans and tasks** (`PlansProofs`, which extends `TaskBinding` and `PlanHistory`; the two share no state). Assumed: the
bounds are natural, `Nobody` and `Leaf` are no agents, and the task lists of a revision are sequences of tasks that name
no task twice (`(plan_id, id)` is the primary key of `tasks`; a plan that names a task twice is not stored). The
invariant of `BindingFound` says what the two handlers hold between their awaits: above all that a task whose span is
looked for is in the index, for otherwise the intent it leaves would name a task no drain could find.

`StatusesShown` says of every queue, not only the empty one, that it tells the stored status of a task which is not
stale: the last frame naming the task after the last plan, or else that plan, or else what is shown (`StreamTells`). A
plan's rows are in hand between the write and the delta (`o.at = "plan"`), and then they are the tasks there are
(`WritesKnown`).

`HistoryIsFaithful`: whatever holds a plan, the row, the two tables, the handler, an unread frame, an answer, holds what
goldfive gave that revision (`PlansTrue`), and what a registry appends goes to its place (`AppendRecordProperties`).
`AppendAll` and the burst are folds; they are unfolded into a run of single steps, by `SetInduction`.
`HistoryIsComplete` generalises to states that are not quiet: in the first visit, once the RPC has read the revisions,
each one is in the history, in its answer, in a frame, or with the handler, which has still to publish it
(`AllComing`). A history that is sorted and has exactly the revisions below `Len(log)` has that length.
`PlanIsShown` says what the unread frames make of the live plan: the last plan among them with the last status of each
task after it is the row, except while a plan is written and not published (`Synced`, `Told`). The burst may then be
put before deltas that are older than it, because what they tell ends in the row too (`ToldBurst`).
`FoldsAreTrue` is about what is computed from the history, in whatever order its records came. A fold whose steps stay
in a set is a run of these steps (`FoldRuns`). The cumulative pass knows, after k records, the tasks of these k, each
with the record that introduced it and one that last changed it (`Known`). The two passes of the supersession map keep
their links `Sound`: a link names a task that its revision introduced, and no task is named twice. The second pass must
not name again what the first did, nor what an earlier transition did: the tasks it takes are those first seen in this
transition that claim nothing, and the list of them repeats none (`WithoutFacts`). That needs plans that name a task
once, which is an invariant of the event log (`LogKeyed`), and by `PlanInv` of whatever holds a plan. A task that is no
longer in the latest plan was dropped in some transition, so it was claimed or is linked there (`SupersessionAgrees`).

**A tab: shared subscription, annotations and store** (`BrowserTabProofs`, which extends `WatchHooks`, `Annotations` and
`BrowserStore`; the three share no state). Assumed: the bounds are natural, there is a stream, a post and a span; of
the store's frames and actors, what `FrameAssumption`, `ActorAssumption` and `NameAssumption` say.

`StreamIsShared` rests on `Counted` (the count is the number of mounted components, and a controller is held exactly
when it is not zero) and `Openers` (the stream a component opened is still the shared one: a second can be opened only
when the count is zero and nobody is mounted). `ViewsAreTrue` adds that no frame and no cache says the session is over
before it is.

The four results about annotations have one invariant. `Calls` ties the tab's call to the server's handler and to the
temporary row: a call in flight has its row, and a row's post was seen by a handler. `NotesAreKept` follows a note
through its retries by it. `Marks` goes from a checkmark back to the agent's ack, through the row, the burst and
`delivered_at`. `Reads` says that a tab whose stream is open shows what was announced or has it still to come, in the
burst or in the queue (`Coming`), and that all of it is on the server. `RangesAreKept` needs no more than the types:
`Upsert` keeps the end that a row has.

`StoreIsConsistent` does not look at which frames come, or how often: `GoodStores` is the set of the well-formed stores,
and every frame leads from one to another, as `OnAgentGood` to `OnDelegationGood` say one by one. That a store is well
formed needs, beyond the property, that the made-up row has no spans while it is not there (`NoSpansUnknown`), for a
merge would else leave them behind. Insertion into a sorted row (`InsertByFacts`), the merge of two rows
(`ReassignGood`) and the packing of lanes (`PackGood`) are stated of the index. The burst, the merge and the packing are
folds; `FoldFunctionExists` and `FoldRuns` turn each into a run of single steps over natural numbers. The assumptions
say what is so in the code: frames of agents and spans name no `__goldfive__` row, which only the browser makes; the
user's row is not the orchestrator's; spans and markers have ids of their own, and a span does not end before it starts.

`StoreCatchesUp` says of a tab that is not done which of what was said it shows: `ShownOrComing`, each frame is shown, in
the queue, or of a kind whose rows the burst has yet to read. Every frame `Adds` to what is shown and every fold over
rows `Gains` what its frames tell; a merge of the two orchestrator rows `Kept` what was there. Only the ends of spans
can be told twice and differently, because a start replayed from the queue carries none: `QueueTrue` says that an end
stands in the queue behind its start, and `EndsTrue` that a span shows its end, unless the end is still to come.

`QueriesAreRight` is about the store's own index, whatever the window. It needs `GoodSpans` (a span ends no earlier than
it starts, and `maxEnd` reaches as far as any span) besides the sorted rows: in these, the spans that start before the
window are the first `lo` (`PrefixCounted`), so the two walks pass over disjoint parts of the row, and a span at which
the walk has stopped started more than the budget before the window.

`LanesArePacked` follows `packLanes` as a run over the row in the order of its starts. `Laid` says of the spans laid so
far that each stands in a lane whose end it does not pass, behind all that were there before it, and that every lane
below it was taken by a span still open at its start (`LayOne` is one step). From it the packed row has no collision,
and a span's lane is counted by the spans open at its start (`LowLanesCounted`). A frame then either leaves a row's solid
spans and their lanes as they are (`LanesKept`; a marker is a point and can be put anywhere), or packs the row again.
What is left is a start that comes before its end is known: `LaneInv` adds to `CatchInv` what every shown span is (`Placed`:
of a start that was said, with an end that was said, or a point), that an agent is announced before its spans
(`StartsTrue`), and that a row is packed unless one of its starts is still in the queue (`LanesTrue`).

**Payloads** (`PayloadsProofs`). Assumed: every payload has at least one chunk, the buffer's capacity is positive.

`PayloadsKept` (no clean-up takes the payload of a row that stays) needs no invariant: each clean-up decides by the rows
its own transaction reads. `SweepSpares` needs to say of the sessions on the sweep's list why one may be live
(`ListedReborn`). `BufferIsConsistent` rests on two laws of `SizeOf` (adding and taking one element).

`PayloadsAreWhole` follows one sequence, `Pipe`: the wire, the blob the send loop has in hand, and the chunk queue.
Sending moves the boundaries between them and leaves the sequence as it is, but for chunks that become notices of
eviction. In it the chunks of each payload come in runs of whole payloads, the first of which continues what the assembler has
(`Flow`), and none is missing unless the payload is in `gaps` (`Unbroken`). A step that takes, adds or replaces messages
of *other* payloads is dealt with by mapping positions (`Remap`).

`ReferencedIsFound` generalises to a state that is not quiet: while the stream is up and nothing was deleted, a payload
that an envelope anywhere or a row names is stored, reported gone, too big, or its last chunk is still to come
(`Settled`).

Only model-checked: liveness. Liveness under fairness and ENABLED are out of the prover's reach. No RECURSIVE operator
is used here. The library's induction theorems take an operator as a parameter, which the provers cannot instantiate;
where induction was needed (`Replay` in `SessionWatch`, `SizeOf` in `Payloads`, the folds of `PlanHistory` and
`BrowserStore`), it is done over a set of numbers, through the least one that is not in it (`SetInduction`,
`StepsReach`).

## Where the code and its documents disagree

With a run (`PROJECT.json`, "findings"): one lost connection ends the transport thread; there is no reconnect.

Seen while modelling, without a run of their own. *Client and transport:*

- A payload chunk can be the first frame of a stream; the server aborts it (`client/transport.py:675`).
- Tier 2 of the buffer frees no slot, so a burst of spans with payloads outgrows the capacity (`client/buffer.py:102`
  against `:163`). `OvershootBounded` says by how much.
- `docs/dev-guide/debugging.md:308` calls a non-zero `dropped_spans_critical` a bug; plain overload does it.
- Acks take another queue than spans and can overtake them (`docs/protocol/wire-ordering.md:89`), and the ack of a
  session subscription can come before Hello (`:282`).
- The breaker is reset by the first envelope queued, before Welcome (`client/transport.py:472`).
- The drain at shutdown takes one capacity of envelopes and leaves an overshoot behind (`client/transport.py:706`).
  `GoodbyeComesLast` says how much may be left. Chunks still queued at shutdown are never sent, though their envelopes
  are.
- A payload of several chunks that is staged again between the notices of its eviction ends in a digest mismatch, which
  aborts the whole stream. `RefusedWasEvicted` states that nothing else does.

*Payloads and deletion:*

- `PayloadRequest` is never sent by the server and `PayloadAvailable` is never published (`docs/protocol/payload-flow.md`,
  ADR 0016). The server does not record a digest as evicted, it clears the assembler.
- `gc_payloads` is "Safe to call at any time" (`server/storage/base.py:449`), but can collect a payload whose span has
  not arrived yet. A span's end payload takes the place of its start's in the row; the start's becomes an orphan, which
  a sweep, that never calls `gc_payloads`, leaves behind.
- A sweep can delete a session that was deleted and created again, live, since it was listed ("Live sessions are never
  touched", `server/retention.py:5`). `SweepSparesLive` excludes exactly this.
- Spans on a cached route are stored for a session that was deleted (`server/ingest.py:501`).

*Router:*

- `unsubscribe` removes whatever is registered under its stream id, also a newer subscription's entry.
- An ack under an unexpected stream id is credited to another's, after which the close of the stream that acked does
  not release the delivery that waits.
- Undelivered control events are not delivered again (`docs/design/03-server.md:405`, `:440`); the control bridge relies
  on it (`client/_control_bridge.py:174`).

*Ingest, sessions and agents:*

- A second run's end moves the session's `ended_at` and publishes the end again; the docstring of `_finalize_session`
  calls it a no-op (`server/ingest.py:1649` against `:1657`).
- "CONNECTED: at least one live telemetry stream" (`docs/protocol/data-model.md:128`) does not hold of the rows in
  sessions that a stream only routes to, of sub-agents' rows, of a row written by a Hello that was then cancelled, or
  after a server restart: `close_stream` writes one row, that of its own stream's session.
- The sweeper takes silent streams out of the registry and does not close them (`docs/protocol/wire-ordering.md:254`).
  A swept stream may go on sending; its heartbeats make its row CONNECTED again, with no registry entry for a later
  sweep to find. A heartbeat that is being handled during the sweep can leave a browser showing CONNECTED over a stored
  DISCONNECTED. `ShownIsStored` excludes exactly this and cancelled handlers.
- Spans do not reset the liveness clock, heartbeats alone do (`docs/protocol/wire-ordering.md:259`), and the stuck
  detector does not look for a running invocation (`:249`).
- Two runs of one session that end at the same time may be published in the other order than they were stored:
  a browser then shows another status than the store. `StatusCatchesUp` excludes exactly this. A SpanEnd with
  attributes on another stream may be published after the session's end.

*Plans and tasks:*

- "Once a task is terminal, further binds are rejected" (`docs/protocol/span-lifecycle.md:173`): they are not. A
  pending binding and a late leaf span both write over a terminal status (`server/ingest.py:2026`, `:467`).
- A plan's delta has the rows as they were put, stale over a status written meanwhile (`server/ingest.py:1134`), and a
  drain may write PENDING back with no event: `stale` marks these tasks and `TasksShown` excludes them. A revision
  clears `bound_span_id`; the browser is never told of it live (`Drawer.tsx:98` expects it). Intents are lost at a
  restart.
- Every plan delta is sent as a submission, so the browser's case for a revision never fires. A revision whose inline
  plan lacks `revision_index` overwrites revision 0's row. The RPC, answered between a row's two writes, gives a
  record without a kind (`DeltasNameKinds` says that no delta does). Snapshots may come out of the order that the
  comments at `frontend/gantt/index.ts:379` promise.
- After a session is opened again, its history is what the first visit had and the new frames: the flag that the RPC
  was made is never cleared (`frontend/rpc/hooks.ts:356` against the comment at `:175`).

*Watch and browser:*

- A span that started before the watch window and is still open is never shown: the window drops it
  (`server/storage/sqlite.py:1003`), and no "live delta stream fills in" (`server/rpc/frontend.py:307`).
- A second Hello publishes its own time of joining while the stored row keeps the first (`server/ingest.py:284`,
  `server/storage/sqlite.py:728`): an open tab and one opened later differ (`CaughtUp` asks for either).
- The backpressure delta is offered to the queue that was just full, and lost too.
- A start replayed from the queue shows, for a while, a span as running that the snapshot showed as ended.
- A component that joins a stream shows it connected even after it has failed, and never sees the burst as complete or
  the status change (against `hooks.ts:151`). A failed stream is opened again by nobody until all have left.
- Running spans are indexed by their start (`spatialIndex.ts:160`), not as open-ended (comment at `:135`).
- Drifts, cancels and context samples have no key, so the overlap of burst and queue, and a second visit, double them.
  A drift's marker id has the actor in it: it is drawn twice if the orchestrator's row appears in between. An upgraded
  placeholder row is not sorted again (`gantt/index.ts:126`). Rows that cancels and user drifts put markers on, and
  rows merged by an agent frame, are not packed; a row whose agent came between the burst's reads is packed by the next
  frame. The dedup keys of user messages and refine records are relative times, which change when the session is
  re-based; `interventionsStore.ts:109` relies on a notification that re-basing never sends.

*Annotations:*

- `delivered_at` is in no answer and no delta, and `markDelivered` has no caller: the checkmark never appears in an open
  tab, and a late frame can take one away (`docs/design/04-frontend-and-interaction.md:281`).
- The span menu's Steer gives the agent the note twice (`SpanContextMenu.tsx:195` against its comment at `:202`).
- A draft of a range stamps every new row of the span (`RangeSelectionLayer.tsx:155` says "by body+author"); a later
  frame resets its start but not its end; a retry loses the range, and after a call that failed behind its write it
  doubles the note. Ctrl+Enter ignores that a post is under way.

## What is not modelled

- Inside modelled parts. Router: `clear_aliases_for_stream` (no caller), the status-query callbacks (no router state).
  Transport: durations of backoff and cooldown, payload requests, closing of session subscriptions; a payload is one
  chunk (`Payloads` has the rest); the wake event, since a timed-out wait does the same. Payloads: a stream that is
  opened again, which the transport never does; the server's limit on a payload's size. SessionWatch: the parts of the
  snapshot other than session and spans (plans are `PlanHistory`'s, annotations `Annotations`', agents and markers
  `BrowserStore`'s). Ingest: replayed span starts, sub-agents' routes, the stuck detector's counters, task progress.
  PlanHistory: the count, the backfill and the second list of `GetSessionPlanHistory` are one step; dry-run revisions,
  which change nothing but the log. BrowserStore: task transitions, refine records, user messages, context samples,
  re-basing.
- Out of TLC's reach or without protocol state: SQL and migrations, field-by-field conversion, rendering, layout of
  graphs, React components, CLI, configuration, HTTP plumbing, metrics, load generation, generated protobuf code. The
  Postgres store raises NotImplementedError throughout. Most of the repository's TypeScript is of this kind: canvas
  drawing (`gantt/renderer.ts`), generated messages (`pb/`), views and drawers. Its stateful core (`rpc/hooks.ts`,
  `gantt/index.ts`, `spatialIndex.ts`, `layout.ts`, `planHistoryStore.ts`, `annotationStore.ts`) is what the browser
  modules translate, and what decides correctness is as much in the Python client and server. No faithful model would
  cover a third of all TypeScript lines.
- External: the gRPC connection, modelled by how the code uses it (in order, may break, may stall).

## Plan

Done, in this order: `CountedLossQueue`, `EventRingBuffer` and their proofs; `ControlRouter` and its proofs;
`Transport`; `SessionBus` and `SessionWatch`; `AgentStreams`; `PlanHistory`; `BrowserStore`; `WatchHooks`;
`Annotations`; `TaskBinding`; `Payloads`; the proofs of `TaskBinding`, `WatchHooks`, `AgentStreams`, `Transport`,
`SessionWatch`, `Payloads`, `Annotations`, `BrowserStore` and `PlanHistory`.

Left, most important first:

1. An abstract router (deliver, then one outcome) that `ControlRouter` is shown to implement, and `Annotations` over it
   instead of over a choice of outcomes.
2. The control bridge's hand-over and stop.
3. Two sessions in one `BrowserStore`, with re-basing; interventions as an operator against a reference.

Runs are kept few: one passing run per component, and a violation run only for a disagreement that matters. Where the
two compete, the run of a new component takes the place of the least important violation run, whose finding moves to
the list above.
