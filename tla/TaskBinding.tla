---------------------------- MODULE TaskBinding ----------------------------
(***************************************************************************)
(* Tasks, their status and the span each is bound to: the plan and task    *)
(* handlers of server/harmonograf_server/ingest.py, the rows of the        *)
(* storage, and what an open browser tab makes of the frames               *)
(* (TaskRegistry, frontend/src/gantt/index.ts).                            *)
(*                                                                         *)
(* Two telemetry streams reach the server: the orchestrator's, with the    *)
(* plan and the task events, and an agent's, with its spans.  Each stream  *)
(* is handled one message at a time; the handlers of the two interleave    *)
(* at their awaits.  A write and the delta it publishes have no await      *)
(* between them.                                                           *)
(*                                                                         *)
(* One plan, one leaf span per task.  Bound to an agent stands for bound   *)
(* to an INVOCATION span of that agent, which of them is left out.         *)
(* BLOCKED and CANCELLED are as RUNNING and FAILED here.                   *)
(***************************************************************************)
EXTENDS Naturals, Sequences, FiniteSets, Functions

CONSTANTS
    Tasks,          \* task ids
    Agents,         \* agents that tasks are assigned to
    Nobody,         \* no assignee, no bound span
    Leaf,           \* bound to the task's own leaf span
    MaxPlans,       \* bound: plans sent, the revisions included
    MaxInvocations, \* bound: INVOCATION spans per agent
    MaxQueue        \* bound: frames queued for the tab

ASSUME NamesAssumption == Nobody \notin Agents /\ Leaf \notin Agents /\ Nobody # Leaf
ASSUME BoundsAssumption == MaxPlans \in Nat /\ MaxInvocations \in Nat /\ MaxQueue \in Nat

VARIABLES
    truth,    \* the orchestrator's own status of each task
    plans,    \* plans sent
    tasks,    \* the stored rows of the plan, by task
    index,    \* _task_index: the tasks whose plan is known without a scan
    intents,  \* _pending_task_bindings: <<agent, task>>
    invoked,  \* stored INVOCATION spans of each agent
    leaf,     \* the leaf span of each task: "new", "running" or "ended"
    o,        \* the handler of the orchestrator's stream
    a,        \* the handler of the agent's stream
    watch,    \* the tab's stream: phase and queued frames
    view,     \* the statuses the tab shows, by task
    begun,    \* history: tasks started with an assignee under this plan
    stale     \* history: tasks whose last write the open tab is not told of

server == <<tasks, index, intents, begun, stale>>
vars == <<truth, plans, tasks, index, intents, invoked, leaf, o, a, watch,
          view, begun, stale>>

Status == {"PENDING", "RUNNING", "COMPLETED", "FAILED"}
Terminal == {"COMPLETED", "FAILED"}
Spans == Agents \cup {Leaf}
Row == [status : Status, bound : Spans \cup {Nobody},
        assignee : Agents \cup {Nobody}]
Rows == UNION {[ts -> Row] : ts \in SUBSET Tasks}
Views == UNION {[ts -> Status] : ts \in SUBSET Tasks}

Idle == [at |-> "idle"]

Init ==
    /\ truth = [t \in Tasks |-> "PENDING"]
    /\ plans = 0
    /\ tasks = <<>>
    /\ index = {}
    /\ intents = {}
    /\ invoked = [g \in Agents |-> 0]
    /\ leaf = [t \in Tasks |-> "new"]
    /\ o = Idle
    /\ a = Idle
    /\ watch = [phase |-> "closed", queue |-> <<>>]
    /\ view = <<>>
    /\ begun = {}
    /\ stale = {}

-----------------------------------------------------------------------------
(* The storage and the bus.                                                *)

Statuses(rows) == [t \in DOMAIN rows |-> rows[t].status]

PlanFrame(rows) == [plan |-> TRUE, statuses |-> Statuses(rows)]

\* A PENDING task makes no event.
StatusFrame(t, s) == [plan |-> FALSE, statuses |-> [u \in {t} |-> s]]

Publish(frame) ==
    watch' = IF watch.phase = "closed" THEN watch
             ELSE [watch EXCEPT !.queue = Append(@, frame)]
PublishStatus(t, s) ==
    IF s = "PENDING" THEN UNCHANGED watch ELSE Publish(StatusFrame(t, s))

\* update_task_status and publish_task_status; nothing if there is no row.
UpdateSilently(t, s, b) ==  \* mutant: an update that is not published
    /\ UNCHANGED watch
    /\ IF t \in DOMAIN tasks
         THEN /\ tasks' = [tasks EXCEPT ![t].status = s,
                             ![t].bound = IF b = Nobody THEN @ ELSE b]
              /\ index' = index \cup {t}
         ELSE UNCHANGED <<tasks, index>>

Update(t, s, b) ==
    IF t \in DOMAIN tasks
      THEN /\ tasks' = [tasks EXCEPT ![t].status = s,
                          ![t].bound = IF b = Nobody THEN @ ELSE b]
           /\ index' = index \cup {t}
           /\ PublishStatus(t, s)
      ELSE UNCHANGED <<tasks, index, watch>>

-----------------------------------------------------------------------------
(* The orchestrator's stream.                                              *)

\* A plan is stored: its rows replace those there were, spans and all.
PutPlan(ts, assignee) ==
    /\ o = Idle
    /\ plans < MaxPlans
    /\ plans' = plans + 1
    /\ tasks' = [t \in ts |-> [status |-> truth[t], bound |-> Nobody,
                               assignee |-> assignee[t]]]
    /\ o' = [at |-> "plan", rows |-> tasks']
    /\ begun' = {}
    /\ UNCHANGED <<truth, index, intents, invoked, leaf, a, watch, view, stale>>

\* After _persist_plan_revision: the index, and the rows as they were put.
PublishPlan ==
    /\ o.at = "plan"
    /\ o' = Idle
    /\ index' = DOMAIN o.rows
    /\ Publish(PlanFrame(o.rows))
    /\ stale' = {t \in DOMAIN o.rows : o.rows[t].status # tasks[t].status}
    /\ UNCHANGED <<truth, plans, tasks, intents, invoked, leaf, a, view, begun>>

\* task_started.
TaskStarted(t) ==
    /\ o = Idle
    /\ plans > 0
    /\ truth[t] = "PENDING"
    /\ truth' = [truth EXCEPT ![t] = "RUNNING"]
    /\ o' = [at |-> "lookup", task |-> t]
    /\ UNCHANGED <<plans, invoked, leaf, a, watch, view, server>>

Applying(t, s, b) == [at |-> "apply", task |-> t, status |-> s, bound |-> b]

\* _lookup_task, by the index or by a scan that fills it.
LookupForgets ==  \* mutant: the scan does not fill the index
    /\ o.at = "lookup"
    /\ o' = IF o.task \in DOMAIN tasks /\ tasks[o.task].assignee # Nobody
              THEN [at |-> "find", task |-> o.task,
                    agent |-> tasks[o.task].assignee]
              ELSE Applying(o.task, "RUNNING", Nobody)
    /\ UNCHANGED <<truth, plans, invoked, leaf, a, watch, view, server>>

Lookup ==
    /\ o.at = "lookup"
    /\ index' = IF o.task \in DOMAIN tasks THEN index \cup {o.task} ELSE index
    /\ o' = IF o.task \in DOMAIN tasks /\ tasks[o.task].assignee # Nobody
              THEN [at |-> "find", task |-> o.task,
                    agent |-> tasks[o.task].assignee]
              ELSE Applying(o.task, "RUNNING", Nobody)
    /\ UNCHANGED <<truth, plans, tasks, intents, invoked, leaf, a, watch, view,
                   begun, stale>>

\* _find_invocation_span_for_agent, and the intent where there is none.
\* The read ends and the intent is left without an await between them, and
\* so are a span's write and its drain: one of the two sees the other.
FindSpan ==
    /\ o.at = "find"
    /\ IF invoked[o.agent] > 0
         THEN /\ o' = Applying(o.task, "RUNNING", o.agent)
              /\ UNCHANGED intents
         ELSE /\ o' = Applying(o.task, "RUNNING", Nobody)
              /\ intents' = IF o.task \in index
                              THEN intents \cup {<<o.agent, o.task>>}
                              ELSE intents
    /\ begun' = begun \cup {o.task}
    /\ UNCHANGED <<truth, plans, tasks, index, invoked, leaf, a, watch, view,
                   stale>>

\* task_completed, task_failed.
TaskEnded(t, s) ==
    /\ o = Idle
    /\ truth[t] = "RUNNING"
    /\ truth' = [truth EXCEPT ![t] = s]
    /\ o' = Applying(t, s, Nobody)
    /\ UNCHANGED <<plans, invoked, leaf, a, watch, view, server>>

\* _apply_goldfive_task_status.
Apply ==
    /\ o.at = "apply"
    /\ Update(o.task, o.status, o.bound)
    /\ o' = Idle
    /\ UNCHANGED <<truth, plans, intents, invoked, leaf, a, view, begun, stale>>

\* delegation_observed: the row gets an assignee, and its status again.
Delegated(t, g) ==
    /\ o = Idle
    /\ t \in DOMAIN tasks
    /\ tasks[t].assignee # g
    /\ tasks' = [tasks EXCEPT ![t].assignee = g]
    /\ index' = index \cup {t}
    /\ PublishStatus(t, tasks[t].status)
    /\ UNCHANGED <<truth, plans, intents, invoked, leaf, o, a, view, begun, stale>>

-----------------------------------------------------------------------------
(* The agent's stream.                                                     *)

Draining(g, ts) == IF ts = {} THEN Idle
                   ELSE [at |-> "drain", agent |-> g, left |-> ts]

\* An INVOCATION span is stored, and the intents of its agent are taken.
InvocationStarts(g) ==
    /\ a = Idle
    /\ invoked[g] < MaxInvocations
    /\ invoked' = [invoked EXCEPT ![g] = @ + 1]
    /\ a' = Draining(g, {t \in Tasks : <<g, t>> \in intents})
    /\ intents' = {x \in intents : x[1] # g}
    /\ UNCHANGED <<truth, plans, tasks, index, leaf, o, watch, view, begun, stale>>

\* _drain_pending_bindings_for_span reads the status of a task ...
DrainRead(t) ==
    /\ a.at = "drain"
    /\ t \in a.left
    /\ a' = [at |-> "write", agent |-> a.agent, left |-> a.left \ {t}, task |-> t,
             status |-> IF t \in DOMAIN tasks THEN tasks[t].status ELSE "RUNNING"]
    /\ index' = IF t \in DOMAIN tasks THEN index \cup {t} ELSE index
    /\ UNCHANGED <<truth, plans, tasks, intents, invoked, leaf, o, watch, view,
                   begun, stale>>

DrainForgetsSpan ==  \* mutant: the status is written back without the span
    /\ a.at = "write"
    /\ tasks' = IF a.task \in DOMAIN tasks
                  THEN [tasks EXCEPT ![a.task].status = a.status] ELSE tasks
    /\ a' = Draining(a.agent, a.left)
    /\ UNCHANGED <<truth, plans, index, intents, invoked, leaf, o, watch, view,
                   begun, stale>>

\* ... and writes it back with the span.
DrainWrite ==
    /\ a.at = "write"
    /\ IF a.task \in DOMAIN tasks
         THEN /\ tasks' = [tasks EXCEPT ![a.task].status = a.status,
                                        ![a.task].bound = a.agent]
              /\ stale' = IF a.status = "PENDING" /\ tasks[a.task].status # "PENDING"
                          THEN stale \cup {a.task} ELSE stale
              /\ PublishStatus(a.task, a.status)
         ELSE UNCHANGED <<tasks, stale, watch>>
    /\ a' = Draining(a.agent, a.left)
    /\ UNCHANGED <<truth, plans, index, intents, invoked, leaf, o, view, begun>>

\* A leaf span that names its task starts; it fails, or ends well.
LeafStarts(t) ==
    /\ a = Idle
    /\ leaf[t] = "new"
    /\ leaf' = [leaf EXCEPT ![t] = "running"]
    /\ a' = [at |-> "bind", task |-> t, status |-> "RUNNING"]
    /\ UNCHANGED <<truth, plans, invoked, o, watch, view, server>>

LeafEnds(t, failed) ==
    /\ a = Idle
    /\ leaf[t] = "running"
    /\ leaf' = [leaf EXCEPT ![t] = "ended"]
    /\ a' = IF failed THEN [at |-> "bind", task |-> t, status |-> "FAILED"]
            ELSE Idle
    /\ UNCHANGED <<truth, plans, invoked, o, watch, view, server>>

\* _bind_task_to_span, which does not look at the status the task has.
BindLeaf ==
    /\ a.at = "bind"
    /\ Update(a.task, a.status, Leaf)
    /\ a' = Idle
    /\ UNCHANGED <<truth, plans, intents, invoked, leaf, o, view, begun, stale>>

-----------------------------------------------------------------------------
(* What ends in the middle.                                                *)

\* The orchestrator's stream ends in a handler.
OrchestratorLost ==
    /\ o # Idle
    /\ o' = Idle
    /\ begun' = IF o.at = "apply" THEN begun \ {o.task} ELSE begun
    /\ stale' = IF o.at = "plan" THEN DOMAIN tasks ELSE stale
    /\ UNCHANGED <<truth, plans, tasks, index, intents, invoked, leaf, a, watch,
                   view>>

\* The agent's stream ends in a handler: the intents it took are gone.
AgentLost ==
    /\ a # Idle
    /\ a' = Idle
    /\ begun' = CASE a.at = "drain" -> begun \ a.left
                  [] a.at = "write" -> begun \ (a.left \cup {a.task})
                  [] OTHER -> begun
    /\ UNCHANGED <<truth, plans, tasks, index, intents, invoked, leaf, o, watch,
                   view, stale>>

\* The server restarts with its storage and without its memory.
Restart ==
    /\ plans > 0
    /\ index # {} \/ intents # {}
    /\ index' = {}
    /\ intents' = {}
    /\ o' = Idle
    /\ a' = Idle
    /\ watch' = [phase |-> "closed", queue |-> <<>>]
    /\ begun' = {}
    /\ UNCHANGED <<truth, plans, tasks, invoked, leaf, view, stale>>

-----------------------------------------------------------------------------
(* The tab.                                                                *)

WatchOpens ==
    /\ watch.phase = "closed"
    /\ watch' = [phase |-> "reading", queue |-> <<>>]
    /\ stale' = {}
    /\ UNCHANGED <<truth, plans, tasks, index, intents, invoked, leaf, o, a, view,
                   begun>>

\* TaskRegistry: upsertPlan, updateTaskStatusByTaskId.
Shown(shown, frame) ==
    IF frame.plan
      THEN frame.statuses
      ELSE [t \in DOMAIN shown |-> IF t \in DOMAIN frame.statuses
                                     THEN frame.statuses[t] ELSE shown[t]]

\* The burst's plan and its tasks' events.  A plan without rows is no plan.
ReadPlan ==
    /\ watch.phase = "reading"
    /\ watch' = [watch EXCEPT !.phase = "open"]
    /\ view' = IF plans = 0 THEN view ELSE Shown(view, PlanFrame(tasks))
    /\ UNCHANGED <<truth, plans, invoked, leaf, o, a, server>>

Receive ==
    /\ watch.phase = "open"
    /\ watch.queue # <<>>
    /\ watch' = [watch EXCEPT !.queue = Tail(@)]
    /\ view' = Shown(view, Head(watch.queue))
    /\ UNCHANGED <<truth, plans, invoked, leaf, o, a, server>>

WatchCloses ==
    /\ watch.phase # "closed"
    /\ watch' = [phase |-> "closed", queue |-> <<>>]
    /\ UNCHANGED <<truth, plans, invoked, leaf, o, a, view, server>>

-----------------------------------------------------------------------------
Next ==
    \/ \E ts \in SUBSET Tasks, assignee \in [Tasks -> Agents \cup {Nobody}] :
         ts # {} /\ PutPlan(ts, assignee)
    \/ PublishPlan \/ Lookup \/ FindSpan \/ Apply
    \/ \E t \in Tasks :
         \/ TaskStarted(t)
         \/ \E s \in Terminal : TaskEnded(t, s)
         \/ \E g \in Agents : Delegated(t, g)
         \/ DrainRead(t)
         \/ LeafStarts(t)
         \/ \E failed \in BOOLEAN : LeafEnds(t, failed)
    \/ \E g \in Agents : InvocationStarts(g)
    \/ DrainWrite \/ BindLeaf
    \/ OrchestratorLost \/ AgentLost \/ Restart
    \/ WatchOpens \/ ReadPlan \/ Receive \/ WatchCloses

Spec == Init /\ [][Next]_vars

\* The server's event loop runs the handlers it has begun and serves the
\* tab; the clients owe nothing.
FairSpec ==
    /\ Spec
    /\ WF_vars(PublishPlan) /\ WF_vars(Lookup) /\ WF_vars(FindSpan)
    /\ WF_vars(Apply) /\ WF_vars(DrainWrite) /\ WF_vars(BindLeaf)
    /\ \A t \in Tasks : WF_vars(DrainRead(t))
    /\ WF_vars(ReadPlan) /\ WF_vars(Receive)

QueueBounded == Len(watch.queue) <= MaxQueue

-----------------------------------------------------------------------------
(* Every variable keeps the type the code gives it.                        *)
TypeOK ==
    /\ truth \in [Tasks -> Status]
    /\ plans \in 0..MaxPlans
    /\ tasks \in Rows
    /\ index \subseteq Tasks
    /\ intents \subseteq Agents \X Tasks
    /\ invoked \in [Agents -> 0..MaxInvocations]
    /\ leaf \in [Tasks -> {"new", "running", "ended"}]
    /\ o.at \in {"idle", "plan", "lookup", "find", "apply"}
    /\ a.at \in {"idle", "drain", "write", "bind"}
    /\ watch.phase \in {"closed", "reading", "open"}
    /\ \A i \in DOMAIN watch.queue : watch.queue[i].statuses \in Views
    /\ view \in Views
    /\ begun \subseteq Tasks
    /\ stale \subseteq Tasks

\* A tab that has read its stream shows the status each task has in the
\* storage, unless a handler published an older plan over it, wrote PENDING
\* back, or ended before it published.
TasksShown ==
    watch.phase = "open" /\ watch.queue = <<>> /\ o.at # "plan" =>
      \A t \in DOMAIN tasks \ stale :
        t \in DOMAIN view /\ view[t] = tasks[t].status

\* No binding waits for an agent whose span is already there: whichever of
\* the start of the task and the span comes first, the other finds it.
IntentsWait == \A x \in intents : invoked[x[1]] = 0

\* A task that was started with an assignee is bound, will be by the handler
\* that has it in hand, or waits for its agent's span.
StartedTasksBind ==
    \A t \in begun \cap DOMAIN tasks :
      \/ tasks[t].bound # Nobody
      \/ \E g \in Agents : <<g, t>> \in intents
      \/ o.at = "apply" /\ o.task = t /\ o.bound # Nobody
      \/ a.at = "drain" /\ t \in a.left
      \/ a.at = "write" /\ t \in a.left \cup {a.task}

\* A task that started is bound or its binding waits for the invocation's
\* span, through drains, revisions and span arrivals in any order.
BindingsFound == TypeOK /\ IntentsWait /\ StartedTasksBind

\* And in the end it is bound or waits, or the row, the server's memory or
\* the stream that had it in hand is gone.
StartedTasksSettle ==
    \A t \in Tasks :
      t \in begun ~>
        \/ t \notin begun \cap DOMAIN tasks
        \/ tasks[t].bound # Nobody
        \/ \E g \in Agents : <<g, t>> \in intents
=============================================================================
