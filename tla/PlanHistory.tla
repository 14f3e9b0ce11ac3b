---------------------------- MODULE PlanHistory ----------------------------
(* One plan from the orchestrator's events to the browser: the plan        *)
(* handlers of server/ingest.py, the plan part of WatchSession and         *)
(* GetSessionPlanHistory in server/rpc/frontend.py, and the two registries *)
(* of the browser's session store (PlanRevisions), which outlives the      *)
(* watch streams that fill it (frontend/rpc/hooks.ts).                     *)
(*                                                                         *)
(* The server is one asyncio loop: an action runs from one store call to   *)
(* the next.  The events of the session come on one stream, whose handlers *)
(* run one after the other.                                                *)
EXTENDS PlanRevisions

CONSTANTS TaskId,
          Shape,        \* the task lists each revision may have: sequences of [id, supersedes]
          MaxRevision, MaxTaskEvents, MaxVisits, MaxNotices

StatusOrder == <<"PENDING", "RUNNING", "COMPLETED">>
Task == [id : TaskId, supersedes : TaskId \union {NoTask}, status : {"PENDING", "RUNNING", "COMPLETED"}]
Plan == [revision : Nat, kind : BOOLEAN, tasks : Seq(Task)]

(* A plan names each of its tasks once: (plan_id, id) is the key of tasks. *)
ASSUME RevisionsAssumption ==
    /\ MaxRevision \in Nat /\ MaxTaskEvents \in Nat /\ MaxVisits \in Nat /\ MaxNotices \in Nat
    /\ NoPlan \notin Plan
    /\ \A r \in 0..MaxRevision : Shape[r] \subseteq Seq([id : TaskId, supersedes : TaskId \union {NoTask}])
    /\ \A r \in 0..MaxRevision : \A shape \in Shape[r] : \A i, j \in DOMAIN shape : shape[i].id = shape[j].id => i = j

VARIABLES
    row,        \* the plan in task_plans and tasks
    revisions,  \* task_plan_revisions: the plan of each revision, in order
    log,        \* the plans of the events in goldfive_events, in order
    handler,    \* the plan handler: [pc, plan]
    taskEvents, \* how many task events there were (bound)
    watching,   \* the watch stream: "closed", "session" (subscribed), "tail"
    burst,      \* the plan frames of the burst that are not read yet
    queue,      \* the deltas published since the subscription and not read
    visits,     \* how often the session was opened (bound)
    rpc,        \* the GetSessionPlanHistory call: [state, answer]
    current, snaps, notices,    \* the browser's TaskRegistry
    history     \* the browser's PlanHistoryRegistry

serverVars == <<row, revisions, log, handler, taskEvents>>
stream == <<watching, burst, queue, visits>>
browser == <<current, snaps, notices, history>>
planVars == <<serverVars, stream, rpc, browser>>

NoHandler == [pc |-> "idle", plan |-> NoPlan]

PlansTypeOK ==
    /\ handler.pc \in {"idle", "put", "persist", "put again", "persist again"}
    /\ watching \in {"closed", "session", "tail"} /\ visits \in 0..MaxVisits
    /\ rpc.state \in {"unused", "called", "listed", "answered", "failed", "loaded"}
    /\ Len(revisions) \in {Len(log), Len(log) - 1} /\ Len(log) <= MaxRevision + 1
    /\ \A i \in DOMAIN revisions : revisions[i].revision = i - 1
    /\ Len(notices) <= MaxNotices /\ (snaps # <<>> => current # NoPlan)

PlansInit ==
    /\ row = NoPlan /\ revisions = <<>> /\ log = <<>> /\ handler = NoHandler /\ taskEvents = 0
    /\ watching = "closed" /\ burst = <<>> /\ queue = <<>> /\ visits = 0
    /\ rpc = [state |-> "unused", answer |-> <<>>]
    /\ current = NoPlan /\ snaps = <<>> /\ notices = <<>> /\ history = <<>>

-----------------------------------------------------------------------------
(* Ingest.                                                                 *)

Delta(plan) == [kind |-> "plan", plan |-> plan]
TaskDelta(t, status) == [kind |-> "task", id |-> t, status |-> status]
PublishDelta_AfterBurst(delta) == queue' = IF watching = "tail" THEN Append(queue, delta) ELSE queue
PublishDelta(delta) == queue' = IF watching = "closed" THEN queue ELSE Append(queue, delta)

(* goldfive submits a plan and then revises it.  A task it keeps has the   *)
(* status it had.  Whether a revision's plan names its kind, or only the   *)
(* event around it does, differs.  The event is logged first.              *)
StatusOf(t) == IF row # NoPlan /\ t \in TaskIds(row)
               THEN row.tasks[CHOOSE i \in DOMAIN row.tasks : row.tasks[i].id = t].status
               ELSE "PENDING"
PlanFrom(shape, r, kind) ==
    [revision |-> r, kind |-> kind,
     tasks |-> [i \in DOMAIN shape |-> [id |-> shape[i].id, supersedes |-> shape[i].supersedes,
                                        status |-> StatusOf(shape[i].id)]]]

PlanEvent(inline) ==
    LET r == Len(log)
    IN  /\ handler.pc = "idle" /\ r <= MaxRevision
        /\ \E shape \in Shape[r] :
              LET plan == PlanFrom(shape, r, inline \/ r = 0)
              IN  /\ log' = Append(log, [plan EXCEPT !.kind = TRUE])
                  /\ handler' = [pc |-> "put", plan |-> plan]
        /\ UNCHANGED <<row, revisions, taskEvents, stream, rpc, browser>>

PutRevision(table, plan) ==
    IF plan.revision < Len(table) THEN [table EXCEPT ![plan.revision + 1] = plan] ELSE Append(table, plan)

PutTaskPlan ==
    /\ handler.pc \in {"put", "put again"}
    /\ row' = handler.plan
    /\ handler' = [handler EXCEPT !.pc = IF @ = "put" THEN "persist" ELSE "persist again"]
    /\ UNCHANGED <<revisions, log, taskEvents, stream, rpc, browser>>

(* The delta holds the plan object itself.  What _on_plan_revised adds to  *)
(* it comes before its next await, so every reader sees it.                *)
Published(plan) == [plan EXCEPT !.kind = TRUE]

PersistRevision ==
    LET enriched == [handler.plan EXCEPT !.kind = TRUE]
    IN  /\ handler.pc \in {"persist", "persist again"}
        /\ revisions' = PutRevision(revisions, handler.plan)
        /\ PublishDelta(Delta(Published(handler.plan)))
        /\ handler' = IF handler.plan.kind THEN NoHandler ELSE [pc |-> "put again", plan |-> enriched]
        /\ UNCHANGED <<row, log, taskEvents, watching, burst, visits, rpc, browser>>

TaskEvent ==
    /\ handler.pc = "idle" /\ row # NoPlan /\ taskEvents < MaxTaskEvents
    /\ \E t \in TaskIds(row), s \in 2..3 :
          /\ StatusOrder[s - 1] = StatusOf(t)
          /\ row' = WithStatus(row, t, StatusOrder[s])
          /\ PublishDelta(TaskDelta(t, StatusOrder[s]))
    /\ taskEvents' = taskEvents + 1
    /\ UNCHANGED <<revisions, log, handler, watching, burst, visits, rpc, browser>>

-----------------------------------------------------------------------------
(* WatchSession.  The subscription comes before the reads of the burst.    *)
(* The burst shows a plan as its submission followed by the task events    *)
(* that lead to the statuses it has.                                       *)

OpenSession ==
    /\ watching = "closed" /\ visits < MaxVisits
    /\ watching' = "session" /\ visits' = visits + 1
    /\ UNCHANGED <<serverVars, burst, queue, rpc, browser>>

SynthesizedTasks(task) ==
    CASE task.status = "PENDING" -> <<>>
      [] task.status = "RUNNING" -> <<TaskDelta(task.id, "RUNNING")>>
      [] OTHER -> <<TaskDelta(task.id, "RUNNING"), TaskDelta(task.id, task.status)>>

ReplayPlans ==
    /\ watching = "session" /\ watching' = "tail"
    /\ burst' = IF row = NoPlan THEN <<>>
                ELSE FoldLeft(LAMBDA frames, task : frames \o SynthesizedTasks(task), <<Delta(row)>>, row.tasks)
    /\ UNCHANGED <<serverVars, queue, visits, rpc, browser>>

(* The last reader leaves: the stream is aborted, the store stays. *)
LeaveSession ==
    /\ watching = "tail"
    /\ watching' = "closed" /\ burst' = <<>> /\ queue' = <<>>
    /\ UNCHANGED <<serverVars, visits, rpc, browser>>

-----------------------------------------------------------------------------
(* GetSessionPlanHistory, called once for the life of the tab when the     *)
(* session frame is read.  If there are more plan events than revisions it *)
(* writes the revisions from the events, and reads them again.             *)

CallPlanHistory ==
    /\ rpc.state = "unused" /\ watching # "closed"
    /\ rpc' = [rpc EXCEPT !.state = "called"]
    /\ UNCHANGED <<serverVars, stream, browser>>

ListRevisions ==
    /\ rpc.state = "called"
    /\ rpc' = [state |-> "listed", answer |-> revisions]
    /\ UNCHANGED <<serverVars, stream, browser>>

BackfillRevisions ==
    /\ rpc.state = "listed"
    /\ revisions' = IF Len(log) > Len(rpc.answer) THEN log ELSE revisions
    /\ rpc' = [state |-> "answered", answer |-> IF Len(log) > Len(rpc.answer) THEN log ELSE rpc.answer]
    /\ UNCHANGED <<row, log, handler, taskEvents, stream, browser>>

RpcFails ==
    /\ rpc.state \in {"called", "listed", "answered"}
    /\ rpc' = [state |-> "failed", answer |-> <<>>]
    /\ UNCHANGED <<serverVars, stream, browser>>

-----------------------------------------------------------------------------
(* The browser.                                                            *)

Record(plan, source) == [revision |-> plan.revision, plan |-> plan, source |-> source]

LoadPlanHistory ==
    /\ rpc.state = "answered"
    /\ rpc' = [state |-> "loaded", answer |-> <<>>]
    /\ history' = AppendAll(history, [i \in DOMAIN rpc.answer |-> Record(rpc.answer[i], "rpc")])
    /\ UNCHANGED <<serverVars, stream, current, snaps, notices>>

(* Records hold copies: what a task event does to the current plan does    *)
(* not show in them.                                                       *)
KeepRecords(frame) == history

ApplyPlan(plan, source) ==
    /\ current' = plan
    /\ snaps' = Snapshots(snaps, current, plan)
    /\ notices' = Notices(notices, plan, MaxNotices)
    /\ history' = AppendRecord(history, Record(plan, source))

ApplyTask(frame) ==
    /\ current' = IF current = NoPlan THEN NoPlan ELSE WithStatus(current, frame.id, frame.status)
    /\ history' = KeepRecords(frame)
    /\ UNCHANGED <<snaps, notices>>

ReadFrame_StaleRefused(frame, source) ==
    IF frame.kind = "plan"
    THEN IF current # NoPlan /\ frame.plan.revision = current.revision THEN UNCHANGED browser ELSE ApplyPlan(frame.plan, source)
    ELSE UNCHANGED browser
ReadFrame(frame, source) == IF frame.kind = "plan" THEN ApplyPlan(frame.plan, source) ELSE ApplyTask(frame)

ReadBurst ==
    /\ watching = "tail" /\ burst # <<>>
    /\ ReadFrame(Head(burst), "burst") /\ burst' = Tail(burst)
    /\ UNCHANGED <<serverVars, watching, queue, visits, rpc>>

ReadDelta ==
    /\ watching = "tail" /\ burst = <<>> /\ queue # <<>>
    /\ ReadFrame(Head(queue), "delta") /\ queue' = Tail(queue)
    /\ UNCHANGED <<serverVars, watching, burst, visits, rpc>>

PlansNext ==
    \/ \E inline \in BOOLEAN : PlanEvent(inline)
    \/ TaskEvent
    \/ PutTaskPlan \/ PersistRevision
    \/ OpenSession \/ ReplayPlans \/ LeaveSession
    \/ CallPlanHistory \/ ListRevisions \/ BackfillRevisions \/ RpcFails \/ LoadPlanHistory
    \/ ReadBurst \/ ReadDelta

PlansSpec == PlansInit /\ [][PlansNext]_planVars
-----------------------------------------------------------------------------
(* Properties.                                                             *)

Quiet == watching = "tail" /\ burst = <<>> /\ queue = <<>> /\ handler.pc = "idle"

(* Whatever order the RPC's answer, the burst and the deltas come in, the  *)
(* registry has its records in the order of their revisions, each once.    *)
HistorySorted == \A i, j \in DOMAIN history : i < j => history[i].revision < history[j].revision

(* A record has the tasks goldfive gave that revision: no write of another *)
(* revision and no later event has got into it.                            *)
Structure(plan) == [i \in DOMAIN plan.tasks |-> [id |-> plan.tasks[i].id, supersedes |-> plan.tasks[i].supersedes]]
HistoryTruthful ==
    \A i \in DOMAIN history :
        /\ history[i].revision < Len(log)
        /\ Structure(history[i].plan) = Structure(log[history[i].revision + 1])

(* A revision's plan may reach the server without the revision's kind,     *)
(* which is added when the plan is stored and published.  A burst or an    *)
(* answer of the RPC may read the row in between; no delta shows it so.    *)
DeltasNameKinds == \A i \in DOMAIN history : history[i].source = "delta" => history[i].plan.kind

(* What PlanHistoryRegistry.append has collected is sorted, true to        *)
(* the stored revisions, and named by kind when a delta brought it.        *)
HistoryFaithful == PlansTypeOK /\ HistorySorted /\ HistoryTruthful /\ DeltasNameKinds

(* A browser that has read everything shows the stored plan with the       *)
(* stored statuses, though deltas older than the burst came after it.      *)
PlanCatchesUp == Quiet => current = row

(* In the first visit of a session, and if the RPC succeeds, the registry  *)
(* ends with every revision: one that the RPC came too early for is read   *)
(* from the stream.                                                        *)
AllRecorded == Quiet /\ rpc.state = "loaded" => Len(history) = Len(log)
HistoryCatchesUp == visits = 1 => AllRecorded

(* The snapshots and the current plan hold every revision that came on the *)
(* stream, so that seeding the history from them adds nothing.             *)
SnapshotsCoverStream ==
    \A i \in DOMAIN history : history[i].source # "rpc" =>
        \E j \in DOMAIN AllRevs(snaps, current) : AllRevs(snaps, current)[j].revision = history[i].revision

(* The live plan and its snapshots show the stored plan and cover its      *)
(* revisions once a browser has read all it was sent (TaskRegistry).       *)
PlansCatchUp == PlanCatchesUp /\ SnapshotsCoverStream

(* The pass over the records agrees with what it computes: the tasks of    *)
(* all records, each introduced by the first that has it, and superseded   *)
(* when the last one does not.                                             *)
CumulativeIsUnion ==
    history # <<>> =>
        LET meta == CumulativeMeta(history)
            With(t) == {i \in DOMAIN history : t \in TaskIds(history[i].plan)}
        IN  /\ DOMAIN meta = UNION {TaskIds(history[i].plan) : i \in DOMAIN history}
            /\ \A t \in DOMAIN meta :
                  /\ \A i \in With(t) : meta[t].introduced <= history[i].revision
                  /\ \E i \in With(t) : meta[t].introduced = history[i].revision
                  /\ \E i \in With(t) : meta[t].modified = history[i].revision
                  /\ t \in Superseded(history) <=> Len(history) \notin With(t)

(* Every task the plan has lost has a link; a successor is a task that the *)
(* revision of the link introduced, and no task is the successor of two.   *)
SupersessionSound ==
    history # <<>> =>
        LET links == SupersedesMap(history)
        IN  /\ Superseded(history) \subseteq DOMAIN links
            /\ \A t \in DOMAIN links : links[t].new # NoTask =>
                history[FirstSeen(history, links[t].new)].revision = links[t].revision
        /\ \A s, t \in DOMAIN links : links[s].new = links[t].new /\ s # t => links[s].new = NoTask

(* The two folds over the history, cumulative tasks and supersession       *)
(* links (planHistoryStore.ts), agree with the revisions they come from.   *)
FoldsAgree == CumulativeIsUnion /\ SupersessionSound
=============================================================================
