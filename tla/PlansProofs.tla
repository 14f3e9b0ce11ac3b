---------------------------- MODULE PlansProofs ----------------------------
(***************************************************************************)
(* Proofs about the plans and tasks of a session, for any tasks, agents,   *)
(* revisions and bounds: how a task is bound to a span and its status      *)
(* shown (TaskBinding), and how a plan and its revisions get to the        *)
(* browser (PlanHistory).                                                  *)
(*                                                                         *)
(* A binding can only be lost between two awaits of a handler, so IInv     *)
(* says what the handlers hold: the task whose span is looked for is in    *)
(* the index (without it no intent would be left), and what a drain has    *)
(* taken off the intents it still has in hand.                             *)
(*                                                                         *)
(* The statuses a tab shows: the stream tells a task's status by the last  *)
(* frame that names it after the last plan, by that plan, or by what is    *)
(* shown already; StreamTells says so of every queue.                      *)
(*                                                                         *)
(* The history of a plan: whatever holds a plan, a table, the handler, a   *)
(* frame, an answer or a record, holds what goldfive gave that revision    *)
(* (PlanInv), and a revision the history lacks is still to come from one   *)
(* of them (ComingInv).  The live plan: the unread frames make of it the   *)
(* stored row, unless a plan waits to be published (ShownInv).             *)
(*                                                                         *)
(* What is computed from the history: a fold over a sequence is a run of   *)
(* its steps (FoldRuns), and of each step of the passes it is said what    *)
(* they know so far: the tasks of the records passed (Known), and links to *)
(* tasks that their revisions introduced, no task twice (Sound).           *)
(***************************************************************************)
EXTENDS TaskBinding, PlanHistory, NaturalsInduction, SequenceTheorems, FiniteSetTheorems, TLAPS

Frame == [plan : BOOLEAN, statuses : Views]

WatchType == watch \in [phase : {"closed", "reading", "open"}, queue : Seq(Frame)]

OrchestratorHolds ==
  \/ o.at = "idle"
  \/ o.at = "plan" /\ o.rows \in Rows
  \/ o.at = "lookup" /\ o.task \in Tasks
  \/ o.at = "find" /\ o.task \in index /\ o.agent \in Agents
  \/ o.at = "apply" /\ o.task \in Tasks /\ o.status \in Status /\ o.bound \in Agents \cup {Nobody}

AgentHolds ==
  \/ a.at = "idle"
  \/ a.at = "drain" /\ a.agent \in Agents /\ a.left \subseteq Tasks
  \/ a.at = "write" /\ a.agent \in Agents /\ a.left \subseteq Tasks /\ a.task \in Tasks /\ a.status \in Status
  \/ a.at = "bind" /\ a.task \in Tasks /\ a.status \in Status

Types ==
  /\ truth \in [Tasks -> Status]
  /\ plans \in 0..MaxPlans
  /\ tasks \in Rows
  /\ index \subseteq Tasks
  /\ intents \subseteq Agents \X Tasks
  /\ invoked \in [Agents -> 0..MaxInvocations]
  /\ leaf \in [Tasks -> {"new", "running", "ended"}]
  /\ view \in Views
  /\ begun \subseteq Tasks
  /\ stale \subseteq Tasks

Held == WatchType /\ OrchestratorHolds /\ AgentHolds

IInv == Types /\ Held /\ IntentsWait /\ StartedTasksBind

-----------------------------------------------------------------------------
(* Rows and statuses.                                                      *)
LEMMA RowsProperties ==
  ASSUME NEW rows \in Rows
  PROVE  /\ DOMAIN rows \subseteq Tasks
         /\ rows \in [DOMAIN rows -> Row]
         /\ \A t \in DOMAIN rows : rows[t] \in Row
<1>1. PICK ts \in SUBSET Tasks : rows \in [ts -> Row]
  BY DEF Rows
<1> QED
  BY <1>1

LEMMA RowsExcept ==
  ASSUME NEW rows \in Rows, NEW t \in DOMAIN rows, NEW r \in Row
  PROVE  [rows EXCEPT ![t] = r] \in Rows
<1>1. rows \in [DOMAIN rows -> Row] /\ DOMAIN rows \in SUBSET Tasks
  BY RowsProperties
<1>2. [rows EXCEPT ![t] = r] \in [DOMAIN rows -> Row]
  BY <1>1
<1> QED
  BY <1>1, <1>2 DEF Rows

LEMMA ViewsProperties ==
  ASSUME NEW v \in Views
  PROVE  DOMAIN v \subseteq Tasks /\ \A t \in DOMAIN v : v[t] \in Status
<1>1. PICK ts \in SUBSET Tasks : v \in [ts -> Status]
  BY DEF Views
<1> QED
  BY <1>1

LEMMA FramesTyped ==
  /\ \A rows \in Rows : PlanFrame(rows) \in Frame
  /\ \A t \in Tasks, s \in Status : StatusFrame(t, s) \in Frame
<1>1. ASSUME NEW rows \in Rows
      PROVE  PlanFrame(rows) \in Frame
  <2>1. DOMAIN rows \in SUBSET Tasks /\ \A t \in DOMAIN rows : rows[t].status \in Status
    BY RowsProperties DEF Row
  <2>2. Statuses(rows) \in [DOMAIN rows -> Status]
    BY <2>1 DEF Statuses
  <2>3. Statuses(rows) \in Views
    BY <2>1, <2>2 DEF Views
  <2> QED
    BY <2>3 DEF PlanFrame, Frame
<1>2. ASSUME NEW t \in Tasks, NEW s \in Status
      PROVE  StatusFrame(t, s) \in Frame
  <2>1. [u \in {t} |-> s] \in [{t} -> Status] /\ {t} \in SUBSET Tasks
    OBVIOUS
  <2>2. [u \in {t} |-> s] \in Views
    BY <2>1 DEF Views
  <2> QED
    BY <2>2 DEF StatusFrame, Frame
<1> QED
  BY <1>1, <1>2

LEMMA ShownTyped ==
  ASSUME NEW v \in Views, NEW f \in Frame
  PROVE  Shown(v, f) \in Views
<1>1. CASE f.plan
  BY <1>1 DEF Shown, Frame
<1>2. CASE ~f.plan
  <2>1. DOMAIN v \in SUBSET Tasks /\ f.statuses \in Views
    BY ViewsProperties DEF Frame
  <2>2. Shown(v, f) \in [DOMAIN v -> Status]
    BY <1>2, <2>1, ViewsProperties DEF Shown
  <2> QED
    BY <2>1, <2>2 DEF Views
<1> QED
  BY <1>1, <1>2

LEMMA PublishTyped ==
  ASSUME WatchType, NEW f \in Frame, Publish(f)
  PROVE  WatchType'
<1>1. CASE watch.phase = "closed"
  BY <1>1 DEF Publish, WatchType
<1>2. CASE watch.phase # "closed"
  <2>1. Append(watch.queue, f) \in Seq(Frame)
    BY DEF WatchType
  <2> QED
    BY <1>2, <2>1 DEF Publish, WatchType
<1> QED
  BY <1>1, <1>2

LEMMA PublishStatusTyped ==
  ASSUME WatchType, NEW t \in Tasks, NEW s \in Status, PublishStatus(t, s)
  PROVE  WatchType'
<1>1. CASE s = "PENDING"
  BY <1>1 DEF PublishStatus, WatchType
<1>2. CASE s # "PENDING"
  BY <1>2, FramesTyped, PublishTyped DEF PublishStatus
<1> QED
  BY <1>1, <1>2

(* update_task_status: only the one row changes, and only its status and,  *)
(* if there is a span, its binding.                                        *)
LEMMA UpdateTyped ==
  ASSUME Types, WatchType, NEW t \in Tasks, NEW s \in Status, NEW b \in Spans \cup {Nobody}, Update(t, s, b)
  PROVE  /\ tasks' \in Rows /\ index' \subseteq Tasks /\ index \subseteq index' /\ WatchType'
         /\ DOMAIN tasks' = DOMAIN tasks
         /\ \A u \in DOMAIN tasks : u # t \/ b = Nobody => tasks'[u].bound = tasks[u].bound
         /\ t \in DOMAIN tasks /\ b # Nobody => tasks'[t].bound = b
<1>1. CASE t \in DOMAIN tasks
  <2> DEFINE r == [tasks[t] EXCEPT !.status = s, !.bound = IF b = Nobody THEN @ ELSE b]
  <2>1. tasks[t] \in Row /\ tasks \in [DOMAIN tasks -> Row]
    BY <1>1, RowsProperties DEF Types
  <2>2. r \in Row /\ r.bound = IF b = Nobody THEN tasks[t].bound ELSE b
    BY <2>1 DEF Row
  <2>3. tasks' = [tasks EXCEPT ![t] = r] /\ index' = index \cup {t} /\ PublishStatus(t, s)
    BY <1>1 DEF Update
  <2>4. tasks' \in Rows
    BY <1>1, <2>2, <2>3, RowsExcept DEF Types
  <2> HIDE DEF r
  <2> QED
    BY <1>1, <2>1, <2>2, <2>3, <2>4, PublishStatusTyped DEF Types
<1>2. CASE t \notin DOMAIN tasks
  BY <1>2 DEF Update, Types, WatchType
<1> QED
  BY <1>1, <1>2

-----------------------------------------------------------------------------
LEMMA InitIInv == Init => IInv
<1> SUFFICES ASSUME Init PROVE IInv
  OBVIOUS
<1>1. <<>> \in Rows /\ <<>> \in Views
  <2>1. <<>> \in [{} -> Row] /\ <<>> \in [{} -> Status] /\ {} \in SUBSET Tasks
    OBVIOUS
  <2> QED
    BY <2>1 DEF Rows, Views
<1>2. Types
  BY <1>1, BoundsAssumption DEF Init, Types, Status
<1>3. Held
  BY DEF Init, Held, WatchType, OrchestratorHolds, AgentHolds, Idle
<1>4. IntentsWait /\ StartedTasksBind
  BY DEF Init, IntentsWait, StartedTasksBind
<1> QED
  BY <1>2, <1>3, <1>4 DEF IInv

(* Handlers of the orchestrator's stream.                                  *)
LEMMA OrchestratorSteps ==
  ASSUME IInv,
         \/ PublishPlan \/ Lookup \/ FindSpan \/ Apply \/ OrchestratorLost
         \/ \E ts \in SUBSET Tasks, assignee \in [Tasks -> Agents \cup {Nobody}] : PutPlan(ts, assignee)
         \/ \E t \in Tasks : \/ TaskStarted(t)
                             \/ \E s \in Terminal : TaskEnded(t, s)
                             \/ \E g \in Agents : Delegated(t, g)
  PROVE  IInv'
<1> USE DEF IInv, Held
<1>1. CASE PublishPlan
  <2>1. PlanFrame(o.rows) \in Frame /\ DOMAIN o.rows \subseteq Tasks
    BY <1>1, FramesTyped, RowsProperties DEF PublishPlan, OrchestratorHolds
  <2>2. WatchType'
    BY <1>1, <2>1, PublishTyped DEF PublishPlan
  <2>3. Types'
    BY <1>1, <2>1 DEF PublishPlan, Types
  <2>4. OrchestratorHolds' /\ AgentHolds'
    BY <1>1 DEF PublishPlan, OrchestratorHolds, AgentHolds, Idle
  <2>5. IntentsWait' /\ StartedTasksBind'
    BY <1>1 DEF PublishPlan, IntentsWait, StartedTasksBind, Idle
  <2> QED
    BY <2>2, <2>3, <2>4, <2>5
<1>2. CASE Lookup
  <2>1. Types'
    BY <1>2, RowsProperties DEF Lookup, Types
  <2>2. \A t \in DOMAIN tasks : tasks[t].assignee \in Agents \cup {Nobody}
    BY RowsProperties DEF Types, Row
  <2>3. OrchestratorHolds'
    BY <1>2, <2>2 DEF Lookup, OrchestratorHolds, Applying, Status
  <2>4. WatchType' /\ AgentHolds'
    BY <1>2 DEF Lookup, WatchType, AgentHolds
  <2>5. IntentsWait' /\ StartedTasksBind'
    BY <1>2 DEF Lookup, IntentsWait, StartedTasksBind, Applying
  <2> QED
    BY <2>1, <2>3, <2>4, <2>5
<1>3. CASE FindSpan
  <2>1. o.task \in index /\ o.task \in Tasks /\ o.agent \in Agents
    BY <1>3 DEF FindSpan, OrchestratorHolds, Types
  <2>2. Types'
    BY <1>3, <2>1 DEF FindSpan, Types
  <2>3. WatchType' /\ AgentHolds'
    BY <1>3 DEF FindSpan, WatchType, AgentHolds
  <2>4. OrchestratorHolds'
    BY <1>3, <2>1 DEF FindSpan, OrchestratorHolds, Applying, Status
  <2>5. IntentsWait'
    BY <1>3, <2>1 DEF FindSpan, IntentsWait, Types
  <2>6. StartedTasksBind'
    <3>1. CASE invoked[o.agent] > 0
      BY <1>3, <2>1, <3>1, NamesAssumption DEF FindSpan, StartedTasksBind, Applying
    <3>2. CASE ~(invoked[o.agent] > 0)
      BY <1>3, <2>1, <3>2 DEF FindSpan, StartedTasksBind
    <3> QED
      BY <3>1, <3>2
  <2> QED
    BY <2>2, <2>3, <2>4, <2>5, <2>6
<1>4. CASE Apply
  <2>1. o.task \in Tasks /\ o.status \in Status /\ o.bound \in Spans \cup {Nobody}
        /\ Update(o.task, o.status, o.bound)
    BY <1>4 DEF Apply, OrchestratorHolds, Spans
  <2>2. /\ tasks' \in Rows /\ index' \subseteq Tasks /\ WatchType'
        /\ DOMAIN tasks' = DOMAIN tasks
        /\ \A u \in DOMAIN tasks : u # o.task \/ o.bound = Nobody => tasks'[u].bound = tasks[u].bound
        /\ o.task \in DOMAIN tasks /\ o.bound # Nobody => tasks'[o.task].bound = o.bound
    BY <2>1, UpdateTyped
  <2>3. Types'
    BY <1>4, <2>2 DEF Apply, Types
  <2>4. OrchestratorHolds' /\ AgentHolds' /\ IntentsWait'
    BY <1>4 DEF Apply, OrchestratorHolds, AgentHolds, IntentsWait, Idle
  <2>5. StartedTasksBind'
    BY <1>4, <2>2 DEF Apply, StartedTasksBind
  <2> QED
    BY <2>2, <2>3, <2>4, <2>5
<1>5. CASE OrchestratorLost
  <2>1. Types'
    BY <1>5, RowsProperties DEF OrchestratorLost, Types
  <2>2. OrchestratorHolds' /\ AgentHolds' /\ IntentsWait' /\ WatchType'
    BY <1>5 DEF OrchestratorLost, OrchestratorHolds, AgentHolds, IntentsWait, WatchType, Idle
  <2>3. StartedTasksBind'
    BY <1>5 DEF OrchestratorLost, StartedTasksBind
  <2> QED
    BY <2>1, <2>2, <2>3
<1>6. ASSUME NEW ts \in SUBSET Tasks, NEW assignee \in [Tasks -> Agents \cup {Nobody}], PutPlan(ts, assignee)
      PROVE  IInv'
  <2>1. tasks' \in [ts -> Row]
    BY <1>6 DEF PutPlan, Types, Row
  <2>2. tasks' \in Rows
    BY <2>1 DEF Rows
  <2>3. Types'
    BY <1>6, <2>2, BoundsAssumption DEF PutPlan, Types
  <2>4. OrchestratorHolds' /\ AgentHolds' /\ IntentsWait' /\ WatchType' /\ StartedTasksBind'
    BY <1>6, <2>2 DEF PutPlan, OrchestratorHolds, AgentHolds, IntentsWait, WatchType, StartedTasksBind
  <2> QED
    BY <2>3, <2>4
<1>7. ASSUME NEW t \in Tasks, TaskStarted(t) \/ \E s \in Terminal : TaskEnded(t, s)
      PROVE  IInv'
  <2>1. Types'
    BY <1>7 DEF TaskStarted, TaskEnded, Types, Terminal, Status, server
  <2>2. OrchestratorHolds'
    BY <1>7 DEF TaskStarted, TaskEnded, OrchestratorHolds, Applying, Terminal, Status
  <2>3. AgentHolds' /\ IntentsWait' /\ WatchType'
    BY <1>7 DEF TaskStarted, TaskEnded, AgentHolds, IntentsWait, WatchType, server
  <2>4. StartedTasksBind'
    BY <1>7 DEF TaskStarted, TaskEnded, StartedTasksBind, Idle, Applying, server
  <2> QED
    BY <2>1, <2>2, <2>3, <2>4
<1>8. ASSUME NEW t \in Tasks, NEW g \in Agents, Delegated(t, g)
      PROVE  IInv'
  <2> DEFINE r == [tasks[t] EXCEPT !.assignee = g]
  <2>1. tasks[t] \in Row /\ tasks \in [DOMAIN tasks -> Row]
    BY <1>8, RowsProperties DEF Delegated, Types
  <2>2. r \in Row /\ r.bound = tasks[t].bound
    BY <2>1 DEF Row
  <2>3. tasks' = [tasks EXCEPT ![t] = r]
    <3>1. tasks' = [tasks EXCEPT ![t].assignee = g]
      BY <1>8 DEF Delegated
    <3>2. [tasks EXCEPT ![t].assignee = g] = [tasks EXCEPT ![t] = r]
      OBVIOUS
    <3> QED
      BY <3>1, <3>2
  <2> HIDE DEF r
  <2>4. tasks' \in Rows
    <3>1. tasks \in Rows /\ t \in DOMAIN tasks
      BY <1>8 DEF Delegated, Types
    <3> QED
      BY <2>2, <2>3, <3>1, RowsExcept
  <2>5. WatchType'
    BY <1>8, <2>1, PublishStatusTyped DEF Delegated, Row
  <2>6. Types'
    BY <1>8, <2>4 DEF Delegated, Types
  <2>7. OrchestratorHolds' /\ AgentHolds' /\ IntentsWait'
    BY <1>8 DEF Delegated, OrchestratorHolds, AgentHolds, IntentsWait
  <2>8. DOMAIN tasks' = DOMAIN tasks /\ \A u \in DOMAIN tasks : tasks'[u].bound = tasks[u].bound
    BY <2>1, <2>2, <2>3
  <2>9. StartedTasksBind'
    BY <1>8, <2>8 DEF Delegated, StartedTasksBind
  <2> QED
    BY <2>5, <2>6, <2>7, <2>9
<1> QED
  BY <1>1, <1>2, <1>3, <1>4, <1>5, <1>6, <1>7, <1>8

(* Handlers of the agent's stream.                                         *)
LEMMA AgentSteps ==
  ASSUME IInv,
         \/ DrainWrite \/ BindLeaf \/ AgentLost
         \/ \E g \in Agents : InvocationStarts(g)
         \/ \E t \in Tasks : \/ DrainRead(t) \/ LeafStarts(t)
                             \/ \E failed \in BOOLEAN : LeafEnds(t, failed)
  PROVE  IInv'
<1> USE DEF IInv, Held
<1>1. CASE DrainWrite
  <2>1. /\ a.agent \in Agents /\ a.left \subseteq Tasks /\ a.task \in Tasks /\ a.status \in Status
        /\ a' = Draining(a.agent, a.left)
    BY <1>1 DEF DrainWrite, AgentHolds
  <2>2. AgentHolds'
    BY <2>1 DEF AgentHolds, Draining, Idle
  <2>3. OrchestratorHolds' /\ IntentsWait'
    BY <1>1 DEF DrainWrite, OrchestratorHolds, IntentsWait
  <2>4. CASE a.task \in DOMAIN tasks
    <3> DEFINE r == [tasks[a.task] EXCEPT !.status = a.status, !.bound = a.agent]
    <3>1. tasks[a.task] \in Row /\ tasks \in [DOMAIN tasks -> Row] /\ tasks \in Rows
      BY <2>4, RowsProperties DEF Types
    <3>2. r \in Row /\ r.bound = a.agent
      BY <2>1, <3>1 DEF Row, Spans
    <3>3. /\ tasks' = [tasks EXCEPT ![a.task].status = a.status, ![a.task].bound = a.agent]
          /\ stale' \subseteq stale \cup {a.task}
          /\ PublishStatus(a.task, a.status)
      BY <1>1, <2>4 DEF DrainWrite
    <3>4. tasks' = [tasks EXCEPT ![a.task] = r]
      BY <2>4, <3>1, <3>3
    <3> HIDE DEF r
    <3>5. tasks' \in Rows
      BY <2>4, <3>1, <3>2, <3>4, RowsExcept
    <3>6. WatchType'
      BY <2>1, <3>3, PublishStatusTyped
    <3>7. Types'
      BY <1>1, <2>1, <3>3, <3>5 DEF DrainWrite, Types
    <3>8. /\ DOMAIN tasks' = DOMAIN tasks
          /\ \A u \in DOMAIN tasks : u # a.task => tasks'[u].bound = tasks[u].bound
          /\ tasks'[a.task].bound # Nobody
      BY <2>1, <2>4, <3>1, <3>2, <3>4, NamesAssumption
    <3>9. StartedTasksBind'
      BY <1>1, <2>1, <3>8 DEF DrainWrite, StartedTasksBind, Draining
    <3> QED
      BY <2>2, <2>3, <3>6, <3>7, <3>9
  <2>5. CASE a.task \notin DOMAIN tasks
    <3>1. UNCHANGED <<tasks, stale, watch>>
      BY <1>1, <2>5 DEF DrainWrite
    <3>2. Types' /\ WatchType'
      BY <1>1, <3>1 DEF DrainWrite, Types, WatchType
    <3>3. StartedTasksBind'
      BY <1>1, <2>1, <2>5, <3>1 DEF DrainWrite, StartedTasksBind, Draining
    <3> QED
      BY <2>2, <2>3, <3>2, <3>3
  <2> QED
    BY <2>4, <2>5
<1>2. CASE BindLeaf
  <2>1. a.task \in Tasks /\ a.status \in Status /\ Leaf \in Spans \cup {Nobody} /\ Update(a.task, a.status, Leaf)
    BY <1>2 DEF BindLeaf, AgentHolds, Spans
  <2>2. /\ tasks' \in Rows /\ index' \subseteq Tasks /\ index \subseteq index' /\ WatchType'
        /\ DOMAIN tasks' = DOMAIN tasks
        /\ \A u \in DOMAIN tasks : u # a.task => tasks'[u].bound = tasks[u].bound
        /\ a.task \in DOMAIN tasks => tasks'[a.task].bound = Leaf
    BY <2>1, UpdateTyped, NamesAssumption
  <2>3. Types'
    BY <1>2, <2>2 DEF BindLeaf, Types
  <2>4. OrchestratorHolds' /\ AgentHolds' /\ IntentsWait'
    BY <1>2, <2>2 DEF BindLeaf, OrchestratorHolds, AgentHolds, IntentsWait, Idle
  <2>5. StartedTasksBind'
    BY <1>2, <2>2, NamesAssumption DEF BindLeaf, StartedTasksBind
  <2> QED
    BY <2>2, <2>3, <2>4, <2>5
<1>3. CASE AgentLost
  <2>1. begun' \subseteq begun /\ (a.at = "drain" => begun' = begun \ a.left)
        /\ (a.at = "write" => begun' = begun \ (a.left \cup {a.task}))
    BY <1>3 DEF AgentLost
  <2>2. Types'
    BY <1>3, <2>1 DEF AgentLost, Types
  <2>3. OrchestratorHolds' /\ AgentHolds' /\ IntentsWait' /\ WatchType'
    BY <1>3 DEF AgentLost, OrchestratorHolds, AgentHolds, IntentsWait, WatchType, Idle
  <2>4. StartedTasksBind'
    BY <1>3, <2>1 DEF AgentLost, StartedTasksBind, AgentHolds
  <2> QED
    BY <2>2, <2>3, <2>4
<1>4. ASSUME NEW g \in Agents, InvocationStarts(g)
      PROVE  IInv'
  <2> DEFINE ts == {t \in Tasks : <<g, t>> \in intents}
  <2>1. Types'
    BY <1>4, BoundsAssumption DEF InvocationStarts, Types
  <2>2. AgentHolds'
    BY <1>4 DEF InvocationStarts, AgentHolds, Draining, Idle
  <2>3. OrchestratorHolds' /\ WatchType'
    BY <1>4 DEF InvocationStarts, OrchestratorHolds, WatchType
  <2>4. \A x \in intents' : x \in intents /\ x[1] \in Agents /\ x[1] # g
    BY <1>4 DEF InvocationStarts, Types
  <2>5. IntentsWait'
    BY <1>4, <2>4 DEF InvocationStarts, IntentsWait, Types
  <2>6. \A t \in Tasks : \A h \in Agents : <<h, t>> \in intents => <<h, t>> \in intents' \/ (h = g /\ t \in ts)
    BY <1>4 DEF InvocationStarts
  <2>7. \A t \in ts : a'.at = "drain" /\ t \in a'.left
    BY <1>4 DEF InvocationStarts, Draining
  <2>8. a.at = "idle"
    BY <1>4 DEF InvocationStarts, Idle
  <2> HIDE DEF ts
  <2>9. StartedTasksBind'
    BY <1>4, <2>6, <2>7, <2>8 DEF InvocationStarts, StartedTasksBind, Types
  <2> QED
    BY <2>1, <2>2, <2>3, <2>5, <2>9
<1>5. ASSUME NEW t \in Tasks, DrainRead(t)
      PROVE  IInv'
  <2>1. \A u \in DOMAIN tasks : tasks[u].status \in Status
    BY RowsProperties DEF Types, Row
  <2>2. Types' /\ index \subseteq index'
    BY <1>5 DEF DrainRead, Types
  <2>3. AgentHolds'
    BY <1>5, <2>1 DEF DrainRead, AgentHolds, Status
  <2>4. OrchestratorHolds' /\ WatchType' /\ IntentsWait'
    BY <1>5, <2>2 DEF DrainRead, OrchestratorHolds, WatchType, IntentsWait
  <2>5. a'.at = "write" /\ a'.left = a.left \ {t} /\ a'.task = t
    BY <1>5 DEF DrainRead
  <2>6. StartedTasksBind'
    BY <1>5, <2>5 DEF DrainRead, StartedTasksBind
  <2> QED
    BY <2>2, <2>3, <2>4, <2>6
<1>6. ASSUME NEW t \in Tasks, LeafStarts(t) \/ \E failed \in BOOLEAN : LeafEnds(t, failed)
      PROVE  IInv'
  <2>1. Types'
    BY <1>6 DEF LeafStarts, LeafEnds, Types, server
  <2>2. AgentHolds'
    BY <1>6 DEF LeafStarts, LeafEnds, AgentHolds, Status, Idle
  <2>3. OrchestratorHolds' /\ WatchType' /\ IntentsWait'
    BY <1>6 DEF LeafStarts, LeafEnds, OrchestratorHolds, WatchType, IntentsWait, server
  <2>4. StartedTasksBind'
    BY <1>6 DEF LeafStarts, LeafEnds, StartedTasksBind, Idle, server
  <2> QED
    BY <2>1, <2>2, <2>3, <2>4
<1> QED
  BY <1>1, <1>2, <1>3, <1>4, <1>5, <1>6

(* The server's restart, and the tab.                                      *)
LEMMA OtherSteps ==
  ASSUME IInv, Restart \/ WatchOpens \/ ReadPlan \/ Receive \/ WatchCloses \/ UNCHANGED vars
  PROVE  IInv'
<1> USE DEF IInv, Held
<1>1. CASE Restart
  BY <1>1 DEF Restart, Types, WatchType, OrchestratorHolds, AgentHolds, IntentsWait, StartedTasksBind, Idle
<1>2. CASE WatchOpens \/ WatchCloses \/ UNCHANGED vars
  <2>1. Types'
    BY <1>2 DEF WatchOpens, WatchCloses, Types, server, vars
  <2>3. WatchType'
    <3>1. CASE UNCHANGED vars
      BY <3>1 DEF WatchType, vars
    <3>2. CASE WatchOpens \/ WatchCloses
      <4>1. \E p \in {"closed", "reading", "open"} : watch' = [phase |-> p, queue |-> <<>>]
        BY <3>2 DEF WatchOpens, WatchCloses
      <4>2. <<>> \in Seq(Frame)
        OBVIOUS
      <4> QED
        BY <4>1, <4>2 DEF WatchType
    <3> QED
      BY <1>2, <3>1, <3>2
  <2>2. OrchestratorHolds' /\ AgentHolds' /\ IntentsWait' /\ StartedTasksBind'
    BY <1>2 DEF WatchOpens, WatchCloses, OrchestratorHolds, AgentHolds, IntentsWait, StartedTasksBind,
                server, vars
  <2> QED
    BY <2>1, <2>2, <2>3
<1>3. CASE ReadPlan
  <2>1. view' \in Views
    BY <1>3, FramesTyped, ShownTyped DEF ReadPlan, Types
  <2>2. Types' /\ WatchType'
    BY <1>3, <2>1 DEF ReadPlan, Types, WatchType, server
  <2>3. OrchestratorHolds' /\ AgentHolds' /\ IntentsWait' /\ StartedTasksBind'
    BY <1>3 DEF ReadPlan, OrchestratorHolds, AgentHolds, IntentsWait, StartedTasksBind, server
  <2> QED
    BY <2>2, <2>3
<1>4. CASE Receive
  <2>1. watch.queue \in Seq(Frame) /\ watch.queue # <<>>
    BY <1>4 DEF Receive, WatchType
  <2>2. Head(watch.queue) \in Frame /\ Tail(watch.queue) \in Seq(Frame)
    BY <2>1
  <2>3. view' \in Views
    BY <1>4, <2>2, ShownTyped DEF Receive, Types
  <2>4. Types' /\ WatchType'
    <3>1. Types'
      BY <1>4, <2>3 DEF Receive, Types, server
    <3>2. watch' = [watch EXCEPT !.queue = Tail(watch.queue)]
      BY <1>4 DEF Receive
    <3> QED
      BY <2>2, <3>1, <3>2 DEF WatchType
  <2>5. OrchestratorHolds' /\ AgentHolds' /\ IntentsWait' /\ StartedTasksBind'
    BY <1>4 DEF Receive, OrchestratorHolds, AgentHolds, IntentsWait, StartedTasksBind, server
  <2> QED
    BY <2>4, <2>5
<1> QED
  BY <1>1, <1>2, <1>3, <1>4

LEMMA NextIInv == IInv /\ [Next]_vars => IInv'
<1> SUFFICES ASSUME IInv, [Next]_vars PROVE IInv'
  OBVIOUS
<1>1. CASE Next
  BY <1>1, OrchestratorSteps, AgentSteps, OtherSteps DEF Next
<1> QED
  BY <1>1, OtherSteps

LEMMA IInvImplies == IInv => BindingsFound
<1> SUFFICES ASSUME IInv PROVE TypeOK
  BY DEF IInv, BindingsFound
<1>1. \A i \in DOMAIN watch.queue : watch.queue[i] \in Frame
  BY DEF IInv, Held, WatchType
<1>2. \A i \in DOMAIN watch.queue : watch.queue[i].statuses \in Views
  BY <1>1 DEF Frame
<1>3. watch.phase \in {"closed", "reading", "open"}
  BY DEF IInv, Held, WatchType
<1>4. o.at \in {"idle", "plan", "lookup", "find", "apply"} /\ a.at \in {"idle", "drain", "write", "bind"}
  BY DEF IInv, Held, OrchestratorHolds, AgentHolds
<1> QED
  BY <1>2, <1>3, <1>4 DEF IInv, Types, TypeOK

(* A task that was started with an assignee is bound, is about to be, or   *)
(* has left an intent for a span that is not there yet (_on_task_started,  *)
(* _drain_pending_bindings_for_span).                                      *)
THEOREM BindingFound == Spec => []BindingsFound
<1> QED
  BY InitIInv, NextIInv, IInvImplies, PTL DEF Spec

-----------------------------------------------------------------------------
(* What the tab shows.  The frames in the queue are told apart by what     *)
(* they say of one task: the last plan among them says whether it is       *)
(* there, the last frame that names it says its status.  Frames come at    *)
(* one end and are read at the other, so that neither needs an induction.  *)

Lists(v, q, t) ==
  \/ t \in DOMAIN v /\ \A i \in DOMAIN q : ~q[i].plan
  \/ \E i \in DOMAIN q :
       /\ q[i].plan /\ t \in DOMAIN q[i].statuses
       /\ \A j \in DOMAIN q : j > i => ~q[j].plan

Says(v, q, t, s) ==
  \/ t \in DOMAIN v /\ v[t] = s /\ \A i \in DOMAIN q : t \notin DOMAIN q[i].statuses
  \/ \E i \in DOMAIN q :
       /\ t \in DOMAIN q[i].statuses /\ q[i].statuses[t] = s
       /\ \A j \in DOMAIN q : j > i => t \notin DOMAIN q[j].statuses

Tells(v, q, t, s) == Lists(v, q, t) /\ Says(v, q, t, s)

(* A tab that has not read the plan yet will read the rows as they are.    *)
Basis == IF watch.phase = "reading" THEN Statuses(tasks) ELSE view

StreamTells ==
  watch.phase # "closed" /\ o.at # "plan" =>
    \A t \in DOMAIN tasks \ stale : Tells(Basis, watch.queue, t, tasks[t].status)

(* A plan in hand is for the rows there are; only a drain and a delegation *)
(* may write PENDING.                                                      *)
WritesKnown ==
  /\ o.at = "plan" => DOMAIN o.rows = DOMAIN tasks
  /\ o.at = "apply" => o.status # "PENDING"
  /\ a.at = "bind" => a.status # "PENDING"
  /\ plans = 0 => DOMAIN tasks = {}

SInv == StreamTells /\ WritesKnown

(* One frame more that names the task, or one that does not, or a plan.    *)
LEMMA TellsAppend ==
  ASSUME NEW v, NEW q \in Seq(Frame), NEW f \in Frame, NEW t, NEW s,
         IF t \in DOMAIN f.statuses
           THEN f.statuses[t] = s /\ (f.plan \/ Lists(v, q, t))
           ELSE ~f.plan /\ Tells(v, q, t, s)
  PROVE  Tells(v, Append(q, f), t, s)
<1> DEFINE qq == Append(q, f)
<1>1. /\ DOMAIN q = 1 .. Len(q) /\ DOMAIN qq = 1 .. Len(q) + 1 /\ Len(q) \in Nat
      /\ \A i \in DOMAIN q : i \in DOMAIN qq /\ qq[i] = q[i]
      /\ qq[Len(q) + 1] = f /\ Len(q) + 1 \in DOMAIN qq
      /\ \A i \in DOMAIN qq : i \in DOMAIN q \/ i = Len(q) + 1
  OBVIOUS
<1>2. \A i \in DOMAIN qq : ~(i > Len(q) + 1)
  BY <1>1
<1>3. \A i \in DOMAIN q : Len(q) + 1 > i
  BY <1>1
<1> HIDE DEF qq
<1>4. Lists(v, qq, t)
  <2>1. CASE f.plan
    BY <1>1, <1>2, <2>1 DEF Lists
  <2>2. CASE ~f.plan
    <3>1. Lists(v, q, t)
      BY <2>2 DEF Tells
    <3> QED
      BY <1>1, <2>2, <3>1 DEF Lists
  <2> QED
    BY <2>1, <2>2
<1>5. Says(v, qq, t, s)
  <2>1. CASE t \in DOMAIN f.statuses
    BY <1>1, <1>2, <2>1 DEF Says
  <2>2. CASE t \notin DOMAIN f.statuses
    <3>1. Says(v, q, t, s)
      BY <2>2 DEF Tells
    <3> QED
      BY <1>1, <2>2, <3>1 DEF Says
  <2> QED
    BY <2>1, <2>2
<1> QED
  BY <1>4, <1>5 DEF Tells, qq

(* Reading a frame changes the tab by as much as the queue tells less.     *)
LEMMA TellsRead ==
  ASSUME NEW v, NEW q \in Seq(Frame), q # <<>>, NEW t, NEW s, Tells(v, q, t, s)
  PROVE  Tells(Shown(v, Head(q)), Tail(q), t, s)
<1> DEFINE f == Head(q)
           qq == Tail(q)
           vv == Shown(v, f)
<1>1. /\ DOMAIN q = 1 .. Len(q) /\ DOMAIN qq = 1 .. Len(q) - 1 /\ Len(q) \in Nat \ {0}
      /\ f = q[1] /\ 1 \in DOMAIN q
      /\ \A i \in DOMAIN qq : i + 1 \in DOMAIN q /\ qq[i] = q[i + 1] /\ i + 1 > 1 /\ i \in Nat
      /\ \A i \in DOMAIN q : i = 1 \/ (i - 1 \in DOMAIN qq /\ qq[i - 1] = q[i] /\ i \in Nat)
  OBVIOUS
<1>2. \A i \in DOMAIN q, j \in DOMAIN qq : i # 1 /\ j > i - 1 => j + 1 > i
  BY <1>1
<1>3. /\ f.plan => vv = f.statuses
      /\ ~f.plan => /\ DOMAIN vv = DOMAIN v
                    /\ t \in DOMAIN v => vv[t] = IF t \in DOMAIN f.statuses THEN f.statuses[t] ELSE v[t]
  BY DEF Shown
<1> HIDE DEF f, qq, vv
<1>4. Lists(vv, qq, t)
  <2>1. CASE t \in DOMAIN v /\ \A i \in DOMAIN q : ~q[i].plan
    BY <1>1, <1>3, <2>1 DEF Lists
  <2>2. ASSUME NEW i \in DOMAIN q, q[i].plan, t \in DOMAIN q[i].statuses,
               \A j \in DOMAIN q : j > i => ~q[j].plan
        PROVE  Lists(vv, qq, t)
    <3>1. CASE i = 1
      BY <1>1, <1>3, <2>2, <3>1 DEF Lists
    <3>2. CASE i # 1
      <4>1. i - 1 \in DOMAIN qq /\ qq[i - 1] = q[i]
        BY <1>1, <3>2
      <4>2. \A j \in DOMAIN qq : j > i - 1 => ~qq[j].plan
        BY <1>1, <1>2, <2>2, <3>2
      <4> QED
        BY <2>2, <4>1, <4>2 DEF Lists
    <3> QED
      BY <3>1, <3>2
  <2> QED
    BY <2>1, <2>2 DEF Tells, Lists
<1>5. Says(vv, qq, t, s)
  <2>1. CASE t \in DOMAIN v /\ v[t] = s /\ \A i \in DOMAIN q : t \notin DOMAIN q[i].statuses
    <3>1. ~f.plan
      <4>1. CASE \A i \in DOMAIN q : ~q[i].plan
        BY <1>1, <4>1
      <4>2. CASE \E i \in DOMAIN q : t \in DOMAIN q[i].statuses
        BY <2>1, <4>2
      <4> QED
        BY <4>1, <4>2 DEF Tells, Lists
    <3> QED
      BY <1>1, <1>3, <2>1, <3>1 DEF Says
  <2>2. ASSUME NEW i \in DOMAIN q, t \in DOMAIN q[i].statuses, q[i].statuses[t] = s,
               \A j \in DOMAIN q : j > i => t \notin DOMAIN q[j].statuses
        PROVE  Says(vv, qq, t, s)
    <3>1. CASE i = 1
      <4>1. \A j \in DOMAIN qq : t \notin DOMAIN qq[j].statuses
        BY <1>1, <2>2, <3>1
      <4>2. t \in DOMAIN vv /\ vv[t] = s
        <5>1. CASE f.plan
          BY <1>1, <1>3, <2>2, <3>1, <5>1
        <5>2. CASE ~f.plan
          <6>1. \A j \in DOMAIN q : q[j].plan => t \notin DOMAIN q[j].statuses
            BY <1>1, <4>1, <5>2
          <6>2. t \in DOMAIN v
            BY <6>1 DEF Tells, Lists
          <6> QED
            BY <1>1, <1>3, <2>2, <3>1, <5>2, <6>2
        <5> QED
          BY <5>1, <5>2
      <4> QED
        BY <4>1, <4>2 DEF Says
    <3>2. CASE i # 1
      <4>1. i - 1 \in DOMAIN qq /\ qq[i - 1] = q[i]
        BY <1>1, <3>2
      <4>2. \A j \in DOMAIN qq : j > i - 1 => t \notin DOMAIN qq[j].statuses
        BY <1>1, <1>2, <2>2, <3>2
      <4> QED
        BY <2>2, <4>1, <4>2 DEF Says
    <3> QED
      BY <3>1, <3>2
  <2> QED
    BY <2>1, <2>2 DEF Tells, Says
<1> QED
  BY <1>4, <1>5 DEF Tells, f, qq, vv

(* An empty queue tells what the tab shows.                                *)
LEMMA TellsNothing ==
  ASSUME NEW v, NEW t, NEW s
  PROVE  Tells(v, <<>>, t, s) <=> t \in DOMAIN v /\ v[t] = s
BY DEF Tells, Lists, Says

(* Only what v says of the task counts.                                    *)
LEMMA TellsOfTask ==
  ASSUME NEW v, NEW w, NEW q, NEW t, NEW s, t \in DOMAIN v <=> t \in DOMAIN w
  PROVE  /\ Lists(v, q, t) => Lists(w, q, t)
         /\ v[t] = w[t] /\ Tells(v, q, t, s) => Tells(w, q, t, s)
BY DEF Tells, Lists, Says

(* A row is written, and its status published unless it is PENDING: what   *)
(* update_task_status, a drain and a delegation have in common.            *)
LEMMA RowWritten ==
  ASSUME Types, WatchType, StreamTells,
         NEW t \in DOMAIN tasks, NEW r \in Row, tasks' = [tasks EXCEPT ![t] = r],
         PublishStatus(t, r.status), UNCHANGED view, stale \subseteq stale',
         r.status = "PENDING" /\ tasks[t].status # "PENDING" => t \in stale',
         o'.at # "plan" => o.at # "plan"
  PROVE  StreamTells'
<1> SUFFICES ASSUME watch'.phase # "closed", o'.at # "plan", NEW u \in DOMAIN tasks' \ stale'
             PROVE  Tells(Basis', watch'.queue, u, tasks'[u].status)
  BY DEF StreamTells
<1>1. /\ DOMAIN tasks' = DOMAIN tasks /\ tasks'[t] = r /\ \A x \in DOMAIN tasks : x # t => tasks'[x] = tasks[x]
      /\ DOMAIN tasks \subseteq Tasks /\ t \in Tasks /\ r.status \in Status
      /\ watch.queue \in Seq(Frame)
  BY RowsProperties DEF Types, Row, WatchType
<1>2. watch.phase # "closed" /\ watch'.phase = watch.phase
      /\ watch' = IF r.status = "PENDING" THEN watch
                  ELSE [watch EXCEPT !.queue = Append(@, StatusFrame(t, r.status))]
  BY DEF PublishStatus, Publish, WatchType
<1>3. Tells(Basis, watch.queue, u, tasks[u].status)
  BY <1>1, <1>2 DEF StreamTells
<1>4. /\ u \in DOMAIN Basis' <=> u \in DOMAIN Basis
      /\ u # t \/ r.status = tasks[t].status => Basis'[u] = Basis[u] /\ tasks'[u].status = tasks[u].status
  BY <1>1, <1>2 DEF Basis, Statuses
<1>5. Lists(Basis', watch.queue, u)
  BY <1>3, <1>4, TellsOfTask DEF Tells
<1>6. u # t \/ r.status = tasks[t].status => Tells(Basis', watch.queue, u, tasks'[u].status)
  BY <1>3, <1>4, TellsOfTask
<1>7. CASE r.status = "PENDING"
  BY <1>2, <1>6, <1>7
<1>8. CASE r.status # "PENDING"
  <2> DEFINE f == StatusFrame(t, r.status)
  <2>1. f \in Frame
    BY <1>1, FramesTyped
  <2>2. ~f.plan /\ DOMAIN f.statuses = {t} /\ f.statuses[t] = r.status
    BY DEF StatusFrame
  <2>3. watch'.queue = Append(watch.queue, f)
    BY <1>2, <1>8 DEF WatchType
  <2> HIDE DEF f
  <2>4. IF u \in DOMAIN f.statuses
          THEN f.statuses[u] = tasks'[u].status /\ (f.plan \/ Lists(Basis', watch.queue, u))
          ELSE ~f.plan /\ Tells(Basis', watch.queue, u, tasks'[u].status)
    BY <1>1, <1>5, <1>6, <2>2
  <2> QED
    BY <1>1, <2>1, <2>3, <2>4, TellsAppend
<1> QED
  BY <1>7, <1>8

LEMMA UpdateTells ==
  ASSUME Types, WatchType, StreamTells,
         NEW t \in Tasks, NEW s \in Status, s # "PENDING", NEW b \in Spans \cup {Nobody}, Update(t, s, b),
         UNCHANGED <<view, stale>>, o'.at # "plan" => o.at # "plan"
  PROVE  StreamTells' /\ DOMAIN tasks' = DOMAIN tasks
<1>1. CASE t \in DOMAIN tasks
  <2> DEFINE r == [tasks[t] EXCEPT !.status = s, !.bound = IF b = Nobody THEN @ ELSE b]
  <2>1. tasks[t] \in Row /\ tasks \in [DOMAIN tasks -> Row]
    BY <1>1, RowsProperties DEF Types
  <2>2. r \in Row /\ r.status = s
    BY <2>1 DEF Row
  <2>3. tasks' = [tasks EXCEPT ![t] = r] /\ PublishStatus(t, s)
    BY <1>1 DEF Update
  <2> HIDE DEF r
  <2>4. StreamTells'
    BY <1>1, <2>2, <2>3, RowWritten
  <2> QED
    BY <2>1, <2>3, <2>4
<1>2. CASE t \notin DOMAIN tasks
  BY <1>2 DEF Update, StreamTells, Basis
<1> QED
  BY <1>1, <1>2

LEMMA OrchestratorTells ==
  ASSUME IInv, SInv,
         \/ PublishPlan \/ Lookup \/ FindSpan \/ Apply \/ OrchestratorLost
         \/ \E ts \in SUBSET Tasks, assignee \in [Tasks -> Agents \cup {Nobody}] : PutPlan(ts, assignee)
         \/ \E t \in Tasks : \/ TaskStarted(t)
                             \/ \E s \in Terminal : TaskEnded(t, s)
                             \/ \E g \in Agents : Delegated(t, g)
  PROVE  SInv'
<1> USE DEF SInv
<1>0. Types /\ WatchType /\ DOMAIN tasks \subseteq Tasks
  BY RowsProperties DEF IInv, Held, Types
<1>1. CASE PublishPlan
  <2> DEFINE f == PlanFrame(o.rows)
  <2>1. /\ f \in Frame /\ f.plan /\ DOMAIN f.statuses = DOMAIN tasks
        /\ \A t \in DOMAIN tasks : f.statuses[t] = o.rows[t].status
        /\ UNCHANGED <<tasks, view>> /\ Publish(f)
        /\ \A t \in DOMAIN tasks \ stale' : o.rows[t].status = tasks[t].status
    BY <1>1, FramesTyped DEF PublishPlan, IInv, Held, OrchestratorHolds, WritesKnown, PlanFrame, Statuses
  <2> HIDE DEF f
  <2>2. ASSUME watch'.phase # "closed", NEW t \in DOMAIN tasks \ stale'
        PROVE  Tells(Basis', watch'.queue, t, tasks[t].status)
    <3>1. watch'.queue = Append(watch.queue, f) /\ watch.queue \in Seq(Frame)
      BY <1>0, <2>1, <2>2 DEF Publish, WatchType
    <3>2. Tells(Basis', Append(watch.queue, f), t, tasks[t].status)
      BY <2>1, <3>1, TellsAppend
    <3> QED
      BY <3>1, <3>2
  <2>3. StreamTells'
    BY <2>1, <2>2 DEF StreamTells
  <2>4. WritesKnown'
    BY <1>1, <2>1 DEF PublishPlan, WritesKnown, Idle
  <2> QED
    BY <2>3, <2>4
<1>2. CASE Lookup \/ FindSpan
  <2>1. StreamTells'
    BY <1>2 DEF Lookup, FindSpan, StreamTells, Basis
  <2>2. WritesKnown'
    BY <1>2 DEF Lookup, FindSpan, WritesKnown, Applying
  <2> QED
    BY <2>1, <2>2
<1>3. CASE Apply
  <2>1. o.task \in Tasks /\ o.status \in Status /\ o.status # "PENDING" /\ o.bound \in Spans \cup {Nobody}
        /\ Update(o.task, o.status, o.bound) /\ UNCHANGED <<view, stale>> /\ o.at # "plan"
    BY <1>3 DEF Apply, IInv, Held, OrchestratorHolds, WritesKnown, Spans
  <2>2. StreamTells' /\ DOMAIN tasks' = DOMAIN tasks
    BY <1>0, <2>1, UpdateTells
  <2>3. WritesKnown'
    BY <1>3, <2>2 DEF Apply, WritesKnown, Idle
  <2> QED
    BY <2>2, <2>3
<1>4. CASE OrchestratorLost
  <2>1. StreamTells'
    BY <1>4 DEF OrchestratorLost, StreamTells, Basis
  <2>2. WritesKnown'
    BY <1>4 DEF OrchestratorLost, WritesKnown, Idle
  <2> QED
    BY <2>1, <2>2
<1>5. ASSUME NEW ts \in SUBSET Tasks, NEW assignee \in [Tasks -> Agents \cup {Nobody}], PutPlan(ts, assignee)
      PROVE  SInv'
  <2>1. StreamTells'
    BY <1>5 DEF PutPlan, StreamTells
  <2>2. plans \in Nat /\ plans' = plans + 1
    BY <1>0, <1>5, BoundsAssumption DEF PutPlan, Types
  <2>3. WritesKnown'
    BY <1>5, <2>2 DEF PutPlan, WritesKnown
  <2> QED
    BY <2>1, <2>3
<1>6. ASSUME NEW t \in Tasks, TaskStarted(t) \/ \E s \in Terminal : TaskEnded(t, s)
      PROVE  SInv'
  <2>1. StreamTells'
    BY <1>6 DEF TaskStarted, TaskEnded, StreamTells, Basis, Idle, server
  <2>2. WritesKnown'
    BY <1>6 DEF TaskStarted, TaskEnded, WritesKnown, Applying, Terminal, server
  <2> QED
    BY <2>1, <2>2
<1>7. ASSUME NEW t \in Tasks, NEW g \in Agents, Delegated(t, g)
      PROVE  SInv'
  <2> DEFINE r == [tasks[t] EXCEPT !.assignee = g]
  <2>1. tasks[t] \in Row /\ tasks \in [DOMAIN tasks -> Row] /\ t \in DOMAIN tasks
    BY <1>0, <1>7, RowsProperties DEF Delegated, Types
  <2>2. r \in Row /\ r.status = tasks[t].status
    BY <2>1 DEF Row
  <2>3. tasks' = [tasks EXCEPT ![t] = r]
    <3>1. tasks' = [tasks EXCEPT ![t].assignee = g]
      BY <1>7 DEF Delegated
    <3>2. [tasks EXCEPT ![t].assignee = g] = [tasks EXCEPT ![t] = r]
      OBVIOUS
    <3> QED
      BY <3>1, <3>2
  <2> HIDE DEF r
  <2>4. PublishStatus(t, r.status) /\ UNCHANGED <<view, stale, o, a, plans>>
    BY <1>7, <2>2 DEF Delegated
  <2>5. StreamTells'
    BY <1>0, <2>1, <2>2, <2>3, <2>4, RowWritten
  <2>6. WritesKnown'
    BY <2>1, <2>3, <2>4 DEF WritesKnown
  <2> QED
    BY <2>5, <2>6
<1> QED
  BY <1>1, <1>2, <1>3, <1>4, <1>5, <1>6, <1>7

LEMMA AgentTells ==
  ASSUME IInv, SInv,
         \/ DrainWrite \/ BindLeaf \/ AgentLost
         \/ \E g \in Agents : InvocationStarts(g)
         \/ \E t \in Tasks : \/ DrainRead(t) \/ LeafStarts(t)
                             \/ \E failed \in BOOLEAN : LeafEnds(t, failed)
  PROVE  SInv'
<1> USE DEF SInv
<1>0. Types /\ WatchType /\ DOMAIN tasks \subseteq Tasks
  BY RowsProperties DEF IInv, Held, Types
<1>1. CASE DrainWrite
  <2>1. /\ a.agent \in Agents /\ a.left \subseteq Tasks /\ a.task \in Tasks /\ a.status \in Status
        /\ a' = Draining(a.agent, a.left) /\ UNCHANGED <<o, plans, view>>
    BY <1>1 DEF DrainWrite, IInv, Held, AgentHolds
  <2>2. a'.at # "bind"
    BY <2>1 DEF Draining, Idle
  <2>3. CASE a.task \in DOMAIN tasks
    <3> DEFINE r == [tasks[a.task] EXCEPT !.status = a.status, !.bound = a.agent]
    <3>1. tasks[a.task] \in Row /\ tasks \in [DOMAIN tasks -> Row]
      BY <1>0, <2>3, RowsProperties DEF Types
    <3>2. r \in Row /\ r.status = a.status
      BY <2>1, <3>1 DEF Row, Spans
    <3>3. /\ tasks' = [tasks EXCEPT ![a.task].status = a.status, ![a.task].bound = a.agent]
          /\ stale' = IF a.status = "PENDING" /\ tasks[a.task].status # "PENDING"
                      THEN stale \cup {a.task} ELSE stale
          /\ PublishStatus(a.task, a.status)
      BY <1>1, <2>3 DEF DrainWrite
    <3>4. tasks' = [tasks EXCEPT ![a.task] = r]
      BY <2>3, <3>1, <3>3
    <3> HIDE DEF r
    <3>5. StreamTells'
      BY <1>0, <2>1, <2>3, <3>2, <3>3, <3>4, RowWritten
    <3>6. WritesKnown'
      BY <2>1, <2>2, <3>1, <3>4 DEF WritesKnown
    <3> QED
      BY <3>5, <3>6
  <2>4. CASE a.task \notin DOMAIN tasks
    <3>1. UNCHANGED <<tasks, stale, watch>>
      BY <1>1, <2>4 DEF DrainWrite
    <3> QED
      BY <2>1, <2>2, <3>1 DEF StreamTells, Basis, WritesKnown
  <2> QED
    BY <2>3, <2>4
<1>2. CASE BindLeaf
  <2>1. /\ a.task \in Tasks /\ a.status \in Status /\ a.status # "PENDING" /\ Leaf \in Spans \cup {Nobody}
        /\ Update(a.task, a.status, Leaf) /\ UNCHANGED <<view, stale, o, plans>>
    BY <1>2 DEF BindLeaf, IInv, Held, AgentHolds, WritesKnown, Spans
  <2>2. StreamTells' /\ DOMAIN tasks' = DOMAIN tasks
    BY <1>0, <2>1, UpdateTells
  <2>3. WritesKnown'
    BY <1>2, <2>1, <2>2 DEF BindLeaf, WritesKnown, Idle
  <2> QED
    BY <2>2, <2>3
<1>3. CASE AgentLost \/ (\E g \in Agents : InvocationStarts(g)) \/ (\E t \in Tasks : DrainRead(t))
  <2>1. UNCHANGED <<tasks, watch, view, stale, o, plans>> /\ a'.at # "bind"
    BY <1>3 DEF AgentLost, InvocationStarts, DrainRead, Draining, Idle
  <2> QED
    BY <2>1 DEF StreamTells, Basis, WritesKnown
<1>4. ASSUME NEW t \in Tasks, LeafStarts(t) \/ \E failed \in BOOLEAN : LeafEnds(t, failed)
      PROVE  SInv'
  <2>1. UNCHANGED <<tasks, watch, view, stale, o, plans>> /\ (a'.at = "bind" => a'.status # "PENDING")
    BY <1>4 DEF LeafStarts, LeafEnds, Idle, server
  <2> QED
    BY <2>1 DEF StreamTells, Basis, WritesKnown
<1> QED
  BY <1>1, <1>2, <1>3, <1>4

LEMMA OtherTells ==
  ASSUME IInv, SInv, Restart \/ WatchOpens \/ ReadPlan \/ Receive \/ WatchCloses \/ UNCHANGED vars
  PROVE  SInv'
<1> USE DEF SInv
<1>0. Types /\ WatchType
  BY DEF IInv, Held
<1>1. WritesKnown'
  BY DEF Restart, WatchOpens, ReadPlan, Receive, WatchCloses, vars, server, WritesKnown, Idle
<1>2. CASE Restart \/ WatchCloses
  BY <1>1, <1>2 DEF Restart, WatchCloses, StreamTells
<1>3. CASE WatchOpens
  <2>1. watch'.phase = "reading" /\ watch'.queue = <<>> /\ tasks' = tasks
    BY <1>3 DEF WatchOpens
  <2>2. ASSUME NEW t \in DOMAIN tasks
        PROVE  Tells(Basis', watch'.queue, t, tasks'[t].status)
    BY <2>1, TellsNothing DEF Basis, Statuses
  <2> QED
    BY <1>1, <2>1, <2>2 DEF StreamTells
<1>4. CASE ReadPlan
  <2>1. /\ watch.phase = "reading" /\ watch'.phase = "open" /\ watch'.queue = watch.queue
        /\ UNCHANGED <<tasks, stale, o>>
    BY <1>0, <1>4 DEF ReadPlan, WatchType, server
  <2>2. CASE plans = 0
    BY <1>1, <2>1, <2>2 DEF WritesKnown, StreamTells
  <2>3. CASE plans # 0
    <3>1. Basis' = Basis
      BY <1>4, <2>1, <2>3 DEF ReadPlan, Basis, Shown, PlanFrame
    <3> QED
      BY <1>1, <2>1, <3>1 DEF StreamTells
  <2> QED
    BY <2>2, <2>3
<1>5. CASE Receive
  <2>1. /\ watch.phase = "open" /\ watch.queue # <<>> /\ watch.queue \in Seq(Frame)
        /\ watch'.phase = "open" /\ watch'.queue = Tail(watch.queue)
        /\ view' = Shown(view, Head(watch.queue)) /\ UNCHANGED <<tasks, stale, o>>
    BY <1>0, <1>5 DEF Receive, WatchType, server
  <2>2. ASSUME o.at # "plan", NEW t \in DOMAIN tasks \ stale
        PROVE  Tells(view', watch'.queue, t, tasks[t].status)
    <3>1. Tells(view, watch.queue, t, tasks[t].status)
      BY <2>1, <2>2 DEF StreamTells, Basis
    <3> QED
      BY <2>1, <3>1, TellsRead
  <2> QED
    BY <1>1, <2>1, <2>2 DEF StreamTells, Basis
<1>6. CASE UNCHANGED vars
  BY <1>1, <1>6 DEF vars, StreamTells, Basis
<1> QED
  BY <1>2, <1>3, <1>4, <1>5, <1>6

LEMMA InitTells == Init => SInv
BY DEF Init, SInv, StreamTells, WritesKnown, Idle

LEMMA NextTells == IInv /\ SInv /\ [Next]_vars => SInv'
<1> SUFFICES ASSUME IInv, SInv, [Next]_vars PROVE SInv'
  OBVIOUS
<1>1. CASE Next
  BY <1>1, OrchestratorTells, AgentTells, OtherTells DEF Next
<1> QED
  BY <1>1, OtherTells

LEMMA TellsShows == SInv => TasksShown
<1> SUFFICES ASSUME SInv, watch.phase = "open", watch.queue = <<>>, o.at # "plan",
                    NEW t \in DOMAIN tasks \ stale
             PROVE  t \in DOMAIN view /\ view[t] = tasks[t].status
  BY DEF TasksShown
<1>1. Tells(view, <<>>, t, tasks[t].status)
  BY DEF SInv, StreamTells, Basis
<1> QED
  BY <1>1, TellsNothing

(* A tab that has read its stream shows what is stored, whatever plans,    *)
(* task events, drains and spans overtook each other on the way, but for   *)
(* the tasks that a handler left stale (_upsert_plan, _drain_pending_      *)
(* bindings_for_span, TaskRegistry).                                       *)
THEOREM StatusesShown == Spec => []TasksShown
<1> QED
  BY InitIInv, NextIInv, InitTells, NextTells, TellsShows, PTL DEF Spec

-----------------------------------------------------------------------------
(* PlanHistory.                                                            *)
Pcs == {"idle", "put", "persist", "put again", "persist again"}
States == {"unused", "called", "listed", "answered", "failed", "loaded"}
PlanFrames == [kind : {"plan"}, plan : Plan]
TaskFrames == [kind : {"task"}, id : TaskId, status : {"PENDING", "RUNNING", "COMPLETED"}]
Frames == PlanFrames \union TaskFrames
Rec == [revision : Nat, plan : Plan, source : {"rpc", "burst", "delta"}]

LEMMA LeastNumber ==
  ASSUME NEW T \in SUBSET Nat, T # {}
  PROVE  \E x \in T : \A y \in T : x <= y
<1> DEFINE R == OpToRel(<, Nat)
<1>1. \E x \in T : \A y \in T : ~(<<y, x>> \in R)
  <2>1. IsWellFoundedOn(R, Nat)
    BY NatLessThanWellFounded
  <2> HIDE DEF R
  <2> QED
    BY <2>1, WFMin, Zenon
<1>2. \A x, y \in Nat : <<y, x>> \in R <=> y < x
  BY DEF OpToRel
<1> HIDE DEF R
<1>3. PICK x \in T : \A y \in T : ~(<<y, x>> \in R)
  BY <1>1
<1>4. \A y \in T : ~(y < x)
  BY <1>2, <1>3
<1>5. \A y \in T : x <= y
  BY <1>4
<1> QED
  BY <1>5

(* Induction over the numbers, for a set of them.                          *)
LEMMA SetInduction ==
  ASSUME NEW G \in SUBSET Nat, 0 \in G, \A n \in G : n + 1 \in G
  PROVE  G = Nat
<1> SUFFICES ASSUME G # Nat PROVE FALSE
  OBVIOUS
<1>1. PICK x \in Nat \ G : \A y \in Nat \ G : x <= y
  BY LeastNumber
<1>2. x # 0 /\ x - 1 \in Nat
  BY <1>1
<1>3. x - 1 \in G
  BY <1>1, <1>2
<1>4. x - 1 + 1 = x
  BY <1>1, <1>2
<1> QED
  BY <1>1, <1>3, <1>4
-----------------------------------------------------------------------------
(* PlanHistoryRegistry.append.                                             *)
Sorted(h) == \A i, j \in DOMAIN h : i < j => h[i].revision < h[j].revision

(* h2 has the records of h, and besides them only new ones.                *)
Grown(h, h2, new) ==
  /\ \A i \in DOMAIN h2 : (\E j \in DOMAIN h : h2[i] = h[j]) \/ h2[i] \in new
  /\ \A j \in DOMAIN h : \E i \in DOMAIN h2 : h2[i] = h[j]

LEMMA GrownOn ==
  ASSUME NEW h, NEW h1, NEW h2, NEW old, NEW new, NEW all, Grown(h, h1, old), Grown(h1, h2, new),
         old \subseteq all, new \subseteq all
  PROVE  Grown(h, h2, all)
BY DEF Grown

LEMMA GrownHas ==
  ASSUME NEW h, NEW h2, NEW new, Grown(h, h2, new)
  PROVE  \A r : Has(h, r) => Has(h2, r)
BY DEF Grown, Has

LEMMA RecFacts ==
  ASSUME NEW h \in Seq(Rec)
  PROVE  DOMAIN h = 1..Len(h) /\ Len(h) \in Nat /\ \A i \in DOMAIN h : h[i] \in Rec /\ h[i].revision \in Nat
<1>1. DOMAIN h = 1..Len(h) /\ Len(h) \in Nat /\ \A i \in DOMAIN h : h[i] \in Rec
  OBVIOUS
<1>2. \A r \in Rec : r.revision \in Nat
  BY DEF Rec
<1> QED
  BY <1>1, <1>2

LEMMA PlaceIsBehind ==
  ASSUME NEW h \in Seq(Rec), Sorted(h), NEW r \in Nat
  PROVE  \E k \in 0..Len(h) : /\ Place(h, r) = k + 1
                              /\ \A i \in DOMAIN h : h[i].revision < r <=> i <= k
<1> DEFINE A == {i \in DOMAIN h : h[i].revision < r}
<1>1. DOMAIN h = 1..Len(h) /\ Len(h) \in Nat /\ \A i \in DOMAIN h : h[i].revision \in Nat
  BY RecFacts
<1>2. \E k \in 0..Len(h) : A = 1..k
  <2>1. CASE A = 1..Len(h)
    BY <1>1, <2>1
  <2>2. CASE A # 1..Len(h)
    <3>1. PICK x \in (1..Len(h)) \ A : \A y \in (1..Len(h)) \ A : x <= y
      <4>1. (1..Len(h)) \ A \in SUBSET Nat /\ (1..Len(h)) \ A # {}
        BY <1>1, <2>2
      <4> QED
        BY <4>1, LeastNumber
    <3>2. \A i \in 1..Len(h) : i < x => i \in A
      BY <3>1
    <3>3. \A i \in A : i < x
      <4> SUFFICES ASSUME NEW i \in A, ~(i < x) PROVE FALSE
        OBVIOUS
      <4>1. x < i
        BY <1>1, <3>1
      <4>2. h[x].revision < h[i].revision /\ h[i].revision < r
        BY <1>1, <3>1, <4>1 DEF Sorted
      <4> QED
        BY <1>1, <3>1, <4>2
    <3>4. A = 1..(x - 1) /\ x - 1 \in 0..Len(h)
      BY <1>1, <3>1, <3>2, <3>3
    <3> QED
      BY <3>4
  <2> QED
    BY <2>1, <2>2
<1>3. PICK k \in 0..Len(h) : A = 1..k
  BY <1>2
<1>4. Cardinality(1..k) = k
  BY <1>1, <1>3, FS_Interval
<1>5. Place(h, r) = Cardinality(A) + 1
  BY DEF Place
<1>6. \A i \in DOMAIN h : h[i].revision < r <=> i \in A
  OBVIOUS
<1> HIDE DEF A
<1> QED
  BY <1>1, <1>3, <1>4, <1>5, <1>6

(* An appended record goes to its place: the history stays sorted, keeps   *)
(* what it had, and has the revision.                                      *)
LEMMA AppendRecordProperties ==
  ASSUME NEW h \in Seq(Rec), Sorted(h), NEW rec \in Rec
  PROVE  LET h2 == AppendRecord(h, rec) IN
         h2 \in Seq(Rec) /\ Sorted(h2) /\ Grown(h, h2, {rec}) /\ Has(h2, rec.revision)
<1> DEFINE h2 == AppendRecord(h, rec)
<1> SUFFICES h2 \in Seq(Rec) /\ Sorted(h2) /\ Grown(h, h2, {rec}) /\ Has(h2, rec.revision)
  OBVIOUS
<1>1. CASE Has(h, rec.revision)
  BY <1>1 DEF AppendRecord, Grown
<1>2. CASE ~Has(h, rec.revision)
  <2>1. DOMAIN h = 1..Len(h) /\ Len(h) \in Nat /\ \A i \in DOMAIN h : h[i] \in Rec /\ h[i].revision \in Nat
    BY RecFacts
  <2>2. rec.revision \in Nat /\ \A i \in DOMAIN h : h[i].revision # rec.revision
    BY <1>2 DEF Has, Rec
  <2>3. PICK k \in 0..Len(h) : /\ Place(h, rec.revision) = k + 1
                               /\ \A i \in DOMAIN h : h[i].revision < rec.revision <=> i <= k
    BY <2>2, PlaceIsBehind
  <2>4. h2 = [i \in 1..(Len(h) + 1) |-> IF i < k + 1 THEN h[i] ELSE IF i = k + 1 THEN rec ELSE h[i - 1]]
    BY <1>2, <2>3 DEF AppendRecord, InsertRecord
  <2> HIDE DEF h2
  <2>5. /\ DOMAIN h2 = 1..(Len(h) + 1) /\ h2[k + 1] = rec /\ k + 1 \in 1..(Len(h) + 1)
        /\ \A i \in 1..k : h2[i] = h[i] /\ i \in DOMAIN h /\ h[i].revision < rec.revision
        /\ \A i \in (k + 2)..(Len(h) + 1) : h2[i] = h[i - 1] /\ i - 1 \in DOMAIN h /\ h[i - 1].revision > rec.revision
    <3>1. DOMAIN h2 = 1..(Len(h) + 1) /\ h2[k + 1] = rec /\ k + 1 \in 1..(Len(h) + 1)
      BY <2>1, <2>3, <2>4
    <3>2. \A i \in 1..k : h2[i] = h[i] /\ i \in DOMAIN h /\ h[i].revision < rec.revision
      BY <2>1, <2>3, <2>4
    <3>3. ASSUME NEW i \in (k + 2)..(Len(h) + 1)
          PROVE  h2[i] = h[i - 1] /\ i - 1 \in DOMAIN h /\ h[i - 1].revision > rec.revision
      <4>1. i \in 1..(Len(h) + 1) /\ ~(i < k + 1) /\ i # k + 1 /\ i - 1 \in 1..Len(h) /\ ~(i - 1 <= k)
        BY <2>1, <2>3
      <4>2. h2[i] = h[i - 1]
        BY <2>4, <4>1
      <4>3. ~(h[i - 1].revision < rec.revision) /\ h[i - 1].revision # rec.revision /\ h[i - 1].revision \in Nat
        BY <2>1, <2>2, <2>3, <4>1
      <4> QED
        BY <2>1, <2>2, <4>1, <4>2, <4>3
    <3> QED
      BY <3>1, <3>2, <3>3
  <2>6. \A i \in 1..(Len(h) + 1) : i \in 1..k \/ i = k + 1 \/ i \in (k + 2)..(Len(h) + 1)
    BY <2>1, <2>3
  <2>7. h2 \in Seq(Rec)
    BY <2>1, <2>4, <2>5, <2>6
  <2>8. Sorted(h2)
    <3> SUFFICES ASSUME NEW i \in 1..(Len(h) + 1), NEW j \in 1..(Len(h) + 1), i < j
                 PROVE  h2[i].revision < h2[j].revision
      BY <2>5 DEF Sorted
    <3>1. CASE j \in 1..k
      <4>1. i \in 1..k
        BY <2>3, <3>1
      <4> QED
        BY <2>5, <3>1, <4>1 DEF Sorted
    <3>2. CASE j = k + 1
      <4>1. i \in 1..k
        BY <2>3, <3>2
      <4> QED
        BY <2>5, <3>2, <4>1
    <3>3. CASE j \in (k + 2)..(Len(h) + 1) /\ i \in 1..k
      <4>1. i < j - 1
        BY <2>1, <2>3, <3>3
      <4> QED
        BY <2>5, <3>3, <4>1 DEF Sorted
    <3>4. CASE j \in (k + 2)..(Len(h) + 1) /\ i = k + 1
      BY <2>2, <2>5, <2>1, <3>4
    <3>5. CASE j \in (k + 2)..(Len(h) + 1) /\ i \in (k + 2)..(Len(h) + 1)
      <4>1. i - 1 < j - 1
        BY <2>1, <2>3, <3>5
      <4> QED
        BY <2>5, <3>5, <4>1 DEF Sorted
    <3> QED
      BY <2>6, <3>1, <3>2, <3>3, <3>4, <3>5
  <2>9. Grown(h, h2, {rec})
    <3>1. \A i \in DOMAIN h2 : (\E j \in DOMAIN h : h2[i] = h[j]) \/ h2[i] \in {rec}
      BY <2>5, <2>6
    <3>2. ASSUME NEW j \in DOMAIN h PROVE \E i \in DOMAIN h2 : h2[i] = h[j]
      <4>1. CASE j <= k
        BY <2>1, <2>5, <4>1
      <4>2. CASE ~(j <= k)
        <5>1. j + 1 \in (k + 2)..(Len(h) + 1) /\ j + 1 - 1 = j /\ j + 1 \in DOMAIN h2
          BY <2>1, <2>3, <2>5, <4>2
        <5> QED
          BY <2>5, <5>1
      <4> QED
        BY <4>1, <4>2
    <3> QED
      BY <3>1, <3>2 DEF Grown
  <2>10. Has(h2, rec.revision)
    BY <2>5 DEF Has
  <2> QED
    BY <2>7, <2>8, <2>9, <2>10
<1> QED
  BY <1>1, <1>2
-----------------------------------------------------------------------------
(* The folds go element by element.                                        *)
LEMMA MaxIsLast ==
  ASSUME NEW k \in Nat, NEW s \in SUBSET (1 .. k + 1), k + 1 \in s
  PROVE  Max(s) = k + 1
<1>1. \A y \in s : k + 1 >= y
  OBVIOUS
<1>2. \A x \in s : (\A y \in s : x >= y) => x = k + 1
  OBVIOUS
<1> QED
  BY <1>1, <1>2 DEF Max

AppendSolves(g, h, recs, m) ==
  g = [s \in SUBSET (1 .. m) |-> IF s = {} THEN h ELSE AppendRecord(g[s \ {Max(s)}], recs[Max(s)])]

LEMMA AppendExists ==
  ASSUME NEW h, NEW recs, NEW m \in Nat
  PROVE  \E g : AppendSolves(g, h, recs, m)
<1> DEFINE G == {k \in Nat : \E g : AppendSolves(g, h, recs, k)}
<1>1. 0 \in G
  <2> DEFINE g == [s \in SUBSET (1 .. 0) |-> h]
  <2>1. g = [s \in SUBSET (1 .. 0) |-> IF s = {} THEN h ELSE AppendRecord(g[s \ {Max(s)}], recs[Max(s)])]
    <3>1. \A s \in SUBSET (1 .. 0) : s = {}
      OBVIOUS
    <3> QED
      BY <3>1
  <2> QED
    BY <2>1 DEF AppendSolves
<1>2. ASSUME NEW k \in G PROVE k + 1 \in G
  <2>1. k \in Nat /\ \E g : AppendSolves(g, h, recs, k)
    OBVIOUS
  <2>2. PICK g : AppendSolves(g, h, recs, k)
    BY <2>1
  <2> DEFINE f == [s \in SUBSET (1 .. k + 1) |-> IF k + 1 \in s THEN AppendRecord(g[s \ {k + 1}], recs[k + 1]) ELSE g[s]]
  <2>3. ASSUME NEW s \in SUBSET (1 .. k + 1)
        PROVE  f[s] = IF s = {} THEN h ELSE AppendRecord(f[s \ {Max(s)}], recs[Max(s)])
    <3>1. CASE k + 1 \in s
      <4>1. Max(s) = k + 1 /\ s # {}
        BY <2>1, <3>1, MaxIsLast
      <4>2. k + 1 \notin s \ {k + 1} /\ s \ {k + 1} \in SUBSET (1 .. k + 1)
        OBVIOUS
      <4>3. f[s \ {k + 1}] = g[s \ {k + 1}]
        BY <4>2
      <4>4. f[s] = AppendRecord(g[s \ {k + 1}], recs[k + 1])
        BY <3>1
      <4> HIDE DEF f
      <4> QED
        BY <4>1, <4>3, <4>4
    <3>2. CASE k + 1 \notin s
      <4>1. s \in SUBSET (1 .. k)
        BY <2>1, <3>2
      <4>2. f[s] = IF s = {} THEN h ELSE AppendRecord(g[s \ {Max(s)}], recs[Max(s)])
        BY <2>2, <3>2, <4>1 DEF AppendSolves
      <4>3. k + 1 \notin s \ {Max(s)} /\ s \ {Max(s)} \in SUBSET (1 .. k + 1)
        BY <3>2
      <4>4. f[s \ {Max(s)}] = g[s \ {Max(s)}]
        BY <4>3
      <4> HIDE DEF f
      <4> QED
        BY <4>2, <4>4
    <3> QED
      BY <3>1, <3>2
  <2>4. f = [s \in SUBSET (1 .. k + 1) |-> f[s]]
    OBVIOUS
  <2> HIDE DEF f
  <2>5. f = [s \in SUBSET (1 .. k + 1) |-> IF s = {} THEN h ELSE AppendRecord(f[s \ {Max(s)}], recs[Max(s)])]
    BY <2>3, <2>4
  <2>6. AppendSolves(f, h, recs, k + 1)
    BY <2>5 DEF AppendSolves
  <2> QED
    BY <2>1, <2>6
<1> HIDE DEF G
<1>3. G = Nat
  <2>1. G \in SUBSET Nat
    BY DEF G
  <2> QED
    BY <1>1, <1>2, <2>1, SetInduction
<1> QED
  BY <1>3 DEF G

AppendRun(runs, h, recs, n) ==
  runs[0] = h /\ runs[n] = AppendAll(h, recs) /\ \A k \in 1 .. n : runs[k] = AppendRecord(runs[k - 1], recs[k])

(* AppendAll is the last of a run of single appends.                       *)
LEMMA AppendSteps ==
  ASSUME NEW h, NEW recs, NEW n \in Nat, DOMAIN recs = 1 .. n
  PROVE  \E runs : AppendRun(runs, h, recs, n)
<1> DEFINE g == CHOOSE g : AppendSolves(g, h, recs, n)
           runs == [k \in 0 .. n |-> g[1 .. k]]
<1>1. AppendSolves(g, h, recs, n)
  BY AppendExists
<1>2. AppendAll(h, recs) = g[1 .. n]
  BY DEF AppendAll, FoldLeft, MapThenFoldSet, AppendSolves
<1> HIDE DEF g
<1>3. runs[0] = h
  <2>1. 1 .. 0 = {} /\ {} \in SUBSET (1 .. n)
    OBVIOUS
  <2> QED
    BY <1>1, <2>1 DEF AppendSolves
<1>4. ASSUME NEW k \in 1 .. n PROVE runs[k] = AppendRecord(runs[k - 1], recs[k])
  <2>1. 1 .. k \in SUBSET (1 .. n) /\ k \in 1 .. k /\ 1 .. k # {} /\ (1 .. k) \ {k} = 1 .. (k - 1) /\ k - 1 \in Nat
    OBVIOUS
  <2>2. Max(1 .. k) = k
    <3>1. k - 1 + 1 = k
      OBVIOUS
    <3> QED
      BY <2>1, <3>1, MaxIsLast
  <2>3. g[1 .. k] = IF 1 .. k = {} THEN h ELSE AppendRecord(g[(1 .. k) \ {Max(1 .. k)}], recs[Max(1 .. k)])
    BY <1>1, <2>1 DEF AppendSolves
  <2>4. runs[k] = g[1 .. k] /\ runs[k - 1] = g[1 .. (k - 1)]
    BY <2>1
  <2> HIDE DEF runs
  <2> QED
    BY <2>1, <2>2, <2>3, <2>4
<1>5. runs[n] = g[1 .. n]
  OBVIOUS
<1> QED
  <2>1. AppendRun(runs, h, recs, n)
    BY <1>2, <1>3, <1>4, <1>5 DEF AppendRun
  <2> QED
    BY <2>1

BurstOf(plan) ==
  FoldLeft(LAMBDA frames, task : frames \o SynthesizedTasks(task), <<Delta(plan)>>, plan.tasks)
BurstSolves(g, h, ts, m) ==
  g = [s \in SUBSET (1 .. m) |-> IF s = {} THEN h ELSE g[s \ {Max(s)}] \o SynthesizedTasks(ts[Max(s)])]

LEMMA BurstExists ==
  ASSUME NEW h, NEW ts, NEW m \in Nat
  PROVE  \E g : BurstSolves(g, h, ts, m)
<1> DEFINE G == {k \in Nat : \E g : BurstSolves(g, h, ts, k)}
<1>1. 0 \in G
  <2> DEFINE g == [s \in SUBSET (1 .. 0) |-> h]
  <2>1. g = [s \in SUBSET (1 .. 0) |-> IF s = {} THEN h ELSE g[s \ {Max(s)}] \o SynthesizedTasks(ts[Max(s)])]
    <3>1. \A s \in SUBSET (1 .. 0) : s = {}
      OBVIOUS
    <3> QED
      BY <3>1
  <2> QED
    BY <2>1 DEF BurstSolves
<1>2. ASSUME NEW k \in G PROVE k + 1 \in G
  <2>1. k \in Nat /\ \E g : BurstSolves(g, h, ts, k)
    OBVIOUS
  <2>2. PICK g : BurstSolves(g, h, ts, k)
    BY <2>1
  <2> DEFINE f == [s \in SUBSET (1 .. k + 1) |-> IF k + 1 \in s THEN g[s \ {k + 1}] \o SynthesizedTasks(ts[k + 1]) ELSE g[s]]
  <2>3. ASSUME NEW s \in SUBSET (1 .. k + 1)
        PROVE  f[s] = IF s = {} THEN h ELSE f[s \ {Max(s)}] \o SynthesizedTasks(ts[Max(s)])
    <3>1. CASE k + 1 \in s
      <4>1. Max(s) = k + 1 /\ s # {}
        BY <2>1, <3>1, MaxIsLast
      <4>2. k + 1 \notin s \ {k + 1} /\ s \ {k + 1} \in SUBSET (1 .. k + 1)
        OBVIOUS
      <4>3. f[s \ {k + 1}] = g[s \ {k + 1}]
        BY <4>2
      <4>4. f[s] = g[s \ {k + 1}] \o SynthesizedTasks(ts[k + 1])
        BY <3>1
      <4> HIDE DEF f
      <4> QED
        BY <4>1, <4>3, <4>4
    <3>2. CASE k + 1 \notin s
      <4>1. s \in SUBSET (1 .. k)
        BY <2>1, <3>2
      <4>2. f[s] = IF s = {} THEN h ELSE g[s \ {Max(s)}] \o SynthesizedTasks(ts[Max(s)])
        BY <2>2, <3>2, <4>1 DEF BurstSolves
      <4>3. k + 1 \notin s \ {Max(s)} /\ s \ {Max(s)} \in SUBSET (1 .. k + 1)
        BY <3>2
      <4>4. f[s \ {Max(s)}] = g[s \ {Max(s)}]
        BY <4>3
      <4> HIDE DEF f
      <4> QED
        BY <4>2, <4>4
    <3> QED
      BY <3>1, <3>2
  <2>4. f = [s \in SUBSET (1 .. k + 1) |-> f[s]]
    OBVIOUS
  <2> HIDE DEF f
  <2>5. f = [s \in SUBSET (1 .. k + 1) |-> IF s = {} THEN h ELSE f[s \ {Max(s)}] \o SynthesizedTasks(ts[Max(s)])]
    BY <2>3, <2>4
  <2>6. BurstSolves(f, h, ts, k + 1)
    BY <2>5 DEF BurstSolves
  <2> QED
    BY <2>1, <2>6
<1> HIDE DEF G
<1>3. G = Nat
  <2>1. G \in SUBSET Nat
    BY DEF G
  <2> QED
    BY <1>1, <1>2, <2>1, SetInduction
<1> QED
  BY <1>3 DEF G

BurstRun(runs, h, ts, n) ==
  /\ runs[0] = h /\ runs[n] = FoldLeft(LAMBDA frames, task : frames \o SynthesizedTasks(task), h, ts)
  /\ \A k \in 1 .. n : runs[k] = runs[k - 1] \o SynthesizedTasks(ts[k])

(* The burst is the last of a run of tasks.                                *)
LEMMA BurstSteps ==
  ASSUME NEW h, NEW ts, NEW n \in Nat, DOMAIN ts = 1 .. n
  PROVE  \E runs : BurstRun(runs, h, ts, n)
<1> DEFINE g == CHOOSE g : BurstSolves(g, h, ts, n)
           runs == [k \in 0 .. n |-> g[1 .. k]]
<1>1. BurstSolves(g, h, ts, n)
  BY BurstExists
<1>2. FoldLeft(LAMBDA frames, task : frames \o SynthesizedTasks(task), h, ts) = g[1 .. n]
  BY DEF FoldLeft, MapThenFoldSet, BurstSolves
<1> HIDE DEF g
<1>3. runs[0] = h
  <2>1. 1 .. 0 = {} /\ {} \in SUBSET (1 .. n)
    OBVIOUS
  <2> QED
    BY <1>1, <2>1 DEF BurstSolves
<1>4. ASSUME NEW k \in 1 .. n PROVE runs[k] = runs[k - 1] \o SynthesizedTasks(ts[k])
  <2>1. 1 .. k \in SUBSET (1 .. n) /\ k \in 1 .. k /\ 1 .. k # {} /\ (1 .. k) \ {k} = 1 .. (k - 1) /\ k - 1 \in Nat
    OBVIOUS
  <2>2. Max(1 .. k) = k
    <3>1. k - 1 + 1 = k
      OBVIOUS
    <3> QED
      BY <2>1, <3>1, MaxIsLast
  <2>3. g[1 .. k] = IF 1 .. k = {} THEN h ELSE g[(1 .. k) \ {Max(1 .. k)}] \o SynthesizedTasks(ts[Max(1 .. k)])
    BY <1>1, <2>1 DEF BurstSolves
  <2>4. runs[k] = g[1 .. k] /\ runs[k - 1] = g[1 .. (k - 1)]
    BY <2>1
  <2> HIDE DEF runs
  <2> QED
    BY <2>1, <2>2, <2>3, <2>4
<1>5. runs[n] = g[1 .. n]
  OBVIOUS
<1> QED
  <2>1. BurstRun(runs, h, ts, n)
    BY <1>2, <1>3, <1>4, <1>5 DEF BurstRun
  <2> QED
    BY <2>1
-----------------------------------------------------------------------------
(* What the RPC's answer does to the history.                              *)
LEMMA AppendAllProperties ==
  ASSUME NEW h \in Seq(Rec), Sorted(h), NEW recs \in Seq(Rec)
  PROVE  LET h2 == AppendAll(h, recs) IN
         /\ h2 \in Seq(Rec) /\ Sorted(h2) /\ Grown(h, h2, {recs[i] : i \in DOMAIN recs})
         /\ \A i \in DOMAIN recs : Has(h2, recs[i].revision)
<1> DEFINE n == Len(recs)
<1>1. n \in Nat /\ DOMAIN recs = 1 .. n /\ \A i \in 1 .. n : recs[i] \in Rec
  BY RecFacts
<1> HIDE DEF n
<1>2. PICK runs : AppendRun(runs, h, recs, n)
  BY <1>1, AppendSteps
<1>2a. /\ runs[0] = h /\ runs[n] = AppendAll(h, recs)
      /\ \A k \in 1 .. n : runs[k] = AppendRecord(runs[k - 1], recs[k])
  BY <1>2 DEF AppendRun
<1> DEFINE Good(k) == /\ runs[k] \in Seq(Rec) /\ Sorted(runs[k]) /\ Grown(h, runs[k], {recs[i] : i \in 1 .. k})
                      /\ \A i \in 1 .. k : Has(runs[k], recs[i].revision)
           G == {k \in Nat : k <= n => Good(k)}
<1>3. 0 \in G
  <2>1. runs[0] \in Seq(Rec) /\ Sorted(runs[0])
    BY <1>2a
  <2>2. Grown(h, runs[0], {recs[i] : i \in 1 .. 0})
    BY <1>2a DEF Grown
  <2> QED
    BY <2>1, <2>2
<1>4. ASSUME NEW k \in G PROVE k + 1 \in G
  <2>1. k \in Nat /\ (k <= n => Good(k))
    OBVIOUS
  <2> SUFFICES ASSUME k + 1 <= n PROVE Good(k + 1)
    BY <2>1
  <2>2. Good(k) /\ k + 1 \in 1 .. n /\ k + 1 - 1 = k /\ recs[k + 1] \in Rec
    BY <1>1, <2>1
  <2>3. runs[k + 1] = AppendRecord(runs[k], recs[k + 1])
    BY <1>2a, <2>2
  <2>4. /\ runs[k + 1] \in Seq(Rec) /\ Sorted(runs[k + 1]) /\ Grown(runs[k], runs[k + 1], {recs[k + 1]})
        /\ Has(runs[k + 1], recs[k + 1].revision)
    BY <2>2, <2>3, AppendRecordProperties
  <2>5. Grown(h, runs[k + 1], {recs[i] : i \in 1 .. k + 1})
    <3>1. {recs[i] : i \in 1 .. k} \subseteq {recs[i] : i \in 1 .. k + 1} /\ recs[k + 1] \in {recs[i] : i \in 1 .. k + 1}
      BY <2>1
    <3>2. Grown(h, runs[k], {recs[i] : i \in 1 .. k}) /\ Grown(runs[k], runs[k + 1], {recs[k + 1]})
      BY <2>2, <2>4
    <3> QED
      BY <3>1, <3>2, GrownOn
  <2>6. \A i \in 1 .. k + 1 : Has(runs[k + 1], recs[i].revision)
    <3>1. \A i \in 1 .. k : Has(runs[k], recs[i].revision)
      BY <2>2
    <3>2. \A i \in 1 .. k : Has(runs[k + 1], recs[i].revision)
      BY <2>4, <3>1, GrownHas
    <3>3. \A i \in 1 .. k + 1 : i \in 1 .. k \/ i = k + 1
      BY <2>1
    <3> QED
      BY <2>4, <3>2, <3>3
  <2> QED
    BY <2>4, <2>5, <2>6
<1> HIDE DEF G
<1>5. G = Nat
  <2>1. G \in SUBSET Nat
    BY DEF G
  <2> QED
    BY <1>3, <1>4, <2>1, SetInduction
<1>6. Good(n)
  <2>1. n \in G /\ n <= n
    BY <1>1, <1>5
  <2> QED
    BY <2>1, Zenon DEF G
<1> QED
  BY <1>1, <1>2a, <1>6

-----------------------------------------------------------------------------
(* The plan frames of the burst: the row, once, and then its tasks.        *)
LEMMA SynthesizedFacts ==
  ASSUME NEW task \in Task
  PROVE  LET fs == SynthesizedTasks(task) IN
         /\ fs \in Seq(TaskFrames) /\ \A i \in DOMAIN fs : fs[i].id = task.id
         /\ fs # <<>> => fs[Len(fs)].status = task.status
<1>1. task.id \in TaskId /\ task.status \in {"PENDING", "RUNNING", "COMPLETED"}
  BY DEF Task
<1>2. \A st \in {"PENDING", "RUNNING", "COMPLETED"} : TaskDelta(task.id, st) \in TaskFrames /\ TaskDelta(task.id, st).id = task.id
          /\ TaskDelta(task.id, st).status = st
  BY <1>1 DEF TaskDelta, TaskFrames
<1> DEFINE run == TaskDelta(task.id, "RUNNING")
           last == TaskDelta(task.id, task.status)
<1>3. SynthesizedTasks(task) \in {<<>>, <<run, last>>} \/ (SynthesizedTasks(task) = <<run>> /\ task.status = "RUNNING")
  BY DEF SynthesizedTasks
<1>4. run \in TaskFrames /\ run.id = task.id /\ run.status = "RUNNING"
      /\ last \in TaskFrames /\ last.id = task.id /\ last.status = task.status
  BY <1>1, <1>2
<1> HIDE DEF run, last
<1>5. CASE SynthesizedTasks(task) = <<>>
  BY <1>5
<1>6. CASE SynthesizedTasks(task) = <<run>> /\ task.status = "RUNNING"
  BY <1>4, <1>6
<1>7. CASE SynthesizedTasks(task) = <<run, last>>
  BY <1>4, <1>7
<1> QED
  BY <1>3, <1>5, <1>6, <1>7

LastOf(q, i) == \A j \in DOMAIN q : j > i => q[j].kind = "task" /\ q[j].id # q[i].id

(* b is the submission of the plan and then only tasks, the last of each   *)
(* id with the status of a task before n.                                  *)
Replays(b, plan, n) ==
  /\ b \in Seq(Frames) /\ Len(b) >= 1 /\ b[1] = Delta(plan)
  /\ \A i \in 2 .. Len(b) : b[i] \in TaskFrames
  /\ \A i \in 2 .. Len(b) : LastOf(b, i) =>
       \E t \in 1 .. n : plan.tasks[t].id = b[i].id /\ plan.tasks[t].status = b[i].status

ReplaysMore(b, fs, b2) ==
  /\ b2 \in Seq(Frames) /\ Len(b2) = Len(b) + Len(fs)
  /\ \A i \in 1 .. Len(b) : b2[i] = b[i]
  /\ \A i \in 1 .. Len(fs) : b2[Len(b) + i] = fs[i]

LEMMA ConcatFacts ==
  ASSUME NEW b \in Seq(Frames), NEW fs \in Seq(TaskFrames)
  PROVE  ReplaysMore(b, fs, b \o fs)
<1>1. fs \in Seq(Frames)
  <2>1. Len(fs) \in Nat /\ fs = [i \in 1 .. Len(fs) |-> fs[i]] /\ \A i \in 1 .. Len(fs) : fs[i] \in TaskFrames
    OBVIOUS
  <2>2. \A i \in 1 .. Len(fs) : fs[i] \in Frames
    BY <2>1 DEF Frames
  <2> QED
    BY <2>1, <2>2
<1>2. b \o fs \in Seq(Frames) /\ Len(b \o fs) = Len(b) + Len(fs)
  BY <1>1
<1>3. \A i \in 1 .. Len(b) : (b \o fs)[i] = b[i]
  BY <1>1
<1>4. \A i \in 1 .. Len(fs) : (b \o fs)[Len(b) + i] = fs[i]
  BY <1>1
<1> QED
  BY <1>2, <1>3, <1>4 DEF ReplaysMore

(* The frames of one more task keep what Replays says.                     *)
LEMMA OneTaskMore ==
  ASSUME NEW plan, NEW k \in Nat, NEW b, Replays(b, plan, k), NEW fs \in Seq(TaskFrames), NEW b2,
         ReplaysMore(b, fs, b2),
         \A i \in DOMAIN fs : fs[i].id = plan.tasks[k + 1].id,
         fs # <<>> => fs[Len(fs)].status = plan.tasks[k + 1].status
  PROVE  Replays(b2, plan, k + 1)
<1> DEFINE m == Len(b)
           n == Len(fs)
<1>1. /\ m \in Nat /\ m >= 1 /\ n \in Nat /\ Len(b2) = m + n /\ DOMAIN b2 = 1 .. m + n /\ DOMAIN b = 1 .. m
      /\ DOMAIN fs = 1 .. n
  BY DEF Replays, ReplaysMore
<1>2. \A i \in 1 .. n : fs[i] \in TaskFrames
  BY <1>1
<1>3. /\ \A i \in 1 .. m : b2[i] = b[i]
      /\ \A i \in 1 .. n : b2[m + i] = fs[i]
  BY DEF ReplaysMore
<1>4. \A i \in 1 .. m + n : i \in 1 .. m \/ (i - m \in 1 .. n /\ m + (i - m) = i)
  BY <1>1
<1> HIDE DEF m, n
<1>5. ASSUME NEW i \in 2 .. m + n PROVE b2[i] \in TaskFrames
  <2>1. CASE i \in 1 .. m
    BY <1>1, <1>3, <2>1 DEF Replays, m
  <2>2. CASE i - m \in 1 .. n /\ m + (i - m) = i
    BY <1>1, <1>2, <1>3, <2>2
  <2> QED
    BY <1>1, <1>4, <2>1, <2>2
<1>6. ASSUME NEW i \in 2 .. m + n, LastOf(b2, i)
      PROVE  \E t \in 1 .. k + 1 : plan.tasks[t].id = b2[i].id /\ plan.tasks[t].status = b2[i].status
  <2>1. CASE i \in 1 .. m
    <3>1. LastOf(b, i)
      <4> SUFFICES ASSUME NEW j \in 1 .. m, j > i PROVE b[j].kind = "task" /\ b[j].id # b[i].id
        BY <1>1 DEF LastOf
      <4>1. j \in DOMAIN b2 /\ b2[j] = b[j] /\ b2[i] = b[i]
        BY <1>1, <1>3, <2>1
      <4> QED
        BY <1>6, <4>1 DEF LastOf
    <3>2. \E t \in 1 .. k : plan.tasks[t].id = b[i].id /\ plan.tasks[t].status = b[i].status
      BY <1>1, <2>1, <3>1 DEF Replays, m
    <3>3. b2[i] = b[i] /\ \A t \in 1 .. k : t \in 1 .. k + 1
      BY <1>3, <2>1
    <3> QED
      BY <3>2, <3>3
  <2>2. CASE i - m \in 1 .. n /\ m + (i - m) = i
    <3>1. b2[i] = fs[i - m] /\ b2[m + n] = fs[n] /\ n \in 1 .. n /\ m + n \in DOMAIN b2
      BY <1>1, <1>3, <2>2
    <3>2. fs[i - m].id = plan.tasks[k + 1].id /\ fs[n].id = plan.tasks[k + 1].id
      BY <1>1, <2>2, <3>1
    <3>3. i = m + n
      <4> SUFFICES ASSUME i # m + n PROVE FALSE
        OBVIOUS
      <4>1. m + n > i
        BY <1>1, <2>2
      <4> QED
        BY <1>6, <3>1, <3>2, <4>1 DEF LastOf
    <3>4. fs # <<>>
      BY <1>1, <3>1
    <3> QED
      BY <3>1, <3>2, <3>3, <3>4 DEF n
  <2> QED
    BY <1>1, <1>4, <2>1, <2>2
<1>7. b2 \in Seq(Frames) /\ b2[1] = Delta(plan)
  <2>1. b2[1] = b[1]
    BY <1>1, <1>3
  <2> QED
    BY <2>1 DEF Replays, ReplaysMore
<1> QED
  BY <1>1, <1>5, <1>6, <1>7 DEF Replays

LEMMA BurstReplays ==
  ASSUME NEW plan \in Plan
  PROVE  Replays(BurstOf(plan), plan, Len(plan.tasks))
<1> DEFINE n == Len(plan.tasks)
           ts == plan.tasks
<1>1. n \in Nat /\ DOMAIN ts = 1 .. n /\ \A i \in 1 .. n : ts[i] \in Task
  <2>1. ts \in Seq(Task)
    BY DEF Plan
  <2> HIDE DEF ts
  <2> QED
    BY <2>1 DEF ts
<1> HIDE DEF n
<1>2. PICK runs : BurstRun(runs, <<Delta(plan)>>, ts, n)
  <2> HIDE DEF ts
  <2> QED
    BY <1>1, BurstSteps
<1>3. runs[0] = <<Delta(plan)>> /\ runs[n] = BurstOf(plan)
  BY <1>2 DEF BurstRun, BurstOf
<1>4. \A k \in 1 .. n : runs[k] = runs[k - 1] \o SynthesizedTasks(ts[k])
  BY <1>2 DEF BurstRun
<1> HIDE DEF ts
<1> DEFINE G == {k \in Nat : k <= n => Replays(runs[k], plan, k)}
<1>5. 0 \in G
  <2>1. Delta(plan) \in Frames
    BY DEF Delta, Frames, PlanFrames
  <2>2. runs[0] \in Seq(Frames) /\ Len(runs[0]) = 1 /\ runs[0][1] = Delta(plan)
    BY <1>3, <2>1
  <2>3. Replays(runs[0], plan, 0)
    BY <2>2 DEF Replays
  <2> QED
    BY <2>3
<1>6. ASSUME NEW k \in G PROVE k + 1 \in G
  <2>1. k \in Nat /\ (k <= n => Replays(runs[k], plan, k))
    OBVIOUS
  <2> SUFFICES ASSUME k + 1 <= n PROVE Replays(runs[k + 1], plan, k + 1)
    BY <2>1
  <2> DEFINE fs == SynthesizedTasks(ts[k + 1])
  <2>2. Replays(runs[k], plan, k) /\ k + 1 \in 1 .. n /\ k + 1 - 1 = k /\ ts[k + 1] \in Task
    BY <1>1, <2>1
  <2>3. runs[k + 1] = runs[k] \o fs
    <3>1. PICK j \in 1 .. n : j = k + 1
      BY <2>2
    <3>2. runs[j] = runs[j - 1] \o SynthesizedTasks(ts[j])
      BY <1>4
    <3>3. j - 1 = k
      BY <2>1, <3>1
    <3> QED
      BY <3>1, <3>2, <3>3
  <2>4. /\ fs \in Seq(TaskFrames) /\ \A i \in DOMAIN fs : fs[i].id = ts[k + 1].id
        /\ fs # <<>> => fs[Len(fs)].status = ts[k + 1].status
    BY <2>2, SynthesizedFacts
  <2> HIDE DEF fs
  <2>5. ReplaysMore(runs[k], fs, runs[k + 1])
    BY <2>2, <2>3, <2>4, ConcatFacts DEF Replays
  <2> QED
    BY <2>2, <2>4, <2>5, OneTaskMore, <2>1 DEF ts
<1> HIDE DEF G
<1>7. G = Nat
  <2>1. G \in SUBSET Nat
    BY DEF G
  <2> QED
    BY <1>5, <1>6, <2>1, SetInduction
<1>8. Replays(runs[n], plan, n)
  BY <1>1, <1>7 DEF G
<1> QED
  BY <1>3, <1>8 DEF n, ts
-----------------------------------------------------------------------------
(* The invariant.                                                          *)
PlanTypes ==
  /\ row \in Plan \union {NoPlan}
  /\ revisions \in Seq(Plan) /\ log \in Seq(Plan)
  /\ handler \in [pc : Pcs, plan : Plan \union {NoPlan}] /\ taskEvents \in Nat
  /\ watching \in {"closed", "session", "tail"} /\ visits \in 0..MaxVisits
  /\ burst \in Seq(Frames) /\ queue \in Seq(Frames)
  /\ rpc \in [state : States, answer : Seq(Plan)]
  /\ current \in Plan \union {NoPlan} /\ snaps \in Seq(Plan)
  /\ notices \in Seq(Nat) /\ history \in Seq(Rec)

(* Which revision stands where, and what the handler has still to write.   *)
InOrder(table) == \A i \in DOMAIN table : table[i].revision = i - 1
Tables ==
  /\ InOrder(log) /\ InOrder(revisions) /\ InOrder(rpc.answer) /\ Len(log) <= MaxRevision + 1
  /\ handler.pc \notin {"put", "persist"} => Len(revisions) = Len(log)
  /\ handler.pc # "idle" => /\ handler.plan \in Plan /\ handler.plan.revision = Len(log) - 1
                            /\ Len(revisions) \in {Len(log), Len(log) - 1}
  /\ handler.pc \in {"put again", "persist again"} => handler.plan.kind
  /\ handler.pc \in {"persist", "persist again"} => row = handler.plan

(* Whatever holds a plan holds what goldfive gave that revision.           *)
PlanTrue(p) == p.revision + 1 \in DOMAIN log /\ Structure(p) = Structure(log[p.revision + 1])
FramesTrue(q) == \A i \in DOMAIN q : q[i].kind = "plan" => PlanTrue(q[i].plan)
RecTrue(rec) ==
  PlanTrue(rec.plan) /\ rec.plan.revision = rec.revision /\ (rec.source = "delta" => rec.plan.kind)
PlansTrue ==
  /\ row # NoPlan => PlanTrue(row)
  /\ handler.pc # "idle" => PlanTrue(handler.plan)
  /\ \A i \in DOMAIN revisions : PlanTrue(revisions[i])
  /\ \A i \in DOMAIN rpc.answer : PlanTrue(rpc.answer[i])
  /\ FramesTrue(burst) /\ FramesTrue(queue)
  /\ \A i \in DOMAIN queue : queue[i].kind = "plan" => queue[i].plan.kind
  /\ \A i \in DOMAIN history : RecTrue(history[i])

Kept == (snaps # <<>> => current # NoPlan) /\ Len(notices) <= MaxNotices

PlanInv == PlanTypes /\ Tables /\ PlansTrue /\ HistorySorted /\ Kept

LEMMA EmptyInOrder == InOrder(<<>>)
BY DEF InOrder

LEMMA InitPlanInv == PlansInit => PlanInv
<1> SUFFICES ASSUME PlansInit PROVE PlanInv
  OBVIOUS
<1>1. PlanTypes
  BY RevisionsAssumption DEF PlansInit, PlanTypes, NoHandler, Pcs, States
<1>2. Tables /\ PlansTrue /\ HistorySorted /\ Kept
  BY RevisionsAssumption DEF PlansInit, NoHandler, Tables, InOrder, PlansTrue, FramesTrue, HistorySorted, Kept
<1> QED
  BY <1>1, <1>2 DEF PlanInv

(* The log only grows, so what was true stays true.                        *)
LEMMA TrueStays ==
  ASSUME NEW p, PlanTrue(p), \/ log' = log
                             \/ log \in Seq(Plan) /\ \E x \in Plan : log' = Append(log, x)
  PROVE  PlanTrue(p)'
<1>1. CASE log' = log
  BY <1>1 DEF PlanTrue
<1>2. CASE log \in Seq(Plan) /\ \E x \in Plan : log' = Append(log, x)
  <2>1. \A i \in DOMAIN log : i \in DOMAIN log' /\ log'[i] = log[i]
    BY <1>2
  <2> QED
    BY <2>1 DEF PlanTrue
<1> QED
  BY <1>1, <1>2

LEMMA StructureKept ==
  ASSUME NEW p, NEW t, NEW st
  PROVE  Structure(WithStatus(p, t, st)) = Structure(p)
BY DEF Structure, WithStatus

LEMMA StructureNamed ==
  ASSUME NEW p
  PROVE  Structure([p EXCEPT !.kind = TRUE]) = Structure(p)
BY DEF Structure

(* What goldfive and the handlers write is typed, and keeps its tasks.     *)
LEMMA StatusOfTyped ==
  ASSUME row \in Plan \union {NoPlan}, NEW t
  PROVE  StatusOf(t) \in {"PENDING", "RUNNING", "COMPLETED"}
<1>1. CASE row # NoPlan /\ t \in TaskIds(row)
  <2> DEFINE i == CHOOSE i \in DOMAIN row.tasks : row.tasks[i].id = t
  <2>1. \E j \in DOMAIN row.tasks : row.tasks[j].id = t
    BY <1>1 DEF TaskIds
  <2>2. i \in DOMAIN row.tasks
    BY <2>1
  <2>3. row.tasks \in Seq(Task)
    BY <1>1 DEF Plan
  <2>4. StatusOf(t) = row.tasks[i].status
    BY <1>1 DEF StatusOf
  <2> HIDE DEF i
  <2>5. row.tasks[i] \in Task
    BY <2>2, <2>3
  <2> QED
    BY <2>4, <2>5 DEF Task
<1>2. CASE ~(row # NoPlan /\ t \in TaskIds(row))
  BY <1>2 DEF StatusOf
<1> QED
  BY <1>1, <1>2

LEMMA PlanFromTyped ==
  ASSUME row \in Plan \union {NoPlan}, NEW r \in 0..MaxRevision, NEW shape \in Shape[r], NEW kind \in BOOLEAN
  PROVE  PlanFrom(shape, r, kind) \in Plan
<1> DEFINE Pair == [id : TaskId, supersedes : TaskId \union {NoTask}]
<1>a. \A x \in 0..MaxRevision : Shape[x] \subseteq Seq(Pair)
  BY RevisionsAssumption, Zenon
<1>b. \A p \in Pair : p.id \in TaskId /\ p.supersedes \in TaskId \union {NoTask}
  OBVIOUS
<1> HIDE DEF Pair
<1>1. shape \in Seq(Pair)
  BY <1>a, Zenon
<1> DEFINE ts == [i \in DOMAIN shape |-> [id |-> shape[i].id, supersedes |-> shape[i].supersedes,
                                             status |-> StatusOf(shape[i].id)]]
<1>2. \A i \in DOMAIN shape : ts[i] \in Task
  <2> TAKE i \in DOMAIN shape
  <2>1. shape[i].id \in TaskId /\ shape[i].supersedes \in TaskId \union {NoTask}
    BY <1>b, <1>1
  <2>2. StatusOf(shape[i].id) \in {"PENDING", "RUNNING", "COMPLETED"}
    BY StatusOfTyped
  <2> QED
    BY <2>1, <2>2 DEF Task
<1>3. DOMAIN shape = 1..Len(shape) /\ Len(shape) \in Nat
  BY <1>1
<1>4. ts = [i \in 1..Len(shape) |-> ts[i]] /\ \A i \in 1..Len(shape) : ts[i] \in Task
  BY <1>2, <1>3
<1> HIDE DEF ts
<1>5. ts \in Seq(Task)
  BY <1>3, <1>4
<1>6. PlanFrom(shape, r, kind) = [revision |-> r, kind |-> kind, tasks |-> ts]
  BY DEF PlanFrom, ts
<1>7. r \in Nat
  BY RevisionsAssumption
<1> QED
  BY <1>5, <1>6, <1>7 DEF Plan

LEMMA WithStatusTyped ==
  ASSUME NEW p \in Plan, NEW t, NEW st \in {"PENDING", "RUNNING", "COMPLETED"}
  PROVE  /\ WithStatus(p, t, st) \in Plan
         /\ WithStatus(p, t, st).revision = p.revision /\ WithStatus(p, t, st).kind = p.kind
         /\ DOMAIN WithStatus(p, t, st).tasks = DOMAIN p.tasks
         /\ \A i \in DOMAIN p.tasks : /\ WithStatus(p, t, st).tasks[i].id = p.tasks[i].id
                                      /\ WithStatus(p, t, st).tasks[i].supersedes = p.tasks[i].supersedes
                                      /\ WithStatus(p, t, st).tasks[i].status =
                                           IF p.tasks[i].id = t THEN st ELSE p.tasks[i].status
<1>1. p.tasks \in Seq(Task) /\ DOMAIN p.tasks = 1..Len(p.tasks) /\ Len(p.tasks) \in Nat
  BY DEF Plan
<1> DEFINE ts == [i \in DOMAIN p.tasks |-> IF p.tasks[i].id = t THEN [p.tasks[i] EXCEPT !.status = st] ELSE p.tasks[i]]
<1>2. WithStatus(p, t, st) = [p EXCEPT !.tasks = ts]
  BY DEF WithStatus
<1>3. ASSUME NEW i \in DOMAIN p.tasks
      PROVE  /\ ts[i] \in Task /\ ts[i].id = p.tasks[i].id /\ ts[i].supersedes = p.tasks[i].supersedes
             /\ ts[i].status = IF p.tasks[i].id = t THEN st ELSE p.tasks[i].status
  <2>1. p.tasks[i] \in Task
    BY <1>1
  <2> QED
    BY <2>1 DEF Task
<1>4. DOMAIN ts = DOMAIN p.tasks /\ ts = [i \in 1..Len(p.tasks) |-> ts[i]]
  BY <1>1
<1> HIDE DEF ts
<1>5. ts \in Seq(Task)
  <2>1. \A i \in 1..Len(p.tasks) : ts[i] \in Task
    BY <1>1, <1>3
  <2> QED
    BY <1>1, <1>4, <2>1
<1>6. [p EXCEPT !.tasks = ts] \in Plan /\ [p EXCEPT !.tasks = ts].tasks = ts
      /\ [p EXCEPT !.tasks = ts].revision = p.revision /\ [p EXCEPT !.tasks = ts].kind = p.kind
  BY <1>5 DEF Plan
<1> QED
  BY <1>2, <1>3, <1>4, <1>6

LEMMA TaskIdsTyped ==
  ASSUME NEW p \in Plan, NEW t \in TaskIds(p)
  PROVE  t \in TaskId
<1>1. PICK i \in DOMAIN p.tasks : p.tasks[i].id = t
  BY DEF TaskIds
<1>2. p.tasks \in Seq(Task)
  BY DEF Plan
<1>3. p.tasks[i] \in Task
  BY <1>2
<1> QED
  BY <1>1, <1>3 DEF Task

LEMMA KindTyped ==
  ASSUME NEW p \in Plan
  PROVE  /\ [p EXCEPT !.kind = TRUE] \in Plan /\ [p EXCEPT !.kind = TRUE].kind
         /\ [p EXCEPT !.kind = TRUE].revision = p.revision /\ [p EXCEPT !.kind = TRUE].tasks = p.tasks
         /\ p.kind => [p EXCEPT !.kind = TRUE] = p
BY DEF Plan
LEMMA PublishFacts ==
  ASSUME queue \in Seq(Frames), NEW d \in Frames, PublishDelta(d)
  PROVE  /\ queue' \in Seq(Frames)
         /\ \A i \in DOMAIN queue' : queue'[i] = d \/ (i \in DOMAIN queue /\ queue'[i] = queue[i])
<1>1. queue' = queue \/ queue' = Append(queue, d)
  BY DEF PublishDelta
<1> QED
  BY <1>1

LEMMA DeltaFacts ==
  /\ \A p \in Plan : Delta(p) \in Frames /\ Delta(p).kind = "plan" /\ Delta(p).plan = p
  /\ \A t \in TaskId, st \in {"PENDING", "RUNNING", "COMPLETED"} :
        /\ TaskDelta(t, st) \in Frames /\ TaskDelta(t, st).kind = "task"
        /\ TaskDelta(t, st).id = t /\ TaskDelta(t, st).status = st
BY DEF Delta, TaskDelta, Frames, PlanFrames, TaskFrames

LEMMA FrameFacts ==
  ASSUME NEW f \in Frames
  PROVE  /\ f.kind \in {"plan", "task"}
         /\ f.kind = "plan" => f.plan \in Plan /\ Delta(f.plan) = f
         /\ f.kind = "task" => f.id \in TaskId /\ f.status \in {"PENDING", "RUNNING", "COMPLETED"}
BY DEF Frames, PlanFrames, TaskFrames, Delta

LEMMA PlanEventStep ==
  ASSUME PlanInv, NEW inline \in BOOLEAN, PlanEvent(inline)
  PROVE  PlanInv'
<1> DEFINE r == Len(log)
<1>1. /\ handler.pc = "idle" /\ r <= MaxRevision
      /\ UNCHANGED <<row, revisions, taskEvents, stream, rpc, browser>>
  BY DEF PlanEvent
<1>2. r \in 0..MaxRevision /\ log \in Seq(Plan) /\ row \in Plan \union {NoPlan}
  BY <1>1, RevisionsAssumption DEF PlanInv, PlanTypes
<1>3. PICK shape \in Shape[r] :
        /\ log' = Append(log, [PlanFrom(shape, r, inline \/ r = 0) EXCEPT !.kind = TRUE])
        /\ handler' = [pc |-> "put", plan |-> PlanFrom(shape, r, inline \/ r = 0)]
  BY DEF PlanEvent
<1>4. PICK plan : plan = PlanFrom(shape, r, inline \/ r = 0)
  OBVIOUS
<1>5. PICK logged : logged = [plan EXCEPT !.kind = TRUE]
  OBVIOUS
<1>6. /\ log' = Append(log, logged) /\ handler' = [pc |-> "put", plan |-> plan]
      /\ plan \in Plan /\ plan.revision = r
      /\ logged \in Plan /\ logged.revision = r /\ Structure(logged) = Structure(plan)
  <2>1. plan \in Plan
    BY <1>2, <1>4, PlanFromTyped
  <2>2. plan.revision = r
    BY <1>4 DEF PlanFrom
  <2>3. logged \in Plan /\ logged.revision = r /\ Structure(logged) = Structure(plan)
    BY <1>5, <2>1, <2>2, KindTyped, StructureNamed
  <2> QED
    BY <1>3, <1>4, <1>5, <2>1, <2>2, <2>3
<1>7. /\ log' \in Seq(Plan) /\ Len(log') = r + 1 /\ log'[r + 1] = logged
      /\ DOMAIN log' = 1..(r + 1) /\ \A i \in DOMAIN log : log'[i] = log[i]
  BY <1>2, <1>6
<1>8. \A p : PlanTrue(p) => PlanTrue(p)'
  BY <1>2, <1>6, TrueStays
<1>9. PlanTrue(plan)'
  BY <1>2, <1>6, <1>7 DEF PlanTrue
<1>10. UNCHANGED <<row, revisions, taskEvents, watching, burst, queue, visits, rpc, current, snaps, notices, history>>
  BY <1>1 DEF stream, browser
<1>11. PlanTypes'
  BY <1>6, <1>7, <1>10 DEF PlanInv, PlanTypes, Pcs
<1>12. Tables'
  <2>1. InOrder(log)'
    <3>1. \A i \in 1..(r + 1) : i \in DOMAIN log \/ i = r + 1
      BY <1>2
    <3>2. \A i \in DOMAIN log : log[i].revision = i - 1
      BY DEF PlanInv, Tables, InOrder
    <3>3. \A i \in 1..(r + 1) : log'[i].revision = i - 1
      BY <1>2, <1>6, <1>7, <3>1, <3>2
    <3> QED
      BY <1>7, <3>3 DEF InOrder
  <2> QED
    BY <1>1, <1>2, <1>6, <1>7, <1>10, <2>1, RevisionsAssumption DEF PlanInv, Tables, InOrder
<1>13. PlansTrue'
  BY <1>6, <1>8, <1>9, <1>10 DEF PlanInv, PlansTrue, FramesTrue, RecTrue
<1>14. HistorySorted' /\ Kept'
  BY <1>10 DEF PlanInv, HistorySorted, Kept
<1> QED
  BY <1>11, <1>12, <1>13, <1>14 DEF PlanInv

LEMMA PutTaskPlanStep == PlanInv /\ PutTaskPlan => PlanInv'
<1> SUFFICES ASSUME PlanInv, PutTaskPlan PROVE PlanInv'
  OBVIOUS
<1>1. /\ handler.pc \in {"put", "put again"} /\ row' = handler.plan
      /\ handler' = [handler EXCEPT !.pc = IF @ = "put" THEN "persist" ELSE "persist again"]
      /\ UNCHANGED <<revisions, log, taskEvents, watching, burst, queue, visits, rpc, current, snaps, notices, history>>
  BY DEF PutTaskPlan, stream, browser
<1>2. /\ handler \in [pc : Pcs, plan : Plan \union {NoPlan}] /\ handler.plan \in Plan /\ PlanTrue(handler.plan)
      /\ handler.plan # NoPlan
  BY <1>1, RevisionsAssumption DEF PlanInv, PlanTypes, Tables, PlansTrue
<1>3. /\ handler'.plan = handler.plan /\ handler' \in [pc : Pcs, plan : Plan \union {NoPlan}]
      /\ handler'.pc = IF handler.pc = "put" THEN "persist" ELSE "persist again"
  BY <1>1, <1>2 DEF Pcs
<1>4. PlanTypes'
  BY <1>1, <1>2, <1>3 DEF PlanInv, PlanTypes
<1>5. Tables'
  BY <1>1, <1>2, <1>3 DEF PlanInv, Tables, InOrder
<1>6. PlansTrue'
  BY <1>1, <1>2, <1>3 DEF PlanInv, PlansTrue, PlanTrue, FramesTrue, RecTrue
<1>7. HistorySorted' /\ Kept'
  BY <1>1 DEF PlanInv, HistorySorted, Kept
<1> QED
  BY <1>4, <1>5, <1>6, <1>7 DEF PlanInv

LEMMA PersistRevisionStep == PlanInv /\ PersistRevision => PlanInv'
<1> SUFFICES ASSUME PlanInv, PersistRevision PROVE PlanInv'
  OBVIOUS
<1> DEFINE plan == handler.plan
           named == [handler.plan EXCEPT !.kind = TRUE]
<1>1. /\ handler.pc \in {"persist", "persist again"}
      /\ revisions' = PutRevision(revisions, plan) /\ PublishDelta(Delta(named))
      /\ handler' = IF plan.kind THEN NoHandler ELSE [pc |-> "put again", plan |-> named]
      /\ UNCHANGED <<row, log, taskEvents, watching, burst, visits, rpc, current, snaps, notices, history>>
  BY DEF PersistRevision, Published, browser
<1>2. /\ plan \in Plan /\ PlanTrue(plan) /\ plan.revision = Len(log) - 1 /\ Len(revisions) \in {Len(log), Len(log) - 1}
      /\ revisions \in Seq(Plan) /\ queue \in Seq(Frames) /\ Len(log) \in Nat /\ InOrder(revisions)
  <2>1. revisions \in Seq(Plan) /\ queue \in Seq(Frames) /\ log \in Seq(Plan)
    BY DEF PlanInv, PlanTypes
  <2>2. handler.pc # "idle"
    BY <1>1
  <2>3. /\ plan \in Plan /\ plan.revision = Len(log) - 1 /\ Len(revisions) \in {Len(log), Len(log) - 1}
        /\ InOrder(revisions)
    BY <2>2 DEF PlanInv, Tables
  <2>4. PlanTrue(plan)
    BY <2>2 DEF PlanInv, PlansTrue
  <2> QED
    BY <2>1, <2>3, <2>4
<1>3. /\ named \in Plan /\ named.kind /\ named.revision = plan.revision /\ Structure(named) = Structure(plan)
      /\ Delta(named) \in Frames /\ Delta(named).kind = "plan" /\ Delta(named).plan = named
  <2> HIDE DEF plan
  <2>1. named \in Plan /\ named.kind /\ named.revision = plan.revision
    BY <1>2, KindTyped DEF plan
  <2>2. Structure(named) = Structure(plan)
    BY StructureNamed DEF plan
  <2> HIDE DEF named
  <2> QED
    BY <2>1, <2>2, DeltaFacts
<1>4. PlanTrue(named)
  BY <1>2, <1>3 DEF PlanTrue
<1>5. handler'.pc \in {"idle", "put again"} /\ (handler'.pc = "put again" => handler'.plan = named)
      /\ handler' \in [pc : Pcs, plan : Plan \union {NoPlan}]
  BY <1>1, <1>3 DEF NoHandler, Pcs
<1> HIDE DEF plan, named
<1>6. /\ revisions' \in Seq(Plan) /\ Len(revisions') = Len(log)
      /\ \A i \in DOMAIN revisions' : \/ i = Len(log) /\ revisions'[i] = plan
                                      \/ i \in DOMAIN revisions /\ revisions'[i] = revisions[i]
  <2>1. CASE Len(revisions) = Len(log)
    <3>1. PlanTrue(plan) => Len(log) \in DOMAIN revisions
      BY <1>2, <2>1 DEF PlanTrue
    <3>2. plan.revision < Len(revisions) /\ plan.revision + 1 = Len(log)
      BY <1>2, <2>1
    <3>3. revisions' = [revisions EXCEPT ![Len(log)] = plan]
      BY <1>1, <3>2 DEF PutRevision
    <3> QED
      BY <1>2, <2>1, <3>1, <3>3
  <2>2. CASE Len(revisions) = Len(log) - 1
    <3>a. ~(plan.revision < Len(revisions))
      BY <1>2, <2>2
    <3>1. revisions' = Append(revisions, plan)
      BY <1>1, <3>a DEF PutRevision
    <3> QED
      BY <1>2, <2>2, <3>1
  <2> QED
    BY <1>2, <2>1, <2>2
<1>7. /\ queue' \in Seq(Frames)
      /\ \A i \in DOMAIN queue' : queue'[i] = Delta(named) \/ (i \in DOMAIN queue /\ queue'[i] = queue[i])
  BY <1>1, <1>2, <1>3, PublishFacts
<1>8. PlanTypes'
  BY <1>1, <1>5, <1>6, <1>7 DEF PlanInv, PlanTypes
<1>9. Tables'
  <2>1. InOrder(revisions)'
    BY <1>2, <1>6 DEF InOrder
  <2> QED
    BY <1>1, <1>2, <1>3, <1>5, <1>6, <2>1 DEF PlanInv, Tables, InOrder
<1>10. PlansTrue'
  <2>1. \A p : PlanTrue(p) => PlanTrue(p)'
    BY <1>1 DEF PlanTrue
  <2>2. \A i \in DOMAIN revisions' : PlanTrue(revisions'[i])
    BY <1>2, <1>6 DEF PlanInv, PlansTrue
  <2>3. \A i \in DOMAIN queue' : queue'[i].kind = "plan" => PlanTrue(queue'[i].plan) /\ queue'[i].plan.kind
    BY <1>3, <1>4, <1>7 DEF PlanInv, PlansTrue, FramesTrue
  <2>4. handler'.pc # "idle" => PlanTrue(handler'.plan)
    BY <1>4, <1>5
  <2> QED
    BY <1>1, <2>1, <2>2, <2>3, <2>4 DEF PlanInv, PlansTrue, FramesTrue, RecTrue
<1>11. HistorySorted' /\ Kept'
  BY <1>1 DEF PlanInv, HistorySorted, Kept
<1> QED
  BY <1>8, <1>9, <1>10, <1>11 DEF PlanInv

LEMMA TaskEventStep == PlanInv /\ TaskEvent => PlanInv'
<1> SUFFICES ASSUME PlanInv, TaskEvent PROVE PlanInv'
  OBVIOUS
<1>1. PICK t \in TaskIds(row), n \in 2..3 :
        row' = WithStatus(row, t, StatusOrder[n]) /\ PublishDelta(TaskDelta(t, StatusOrder[n]))
  BY DEF TaskEvent
<1>2. /\ handler.pc = "idle" /\ row # NoPlan /\ taskEvents' = taskEvents + 1
      /\ UNCHANGED <<revisions, log, handler, watching, burst, visits, rpc, current, snaps, notices, history>>
  BY DEF TaskEvent, browser
<1> DEFINE st == StatusOrder[n]
           f == TaskDelta(t, st)
<1>3. row \in Plan /\ queue \in Seq(Frames) /\ st \in {"PENDING", "RUNNING", "COMPLETED"} /\ PlanTrue(row)
  BY <1>2 DEF PlanInv, PlanTypes, PlansTrue, StatusOrder
<1>4. t \in TaskId
  BY <1>3, TaskIdsTyped
<1> HIDE DEF st
<1>5. f \in Frames /\ f.kind = "task"
  BY <1>3, <1>4, DeltaFacts
<1> HIDE DEF f
<1>6. /\ queue' \in Seq(Frames)
      /\ \A i \in DOMAIN queue' : queue'[i] = f \/ (i \in DOMAIN queue /\ queue'[i] = queue[i])
  <2>1. PublishDelta(f)
    BY <1>1 DEF f, st
  <2> QED
    BY <1>3, <1>5, <2>1, PublishFacts
<1>7. row' \in Plan /\ row'.revision = row.revision /\ Structure(row') = Structure(row)
  <2>1. row' = WithStatus(row, t, st)
    BY <1>1 DEF st
  <2> QED
    BY <1>3, <2>1, WithStatusTyped, StructureKept
<1>8. PlanTypes'
  BY <1>2, <1>6, <1>7 DEF PlanInv, PlanTypes
<1>9. Tables'
  BY <1>2 DEF PlanInv, Tables, InOrder
<1>10. PlansTrue'
  <2>1. \A p : PlanTrue(p) => PlanTrue(p)'
    BY <1>2 DEF PlanTrue
  <2>2. PlanTrue(row')
    BY <1>3, <1>7 DEF PlanTrue
  <2>3. \A i \in DOMAIN queue' : queue'[i].kind = "plan" => PlanTrue(queue'[i].plan) /\ queue'[i].plan.kind
    BY <1>5, <1>6 DEF PlanInv, PlansTrue, FramesTrue
  <2> QED
    BY <1>2, <2>1, <2>2, <2>3 DEF PlanInv, PlansTrue, FramesTrue, RecTrue
<1>11. HistorySorted' /\ Kept'
  BY <1>2 DEF PlanInv, HistorySorted, Kept
<1> QED
  BY <1>8, <1>9, <1>10, <1>11 DEF PlanInv
-----------------------------------------------------------------------------
(* The stream, the RPC and the browser.                                    *)
LEMMA BurstFacts ==
  ASSUME NEW plan \in Plan
  PROVE  /\ BurstOf(plan) \in Seq(Frames)
         /\ \A i \in DOMAIN BurstOf(plan) : BurstOf(plan)[i].kind = "plan" => BurstOf(plan)[i].plan = plan
<1> DEFINE b == BurstOf(plan)
<1>1. b \in Seq(Frames) /\ Len(b) >= 1 /\ b[1] = Delta(plan) /\ \A i \in 2 .. Len(b) : b[i] \in TaskFrames
  BY BurstReplays DEF Replays
<1> HIDE DEF b
<1>2. ASSUME NEW i \in DOMAIN b, b[i].kind = "plan" PROVE b[i].plan = plan
  <2>1. i = 1 \/ i \in 2 .. Len(b)
    BY <1>1
  <2>2. i = 1
    BY <1>1, <1>2, <2>1 DEF TaskFrames
  <2> QED
    BY <1>1, <2>2 DEF Delta
<1> QED
  BY <1>1, <1>2 DEF b

LEMMA StreamSteps ==
  ASSUME PlanInv, OpenSession \/ ReplayPlans \/ LeaveSession
  PROVE  PlanInv'
<1>1. UNCHANGED <<row, revisions, log, handler, taskEvents, rpc, current, snaps, notices, history>>
  BY DEF OpenSession, ReplayPlans, LeaveSession, serverVars, browser
<1>2. visits \in 0..MaxVisits /\ MaxVisits \in Nat
  BY RevisionsAssumption DEF PlanInv, PlanTypes
<1>3. watching' \in {"closed", "session", "tail"} /\ visits' \in 0..MaxVisits
  <2>1. CASE OpenSession
    BY <1>2, <2>1 DEF OpenSession
  <2>2. CASE ReplayPlans \/ LeaveSession
    BY <1>2, <2>2 DEF ReplayPlans, LeaveSession
  <2> QED
    BY <2>1, <2>2
<1>4. queue' = queue \/ queue' = <<>>
  BY DEF OpenSession, ReplayPlans, LeaveSession
<1>5. \/ burst' = burst \/ burst' = <<>>
      \/ row \in Plan /\ burst' = BurstOf(row)
  BY DEF OpenSession, ReplayPlans, LeaveSession, BurstOf, PlanInv, PlanTypes
<1>6. burst' \in Seq(Frames) /\ \A i \in DOMAIN burst' : burst'[i].kind = "plan" => PlanTrue(burst'[i].plan)
  <2>1. CASE burst' = burst
    BY <2>1 DEF PlanInv, PlanTypes, PlansTrue, FramesTrue
  <2>3. CASE burst' = <<>>
    BY <2>3
  <2>2. CASE row \in Plan /\ burst' = BurstOf(row)
    BY <2>2, BurstFacts, RevisionsAssumption DEF PlanInv, PlansTrue
  <2> QED
    BY <1>5, <2>1, <2>2, <2>3
<1>7. queue' \in Seq(Frames) /\ \A i \in DOMAIN queue' : queue'[i].kind = "plan" => PlanTrue(queue'[i].plan) /\ queue'[i].plan.kind
  <2>1. CASE queue' = queue
    BY <2>1 DEF PlanInv, PlanTypes, PlansTrue, FramesTrue
  <2>2. CASE queue' = <<>>
    BY <2>2
  <2> QED
    BY <1>4, <2>1, <2>2
<1>8. PlanTypes'
  BY <1>1, <1>3, <1>6, <1>7 DEF PlanInv, PlanTypes
<1>9. Tables'
  BY <1>1 DEF PlanInv, Tables, InOrder
<1>10. PlansTrue'
  BY <1>1, <1>6, <1>7 DEF PlanInv, PlansTrue, PlanTrue, FramesTrue, RecTrue
<1>11. HistorySorted' /\ Kept'
  BY <1>1 DEF PlanInv, HistorySorted, Kept
<1> QED
  BY <1>8, <1>9, <1>10, <1>11 DEF PlanInv

LEMMA RpcSteps ==
  ASSUME PlanInv, CallPlanHistory \/ ListRevisions \/ BackfillRevisions \/ RpcFails
  PROVE  PlanInv'
<1>1. UNCHANGED <<row, log, handler, taskEvents, watching, burst, queue, visits, current, snaps, notices, history>>
  BY DEF CallPlanHistory, ListRevisions, BackfillRevisions, RpcFails, serverVars, stream, browser
<1>2. rpc \in [state : States, answer : Seq(Plan)] /\ revisions \in Seq(Plan) /\ log \in Seq(Plan)
  BY DEF PlanInv, PlanTypes
<1>3. rpc' \in [state : States, answer : Seq(Plan)] /\ rpc'.answer \in {rpc.answer, revisions, log, <<>>}
  <2>1. CASE CallPlanHistory
    BY <1>2, <2>1 DEF CallPlanHistory, States
  <2>2. CASE ListRevisions
    BY <1>2, <2>2 DEF ListRevisions, States
  <2>3. CASE BackfillRevisions
    BY <1>2, <2>3 DEF BackfillRevisions, States
  <2>4. CASE RpcFails
    BY <1>2, <2>4 DEF RpcFails, States
  <2> QED
    BY <2>1, <2>2, <2>3, <2>4
<1>4. revisions' \in {revisions, log}
  BY DEF CallPlanHistory, ListRevisions, BackfillRevisions, RpcFails, serverVars
<1>5. PlanTypes'
  BY <1>1, <1>2, <1>3, <1>4 DEF PlanInv, PlanTypes
<1>6. Tables'
  <2>1. InOrder(rpc.answer) /\ InOrder(revisions) /\ InOrder(log) /\ InOrder(<<>>)
    BY EmptyInOrder DEF PlanInv, Tables
  <2>2. InOrder(rpc'.answer) /\ InOrder(revisions') /\ InOrder(log')
    BY <1>1, <1>3, <1>4, <2>1
  <2> QED
    BY <1>1, <1>4, <2>2 DEF PlanInv, Tables, InOrder
<1>7. PlansTrue'
  <2>1. ASSUME NEW i \in DOMAIN log PROVE PlanTrue(log[i])
    <3>1. log[i].revision = i - 1
      BY DEF PlanInv, Tables, InOrder
    <3>2. i - 1 + 1 = i
      BY <1>2
    <3> QED
      BY <3>1, <3>2 DEF PlanTrue
  <2>2. \A i \in DOMAIN revisions' : PlanTrue(revisions'[i])
    BY <1>4, <2>1 DEF PlanInv, PlansTrue
  <2>3. \A i \in DOMAIN rpc'.answer : PlanTrue(rpc'.answer[i])
    BY <1>3, <2>1 DEF PlanInv, PlansTrue
  <2>4. \A p : PlanTrue(p) => PlanTrue(p)'
    BY <1>1 DEF PlanTrue
  <2> QED
    BY <1>1, <2>2, <2>3, <2>4 DEF PlanInv, PlansTrue, FramesTrue, RecTrue
<1>8. HistorySorted' /\ Kept'
  BY <1>1 DEF PlanInv, HistorySorted, Kept
<1> QED
  BY <1>5, <1>6, <1>7, <1>8 DEF PlanInv

LEMMA RecordFacts ==
  ASSUME NEW p \in Plan, PlanTrue(p), NEW source \in {"rpc", "burst", "delta"}, source = "delta" => p.kind
  PROVE  /\ Record(p, source) \in Rec /\ RecTrue(Record(p, source))
         /\ Record(p, source).revision = p.revision /\ Record(p, source).source = source
<1>1. p.revision \in Nat
  BY DEF Plan
<1> QED
  BY <1>1 DEF Record, Rec, RecTrue

(* The answer of the RPC, as records: the revisions from 0 on.             *)
LEMMA LoadedRecords ==
  ASSUME PlanInv
  PROVE  LET recs == [i \in DOMAIN rpc.answer |-> Record(rpc.answer[i], "rpc")] IN
         /\ recs \in Seq(Rec) /\ DOMAIN recs = 1..Len(rpc.answer) /\ Len(rpc.answer) \in Nat
         /\ \A i \in DOMAIN recs : RecTrue(recs[i]) /\ recs[i].revision = i - 1 /\ recs[i].source = "rpc"
<1> DEFINE recs == [i \in DOMAIN rpc.answer |-> Record(rpc.answer[i], "rpc")]
<1>1. /\ rpc.answer \in Seq(Plan) /\ DOMAIN rpc.answer = 1..Len(rpc.answer) /\ Len(rpc.answer) \in Nat
      /\ \A i \in DOMAIN rpc.answer : PlanTrue(rpc.answer[i]) /\ rpc.answer[i].revision = i - 1
  <2>1. rpc.answer \in Seq(Plan)
    BY DEF PlanInv, PlanTypes
  <2>2. \A i \in DOMAIN rpc.answer : PlanTrue(rpc.answer[i])
    BY DEF PlanInv, PlansTrue
  <2>3. \A i \in DOMAIN rpc.answer : rpc.answer[i].revision = i - 1
    BY DEF PlanInv, Tables, InOrder
  <2> QED
    BY <2>1, <2>2, <2>3
<1>2. \A i \in DOMAIN rpc.answer : /\ recs[i] \in Rec /\ RecTrue(recs[i])
                                   /\ recs[i].revision = i - 1 /\ recs[i].source = "rpc"
  BY <1>1, RecordFacts
<1>3. recs = [i \in 1..Len(rpc.answer) |-> recs[i]] /\ DOMAIN recs = 1..Len(rpc.answer)
  BY <1>1
<1> HIDE DEF recs
<1>4. recs \in Seq(Rec)
  <2>1. \A i \in 1..Len(rpc.answer) : recs[i] \in Rec
    BY <1>1, <1>2
  <2>2. recs \in [1..Len(rpc.answer) -> Rec]
    BY <1>3, <2>1, Zenon
  <2> QED
    BY <1>1, <2>2
<1> QED
  BY <1>1, <1>2, <1>3, <1>4 DEF recs

LEMMA LoadStep == PlanInv /\ LoadPlanHistory => PlanInv'
<1> SUFFICES ASSUME PlanInv, LoadPlanHistory PROVE PlanInv'
  OBVIOUS
<1> DEFINE recs == [i \in DOMAIN rpc.answer |-> Record(rpc.answer[i], "rpc")]
<1>1. /\ rpc' = [state |-> "loaded", answer |-> <<>>] /\ history' = AppendAll(history, recs)
      /\ UNCHANGED <<row, revisions, log, handler, taskEvents, watching, burst, queue, visits, current, snaps, notices>>
  BY DEF LoadPlanHistory, serverVars, stream
<1>2. rpc.answer \in Seq(Plan) /\ history \in Seq(Rec) /\ Sorted(history)
      /\ \A i \in DOMAIN rpc.answer : PlanTrue(rpc.answer[i])
  BY DEF PlanInv, PlanTypes, Sorted, HistorySorted, PlansTrue
<1>3. recs \in Seq(Rec) /\ \A i \in DOMAIN recs : RecTrue(recs[i])
  BY LoadedRecords
<1> HIDE DEF recs
<1>5. history' \in Seq(Rec) /\ Sorted(history') /\ Grown(history, history', {recs[i] : i \in DOMAIN recs})
  BY <1>1, <1>2, <1>3, AppendAllProperties
<1>6. \A i \in DOMAIN history' : RecTrue(history'[i])
  BY <1>3, <1>5 DEF Grown, PlanInv, PlansTrue
<1>7. PlanTypes'
  BY <1>1, <1>5 DEF PlanInv, PlanTypes, States
<1>8. Tables'
  <2>1. rpc'.answer = <<>>
    BY <1>1
  <2> QED
    BY <1>1, <2>1, EmptyInOrder DEF PlanInv, Tables, InOrder
<1>9. PlansTrue'
  <2>1. \A p : PlanTrue(p) => PlanTrue(p)'
    BY <1>1 DEF PlanTrue
  <2>2. \A i \in DOMAIN history' : RecTrue(history[i])'
    BY <1>6, <2>1 DEF RecTrue
  <2> QED
    BY <1>1, <2>1, <2>2 DEF PlanInv, PlansTrue, FramesTrue
<1>10. HistorySorted' /\ Kept'
  BY <1>1, <1>5 DEF PlanInv, HistorySorted, Kept, Sorted
<1> QED
  BY <1>7, <1>8, <1>9, <1>10 DEF PlanInv

LEMMA TailProp ==
  ASSUME NEW s \in Seq(Nat), s # <<>>
  PROVE  Tail(s) \in Seq(Nat) /\ Len(Tail(s)) = Len(s) - 1
  OBVIOUS

LEMMA TailFacts ==
  ASSUME NEW s \in Seq(Frames), s # <<>>
  PROVE  /\ 1 \in DOMAIN s /\ Head(s) = s[1] /\ Head(s) \in Frames
         /\ Tail(s) \in Seq(Frames) /\ Len(Tail(s)) = Len(s) - 1 /\ Len(s) \in Nat /\ Len(s) >= 1
         /\ \A i \in DOMAIN Tail(s) : i + 1 \in DOMAIN s /\ Tail(s)[i] = s[i + 1]
<1>1. Len(s) \in Nat /\ Len(s) >= 1 /\ DOMAIN s = 1..Len(s)
  OBVIOUS
<1>2. Tail(s) \in Seq(Frames) /\ Len(Tail(s)) = Len(s) - 1
  OBVIOUS
<1>3. \A i \in DOMAIN Tail(s) : i + 1 \in DOMAIN s /\ Tail(s)[i] = s[i + 1]
  BY <1>1, <1>2
<1> QED
  BY <1>1, <1>2, <1>3

(* A frame that is read leaves the registries typed, sorted and true.      *)
LEMMA ReadFrameFacts ==
  ASSUME PlanInv, NEW f \in Frames, NEW source \in {"burst", "delta"}, ReadFrame(f, source),
         f.kind = "plan" => PlanTrue(f.plan) /\ (source = "delta" => f.plan.kind)
  PROVE  /\ current' \in Plan \union {NoPlan} /\ snaps' \in Seq(Plan) /\ notices' \in Seq(Nat)
         /\ history' \in Seq(Rec) /\ HistorySorted' /\ Kept'
         /\ \A i \in DOMAIN history' : RecTrue(history'[i])
<1>1. /\ current \in Plan \union {NoPlan} /\ snaps \in Seq(Plan) /\ notices \in Seq(Nat) /\ history \in Seq(Rec)
      /\ Sorted(history) /\ Kept /\ \A i \in DOMAIN history : RecTrue(history[i])
  BY DEF PlanInv, PlanTypes, HistorySorted, Sorted, PlansTrue
<1>2. CASE f.kind = "plan"
  <2>1. /\ f.plan \in Plan /\ current' = f.plan /\ snaps' = Snapshots(snaps, current, f.plan)
        /\ notices' = Notices(notices, f.plan, MaxNotices)
        /\ history' = AppendRecord(history, Record(f.plan, source))
    BY <1>2, FrameFacts DEF ReadFrame, ApplyPlan
  <2>2. /\ history' \in Seq(Rec) /\ Sorted(history') /\ \A i \in DOMAIN history' : RecTrue(history'[i])
    <3>1. Record(f.plan, source) \in Rec /\ RecTrue(Record(f.plan, source))
      BY <1>2, <2>1, RecordFacts
    <3>2. history' \in Seq(Rec) /\ Sorted(history') /\ Grown(history, history', {Record(f.plan, source)})
      BY <1>1, <2>1, <3>1, AppendRecordProperties
    <3> QED
      BY <1>1, <3>1, <3>2 DEF Grown
  <2>3. snaps' \in Seq(Plan)
    BY <1>1, <2>1 DEF Snapshots
  <2>4. notices' \in Seq(Nat) /\ Len(notices') <= MaxNotices
    <3>1. f.plan.revision \in Nat /\ MaxNotices \in Nat
      BY <2>1, RevisionsAssumption DEF Plan
    <3> DEFINE longer == Append(notices, f.plan.revision)
    <3>2. longer \in Seq(Nat) /\ longer # <<>> /\ Len(longer) = Len(notices) + 1 /\ Len(longer) \in Nat
      BY <1>1, <3>1
    <3>3. Tail(longer) \in Seq(Nat) /\ Len(Tail(longer)) = Len(notices)
      BY <1>1, <3>2, TailProp
    <3>4. notices' \in {notices, longer, Tail(longer)} /\ (notices' = longer => notices' = notices \/ Len(longer) <= MaxNotices)
      BY <2>1, <3>1, <3>2 DEF Notices
    <3> HIDE DEF longer
    <3> QED
      BY <1>1, <3>2, <3>3, <3>4 DEF Kept
  <2>5. current' # NoPlan
    BY <2>1, RevisionsAssumption
  <2> QED
    BY <2>1, <2>2, <2>3, <2>4, <2>5 DEF HistorySorted, Sorted, Kept
<1>3. CASE f.kind = "task"
  <2>1. /\ current' = IF current = NoPlan THEN NoPlan ELSE WithStatus(current, f.id, f.status)
        /\ history' = history /\ snaps' = snaps /\ notices' = notices
        /\ f.status \in {"PENDING", "RUNNING", "COMPLETED"}
    BY <1>3, FrameFacts DEF ReadFrame, ApplyTask, KeepRecords
  <2>2. current' \in Plan \union {NoPlan} /\ (current # NoPlan => current' # NoPlan)
    BY <1>1, <2>1, WithStatusTyped, RevisionsAssumption
  <2> QED
    BY <1>1, <2>1, <2>2 DEF HistorySorted, Sorted, Kept
<1> QED
  BY <1>2, <1>3, FrameFacts

LEMMA ReadSteps ==
  ASSUME PlanInv, ReadBurst \/ ReadDelta
  PROVE  PlanInv'
<1>1. UNCHANGED <<row, revisions, log, handler, taskEvents, watching, visits, rpc>>
  BY DEF ReadBurst, ReadDelta, serverVars
<1>2. burst \in Seq(Frames) /\ queue \in Seq(Frames)
  BY DEF PlanInv, PlanTypes
<1>3. \/ queue' = queue /\ burst # <<>> /\ burst' = Tail(burst)
      \/ burst' = burst /\ queue # <<>> /\ queue' = Tail(queue)
  BY DEF ReadBurst, ReadDelta
<1>4. /\ burst' \in Seq(Frames) /\ queue' \in Seq(Frames)
      /\ \A i \in DOMAIN burst' : \E j \in DOMAIN burst : burst'[i] = burst[j]
      /\ \A i \in DOMAIN queue' : \E j \in DOMAIN queue : queue'[i] = queue[j]
  <2>1. \A q \in Seq(Frames) : q # <<>> =>
          Tail(q) \in Seq(Frames) /\ \A i \in DOMAIN Tail(q) : \E j \in DOMAIN q : Tail(q)[i] = q[j]
    BY TailFacts
  <2>2. CASE queue' = queue /\ burst # <<>> /\ burst' = Tail(burst)
    BY <1>2, <2>1, <2>2
  <2>3. CASE burst' = burst /\ queue # <<>> /\ queue' = Tail(queue)
    BY <1>2, <2>1, <2>3
  <2> QED
    BY <1>3, <2>2, <2>3
<1>5. /\ current' \in Plan \union {NoPlan} /\ snaps' \in Seq(Plan) /\ notices' \in Seq(Nat)
      /\ history' \in Seq(Rec) /\ HistorySorted' /\ Kept'
      /\ \A i \in DOMAIN history' : RecTrue(history'[i])
  <2>1. CASE ReadBurst
    <3>1. 1 \in DOMAIN burst /\ Head(burst) = burst[1] /\ Head(burst) \in Frames
      BY <1>2, <2>1, TailFacts DEF ReadBurst
    <3>2. ReadFrame(Head(burst), "burst") /\ (Head(burst).kind = "plan" => PlanTrue(Head(burst).plan))
      BY <2>1, <3>1 DEF ReadBurst, PlanInv, PlansTrue, FramesTrue
    <3> QED
      BY <3>1, <3>2, ReadFrameFacts
  <2>2. CASE ReadDelta
    <3>1. 1 \in DOMAIN queue /\ Head(queue) = queue[1] /\ Head(queue) \in Frames
      BY <1>2, <2>2, TailFacts DEF ReadDelta
    <3>2. ReadFrame(Head(queue), "delta")
          /\ (Head(queue).kind = "plan" => PlanTrue(Head(queue).plan) /\ Head(queue).plan.kind)
      BY <2>2, <3>1 DEF ReadDelta, PlanInv, PlansTrue, FramesTrue
    <3> QED
      BY <3>1, <3>2, ReadFrameFacts
  <2> QED
    BY <2>1, <2>2
<1>6. PlanTypes'
  BY <1>1, <1>4, <1>5 DEF PlanInv, PlanTypes
<1>7. Tables'
  BY <1>1 DEF PlanInv, Tables, InOrder
<1>8. PlansTrue'
  <2>1. \A p : PlanTrue(p) => PlanTrue(p)'
    BY <1>1 DEF PlanTrue
  <2>2. \A i \in DOMAIN history' : RecTrue(history[i])'
    BY <1>5, <2>1 DEF RecTrue
  <2>3. /\ \A i \in DOMAIN burst' : burst'[i].kind = "plan" => PlanTrue(burst'[i].plan)
        /\ \A i \in DOMAIN queue' : queue'[i].kind = "plan" => PlanTrue(queue'[i].plan) /\ queue'[i].plan.kind
    BY <1>4 DEF PlanInv, PlansTrue, FramesTrue
  <2> QED
    BY <1>1, <2>1, <2>2, <2>3 DEF PlanInv, PlansTrue, FramesTrue
<1> QED
  BY <1>5, <1>6, <1>7, <1>8 DEF PlanInv

LEMMA NextPlanInv == PlanInv /\ [PlansNext]_planVars => PlanInv'
<1> SUFFICES ASSUME PlanInv, [PlansNext]_planVars PROVE PlanInv'
  OBVIOUS
<1>1. CASE UNCHANGED planVars
  <2>1. UNCHANGED <<row, revisions, log, handler, taskEvents, watching, burst, queue, visits, rpc, current, snaps,
                    notices, history>>
    BY <1>1 DEF planVars, serverVars, stream, browser
  <2>2. PlanTypes'
    BY <2>1 DEF PlanInv, PlanTypes
  <2>3. Tables'
    BY <2>1 DEF PlanInv, Tables, InOrder
  <2>4. PlansTrue'
    BY <2>1 DEF PlanInv, PlansTrue, PlanTrue, FramesTrue, RecTrue
  <2>5. HistorySorted' /\ Kept'
    BY <2>1 DEF PlanInv, HistorySorted, Kept
  <2> QED
    BY <2>2, <2>3, <2>4, <2>5 DEF PlanInv
<1>2. CASE (\E inline \in BOOLEAN : PlanEvent(inline)) \/ TaskEvent \/ PutTaskPlan \/ PersistRevision
  BY <1>2, PlanEventStep, PutTaskPlanStep, PersistRevisionStep, TaskEventStep
<1>3. CASE OpenSession \/ ReplayPlans \/ LeaveSession \/ ReadBurst \/ ReadDelta
  BY <1>3, StreamSteps, ReadSteps
<1>4. CASE CallPlanHistory \/ ListRevisions \/ BackfillRevisions \/ RpcFails \/ LoadPlanHistory
  BY <1>4, RpcSteps, LoadStep
<1> QED
  BY <1>1, <1>2, <1>3, <1>4 DEF PlansNext

LEMMA PlanInvImplies == PlanInv => HistoryFaithful
<1> SUFFICES ASSUME PlanInv PROVE HistoryFaithful
  OBVIOUS
<1>1. PlansTypeOK
  <2>1. Len(revisions) \in {Len(log), Len(log) - 1}
    BY DEF PlanInv, Tables
  <2> QED
    BY <2>1 DEF PlanInv, PlanTypes, Tables, InOrder, Kept, PlansTypeOK, Pcs, States
<1>2. HistoryTruthful
  <2> SUFFICES ASSUME NEW i \in DOMAIN history
               PROVE  /\ history[i].revision < Len(log)
                      /\ Structure(history[i].plan) = Structure(log[history[i].revision + 1])
    BY DEF HistoryTruthful
  <2>1. RecTrue(history[i]) /\ history[i].revision \in Nat /\ log \in Seq(Plan)
    BY RecFacts DEF PlanInv, PlanTypes, PlansTrue
  <2> QED
    BY <2>1 DEF RecTrue, PlanTrue
<1>3. DeltasNameKinds
  BY DEF DeltasNameKinds, PlanInv, PlansTrue, RecTrue
<1> QED
  BY <1>1, <1>2, <1>3 DEF PlanInv, HistoryFaithful

(* Whatever order the answer, the burst and the deltas come in, the        *)
(* history is sorted and true to the plans (PlanHistoryRegistry.append).   *)
THEOREM HistoryIsFaithful == PlansSpec => []HistoryFaithful
BY InitPlanInv, NextPlanInv, PlanInvImplies, PTL DEF PlansSpec
-----------------------------------------------------------------------------
(* Where a revision that the history lacks is still to come from.          *)
Brings(q, r) == \E i \in DOMAIN q : q[i].kind = "plan" /\ q[i].plan.revision = r
Coming(r) ==
  \/ Has(history, r) \/ Brings(burst, r) \/ Brings(queue, r)
  \/ rpc.state \in {"listed", "answered"} /\ r < Len(rpc.answer)
  \/ handler.pc \in {"put", "persist"} /\ r = Len(log) - 1
AllComing ==
  visits = 1 /\ watching # "closed" /\ rpc.state \in {"listed", "answered", "loaded"} =>
    \A r \in 0..(Len(log) - 1) : Coming(r)
Streams ==
  /\ visits = 0 => watching = "closed" /\ rpc.state = "unused"
  /\ watching # "tail" => burst = <<>>
  /\ watching = "closed" => queue = <<>>
ComingInv == AllComing /\ Streams

LEMMA InitComingInv == PlansInit => ComingInv
BY DEF PlansInit, ComingInv, AllComing, Streams

LEMMA BringsMore ==
  ASSUME NEW q \in Seq(Frames), NEW f \in Frames
  PROVE  /\ \A r : Brings(q, r) => Brings(Append(q, f), r)
         /\ f.kind = "plan" => Brings(Append(q, f), f.plan.revision)
<1>1. /\ DOMAIN Append(q, f) = 1..(Len(q) + 1) /\ DOMAIN q = 1..Len(q) /\ Len(q) \in Nat
      /\ Append(q, f)[Len(q) + 1] = f /\ \A i \in 1..Len(q) : Append(q, f)[i] = q[i]
  OBVIOUS
<1>2. \A i \in 1..Len(q) : i \in 1..(Len(q) + 1)
  BY <1>1
<1>3. Len(q) + 1 \in 1..(Len(q) + 1)
  BY <1>1
<1> QED
  BY <1>1, <1>2, <1>3 DEF Brings

LEMMA BringsHead ==
  ASSUME NEW q \in Seq(Frames), q # <<>>, NEW r, Brings(q, r)
  PROVE  Brings(Tail(q), r) \/ (Head(q).kind = "plan" /\ Head(q).plan.revision = r)
<1>1. PICK i \in DOMAIN q : q[i].kind = "plan" /\ q[i].plan.revision = r
  BY DEF Brings
<1>2. CASE i = 1
  BY <1>1, <1>2, TailFacts
<1>3. CASE i # 1
  <2>1. i - 1 \in DOMAIN Tail(q) /\ Tail(q)[i - 1] = q[i]
    <3>1. Len(Tail(q)) = Len(q) - 1 /\ Len(q) \in Nat /\ Tail(q) \in Seq(Frames)
      BY TailFacts
    <3>2. i - 1 \in 1..Len(Tail(q)) /\ i - 1 + 1 = i
      BY <1>1, <1>3, <3>1
    <3> QED
      BY <3>1, <3>2, TailFacts
  <2> QED
    BY <1>1, <2>1 DEF Brings
<1> QED
  BY <1>2, <1>3

(* A plan frame that is read gets its revision into the history.           *)
LEMMA ReadHas ==
  ASSUME PlanInv, NEW f \in Frames, NEW source \in {"burst", "delta"}, ReadFrame(f, source),
         f.kind = "plan" => PlanTrue(f.plan) /\ (source = "delta" => f.plan.kind)
  PROVE  /\ \A r : Has(history, r) => Has(history', r)
         /\ f.kind = "plan" => Has(history', f.plan.revision)
         /\ f.kind = "plan" => Grown(history, history', {Record(f.plan, source)})
         /\ f.kind = "task" => history' = history
<1>1. history \in Seq(Rec) /\ Sorted(history)
  BY DEF PlanInv, PlanTypes, HistorySorted, Sorted
<1>2. CASE f.kind = "plan"
  <2>1. f.plan \in Plan /\ history' = AppendRecord(history, Record(f.plan, source))
    BY <1>2, FrameFacts DEF ReadFrame, ApplyPlan
  <2>2. Record(f.plan, source) \in Rec /\ Record(f.plan, source).revision = f.plan.revision
    BY <1>2, <2>1, RecordFacts
  <2>3. Grown(history, history', {Record(f.plan, source)}) /\ Has(history', f.plan.revision)
    BY <1>1, <2>1, <2>2, AppendRecordProperties
  <2> QED
    BY <1>2, <2>3, GrownHas
<1>3. CASE f.kind = "task"
  BY <1>3 DEF ReadFrame, ApplyTask, KeepRecords
<1> QED
  BY <1>2, <1>3, FrameFacts

LEMMA ServerComing ==
  ASSUME PlanInv, ComingInv, (\E inline \in BOOLEAN : PlanEvent(inline)) \/ PutTaskPlan \/ PersistRevision \/ TaskEvent
  PROVE  ComingInv'
<1>1. UNCHANGED <<watching, burst, visits, rpc, history>>
  BY DEF PlanEvent, PutTaskPlan, PersistRevision, TaskEvent, stream, browser
<1>2. queue \in Seq(Frames) /\ log \in Seq(Plan) /\ Len(log) \in Nat /\ row \in Plan \union {NoPlan}
  BY DEF PlanInv, PlanTypes
<1>3. ASSUME watching # "closed", \A r \in 0..(Len(log) - 1) : Coming(r)
      PROVE  \A r \in 0..(Len(log') - 1) : Coming(r)'
  <2>1. CASE \E inline \in BOOLEAN : PlanEvent(inline)
    <3>1. handler.pc = "idle" /\ handler'.pc = "put" /\ queue' = queue /\ \E x : log' = Append(log, x)
      BY <2>1 DEF PlanEvent, stream
    <3>2. Len(log') = Len(log) + 1
      BY <1>2, <3>1
    <3>3. \A r \in 0..(Len(log') - 1) : r \in 0..(Len(log) - 1) \/ r = Len(log') - 1
      BY <1>2, <3>2
    <3> QED
      BY <1>1, <1>3, <3>1, <3>3 DEF Coming
  <2>2. CASE PutTaskPlan
    <3>1. queue' = queue /\ log' = log /\ (handler.pc \in {"put", "persist"} => handler'.pc \in {"put", "persist"})
      BY <2>2 DEF PutTaskPlan, stream, PlanInv, PlanTypes
    <3> QED
      BY <1>1, <1>3, <3>1 DEF Coming
  <2>3. CASE PersistRevision
    <3> DEFINE named == [handler.plan EXCEPT !.kind = TRUE]
    <3>1. log' = log /\ queue' = Append(queue, Delta(named)) /\ handler.plan \in Plan /\ handler.plan.revision = Len(log) - 1
      BY <1>3, <2>3 DEF PersistRevision, PublishDelta, Published, PlanInv, Tables
    <3>2. named \in Plan /\ named.revision = Len(log) - 1
      BY <3>1, KindTyped
    <3> HIDE DEF named
    <3>3. Delta(named) \in Frames /\ Delta(named).kind = "plan" /\ Delta(named).plan = named
      BY <3>2, DeltaFacts
    <3>4. Brings(queue', Len(log) - 1) /\ \A r : Brings(queue, r) => Brings(queue', r)
      BY <1>2, <3>1, <3>2, <3>3, BringsMore
    <3> QED
      BY <1>1, <1>3, <3>1, <3>4 DEF Coming
  <2>4. CASE TaskEvent
    <3>1. PICK t \in TaskIds(row), n \in 2..3 : PublishDelta(TaskDelta(t, StatusOrder[n]))
      BY <2>4 DEF TaskEvent
    <3>2. log' = log /\ handler' = handler /\ queue' = Append(queue, TaskDelta(t, StatusOrder[n])) /\ row \in Plan
      BY <1>2, <1>3, <2>4, <3>1 DEF TaskEvent, PublishDelta
    <3>3. TaskDelta(t, StatusOrder[n]) \in Frames
      <4>1. StatusOrder[n] \in {"PENDING", "RUNNING", "COMPLETED"}
        BY DEF StatusOrder
      <4>2. t \in TaskId
        BY <3>2, TaskIdsTyped
      <4> QED
        BY <4>1, <4>2, DeltaFacts
    <3>4. \A r : Brings(queue, r) => Brings(queue', r)
      BY <1>2, <3>2, <3>3, BringsMore
    <3> QED
      BY <1>1, <1>3, <3>2, <3>4 DEF Coming
  <2> QED
    BY <2>1, <2>2, <2>3, <2>4
<1>4. AllComing'
  BY <1>1, <1>3 DEF ComingInv, AllComing
<1>5. watching = "closed" => queue' = queue
  BY DEF PlanEvent, PutTaskPlan, PersistRevision, TaskEvent, stream, PublishDelta
<1>6. Streams'
  BY <1>1, <1>5 DEF ComingInv, Streams
<1> QED
  BY <1>4, <1>6 DEF ComingInv

LEMMA StreamComing ==
  ASSUME PlanInv, ComingInv, OpenSession \/ ReplayPlans \/ LeaveSession
  PROVE  ComingInv'
<1>1. UNCHANGED <<log, handler, rpc, history>> /\ visits \in Nat /\ rpc.state \in States
  <2>1. UNCHANGED <<log, handler, rpc, history>>
    BY DEF OpenSession, ReplayPlans, LeaveSession, serverVars, browser
  <2>2. visits \in Nat /\ rpc.state \in States
    BY DEF PlanInv, PlanTypes
  <2> QED
    BY <2>1, <2>2
<1>2. CASE OpenSession
  <2>1. watching = "closed" /\ visits' = visits + 1 /\ watching' = "session" /\ queue' = queue /\ burst' = burst
    BY <1>2 DEF OpenSession
  <2> QED
    BY <1>1, <2>1 DEF ComingInv, AllComing, Streams
<1>3. CASE ReplayPlans
  <2>1. watching = "session" /\ watching' = "tail" /\ visits' = visits /\ queue' = queue /\ burst = <<>>
    BY <1>3 DEF ReplayPlans, ComingInv, Streams
  <2>2. \A r : ~Brings(burst, r)
    BY <2>1 DEF Brings
  <2>3. \A r : Coming(r) => Coming(r)'
    BY <1>1, <2>1, <2>2 DEF Coming
  <2> QED
    BY <1>1, <2>1, <2>3 DEF ComingInv, AllComing, Streams
<1>4. CASE LeaveSession
  <2>1. watching = "tail" /\ watching' = "closed" /\ visits' = visits /\ queue' = <<>> /\ burst' = <<>>
    BY <1>4 DEF LeaveSession
  <2> QED
    BY <1>1, <2>1 DEF ComingInv, AllComing, Streams
<1> QED
  BY <1>2, <1>3, <1>4

LEMMA RpcComing ==
  ASSUME PlanInv, ComingInv, CallPlanHistory \/ ListRevisions \/ BackfillRevisions \/ RpcFails \/ LoadPlanHistory
  PROVE  ComingInv'
<1>1. UNCHANGED <<log, handler, watching, burst, queue, visits>> /\ rpc.state \in States
      /\ rpc \in [state : States, answer : Seq(Plan)] /\ Len(log) \in Nat
  BY DEF CallPlanHistory, ListRevisions, BackfillRevisions, RpcFails, LoadPlanHistory, serverVars, stream, PlanInv, PlanTypes
<1>2. Streams'
  <2>1. visits = 0 => rpc' = rpc
    BY <1>1 DEF ComingInv, Streams, CallPlanHistory, ListRevisions, BackfillRevisions, RpcFails, LoadPlanHistory
  <2> QED
    BY <1>1, <2>1 DEF ComingInv, Streams
<1>3. AllComing'
  <2>1. CASE CallPlanHistory
    <3>1. rpc'.state = "called"
      BY <1>1, <2>1 DEF CallPlanHistory
    <3> QED
      BY <3>1 DEF AllComing
  <2>2. CASE ListRevisions
    <3>1. rpc'.state = "listed" /\ rpc'.answer = revisions
      BY <2>2 DEF ListRevisions
    <3>2. \A r \in 0..(Len(log) - 1) : r < Len(revisions) \/ (handler.pc \in {"put", "persist"} /\ r = Len(log) - 1)
      <4>1. revisions \in Seq(Plan) /\ Len(revisions) \in Nat
        BY DEF PlanInv, PlanTypes
      <4>2. (handler.pc \in {"put", "persist"} /\ Len(log) = Len(revisions) + 1) \/ Len(log) = Len(revisions)
        <5>1. CASE handler.pc \notin {"put", "persist"}
          BY <5>1 DEF PlanInv, Tables
        <5>2. CASE handler.pc \in {"put", "persist"}
          <6>1. handler.pc # "idle"
            BY <5>2
          <6>2. Len(revisions) \in {Len(log), Len(log) - 1}
            BY <6>1 DEF PlanInv, Tables
          <6> QED
            BY <1>1, <4>1, <5>2, <6>2
        <5> QED
          BY <5>1, <5>2
      <4> QED
        BY <1>1, <4>1, <4>2
    <3> QED
      BY <1>1, <3>1, <3>2 DEF AllComing, Coming
  <2>3. CASE BackfillRevisions
    <3>1. rpc.state = "listed" /\ rpc'.state = "answered" /\ history' = history
          /\ rpc'.answer = IF Len(log) > Len(rpc.answer) THEN log ELSE rpc.answer
      BY <2>3 DEF BackfillRevisions, browser
    <3>2. CASE Len(log) > Len(rpc.answer)
      <4>1. \A r \in 0..(Len(log) - 1) : r < Len(rpc'.answer)
        BY <1>1, <3>1, <3>2
      <4> QED
        BY <1>1, <3>1, <4>1 DEF AllComing, Coming
    <3>3. CASE ~(Len(log) > Len(rpc.answer))
      BY <1>1, <3>1, <3>3 DEF ComingInv, AllComing, Coming
    <3> QED
      BY <3>2, <3>3
  <2>4. CASE RpcFails
    <3>1. rpc'.state = "failed"
      BY <2>4 DEF RpcFails
    <3> QED
      BY <3>1 DEF AllComing
  <2>5. CASE LoadPlanHistory
    <3> DEFINE recs == [i \in DOMAIN rpc.answer |-> Record(rpc.answer[i], "rpc")]
    <3>1. rpc.state = "answered" /\ rpc'.state = "loaded" /\ history' = AppendAll(history, recs)
      BY <2>5 DEF LoadPlanHistory
    <3>2. /\ recs \in Seq(Rec) /\ DOMAIN recs = 1..Len(rpc.answer) /\ Len(rpc.answer) \in Nat
          /\ \A i \in DOMAIN recs : recs[i].revision = i - 1 /\ recs[i].source = "rpc"
      BY LoadedRecords
    <3> HIDE DEF recs
    <3>3. history \in Seq(Rec) /\ Sorted(history)
      BY DEF PlanInv, PlanTypes, HistorySorted, Sorted
    <3>4. /\ Grown(history, history', {recs[i] : i \in DOMAIN recs})
          /\ \A i \in DOMAIN recs : Has(history', recs[i].revision)
      BY <3>1, <3>2, <3>3, AppendAllProperties
    <3>5. ASSUME NEW r \in 0..(Len(log) - 1), r < Len(rpc.answer) PROVE Has(history', r)
      <4>1. r + 1 \in DOMAIN recs /\ r + 1 - 1 = r
        BY <1>1, <3>2, <3>5
      <4> QED
        BY <3>2, <3>4, <4>1
    <3>6. \A r : Has(history, r) => Has(history', r)
      BY <3>4, GrownHas
    <3> QED
      BY <1>1, <3>1, <3>5, <3>6 DEF ComingInv, AllComing, Coming
  <2> QED
    BY <2>1, <2>2, <2>3, <2>4, <2>5
<1> QED
  BY <1>2, <1>3 DEF ComingInv

LEMMA ReadComing ==
  ASSUME PlanInv, ComingInv, ReadBurst \/ ReadDelta
  PROVE  ComingInv'
<1>1. UNCHANGED <<log, handler, watching, visits, rpc>> /\ watching = "tail"
  BY DEF ReadBurst, ReadDelta, serverVars
<1>2. burst \in Seq(Frames) /\ queue \in Seq(Frames)
  BY DEF PlanInv, PlanTypes
<1>3. \A r : Coming(r) => Coming(r)'
  <2>1. CASE ReadBurst
    <3>1. burst # <<>> /\ burst' = Tail(burst) /\ queue' = queue /\ ReadFrame(Head(burst), "burst")
      BY <2>1 DEF ReadBurst
    <3>2. 1 \in DOMAIN burst /\ Head(burst) = burst[1] /\ Head(burst) \in Frames
      BY <1>2, <3>1, TailFacts
    <3>3. Head(burst).kind = "plan" => PlanTrue(Head(burst).plan)
      BY <3>2 DEF PlanInv, PlansTrue, FramesTrue
    <3>4. /\ \A r : Has(history, r) => Has(history', r)
          /\ Head(burst).kind = "plan" => Has(history', Head(burst).plan.revision)
      BY <3>1, <3>2, <3>3, ReadHas
    <3>5. \A r : Brings(burst, r) => Brings(burst', r) \/ (Head(burst).kind = "plan" /\ Head(burst).plan.revision = r)
      BY <1>2, <3>1, BringsHead
    <3> QED
      BY <1>1, <3>1, <3>4, <3>5 DEF Coming
  <2>2. CASE ReadDelta
    <3>1. queue # <<>> /\ queue' = Tail(queue) /\ burst' = burst /\ ReadFrame(Head(queue), "delta")
      BY <2>2 DEF ReadDelta
    <3>2. 1 \in DOMAIN queue /\ Head(queue) = queue[1] /\ Head(queue) \in Frames
      BY <1>2, <3>1, TailFacts
    <3>3. Head(queue).kind = "plan" => PlanTrue(Head(queue).plan) /\ Head(queue).plan.kind
      BY <3>2 DEF PlanInv, PlansTrue, FramesTrue
    <3>4. /\ \A r : Has(history, r) => Has(history', r)
          /\ Head(queue).kind = "plan" => Has(history', Head(queue).plan.revision)
      BY <3>1, <3>2, <3>3, ReadHas
    <3>5. \A r : Brings(queue, r) => Brings(queue', r) \/ (Head(queue).kind = "plan" /\ Head(queue).plan.revision = r)
      BY <1>2, <3>1, BringsHead
    <3> QED
      BY <1>1, <3>1, <3>4, <3>5 DEF Coming
  <2> QED
    BY <2>1, <2>2
<1> QED
  BY <1>1, <1>3 DEF ComingInv, AllComing, Streams

LEMMA NextComingInv == PlanInv /\ ComingInv /\ [PlansNext]_planVars => ComingInv'
<1> SUFFICES ASSUME PlanInv, ComingInv, [PlansNext]_planVars PROVE ComingInv'
  OBVIOUS
<1>1. CASE UNCHANGED planVars
  <2>1. UNCHANGED <<log, handler, watching, burst, queue, visits, rpc, history>>
    BY <1>1 DEF planVars, serverVars, stream, browser
  <2> QED
    BY <2>1 DEF ComingInv, AllComing, Coming, Streams
<1>2. CASE (\E inline \in BOOLEAN : PlanEvent(inline)) \/ TaskEvent \/ PutTaskPlan \/ PersistRevision
  BY <1>2, ServerComing
<1>3. CASE OpenSession \/ ReplayPlans \/ LeaveSession \/ ReadBurst \/ ReadDelta
  BY <1>3, StreamComing, ReadComing
<1>4. CASE CallPlanHistory \/ ListRevisions \/ BackfillRevisions \/ RpcFails \/ LoadPlanHistory
  BY <1>4, RpcComing
<1> QED
  BY <1>1, <1>2, <1>3, <1>4 DEF PlansNext

(* A sorted history with the revisions below m, and no other, has m.       *)
LEMMA LengthOfHistory ==
  ASSUME NEW h \in Seq(Rec), Sorted(h), NEW m \in Nat,
         \A i \in DOMAIN h : h[i].revision < m, \A r \in 0..(m - 1) : Has(h, r)
  PROVE  Len(h) = m
<1>1. DOMAIN h = 1..Len(h) /\ Len(h) \in Nat /\ \A i \in DOMAIN h : h[i].revision \in Nat
  BY RecFacts
<1> DEFINE f == [i \in 1..Len(h) |-> h[i].revision]
<1>2. f \in Bijection(1..Len(h), 0..(m - 1))
  <2>1. f \in [1..Len(h) -> 0..(m - 1)]
    BY <1>1
  <2>2. \A i, j \in 1..Len(h) : f[i] = f[j] => i = j
    BY <1>1 DEF Sorted
  <2>3. \A r \in 0..(m - 1) : \E i \in 1..Len(h) : f[i] = r
    BY <1>1 DEF Has
  <2> HIDE DEF f
  <2>4. IsInjective(f)
    BY <2>1, <2>2 DEF IsInjective
  <2> QED
    BY <2>1, <2>3, <2>4 DEF Bijection, Injection, Surjection
<1> HIDE DEF f
<1>3. Cardinality(1..Len(h)) = Len(h) /\ IsFiniteSet(1..Len(h)) /\ Cardinality(0..(m - 1)) = m /\ IsFiniteSet(0..(m - 1))
  <2>1. IsFiniteSet(1..Len(h)) /\ Cardinality(1..Len(h)) = IF 1 > Len(h) THEN 0 ELSE Len(h) - 1 + 1
    BY <1>1, FS_Interval
  <2>2. IsFiniteSet(0..(m - 1)) /\ Cardinality(0..(m - 1)) = IF 0 > m - 1 THEN 0 ELSE m - 1 - 0 + 1
    <3>1. m - 1 \in Int /\ 0 \in Int
      OBVIOUS
    <3> QED
      BY <3>1, FS_Interval
  <2> QED
    BY <1>1, <2>1, <2>2
<1>4. Cardinality(1..Len(h)) = Cardinality(0..(m - 1))
  BY <1>2, <1>3, FS_Bijection DEF ExistsBijection
<1> QED
  BY <1>3, <1>4

LEMMA ComingInvImplies == PlanInv /\ ComingInv => HistoryCatchesUp
<1> SUFFICES ASSUME PlanInv, ComingInv, visits = 1, Quiet, rpc.state = "loaded" PROVE Len(history) = Len(log)
  BY DEF HistoryCatchesUp, AllRecorded
<1>1. history \in Seq(Rec) /\ Sorted(history) /\ Len(log) \in Nat
  BY DEF PlanInv, PlanTypes, HistorySorted, Sorted
<1>2. \A i \in DOMAIN history : history[i].revision < Len(log)
  BY PlanInvImplies DEF HistoryFaithful, HistoryTruthful
<1>3. \A r \in 0..(Len(log) - 1) : Has(history, r)
  BY DEF Quiet, ComingInv, AllComing, Coming, Brings
<1> QED
  BY <1>1, <1>2, <1>3, LengthOfHistory

(* In the first visit every revision gets into the history, whenever the   *)
(* RPC is called and answered (loadPlanHistory, applyGoldfiveEvent).       *)
THEOREM HistoryIsComplete == PlansSpec => []HistoryCatchesUp
<1>1. PlansInit => PlanInv /\ ComingInv
  BY InitPlanInv, InitComingInv
<1>2. (PlanInv /\ ComingInv) /\ [PlansNext]_planVars => (PlanInv /\ ComingInv)'
  BY NextPlanInv, NextComingInv
<1> QED
  BY <1>1, <1>2, ComingInvImplies, PTL DEF PlansSpec

-----------------------------------------------------------------------------
(* What the frames that are not read yet make of the live plan: the last   *)
(* plan among them (the base, the current plan if there is none) with the  *)
(* last status of each task after it.                                      *)
OnlyTasks(s, k) == \A j \in (k + 1)..Len(s) : s[j].kind = "task"
Ends(s, k, t, from, to) ==
  /\ (\A j \in (k + 1)..Len(s) : s[j].id # t) => from = to
  /\ \A j \in (k + 1)..Len(s) :
        s[j].id = t /\ (\A i \in (j + 1)..Len(s) : s[i].id # t) => s[j].status = to
Leads(base, s, k, r) ==
  /\ base # NoPlan /\ base.revision = r.revision /\ base.kind = r.kind /\ DOMAIN base.tasks = DOMAIN r.tasks
  /\ \A i \in DOMAIN r.tasks :
        /\ base.tasks[i].id = r.tasks[i].id /\ base.tasks[i].supersedes = r.tasks[i].supersedes
        /\ Ends(s, k, r.tasks[i].id, base.tasks[i].status, r.tasks[i].status)
Base(c, s, k) == IF k = 0 THEN c ELSE s[k].plan
Told(c, s, r) ==
  \E k \in 0..Len(s) : (k > 0 => s[k].kind = "plan") /\ OnlyTasks(s, k) /\ Leads(Base(c, s, k), s, k, r)

TaskStatus == {"PENDING", "RUNNING", "COMPLETED"}

(* Plans with the same parts are the same.                                 *)
LEMMA SamePlan ==
  ASSUME NEW p \in Plan, NEW r \in Plan, p.revision = r.revision, p.kind = r.kind, DOMAIN p.tasks = DOMAIN r.tasks,
         \A i \in DOMAIN r.tasks : /\ p.tasks[i].id = r.tasks[i].id /\ p.tasks[i].supersedes = r.tasks[i].supersedes
                                   /\ p.tasks[i].status = r.tasks[i].status
  PROVE  p = r
<1>1. p.tasks \in Seq(Task) /\ r.tasks \in Seq(Task)
  BY DEF Plan
<1>2. \A i \in DOMAIN r.tasks : p.tasks[i] \in Task /\ r.tasks[i] \in Task
  BY <1>1
<1>3. \A x, y \in Task : x.id = y.id /\ x.supersedes = y.supersedes /\ x.status = y.status => x = y
  BY DEF Task
<1>4. \A i \in DOMAIN r.tasks : p.tasks[i] = r.tasks[i]
  BY <1>2, <1>3
<1>5. p.tasks = r.tasks
  BY <1>1, <1>4
<1> QED
  BY <1>5 DEF Plan

(* s is the end of s2.                                                     *)
LEMMA EndsShift ==
  ASSUME NEW s \in Seq(Frames), NEW s2 \in Seq(Frames), NEW d \in Nat, Len(s2) = Len(s) + d,
         \A i \in 1..Len(s) : s2[i + d] = s[i], NEW k \in 0..Len(s)
  PROVE  /\ OnlyTasks(s2, k + d) <=> OnlyTasks(s, k)
         /\ \A t, x, y : Ends(s2, k + d, t, x, y) <=> Ends(s, k, t, x, y)
<1>1. Len(s) \in Nat /\ Len(s2) \in Nat
  OBVIOUS
<1>2. \A j \in (k + 1)..Len(s) : j + d \in (k + d + 1)..Len(s2) /\ s2[j + d] = s[j]
  BY <1>1
<1>3. \A j \in (k + d + 1)..Len(s2) : j - d \in (k + 1)..Len(s) /\ s[j - d] = s2[j]
  <2>1. \A j \in (k + d + 1)..Len(s2) : j - d \in (k + 1)..Len(s) /\ j - d \in 1..Len(s) /\ j - d + d = j
    BY <1>1
  <2> QED
    BY <2>1
<1>4. OnlyTasks(s2, k + d) <=> OnlyTasks(s, k)
  <2>1. ASSUME OnlyTasks(s2, k + d), NEW j \in (k + 1)..Len(s) PROVE s[j].kind = "task"
    BY <1>2, <2>1 DEF OnlyTasks
  <2>2. ASSUME OnlyTasks(s, k), NEW j \in (k + d + 1)..Len(s2) PROVE s2[j].kind = "task"
    BY <1>3, <2>2 DEF OnlyTasks
  <2> QED
    BY <2>1, <2>2 DEF OnlyTasks
<1>5. ASSUME NEW t
      PROVE  (\A j \in (k + 1)..Len(s) : s[j].id # t) <=> (\A j \in (k + d + 1)..Len(s2) : s2[j].id # t)
  <2>1. ASSUME \A j \in (k + 1)..Len(s) : s[j].id # t, NEW j \in (k + d + 1)..Len(s2) PROVE s2[j].id # t
    BY <1>3, <2>1
  <2>2. ASSUME \A j \in (k + d + 1)..Len(s2) : s2[j].id # t, NEW j \in (k + 1)..Len(s) PROVE s[j].id # t
    BY <1>2, <2>2
  <2> QED
    BY <2>1, <2>2
<1>6. ASSUME NEW t, NEW y
      PROVE  (\A j \in (k + 1)..Len(s) : s[j].id = t /\ (\A i \in (j + 1)..Len(s) : s[i].id # t) => s[j].status = y)
             <=> (\A j \in (k + d + 1)..Len(s2) :
                     s2[j].id = t /\ (\A i \in (j + 1)..Len(s2) : s2[i].id # t) => s2[j].status = y)
  <2>1. ASSUME NEW j \in (k + 1)..Len(s)
        PROVE (\A i \in (j + 1)..Len(s) : s[i].id # t) <=> (\A i \in (j + d + 1)..Len(s2) : s2[i].id # t)
    <3>1. \A i \in (j + 1)..Len(s) : i + d \in (j + d + 1)..Len(s2) /\ s2[i + d] = s[i]
      BY <1>1
    <3>2. \A i \in (j + d + 1)..Len(s2) : i - d \in (j + 1)..Len(s) /\ s[i - d] = s2[i]
      <4>1. \A i \in (j + d + 1)..Len(s2) : i - d \in (j + 1)..Len(s) /\ i - d \in 1..Len(s) /\ i - d + d = i
        BY <1>1
      <4> QED
        BY <4>1
    <3>3. ASSUME \A i \in (j + 1)..Len(s) : s[i].id # t, NEW i \in (j + d + 1)..Len(s2) PROVE s2[i].id # t
      BY <3>2, <3>3
    <3>4. ASSUME \A i \in (j + d + 1)..Len(s2) : s2[i].id # t, NEW i \in (j + 1)..Len(s) PROVE s[i].id # t
      BY <3>1, <3>4
    <3> QED
      BY <3>3, <3>4
  <2>2. \A j \in (k + d + 1)..Len(s2) : j - d + d = j
    BY <1>1
  <2>3. ASSUME \A j \in (k + 1)..Len(s) : s[j].id = t /\ (\A i \in (j + 1)..Len(s) : s[i].id # t) => s[j].status = y,
               NEW j \in (k + d + 1)..Len(s2), s2[j].id = t, \A i \in (j + 1)..Len(s2) : s2[i].id # t
        PROVE  s2[j].status = y
    <3>1. j - d \in (k + 1)..Len(s) /\ s[j - d] = s2[j] /\ j - d + d = j
      BY <1>3, <2>2, <2>3
    <3>2. \A i \in (j - d + 1)..Len(s) : s[i].id # t
      BY <2>1, <2>3, <3>1
    <3> QED
      BY <2>3, <3>1, <3>2
  <2>4. ASSUME \A j \in (k + d + 1)..Len(s2) :
                  s2[j].id = t /\ (\A i \in (j + 1)..Len(s2) : s2[i].id # t) => s2[j].status = y,
               NEW j \in (k + 1)..Len(s), s[j].id = t, \A i \in (j + 1)..Len(s) : s[i].id # t
        PROVE  s[j].status = y
    <3>1. j + d \in (k + d + 1)..Len(s2) /\ s2[j + d] = s[j]
      BY <1>2, <2>4
    <3>2. \A i \in (j + d + 1)..Len(s2) : s2[i].id # t
      BY <2>1, <2>4
    <3> QED
      BY <2>4, <3>1, <3>2
  <2> QED
    BY <2>3, <2>4
<1> QED
  BY <1>4, <1>5, <1>6 DEF Ends

LEMMA AppendFacts ==
  ASSUME NEW s \in Seq(Frames), NEW f \in Frames
  PROVE  /\ Append(s, f) \in Seq(Frames) /\ Len(Append(s, f)) = Len(s) + 1 /\ Len(s) \in Nat
         /\ Append(s, f)[Len(s) + 1] = f /\ \A i \in 1..Len(s) : Append(s, f)[i] = s[i]
OBVIOUS

(* The last status of a task after one more frame.                         *)
LEMMA EndsAppend ==
  ASSUME NEW s \in Seq(Frames), NEW f \in Frames, NEW k \in 0..Len(s), NEW t, NEW x, NEW y, Ends(s, k, t, x, y)
  PROVE  Ends(Append(s, f), k, t, x, IF f.id = t THEN f.status ELSE y)
<1> DEFINE s2 == Append(s, f)
           n == Len(s)
<1>1. n \in Nat /\ Len(s2) = n + 1 /\ s2[n + 1] = f /\ \A i \in 1..n : s2[i] = s[i]
  BY AppendFacts
<1>2. /\ \A j \in (k + 1)..n : j \in (k + 1)..(n + 1) /\ j \in 1..n
      /\ n + 1 \in (k + 1)..(n + 1) /\ \A j \in (k + 1)..(n + 1) : j = n + 1 \/ j \in (k + 1)..n
  BY <1>1
<1>3. /\ (\A j \in (k + 1)..n : s[j].id # t) => x = y
      /\ \A j \in (k + 1)..n : s[j].id = t /\ (\A i \in (j + 1)..n : s[i].id # t) => s[j].status = y
  BY DEF Ends, n
<1>4. \A j \in (k + 1)..n : /\ n + 1 \in (j + 1)..(n + 1)
                            /\ \A i \in (j + 1)..n : i \in (j + 1)..(n + 1) /\ s2[i] = s[i]
  BY <1>1
<1> HIDE DEF s2, n
<1>5. CASE f.id = t
  <2>1. ASSUME NEW j \in (k + 1)..(n + 1), s2[j].id = t, \A i \in (j + 1)..(n + 1) : s2[i].id # t
        PROVE  s2[j].status = f.status
    BY <1>1, <1>2, <1>4, <1>5, <2>1
  <2>2. ~ \A j \in (k + 1)..(n + 1) : s2[j].id # t
    BY <1>1, <1>2, <1>5
  <2> QED
    BY <1>1, <1>5, <2>1, <2>2 DEF Ends, s2
<1>6. CASE f.id # t
  <2>1. ASSUME NEW j \in (k + 1)..(n + 1), s2[j].id = t, \A i \in (j + 1)..(n + 1) : s2[i].id # t
        PROVE  s2[j].status = y
    <3>1. j \in (k + 1)..n /\ s2[j] = s[j]
      BY <1>1, <1>2, <1>6, <2>1
    <3>2. \A i \in (j + 1)..n : s[i].id # t
      BY <1>4, <2>1, <3>1
    <3> QED
      BY <1>3, <2>1, <3>1, <3>2
  <2>2. (\A j \in (k + 1)..(n + 1) : s2[j].id # t) => x = y
    BY <1>1, <1>2, <1>3
  <2> QED
    BY <1>1, <1>6, <2>1, <2>2 DEF Ends, s2
<1> QED
  BY <1>5, <1>6

(* A new plan makes all that came before it irrelevant.                    *)
LEMMA ToldPlan ==
  ASSUME NEW s \in Seq(Frames), NEW c, NEW p \in Plan
  PROVE  Told(c, Append(s, Delta(p)), p)
<1> DEFINE s2 == Append(s, Delta(p))
           k == Len(s) + 1
<1>1. Delta(p) \in Frames /\ Delta(p).kind = "plan" /\ Delta(p).plan = p /\ p # NoPlan
  BY DeltaFacts, RevisionsAssumption
<1>2. Len(s) \in Nat /\ Len(s2) = k /\ s2[k] = Delta(p)
  BY <1>1, AppendFacts
<1> HIDE DEF s2
<1>3. k \in 0..Len(s2) /\ k # 0 /\ (k + 1)..Len(s2) = {}
  BY <1>2
<1> HIDE DEF k
<1>4. OnlyTasks(s2, k) /\ \A t, x : Ends(s2, k, t, x, x)
  BY <1>3 DEF OnlyTasks, Ends
<1>5. Base(c, s2, k) = p
  BY <1>1, <1>2, <1>3 DEF Base
<1>6. Leads(p, s2, k, p)
  BY <1>1, <1>4 DEF Leads
<1> QED
  BY <1>1, <1>2, <1>3, <1>4, <1>5, <1>6 DEF Told, s2

(* A new task event changes the plan the frames lead to as it does the row. *)
LEMMA ToldTask ==
  ASSUME NEW s \in Seq(Frames), NEW c, NEW r \in Plan, Told(c, s, r), NEW t \in TaskId, NEW st \in TaskStatus
  PROVE  Told(c, Append(s, TaskDelta(t, st)), WithStatus(r, t, st))
<1> DEFINE f == TaskDelta(t, st)
           s2 == Append(s, f)
           w == WithStatus(r, t, st)
<1>1. f \in Frames /\ f.kind = "task" /\ f.id = t /\ f.status = st
  BY DeltaFacts DEF TaskStatus
<1>2. /\ w \in Plan /\ w.revision = r.revision /\ w.kind = r.kind /\ DOMAIN w.tasks = DOMAIN r.tasks
      /\ \A i \in DOMAIN r.tasks : /\ w.tasks[i].id = r.tasks[i].id /\ w.tasks[i].supersedes = r.tasks[i].supersedes
                                   /\ w.tasks[i].status = IF f.id = r.tasks[i].id THEN f.status ELSE r.tasks[i].status
  BY <1>1, WithStatusTyped DEF TaskStatus
<1> HIDE DEF f, w
<1>3. Len(s) \in Nat /\ Len(s2) = Len(s) + 1 /\ s2[Len(s) + 1] = f /\ \A i \in 1..Len(s) : s2[i] = s[i]
  BY <1>1, AppendFacts
<1>4. PICK k \in 0..Len(s) : (k > 0 => s[k].kind = "plan") /\ OnlyTasks(s, k) /\ Leads(Base(c, s, k), s, k, r)
  BY DEF Told
<1>5. \A id, x, y : Ends(s, k, id, x, y) => Ends(s2, k, id, x, IF f.id = id THEN f.status ELSE y)
  BY <1>1, EndsAppend
<1> HIDE DEF s2
<1>6. k \in 0..Len(s2) /\ (k > 0 => s2[k].kind = "plan") /\ Base(c, s2, k) = Base(c, s, k)
  BY <1>3, <1>4 DEF Base
<1>7. OnlyTasks(s2, k)
  <2>1. \A j \in (k + 1)..Len(s2) : j \in (k + 1)..Len(s) \/ j = Len(s) + 1
    BY <1>3
  <2>2. \A j \in (k + 1)..Len(s) : j \in 1..Len(s)
    BY <1>3
  <2> QED
    BY <1>1, <1>3, <1>4, <2>1, <2>2 DEF OnlyTasks
<1>8. Leads(Base(c, s2, k), s2, k, w)
  <2> DEFINE b == Base(c, s, k)
  <2>1. Leads(b, s, k, r)
    BY <1>4
  <2> HIDE DEF b
  <2>2. ASSUME NEW i \in DOMAIN w.tasks
        PROVE  /\ b.tasks[i].id = w.tasks[i].id /\ b.tasks[i].supersedes = w.tasks[i].supersedes
               /\ Ends(s2, k, w.tasks[i].id, b.tasks[i].status, w.tasks[i].status)
    <3>1. /\ b.tasks[i].id = r.tasks[i].id /\ b.tasks[i].supersedes = r.tasks[i].supersedes
          /\ Ends(s, k, r.tasks[i].id, b.tasks[i].status, r.tasks[i].status)
      BY <1>2, <2>1 DEF Leads
    <3>2. Ends(s2, k, r.tasks[i].id, b.tasks[i].status, w.tasks[i].status)
      <4>1. w.tasks[i].status = IF f.id = r.tasks[i].id THEN f.status ELSE r.tasks[i].status
        BY <1>2
      <4> QED
        BY <1>5, <3>1, <4>1
    <3> QED
      BY <1>2, <3>1, <3>2
  <2>3. Leads(b, s2, k, w)
    BY <1>2, <2>1, <2>2 DEF Leads
  <2> QED
    BY <1>6, <2>3 DEF b
<1> QED
  BY <1>6, <1>7, <1>8 DEF Told, s2, f, w

(* It does not matter what the base was when the base is the goal.         *)
LEMMA ToldRow ==
  ASSUME NEW s \in Seq(Frames), NEW c, NEW r \in Plan, Told(c, s, r)
  PROVE  Told(r, s, r)
<1>1. PICK k \in 0..Len(s) : (k > 0 => s[k].kind = "plan") /\ OnlyTasks(s, k) /\ Leads(Base(c, s, k), s, k, r)
  BY DEF Told
<1>2. CASE k > 0
  <2>1. Base(r, s, k) = Base(c, s, k)
    BY <1>2 DEF Base
  <2> QED
    BY <1>1, <2>1 DEF Told
<1>3. CASE k = 0
  <2>1. Leads(r, s, k, r)
    BY <1>1, RevisionsAssumption DEF Leads, Ends
  <2>2. Base(r, s, k) = r
    BY <1>3 DEF Base
  <2> QED
    BY <1>1, <2>1, <2>2 DEF Told
<1> QED
  BY <1>2, <1>3

LEMMA ToldNothing ==
  ASSUME NEW c \in Plan \union {NoPlan}, NEW r \in Plan
  PROVE  /\ Told(c, <<>>, r) => c = r
         /\ Told(r, <<>>, r)
<1>1. Len(<<>>) = 0 /\ 0..0 = {0} /\ 1..0 = {}
  OBVIOUS
<1>2. ASSUME Told(c, <<>>, r) PROVE c = r
  <2>1. Leads(c, <<>>, 0, r)
    BY <1>1, <1>2 DEF Told, Base
  <2>2. \A t, x, y : Ends(<<>>, 0, t, x, y) => x = y
    BY <1>1 DEF Ends
  <2> QED
    BY <2>1, <2>2, SamePlan DEF Leads
<1>3. Told(r, <<>>, r)
  <2>1. Leads(r, <<>>, 0, r) /\ OnlyTasks(<<>>, 0)
    BY <1>1, RevisionsAssumption DEF Leads, Ends, OnlyTasks
  <2> QED
    BY <1>1, <2>1 DEF Told, Base
<1> QED
  BY <1>2, <1>3

(* Reading the first frame is what the frames said it would do.            *)
Read(c, f) == IF f.kind = "plan" THEN f.plan ELSE IF c = NoPlan THEN NoPlan ELSE WithStatus(c, f.id, f.status)

LEMMA ToldRead ==
  ASSUME NEW s \in Seq(Frames), s # <<>>, NEW c \in Plan \union {NoPlan}, NEW r \in Plan, Told(c, s, r)
  PROVE  Told(Read(c, Head(s)), Tail(s), r)
<1> DEFINE q == Tail(s)
           f == Head(s)
           c2 == Read(c, f)
<1>1. /\ q \in Seq(Frames) /\ Len(s) \in Nat /\ Len(s) = Len(q) + 1 /\ Len(q) \in Nat /\ f = s[1] /\ f \in Frames
      /\ \A i \in 1..Len(q) : s[i + 1] = q[i]
  <2>1. q \in Seq(Frames) /\ Len(q) \in Nat /\ DOMAIN q = 1..Len(q)
    BY TailFacts
  <2> QED
    BY <2>1, TailFacts
<1>2. PICK k \in 0..Len(s) : (k > 0 => s[k].kind = "plan") /\ OnlyTasks(s, k) /\ Leads(Base(c, s, k), s, k, r)
  BY DEF Told
<1> HIDE DEF q, f
<1>3. ASSUME NEW m \in 0..Len(q)
      PROVE  /\ OnlyTasks(s, m + 1) <=> OnlyTasks(q, m)
             /\ \A t, x, y : Ends(s, m + 1, t, x, y) <=> Ends(q, m, t, x, y)
  BY <1>1, <1>3, EndsShift
<1>4. CASE k > 0
  <2>1. k - 1 \in 0..Len(q) /\ k - 1 + 1 = k
    BY <1>1, <1>4
  <2>2. OnlyTasks(q, k - 1) /\ \A t, x, y : Ends(s, k, t, x, y) => Ends(q, k - 1, t, x, y)
    BY <1>2, <1>3, <2>1
  <2>3. (k - 1 > 0 => q[k - 1].kind = "plan") /\ Base(c2, q, k - 1) = Base(c, s, k)
    <3>1. CASE k = 1
      BY <1>1, <1>2, <1>4, <3>1 DEF Base, Read
    <3>2. CASE k # 1
      <4>1. k - 1 \in 1..Len(q) /\ q[k - 1] = s[k] /\ k - 1 # 0 /\ k # 0
        <5>1. k - 1 \in 1..Len(q) /\ k - 1 # 0 /\ k # 0
          BY <1>4, <2>1, <3>2
        <5>2. s[k - 1 + 1] = q[k - 1]
          BY <1>1, <5>1
        <5> QED
          BY <2>1, <5>1, <5>2
      <4> QED
        BY <1>2, <1>4, <4>1 DEF Base
    <3> QED
      BY <3>1, <3>2
  <2>4. Leads(Base(c, s, k), q, k - 1, r)
    BY <1>2, <2>2 DEF Leads
  <2> QED
    BY <2>1, <2>2, <2>3, <2>4 DEF Told, q, f
<1>5. CASE k = 0
  <2>1. Leads(c, s, 0, r) /\ OnlyTasks(s, 0) /\ c # NoPlan /\ c \in Plan
    BY <1>2, <1>5 DEF Base, Leads
  <2>2. f.kind = "task" /\ f.status \in TaskStatus
    <3>1. 1 \in (0 + 1)..Len(s)
      BY <1>1
    <3> QED
      BY <1>1, <2>1, <3>1, FrameFacts DEF OnlyTasks, TaskStatus
  <2>3. c2 = WithStatus(c, f.id, f.status) /\ f.kind # "plan"
    BY <2>1, <2>2 DEF Read
  <2>4. /\ c2 \in Plan /\ c2.revision = c.revision /\ c2.kind = c.kind /\ DOMAIN c2.tasks = DOMAIN c.tasks
        /\ \A i \in DOMAIN c.tasks : /\ c2.tasks[i].id = c.tasks[i].id /\ c2.tasks[i].supersedes = c.tasks[i].supersedes
                                     /\ c2.tasks[i].status = IF c.tasks[i].id = f.id THEN f.status ELSE c.tasks[i].status
    BY <2>1, <2>2, <2>3, WithStatusTyped DEF TaskStatus
  <2> HIDE DEF c2
  <2>5. OnlyTasks(q, 0)
    <3>1. \A j \in (0 + 1)..Len(q) : j + 1 \in (0 + 1)..Len(s) /\ j \in 1..Len(q)
      BY <1>1
    <3> QED
      BY <1>1, <2>1, <3>1 DEF OnlyTasks
  <2>6. ASSUME NEW t, NEW x, NEW y, Ends(s, 0, t, x, y)
        PROVE  Ends(q, 0, t, IF t = f.id THEN f.status ELSE x, y)
    <3>1. /\ (\A j \in 1..Len(s) : s[j].id # t) => x = y
          /\ \A j \in 1..Len(s) : s[j].id = t /\ (\A i \in (j + 1)..Len(s) : s[i].id # t) => s[j].status = y
      BY <2>6 DEF Ends
    <3>2. /\ 0 \in 0..Len(q) /\ 0 + 1 = 1 /\ \A j \in 1..Len(q) : j + 1 \in 1..Len(s) /\ j + 1 \in 2..Len(s)
          /\ \A j \in 2..Len(s) : j - 1 \in 1..Len(q) /\ j - 1 + 1 = j /\ q[j - 1] = s[j]
          /\ 1 \in 1..Len(s) /\ 1 + 1 = 2 /\ \A j \in 1..Len(s) : j = 1 \/ j \in 2..Len(s)
      <4>1. \A j \in 2..Len(s) : j - 1 \in 1..Len(q) /\ j - 1 + 1 = j
        BY <1>1
      <4>2. \A j \in 2..Len(s) : q[j - 1] = s[j - 1 + 1]
        BY <1>1, <4>1
      <4> QED
        BY <1>1, <4>1, <4>2
    <3>3. (\A j \in 1..Len(q) : q[j].id # t) => (IF t = f.id THEN f.status ELSE x) = y
      <4> SUFFICES ASSUME \A j \in 1..Len(q) : q[j].id # t PROVE (IF t = f.id THEN f.status ELSE x) = y
        OBVIOUS
      <4>1. \A j \in 2..Len(s) : s[j].id # t
        BY <3>2
      <4> QED
        BY <1>1, <3>1, <3>2, <4>1
    <3>4. Ends(s, 1, t, y, y) => Ends(q, 0, t, y, y)
      BY <1>3, <3>2
    <3>5. Ends(s, 1, t, y, y)
      <4>1. \A j \in (1 + 1)..Len(s) : j \in 1..Len(s)
        OBVIOUS
      <4> QED
        BY <3>1, <4>1 DEF Ends
    <3> QED
      BY <3>3, <3>4, <3>5 DEF Ends
  <2>7. Leads(c2, q, 0, r)
    <3>1. \A i \in DOMAIN r.tasks :
              /\ c.tasks[i].id = r.tasks[i].id /\ c.tasks[i].supersedes = r.tasks[i].supersedes
              /\ Ends(s, 0, r.tasks[i].id, c.tasks[i].status, r.tasks[i].status)
      BY <2>1 DEF Leads
    <3>2. c2 # NoPlan /\ c2.revision = r.revision /\ c2.kind = r.kind /\ DOMAIN c2.tasks = DOMAIN r.tasks
          /\ DOMAIN c.tasks = DOMAIN r.tasks
      BY <2>1, <2>4, RevisionsAssumption DEF Leads
    <3>3. \A i \in DOMAIN r.tasks :
              /\ c2.tasks[i].id = r.tasks[i].id /\ c2.tasks[i].supersedes = r.tasks[i].supersedes
              /\ Ends(q, 0, r.tasks[i].id, c2.tasks[i].status, r.tasks[i].status)
      <4> SUFFICES ASSUME NEW i \in DOMAIN r.tasks
                   PROVE  /\ c2.tasks[i].id = r.tasks[i].id /\ c2.tasks[i].supersedes = r.tasks[i].supersedes
                          /\ Ends(q, 0, r.tasks[i].id, c2.tasks[i].status, r.tasks[i].status)
        OBVIOUS
      <4>1. c2.tasks[i].status = IF r.tasks[i].id = f.id THEN f.status ELSE c.tasks[i].status
        BY <2>4, <3>1, <3>2
      <4>2. Ends(q, 0, r.tasks[i].id, IF r.tasks[i].id = f.id THEN f.status ELSE c.tasks[i].status, r.tasks[i].status)
        BY <2>6, <3>1
      <4> QED
        BY <2>4, <3>1, <3>2, <4>1, <4>2
    <3> QED
      BY <3>2, <3>3 DEF Leads
  <2>8. Base(c2, q, 0) = c2 /\ 0 \in 0..Len(q) /\ ~(0 > 0)
    BY <1>1 DEF Base
  <2> QED
    BY <2>5, <2>7, <2>8 DEF Told, q, f, c2
<1> QED
  BY <1>4, <1>5, <1>1

(* Tasks of the same id have the same status.                              *)
SameId(p) == \A i, j \in DOMAIN p.tasks : p.tasks[i].id = p.tasks[j].id => p.tasks[i].status = p.tasks[j].status

(* The burst shows the row, and what came before it is in the row.         *)
LEMMA ToldBurst ==
  ASSUME NEW s \in Seq(Frames), NEW c, NEW r \in Plan, SameId(r), Told(r, s, r)
  PROVE  Told(c, BurstOf(r) \o s, r)
<1> DEFINE b == BurstOf(r)
           s2 == b \o s
           d == Len(b)
<1>1. /\ b \in Seq(Frames) /\ d \in Nat /\ d >= 1 /\ b[1] = Delta(r) /\ \A i \in 2..d : b[i] \in TaskFrames
      /\ \A i \in 2..d : LastOf(b, i) =>
           \E t \in 1..Len(r.tasks) : r.tasks[t].id = b[i].id /\ r.tasks[t].status = b[i].status
  BY BurstReplays DEF Replays
<1> HIDE DEF b
<1>2. /\ s2 \in Seq(Frames) /\ Len(s2) = Len(s) + d /\ Len(s) \in Nat
      /\ \A i \in 1..d : s2[i] = b[i]
      /\ \A i \in 1..Len(s) : s2[i + d] = s[i]
  <2>1. s2 \in Seq(Frames) /\ Len(s2) = Len(s) + d /\ Len(s) \in Nat
    BY <1>1
  <2>2. \A i \in 1..d : s2[i] = b[i]
    BY <1>1
  <2>3. \A i \in 1..Len(s) : s2[i + d] = s[i]
    BY <1>1
  <2> QED
    BY <2>1, <2>2, <2>3
<1> HIDE DEF s2, d
<1>3. PICK k \in 0..Len(s) : (k > 0 => s[k].kind = "plan") /\ OnlyTasks(s, k) /\ Leads(Base(r, s, k), s, k, r)
  BY DEF Told
<1>4. /\ OnlyTasks(s2, k + d) <=> OnlyTasks(s, k)
      /\ \A t, x, y : Ends(s2, k + d, t, x, y) <=> Ends(s, k, t, x, y)
  BY <1>1, <1>2, EndsShift
<1>5. CASE k > 0
  <2>1. k + d \in 0..Len(s2) /\ k + d # 0 /\ k # 0 /\ k \in 1..Len(s) /\ s2[k + d] = s[k]
    BY <1>1, <1>2, <1>5
  <2>2. Base(c, s2, k + d) = Base(r, s, k) /\ s2[k + d].kind = "plan"
    BY <1>3, <1>5, <2>1 DEF Base
  <2>3. Leads(Base(r, s, k), s2, k + d, r)
    BY <1>3, <1>4 DEF Leads
  <2> QED
    BY <1>3, <1>4, <2>1, <2>2, <2>3 DEF Told, s2, b
<1>6. CASE k = 0
  <2>1. 1 \in 0..Len(s2) /\ s2[1] = Delta(r) /\ s2[1].kind = "plan" /\ Base(c, s2, 1) = r
    BY <1>1, <1>2, DeltaFacts DEF Base
  <2>2. \A j \in (1 + 1)..Len(s2) : (j \in 2..d /\ s2[j] = b[j]) \/ j \in (d + 1)..Len(s2)
    <3>1. \A j \in (1 + 1)..Len(s2) : (j \in 2..d /\ j \in 1..d) \/ j \in (d + 1)..Len(s2)
      BY <1>1, <1>2
    <3> QED
      BY <1>2, <3>1
  <2>3. k + d = d /\ Base(r, s, k) = r
    BY <1>1, <1>6 DEF Base
  <2>4. OnlyTasks(s2, 1)
    BY <1>1, <1>3, <1>4, <2>2, <2>3 DEF OnlyTasks, TaskFrames
  <2>5. ASSUME NEW n \in DOMAIN r.tasks PROVE Ends(s2, 1, r.tasks[n].id, r.tasks[n].status, r.tasks[n].status)
    <3> DEFINE t == r.tasks[n].id
               y == r.tasks[n].status
    <3>1. Ends(s2, d, t, y, y)
      BY <1>3, <1>4, <2>3 DEF Leads
    <3>2. ASSUME NEW j \in (1 + 1)..Len(s2), s2[j].id = t, \A i \in (j + 1)..Len(s2) : s2[i].id # t
          PROVE  s2[j].status = y
      <4>1. CASE j \in (d + 1)..Len(s2)
        BY <3>1, <3>2, <4>1 DEF Ends
      <4>2. CASE j \in 2..d /\ s2[j] = b[j]
        <5>1. LastOf(b, j)
          <6> SUFFICES ASSUME NEW i \in 1..d, i > j PROVE b[i].kind = "task" /\ b[i].id # b[j].id
            BY <1>1 DEF LastOf, d
          <6>1. i \in 2..d /\ i \in (j + 1)..Len(s2) /\ s2[i] = b[i]
            BY <1>1, <1>2, <4>2
          <6> QED
            BY <1>1, <3>2, <4>2, <6>1 DEF TaskFrames
        <5>2. PICK m \in 1..Len(r.tasks) : r.tasks[m].id = b[j].id /\ r.tasks[m].status = b[j].status
          BY <1>1, <4>2, <5>1
        <5>3. m \in DOMAIN r.tasks
          <6>1. r.tasks \in Seq(Task)
            BY DEF Plan
          <6> QED
            BY <6>1
        <5> QED
          BY <3>2, <4>2, <5>2, <5>3 DEF SameId
      <4> QED
        BY <2>2, <4>1, <4>2
    <3> HIDE DEF t, y
    <3> QED
      BY <3>2 DEF Ends, t, y
  <2>6. Leads(r, s2, 1, r)
    BY <2>5, RevisionsAssumption DEF Leads
  <2> QED
    BY <2>1, <2>4, <2>6 DEF Told, s2, b
<1> QED
  BY <1>5, <1>6

-----------------------------------------------------------------------------
(* While no plan waits to be published, the row is what the browser's live *)
(* plan becomes when it has read all that was sent.                        *)
Synced ==
  handler.pc \in {"idle", "put"} /\ row # NoPlan =>
    /\ watching = "session" => Told(row, queue, row)
    /\ watching = "tail" => Told(current, burst \o queue, row)
NothingYet == row = NoPlan => current = NoPlan /\ burst = <<>> /\ queue = <<>>
SameIds == (row # NoPlan => SameId(row)) /\ (handler.pc # "idle" => SameId(handler.plan))

(* A plan that came on the stream is in the snapshots or is the live plan. *)
Covered(r) == \/ \E j \in DOMAIN snaps : snaps[j].revision = r
              \/ current # NoPlan /\ current.revision = r
StreamCovered == \A i \in DOMAIN history : history[i].source # "rpc" => Covered(history[i].revision)
ShownInv == Synced /\ NothingYet /\ SameIds /\ StreamCovered

LEMMA InitShownInv == PlansInit => ShownInv
BY DEF PlansInit, NoHandler, ShownInv, Synced, NothingYet, SameIds, StreamCovered

(* What keeps the parts of ShownInv, action by action.                     *)
LEMMA CoveredStays ==
  ASSUME StreamCovered, UNCHANGED <<history, snaps, current>>
  PROVE  StreamCovered'
BY DEF StreamCovered, Covered

LEMMA PlanFromSameId ==
  ASSUME NEW shape, NEW n, NEW kind
  PROVE  SameId(PlanFrom(shape, n, kind))
BY DEF PlanFrom, SameId

LEMMA PlanEventShown == PlanInv /\ ShownInv /\ (\E inline \in BOOLEAN : PlanEvent(inline)) => ShownInv'
<1> SUFFICES ASSUME PlanInv, ShownInv, NEW inline \in BOOLEAN, PlanEvent(inline) PROVE ShownInv'
  OBVIOUS
<1>1. /\ handler.pc = "idle" /\ handler'.pc = "put"
      /\ UNCHANGED <<row, watching, queue, burst, current, snaps, history>>
      /\ \E shape, n, kind : handler'.plan = PlanFrom(shape, n, kind)
  BY DEF PlanEvent, stream, browser
<1>2. SameIds'
  BY <1>1, PlanFromSameId DEF ShownInv, SameIds, SameId
<1>3. Synced' /\ NothingYet'
  <2>1. (Told(row, queue, row) => Told(row', queue', row'))
        /\ (Told(current, burst \o queue, row) => Told(current', burst' \o queue', row'))
    BY <1>1
  <2> QED
    BY <1>1, <2>1 DEF ShownInv, Synced, NothingYet
<1> QED
  BY <1>1, <1>2, <1>3, CoveredStays DEF ShownInv

LEMMA PutTaskPlanShown == PlanInv /\ ShownInv /\ PutTaskPlan => ShownInv'
<1> SUFFICES ASSUME PlanInv, ShownInv, PutTaskPlan PROVE ShownInv'
  OBVIOUS
<1>1. /\ handler.pc # "idle" /\ handler'.pc \in {"persist", "persist again"} /\ handler'.plan = handler.plan
      /\ row' = handler.plan /\ handler.plan \in Plan
      /\ UNCHANGED <<current, snaps, history>>
  <2>1. /\ handler.pc \in {"put", "put again"} /\ row' = handler.plan /\ UNCHANGED <<current, snaps, history>>
        /\ handler' = [handler EXCEPT !.pc = IF @ = "put" THEN "persist" ELSE "persist again"]
    BY DEF PutTaskPlan, browser
  <2>2. handler \in [pc : Pcs, plan : Plan \union {NoPlan}] /\ (handler.pc # "idle" => handler.plan \in Plan)
    BY DEF PlanInv, PlanTypes, Tables
  <2> QED
    BY <2>1, <2>2
<1>2. row' # NoPlan
  BY <1>1, RevisionsAssumption
<1>3. Synced' /\ NothingYet'
  BY <1>1, <1>2 DEF Synced, NothingYet
<1>4. SameIds'
  <2>1. SameId(handler.plan)
    BY <1>1 DEF ShownInv, SameIds
  <2>2. SameId(row') /\ SameId(handler'.plan)
    BY <1>1, <2>1
  <2> QED
    BY <2>2 DEF SameIds
<1> QED
  BY <1>1, <1>3, <1>4, CoveredStays DEF ShownInv

LEMMA PersistRevisionShown == PlanInv /\ ComingInv /\ ShownInv /\ PersistRevision => ShownInv'
<1> SUFFICES ASSUME PlanInv, ComingInv, ShownInv, PersistRevision PROVE ShownInv'
  OBVIOUS
<1> DEFINE p == handler.plan
           named == [p EXCEPT !.kind = TRUE]
<1>1. /\ handler.pc \in {"persist", "persist again"} /\ PublishDelta(Delta(named))
      /\ handler' = IF p.kind THEN NoHandler ELSE [pc |-> "put again", plan |-> named]
      /\ UNCHANGED <<row, watching, burst, current, snaps, history>>
  BY DEF PersistRevision, Published, browser
<1>2. p \in Plan /\ row = p /\ row # NoPlan /\ queue \in Seq(Frames) /\ burst \in Seq(Frames)
  <2>1. queue \in Seq(Frames) /\ burst \in Seq(Frames)
    BY DEF PlanInv, PlanTypes
  <2>2. p \in Plan /\ row = p
    BY <1>1 DEF PlanInv, Tables
  <2> QED
    BY <2>1, <2>2, RevisionsAssumption
<1>3. named \in Plan /\ named.tasks = p.tasks /\ (p.kind => named = p)
  BY <1>2, KindTyped
<1> HIDE DEF named
<1>4. Synced'
  <2>1. CASE ~p.kind
    BY <1>1, <2>1 DEF Synced
  <2>2. CASE p.kind
    <3>1. named = row /\ row' = row /\ current' = current
      BY <1>1, <1>2, <1>3, <2>2
    <3>2. watching' # "closed" => queue' = Append(queue, Delta(row))
      BY <1>1, <3>1 DEF PublishDelta
    <3>3. Told(row, Append(queue, Delta(row)), row)
      BY <1>2, ToldPlan
    <3>4. Told(current, burst \o Append(queue, Delta(row)), row)
      <4>1. Delta(row) \in Frames
        BY <1>2, DeltaFacts
      <4>2. burst \o Append(queue, Delta(row)) = Append(burst \o queue, Delta(row)) /\ burst \o queue \in Seq(Frames)
        BY <1>2, <4>1
      <4> QED
        BY <1>2, <4>2, ToldPlan
    <3>5. Told(row, queue, row)' <=> Told(row', queue', row')
      OBVIOUS
    <3>6. (watching' = "session" => Told(row', queue', row'))
          /\ (watching' = "tail" => Told(current', burst' \o queue', row'))
      BY <1>1, <3>1, <3>2, <3>3, <3>4
    <3> QED
      BY <3>6 DEF Synced
  <2> QED
    BY <2>1, <2>2
<1>5. SameIds'
  <2>1. SameId(row) /\ SameId(p)
    BY <1>2 DEF ShownInv, SameIds
  <2>2. SameId(row') /\ SameId(named)
    <3>1. SameId(row')
      BY <1>1, <2>1
    <3>2. SameId(named)
      BY <1>3, <2>1 DEF SameId
    <3> QED
      BY <3>1, <3>2
  <2>3. handler'.pc # "idle" => handler'.plan = named
    BY <1>1 DEF NoHandler
  <2>4. handler'.pc # "idle" => SameId(handler'.plan)
    BY <2>2, <2>3
  <2> QED
    BY <2>2, <2>4 DEF SameIds
<1>6. NothingYet'
  BY <1>1, <1>2 DEF NothingYet
<1> QED
  BY <1>1, <1>4, <1>5, <1>6, CoveredStays DEF ShownInv

LEMMA TaskEventShown == PlanInv /\ ShownInv /\ TaskEvent => ShownInv'
<1> SUFFICES ASSUME PlanInv, ShownInv, TaskEvent PROVE ShownInv'
  OBVIOUS
<1>1. PICK t \in TaskIds(row), n \in 2..3 :
        row' = WithStatus(row, t, StatusOrder[n]) /\ PublishDelta(TaskDelta(t, StatusOrder[n]))
  BY DEF TaskEvent
<1>2. /\ handler.pc = "idle" /\ row # NoPlan
      /\ UNCHANGED <<handler, watching, burst, current, snaps, history>>
  BY DEF TaskEvent, browser
<1> DEFINE st == StatusOrder[n]
           f == TaskDelta(t, st)
<1>3. row \in Plan /\ queue \in Seq(Frames) /\ burst \in Seq(Frames) /\ st \in TaskStatus
  BY <1>2 DEF PlanInv, PlanTypes, StatusOrder, TaskStatus
<1>4. t \in TaskId
  BY <1>3, TaskIdsTyped
<1> HIDE DEF st
<1>5. f \in Frames
  BY <1>3, <1>4, DeltaFacts DEF TaskStatus
<1>6. row' = WithStatus(row, t, st) /\ PublishDelta(f)
  BY <1>1 DEF st
<1>7. /\ row' \in Plan /\ DOMAIN row'.tasks = DOMAIN row.tasks
      /\ \A i \in DOMAIN row.tasks : /\ row'.tasks[i].id = row.tasks[i].id
                                     /\ row'.tasks[i].status = IF row.tasks[i].id = t THEN st ELSE row.tasks[i].status
  BY <1>3, <1>6, WithStatusTyped DEF TaskStatus
<1>8. watching # "closed" => queue' = Append(queue, f)
  BY <1>6 DEF PublishDelta
<1>9. Synced'
  <2>1. CASE watching = "session"
    <3>1. Told(row, queue, row)
      BY <1>2, <2>1 DEF ShownInv, Synced
    <3>2. Told(row, Append(queue, f), row')
      BY <1>3, <1>4, <1>6, <3>1, ToldTask
    <3>3. Append(queue, f) \in Seq(Frames)
      BY <1>3, <1>5
    <3>4. Told(row', queue', row')
      BY <1>7, <1>8, <2>1, <3>2, <3>3, ToldRow
    <3> QED
      BY <1>2, <2>1, <3>4 DEF Synced
  <2>2. CASE watching = "tail"
    <3>1. Told(current, burst \o queue, row) /\ burst \o queue \in Seq(Frames)
      BY <1>2, <1>3, <2>2 DEF ShownInv, Synced
    <3>2. burst \o Append(queue, f) = Append(burst \o queue, f)
      BY <1>3, <1>5
    <3>3. Told(current, Append(burst \o queue, f), row')
      BY <1>3, <1>4, <1>6, <3>1, ToldTask
    <3>4. Told(current', burst' \o queue', row')
      BY <1>2, <1>8, <2>2, <3>2, <3>3
    <3> QED
      BY <1>2, <2>2, <3>4 DEF Synced
  <2>3. CASE watching \notin {"session", "tail"}
    BY <1>2, <2>3 DEF Synced
  <2> QED
    BY <2>1, <2>2, <2>3
<1>10. SameIds'
  BY <1>2, <1>7 DEF ShownInv, SameIds, SameId
<1>11. NothingYet'
  BY <1>7, RevisionsAssumption DEF NothingYet
<1> QED
  BY <1>2, <1>9, <1>10, <1>11, CoveredStays DEF ShownInv

LEMMA StreamShown ==
  ASSUME PlanInv, ComingInv, ShownInv, OpenSession \/ ReplayPlans \/ LeaveSession
  PROVE  ShownInv'
<1>1. UNCHANGED <<row, handler, current, snaps, history>>
  BY DEF OpenSession, ReplayPlans, LeaveSession, serverVars, browser
<1>2. row \in Plan \union {NoPlan} /\ queue \in Seq(Frames) /\ burst \in Seq(Frames)
  BY DEF PlanInv, PlanTypes
<1>3. SameIds'
  BY <1>1 DEF ShownInv, SameIds, SameId
<1>4. CASE OpenSession
  <2>1. watching' = "session" /\ queue' = <<>> /\ burst' = burst
    BY <1>4 DEF OpenSession, ComingInv, Streams
  <2>2. row # NoPlan => Told(row', queue', row')
    BY <1>1, <1>2, <2>1, ToldNothing
  <2>3. Synced' /\ NothingYet'
    BY <1>1, <2>1, <2>2 DEF Synced, NothingYet, ShownInv
  <2> QED
    BY <1>1, <1>3, <2>3, CoveredStays DEF ShownInv
<1>5. CASE ReplayPlans
  <2>1. /\ watching = "session" /\ watching' = "tail" /\ queue' = queue
        /\ burst' = IF row = NoPlan THEN <<>> ELSE BurstOf(row)
    BY <1>5 DEF ReplayPlans, BurstOf
  <2>2. handler.pc \in {"idle", "put"} /\ row # NoPlan => Told(current, BurstOf(row) \o queue, row)
    <3> SUFFICES ASSUME handler.pc \in {"idle", "put"}, row # NoPlan
                 PROVE  Told(current, BurstOf(row) \o queue, row)
      OBVIOUS
    <3>1. row \in Plan /\ SameId(row) /\ Told(row, queue, row)
      BY <1>2, <2>1 DEF ShownInv, Synced, SameIds
    <3> QED
      BY <1>2, <3>1, ToldBurst
  <2>3. handler'.pc \in {"idle", "put"} /\ row' # NoPlan => Told(current', burst' \o queue', row')
    BY <1>1, <2>1, <2>2
  <2>4. Synced' /\ NothingYet'
    BY <1>1, <2>1, <2>3 DEF Synced, NothingYet, ShownInv
  <2> QED
    BY <1>1, <1>3, <2>4, CoveredStays DEF ShownInv
<1>6. CASE LeaveSession
  <2>1. watching' = "closed" /\ queue' = <<>> /\ burst' = <<>>
    BY <1>6 DEF LeaveSession
  <2>2. Synced' /\ NothingYet'
    BY <1>1, <2>1 DEF Synced, NothingYet, ShownInv
  <2> QED
    BY <1>1, <1>3, <2>2, CoveredStays DEF ShownInv
<1> QED
  BY <1>4, <1>5, <1>6

LEMMA RpcShown ==
  ASSUME PlanInv, ShownInv, CallPlanHistory \/ ListRevisions \/ BackfillRevisions \/ RpcFails \/ LoadPlanHistory
  PROVE  ShownInv'
<1>1. UNCHANGED <<row, handler, watching, queue, burst, current, snaps>>
  BY DEF CallPlanHistory, ListRevisions, BackfillRevisions, RpcFails, LoadPlanHistory, serverVars, stream, browser
<1>2. Synced'
  <2>1. (Told(row, queue, row) => Told(row', queue', row'))
        /\ (Told(current, burst \o queue, row) => Told(current', burst' \o queue', row'))
    BY <1>1
  <2> QED
    BY <1>1, <2>1 DEF ShownInv, Synced
<1>3. SameIds' /\ NothingYet'
  BY <1>1 DEF ShownInv, SameIds, SameId, NothingYet
<1>4. StreamCovered'
  <2>1. CASE ~LoadPlanHistory
    <3>1. history' = history
      BY <2>1 DEF CallPlanHistory, ListRevisions, BackfillRevisions, RpcFails, browser
    <3> QED
      BY <1>1, <3>1, CoveredStays DEF ShownInv
  <2>2. CASE LoadPlanHistory
    <3> DEFINE recs == [i \in DOMAIN rpc.answer |-> Record(rpc.answer[i], "rpc")]
    <3>1. history' = AppendAll(history, recs)
      BY <2>2 DEF LoadPlanHistory
    <3>2. recs \in Seq(Rec) /\ \A i \in DOMAIN recs : recs[i].source = "rpc"
      BY LoadedRecords
    <3> HIDE DEF recs
    <3>3. history \in Seq(Rec) /\ Sorted(history)
      BY DEF PlanInv, PlanTypes, HistorySorted, Sorted
    <3>4. Grown(history, history', {recs[i] : i \in DOMAIN recs})
      BY <3>1, <3>2, <3>3, AppendAllProperties
    <3>5. \A r : Covered(r) => Covered(r)'
      BY <1>1 DEF Covered
    <3>6. \A i \in DOMAIN history' : (\E j \in DOMAIN history : history'[i] = history[j]) \/ history'[i].source = "rpc"
      BY <3>2, <3>4 DEF Grown
    <3> QED
      BY <3>5, <3>6 DEF ShownInv, StreamCovered
  <2> QED
    BY <2>1, <2>2
<1> QED
  BY <1>2, <1>3, <1>4 DEF ShownInv

(* Reading a frame drops no revision from what the snapshots and the live  *)
(* plan cover, and a plan frame adds its own.                              *)
LEMMA ReadCovers ==
  ASSUME PlanInv, ShownInv, NEW f \in Frames, NEW source \in {"burst", "delta"}, ReadFrame(f, source),
         f.kind = "plan" => PlanTrue(f.plan) /\ (source = "delta" => f.plan.kind)
  PROVE  StreamCovered' /\ current' = Read(current, f)
<1>1. current \in Plan \union {NoPlan} /\ snaps \in Seq(Plan)
  BY DEF PlanInv, PlanTypes
<1>2. CASE f.kind = "plan"
  <2>1. current' = f.plan /\ snaps' = Snapshots(snaps, current, f.plan) /\ f.plan \in Plan /\ f.plan # NoPlan
    BY <1>2, FrameFacts, RevisionsAssumption DEF ReadFrame, ApplyPlan
  <2>2. ASSUME NEW r, Covered(r) PROVE Covered(r)'
    <3>1. CASE \E j \in DOMAIN snaps : snaps[j].revision = r
      <4>1. \A j \in DOMAIN snaps : j \in DOMAIN snaps' /\ snaps'[j] = snaps[j]
        BY <1>1, <2>1 DEF Snapshots
      <4> QED
        BY <3>1, <4>1 DEF Covered
    <3>2. CASE current # NoPlan /\ current.revision = r
      <4>1. CASE r = f.plan.revision
        BY <2>1, <4>1 DEF Covered
      <4>2. CASE r # f.plan.revision
        <5>1. snaps' = Append(snaps, current) /\ current \in Plan
          BY <1>1, <2>1, <3>2, <4>2 DEF Snapshots
        <5>2. Len(snaps) + 1 \in DOMAIN snaps' /\ snaps'[Len(snaps) + 1] = current
          BY <1>1, <5>1
        <5> QED
          BY <3>2, <5>2 DEF Covered
      <4> QED
        BY <4>1, <4>2
    <3> QED
      BY <2>2, <3>1, <3>2 DEF Covered
  <2>3. Covered(f.plan.revision)'
    BY <2>1 DEF Covered
  <2>4. Grown(history, history', {Record(f.plan, source)}) /\ Record(f.plan, source).revision = f.plan.revision
    BY <1>2, ReadHas DEF Record
  <2>5. \A i \in DOMAIN history' : (\E j \in DOMAIN history : history'[i] = history[j]) \/ history'[i].revision = f.plan.revision
    BY <2>4 DEF Grown
  <2> QED
    BY <1>2, <2>1, <2>2, <2>3, <2>5 DEF ShownInv, StreamCovered, Read
<1>3. CASE f.kind = "task"
  <2>1. /\ current' = Read(current, f) /\ history' = history /\ snaps' = snaps
        /\ f.status \in {"PENDING", "RUNNING", "COMPLETED"}
    BY <1>3, FrameFacts DEF ReadFrame, ApplyTask, KeepRecords, Read
  <2>2. current # NoPlan => current' # NoPlan /\ current'.revision = current.revision
    BY <1>1, <1>3, <2>1, WithStatusTyped, RevisionsAssumption DEF Read
  <2>3. \A r : Covered(r) => Covered(r)'
    BY <2>1, <2>2 DEF Covered
  <2> QED
    BY <2>1, <2>3 DEF ShownInv, StreamCovered
<1> QED
  BY <1>2, <1>3, FrameFacts

LEMMA ReadShown ==
  ASSUME PlanInv, ShownInv, ReadBurst \/ ReadDelta
  PROVE  ShownInv'
<1>1. UNCHANGED <<row, handler>> /\ watching = "tail" /\ watching' = watching
  BY DEF ReadBurst, ReadDelta, serverVars
<1>2. burst \in Seq(Frames) /\ queue \in Seq(Frames) /\ current \in Plan \union {NoPlan} /\ row \in Plan \union {NoPlan}
  BY DEF PlanInv, PlanTypes
<1>3. row # NoPlan
  BY DEF ShownInv, NothingYet, ReadBurst, ReadDelta
<1>4. SameIds' /\ NothingYet'
  BY <1>1, <1>3 DEF ShownInv, SameIds, SameId, NothingYet
<1> DEFINE s == burst \o queue
<1>5. s \in Seq(Frames)
  BY <1>2
<1>6. /\ s # <<>> /\ burst' \o queue' = Tail(s) /\ current' = Read(current, Head(s)) /\ StreamCovered'
  <2>1. CASE ReadBurst
    <3>1. burst # <<>> /\ burst' = Tail(burst) /\ queue' = queue /\ ReadFrame(Head(burst), "burst")
      BY <2>1 DEF ReadBurst
    <3>2. Head(burst) \in Frames /\ (Head(burst).kind = "plan" => PlanTrue(Head(burst).plan))
      <4>1. 1 \in DOMAIN burst /\ Head(burst) = burst[1] /\ Head(burst) \in Frames
        BY <1>2, <3>1, TailFacts
      <4> QED
        BY <4>1 DEF PlanInv, PlansTrue, FramesTrue
    <3>3. s # <<>> /\ Tail(s) = Tail(burst) \o queue /\ Head(s) = Head(burst)
      BY <1>2, <3>1
    <3>4. current' = Read(current, Head(burst)) /\ StreamCovered'
      BY <3>1, <3>2, ReadCovers
    <3> QED
      BY <3>1, <3>3, <3>4
  <2>2. CASE ReadDelta
    <3>1. burst = <<>> /\ burst' = burst /\ queue # <<>> /\ queue' = Tail(queue) /\ ReadFrame(Head(queue), "delta")
      BY <2>2 DEF ReadDelta
    <3>2. Head(queue) \in Frames /\ (Head(queue).kind = "plan" => PlanTrue(Head(queue).plan) /\ Head(queue).plan.kind)
      <4>1. 1 \in DOMAIN queue /\ Head(queue) = queue[1] /\ Head(queue) \in Frames
        BY <1>2, <3>1, TailFacts
      <4> QED
        BY <4>1 DEF PlanInv, PlansTrue, FramesTrue
    <3>3. s = queue /\ <<>> \o Tail(queue) = Tail(queue)
      BY <1>2, <3>1, TailFacts
    <3>4. current' = Read(current, Head(queue)) /\ StreamCovered'
      BY <3>1, <3>2, ReadCovers
    <3> QED
      BY <3>1, <3>3, <3>4
  <2> QED
    BY <2>1, <2>2
<1> HIDE DEF s
<1>7. Synced'
  <2> SUFFICES ASSUME handler.pc \in {"idle", "put"} PROVE Told(current', burst' \o queue', row')
    BY <1>1 DEF Synced
  <2>1. Told(current, s, row)
    BY <1>1, <1>3 DEF ShownInv, Synced, s
  <2>2. Told(Read(current, Head(s)), Tail(s), row)
    BY <1>2, <1>3, <1>5, <1>6, <2>1, ToldRead
  <2> QED
    BY <1>1, <1>6, <2>2
<1> QED
  BY <1>4, <1>6, <1>7 DEF ShownInv

LEMMA NextShownInv == PlanInv /\ ComingInv /\ ShownInv /\ [PlansNext]_planVars => ShownInv'
<1> SUFFICES ASSUME PlanInv, ComingInv, ShownInv, [PlansNext]_planVars PROVE ShownInv'
  OBVIOUS
<1>1. CASE UNCHANGED planVars
  <2>1. UNCHANGED <<row, handler, watching, burst, queue, history, current, snaps>>
    BY <1>1 DEF planVars, serverVars, stream, browser
  <2>2. (Told(row, queue, row) => Told(row', queue', row'))
        /\ (Told(current, burst \o queue, row) => Told(current', burst' \o queue', row'))
    BY <2>1
  <2>3. Synced'
    BY <2>1, <2>2 DEF ShownInv, Synced
  <2> QED
    BY <2>1, <2>3, CoveredStays DEF ShownInv, SameIds, SameId, NothingYet
<1>2. CASE (\E inline \in BOOLEAN : PlanEvent(inline)) \/ TaskEvent \/ PutTaskPlan \/ PersistRevision
  BY <1>2, PlanEventShown, TaskEventShown, PutTaskPlanShown, PersistRevisionShown
<1>3. CASE OpenSession \/ ReplayPlans \/ LeaveSession \/ ReadBurst \/ ReadDelta
  BY <1>3, StreamShown, ReadShown
<1>4. CASE CallPlanHistory \/ ListRevisions \/ BackfillRevisions \/ RpcFails \/ LoadPlanHistory
  BY <1>4, RpcShown
<1> QED
  BY <1>1, <1>2, <1>3, <1>4 DEF PlansNext

LEMMA ShownInvImplies == PlanInv /\ ShownInv => PlansCatchUp
<1> SUFFICES ASSUME PlanInv, ShownInv PROVE PlansCatchUp
  OBVIOUS
<1>1. row \in Plan \union {NoPlan} /\ current \in Plan \union {NoPlan} /\ snaps \in Seq(Plan)
  BY DEF PlanInv, PlanTypes
<1>2. PlanCatchesUp
  <2> SUFFICES ASSUME Quiet PROVE current = row
    BY DEF PlanCatchesUp
  <2>1. CASE row = NoPlan
    BY <2>1 DEF ShownInv, NothingYet
  <2>2. CASE row # NoPlan
    <3>1. <<>> \o <<>> = <<>>
      OBVIOUS
    <3>2. Told(current, <<>>, row)
      BY <2>2, <3>1 DEF ShownInv, Synced, Quiet
    <3> QED
      BY <1>1, <2>2, <3>2, ToldNothing
  <2> QED
    BY <2>1, <2>2
<1>3. SnapshotsCoverStream
  <2>1. ASSUME NEW r, Covered(r) PROVE \E j \in DOMAIN AllRevs(snaps, current) : AllRevs(snaps, current)[j].revision = r
    <3>1. CASE current = NoPlan
      BY <2>1, <3>1 DEF Covered, AllRevs
    <3>2. CASE current # NoPlan
      <4>1. AllRevs(snaps, current) = Append(snaps, current)
        BY <3>2 DEF AllRevs
      <4>2. /\ \A j \in DOMAIN snaps : j \in DOMAIN Append(snaps, current) /\ Append(snaps, current)[j] = snaps[j]
            /\ Len(snaps) + 1 \in DOMAIN Append(snaps, current) /\ Append(snaps, current)[Len(snaps) + 1] = current
        BY <1>1, <3>2
      <4> QED
        BY <2>1, <4>1, <4>2 DEF Covered
    <3> QED
      BY <3>1, <3>2
  <2> QED
    BY <2>1 DEF ShownInv, StreamCovered, SnapshotsCoverStream
<1> QED
  BY <1>2, <1>3 DEF PlansCatchUp

(* A browser that has read all it was sent shows the stored plan with the  *)
(* stored statuses, though deltas older than the burst came after it, and  *)
(* its snapshots cover the revisions that came on the stream               *)
(* (TaskRegistry.upsertPlan, updateTaskStatus).                            *)
THEOREM PlanIsShown == PlansSpec => []PlansCatchUp
<1>1. PlansInit => PlanInv /\ ComingInv /\ ShownInv
  BY InitPlanInv, InitComingInv, InitShownInv
<1>2. (PlanInv /\ ComingInv /\ ShownInv) /\ [PlansNext]_planVars => (PlanInv /\ ComingInv /\ ShownInv)'
  BY NextPlanInv, NextComingInv, NextShownInv
<1> QED
  BY <1>1, <1>2, ShownInvImplies, PTL DEF PlansSpec
-----------------------------------------------------------------------------
(* What the registry folds over the history.  A fold over a sequence is a  *)
(* run of its steps, when the steps stay in a set.                         *)

(* What holds at first, and from each number to the next, holds at the end. *)
LEMMA StepsReach ==
  ASSUME NEW n \in Nat, NEW r, NEW A, r[0] \in A[0],
         \A k \in 1 .. n : r[k - 1] \in A[k - 1] => r[k] \in A[k]
  PROVE  \A k \in 0 .. n : r[k] \in A[k]
<1> SUFFICES ASSUME NEW m \in 0 .. n, r[m] \notin A[m] PROVE FALSE
  OBVIOUS
<1> DEFINE T == {k \in 0 .. n : r[k] \notin A[k]}
<1>1. PICK x \in T : \A y \in T : x <= y
  <2>1. T \in SUBSET Nat /\ T # {}
    OBVIOUS
  <2> HIDE DEF T
  <2> QED
    BY <2>1, LeastNumber
<1>2. x \in 1 .. n /\ x - 1 \in 0 .. n
  BY <1>1
<1>3. x - 1 \notin T
  BY <1>1, <1>2
<1>4. r[x - 1] \in A[x - 1]
  BY <1>2, <1>3
<1>5. r[x] \in A[x]
  BY <1>2, <1>4
<1> QED
  BY <1>1, <1>5

LEMMA FoldSets ==
  ASSUME NEW n \in Nat
  PROVE  /\ \A s \in SUBSET (1 .. n) : s # {} => Max(s) \in s
         /\ \A k \in 1 .. n : /\ 1 .. k \in SUBSET (1 .. n) /\ 1 .. k # {} /\ Max(1 .. k) = k
                              /\ (1 .. k) \ {k} = 1 .. (k - 1)
         /\ 1 .. 0 = {}
<1>1. ASSUME NEW s \in SUBSET (1 .. n), s # {} PROVE Max(s) \in s
  <2> DEFINE T == {n - y : y \in s}
  <2>1. PICK z \in T : \A y \in T : z <= y
    <3>1. \A y \in s : n - y \in Nat
      OBVIOUS
    <3>2. T \in SUBSET Nat /\ T # {}
      BY <1>1, <3>1
    <3> HIDE DEF T
    <3> QED
      BY <3>2, LeastNumber
  <2>2. PICK x \in s : z = n - x
    BY <2>1
  <2>3. \A y \in s : n - x <= n - y
    BY <2>1, <2>2
  <2>4. \A y \in s : x >= y
    BY <2>3
  <2> QED
    BY <2>4 DEF Max
<1>2. ASSUME NEW k \in 1 .. n
      PROVE  /\ 1 .. k \in SUBSET (1 .. n) /\ 1 .. k # {} /\ Max(1 .. k) = k
             /\ (1 .. k) \ {k} = 1 .. (k - 1)
  <2>1. k - 1 \in Nat /\ k - 1 + 1 = k /\ 1 .. k \in SUBSET (1 .. k) /\ k \in 1 .. k
    OBVIOUS
  <2>2. Max(1 .. k) = k
    BY <2>1, MaxIsLast
  <2> QED
    BY <2>2
<1> QED
  BY <1>1, <1>2

(* The function by which a fold is defined exists, for steps on a set.     *)
Folded(g, h, F, m) ==
  \A s \in SUBSET (1 .. m) : g[s] = IF s = {} THEN h ELSE F[Max(s)][g[s \ {Max(s)}]]

LEMMA FoldFunctionExists ==
  ASSUME NEW D, NEW h \in D, NEW n \in Nat, NEW F \in [1 .. n -> [D -> D]]
  PROVE  \E g \in [SUBSET (1 .. n) -> D] : Folded(g, h, F, n)
<1> DEFINE S(k) == {g \in [SUBSET (1 .. k) -> D] : Folded(g, h, F, k)}
           A == [k \in 0 .. n |-> {x \in {S(k)} : x # {}}]
           r == [k \in 0 .. n |-> S(k)]
<1>1. S(0) # {}
  <2> DEFINE g == [s \in SUBSET (1 .. 0) |-> h]
  <2>0. g \in [SUBSET (1 .. 0) -> D] /\ \A s \in SUBSET (1 .. 0) : s = {} /\ g[s] = h
    OBVIOUS
  <2> HIDE DEF g
  <2>1. g \in [SUBSET (1 .. 0) -> D] /\ Folded(g, h, F, 0)
    BY <2>0 DEF Folded
  <2> QED
    BY <2>1
<1>2. ASSUME NEW k \in 0 .. n, k < n, S(k) # {} PROVE S(k + 1) # {}
  <2>1. k \in Nat /\ k + 1 \in 1 .. n
    BY <1>2
  <2>2. PICK g \in [SUBSET (1 .. k) -> D] : Folded(g, h, F, k)
    BY <1>2
  <2> DEFINE f == [s \in SUBSET (1 .. k + 1) |-> IF k + 1 \in s THEN F[k + 1][g[s \ {k + 1}]] ELSE g[s]]
  <2>3. ASSUME NEW s \in SUBSET (1 .. k + 1)
        PROVE  f[s] \in D /\ f[s] = IF s = {} THEN h ELSE F[Max(s)][f[s \ {Max(s)}]]
    <3>1. CASE k + 1 \in s
      <4>1. Max(s) = k + 1 /\ s # {}
        BY <2>1, <3>1, MaxIsLast
      <4>2. k + 1 \notin s \ {k + 1} /\ s \ {k + 1} \in SUBSET (1 .. k + 1) /\ s \ {k + 1} \in SUBSET (1 .. k)
        BY <2>1
      <4>3. f[s \ {k + 1}] = g[s \ {k + 1}] /\ g[s \ {k + 1}] \in D
        BY <4>2
      <4>4. f[s] = F[k + 1][g[s \ {k + 1}]]
        BY <3>1
      <4> HIDE DEF f
      <4>5. F[k + 1][g[s \ {k + 1}]] \in D
        BY <2>1, <4>3
      <4> QED
        BY <4>1, <4>3, <4>4, <4>5
    <3>2. CASE k + 1 \notin s
      <4>1. s \in SUBSET (1 .. k)
        BY <2>1, <3>2
      <4>2. g[s] = IF s = {} THEN h ELSE F[Max(s)][g[s \ {Max(s)}]]
        BY <2>2, <4>1 DEF Folded
      <4>3. k + 1 \notin s \ {Max(s)} /\ s \ {Max(s)} \in SUBSET (1 .. k + 1)
        BY <3>2
      <4>4. f[s \ {Max(s)}] = g[s \ {Max(s)}] /\ f[s] = g[s] /\ g[s] \in D
        BY <3>2, <4>1, <4>3
      <4> HIDE DEF f
      <4> QED
        BY <4>2, <4>4
    <3> QED
      BY <3>1, <3>2
  <2>4. f \in [SUBSET (1 .. k + 1) -> D]
    BY <2>3
  <2> HIDE DEF f
  <2>5. Folded(f, h, F, k + 1)
    BY <2>3 DEF Folded
  <2> QED
    BY <2>4, <2>5
<1> HIDE DEF S
<1>3. \A k \in 0 .. n : r[k] \in A[k]
  <2>1. r[0] \in A[0]
    BY <1>1
  <2>2. ASSUME NEW k \in 1 .. n, r[k - 1] \in A[k - 1] PROVE r[k] \in A[k]
    <3>1. k - 1 \in 0 .. n /\ k - 1 < n /\ k - 1 + 1 = k
      OBVIOUS
    <3>2. S(k - 1) # {}
      BY <2>2, <3>1
    <3>3. S(k) # {}
      BY <1>2, <3>1, <3>2
    <3> QED
      BY <3>3
  <2> HIDE DEF r, A
  <2> QED
    BY <2>1, <2>2, StepsReach
<1>4. S(n) # {}
  BY <1>3
<1> QED
  BY <1>4 DEF S

(* r is the run of the steps F from h to end.                              *)
IsRun(r, D, h, n, F, end) ==
  /\ r \in [0 .. n -> D] /\ r[0] = h /\ r[n] = end
  /\ \A k \in 1 .. n : r[k] = F[k][r[k - 1]]

LEMMA FoldRuns ==
  ASSUME NEW D, NEW h \in D, NEW n \in Nat, NEW F \in [1 .. n -> [D -> D]], NEW g, g[{}] = h,
         \A k \in 1 .. n : g[1 .. (k - 1)] \in D => g[1 .. k] = F[k][g[1 .. (k - 1)]]
  PROVE  \E r : IsRun(r, D, h, n, F, g[1 .. n])
<1> DEFINE r == [k \in 0 .. n |-> g[1 .. k]]
           A == [k \in 0 .. n |-> D]
<1>0. \A k \in 0 .. n : r[k] = g[1 .. k] /\ A[k] = D
  OBVIOUS
<1>1. r[0] = h /\ r[0] \in A[0]
  <2>1. 1 .. 0 = {} /\ 0 \in 0 .. n
    OBVIOUS
  <2> HIDE DEF r, A
  <2> QED
    BY <1>0, <2>1
<1>2. ASSUME NEW k \in 1 .. n, r[k - 1] \in A[k - 1] PROVE r[k] \in A[k] /\ r[k] = F[k][r[k - 1]]
  <2>1. k \in 0 .. n /\ k - 1 \in 0 .. n
    OBVIOUS
  <2> HIDE DEF r, A
  <2> QED
    BY <1>0, <1>2, <2>1
<1>3. r = [k \in 0 .. n |-> r[k]] /\ n \in 0 .. n /\ \A k \in 1 .. n : k - 1 \in 0 .. n
  OBVIOUS
<1> HIDE DEF r, A
<1>4. \A k \in 0 .. n : r[k] \in A[k]
  BY <1>1, <1>2, StepsReach
<1>5. r \in [0 .. n -> D]
  BY <1>0, <1>3, <1>4
<1>6. IsRun(r, D, h, n, F, g[1 .. n])
  BY <1>0, <1>1, <1>2, <1>3, <1>4, <1>5 DEF IsRun
<1> QED
  BY <1>6

-----------------------------------------------------------------------------
(* cumulativePlan.                                                         *)
MetaRec == [introduced : Nat, modified : Nat, fingerprint : TaskStatus]
Metas == UNION {[S -> MetaRec] : S \in SUBSET TaskId}

LEMMA MetaFacts ==
  /\ \A m \in Metas : /\ DOMAIN m \subseteq TaskId /\ m = [t \in DOMAIN m |-> m[t]]
                      /\ \A t \in DOMAIN m : m[t] \in MetaRec
  /\ \A S \in SUBSET TaskId : \A m \in [S -> MetaRec] : m \in Metas
  /\ <<>> \in Metas /\ DOMAIN <<>> = {}
<1>1. <<>> = [t \in {} |-> t]
  OBVIOUS
<1>2. <<>> \in [{} -> MetaRec]
  BY <1>1
<1>3. ASSUME NEW m \in Metas
      PROVE  /\ DOMAIN m \subseteq TaskId /\ m = [t \in DOMAIN m |-> m[t]]
             /\ \A t \in DOMAIN m : m[t] \in MetaRec
  <2>1. PICK S \in SUBSET TaskId : m \in [S -> MetaRec]
    BY DEF Metas
  <2> QED
    BY <2>1
<1>4. ASSUME NEW S \in SUBSET TaskId, NEW m \in [S -> MetaRec] PROVE m \in Metas
  BY DEF Metas
<1>5. <<>> \in Metas /\ DOMAIN <<>> = {}
  <2>1. {} \in SUBSET TaskId
    OBVIOUS
  <2> QED
    BY <1>1, <1>2, <1>4, <2>1
<1> QED
  BY <1>3, <1>4, <1>5

(* What the tasks S of revision r make of m1.                              *)
Met(m1, m2, S, r) ==
  /\ DOMAIN m2 = DOMAIN m1 \union S
  /\ \A t \in DOMAIN m1 : /\ m2[t].introduced = m1[t].introduced
                          /\ m2[t].modified = m1[t].modified \/ (t \in S /\ m2[t].modified = r)
  /\ \A t \in S : t \notin DOMAIN m1 => m2[t].introduced = r /\ m2[t].modified = r

LEMMA MeetTaskMeets ==
  ASSUME NEW m \in Metas, NEW r \in Nat, NEW task \in Task
  PROVE  MeetTask(m, r, task) \in Metas /\ Met(m, MeetTask(m, r, task), {task.id}, r)
<1> DEFINE m2 == MeetTask(m, r, task)
<1>1. task.id \in TaskId /\ task.status \in TaskStatus /\ DOMAIN m \subseteq TaskId
  BY MetaFacts DEF Task, TaskStatus
<1>2. CASE task.id \notin DOMAIN m
  <2> DEFINE new == [introduced |-> r, modified |-> r, fingerprint |-> task.status]
  <2>1. m2 = [t \in DOMAIN m \union {task.id} |-> IF t = task.id THEN new ELSE m[t]]
    BY <1>2 DEF MeetTask
  <2>2. new \in MetaRec /\ new.introduced = r /\ new.modified = r
    BY <1>1 DEF MetaRec
  <2> HIDE DEF m2, new
  <2>3. m2 \in [DOMAIN m \union {task.id} -> MetaRec] /\ DOMAIN m \union {task.id} \subseteq TaskId
    BY <1>1, <2>1, <2>2, MetaFacts
  <2>4. m2 \in Metas
    BY <2>3, MetaFacts
  <2>5. Met(m, m2, {task.id}, r)
    BY <1>2, <2>1, <2>2 DEF Met
  <2> QED
    BY <2>4, <2>5 DEF m2
<1>3. CASE task.id \in DOMAIN m
  <2> DEFINE old == m[task.id]
             new == [old EXCEPT !.modified = IF old.fingerprint = task.status THEN @ ELSE r,
                                !.fingerprint = task.status]
  <2>1. old \in MetaRec
    BY <1>3, MetaFacts
  <2>2. new \in MetaRec /\ new.introduced = old.introduced /\ new.modified \in {old.modified, r}
    BY <1>1, <2>1 DEF MetaRec
  <2>3. m2 = [m EXCEPT ![task.id] = new]
    BY <1>3, MetaFacts DEF MeetTask
  <2> HIDE DEF m2, new
  <2>4. m2 \in [DOMAIN m -> MetaRec]
    BY <2>2, <2>3, MetaFacts
  <2>5. m2 \in Metas
    BY <1>1, <2>4, MetaFacts
  <2>6. \A t \in DOMAIN m : m2[t] = IF t = task.id THEN new ELSE m[t]
    BY <2>3, MetaFacts
  <2>7. Met(m, m2, {task.id}, r)
    BY <1>3, <2>2, <2>4, <2>6 DEF Met
  <2> QED
    BY <2>5, <2>7 DEF m2
<1> QED
  BY <1>2, <1>3

LEMMA MetTwice ==
  ASSUME NEW m1, NEW m2, NEW m3, NEW S, NEW T, NEW r, Met(m1, m2, S, r), Met(m2, m3, T, r)
  PROVE  Met(m1, m3, S \union T, r)
BY DEF Met

(* The parts of a record.                                                  *)
LEMMA RecordParts ==
  ASSUME NEW rec \in Rec
  PROVE  /\ rec.revision \in Nat /\ rec.plan \in Plan /\ rec.plan.tasks \in Seq(Task)
         /\ TaskIds(rec.plan) \subseteq TaskId
         /\ TaskIds(rec.plan) = {rec.plan.tasks[i].id : i \in 1 .. Len(rec.plan.tasks)}
         /\ Len(rec.plan.tasks) \in Nat /\ DOMAIN rec.plan.tasks = 1 .. Len(rec.plan.tasks)
         /\ \A i \in 1 .. Len(rec.plan.tasks) : rec.plan.tasks[i] \in Task /\ rec.plan.tasks[i].id \in TaskId
<1>1. rec.revision \in Nat /\ rec.plan \in Plan /\ rec.plan.tasks \in Seq(Task)
  BY DEF Rec, Plan
<1>2. Len(rec.plan.tasks) \in Nat /\ DOMAIN rec.plan.tasks = 1 .. Len(rec.plan.tasks)
  BY <1>1
<1>3. \A i \in 1 .. Len(rec.plan.tasks) : rec.plan.tasks[i] \in Task
  BY <1>1
<1>4. \A i \in 1 .. Len(rec.plan.tasks) : rec.plan.tasks[i].id \in TaskId
  BY <1>3 DEF Task
<1>5. TaskIds(rec.plan) = {rec.plan.tasks[i].id : i \in 1 .. Len(rec.plan.tasks)}
  BY <1>2 DEF TaskIds
<1>6. TaskIds(rec.plan) \subseteq TaskId
  BY <1>4, <1>5
<1> QED
  BY <1>1, <1>2, <1>3, <1>4, <1>5, <1>6

TasksSolves(g, m, r0, ts, n) ==
  g = [s \in SUBSET (1 .. n) |-> IF s = {} THEN m ELSE MeetTask(g[s \ {Max(s)}], r0, ts[Max(s)])]

LEMMA TasksFold ==
  ASSUME NEW m \in Metas, NEW r0 \in Nat, NEW ts \in Seq(Task)
  PROVE  \E r \in [0 .. Len(ts) -> Metas] :
           /\ r[0] = m /\ r[Len(ts)] = FoldLeft(LAMBDA d, task : MeetTask(d, r0, task), m, ts)
           /\ \A k \in 1 .. Len(ts) : r[k] = MeetTask(r[k - 1], r0, ts[k])
<1> DEFINE n == Len(ts)
           F == [k \in 1 .. n |-> [d \in Metas |-> MeetTask(d, r0, ts[k])]]
           g == CHOOSE g : TasksSolves(g, m, r0, ts, n)
<1>1. n \in Nat /\ DOMAIN ts = 1 .. n /\ \A k \in 1 .. n : ts[k] \in Task
  BY DEF n
<1>2. \A k \in 1 .. n, d \in Metas : F[k][d] = MeetTask(d, r0, ts[k]) /\ F[k][d] \in Metas
  BY <1>1, MeetTaskMeets
<1> HIDE DEF n
<1>3. F \in [1 .. n -> [Metas -> Metas]]
  BY <1>2
<1>4. FoldLeft(LAMBDA d, task : MeetTask(d, r0, task), m, ts) = g[1 .. n]
  BY <1>1 DEF FoldLeft, MapThenFoldSet, TasksSolves
<1> HIDE DEF F, g
<1>5. TasksSolves(g, m, r0, ts, n)
  <2>1. PICK f \in [SUBSET (1 .. n) -> Metas] : Folded(f, m, F, n)
    BY <1>1, <1>3, FoldFunctionExists
  <2>2. ASSUME NEW s \in SUBSET (1 .. n)
        PROVE  f[s] = IF s = {} THEN m ELSE MeetTask(f[s \ {Max(s)}], r0, ts[Max(s)])
    <3>1. s \ {Max(s)} \in SUBSET (1 .. n) /\ (s # {} => Max(s) \in 1 .. n)
      BY <1>1, FoldSets
    <3>2. f[s \ {Max(s)}] \in Metas
      BY <3>1
    <3> QED
      BY <1>2, <2>1, <3>1, <3>2 DEF Folded
  <2>3. f = [s \in SUBSET (1 .. n) |-> f[s]]
    OBVIOUS
  <2>4. TasksSolves(f, m, r0, ts, n)
    BY <2>2, <2>3 DEF TasksSolves
  <2> QED
    BY <2>4 DEF g
<1>6. \A s \in SUBSET (1 .. n) : g[s] = IF s = {} THEN m ELSE MeetTask(g[s \ {Max(s)}], r0, ts[Max(s)])
  BY <1>5 DEF TasksSolves
<1>7. g[{}] = m
  BY <1>6
<1>8. ASSUME NEW k \in 1 .. n, g[1 .. (k - 1)] \in Metas PROVE g[1 .. k] = F[k][g[1 .. (k - 1)]]
  <2>1. 1 .. k \in SUBSET (1 .. n) /\ 1 .. k # {} /\ Max(1 .. k) = k /\ (1 .. k) \ {k} = 1 .. (k - 1)
    BY <1>1, FoldSets
  <2>2. g[1 .. k] = MeetTask(g[1 .. (k - 1)], r0, ts[k])
    BY <1>6, <2>1
  <2> QED
    BY <1>2, <1>8, <2>2
<1>9. PICK r : IsRun(r, Metas, m, n, F, g[1 .. n])
  BY <1>1, <1>3, <1>7, <1>8, FoldRuns
<1>10. \A k \in 1 .. n : r[k] = MeetTask(r[k - 1], r0, ts[k])
  <2>1. \A k \in 1 .. n : r[k - 1] \in Metas
    BY <1>1, <1>9 DEF IsRun
  <2> QED
    BY <1>2, <1>9, <2>1 DEF IsRun
<1> QED
  BY <1>4, <1>9, <1>10 DEF n, IsRun

LEMMA MeetRevisionMeets ==
  ASSUME NEW m \in Metas, NEW rec \in Rec
  PROVE  MeetRevision(m, rec) \in Metas /\ Met(m, MeetRevision(m, rec), TaskIds(rec.plan), rec.revision)
<1> DEFINE ts == rec.plan.tasks
           n == Len(ts)
           ids(k) == {ts[j].id : j \in 1 .. k}
           A == [k \in 0 .. n |-> {d \in Metas : Met(m, d, ids(k), rec.revision)}]
<1>1. n \in Nat /\ rec.revision \in Nat /\ ts \in Seq(Task) /\ TaskIds(rec.plan) = ids(n)
      /\ \A k \in 1 .. n : ts[k] \in Task
  BY RecordParts
<1>2. PICK r \in [0 .. n -> Metas] :
         /\ r[0] = m /\ r[n] = MeetRevision(m, rec)
         /\ \A k \in 1 .. n : r[k] = MeetTask(r[k - 1], rec.revision, ts[k])
  <2> DEFINE r0 == rec.revision
             end == FoldLeft(LAMBDA d, task : MeetTask(d, r0, task), m, ts)
  <2>1. MeetRevision(m, rec) = end
    BY DEF MeetRevision
  <2>2. r0 \in Nat /\ ts \in Seq(Task)
    BY <1>1
  <2> HIDE DEF r0, ts
  <2>3. \E r \in [0 .. n -> Metas] : /\ r[0] = m /\ r[n] = end
                                    /\ \A k \in 1 .. n : r[k] = MeetTask(r[k - 1], r0, ts[k])
    BY <2>2, TasksFold
  <2> QED
    BY <2>1, <2>3 DEF r0
<1>3. r[0] \in A[0]
  <2>1. ids(0) = {} /\ 0 \in 0 .. n
    BY <1>1
  <2>2. Met(m, m, {}, rec.revision)
    BY DEF Met
  <2> HIDE DEF ids
  <2> QED
    BY <1>2, <2>1, <2>2
<1>4. ASSUME NEW k \in 1 .. n, r[k - 1] \in A[k - 1] PROVE r[k] \in A[k]
  <2>1. k \in 0 .. n /\ k - 1 \in 0 .. n
    BY <1>1
  <2>2. r[k - 1] \in Metas /\ Met(m, r[k - 1], ids(k - 1), rec.revision)
    BY <1>4, <2>1
  <2>3. ids(k) = ids(k - 1) \union {ts[k].id}
    <3>1. 1 .. k = (1 .. (k - 1)) \union {k}
      BY <1>1
    <3> QED
      BY <3>1
  <2> HIDE DEF ids, ts, n
  <2>4. r[k] \in Metas /\ Met(r[k - 1], r[k], {ts[k].id}, rec.revision)
    BY <1>1, <1>2, <2>2, MeetTaskMeets
  <2>5. Met(m, r[k], ids(k), rec.revision)
    BY <2>2, <2>3, <2>4, MetTwice
  <2> QED
    BY <2>1, <2>4, <2>5
<1> HIDE DEF A, ids, ts, n
<1>5. \A k \in 0 .. n : r[k] \in A[k]
  BY <1>1, <1>3, <1>4, StepsReach
<1>6. n \in 0 .. n
  BY <1>1
<1> QED
  BY <1>1, <1>2, <1>5, <1>6 DEF A

RevisionsSolves(g, h, n) ==
  g = [s \in SUBSET (1 .. n) |-> IF s = {} THEN <<>> ELSE MeetRevision(g[s \ {Max(s)}], h[Max(s)])]

LEMMA RevisionsFold ==
  ASSUME NEW h \in Seq(Rec)
  PROVE  \E r \in [0 .. Len(h) -> Metas] :
           /\ r[0] = <<>> /\ r[Len(h)] = FoldLeft(MeetRevision, <<>>, h)
           /\ \A k \in 1 .. Len(h) : r[k] = MeetRevision(r[k - 1], h[k])
<1> DEFINE n == Len(h)
           F == [k \in 1 .. n |-> [d \in Metas |-> MeetRevision(d, h[k])]]
           g == CHOOSE g : RevisionsSolves(g, h, n)
<1>1. n \in Nat /\ <<>> \in Metas /\ DOMAIN h = 1 .. n /\ \A k \in 1 .. n : h[k] \in Rec
  BY MetaFacts DEF n
<1>2. \A k \in 1 .. n, d \in Metas : F[k][d] = MeetRevision(d, h[k]) /\ F[k][d] \in Metas
  BY <1>1, MeetRevisionMeets
<1> HIDE DEF n
<1>3. F \in [1 .. n -> [Metas -> Metas]]
  BY <1>2
<1>4. FoldLeft(MeetRevision, <<>>, h) = g[1 .. n]
  BY <1>1 DEF FoldLeft, MapThenFoldSet, RevisionsSolves
<1> HIDE DEF F, g
<1>5. RevisionsSolves(g, h, n)
  <2>1. PICK f \in [SUBSET (1 .. n) -> Metas] : Folded(f, <<>>, F, n)
    BY <1>1, <1>3, FoldFunctionExists
  <2>2. ASSUME NEW s \in SUBSET (1 .. n)
        PROVE  f[s] = IF s = {} THEN <<>> ELSE MeetRevision(f[s \ {Max(s)}], h[Max(s)])
    <3>1. s \ {Max(s)} \in SUBSET (1 .. n) /\ (s # {} => Max(s) \in 1 .. n)
      BY <1>1, FoldSets
    <3>2. f[s \ {Max(s)}] \in Metas
      BY <3>1
    <3> QED
      BY <1>2, <2>1, <3>1, <3>2 DEF Folded
  <2>3. f = [s \in SUBSET (1 .. n) |-> f[s]]
    OBVIOUS
  <2>4. RevisionsSolves(f, h, n)
    BY <2>2, <2>3 DEF RevisionsSolves
  <2> QED
    BY <2>4 DEF g
<1>6. \A s \in SUBSET (1 .. n) : g[s] = IF s = {} THEN <<>> ELSE MeetRevision(g[s \ {Max(s)}], h[Max(s)])
  BY <1>5 DEF RevisionsSolves
<1>7. g[{}] = <<>>
  BY <1>6
<1>8. ASSUME NEW k \in 1 .. n, g[1 .. (k - 1)] \in Metas PROVE g[1 .. k] = F[k][g[1 .. (k - 1)]]
  <2>1. 1 .. k \in SUBSET (1 .. n) /\ 1 .. k # {} /\ Max(1 .. k) = k /\ (1 .. k) \ {k} = 1 .. (k - 1)
    BY <1>1, FoldSets
  <2>2. g[1 .. k] = MeetRevision(g[1 .. (k - 1)], h[k])
    BY <1>6, <2>1
  <2> QED
    BY <1>2, <1>8, <2>2
<1>9. PICK r : IsRun(r, Metas, <<>>, n, F, g[1 .. n])
  BY <1>1, <1>3, <1>7, <1>8, FoldRuns
<1>10. \A k \in 1 .. n : r[k] = MeetRevision(r[k - 1], h[k])
  <2>1. \A k \in 1 .. n : r[k - 1] \in Metas
    BY <1>1, <1>9 DEF IsRun
  <2> QED
    BY <1>2, <1>9, <2>1 DEF IsRun
<1> QED
  BY <1>4, <1>9, <1>10 DEF n, IsRun

(* What a pass over the first k records knows.                             *)
SeenBy(h, k) == UNION {TaskIds(h[i].plan) : i \in 1 .. k}
Known(h, m, k) ==
  /\ DOMAIN m = SeenBy(h, k)
  /\ \A t \in DOMAIN m :
       /\ \E i \in 1 .. k : /\ t \in TaskIds(h[i].plan) /\ m[t].introduced = h[i].revision
                            /\ t \notin SeenBy(h, i - 1)
       /\ \E i \in 1 .. k : t \in TaskIds(h[i].plan) /\ m[t].modified = h[i].revision

LEMMA KnownMore ==
  ASSUME NEW h, NEW m, NEW m2, NEW k \in Nat, Known(h, m, k),
         Met(m, m2, TaskIds(h[k + 1].plan), h[k + 1].revision)
  PROVE  Known(h, m2, k + 1)
<1> DEFINE S == TaskIds(h[k + 1].plan)
<1>1. 1 .. (k + 1) = (1 .. k) \union {k + 1} /\ k + 1 - 1 = k /\ k + 1 \in 1 .. (k + 1)
  OBVIOUS
<1>2. SeenBy(h, k + 1) = SeenBy(h, k) \union S
  BY <1>1 DEF SeenBy
<1>3. DOMAIN m2 = SeenBy(h, k + 1)
  BY <1>2 DEF Known, Met
<1>4. ASSUME NEW t \in DOMAIN m2
      PROVE  /\ \E i \in 1 .. (k + 1) : /\ t \in TaskIds(h[i].plan) /\ m2[t].introduced = h[i].revision
                                        /\ t \notin SeenBy(h, i - 1)
             /\ \E i \in 1 .. (k + 1) : t \in TaskIds(h[i].plan) /\ m2[t].modified = h[i].revision
  <2>1. CASE t \in DOMAIN m
    <3>1. PICK i \in 1 .. k : /\ t \in TaskIds(h[i].plan) /\ m[t].introduced = h[i].revision
                              /\ t \notin SeenBy(h, i - 1)
      BY <2>1 DEF Known
    <3>2. PICK j \in 1 .. k : t \in TaskIds(h[j].plan) /\ m[t].modified = h[j].revision
      BY <2>1 DEF Known
    <3>3. /\ m2[t].introduced = m[t].introduced
          /\ m2[t].modified = m[t].modified \/ (t \in S /\ m2[t].modified = h[k + 1].revision)
      BY <2>1 DEF Met
    <3> QED
      BY <1>1, <3>1, <3>2, <3>3
  <2>2. CASE t \notin DOMAIN m
    <3>1. t \in S /\ m2[t].introduced = h[k + 1].revision /\ m2[t].modified = h[k + 1].revision
      BY <2>2 DEF Met
    <3>2. t \notin SeenBy(h, k)
      BY <2>2 DEF Known
    <3> QED
      BY <1>1, <3>1, <3>2
  <2> QED
    BY <2>1, <2>2
<1> QED
  BY <1>3, <1>4 DEF Known

LEMMA CumulativeKnown ==
  ASSUME NEW h \in Seq(Rec)
  PROVE  Known(h, CumulativeMeta(h), Len(h))
<1> DEFINE n == Len(h)
           A == [k \in 0 .. n |-> {d \in Metas : Known(h, d, k)}]
<1>1. n \in Nat /\ \A k \in 1 .. n : h[k] \in Rec
  OBVIOUS
<1>2. PICK r \in [0 .. n -> Metas] :
         /\ r[0] = <<>> /\ r[n] = CumulativeMeta(h)
         /\ \A k \in 1 .. n : r[k] = MeetRevision(r[k - 1], h[k])
  BY RevisionsFold DEF CumulativeMeta
<1>3. r[0] \in A[0]
  <2>1. 0 \in 0 .. n /\ SeenBy(h, 0) = {}
    BY <1>1 DEF SeenBy
  <2>2. Known(h, <<>>, 0)
    BY <2>1, MetaFacts DEF Known
  <2> QED
    BY <1>2, <2>1, <2>2, MetaFacts
<1>4. ASSUME NEW k \in 1 .. n, r[k - 1] \in A[k - 1] PROVE r[k] \in A[k]
  <2>1. k \in 0 .. n /\ k - 1 \in 0 .. n /\ k - 1 \in Nat /\ k - 1 + 1 = k /\ h[k] \in Rec
    BY <1>1
  <2>2. r[k - 1] \in Metas /\ Known(h, r[k - 1], k - 1)
    BY <1>4, <2>1
  <2> HIDE DEF n
  <2>3. r[k] \in Metas /\ Met(r[k - 1], r[k], TaskIds(h[k].plan), h[k].revision)
    BY <1>2, <2>1, <2>2, MeetRevisionMeets
  <2>4. Known(h, r[k], k)
    BY <2>1, <2>2, <2>3, KnownMore
  <2> QED
    BY <2>1, <2>3, <2>4
<1> HIDE DEF A, n
<1>5. \A k \in 0 .. n : r[k] \in A[k]
  BY <1>1, <1>3, <1>4, StepsReach
<1>6. n \in 0 .. n
  BY <1>1
<1> QED
  BY <1>2, <1>5, <1>6 DEF A, n

(* What the pass computes of a sorted history.                             *)
LEMMA CumulativeAgrees ==
  ASSUME history \in Seq(Rec), Sorted(history)
  PROVE  CumulativeIsUnion
<1> DEFINE n == Len(history)
           meta == CumulativeMeta(history)
           With(t) == {i \in DOMAIN history : t \in TaskIds(history[i].plan)}
<1> SUFFICES ASSUME history # <<>>
             PROVE  /\ DOMAIN meta = UNION {TaskIds(history[i].plan) : i \in DOMAIN history}
                    /\ \A t \in DOMAIN meta :
                          /\ \A i \in With(t) : meta[t].introduced <= history[i].revision
                          /\ \E i \in With(t) : meta[t].introduced = history[i].revision
                          /\ \E i \in With(t) : meta[t].modified = history[i].revision
                          /\ t \in Superseded(history) <=> Len(history) \notin With(t)
  BY DEF CumulativeIsUnion
<1>1. /\ n \in Nat /\ DOMAIN history = 1 .. n /\ n \in 1 .. n
      /\ \A i \in 1 .. n : history[i].revision \in Nat
  BY RecFacts
<1>2. Known(history, meta, n)
  BY CumulativeKnown
<1>3. Last(history) = history[n] /\ Superseded(history) = DOMAIN meta \ TaskIds(history[n].plan)
  BY DEF Superseded, Last
<1> HIDE DEF meta, n
<1>4. DOMAIN meta = UNION {TaskIds(history[i].plan) : i \in DOMAIN history}
  BY <1>1, <1>2 DEF Known, SeenBy
<1>5. ASSUME NEW t \in DOMAIN meta
      PROVE  /\ \A i \in With(t) : meta[t].introduced <= history[i].revision
             /\ \E i \in With(t) : meta[t].introduced = history[i].revision
             /\ \E i \in With(t) : meta[t].modified = history[i].revision
             /\ t \in Superseded(history) <=> n \notin With(t)
  <2>1. PICK i \in 1 .. n : /\ t \in TaskIds(history[i].plan) /\ meta[t].introduced = history[i].revision
                            /\ t \notin SeenBy(history, i - 1)
    BY <1>2 DEF Known
  <2>2. PICK j \in 1 .. n : t \in TaskIds(history[j].plan) /\ meta[t].modified = history[j].revision
    BY <1>2 DEF Known
  <2>3. ASSUME NEW l \in With(t) PROVE history[i].revision <= history[l].revision
    <3>1. l \in 1 .. n /\ t \in TaskIds(history[l].plan)
      BY <1>1
    <3>2. l \notin 1 .. (i - 1)
      BY <2>1, <3>1 DEF SeenBy
    <3>3. i = l \/ i < l
      BY <1>1, <3>1, <3>2
    <3> QED
      BY <1>1, <3>1, <3>3 DEF Sorted
  <2>4. t \in Superseded(history) <=> n \notin With(t)
    BY <1>1, <1>3
  <2> QED
    BY <1>1, <2>1, <2>2, <2>3, <2>4
<1> QED
  BY <1>4, <1>5 DEF n

-----------------------------------------------------------------------------
(* supersedesMap.                                                          *)
LinkRec == [new : TaskId \union {NoTask}, revision : Nat]
Links == UNION {[S -> LinkRec] : S \in SUBSET (TaskId \union {NoTask})}

LEMMA LinkFacts ==
  /\ \A l \in Links : /\ DOMAIN l \subseteq TaskId \union {NoTask} /\ l = [t \in DOMAIN l |-> l[t]]
                      /\ \A t \in DOMAIN l : l[t] \in LinkRec
  /\ \A S \in SUBSET (TaskId \union {NoTask}) : \A l \in [S -> LinkRec] : l \in Links
  /\ <<>> \in Links /\ DOMAIN <<>> = {}
<1>1. <<>> = [t \in {} |-> t]
  OBVIOUS
<1>2. <<>> \in [{} -> LinkRec]
  BY <1>1
<1> QED
  BY <1>2 DEF Links

(* l2 is l with a link of old.                                             *)
Linked(l, l2, old, new, r) ==
  /\ DOMAIN l2 = DOMAIN l \union {old} /\ l2[old].new = new /\ l2[old].revision = r
  /\ \A t \in DOMAIN l : t # old => l2[t] = l[t]

LEMMA LinkMore ==
  ASSUME NEW l \in Links, NEW old \in TaskId \union {NoTask}, NEW new \in TaskId \union {NoTask}, NEW r \in Nat
  PROVE  Link(l, old, new, r) \in Links /\ Linked(l, Link(l, old, new, r), old, new, r)
<1> DEFINE l2 == Link(l, old, new, r)
           rec == [new |-> new, revision |-> r]
<1>1. rec \in LinkRec /\ rec.new = new /\ rec.revision = r
  BY DEF LinkRec
<1>2. l2 = [t \in DOMAIN l \union {old} |-> IF t = old THEN rec ELSE l[t]]
  BY DEF Link
<1> HIDE DEF rec, l2
<1>3. l2 \in [DOMAIN l \union {old} -> LinkRec] /\ DOMAIN l \union {old} \subseteq TaskId \union {NoTask}
  BY <1>1, <1>2, LinkFacts
<1>4. l2 \in Links
  BY <1>3, LinkFacts
<1>5. Linked(l, l2, old, new, r)
  BY <1>1, <1>2 DEF Linked
<1> QED
  BY <1>4, <1>5 DEF l2

(* The links l name tasks of ids, each the one its revision introduced,    *)
(* and none twice.                                                         *)
Sound(h, l, ids) ==
  /\ \A t \in DOMAIN l : l[t].new # NoTask => l[t].new \in ids /\ h[FirstSeen(h, l[t].new)].revision = l[t].revision
  /\ \A s, t \in DOMAIN l : l[s].new = l[t].new /\ s # t => l[s].new = NoTask

LEMMA SoundMore ==
  ASSUME NEW h, NEW l, NEW ids, NEW all, Sound(h, l, ids), ids \ {NoTask} \subseteq all
  PROVE  Sound(h, l, all)
BY DEF Sound

(* The tasks S are not among ids, and first seen in revision r0.           *)
Introduced(h, S, ids, r0) == \A x \in S : x \notin ids /\ h[FirstSeen(h, x)].revision = r0

LEMMA LinkSound ==
  ASSUME NEW h, NEW l \in Links, NEW old \in TaskId \union {NoTask}, NEW new \in TaskId \union {NoTask},
         NEW r \in Nat, NEW ids, Sound(h, l, ids),
         new # NoTask => Introduced(h, {new}, ids, r)
  PROVE  Sound(h, Link(l, old, new, r), ids \union {new})
<1> DEFINE l2 == Link(l, old, new, r)
<1>0. Linked(l, l2, old, new, r)
  BY LinkMore
<1> HIDE DEF l2
<1>1. /\ DOMAIN l2 = DOMAIN l \union {old} /\ l2[old].new = new /\ l2[old].revision = r
      /\ \A t \in DOMAIN l : t # old => l2[t] = l[t]
  BY <1>0 DEF Linked
<1>a. new # NoTask => new \notin ids /\ h[FirstSeen(h, new)].revision = r
  BY DEF Introduced
<1>2. \A t \in DOMAIN l2 : l2[t].new # NoTask =>
         l2[t].new \in ids \union {new} /\ h[FirstSeen(h, l2[t].new)].revision = l2[t].revision
  BY <1>1, <1>a DEF Sound
<1>3. \A t \in DOMAIN l : t # old /\ l[t].new = new => new = NoTask
  BY <1>a DEF Sound
<1>4. \A s, t \in DOMAIN l2 : l2[s].new = l2[t].new /\ s # t => l2[s].new = NoTask
  BY <1>1, <1>3 DEF Sound
<1> QED
  BY <1>2, <1>4 DEF Sound, l2

LEMMA FirstSeenIs ==
  ASSUME NEW h \in Seq(Rec), NEW i \in DOMAIN h, NEW t \in TaskIds(h[i].plan)
  PROVE  /\ FirstSeen(h, t) \in DOMAIN h /\ t \in TaskIds(h[FirstSeen(h, t)].plan)
         /\ t \notin SeenBy(h, FirstSeen(h, t) - 1)
         /\ t \notin SeenBy(h, i - 1) => FirstSeen(h, t) = i
<1> DEFINE T == {j \in DOMAIN h : t \in TaskIds(h[j].plan)}
           first == FirstSeen(h, t)
<1>1. DOMAIN h = 1 .. Len(h) /\ Len(h) \in Nat
  BY RecFacts
<1>2. PICK x \in T : \A y \in T : x <= y
  <2>1. T \in SUBSET Nat /\ i \in T
    BY <1>1
  <2> HIDE DEF T
  <2> QED
    BY <2>1, LeastNumber
<1>3. \A j \in 1 .. (x - 1) : t \notin TaskIds(h[j].plan)
  <2>1. \A j \in 1 .. (x - 1) : j \in DOMAIN h /\ ~(x <= j)
    BY <1>1
  <2> QED
    BY <1>2, <2>1
<1>4. first \in DOMAIN h /\ t \in TaskIds(h[first].plan) /\ \A j \in 1 .. (first - 1) : t \notin TaskIds(h[j].plan)
  BY <1>2, <1>3 DEF FirstSeen
<1> HIDE DEF first
<1>5. ASSUME t \notin SeenBy(h, i - 1) PROVE first = i
  <2>1. first \notin 1 .. (i - 1)
    BY <1>4, <1>5 DEF SeenBy
  <2>2. i \notin 1 .. (first - 1)
    BY <1>4
  <2> QED
    BY <1>1, <1>4, <2>1, <2>2
<1>6. t \notin SeenBy(h, first - 1)
  BY <1>4 DEF SeenBy
<1> QED
  BY <1>4, <1>5, <1>6 DEF first

(* A task names one place of a plan.                                       *)
KeyedTasks(p) == \A i, j \in DOMAIN p.tasks : p.tasks[i].id = p.tasks[j].id => i = j
Keyed(h) == \A i \in DOMAIN h : KeyedTasks(h[i].plan)

LEMMA ClaimTyped ==
  ASSUME NEW h \in Seq(Rec), NEW i \in DOMAIN h, NEW l \in Links, NEW task \in Task
  PROVE  Claim(h, i, l, task) \in Links
<1>1. task.id \in TaskId \union {NoTask} /\ task.supersedes \in TaskId \union {NoTask}
  BY DEF Task
<1>2. h[i].revision \in Nat
  BY RecFacts
<1>3. Link(l, task.supersedes, task.id, h[i].revision) \in Links
  BY <1>1, <1>2, LinkMore
<1> QED
  BY <1>3 DEF Claim

LEMMA ClaimSound ==
  ASSUME NEW h \in Seq(Rec), NEW i \in DOMAIN h, NEW l \in Links, NEW task \in Task, NEW ids,
         Sound(h, l, ids), task.id \notin SeenBy(h, i - 1) => task.id \notin ids, task.id \in TaskIds(h[i].plan)
  PROVE  Sound(h, Claim(h, i, l, task), ids \union {task.id})
<1>1. CASE \/ task.supersedes \in {NoTask, task.id} \/ FirstSeen(h, task.id) # i
           \/ task.supersedes \in DOMAIN l
  <2>1. Claim(h, i, l, task) = l
    BY <1>1 DEF Claim
  <2> QED
    BY <2>1, SoundMore
<1>2. CASE ~(\/ task.supersedes \in {NoTask, task.id} \/ FirstSeen(h, task.id) # i
             \/ task.supersedes \in DOMAIN l)
  <2>1. Claim(h, i, l, task) = Link(l, task.supersedes, task.id, h[i].revision)
    BY <1>2 DEF Claim
  <2>2. task.id \in TaskId \union {NoTask} /\ task.supersedes \in TaskId \union {NoTask}
    BY DEF Task
  <2>3. h[i].revision \in Nat /\ i \in 1 .. Len(h)
    BY RecFacts
  <2>4. FirstSeen(h, task.id) = i
    BY <1>2
  <2>5. task.id \notin SeenBy(h, i - 1)
    BY <2>4, FirstSeenIs
  <2>6. task.id \notin ids /\ h[FirstSeen(h, task.id)].revision = h[i].revision
    BY <2>4, <2>5
  <2>7. Sound(h, Link(l, task.supersedes, task.id, h[i].revision), ids \union {task.id})
    <3> DEFINE r == h[i].revision
               new == task.id
               old == task.supersedes
    <3>1. r \in Nat /\ new \in TaskId \union {NoTask} /\ old \in TaskId \union {NoTask}
          /\ Introduced(h, {new}, ids, r)
      BY <2>2, <2>3, <2>6 DEF Introduced
    <3> HIDE DEF r, new, old
    <3>2. Sound(h, Link(l, old, new, r), ids \union {new})
      BY <3>1, LinkSound
    <3> QED
      BY <3>2 DEF r, new, old
  <2> QED
    BY <2>1, <2>7
<1> QED
  BY <1>1, <1>2

ClaimsSolves(g, h, i, l, n) ==
  g = [s \in SUBSET (1 .. n) |-> IF s = {} THEN l ELSE Claim(h, i, g[s \ {Max(s)}], h[i].plan.tasks[Max(s)])]

LEMMA ClaimsFold ==
  ASSUME NEW h \in Seq(Rec), NEW i \in DOMAIN h, NEW l \in Links
  PROVE  \E r \in [0 .. Len(h[i].plan.tasks) -> Links] :
           /\ r[0] = l /\ r[Len(h[i].plan.tasks)] = ClaimsOf(h, i, l)
           /\ \A k \in 1 .. Len(h[i].plan.tasks) : r[k] = Claim(h, i, r[k - 1], h[i].plan.tasks[k])
<1> DEFINE n == Len(h[i].plan.tasks)
           F == [k \in 1 .. n |-> [d \in Links |-> Claim(h, i, d, h[i].plan.tasks[k])]]
           g == CHOOSE g : ClaimsSolves(g, h, i, l, n)
<1>1. n \in Nat /\ DOMAIN h[i].plan.tasks = 1 .. n /\ \A k \in 1 .. n : h[i].plan.tasks[k] \in Task
  BY RecordParts, RecFacts DEF n
<1>2. \A k \in 1 .. n, d \in Links : F[k][d] = Claim(h, i, d, h[i].plan.tasks[k]) /\ F[k][d] \in Links
  BY <1>1, ClaimTyped
<1> HIDE DEF n
<1>3. F \in [1 .. n -> [Links -> Links]]
  BY <1>2
<1>4. ClaimsOf(h, i, l) = g[1 .. n]
  BY <1>1 DEF FoldLeft, MapThenFoldSet, ClaimsSolves, ClaimsOf
<1> HIDE DEF F, g
<1>5. ClaimsSolves(g, h, i, l, n)
  <2>1. PICK f \in [SUBSET (1 .. n) -> Links] : Folded(f, l, F, n)
    BY <1>1, <1>3, FoldFunctionExists
  <2>2. ASSUME NEW s \in SUBSET (1 .. n)
        PROVE  f[s] = IF s = {} THEN l ELSE Claim(h, i, f[s \ {Max(s)}], h[i].plan.tasks[Max(s)])
    <3>1. s \ {Max(s)} \in SUBSET (1 .. n) /\ (s # {} => Max(s) \in 1 .. n)
      BY <1>1, FoldSets
    <3>2. f[s \ {Max(s)}] \in Links
      BY <3>1
    <3> QED
      BY <1>2, <2>1, <3>1, <3>2 DEF Folded
  <2>3. f = [s \in SUBSET (1 .. n) |-> f[s]]
    OBVIOUS
  <2>4. ClaimsSolves(f, h, i, l, n)
    BY <2>2, <2>3 DEF ClaimsSolves
  <2> QED
    BY <2>4 DEF g
<1>6. \A s \in SUBSET (1 .. n) : g[s] = IF s = {} THEN l ELSE Claim(h, i, g[s \ {Max(s)}], h[i].plan.tasks[Max(s)])
  BY <1>5 DEF ClaimsSolves
<1>7. g[{}] = l
  BY <1>6
<1>8. ASSUME NEW k \in 1 .. n, g[1 .. (k - 1)] \in Links PROVE g[1 .. k] = F[k][g[1 .. (k - 1)]]
  <2>1. 1 .. k \in SUBSET (1 .. n) /\ 1 .. k # {} /\ Max(1 .. k) = k /\ (1 .. k) \ {k} = 1 .. (k - 1)
    BY <1>1, FoldSets
  <2>2. g[1 .. k] = Claim(h, i, g[1 .. (k - 1)], h[i].plan.tasks[k])
    BY <1>6, <2>1
  <2> QED
    BY <1>2, <1>8, <2>2
<1>9. PICK r : IsRun(r, Links, l, n, F, g[1 .. n])
  BY <1>1, <1>3, <1>7, <1>8, FoldRuns
<1>10. \A k \in 1 .. n : r[k] = Claim(h, i, r[k - 1], h[i].plan.tasks[k])
  <2>1. \A k \in 1 .. n : r[k - 1] \in Links
    BY <1>1, <1>9 DEF IsRun
  <2> QED
    BY <1>2, <1>9, <2>1 DEF IsRun
<1> QED
  BY <1>4, <1>9, <1>10 DEF n, IsRun

LEMMA ClaimsOfSound ==
  ASSUME NEW h \in Seq(Rec), Keyed(h), NEW i \in DOMAIN h, NEW l \in Links
  PROVE  /\ ClaimsOf(h, i, l) \in Links
         /\ Sound(h, l, SeenBy(h, i - 1)) => Sound(h, ClaimsOf(h, i, l), SeenBy(h, i))
<1> DEFINE ts == h[i].plan.tasks
           n == Len(ts)
           ids(k) == SeenBy(h, i - 1) \union {ts[j].id : j \in 1 .. k}
           A == [k \in 0 .. n |-> {d \in Links : Sound(h, d, ids(k))}]
<1>1. /\ n \in Nat /\ DOMAIN ts = 1 .. n /\ ts \in Seq(Task) /\ TaskIds(h[i].plan) = {ts[j].id : j \in 1 .. n}
      /\ \A k \in 1 .. n : ts[k] \in Task
  BY RecordParts, RecFacts
<1>2. PICK r \in [0 .. n -> Links] :
         /\ r[0] = l /\ r[n] = ClaimsOf(h, i, l)
         /\ \A k \in 1 .. n : r[k] = Claim(h, i, r[k - 1], ts[k])
  BY ClaimsFold
<1>3. ClaimsOf(h, i, l) \in Links
  BY <1>1, <1>2
<1>4. ASSUME Sound(h, l, SeenBy(h, i - 1)) PROVE Sound(h, ClaimsOf(h, i, l), SeenBy(h, i))
  <2>1. r[0] \in A[0]
    <3>1. ids(0) = SeenBy(h, i - 1) /\ 0 \in 0 .. n
      BY <1>1
    <3> HIDE DEF ids, n
    <3> QED
      BY <1>2, <1>4, <3>1
  <2>2. ASSUME NEW k \in 1 .. n, r[k - 1] \in A[k - 1] PROVE r[k] \in A[k]
    <3>1. k \in 0 .. n /\ k - 1 \in 0 .. n /\ ts[k] \in Task
      BY <1>1
    <3>2. r[k - 1] \in Links /\ Sound(h, r[k - 1], ids(k - 1))
      BY <2>2, <3>1
    <3>3. ids(k) = ids(k - 1) \union {ts[k].id}
      <4>1. 1 .. k = (1 .. (k - 1)) \union {k}
        BY <1>1
      <4> QED
        BY <4>1
    <3>4. ts[k].id \notin {ts[j].id : j \in 1 .. (k - 1)}
      <4>1. \A j \in 1 .. n : ts[j].id = ts[k].id => j = k
        BY <1>1 DEF Keyed, KeyedTasks
      <4>2. \A j \in 1 .. (k - 1) : j \in 1 .. n /\ j # k
        BY <1>1
      <4> HIDE DEF ts, n
      <4> QED
        BY <4>1, <4>2
    <3>5. ts[k].id \notin SeenBy(h, i - 1) => ts[k].id \notin ids(k - 1)
      BY <3>4
    <3>6. ts[k].id \in TaskIds(h[i].plan)
      BY <1>1
    <3> HIDE DEF ids, ts, n
    <3>7. Sound(h, r[k], ids(k)) /\ r[k] \in Links
      BY <1>2, <3>1, <3>2, <3>3, <3>5, <3>6, ClaimSound
    <3> QED
      BY <3>1, <3>7
  <2> HIDE DEF A, ids, ts, n
  <2>3. \A k \in 0 .. n : r[k] \in A[k]
    BY <1>1, <2>1, <2>2, StepsReach
  <2>4. n \in 0 .. n
    BY <1>1
  <2>5. Sound(h, r[n], ids(n))
    BY <2>3, <2>4 DEF A
  <2>6. ids(n) = SeenBy(h, i)
    <3>1. i \in 1 .. Len(h) /\ Len(h) \in Nat
      BY RecFacts
    <3>2. 1 .. i = (1 .. (i - 1)) \union {i}
      BY <3>1
    <3>3. SeenBy(h, i) = SeenBy(h, i - 1) \union TaskIds(h[i].plan)
      BY <3>2 DEF SeenBy
    <3> QED
      BY <1>1, <3>3 DEF ids
  <2> QED
    BY <1>2, <2>5, <2>6
<1> QED
  BY <1>3, <1>4

RevisionClaimsSolves(g, h, n) ==
  g = [s \in SUBSET (1 .. n) |-> IF s = {} THEN <<>> ELSE ClaimsOf(h, [i \in DOMAIN h |-> i][Max(s)], g[s \ {Max(s)}])]

LEMMA RevisionClaimsFold ==
  ASSUME NEW h \in Seq(Rec), Keyed(h)
  PROVE  \E r \in [0 .. Len(h) -> Links] :
           /\ r[0] = <<>> /\ r[Len(h)] = ClaimedLinks(h)
           /\ \A k \in 1 .. Len(h) : r[k] = ClaimsOf(h, [i \in DOMAIN h |-> i][k], r[k - 1])
<1> DEFINE n == Len(h)
           F == [k \in 1 .. n |-> [d \in Links |-> ClaimsOf(h, [i \in DOMAIN h |-> i][k], d)]]
           g == CHOOSE g : RevisionClaimsSolves(g, h, n)
<1>1. n \in Nat /\ <<>> \in Links /\ DOMAIN h = 1 .. n
  BY LinkFacts, RecFacts DEF n
<1>2. \A k \in 1 .. n, d \in Links : F[k][d] = ClaimsOf(h, [i \in DOMAIN h |-> i][k], d) /\ F[k][d] \in Links
  BY <1>1, ClaimsOfSound
<1> HIDE DEF n
<1>3. F \in [1 .. n -> [Links -> Links]]
  BY <1>2
<1>4. ClaimedLinks(h) = g[1 .. n]
  BY <1>1 DEF FoldLeft, MapThenFoldSet, RevisionClaimsSolves, ClaimedLinks
<1> HIDE DEF F, g
<1>5. RevisionClaimsSolves(g, h, n)
  <2>1. PICK f \in [SUBSET (1 .. n) -> Links] : Folded(f, <<>>, F, n)
    BY <1>1, <1>3, FoldFunctionExists
  <2>2. ASSUME NEW s \in SUBSET (1 .. n)
        PROVE  f[s] = IF s = {} THEN <<>> ELSE ClaimsOf(h, [i \in DOMAIN h |-> i][Max(s)], f[s \ {Max(s)}])
    <3>1. s \ {Max(s)} \in SUBSET (1 .. n) /\ (s # {} => Max(s) \in 1 .. n)
      BY <1>1, FoldSets
    <3>2. f[s \ {Max(s)}] \in Links
      BY <3>1
    <3> QED
      BY <1>2, <2>1, <3>1, <3>2 DEF Folded
  <2>3. f = [s \in SUBSET (1 .. n) |-> f[s]]
    OBVIOUS
  <2>4. RevisionClaimsSolves(f, h, n)
    BY <2>2, <2>3 DEF RevisionClaimsSolves
  <2> QED
    BY <2>4 DEF g
<1>6. \A s \in SUBSET (1 .. n) : g[s] = IF s = {} THEN <<>> ELSE ClaimsOf(h, [i \in DOMAIN h |-> i][Max(s)], g[s \ {Max(s)}])
  BY <1>5 DEF RevisionClaimsSolves
<1>7. g[{}] = <<>>
  BY <1>6
<1>8. ASSUME NEW k \in 1 .. n, g[1 .. (k - 1)] \in Links PROVE g[1 .. k] = F[k][g[1 .. (k - 1)]]
  <2>1. 1 .. k \in SUBSET (1 .. n) /\ 1 .. k # {} /\ Max(1 .. k) = k /\ (1 .. k) \ {k} = 1 .. (k - 1)
    BY <1>1, FoldSets
  <2>2. g[1 .. k] = ClaimsOf(h, [i \in DOMAIN h |-> i][k], g[1 .. (k - 1)])
    BY <1>6, <2>1
  <2> QED
    BY <1>2, <1>8, <2>2
<1>9. PICK r : IsRun(r, Links, <<>>, n, F, g[1 .. n])
  BY <1>1, <1>3, <1>7, <1>8, FoldRuns
<1>10. \A k \in 1 .. n : r[k] = ClaimsOf(h, [i \in DOMAIN h |-> i][k], r[k - 1])
  <2>1. \A k \in 1 .. n : r[k - 1] \in Links
    BY <1>1, <1>9 DEF IsRun
  <2> QED
    BY <1>2, <1>9, <2>1 DEF IsRun
<1> QED
  BY <1>4, <1>9, <1>10 DEF n, IsRun

LEMMA ClaimedSound ==
  ASSUME NEW h \in Seq(Rec), Keyed(h)
  PROVE  ClaimedLinks(h) \in Links /\ Sound(h, ClaimedLinks(h), SeenBy(h, Len(h)))
<1> DEFINE n == Len(h)
           A == [k \in 0 .. n |-> {d \in Links : Sound(h, d, SeenBy(h, k))}]
<1>1. n \in Nat /\ DOMAIN h = 1 .. n
  BY RecFacts
<1>3. PICK r \in [0 .. n -> Links] :
         /\ r[0] = <<>> /\ r[n] = ClaimedLinks(h)
         /\ \A k \in 1 .. n : r[k] = ClaimsOf(h, k, r[k - 1])
  BY RevisionClaimsFold
<1> HIDE DEF n
<1>4. r[0] \in A[0]
  <2>1. Sound(h, <<>>, SeenBy(h, 0)) /\ 0 \in 0 .. n
    BY <1>1, LinkFacts DEF Sound
  <2> QED
    BY <1>3, <2>1, LinkFacts
<1>5. ASSUME NEW k \in 1 .. n, r[k - 1] \in A[k - 1] PROVE r[k] \in A[k]
  <2>1. k \in 0 .. n /\ k - 1 \in 0 .. n /\ k \in DOMAIN h
    BY <1>1
  <2>2. r[k - 1] \in Links /\ Sound(h, r[k - 1], SeenBy(h, k - 1)) /\ r[k] = ClaimsOf(h, k, r[k - 1])
    BY <1>1, <1>3, <1>5, <2>1
  <2>3. r[k] \in Links /\ Sound(h, r[k], SeenBy(h, k))
    BY <2>1, <2>2, ClaimsOfSound
  <2> QED
    BY <2>1, <2>3
<1> HIDE DEF A
<1>6. \A k \in 0 .. n : r[k] \in A[k]
  BY <1>1, <1>4, <1>5, StepsReach
<1>7. n \in 0 .. n
  BY <1>1
<1> QED
  BY <1>3, <1>6, <1>7 DEF A, n

(* A sequence without what is in S.                                        *)
NoRepeat(s) == \A i, j \in DOMAIN s : s[i] = s[j] => i = j

Keep(S, kept, t) == IF t \in S THEN kept ELSE Append(kept, t)

WithoutSolves(g, ids, S, n) ==
  g = [s \in SUBSET (1 .. n) |-> IF s = {} THEN <<>> ELSE Keep(S, g[s \ {Max(s)}], ids[Max(s)])]

LEMMA WithoutFold ==
  ASSUME NEW ids \in Seq(TaskId), NEW S
  PROVE  \E r \in [0 .. Len(ids) -> Seq(TaskId)] :
           /\ r[0] = <<>> /\ r[Len(ids)] = Without(ids, S)
           /\ \A k \in 1 .. Len(ids) : r[k] = Keep(S, r[k - 1], ids[k])
<1> DEFINE n == Len(ids)
           F == [k \in 1 .. n |-> [d \in Seq(TaskId) |-> Keep(S, d, ids[k])]]
           g == CHOOSE g : WithoutSolves(g, ids, S, n)
<1>1. n \in Nat /\ <<>> \in Seq(TaskId) /\ DOMAIN ids = 1 .. n /\ \A k \in 1 .. n : ids[k] \in TaskId
  BY DEF n
<1>2. \A k \in 1 .. n, d \in Seq(TaskId) : F[k][d] = Keep(S, d, ids[k]) /\ F[k][d] \in Seq(TaskId)
  BY <1>1, <1>1 DEF Keep
<1> HIDE DEF n
<1>3. F \in [1 .. n -> [Seq(TaskId) -> Seq(TaskId)]]
  BY <1>2
<1>4. Without(ids, S) = g[1 .. n]
  BY <1>1 DEF FoldLeft, MapThenFoldSet, WithoutSolves, Without, Keep
<1> HIDE DEF F, g
<1>5. WithoutSolves(g, ids, S, n)
  <2>1. PICK f \in [SUBSET (1 .. n) -> Seq(TaskId)] : Folded(f, <<>>, F, n)
    BY <1>1, <1>3, FoldFunctionExists
  <2>2. ASSUME NEW s \in SUBSET (1 .. n)
        PROVE  f[s] = IF s = {} THEN <<>> ELSE Keep(S, f[s \ {Max(s)}], ids[Max(s)])
    <3>1. s \ {Max(s)} \in SUBSET (1 .. n) /\ (s # {} => Max(s) \in 1 .. n)
      BY <1>1, FoldSets
    <3>2. f[s \ {Max(s)}] \in Seq(TaskId)
      BY <3>1
    <3> QED
      BY <1>2, <2>1, <3>1, <3>2 DEF Folded
  <2>3. f = [s \in SUBSET (1 .. n) |-> f[s]]
    OBVIOUS
  <2>4. WithoutSolves(f, ids, S, n)
    BY <2>2, <2>3 DEF WithoutSolves
  <2> QED
    BY <2>4 DEF g
<1>6. \A s \in SUBSET (1 .. n) : g[s] = IF s = {} THEN <<>> ELSE Keep(S, g[s \ {Max(s)}], ids[Max(s)])
  BY <1>5 DEF WithoutSolves
<1>7. g[{}] = <<>>
  BY <1>6
<1>8. ASSUME NEW k \in 1 .. n, g[1 .. (k - 1)] \in Seq(TaskId) PROVE g[1 .. k] = F[k][g[1 .. (k - 1)]]
  <2>1. 1 .. k \in SUBSET (1 .. n) /\ 1 .. k # {} /\ Max(1 .. k) = k /\ (1 .. k) \ {k} = 1 .. (k - 1)
    BY <1>1, FoldSets
  <2>2. g[1 .. k] = Keep(S, g[1 .. (k - 1)], ids[k])
    BY <1>6, <2>1
  <2> QED
    BY <1>2, <1>8, <2>2
<1>9. PICK r : IsRun(r, Seq(TaskId), <<>>, n, F, g[1 .. n])
  BY <1>1, <1>3, <1>7, <1>8, FoldRuns
<1>10. \A k \in 1 .. n : r[k] = Keep(S, r[k - 1], ids[k])
  <2>1. \A k \in 1 .. n : r[k - 1] \in Seq(TaskId)
    BY <1>1, <1>9 DEF IsRun
  <2> QED
    BY <1>2, <1>9, <2>1 DEF IsRun
<1> QED
  BY <1>4, <1>9, <1>10 DEF n, IsRun

LEMMA AppendElement ==
  ASSUME NEW d \in Seq(TaskId), NEW x \in TaskId
  PROVE  /\ Append(d, x) \in Seq(TaskId) /\ Range(Append(d, x)) = Range(d) \union {x}
         /\ NoRepeat(d) /\ x \notin Range(d) => NoRepeat(Append(d, x))
<1> DEFINE e == Append(d, x)
           m == Len(d)
<1>1. /\ e \in Seq(TaskId) /\ DOMAIN d = 1 .. m /\ m \in Nat /\ DOMAIN e = 1 .. (m + 1)
      /\ e[m + 1] = x /\ \A j \in 1 .. m : e[j] = d[j]
  OBVIOUS
<1>2. \A j \in 1 .. (m + 1) : j \in 1 .. m \/ j = m + 1
  BY <1>1
<1>3. 1 .. m \subseteq 1 .. (m + 1) /\ m + 1 \in 1 .. (m + 1)
  BY <1>1
<1> HIDE DEF e, m
<1>4. Range(e) = Range(d) \union {x}
  BY <1>1, <1>2, <1>3 DEF Range
<1>5. NoRepeat(d) /\ x \notin Range(d) => NoRepeat(e)
  BY <1>1, <1>2 DEF NoRepeat, Range
<1> QED
  BY <1>1, <1>4, <1>5 DEF e

LEMMA WithoutFacts ==
  ASSUME NEW ids \in Seq(TaskId), NEW S
  PROVE  /\ Without(ids, S) \in Seq(TaskId) /\ Range(Without(ids, S)) = Range(ids) \ S
         /\ NoRepeat(ids) => NoRepeat(Without(ids, S))
<1>0. \E r \in [0 .. Len(ids) -> Seq(TaskId)] :
         /\ r[0] = <<>> /\ r[Len(ids)] = Without(ids, S)
         /\ \A k \in 1 .. Len(ids) : r[k] = Keep(S, r[k - 1], ids[k])
  BY WithoutFold
<1> DEFINE n == Len(ids)
           of(k) == {ids[j] : j \in 1 .. k}
           A == [k \in 0 .. n |-> {d \in Seq(TaskId) : /\ Range(d) = of(k) \ S
                                                       /\ NoRepeat(ids) => NoRepeat(d)}]
<1>1. n \in Nat /\ DOMAIN ids = 1 .. n /\ \A k \in 1 .. n : ids[k] \in TaskId
  OBVIOUS
<1>2. PICK r \in [0 .. n -> Seq(TaskId)] :
         /\ r[0] = <<>> /\ r[n] = Without(ids, S)
         /\ \A k \in 1 .. n : r[k] = Keep(S, r[k - 1], ids[k])
  BY <1>0
<1>3. r[0] \in A[0]
  <2>1. of(0) = {} /\ 0 \in 0 .. n
    BY <1>1
  <2>2. Range(<<>>) = {} /\ NoRepeat(<<>>) /\ <<>> \in Seq(TaskId)
    BY DEF Range, NoRepeat
  <2> HIDE DEF of, n
  <2> QED
    BY <1>2, <2>1, <2>2
<1>4. ASSUME NEW k \in 1 .. n, r[k - 1] \in A[k - 1] PROVE r[k] \in A[k]
  <2>1. k \in 0 .. n /\ k - 1 \in 0 .. n
    BY <1>1
  <2>2. r[k - 1] \in Seq(TaskId) /\ Range(r[k - 1]) = of(k - 1) \ S /\ (NoRepeat(ids) => NoRepeat(r[k - 1]))
    BY <1>4, <2>1
  <2>3. of(k) = of(k - 1) \union {ids[k]}
    <3>1. 1 .. k = (1 .. (k - 1)) \union {k}
      BY <1>1
    <3> QED
      BY <3>1
  <2>4. NoRepeat(ids) => ids[k] \notin of(k - 1)
    <3> SUFFICES ASSUME NoRepeat(ids), NEW j \in 1 .. (k - 1), ids[k] = ids[j] PROVE FALSE
      OBVIOUS
    <3>1. j \in 1 .. n /\ j # k
      BY <1>1
    <3> HIDE DEF n
    <3> QED
      BY <1>1, <3>1 DEF NoRepeat
  <2> HIDE DEF of, n
  <2>5. r[k] \in Seq(TaskId) /\ Range(r[k]) = of(k) \ S /\ (NoRepeat(ids) => NoRepeat(r[k]))
    <3>1. CASE ids[k] \in S
      BY <1>2, <2>2, <2>3, <3>1 DEF Keep
    <3>2. CASE ids[k] \notin S
      <4>1. r[k] = Append(r[k - 1], ids[k])
        BY <1>2, <3>2 DEF Keep
      <4>2. r[k] \in Seq(TaskId) /\ Range(r[k]) = Range(r[k - 1]) \union {ids[k]}
            /\ (NoRepeat(r[k - 1]) /\ ids[k] \notin Range(r[k - 1]) => NoRepeat(r[k]))
        BY <1>1, <2>2, <4>1, AppendElement
      <4> QED
        BY <2>2, <2>3, <2>4, <3>2, <4>2
    <3> QED
      BY <3>1, <3>2
  <2> QED
    BY <2>1, <2>5
<1> HIDE DEF A, of, n
<1>5. \A k \in 0 .. n : r[k] \in A[k]
  BY <1>1, <1>3, <1>4, StepsReach
<1>6. n \in 0 .. n
  BY <1>1
<1>7. of(n) = Range(ids)
  BY <1>1 DEF of, Range
<1> QED
  BY <1>2, <1>5, <1>6, <1>7 DEF A

LEMMA IdsFacts ==
  ASSUME NEW rec \in Rec
  PROVE  /\ Ids(rec.plan) \in Seq(TaskId) /\ Range(Ids(rec.plan)) = TaskIds(rec.plan)
         /\ KeyedTasks(rec.plan) => NoRepeat(Ids(rec.plan))
<1>1. /\ Len(rec.plan.tasks) \in Nat /\ DOMAIN rec.plan.tasks = 1 .. Len(rec.plan.tasks)
      /\ \A i \in 1 .. Len(rec.plan.tasks) : rec.plan.tasks[i].id \in TaskId
  BY RecordParts
<1>2. /\ Ids(rec.plan) = [i \in 1 .. Len(rec.plan.tasks) |-> rec.plan.tasks[i].id]
      /\ Ids(rec.plan) \in Seq(TaskId) /\ DOMAIN Ids(rec.plan) = DOMAIN rec.plan.tasks
  BY <1>1 DEF Ids
<1>3. \A i \in DOMAIN rec.plan.tasks : Ids(rec.plan)[i] = rec.plan.tasks[i].id
  BY DEF Ids
<1>4. Range(Ids(rec.plan)) = TaskIds(rec.plan)
  <2>1. Range(Ids(rec.plan)) \subseteq TaskIds(rec.plan)
    BY <1>2, <1>3 DEF Range, TaskIds
  <2>2. ASSUME NEW t \in TaskIds(rec.plan) PROVE t \in Range(Ids(rec.plan))
    <3>1. PICK i \in DOMAIN rec.plan.tasks : t = rec.plan.tasks[i].id
      BY DEF TaskIds
    <3>2. i \in DOMAIN Ids(rec.plan) /\ Ids(rec.plan)[i] = t
      BY <1>2, <1>3, <3>1
    <3> QED
      BY <3>2 DEF Range
  <2> QED
    BY <2>1, <2>2
<1>5. KeyedTasks(rec.plan) => NoRepeat(Ids(rec.plan))
  BY <1>2, <1>3 DEF KeyedTasks, NoRepeat
<1> QED
  BY <1>2, <1>4, <1>5

(* One transition: the dropped tasks are paired with the fresh ones.       *)
PartnerOf(fresh, k) == IF k <= Len(fresh) THEN fresh[k] ELSE NoTask
PairOne(dropped, fresh, r0, l, k) == Link(l, dropped[k], PartnerOf(fresh, k), r0)
PairedWith(dropped, fresh, r0, l) ==
  FoldLeft(LAMBDA l2, k : Link(l2, dropped[k], IF k <= Len(fresh) THEN fresh[k] ELSE NoTask, r0),
           l, [k \in DOMAIN dropped |-> k])

LEMMA PartnerTyped ==
  ASSUME NEW fresh \in Seq(TaskId), NEW k \in Nat \ {0}
  PROVE  /\ PartnerOf(fresh, k) \in TaskId \union {NoTask}
         /\ PartnerOf(fresh, k) # NoTask => k \in DOMAIN fresh /\ PartnerOf(fresh, k) = fresh[k]
<1>1. k <= Len(fresh) => k \in DOMAIN fresh /\ fresh[k] \in TaskId
  OBVIOUS
<1> QED
  BY <1>1 DEF PartnerOf

LEMMA PairOneTyped ==
  ASSUME NEW dropped \in Seq(TaskId), NEW fresh \in Seq(TaskId), NEW r0 \in Nat, NEW l \in Links,
         NEW k \in DOMAIN dropped
  PROVE  /\ PairOne(dropped, fresh, r0, l, k) \in Links
         /\ Linked(l, PairOne(dropped, fresh, r0, l, k), dropped[k], PartnerOf(fresh, k), r0)
<1> DEFINE old == dropped[k]
           new == PartnerOf(fresh, k)
           l2 == PairOne(dropped, fresh, r0, l, k)
<1>1. old \in TaskId \union {NoTask} /\ k \in Nat \ {0}
  OBVIOUS
<1>2. new \in TaskId \union {NoTask}
  BY <1>1, PartnerTyped
<1>3. l2 = Link(l, old, new, r0)
  BY DEF PairOne
<1> HIDE DEF old, new, l2
<1>4. l2 \in Links /\ Linked(l, l2, old, new, r0)
  BY <1>1, <1>2, <1>3, LinkMore
<1> QED
  BY <1>4 DEF old, new, l2

PairingSolves(g, dropped, fresh, r0, l, n) ==
  g = [s \in SUBSET (1 .. n) |-> IF s = {} THEN l ELSE PairOne(dropped, fresh, r0, g[s \ {Max(s)}], [j \in DOMAIN dropped |-> j][Max(s)])]

LEMMA PairingFold ==
  ASSUME NEW dropped \in Seq(TaskId), NEW fresh \in Seq(TaskId), NEW r0 \in Nat, NEW l \in Links
  PROVE  \E r \in [0 .. Len(dropped) -> Links] :
           /\ r[0] = l /\ r[Len(dropped)] = PairedWith(dropped, fresh, r0, l)
           /\ \A k \in 1 .. Len(dropped) : r[k] = PairOne(dropped, fresh, r0, r[k - 1], k)
<1> DEFINE n == Len(dropped)
           F == [k \in 1 .. n |-> [d \in Links |-> PairOne(dropped, fresh, r0, d, [j \in DOMAIN dropped |-> j][k])]]
           g == CHOOSE g : PairingSolves(g, dropped, fresh, r0, l, n)
<1>1. n \in Nat /\ DOMAIN dropped = 1 .. n /\ \A k \in 1 .. n : [j \in DOMAIN dropped |-> j][k] = k /\ k \in Nat \ {0} /\ dropped[k] \in TaskId \union {NoTask}
  BY DEF n
<1>2. \A k \in 1 .. n, d \in Links : F[k][d] = PairOne(dropped, fresh, r0, d, [j \in DOMAIN dropped |-> j][k]) /\ F[k][d] \in Links
  BY <1>1, PairOneTyped
<1> HIDE DEF n
<1>3. F \in [1 .. n -> [Links -> Links]]
  BY <1>2
<1>4. PairedWith(dropped, fresh, r0, l) = g[1 .. n]
  BY <1>1 DEF FoldLeft, MapThenFoldSet, PairingSolves, PairedWith, PairOne, PartnerOf
<1> HIDE DEF F, g
<1>5. PairingSolves(g, dropped, fresh, r0, l, n)
  <2>1. PICK f \in [SUBSET (1 .. n) -> Links] : Folded(f, l, F, n)
    BY <1>1, <1>3, FoldFunctionExists
  <2>2. ASSUME NEW s \in SUBSET (1 .. n)
        PROVE  f[s] = IF s = {} THEN l ELSE PairOne(dropped, fresh, r0, f[s \ {Max(s)}], [j \in DOMAIN dropped |-> j][Max(s)])
    <3>1. s \ {Max(s)} \in SUBSET (1 .. n) /\ (s # {} => Max(s) \in 1 .. n)
      BY <1>1, FoldSets
    <3>2. f[s \ {Max(s)}] \in Links
      BY <3>1
    <3> QED
      BY <1>2, <2>1, <3>1, <3>2 DEF Folded
  <2>3. f = [s \in SUBSET (1 .. n) |-> f[s]]
    OBVIOUS
  <2>4. PairingSolves(f, dropped, fresh, r0, l, n)
    BY <2>2, <2>3 DEF PairingSolves
  <2> QED
    BY <2>4 DEF g
<1>6. \A s \in SUBSET (1 .. n) : g[s] = IF s = {} THEN l ELSE PairOne(dropped, fresh, r0, g[s \ {Max(s)}], [j \in DOMAIN dropped |-> j][Max(s)])
  BY <1>5 DEF PairingSolves
<1>7. g[{}] = l
  BY <1>6
<1>8. ASSUME NEW k \in 1 .. n, g[1 .. (k - 1)] \in Links PROVE g[1 .. k] = F[k][g[1 .. (k - 1)]]
  <2>1. 1 .. k \in SUBSET (1 .. n) /\ 1 .. k # {} /\ Max(1 .. k) = k /\ (1 .. k) \ {k} = 1 .. (k - 1)
    BY <1>1, FoldSets
  <2>2. g[1 .. k] = PairOne(dropped, fresh, r0, g[1 .. (k - 1)], [j \in DOMAIN dropped |-> j][k])
    BY <1>6, <2>1
  <2> QED
    BY <1>2, <1>8, <2>2
<1>9. PICK r : IsRun(r, Links, l, n, F, g[1 .. n])
  BY <1>1, <1>3, <1>7, <1>8, FoldRuns
<1>10. \A k \in 1 .. n : r[k] = PairOne(dropped, fresh, r0, r[k - 1], k)
  <2>1. \A k \in 1 .. n : r[k - 1] \in Links
    BY <1>1, <1>9 DEF IsRun
  <2>2. \A k \in 1 .. n : r[k] = PairOne(dropped, fresh, r0, r[k - 1], [j \in DOMAIN dropped |-> j][k])
    BY <1>2, <1>9, <2>1 DEF IsRun
  <2> QED
    BY <1>1, <2>2
<1> QED
  BY <1>4, <1>9, <1>10 DEF n, IsRun

LEMMA PairedSound ==
  ASSUME NEW h, NEW l \in Links, NEW dropped \in Seq(TaskId), NEW fresh \in Seq(TaskId), NEW r0 \in Nat, NEW ids,
         NoRepeat(fresh), Introduced(h, Range(fresh), ids, r0)
  PROVE  LET l2 == PairedWith(dropped, fresh, r0, l) IN
         /\ l2 \in Links /\ DOMAIN l2 = DOMAIN l \union Range(dropped)
         /\ Sound(h, l, ids) => Sound(h, l2, ids \union Range(fresh))
<1>0. \E r \in [0 .. Len(dropped) -> Links] :
         /\ r[0] = l /\ r[Len(dropped)] = PairedWith(dropped, fresh, r0, l)
         /\ \A k \in 1 .. Len(dropped) : r[k] = PairOne(dropped, fresh, r0, r[k - 1], k)
  BY PairingFold, ZenonT(60)
<1> DEFINE n == Len(dropped)
           of(k) == {dropped[j] : j \in 1 .. k}
           all(k) == ids \union {PartnerOf(fresh, j) : j \in 1 .. k}
           A == [k \in 0 .. n |-> {d \in Links : /\ DOMAIN d = DOMAIN l \union of(k)
                                                 /\ Sound(h, l, ids) => Sound(h, d, all(k))}]
<1>1. n \in Nat /\ DOMAIN dropped = 1 .. n /\ \A k \in 1 .. n : dropped[k] \in TaskId \union {NoTask}
  OBVIOUS
<1>2. PICK r \in [0 .. n -> Links] :
         /\ r[0] = l /\ r[n] = PairedWith(dropped, fresh, r0, l)
         /\ \A k \in 1 .. n : r[k] = PairOne(dropped, fresh, r0, r[k - 1], k)
  BY <1>0
<1>3. r[0] \in A[0]
  <2>1. of(0) = {} /\ all(0) = ids /\ 0 \in 0 .. n
    BY <1>1
  <2> HIDE DEF of, all, n
  <2> QED
    BY <1>2, <2>1
<1>4. ASSUME NEW k \in 1 .. n, r[k - 1] \in A[k - 1] PROVE r[k] \in A[k]
  <2>1. k \in 0 .. n /\ k - 1 \in 0 .. n /\ k \in Nat \ {0}
    BY <1>1
  <2>2. r[k - 1] \in Links /\ DOMAIN r[k - 1] = DOMAIN l \union of(k - 1) /\ (Sound(h, l, ids) => Sound(h, r[k - 1], all(k - 1)))
    BY <1>4, <2>1
  <2>3. of(k) = of(k - 1) \union {dropped[k]} /\ all(k) = all(k - 1) \union {PartnerOf(fresh, k)}
    <3>1. 1 .. k = (1 .. (k - 1)) \union {k}
      BY <1>1
    <3> QED
      BY <3>1
  <2> DEFINE x == PartnerOf(fresh, k)
  <2>4. x \in TaskId \union {NoTask}
    BY <2>1, PartnerTyped
  <2>5. ASSUME x # NoTask PROVE Introduced(h, {x}, all(k - 1), r0)
    <3>1. k \in DOMAIN fresh /\ x = fresh[k]
      BY <2>1, <2>5, PartnerTyped
    <3>2. x \in Range(fresh)
      BY <3>1 DEF Range
    <3>3. ASSUME NEW j \in 1 .. (k - 1) PROVE x # PartnerOf(fresh, j)
      <4>1. j \in DOMAIN fresh /\ j # k /\ j <= Len(fresh)
        BY <2>1, <3>1
      <4>2. PartnerOf(fresh, j) = fresh[j]
        BY <4>1 DEF PartnerOf
      <4> HIDE DEF x
      <4> QED
        BY <3>1, <4>1, <4>2 DEF NoRepeat
    <3> HIDE DEF x
    <3>4. x \notin {PartnerOf(fresh, j) : j \in 1 .. (k - 1)}
      BY <3>3
    <3> QED
      BY <3>2, <3>4 DEF Introduced
  <2> HIDE DEF of, all, n, x
  <2>6. r[k] = Link(r[k - 1], dropped[k], x, r0)
    BY <1>2 DEF x, PairOne
  <2>7. r[k] \in Links /\ DOMAIN r[k] = DOMAIN l \union of(k)
    <3>1. r[k - 1] \in Links /\ r[k] = PairOne(dropped, fresh, r0, r[k - 1], k) /\ k \in DOMAIN dropped
      BY <1>1, <1>2, <2>2
    <3>2. r[k] \in Links /\ Linked(r[k - 1], r[k], dropped[k], PartnerOf(fresh, k), r0)
      <4> DEFINE l1 == r[k - 1]
                 l2 == PairOne(dropped, fresh, r0, l1, k)
      <4>1. l1 \in Links /\ r[k] = l2 /\ k \in DOMAIN dropped
        BY <3>1
      <4> HIDE DEF l1, l2
      <4>2. l2 \in Links /\ Linked(l1, l2, dropped[k], PartnerOf(fresh, k), r0)
        BY <4>1, PairOneTyped DEF l2
      <4> QED
        BY <4>1, <4>2 DEF l1
    <3>3. DOMAIN r[k] = DOMAIN r[k - 1] \union {dropped[k]}
      BY <3>2 DEF Linked
    <3> QED
      BY <2>2, <2>3, <3>2, <3>3
  <2>8. ASSUME Sound(h, l, ids) PROVE Sound(h, r[k], all(k))
    <3>1. Sound(h, r[k - 1], all(k - 1))
      BY <2>2, <2>8
    <3>2. Sound(h, r[k], all(k - 1) \union {x})
      BY <1>1, <2>2, <2>4, <2>5, <2>6, <3>1, LinkSound
    <3> QED
      BY <2>3, <3>2 DEF x
  <2> QED
    BY <2>1, <2>7, <2>8
<1> HIDE DEF A, of, all, n
<1>5. \A k \in 0 .. n : r[k] \in A[k]
  BY <1>1, <1>3, <1>4, StepsReach
<1>6. n \in 0 .. n
  BY <1>1
<1>7. of(n) = Range(dropped)
  BY <1>1 DEF of, Range
<1>8. all(n) \ {NoTask} \subseteq ids \union Range(fresh)
  <2>1. ASSUME NEW j \in 1 .. n, PartnerOf(fresh, j) # NoTask PROVE PartnerOf(fresh, j) \in Range(fresh)
    <3>1. j \in Nat \ {0}
      BY <1>1
    <3> QED
      BY <2>1, <3>1, PartnerTyped DEF Range
  <2> QED
    BY <2>1 DEF all
<1>9. r[n] \in Links /\ DOMAIN r[n] = DOMAIN l \union Range(dropped) /\ (Sound(h, l, ids) => Sound(h, r[n], all(n)))
  BY <1>5, <1>6, <1>7 DEF A
<1>10. Sound(h, l, ids) => Sound(h, r[n], ids \union Range(fresh))
  BY <1>8, <1>9, SoundMore
<1> QED
  BY <1>2, <1>9, <1>10

(* One transition of the second pass, from the plan before it.             *)
SuccessorsOf(claimed) == {claimed[t].new : t \in DOMAIN claimed}
DroppedAt(h, claimed, i) == TaskIds(h[i - 1].plan) \ (TaskIds(h[i].plan) \union DOMAIN claimed)
Transition(h, claimed, l, l2, i) ==
  /\ DOMAIN l2 = DOMAIN l \union DroppedAt(h, claimed, i)
  /\ Sound(h, l, SuccessorsOf(claimed) \union SeenBy(h, i - 1)) =>
        Sound(h, l2, SuccessorsOf(claimed) \union SeenBy(h, i))

LEMMA SeenMore ==
  ASSUME NEW h, NEW i \in Nat \ {0}
  PROVE  SeenBy(h, i) = SeenBy(h, i - 1) \union TaskIds(h[i].plan)
<1>1. 1 .. i = (1 .. (i - 1)) \union {i}
  OBVIOUS
<1> QED
  BY <1>1 DEF SeenBy

LEMMA PairDroppedSound ==
  ASSUME NEW h \in Seq(Rec), Keyed(h), NEW claimed \in Links, NEW l \in Links, NEW i \in 2 .. Len(h)
  PROVE  /\ PairDropped(h, claimed, l, i) \in Links
         /\ Transition(h, claimed, l, PairDropped(h, claimed, l, i), i)
<1> DEFINE before == SeenBy(h, i - 1)
           succ == SuccessorsOf(claimed)
           dropped == Without(Ids(h[i - 1].plan), TaskIds(h[i].plan) \union DOMAIN claimed)
           fresh == Without(Ids(h[i].plan), before \union succ)
           r0 == h[i].revision
           ids == succ \union before
           l2 == PairedWith(dropped, fresh, r0, l)
<1>1. PairDropped(h, claimed, l, i) = l2
  BY DEF PairDropped, PairedWith, SeenBy, SuccessorsOf
<1>2. /\ i \in DOMAIN h /\ i - 1 \in DOMAIN h /\ i \in Nat \ {0} /\ h[i] \in Rec /\ h[i - 1] \in Rec /\ r0 \in Nat
  <2>1. DOMAIN h = 1 .. Len(h) /\ Len(h) \in Nat
    BY RecFacts
  <2>2. i \in 1 .. Len(h) /\ i - 1 \in 1 .. Len(h) /\ i \in Nat \ {0}
    BY <2>1
  <2> QED
    BY <2>1, <2>2, RecFacts
<1>3. /\ Ids(h[i - 1].plan) \in Seq(TaskId) /\ Range(Ids(h[i - 1].plan)) = TaskIds(h[i - 1].plan)
  BY <1>2, IdsFacts
<1>4. /\ Ids(h[i].plan) \in Seq(TaskId) /\ Range(Ids(h[i].plan)) = TaskIds(h[i].plan) /\ NoRepeat(Ids(h[i].plan))
  BY <1>2, IdsFacts DEF Keyed
<1>5. dropped \in Seq(TaskId) /\ Range(dropped) = DroppedAt(h, claimed, i)
  BY <1>3, WithoutFacts DEF DroppedAt
<1>6. fresh \in Seq(TaskId) /\ Range(fresh) = TaskIds(h[i].plan) \ ids /\ NoRepeat(fresh)
  <2>1. fresh \in Seq(TaskId) /\ Range(fresh) = Range(Ids(h[i].plan)) \ (before \union succ) /\ NoRepeat(fresh)
    BY <1>4, WithoutFacts
  <2> QED
    BY <1>4, <2>1
<1>7. Introduced(h, Range(fresh), ids, r0)
  <2>1. ASSUME NEW x \in Range(fresh) PROVE x \notin ids /\ FirstSeen(h, x) = i
    <3>1. x \in TaskIds(h[i].plan) /\ x \notin ids
      BY <1>6
    <3>2. x \notin SeenBy(h, i - 1)
      BY <3>1
    <3>3. FirstSeen(h, x) = i
      BY <1>2, <3>1, <3>2, FirstSeenIs
    <3> QED
      BY <3>1, <3>3
  <2> QED
    BY <2>1 DEF Introduced
<1>8. ids \union Range(fresh) = succ \union SeenBy(h, i)
  <2>1. SeenBy(h, i) = before \union TaskIds(h[i].plan)
    BY <1>2, SeenMore
  <2> QED
    BY <1>6, <2>1
<1> HIDE DEF dropped, fresh, r0, l2
<1>9. /\ l2 \in Links /\ DOMAIN l2 = DOMAIN l \union Range(dropped)
      /\ Sound(h, l, ids) => Sound(h, l2, ids \union Range(fresh))
  BY <1>2, <1>5, <1>6, <1>7, PairedSound DEF l2
<1>10. Transition(h, claimed, l, l2, i)
  BY <1>5, <1>8, <1>9 DEF Transition
<1> QED
  BY <1>1, <1>9, <1>10

PairedLinks(h, claimed) ==
  FoldLeft(LAMBDA links, i : PairDropped(h, claimed, links, i), claimed, [k \in 1 .. (Len(h) - 1) |-> k + 1])

PairsSolves(g, h, claimed, n) ==
  g = [s \in SUBSET (1 .. n) |-> IF s = {} THEN claimed ELSE PairDropped(h, claimed, g[s \ {Max(s)}], [j \in 1 .. (Len(h) - 1) |-> j + 1][Max(s)])]

LEMMA PairsFold ==
  ASSUME NEW h \in Seq(Rec), h # <<>>, Keyed(h), NEW claimed \in Links
  PROVE  \E r \in [0 .. Len(h) - 1 -> Links] :
           /\ r[0] = claimed /\ r[Len(h) - 1] = PairedLinks(h, claimed)
           /\ \A k \in 1 .. Len(h) - 1 : r[k] = PairDropped(h, claimed, r[k - 1], k + 1)
<1> DEFINE n == Len(h) - 1
           F == [k \in 1 .. n |-> [d \in Links |-> PairDropped(h, claimed, d, [j \in 1 .. (Len(h) - 1) |-> j + 1][k])]]
           g == CHOOSE g : PairsSolves(g, h, claimed, n)
<1>1. n \in Nat /\ DOMAIN [j \in 1 .. (Len(h) - 1) |-> j + 1] = 1 .. n /\ \A k \in 1 .. n : [j \in 1 .. (Len(h) - 1) |-> j + 1][k] = k + 1 /\ k + 1 \in 2 .. Len(h)
  BY DEF n
<1>2. \A k \in 1 .. n, d \in Links : F[k][d] = PairDropped(h, claimed, d, [j \in 1 .. (Len(h) - 1) |-> j + 1][k]) /\ F[k][d] \in Links
  BY <1>1, PairDroppedSound
<1> HIDE DEF n
<1>3. F \in [1 .. n -> [Links -> Links]]
  BY <1>2
<1>4. PairedLinks(h, claimed) = g[1 .. n]
  BY <1>1 DEF FoldLeft, MapThenFoldSet, PairsSolves, PairedLinks
<1> HIDE DEF F, g
<1>5. PairsSolves(g, h, claimed, n)
  <2>1. PICK f \in [SUBSET (1 .. n) -> Links] : Folded(f, claimed, F, n)
    BY <1>1, <1>3, FoldFunctionExists
  <2>2. ASSUME NEW s \in SUBSET (1 .. n)
        PROVE  f[s] = IF s = {} THEN claimed ELSE PairDropped(h, claimed, f[s \ {Max(s)}], [j \in 1 .. (Len(h) - 1) |-> j + 1][Max(s)])
    <3>1. s \ {Max(s)} \in SUBSET (1 .. n) /\ (s # {} => Max(s) \in 1 .. n)
      BY <1>1, FoldSets
    <3>2. f[s \ {Max(s)}] \in Links
      BY <3>1
    <3> QED
      BY <1>2, <2>1, <3>1, <3>2 DEF Folded
  <2>3. f = [s \in SUBSET (1 .. n) |-> f[s]]
    OBVIOUS
  <2>4. PairsSolves(f, h, claimed, n)
    BY <2>2, <2>3 DEF PairsSolves
  <2> QED
    BY <2>4 DEF g
<1>6. \A s \in SUBSET (1 .. n) : g[s] = IF s = {} THEN claimed ELSE PairDropped(h, claimed, g[s \ {Max(s)}], [j \in 1 .. (Len(h) - 1) |-> j + 1][Max(s)])
  BY <1>5 DEF PairsSolves
<1>7. g[{}] = claimed
  BY <1>6
<1>8. ASSUME NEW k \in 1 .. n, g[1 .. (k - 1)] \in Links PROVE g[1 .. k] = F[k][g[1 .. (k - 1)]]
  <2>1. 1 .. k \in SUBSET (1 .. n) /\ 1 .. k # {} /\ Max(1 .. k) = k /\ (1 .. k) \ {k} = 1 .. (k - 1)
    BY <1>1, FoldSets
  <2>2. g[1 .. k] = PairDropped(h, claimed, g[1 .. (k - 1)], [j \in 1 .. (Len(h) - 1) |-> j + 1][k])
    BY <1>6, <2>1
  <2> QED
    BY <1>2, <1>8, <2>2
<1>9. PICK r : IsRun(r, Links, claimed, n, F, g[1 .. n])
  BY <1>1, <1>3, <1>7, <1>8, FoldRuns
<1>10. \A k \in 1 .. n : r[k] = PairDropped(h, claimed, r[k - 1], k + 1)
  <2>1. \A k \in 1 .. n : r[k - 1] \in Links
    BY <1>1, <1>9 DEF IsRun
  <2>2. \A k \in 1 .. n : r[k] = PairDropped(h, claimed, r[k - 1], [j \in 1 .. (Len(h) - 1) |-> j + 1][k])
    BY <1>2, <1>9, <2>1 DEF IsRun
  <2> QED
    BY <1>1, <2>2
<1> QED
  BY <1>4, <1>9, <1>10 DEF n, IsRun

(* The second pass keeps the links sound, and links what any transition    *)
(* drops.                                                                  *)
LEMMA PairedLinksSound ==
  ASSUME NEW h \in Seq(Rec), h # <<>>, Keyed(h), NEW claimed \in Links,
         Sound(h, claimed, SuccessorsOf(claimed) \union SeenBy(h, 1))
  PROVE  /\ DOMAIN claimed \subseteq DOMAIN PairedLinks(h, claimed)
         /\ \A i \in 2 .. Len(h) : DroppedAt(h, claimed, i) \subseteq DOMAIN PairedLinks(h, claimed)
         /\ Sound(h, PairedLinks(h, claimed), SuccessorsOf(claimed) \union SeenBy(h, Len(h)))
<1> DEFINE n == Len(h) - 1
           all(k) == SuccessorsOf(claimed) \union SeenBy(h, k + 1)
           Covers(d, k) == /\ DOMAIN claimed \subseteq DOMAIN d
                           /\ \A i \in 2 .. (k + 1) : DroppedAt(h, claimed, i) \subseteq DOMAIN d
           A == [k \in 0 .. n |-> {d \in Links : Covers(d, k) /\ Sound(h, d, all(k))}]
<1>1. n \in Nat /\ Len(h) = n + 1 /\ n \in 0 .. n
  OBVIOUS
<1>2. PICK r \in [0 .. n -> Links] :
         /\ r[0] = claimed /\ r[n] = PairedLinks(h, claimed)
         /\ \A k \in 1 .. n : r[k] = PairDropped(h, claimed, r[k - 1], k + 1)
  BY PairsFold
<1> HIDE DEF n
<1>3. r[0] \in A[0]
  <2>1. 0 \in 0 .. n /\ 0 + 1 = 1
    BY <1>1
  <2>2. all(0) = SuccessorsOf(claimed) \union SeenBy(h, 1)
    OBVIOUS
  <2>3. Covers(claimed, 0)
    OBVIOUS
  <2> HIDE DEF all, Covers
  <2> QED
    BY <1>2, <2>1, <2>2, <2>3
<1>4. ASSUME NEW k \in 1 .. n, r[k - 1] \in A[k - 1] PROVE r[k] \in A[k]
  <2>1. k \in 0 .. n /\ k - 1 \in 0 .. n /\ k + 1 \in 2 .. Len(h) /\ k + 1 - 1 = k /\ k - 1 + 1 = k
    BY <1>1
  <2>2. r[k - 1] \in Links /\ Covers(r[k - 1], k - 1) /\ Sound(h, r[k - 1], all(k - 1))
    BY <1>4, <2>1
  <2>3. r[k] \in Links /\ Transition(h, claimed, r[k - 1], r[k], k + 1)
    <3> HIDE DEF A, all, Covers
    <3> QED
      BY <1>2, <2>1, <2>2, PairDroppedSound
  <2>4. Sound(h, r[k], all(k))
    BY <2>1, <2>2, <2>3 DEF Transition
  <2>5. Covers(r[k], k)
    <3>1. DOMAIN r[k] = DOMAIN r[k - 1] \union DroppedAt(h, claimed, k + 1)
      BY <2>3 DEF Transition
    <3>2. 2 .. (k + 1) = (2 .. (k - 1 + 1)) \union {k + 1}
      BY <1>1
    <3> QED
      BY <2>2, <3>1, <3>2
  <2> HIDE DEF all, Covers
  <2> QED
    BY <2>1, <2>3, <2>4, <2>5
<1> HIDE DEF A, all, Covers
<1>5. \A k \in 0 .. n : r[k] \in A[k]
  BY <1>1, <1>3, <1>4, StepsReach
<1>6. Covers(r[n], n) /\ Sound(h, r[n], all(n))
  BY <1>1, <1>5 DEF A
<1> QED
  BY <1>1, <1>2, <1>6 DEF Covers, all

(* What both passes compute of a sorted history.                           *)
LEMMA SupersessionAgrees ==
  ASSUME history \in Seq(Rec), Sorted(history), Keyed(history)
  PROVE  SupersessionSound
<1> DEFINE n == Len(history)
           claimed == ClaimedLinks(history)
           links == SupersedesMap(history)
           ids == SuccessorsOf(claimed) \union SeenBy(history, n)
<1> SUFFICES ASSUME history # <<>>
             PROVE  /\ Superseded(history) \subseteq DOMAIN links
                    /\ \A t \in DOMAIN links : links[t].new # NoTask =>
                          history[FirstSeen(history, links[t].new)].revision = links[t].revision
                    /\ \A s, t \in DOMAIN links : links[s].new = links[t].new /\ s # t => links[s].new = NoTask
  BY DEF SupersessionSound
<1>1. n \in Nat \ {0} /\ DOMAIN history = 1 .. n
  BY RecFacts
<1>2. claimed \in Links /\ Sound(history, claimed, SeenBy(history, n))
  BY ClaimedSound
<1>3. links = PairedLinks(history, claimed)
  BY DEF SupersedesMap, PairedLinks
<1> HIDE DEF claimed, links, n
<1>4. Sound(history, claimed, SuccessorsOf(claimed) \union SeenBy(history, 1))
  <2>1. \A t \in DOMAIN claimed : claimed[t].new \in SuccessorsOf(claimed)
    BY DEF SuccessorsOf
  <2> QED
    BY <1>2, <2>1 DEF Sound
<1>5. /\ DOMAIN claimed \subseteq DOMAIN links
      /\ \A i \in 2 .. n : DroppedAt(history, claimed, i) \subseteq DOMAIN links
      /\ Sound(history, links, ids)
  BY <1>2, <1>3, <1>4, PairedLinksSound DEF n
<1>6. ASSUME NEW t \in Superseded(history) PROVE t \in DOMAIN links
  <2>1. t \in SeenBy(history, n) /\ t \notin TaskIds(history[n].plan)
    <3>1. Known(history, CumulativeMeta(history), n)
      BY CumulativeKnown DEF n
    <3>2. Superseded(history) = DOMAIN CumulativeMeta(history) \ TaskIds(history[n].plan)
      BY DEF Superseded, Last, n
    <3> QED
      BY <3>1, <3>2 DEF Known
  <2>2. PICK i \in 1 .. n : t \in TaskIds(history[i].plan)
    BY <2>1 DEF SeenBy
  <2> DEFINE T == {j \in i .. n : t \notin TaskIds(history[j].plan)}
  <2>3. PICK j \in T : \A k \in T : j <= k
    <3>1. T \in SUBSET Nat /\ n \in T
      BY <1>1, <2>1
    <3> HIDE DEF T
    <3> QED
      BY <3>1, LeastNumber
  <2>4. j \in 2 .. n /\ j - 1 \in i .. n /\ ~(j <= j - 1) /\ t \notin TaskIds(history[j].plan)
    <3>1. j # i /\ j \in i .. n
      BY <2>2, <2>3
    <3> QED
      BY <1>1, <2>3, <3>1
  <2>5. t \in TaskIds(history[j - 1].plan)
    BY <2>3, <2>4
  <2> HIDE DEF T
  <2>6. t \in DOMAIN claimed \/ t \in DroppedAt(history, claimed, j)
    BY <2>4, <2>5 DEF DroppedAt
  <2> QED
    BY <1>5, <2>4, <2>6
<1> QED
  BY <1>5, <1>6 DEF Sound

(* Every plan goldfive gave names each of its tasks once, so the plans the *)
(* registry holds, which have the same tasks, do too.                      *)
LogKeyed == \A i \in DOMAIN log : KeyedTasks(log[i])

LEMMA KeyedStructure ==
  ASSUME NEW p, NEW q, Structure(p) = Structure(q), KeyedTasks(q)
  PROVE  KeyedTasks(p)
<1>1. DOMAIN Structure(p) = DOMAIN p.tasks /\ DOMAIN Structure(q) = DOMAIN q.tasks
  BY DEF Structure
<1>2. \A i \in DOMAIN p.tasks : Structure(p)[i].id = p.tasks[i].id
  BY DEF Structure
<1>3. \A i \in DOMAIN q.tasks : Structure(q)[i].id = q.tasks[i].id
  BY DEF Structure
<1> QED
  BY <1>1, <1>2, <1>3 DEF KeyedTasks

LEMMA NextLogKeyed == PlanInv /\ LogKeyed /\ [PlansNext]_planVars => LogKeyed'
<1> SUFFICES ASSUME PlanInv, LogKeyed, [PlansNext]_planVars PROVE LogKeyed'
  OBVIOUS
<1>1. ASSUME UNCHANGED log PROVE LogKeyed'
  BY <1>1 DEF LogKeyed
<1>2. ASSUME NEW inline \in BOOLEAN, PlanEvent(inline) PROVE LogKeyed'
  <2>1. PICK shape \in Shape[Len(log)] :
          log' = Append(log, [PlanFrom(shape, Len(log), inline \/ Len(log) = 0) EXCEPT !.kind = TRUE])
    BY <1>2 DEF PlanEvent
  <2> DEFINE plan == PlanFrom(shape, Len(log), inline \/ Len(log) = 0)
             logged == [plan EXCEPT !.kind = TRUE]
  <2>2. Len(log) \in 0 .. MaxRevision /\ log \in Seq(Plan)
    BY <1>2, RevisionsAssumption DEF PlanEvent, PlanInv, PlanTypes
  <2>3. KeyedTasks(plan)
    <3>1. \A i, j \in DOMAIN shape : shape[i].id = shape[j].id => i = j
      BY <2>2, RevisionsAssumption
    <3>2. DOMAIN plan.tasks = DOMAIN shape /\ \A i \in DOMAIN shape : plan.tasks[i].id = shape[i].id
      BY DEF PlanFrom
    <3> HIDE DEF plan
    <3> QED
      BY <3>1, <3>2 DEF KeyedTasks
  <2> HIDE DEF plan
  <2>4. KeyedTasks(logged)
    BY <2>3, StructureNamed, KeyedStructure
  <2> HIDE DEF logged
  <2>5. log' = Append(log, logged)
    BY <2>1 DEF logged, plan
  <2>6. \A i \in DOMAIN log' : log'[i] = logged \/ (i \in DOMAIN log /\ log'[i] = log[i])
    BY <2>2, <2>5
  <2> QED
    BY <2>4, <2>6 DEF LogKeyed
<1>3. CASE UNCHANGED planVars
  BY <1>1, <1>3 DEF planVars, serverVars
<1>4. CASE TaskEvent \/ PutTaskPlan \/ PersistRevision
  BY <1>1, <1>4 DEF TaskEvent, PutTaskPlan, PersistRevision
<1>5. CASE OpenSession \/ ReplayPlans \/ LeaveSession \/ ReadBurst \/ ReadDelta
  BY <1>1, <1>5 DEF OpenSession, ReplayPlans, LeaveSession, ReadBurst, ReadDelta, serverVars
<1>6. CASE CallPlanHistory \/ ListRevisions \/ BackfillRevisions \/ RpcFails \/ LoadPlanHistory
  BY <1>1, <1>6 DEF CallPlanHistory, ListRevisions, BackfillRevisions, RpcFails, LoadPlanHistory, serverVars
<1> QED
  BY <1>2, <1>3, <1>4, <1>5, <1>6 DEF PlansNext

LEMMA FoldsFollow == PlanInv /\ LogKeyed => FoldsAgree
<1> SUFFICES ASSUME PlanInv, LogKeyed PROVE FoldsAgree
  OBVIOUS
<1>1. history \in Seq(Rec) /\ Sorted(history)
  BY DEF PlanInv, PlanTypes, HistorySorted, Sorted
<1>2. Keyed(history)
  <2>1. ASSUME NEW i \in DOMAIN history PROVE KeyedTasks(history[i].plan)
    <3>1. PlanTrue(history[i].plan)
      BY DEF PlanInv, PlansTrue, RecTrue
    <3> QED
      BY <3>1, KeyedStructure DEF PlanTrue, LogKeyed
  <2> QED
    BY <2>1 DEF Keyed
<1> QED
  BY <1>1, <1>2, CumulativeAgrees, SupersessionAgrees DEF FoldsAgree

(* The cumulative plan holds every task any revision had, with a revision  *)
(* that introduced it and one that last changed it, and the supersession   *)
(* map links every superseded task, each link to a task its revision       *)
(* introduced and no task twice (cumulativePlan, supersedesMap of          *)
(* planHistoryStore.ts), in whatever order the records came.               *)
THEOREM FoldsAreTrue == PlansSpec => []FoldsAgree
<1>1. PlansInit => PlanInv /\ LogKeyed
  BY InitPlanInv DEF PlansInit, LogKeyed
<1>2. (PlanInv /\ LogKeyed) /\ [PlansNext]_planVars => (PlanInv /\ LogKeyed)'
  BY NextPlanInv, NextLogKeyed
<1> QED
  BY <1>1, <1>2, FoldsFollow, PTL DEF PlansSpec
=============================================================================
