--------------------------- MODULE PlanRevisions ---------------------------
(* The browser's two registries of one plan, as operators on their values: *)
(* what TaskRegistry keeps of it (gantt/index.ts) and the revisions that   *)
(* PlanHistoryRegistry accumulates (state/planHistoryStore.ts).  A plan is *)
(* a record [revision, kind, tasks]; a task [id, supersedes, status].      *)
(* Titles, descriptions, assignees and predictions are left out: a task    *)
(* that is edited keeps its id or is replaced.  Edges are left out too.    *)
EXTENDS Naturals, Sequences, FiniteSets, SequencesExt

CONSTANTS NoPlan, NoTask

TaskIds(plan) == {plan.tasks[i].id : i \in DOMAIN plan.tasks}
WithStatus(plan, t, status) ==
    [plan EXCEPT !.tasks = [i \in DOMAIN @ |->
        IF @[i].id = t THEN [@[i] EXCEPT !.status = status] ELSE @[i]]]

-----------------------------------------------------------------------------
(* TaskRegistry.  A plan whose revision is another than that of the plan   *)
(* it replaces pushes the old one on the snapshots; a reason other than    *)
(* the last one is a notice, and the notices are the last MaxNotices.      *)
(* The reason of revision r is r, and an initial plan has none.            *)

Snapshots(snaps, current, plan) ==
    IF current # NoPlan /\ current.revision # plan.revision THEN Append(snaps, current) ELSE snaps

Notices(notices, plan, max) ==
    LET last == IF notices = <<>> THEN 0 ELSE Last(notices)
        longer == Append(notices, plan.revision)
    IN  IF plan.revision = 0 \/ plan.revision = last THEN notices
        ELSE IF Len(longer) > max THEN Tail(longer) ELSE longer

AllRevs(snaps, current) == IF current = NoPlan THEN snaps ELSE Append(snaps, current)

-----------------------------------------------------------------------------
(* PlanHistoryRegistry.append: the first record of a revision stays, and a *)
(* record that comes late goes to its place.  On a sorted registry that is *)
(* the number of records before it.                                        *)

Has(history, r) == \E i \in DOMAIN history : history[i].revision = r
Place(history, r) == Cardinality({i \in DOMAIN history : history[i].revision < r}) + 1
InsertRecord_AtEnd(history, rec) == Append(history, rec)
InsertRecord(history, rec) ==
    LET p == Place(history, rec.revision)
    IN  [i \in 1..(Len(history) + 1) |->
            IF i < p THEN history[i] ELSE IF i = p THEN rec ELSE history[i - 1]]

AppendRecord(history, rec) ==
    IF Has(history, rec.revision) THEN history ELSE InsertRecord(history, rec)

AppendAll(history, recs) == FoldLeft(AppendRecord, history, recs)

-----------------------------------------------------------------------------
(* cumulativePlan: one pass over the records, oldest first.  `meta` holds  *)
(* what the pass knows of each task it has met: the revision that          *)
(* introduced it, the one that last changed it, and its fingerprint, which *)
(* here is its status.                                                     *)

MeetTask(meta, r, task) ==
    IF task.id \notin DOMAIN meta
    THEN [t \in DOMAIN meta \union {task.id} |->
            IF t = task.id THEN [introduced |-> r, modified |-> r, fingerprint |-> task.status] ELSE meta[t]]
    ELSE [meta EXCEPT ![task.id].modified = IF meta[task.id].fingerprint = task.status THEN @ ELSE r,
                      ![task.id].fingerprint = task.status]

MeetRevision(meta, rec) ==
    FoldLeft(LAMBDA m, task : MeetTask(m, rec.revision, task), meta, rec.plan.tasks)

CumulativeMeta(history) == FoldLeft(MeetRevision, <<>>, history)

(* The tasks of the latest plan are current, the others superseded. *)
Superseded(history) == DOMAIN CumulativeMeta(history) \ TaskIds(Last(history).plan)

-----------------------------------------------------------------------------
(* supersedesMap: a function from old task ids to links [new, revision].   *)
(* The first pass takes what the tasks say of themselves, each in the      *)
(* revision it first appears in.                                           *)

FirstSeen(history, t) == CHOOSE i \in DOMAIN history :
                            /\ t \in TaskIds(history[i].plan)
                            /\ \A j \in 1..(i - 1) : t \notin TaskIds(history[j].plan)

Link(links, old, new, r) ==
    [t \in DOMAIN links \union {old} |-> IF t = old THEN [new |-> new, revision |-> r] ELSE links[t]]

Claim(history, i, links, task) ==
    IF \/ task.supersedes \in {NoTask, task.id} \/ FirstSeen(history, task.id) # i
       \/ task.supersedes \in DOMAIN links
    THEN links
    ELSE Link(links, task.supersedes, task.id, history[i].revision)

ClaimsOf(history, i, links) ==
    FoldLeft(LAMBDA l, task : Claim(history, i, l, task), links, history[i].plan.tasks)

ClaimedLinks(history) ==
    FoldLeft(LAMBDA links, i : ClaimsOf(history, i, links), <<>>, [i \in DOMAIN history |-> i])

(* The second pass pairs, in each transition and by position, the tasks    *)
(* that were dropped and not claimed with those that are new and claim     *)
(* nothing; the dropped ones that are left over have no successor.         *)

Ids(plan) == [i \in DOMAIN plan.tasks |-> plan.tasks[i].id]
(* The ids that are not in S, in their order. *)
Without(ids, S) ==
    FoldLeft(LAMBDA kept, t : IF t \in S THEN kept ELSE Append(kept, t), <<>>, ids)

PairDropped_Reused(history, claimed, links, i) ==
    LET dropped == Without(Ids(history[i - 1].plan), TaskIds(history[i].plan) \union DOMAIN claimed)
        next == Ids(history[i].plan)
    IN  FoldLeft(LAMBDA l, k : Link(l, dropped[k], IF k <= Len(next) THEN next[k] ELSE NoTask, history[i].revision),
                 links, [k \in DOMAIN dropped |-> k])

PairDropped(history, claimed, links, i) ==
    LET prev == history[i - 1].plan
        next == history[i].plan
        Before == UNION {TaskIds(history[j].plan) : j \in 1..(i - 1)}
        Successors == {claimed[t].new : t \in DOMAIN claimed}
        dropped == Without(Ids(prev), TaskIds(next) \union DOMAIN claimed)
        fresh == Without(Ids(next), Before \union Successors)
    IN  FoldLeft(LAMBDA l, k : Link(l, dropped[k], IF k <= Len(fresh) THEN fresh[k] ELSE NoTask, history[i].revision),
                 links, [k \in DOMAIN dropped |-> k])

SupersedesMap(history) ==
    LET claimed == ClaimedLinks(history)
    IN  FoldLeft(LAMBDA links, i : PairDropped(history, claimed, links, i),
                 claimed, [k \in 1..(Len(history) - 1) |-> k + 1])
=============================================================================
