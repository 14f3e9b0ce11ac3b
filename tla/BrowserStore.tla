---------------------------- MODULE BrowserStore ----------------------------
(***************************************************************************)
(* The store a browser tab keeps of one session (gantt/index.ts,           *)
(* SessionStore) as the frames of WatchSession fill it (rpc/hooks.ts,      *)
(* rpc/goldfiveEvent.ts): rows of agents, spans in their lanes, and the    *)
(* lists of drifts and delegations.  The store outlives the subscription:  *)
(* a session that is opened again reads a second burst into the first.     *)
(*                                                                         *)
(* The server is what SessionWatch shows of it: it publishes a frame as it *)
(* writes the row, and a reader subscribes before it reads the rows one    *)
(* kind at a time, so a frame may come twice.                              *)
(*                                                                         *)
(* Frames are [kind, id, agent, at].  A drift's agent is the actor it is   *)
(* attributed to, a plan's the assignee of its task, a cancel's the agent  *)
(* whose invocation was cancelled.  Tasks and cancels are of agents that   *)
(* work: none names the orchestrator.                                      *)
(***************************************************************************)
EXTENDS SpanIndex, FiniteSetsExt, TLC

CONSTANTS
  Frame,      \* what the server may have to say of the session, each once
  Compound,   \* agents whose id ends in ":goldfive"
  Legacy,     \* the id "__goldfive__" of the row made up for the orchestrator
  User,       \* the id "__user__"
  MaxVisits,  \* bound: how often the session is opened
  MaxQueue    \* bound: frames the reader is behind

ASSUME ActorAssumption ==
  Compound \subseteq Agent /\ {Legacy, User} \subseteq Agent /\ {Legacy, User} \intersect Compound = {} /\ Legacy # User
ASSUME FrameAssumption ==
  \A f \in Frame : /\ f.kind \in {"agent", "start", "end", "plan", "drift", "cancel", "delegation"}
                   /\ f.agent \in Agent /\ f.at \in 1..(Forever - 1)
                   /\ f.kind \in {"plan", "cancel"} => f.agent \notin Compound \union {Legacy, User}
                   /\ f.kind \in {"agent", "start", "end"} => f.agent # Legacy
(* Spans and markers have names of their own, and an agent's clock does not *)
(* go back while a span runs.                                              *)
Spanned == {f \in Frame : f.kind \in {"start", "end", "drift", "cancel"}}
ASSUME NameAssumption ==
  \A f, g \in Spanned : f.id = g.id /\ f # g =>
    \/ f.kind = "start" /\ g.kind = "end" /\ f.agent = g.agent /\ f.at <= g.at
    \/ g.kind = "start" /\ f.kind = "end" /\ f.agent = g.agent /\ g.at <= f.at
ASSUME StoreBounds == MaxVisits \in Nat /\ MaxQueue \in Nat /\ Forever \in Nat /\ Budget \in Nat

VARIABLES
  said,    \* frames whose rows are written
  queue,   \* frames published to the reader and not read yet
  reader,  \* where its stream is: away, or the kind of rows it reads next
  visits,  \* how often the session has been opened
  store    \* the tab's SessionStore

storeVars == <<said, queue, reader, visits, store>>

EmptyStore == [agents |-> <<>>, meta |-> <<>>, index |-> EmptyIndex, drifts |-> <<>>,
               delegations |-> <<>>, seen |-> {}]

StoreInit ==
  /\ said = {} /\ queue = <<>>
  /\ reader = "away" /\ visits = 0
  /\ store = EmptyStore

-----------------------------------------------------------------------------
(* AgentRegistry                                                           *)

Known(st, a) == a \in DOMAIN st.meta

AddAgent(st, a, meta) ==
  LET known == Put(st.meta, a, meta)
  IN  [st EXCEPT !.meta = known, !.agents = SortBy([b \in DOMAIN known |-> known[b].joined], Append(@, a))]

(* A row that is known is changed where it stands. *)
UpsertAgent(st, a, joined) ==
  LET real == [joined |-> joined, announced |-> FALSE]
  IN  IF Known(st, a) THEN [st EXCEPT !.meta[a] = real] ELSE AddAgent(st, a, real)

EnsureAgent(st, a) == IF Known(st, a) THEN st ELSE AddAgent(st, a, [joined |-> 0, announced |-> TRUE])

-----------------------------------------------------------------------------
(* The orchestrator's two rows                                             *)

CompoundRows(st) == {i \in DOMAIN st.agents : st.agents[i] \in Compound}
ResolveGoldfive(st) == IF CompoundRows(st) = {} THEN Legacy ELSE st.agents[Min(CompoundRows(st))]

RemoveAgent(st, a) ==
  [st EXCEPT !.agents = RemoveAt(@, CHOOSE i \in DOMAIN @ : @[i] = a),
             !.meta = [b \in DOMAIN @ \ {a} |-> @[b]]]

MergeGoldfive_RowOnly(st) ==
  IF CompoundRows(st) = {} \/ ~Known(st, Legacy) THEN st ELSE RemoveAgent(st, Legacy)
MergeGoldfive(st) ==
  IF CompoundRows(st) = {} \/ ~Known(st, Legacy) THEN st
  ELSE RemoveAgent([st EXCEPT !.index = ReassignAgent(@, Legacy, ResolveGoldfive(st))], Legacy)
MergeFor(st, a) == IF a \in Compound THEN MergeGoldfive(st) ELSE st

EnsureSynthetic(st, a) == IF Known(st, a) THEN st ELSE UpsertAgent(st, a, 1)

-----------------------------------------------------------------------------
(* What each frame does to the store                                       *)

Repack(st, a) == [st EXCEPT !.index = PackLanes(@, a)]
Marker(a, at) == [agent |-> a, start |-> at, end |-> at, lane |-> 0]

OnAgent(st, f) == MergeFor(UpsertAgent(st, f.agent, f.at), f.agent)

SpanId(f) == <<f.id, f.agent>>

(* A start that is replayed after the burst makes an ended span run again; *)
(* its end is behind it in the queue.                                      *)
OnSpan(st, f, end) ==
  MergeFor([st EXCEPT !.index = AppendSpan(@, SpanId(f), [agent |-> f.agent, start |-> f.at, end |-> end, lane |-> 0])],
           f.agent)

OnStart(st, f) == Repack(OnSpan(st, f, Forever), f.agent)

OnEnd_Unpacked(st, f) ==
  IF SpanId(f) \notin DOMAIN st.index.span THEN st ELSE [st EXCEPT !.index = UpdateSpan(@, SpanId(f), f.at)]
OnEnd(st, f) ==
  IF SpanId(f) \notin DOMAIN st.index.span THEN st
  ELSE LET shown == st.index.span[SpanId(f)]
           ended == [st EXCEPT !.index = UpdateSpan(@, SpanId(f), f.at)]
       IN  IF shown.end = Forever THEN Repack(ended, shown.agent) ELSE ended

OnPlan(st, f) == EnsureAgent(st, f.agent)

(* The marker goes to the row the actor has, and is named after it. *)
OnDrift(st, f) ==
  LET actor == IF f.agent = User THEN User ELSE ResolveGoldfive(st)
      rowed == EnsureSynthetic(st, actor)
  IN  [rowed EXCEPT !.drifts = Append(@, f.id),
                    !.index = AppendSpan(@, <<f.id, actor>>, Marker(actor, f.at))]

OnCancel(st, f) ==
  [EnsureAgent(st, f.agent) EXCEPT !.index = AppendSpan(@, SpanId(f), Marker(f.agent, f.at))]

OnDelegation(st, f) ==
  IF f.id \in st.seen THEN st ELSE [st EXCEPT !.seen = @ \union {f.id}, !.delegations = Append(@, f.id)]

(* Plans, drifts, cancels and delegations are goldfive events: after any   *)
(* of them the orchestrator's row is packed.                               *)
OnEvent(st, f) ==
  LET next == CASE f.kind = "plan" -> OnPlan(st, f)
                [] f.kind = "drift" -> OnDrift(st, f)
                [] f.kind = "cancel" -> OnCancel(st, f)
                [] f.kind = "delegation" -> OnDelegation(st, f)
  IN  Repack(next, ResolveGoldfive(next))

OnFrame(st, f) ==
  CASE f.kind = "agent" -> OnAgent(st, f)
    [] f.kind = "start" -> OnStart(st, f)
    [] f.kind = "end" -> OnEnd(st, f)
    [] OTHER -> OnEvent(st, f)

-----------------------------------------------------------------------------
(* The server's side, and the stream                                       *)

(* A span's agent is stored before it, and it starts before it ends. *)
MayFollow(f) ==
  /\ f.kind = "start" => \E g \in said : g.kind = "agent" /\ g.agent = f.agent
  /\ f.kind = "end" => \E g \in said : g.kind = "start" /\ g.id = f.id

Say_SubscribedLate(f) ==
  /\ f \notin said /\ MayFollow(f) /\ Len(queue) < MaxQueue
  /\ said' = said \union {f}
  /\ queue' = IF reader = "live" THEN Append(queue, f) ELSE queue
  /\ UNCHANGED <<reader, visits, store>>
Say(f) ==
  /\ f \notin said /\ MayFollow(f) /\ Len(queue) < MaxQueue
  /\ said' = said \union {f}
  /\ queue' = IF reader = "away" THEN queue ELSE Append(queue, f)
  /\ UNCHANGED <<reader, visits, store>>

(* The rows of some kinds, by their time; of the same time in any order.   *)
Orders(kinds) ==
  LET rows == {f \in said : f.kind \in kinds}
  IN  {fs \in [1..Cardinality(rows) -> rows] :
          Range(fs) = rows /\ \A i, j \in DOMAIN fs : i < j => fs[i].at <= fs[j].at}

Open ==
  /\ reader = "away" /\ visits < MaxVisits
  /\ reader' = "agents" /\ visits' = visits + 1
  /\ UNCHANGED <<said, queue, store>>

ReadAgents ==
  /\ reader = "agents"
  /\ \E rows \in Orders({"agent"}) : store' = FoldLeft(OnAgent, store, rows)
  /\ reader' = "spans"
  /\ UNCHANGED <<said, queue, visits>>

StoredEnd(f) ==
  LET ends == {g.at : g \in {g \in said : g.kind = "end" /\ g.id = f.id}}
  IN  IF ends = {} THEN Forever ELSE CHOOSE e \in ends : TRUE

ReadSpans ==
  /\ reader = "spans"
  /\ \E rows \in Orders({"start"}) :
        store' = FoldLeft(LAMBDA st, f : OnSpan(st, f, StoredEnd(f)), store, rows)
  /\ reader' = "events"
  /\ UNCHANGED <<said, queue, visits>>

(* The rest of the burst, and its end, which packs every row there is. *)
PackAll(st) == FoldLeft(Repack, st, st.agents)

ReadEvents ==
  /\ reader = "events"
  /\ \E plans \in Orders({"plan"}), drifts \in Orders({"drift"}),
        cancels \in Orders({"cancel"}), edges \in Orders({"delegation"}) :
        store' = PackAll(FoldLeft(OnEvent, store, plans \o drifts \o cancels \o edges))
  /\ reader' = "live"
  /\ UNCHANGED <<said, queue, visits>>

Deliver ==
  /\ reader = "live" /\ queue # <<>>
  /\ store' = OnFrame(store, Head(queue))
  /\ queue' = Tail(queue)
  /\ UNCHANGED <<said, reader, visits>>

Leave ==
  /\ reader # "away"
  /\ reader' = "away" /\ queue' = <<>>
  /\ UNCHANGED <<said, visits, store>>

StoreNext ==
  \/ \E f \in Frame : Say(f)
  \/ Open \/ ReadAgents \/ ReadSpans \/ ReadEvents \/ Deliver \/ Leave

StoreSpec == StoreInit /\ [][StoreNext]_storeVars

-----------------------------------------------------------------------------
(* Properties                                                              *)

index == store.index
Indexed == DOMAIN index.span

(* Every row of the registry stands once in its list and is described, and *)
(* every span is in the index once, in the row of the agent it names:      *)
(* whichever frames came twice, and whichever row was merged away.         *)
StoreTypeOK ==
  /\ said \subseteq Frame /\ queue \in Seq(Frame) /\ visits \in 0..MaxVisits
  /\ reader \in {"away", "agents", "spans", "events", "live"}
  /\ IsInjective(store.agents) /\ Range(store.agents) = DOMAIN store.meta
  /\ \A a \in Agent : /\ IsInjective(index.rows[a])
                       /\ Range(index.rows[a]) = {x \in Indexed : index.span[x].agent = a}
  /\ \A x \in Indexed : index.span[x].end \in 1..Forever /\ index.span[x].lane \in Nat

(* SpanIndex: the rows stay in the order of the starts, which the binary   *)
(* searches of append, queryAgent and reassignAgent take for granted,      *)
(* when a late span is inserted, and when the orchestrator's rows merge.   *)
RowsSorted == \A a \in Agent : RowIsSorted(index, a)

(* SpanIndex.queryAgent: in every window, each span at most once, only     *)
(* spans that overlap it, and all of those that start no more than the     *)
(* walk's budget before it.                                                *)
Touches(s, t0, t1) == s.end >= t0 /\ s.start < t1
QueryFinds ==
  \A a \in {x.agent : x \in Range(index.span)} : \A t1 \in 1..Forever : \A t0 \in 0..(t1 - 1) :
    LET found == QueryAgent(index, a, t0, t1)
        touching == {x \in Range(index.rows[a]) : Touches(index.span[x], t0, t1)}
    IN  /\ IsInjective(found) /\ Range(found) \subseteq touching
        /\ \A x \in touching : index.span[x].start + Budget >= t0 => x \in Range(found)

(* SpanIndex.maxEndMs: a window that ends just behind it holds everything, *)
(* which the views that show a whole session rely on.                      *)
WholeSessionFound ==
  \A a \in Agent : Range(QueryAgent(index, a, 0, index.maxEnd + 1)) = Range(index.rows[a])

(* What the index answers is what is stored: the viewport and the whole    *)
(* session miss no span that overlaps them (spatialIndex.ts).              *)
QueriesFind == QueryFinds /\ WholeSessionFound

(* packLanes and its callers: after the burst, two spans of a row that     *)
(* overlap are in different lanes.  Only the row of an agent that was      *)
(* stored between the burst's agents and its spans has to wait, until its  *)
(* spans have come again from the queue.  Markers are points and not       *)
(* counted: the row of a cancel is not packed.                             *)
Settled(a) == reader = "live" /\ \A f \in Range(queue) : ~(f.kind = "start" /\ f.agent = a)
Solid(a) == {x \in Range(index.rows[a]) : index.span[x].start < index.span[x].end}
LanesDistinct ==
  \A a \in Agent : Settled(a) =>
    \A x \in Solid(a) : \A y \in Solid(a) \ {x} :
      Overlap(index.span[x], index.span[y]) => index.span[x].lane # index.span[y].lane

(* A lane is open only because of a span that started while all the lanes  *)
(* below were taken: when a span ends, the lanes close up again.           *)
LanesNeeded ==
  \A a \in Agent : Settled(a) =>
    \A x \in Solid(a) :
      index.span[x].lane <= 1 + Cardinality({y \in Solid(a) \ {x} :
        index.span[y].start <= index.span[x].start /\ index.span[x].start < index.span[y].end})

(* Overlapping spans of a row have lanes of their own, and no more lanes   *)
(* than the row needs, whichever frames moved or ended them (packLanes).   *)
LanesPacked == LanesDistinct /\ LanesNeeded

(* mergeGoldfiveAlias and resolveGoldfiveActorId: the orchestrator is      *)
(* never shown twice.  Once the row the server knows it by has come, the   *)
(* made-up one is gone, and no marker is left behind on it.                *)
OneOrchestrator == CompoundRows(store) # {} => ~Known(store, Legacy) /\ index.rows[Legacy] = <<>>

(* DelegationRegistry.append: an edge that comes with the burst and again  *)
(* from the queue, or with a second burst, is drawn once.                  *)
DelegationsOnce == IsInjective(store.delegations)

(* The store is well formed after every frame: sorted rows, one row for    *)
(* the orchestrator, one arrow for each delegation (gantt/index.ts).       *)
StoreConsistent == StoreTypeOK /\ RowsSorted /\ OneOrchestrator /\ DelegationsOnce

TellsOf(g, a, meta) == g.kind = "agent" /\ g.agent = a /\ meta = [joined |-> g.at, announced |-> FALSE]

(* A browser that has read all it was sent shows what the server has: the  *)
(* agents as they joined, every span with its end, a marker for every      *)
(* drift, every delegation.                                                *)
CaughtUp ==
  reader = "live" /\ queue = <<>> =>
    \A f \in said :
      CASE f.kind = "agent" -> Known(store, f.agent) /\ \E g \in said : TellsOf(g, f.agent, store.meta[f.agent])
        [] f.kind = "start" -> SpanId(f) \in Indexed /\ index.span[SpanId(f)].end = StoredEnd(f)
        [] f.kind = "plan" -> Known(store, f.agent)
        [] f.kind = "drift" -> f.id \in Range(store.drifts) /\ \E x \in Indexed : x[1] = f.id
        [] f.kind = "cancel" -> SpanId(f) \in Indexed
        [] f.kind = "delegation" -> f.id \in Range(store.delegations)
        [] OTHER -> TRUE
=============================================================================
