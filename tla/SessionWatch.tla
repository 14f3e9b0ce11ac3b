---------------------------- MODULE SessionWatch ----------------------------
(***************************************************************************)
(* One session of the server: the span and run handlers of ingest.py that  *)
(* write its rows and publish deltas, the WatchSession RPC                 *)
(* (rpc/frontend.py) that replays the rows and then follows the deltas,    *)
(* and the browser's reading of them (frontend, rpc/hooks.ts).             *)
(*                                                                         *)
(* The server is one asyncio loop and the store one lock, which a          *)
(* coroutine holds for one call.  A coroutine that is given its result     *)
(* runs on to its next call, so a store call and everything up to the next *)
(* one are one step here: a row's write and its delta, the session row's   *)
(* read and the subscription.                                              *)
(*                                                                         *)
(* The frames between server and browser only delay, so a watcher's view   *)
(* is that of a browser that has read everything it was sent.              *)
(***************************************************************************)
EXTENDS SessionBus

CONSTANTS
  Stream,      \* telemetry streams that feed the session
  Span,
  Owner,       \* the stream each span comes on
  Invocation,  \* the spans of kind INVOCATION
  Early,       \* spans that start before the watch window
  EndStatus,   \* the statuses with which clients end spans
  MaxUpdates,  \* bound: attribute changes of a span
  MaxRuns      \* bound: runs that end

ASSUME OwnerAssumption == Owner \in [Span -> Stream]
ASSUME KindAssumption == Invocation \subseteq Span /\ Early \subseteq Span
ASSUME StatusAssumption == EndStatus \subseteq {"COMPLETED", "FAILED", "CANCELLED"}
ASSUME BoundAssumption == MaxUpdates \in Nat /\ MaxRuns \in Nat

VARIABLES
  session,  \* the session's row
  spans,    \* the spans' rows
  open,     \* spans whose client has not ended them
  handler,  \* what each stream's handler has left to do
  runs,     \* runs that have ended
  overlap,  \* two runs' finalizations have overlapped
  pc,       \* where each WatchSession call is
  windowed, \* it asks for recent spans only
  view      \* what the browser shows

store == <<session, spans, open, handler, runs, overlap>>
watch == <<pc, windowed, view>>
vars == <<bus, store, watch>>

SessionStatus == {"LIVE", "COMPLETED", "ABORTED"}
FinalStatus == {"COMPLETED", "ABORTED"}
SpanStatus == {"RUNNING", "COMPLETED", "FAILED", "CANCELLED"}

(* A span row: attrs counts the changes of its attributes.                 *)
Row == [status : SpanStatus, ended : BOOLEAN, attrs : 0 .. MaxUpdates]
Absent == [status |-> "absent", ended |-> FALSE, attrs |-> 0]
Started == [status |-> "RUNNING", ended |-> FALSE, attrs |-> 0]

(* What a suspended handler resumes: the attributes of an ended span, or   *)
(* the rest of _finalize_session, with the spans it listed as open and     *)
(* those of them it has not ended yet.  A signal carries the spans that    *)
(* were ended for it, for the properties.                                  *)
Idle == [op |-> "idle"]
Attributes(s) == [op |-> "attributes", span |-> s]
Finalize(final) == [op |-> "list", final |-> final, listed |-> {}]
Close(final, listed, left) == [op |-> "close", final |-> final, listed |-> listed, left |-> left]
Refresh(h, s) == [op |-> "refresh", final |-> h.final, listed |-> h.listed, left |-> h.left \ {s}, span |-> s]

SpanDelta(kind, s, row) == [kind |-> kind, span |-> s, row |-> row]
SessionEnded(h) == [kind |-> "session_ended", status |-> h.final, closed |-> h.listed]

Blank == [session |-> "UNKNOWN", spans |-> [s \in Span |-> Absent]]

Init ==
  /\ BusInit
  /\ session = [status |-> "LIVE", ended_at |-> 0]
  /\ spans = [s \in Span |-> Absent] /\ open = {}
  /\ handler = [st \in Stream |-> Idle]
  /\ runs = 0 /\ overlap = FALSE
  /\ pc = [w \in Watcher |-> "new"]
  /\ windowed = [w \in Watcher |-> FALSE]
  /\ view = [w \in Watcher |-> Blank]
-----------------------------------------------------------------------------
(* _handle_span_start.                                                     *)
SpanStart(s) ==
  /\ handler[Owner[s]] = Idle /\ spans[s] = Absent
  /\ spans' = [spans EXCEPT ![s] = Started]
  /\ open' = open \cup {s}
  /\ Publish(SpanDelta("new_span", s, spans'[s]))
  /\ UNCHANGED <<session, handler, runs, overlap, watch>>

(* _handle_span_update: the client updates spans it has not ended.         *)
SpanUpdate(s) ==
  /\ handler[Owner[s]] = Idle /\ s \in open /\ spans[s].attrs < MaxUpdates
  /\ spans' = [spans EXCEPT ![s].attrs = @ + 1]
  /\ Publish(SpanDelta("updated_span", s, spans'[s]))
  /\ UNCHANGED <<session, open, handler, runs, overlap, watch>>

EndRow(s, status) == [spans EXCEPT ![s].status = status, ![s].ended = TRUE]

(* _handle_span_end, of a SpanEnd without attributes.                      *)
SpanEnd(s, status) ==
  /\ handler[Owner[s]] = Idle /\ s \in open
  /\ open' = open \ {s}
  /\ spans' = EndRow(s, status)
  /\ Publish(SpanDelta("ended_span", s, spans'[s]))
  /\ UNCHANGED <<session, handler, runs, overlap, watch>>

(* A SpanEnd with attributes takes a second store call, and publishes      *)
(* after it.                                                               *)
SpanEndWithAttributes(s, status) ==
  /\ handler[Owner[s]] = Idle /\ s \in open /\ spans[s].attrs < MaxUpdates
  /\ open' = open \ {s}
  /\ spans' = EndRow(s, status)
  /\ handler' = [handler EXCEPT ![Owner[s]] = Attributes(s)]
  /\ UNCHANGED <<session, runs, overlap, watch, bus>>

(* Mutant: only the end is published.                                      *)
SpanEndAttributes_EndOnly(st) ==
  /\ handler[st].op = "attributes"
  /\ LET s == handler[st].span
     IN  /\ spans' = [spans EXCEPT ![s].attrs = @ + 1]
         /\ Publish(SpanDelta("ended_span", s, spans'[s]))
  /\ handler' = [handler EXCEPT ![st] = Idle]
  /\ UNCHANGED <<session, open, runs, overlap, watch>>

SpanEndAttributes(st) ==
  /\ handler[st].op = "attributes"
  /\ LET s == handler[st].span
     IN  /\ spans' = [spans EXCEPT ![s].attrs = @ + 1]
         /\ PublishBoth(SpanDelta("updated_span", s, spans'[s]), SpanDelta("ended_span", s, spans'[s]))
  /\ handler' = [handler EXCEPT ![st] = Idle]
  /\ UNCHANGED <<session, open, runs, overlap, watch>>

IsFinalizing(st) == handler[st].op \in {"list", "close", "refresh"}

(* _on_run_completed, _on_run_aborted: _finalize_session up to the session *)
(* row.                                                                    *)
RunEnds(st, final) ==
  /\ handler[st] = Idle /\ runs < MaxRuns
  /\ runs' = runs + 1
  /\ overlap' = (overlap \/ \E other \in Stream : IsFinalizing(other))
  /\ session' = [status |-> final, ended_at |-> runs']
  /\ handler' = [handler EXCEPT ![st] = Finalize(final)]
  /\ UNCHANGED <<spans, open, watch, bus>>

OpenInvocations == {s \in Invocation : spans[s] # Absent /\ ~spans[s].ended}

(* get_spans: what is open now will be ended; if nothing is, the session's *)
(* end is published at once.                                               *)
ListOpenSpans(st) ==
  LET h == handler[st]
  IN  /\ h.op = "list"
      /\ IF OpenInvocations = {}
           THEN /\ handler' = [handler EXCEPT ![st] = Idle]
                /\ Publish(SessionEnded(h))
           ELSE /\ handler' = [handler EXCEPT ![st] = Close(h.final, OpenInvocations, OpenInvocations)]
                /\ UNCHANGED bus
      /\ UNCHANGED <<session, spans, open, runs, overlap, watch>>

CloseSpan(st, s) ==
  LET h == handler[st]
  IN  /\ h.op = "close" /\ s \in h.left
      /\ spans' = EndRow(s, IF h.final = "COMPLETED" THEN "COMPLETED" ELSE "CANCELLED")
      /\ handler' = [handler EXCEPT ![st] = Refresh(h, s)]
      /\ UNCHANGED <<session, open, runs, overlap, watch, bus>>

(* Mutant: the session's end is published ahead of its last span's.        *)
RefreshSpan_SessionFirst(st) ==
  LET h == handler[st]
      ended == SpanDelta("ended_span", h.span, spans[h.span])
  IN  /\ h.op = "refresh"
      /\ IF h.left = {}
           THEN /\ handler' = [handler EXCEPT ![st] = Idle]
                /\ PublishBoth(SessionEnded(h), ended)
           ELSE /\ handler' = [handler EXCEPT ![st] = Close(h.final, h.listed, h.left)]
                /\ Publish(ended)
      /\ UNCHANGED <<session, spans, open, runs, overlap, watch>>

(* get_span and publish_span_end; after the last span, the session's end.  *)
RefreshSpan(st) ==
  LET h == handler[st]
      ended == SpanDelta("ended_span", h.span, spans[h.span])
  IN  /\ h.op = "refresh"
      /\ IF h.left = {}
           THEN /\ handler' = [handler EXCEPT ![st] = Idle]
                /\ PublishBoth(ended, SessionEnded(h))
           ELSE /\ handler' = [handler EXCEPT ![st] = Close(h.final, h.listed, h.left)]
                /\ Publish(ended)
      /\ UNCHANGED <<session, spans, open, runs, overlap, watch>>
-----------------------------------------------------------------------------
(* WatchSession, up to its first frame: the row and the subscription.  A   *)
(* session that is live asks for recent spans only.                        *)
Open(w) ==
  /\ pc[w] = "new"
  /\ pc' = [pc EXCEPT ![w] = "burst"]
  /\ windowed' = [windowed EXCEPT ![w] = session.status = "LIVE"]
  /\ view' = [view EXCEPT ![w].session = session.status]
  /\ Subscribe(w)
  /\ UNCHANGED store

(* A span overlaps the window if its end, or its start while it is open,   *)
(* lies in it.                                                             *)
InWindow == {s \in Span : spans[s] # Absent /\ (s \in Early => spans[s].ended)}
Stored == {s \in Span : spans[s] # Absent}

Showing(sent) == [s \in Span |-> IF s \in sent THEN spans[s] ELSE Absent]

(* The burst's spans.  If the window holds none, all are asked for.        *)
ReadSpans(w) ==
  /\ pc[w] = "burst"
  /\ LET sent == IF windowed[w] THEN InWindow ELSE Stored
     IN  IF windowed[w] /\ sent = {}
           THEN /\ windowed' = [windowed EXCEPT ![w] = FALSE]
                /\ UNCHANGED <<pc, view>>
           ELSE /\ pc' = [pc EXCEPT ![w] = "tail"]
                /\ view' = [view EXCEPT ![w].spans = Showing(sent)]
                /\ UNCHANGED windowed
  /\ UNCHANGED <<store, bus>>

(* The browser's reading of a delta.  It updates and ends only spans it    *)
(* shows; a new span it shows already is overwritten.  Nothing comes of a  *)
(* backpressure delta, which _delta_to_session_update drops.               *)
Show(v, d) ==
  CASE d.kind = "new_span" -> [v EXCEPT !.spans[d.span] = d.row]
    [] d.kind = "updated_span" /\ v.spans[d.span] # Absent ->
         [v EXCEPT !.spans[d.span].status = d.row.status, !.spans[d.span].attrs = d.row.attrs]
    [] d.kind = "ended_span" /\ v.spans[d.span] # Absent ->
         [v EXCEPT !.spans[d.span].status = d.row.status, !.spans[d.span].ended = TRUE]
    [] d.kind = "session_ended" -> [v EXCEPT !.session = d.status]
    [] OTHER -> v

Follow(w) ==
  /\ pc[w] = "tail" /\ queue[w] # <<>>
  /\ view' = [view EXCEPT ![w] = Show(@, Head(queue[w]))]
  /\ queue' = [queue EXCEPT ![w] = Tail(@)]
  /\ UNCHANGED <<registered, dropped, store, pc, windowed>>

(* The browser goes away: the generator's finally.                         *)
Leave(w) ==
  /\ pc[w] \in {"burst", "tail"}
  /\ pc' = [pc EXCEPT ![w] = "left"]
  /\ view' = [view EXCEPT ![w] = Blank]
  /\ Unsubscribe(w)
  /\ UNCHANGED <<windowed, store>>
-----------------------------------------------------------------------------
(* What a suspended handler does next.                                     *)
Resume(st) ==
  \/ SpanEndAttributes(st) \/ ListOpenSpans(st) \/ RefreshSpan(st)
  \/ \E s \in Span : CloseSpan(st, s)

Ingest ==
  \/ \E s \in Span : SpanStart(s) \/ SpanUpdate(s)
  \/ \E s \in Span, status \in EndStatus :
       SpanEnd(s, status) \/ SpanEndWithAttributes(s, status)
  \/ \E st \in Stream, final \in FinalStatus : RunEnds(st, final)
  \/ \E st \in Stream : Resume(st)

Next ==
  \/ Ingest
  \/ \E w \in Watcher : Open(w) \/ ReadSpans(w) \/ Follow(w) \/ Leave(w)

Spec == Init /\ [][Next]_vars

-----------------------------------------------------------------------------
Handler ==
  {Idle} \cup {Attributes(s) : s \in Span}
  \cup {Finalize(f) : f \in FinalStatus}
  \cup {Close(f, l, r) : f \in FinalStatus, l \in SUBSET Invocation, r \in SUBSET Invocation}
  \cup {Refresh(Close(f, l, r), s) :
          f \in FinalStatus, l \in SUBSET Invocation, r \in SUBSET Invocation, s \in Invocation}

TypeOK ==
  /\ BusTypeOK
  /\ session \in [status : SessionStatus, ended_at : 0 .. MaxRuns]
  /\ spans \in [Span -> Row \cup {Absent}] /\ open \subseteq Stored
  /\ handler \in [Stream -> Handler]
  /\ runs \in 0 .. MaxRuns /\ overlap \in BOOLEAN
  /\ pc \in [Watcher -> {"new", "burst", "tail", "left"}]
  /\ windowed \in [Watcher -> BOOLEAN]
  /\ view \in [Watcher -> [session : SessionStatus \cup {"UNKNOWN"}, spans : [Span -> Row \cup {Absent}]]]

(* A view after each delta of a queue, and once the queue is read.         *)
Replay(v, q) ==
  LET at[n \in 0 .. Len(q)] == IF n = 0 THEN v ELSE Show(at[n - 1], q[n])
  IN  at

CaughtUp(w) == Replay(view[w], queue[w])[Len(queue[w])]

(* Rows a handler has written and will publish when it resumes.            *)
Unpublished ==
  {s \in Span : \E st \in Stream :
     handler[st].op \in {"attributes", "refresh"} /\ handler[st].span = s}

(* A browser that follows the session and missed no delta is behind the    *)
(* store by exactly what its queue holds: every span it shows will then be *)
(* as stored, whatever was written between the subscription, the burst's   *)
(* reads and the tail, and the spans it will not show are those that began *)
(* before the window and were open when the burst was read.                *)
ViewCatchesUp ==
  \A w \in Watcher : pc[w] = "tail" /\ dropped[w] = 0 =>
    \A s \in Span \ Unpublished :
      \/ CaughtUp(w).spans[s] = spans[s]
      \/ s \in Early /\ windowed[w] /\ CaughtUp(w).spans[s] = Absent

(* It will also show the session's status, unless a run is being finalized *)
(* or two runs' finalizations have overlapped: the statuses written and    *)
(* the signals published can then come in different orders.                *)
StatusCatchesUp ==
  \A w \in Watcher :
    /\ pc[w] \in {"burst", "tail"} /\ dropped[w] = 0 /\ ~overlap
    /\ \A st \in Stream : ~IsFinalizing(st)
    => CaughtUp(w).session = session.status

(* A browser whose watch has dropped nothing and that has read everything  *)
(* shows the stored spans and the stored status, deltas that WatchSession  *)
(* queued while it sent its burst included.                                *)
CatchesUp == TypeOK /\ ViewCatchesUp /\ StatusCatchesUp

(* "Fan out the session-level terminal signal last so subscribers ... see  *)
(* it only after spans are finalized" (_finalize_session): when a browser  *)
(* that missed nothing reads the signal, it shows none of the invocations  *)
(* that were ended for it as running.                                      *)
SpansEndBeforeSession ==
  [][\A w \in Watcher :
       Follow(w) /\ dropped[w] = 0 /\ Head(queue[w]).kind = "session_ended" =>
         \A s \in Head(queue[w]).closed : view[w].spans[s] # Absent => view[w].spans[s].ended]_vars
=============================================================================
