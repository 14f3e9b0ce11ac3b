---------------------------- MODULE Annotations ----------------------------
(***************************************************************************)
(* The notes on a session: the PostAnnotation handler of                   *)
(* server/harmonograf_server/rpc/frontend.py, the annotation store of a    *)
(* browser tab (frontend/src/state/annotationStore.ts), the hook that      *)
(* posts (usePostAnnotation, frontend/src/rpc/hooks.ts), the components    *)
(* that call it, and the watch stream that brings annotations to the tab.  *)
(*                                                                         *)
(* A note is shown at once under a temporary id; the server stores it,     *)
(* publishes it to the open streams, delivers a steering note to the       *)
(* agent, and answers with the row it stored; the tab replaces the         *)
(* temporary row by it.  The answer and the stream's frame come in any     *)
(* order, and either may not come at all.                                  *)
(*                                                                         *)
(* A post is one PostAnnotation call; the stored annotation it makes has   *)
(* the post's own id.  A post that is a retry has the note of the first    *)
(* one.  Times are: 0 for the start of the annotated span, d for the       *)
(* range the user dragged for draft d.                                     *)
(***************************************************************************)
EXTENDS Naturals, Sequences, FiniteSets, Functions

CONSTANTS
    MaxPosts,   \* bound: PostAnnotation calls
    MaxDrafts,  \* bound: ranges the user drags
    MaxOpens,   \* bound: times the tab opens the watch stream
    Spans       \* the spans that are annotated

ASSUME BoundsAssumption == /\ MaxPosts \in Nat \ {0}
                           /\ MaxDrafts \in Nat
                           /\ MaxOpens \in Nat
ASSUME SpansAssumption == Spans # {}

VARIABLES
    about,      \* what each post is about; of no meaning before it is posted
    call,       \* the tab's side of each post
    handler,    \* the server's side of each post
    delivered,  \* the stored annotations that have delivered_at
    heard,      \* how often the agent was given each note as a STEER
    steering,   \* the posts whose menu waits for SendControl
    rows,       \* the tab's annotations, by id
    draft,      \* the range dialog that is open, or 0
    drags,      \* ranges dragged so far
    watch       \* the tab's watch stream

vars == <<about, call, handler, delivered, heard, steering, rows, draft,
          drags, watch>>

Posts == 1..MaxPosts
Ids == [post : Posts, temp : BOOLEAN]
Temp(p) == [post |-> p, temp |-> TRUE]
Stored(p) == [post |-> p, temp |-> FALSE]

About == [span : Spans, kind : {"COMMENT", "STEERING"}, note : Posts,
          draft : 0..MaxDrafts, before : SUBSET Ids]

\* at, end: where the pin is drawn; end is 0 for a pin that is no range.
Row == [at : 0..MaxDrafts, end : 0..MaxDrafts, delivered : BOOLEAN,
        pending : BOOLEAN, error : BOOLEAN]

HandlerStates == {"none", "sent", "stored", "published", "acked", "done",
                  "lost", "silent"}

OnServer(p) == handler[p] \in {"stored", "published", "acked", "done", "silent"}
Announced(p) == handler[p] \in {"published", "acked", "done"}

Init ==
    /\ about = [p \in Posts |->
                  [span |-> CHOOSE s \in Spans : TRUE, kind |-> "COMMENT",
                   note |-> p, draft |-> 0, before |-> {}]]
    /\ call = [p \in Posts |-> "none"]
    /\ handler = [p \in Posts |-> "none"]
    /\ delivered = {}
    /\ heard = [p \in Posts |-> 0]
    /\ steering = {}
    /\ rows = <<>>
    /\ draft = 0
    /\ drags = 0
    /\ watch = [phase |-> "closed", burst |-> <<>>, queue |-> <<>>, opens |-> 0]

-----------------------------------------------------------------------------
(* The annotation store.                                                   *)

UpsertReplaces(rs, i, r) ==  \* mutant
    [j \in DOMAIN rs \cup {i} |-> IF j = i THEN r ELSE rs[j]]

\* upsert: the fields of r replace those the row has.  No r has the end of a
\* range (rangeEndMs), so a row keeps the one it has.
Upsert(rs, i, r) ==
    [j \in DOMAIN rs \cup {i} |->
       IF j # i THEN rs[j]
       ELSE [r EXCEPT !.end = IF i \in DOMAIN rs THEN rs[i].end ELSE 0]]

Without(rs, i) == Restrict(rs, DOMAIN rs \ {i})

MarkErrorRemoves(rs, i) == Without(rs, i)  \* mutant

MarkError(rs, i) ==
    IF i \in DOMAIN rs
      THEN [rs EXCEPT ![i].error = TRUE, ![i].pending = FALSE]
      ELSE rs

Optimistic == [at |-> 0, end |-> 0, delivered |-> FALSE, pending |-> TRUE,
               error |-> FALSE]

\* convertAnnotation: a row of the wire has no end of a range.
Converted(isDelivered) ==
    [at |-> 0, end |-> 0, delivered |-> isDelivered, pending |-> FALSE,
     error |-> FALSE]

-----------------------------------------------------------------------------
(* The user posts.                                                         *)

Unused(p) == handler[p] = "none" /\ p \notin steering
NextPost(p) == Unused(p) /\ \A q \in 1..(p - 1) : ~Unused(q)

\* usePostAnnotation up to its await.
PostAs(p, rs, a) ==
    /\ rows' = Upsert(rs, Temp(p), Optimistic)
    /\ about' = [about EXCEPT ![p] = a]
    /\ call' = [call EXCEPT ![p] = "waiting"]
    /\ handler' = [handler EXCEPT ![p] = "sent"]

Note(p, s) == [span |-> s, kind |-> "COMMENT", note |-> p, draft |-> 0,
               before |-> {}]

AddNote(p, s) ==
    /\ NextPost(p)
    /\ PostAs(p, rows, Note(p, s))
    /\ UNCHANGED <<delivered, heard, steering, draft, drags, watch>>

\* A drag over the timeline opens the dialog, or replaces the open one.
DragRange ==
    /\ drags < MaxDrafts
    /\ drags' = drags + 1
    /\ draft' = drags + 1
    /\ UNCHANGED <<about, call, handler, delivered, heard, steering, rows, watch>>

\* Escape closes the dialog, whether or not it is being saved.
CancelDraft ==
    /\ draft # 0
    /\ draft' = 0
    /\ UNCHANGED <<about, call, handler, delivered, heard, steering, rows,
                   drags, watch>>

\* submitDraft up to its await; Ctrl+Enter does not look at busy.
SubmitDraft(p, s) ==
    /\ draft # 0
    /\ NextPost(p)
    /\ PostAs(p, rows, [Note(p, s) EXCEPT !.draft = draft,
                                          !.before = DOMAIN rows])
    /\ UNCHANGED <<delivered, heard, steering, draft, drags, watch>>

\* submitDraft where the row has no span.
DraftNowhere ==
    /\ draft # 0
    /\ draft' = 0
    /\ UNCHANGED <<about, call, handler, delivered, heard, steering, rows,
                   drags, watch>>

\* The span menu's Steer sends a control first.
SteerFromMenu(p) ==
    /\ NextPost(p)
    /\ steering' = steering \cup {p}
    /\ UNCHANGED <<about, call, handler, delivered, heard, rows, draft, drags,
                   watch>>

\* h: whether the agent was given the event, which SendControl's answer
\* tells and the menu does not look at.
HeardIf(n, h) == heard' = [heard EXCEPT ![n] = @ + (IF h THEN 1 ELSE 0)]

\* SendControl has answered: the menu posts the note as STEERING.
ControlAnswered(p, s) ==
    /\ p \in steering
    /\ steering' = steering \ {p}
    /\ \E h \in BOOLEAN : HeardIf(p, h)
    /\ PostAs(p, rows, [Note(p, s) EXCEPT !.kind = "STEERING"])
    /\ UNCHANGED <<delivered, draft, drags, watch>>

\* SendControl has failed: the menu shows the error and posts nothing.
ControlFails(p) ==
    /\ p \in steering
    /\ steering' = steering \ {p}
    /\ \E h \in BOOLEAN : HeardIf(p, h)
    /\ handler' = [handler EXCEPT ![p] = "lost"]
    /\ UNCHANGED <<about, call, delivered, rows, draft, drags, watch>>

\* PinStrip's retry of a row that failed.
Retry(p, q) ==
    /\ Temp(p) \in DOMAIN rows
    /\ rows[Temp(p)].error
    /\ NextPost(q)
    /\ PostAs(q, Without(rows, Temp(p)),
              [about[p] EXCEPT !.draft = 0, !.before = {}])
    /\ UNCHANGED <<delivered, heard, steering, draft, drags, watch>>

\* Another tab posts; its side of the call is not modelled.
OtherTabPosts(p, s) ==
    /\ NextPost(p)
    /\ about' = [about EXCEPT ![p] = Note(p, s)]
    /\ handler' = [handler EXCEPT ![p] = "sent"]
    /\ UNCHANGED <<call, delivered, heard, steering, rows, draft, drags, watch>>

-----------------------------------------------------------------------------
(* The call ends in the tab.                                               *)

\* submitDraft after its await: every row of the span that was not there
\* before gets the range.
Stamped(rs, a) ==
    [i \in DOMAIN rs |->
       IF a.draft # 0 /\ i \notin a.before /\ about[i.post].span = a.span
         THEN [rs[i] EXCEPT !.at = a.draft, !.end = a.draft]
         ELSE rs[i]]

\* The finally of submitDraft closes whichever dialog is open.
DialogAfter(p) == draft' = IF about[p].draft # 0 THEN 0 ELSE draft

AnsweredKeepsTemp(p) ==  \* mutant: the temporary row goes with the delta only
    /\ call[p] = "waiting"
    /\ handler[p] = "done"
    /\ call' = [call EXCEPT ![p] = "answered"]
    /\ rows' = IF Stored(p) \in DOMAIN rows
                 THEN rows
                 ELSE Stamped(Upsert(Without(rows, Temp(p)), Stored(p),
                                     Converted(FALSE)), about[p])
    /\ DialogAfter(p)
    /\ UNCHANGED <<about, handler, delivered, heard, steering, drags, watch>>

\* The response was built before the delivery: its row is not delivered.
Answered(p) ==
    /\ call[p] = "waiting"
    /\ handler[p] = "done"
    /\ call' = [call EXCEPT ![p] = "answered"]
    /\ rows' = Stamped(Upsert(Without(rows, Temp(p)), Stored(p),
                              Converted(FALSE)), about[p])
    /\ DialogAfter(p)
    /\ UNCHANGED <<about, handler, delivered, heard, steering, drags, watch>>

\* The request or its response is lost; the server may not know it.
CallFails(p) ==
    /\ call[p] = "waiting"
    /\ call' = [call EXCEPT ![p] = "failed"]
    /\ rows' = MarkError(rows, Temp(p))
    /\ DialogAfter(p)
    /\ UNCHANGED <<about, handler, delivered, heard, steering, drags, watch>>

-----------------------------------------------------------------------------
(* The handler, from one await to the next.                                *)

\* put_annotation has written the row.
Store(p) ==
    /\ handler[p] = "sent"
    /\ handler' = [handler EXCEPT ![p] = "stored"]
    /\ UNCHANGED <<about, call, delivered, heard, steering, rows, draft, drags,
                   watch>>

\* publish_annotation, and the answer to a COMMENT.
Publish(p) ==
    /\ handler[p] = "stored"
    /\ handler' = [handler EXCEPT ![p] =
                     IF about[p].kind = "COMMENT" THEN "done" ELSE "published"]
    /\ watch' = IF watch.phase = "closed" THEN watch
                ELSE [watch EXCEPT !.queue = Append(@, p)]
    /\ UNCHANGED <<about, call, delivered, heard, steering, rows, draft, drags>>

\* The router delivers the STEER and the agent's ack is a success.
AgentAcks(p) ==
    /\ handler[p] = "published"
    /\ handler' = [handler EXCEPT ![p] = "acked"]
    /\ HeardIf(about[p].note, TRUE)
    /\ UNCHANGED <<about, call, delivered, steering, rows, draft, drags, watch>>

\* No agent, no stream, a failed ack, or none in time: the answer is an
\* annotation all the same.  The agent may have heard and answered too late.
DeliveryFails(p) ==
    /\ handler[p] = "published"
    /\ handler' = [handler EXCEPT ![p] = "done"]
    /\ \E h \in BOOLEAN : HeardIf(about[p].note, h)
    /\ UNCHANGED <<about, call, delivered, steering, rows, draft, drags, watch>>

\* put_annotation again, with delivered_at; nothing is published.
MarkDelivered(p) ==
    /\ handler[p] = "acked"
    /\ handler' = [handler EXCEPT ![p] = "done"]
    /\ delivered' = delivered \cup {p}
    /\ UNCHANGED <<about, call, heard, steering, rows, draft, drags, watch>>

\* The handler is cancelled at an await, its caller being gone.
HandlerCancelled(p) ==
    /\ call[p] # "waiting"
    /\ handler[p] \in {"sent", "stored", "published", "acked"}
    /\ handler' = [handler EXCEPT ![p] =
                     CASE @ = "sent" -> "lost"
                       [] @ = "stored" -> "silent"
                       [] OTHER -> "done"]
    /\ UNCHANGED <<about, call, delivered, heard, steering, rows, draft, drags,
                   watch>>

-----------------------------------------------------------------------------
(* The watch stream.                                                       *)

WatchOpens ==
    /\ watch.phase = "closed"
    /\ watch.opens < MaxOpens
    /\ watch' = [phase |-> "reading", burst |-> <<>>, queue |-> <<>>,
                 opens |-> watch.opens + 1]
    /\ UNCHANGED <<about, call, handler, delivered, heard, steering, rows,
                   draft, drags>>

ReadAndSkipQueue ==  \* mutant: drops what was queued while it read
    /\ watch.phase = "reading"
    /\ watch' = [watch EXCEPT !.phase = "open", !.queue = <<>>,
                              !.burst = [p \in {q \in Posts : OnServer(q)}
                                               \ Range(watch.queue) |->
                                           p \in delivered]]
    /\ UNCHANGED <<about, call, handler, delivered, heard, steering, rows,
                   draft, drags>>

\* list_annotations, between the subscription and the queue's first frame.
ReadAnnotations ==
    /\ watch.phase = "reading"
    /\ watch' = [watch EXCEPT !.phase = "open",
                              !.burst = [p \in {q \in Posts : OnServer(q)} |->
                                           p \in delivered]]
    /\ UNCHANGED <<about, call, handler, delivered, heard, steering, rows,
                   draft, drags>>

\* initialAnnotation, oldest first.
ReceiveInitial(p) ==
    /\ p \in DOMAIN watch.burst
    /\ \A q \in DOMAIN watch.burst : p <= q
    /\ watch' = [watch EXCEPT !.burst = Without(@, p)]
    /\ rows' = Upsert(rows, Stored(p), Converted(watch.burst[p]))
    /\ UNCHANGED <<about, call, handler, delivered, heard, steering, draft, drags>>

\* newAnnotation: published before the delivery, so never delivered.
ReceiveNew ==
    /\ watch.phase = "open"
    /\ watch.burst = <<>>
    /\ watch.queue # <<>>
    /\ watch' = [watch EXCEPT !.queue = Tail(@)]
    /\ rows' = Upsert(rows, Stored(Head(watch.queue)), Converted(FALSE))
    /\ UNCHANGED <<about, call, handler, delivered, heard, steering, draft, drags>>

WatchCloses ==
    /\ watch.phase # "closed"
    /\ watch' = [watch EXCEPT !.phase = "closed", !.burst = <<>>, !.queue = <<>>]
    /\ UNCHANGED <<about, call, handler, delivered, heard, steering, rows,
                   draft, drags>>

-----------------------------------------------------------------------------
Posting(p) == \E s \in Spans : \/ AddNote(p, s)
                               \/ SubmitDraft(p, s)
                               \/ OtherTabPosts(p, s)

Next ==
    \/ DragRange \/ CancelDraft \/ DraftNowhere
    \/ WatchOpens \/ ReadAnnotations \/ ReceiveNew \/ WatchCloses
    \/ \E p \in Posts :
         \/ Posting(p)
         \/ SteerFromMenu(p)
         \/ \E s \in Spans : ControlAnswered(p, s)
         \/ ControlFails(p)
         \/ \E q \in Posts : Retry(p, q)
         \/ Answered(p)
         \/ CallFails(p)
         \/ Store(p)
         \/ Publish(p)
         \/ AgentAcks(p)
         \/ DeliveryFails(p)
         \/ MarkDelivered(p)
         \/ HandlerCancelled(p)
         \/ ReceiveInitial(p)

Spec == Init /\ [][Next]_vars

-----------------------------------------------------------------------------
(* Every variable keeps the type the code gives it.                        *)
TypeOK ==
    /\ about \in [Posts -> About]
    /\ call \in [Posts -> {"none", "waiting", "answered", "failed"}]
    /\ handler \in [Posts -> HandlerStates]
    /\ delivered \subseteq Posts
    /\ heard \in [Posts -> Nat]
    /\ steering \subseteq Posts
    /\ DOMAIN rows \subseteq Ids
    /\ \A i \in DOMAIN rows : rows[i] \in Row
    /\ draft \in 0..MaxDrafts
    /\ drags \in 0..MaxDrafts
    /\ watch.phase \in {"closed", "reading", "open"}
    /\ watch.burst \in UNION {[ps -> BOOLEAN] : ps \in SUBSET Posts}
    /\ watch.queue \in Seq(Posts)
    /\ watch.opens \in 0..MaxOpens

\* A temporary row is there while its call is in flight, and stays only as
\* one that failed and can be retried: whichever of the answer and the
\* stream's frame comes first, no note is left shown twice or as pending.
TemporaryRowsSettle ==
    \A p \in Posts :
      Temp(p) \in DOMAIN rows =>
        /\ rows[Temp(p)].pending <=> call[p] = "waiting"
        /\ rows[Temp(p)].error <=> call[p] = "failed"

\* A note the user posted is stored, on its way, or shown as failed with a
\* retry: no failure of the call and no retry loses it.
NoNoteLost ==
    \A p \in Posts :
      call[p] # "none" =>
        \E q \in Posts :
          /\ about[q].note = about[p].note
          /\ call[q] # "none"
          /\ \/ OnServer(q)
             \/ call[q] = "waiting"
             \/ Temp(q) \in DOMAIN rows /\ rows[Temp(q)].error

\* When the tab has read its stream, it shows every annotation the server
\* announced, and at no time one that the server does not have.
NotesCaughtUp ==
    /\ \A i \in DOMAIN rows : ~i.temp => OnServer(i.post)
    /\ watch.phase = "open" /\ watch.burst = <<>> /\ watch.queue = <<>> =>
         \A p \in Posts : Announced(p) => Stored(p) \in DOMAIN rows

\* A row with a checkmark is of a note that the agent was given.
CheckmarkTrue ==
    \A i \in DOMAIN rows : rows[i].delivered => heard[about[i.post].note] > 0

(* The rows the browser draws are well formed, none stays temporary once   *)
(* its post is answered, and a checkmark means an agent has acknowledged.  *)
RowsTrue == TypeOK /\ TemporaryRowsSettle /\ CheckmarkTrue

\* A frame that comes after the answer, or again when the stream is opened
\* again, takes no stored row away and no range off a row.
RangesStay ==
    [][\A i \in DOMAIN rows :
         ~i.temp => /\ i \in DOMAIN rows'
                    /\ rows[i].end # 0 => rows'[i].end # 0]_rows
=============================================================================
