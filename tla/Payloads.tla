------------------------------ MODULE Payloads ------------------------------
(***************************************************************************)
(* The way of a payload: staged by the agent's thread, sent in chunks by   *)
(* the transport's send loop (client/harmonograf_client/client.py and      *)
(* transport.py), put together by the server's ingest pipeline, stored by  *)
(* its digest, referenced by spans, and collected when sessions are        *)
(* deleted (ingest.py, storage/sqlite.py, rpc/frontend.py, retention.py).  *)
(*                                                                         *)
(* One agent thread and one stream, which is not opened again once it is   *)
(* lost, and one deletion and one sweep at a time.  A span belongs to one  *)
(* session; it may carry a payload when it starts and another when it      *)
(* ends.  A chunk is its number.                                           *)
(***************************************************************************)
EXTENDS PayloadBuffer, TLC

CONSTANTS
    Spans,       \* span ids
    SessionOf,   \* the session of each span
    Carries,     \* the payloads a span may carry when it is new, or started
    Kept,        \* sessions the store has from earlier, which are over
    MaxEmits,    \* bound: envelopes the agent emits
    MaxWire,     \* bound: messages on the way to the server
    MaxCleanups  \* bound: deletions and sweeps

VARIABLES
    emitted,   \* how far the agent is with each span
    events,    \* the ring buffer of span envelopes
    chunks,    \* _chunk_queue
    peeked,    \* the chunk whose blob _peek_payload has taken out
    link,      \* the stream: "up", "stopped" by shutdown, or "down"
    wire,      \* messages sent and not handled
    parts,     \* ctx.payloads: the parts each assembler has
    handler,   \* the span start that is being handled
    seen,      \* ctx.seen_routes
    rows,      \* the session rows: "none", "live" or "over"
    refs,      \* the stored spans, and the digest each refers to
    stored,    \* the payloads table
    deletion,  \* the DeleteSession call that runs
    sweep,     \* the sessions the sweep that runs has still to delete
    cleanups,  \* deletions and sweeps begun
    gaps,      \* history: digests the server was told are evicted
    reborn     \* history: listed sessions that were created again

client == <<bufferVars, emitted, events, chunks, peeked>>
store == <<rows, refs, stored>>
cleaning == <<deletion, sweep, cleanups, reborn>>
vars == <<client, link, wire, parts, handler, seen, store, cleaning, gaps>>

Sessions == {SessionOf[x] : x \in Spans}
Idle == [at |-> "idle"]
None == [digest |-> Idle, part |-> 0, last |-> FALSE]

Init ==
    /\ BufferInit
    /\ emitted = [x \in Spans |-> "new"]
    /\ events = <<>> /\ chunks = <<>> /\ peeked = None
    /\ link = "up" /\ wire = <<>>
    /\ parts = [d \in Digests |-> <<>>]
    /\ handler = Idle
    /\ seen = {}
    /\ rows = [s \in Sessions |-> IF s \in Kept THEN "over" ELSE "none"]
    /\ refs = <<>>
    /\ stored = {}
    /\ deletion = Idle /\ sweep = {} /\ cleanups = 0
    /\ gaps = {} /\ reborn = {}

-----------------------------------------------------------------------------
(* The agent's thread: emit_span_start and emit_span_end with a payload.   *)

Envelope(x, starts, d) ==
    [span |-> x, starts |-> starts, digest |-> d, evicted |-> TooBig(d)]
ChunksWithoutLast(d) ==  \* mutant: last is off by one
    [i \in 1..Parts[d] |-> [digest |-> d, part |-> i, last |-> i = Parts[d] + 1]]
ChunksOf(d) ==
    [i \in 1..Parts[d] |-> [digest |-> d, part |-> i, last |-> i = Parts[d]]]
Emits == Cardinality({x \in Spans : emitted[x] # "new"})
           + Cardinality({x \in Spans : emitted[x] = "ended"})

\* enqueue_payload stages the bytes and queues their chunks, behind those
\* that are queued; then the envelope is pushed.  The send loop takes from
\* the other end of both queues, so the three are one step here.
EmitSpan(x, d) ==
    /\ link = "up"
    /\ emitted[x] # "ended" /\ Emits < MaxEmits
    /\ d \in Carries[x][emitted[x]]
    /\ PutBlob(d)
    /\ chunks' = IF TooBig(d) THEN chunks ELSE chunks \o ChunksOf(d)
    /\ events' = Append(events, Envelope(x, emitted[x] = "new", d))
    /\ emitted' = [emitted EXCEPT ![x] = IF @ = "new" THEN "started" ELSE "ended"]
    /\ UNCHANGED <<peeked, link, wire, parts, handler, seen, store, cleaning,
                   gaps>>

-----------------------------------------------------------------------------
(* The send loop.  It alternates between envelopes and chunks by counts    *)
(* that are left out here: either may be next.                             *)

Sending == link = "up" /\ Len(wire) < MaxWire

Send(m) == wire' = Append(wire, m)
SpanMessage(e) == [kind |-> "span", envelope |-> e]
ChunkMessage(c) == [kind |-> "chunk", chunk |-> c]
EvictedMessage(d) == [kind |-> "evicted", digest |-> d]

SendSpan ==
    /\ Sending
    /\ peeked = None
    /\ events # <<>>
    /\ Send(SpanMessage(Head(events)))
    /\ events' = Tail(events)
    /\ UNCHANGED <<bufferVars, emitted, chunks, peeked, link, parts, handler,
                   seen, store, cleaning, gaps>>

NewestChunk(c) ==  \* mutant: the newest chunk is sent first
    /\ Sending
    /\ peeked = None
    /\ chunks # <<>> /\ c = Last(chunks)
    /\ chunks' = Front(chunks)
    /\ UNCHANGED <<emitted, events, link, parts, handler, seen, store,
                   cleaning>>

NextChunk(c) ==
    /\ Sending
    /\ peeked = None
    /\ chunks # <<>> /\ c = Head(chunks)
    /\ chunks' = Tail(chunks)
    /\ UNCHANGED <<emitted, events, link, parts, handler, seen, store,
                   cleaning>>

\* The bytes are gone.
SendEvicted(c) ==
    /\ NextChunk(c)
    /\ c.digest \notin blobs
    /\ Send(EvictedMessage(c.digest))
    /\ gaps' = gaps \cup {c.digest}
    /\ UNCHANGED <<bufferVars, peeked>>

\* The last chunk takes them.
SendLast(c) ==
    /\ NextChunk(c)
    /\ c.digest \in blobs /\ c.last
    /\ TakeBlob(c.digest)
    /\ Send(ChunkMessage(c))
    /\ UNCHANGED <<peeked, gaps>>

\* Another chunk takes them, too ...
Peek(c) ==
    /\ NextChunk(c)
    /\ c.digest \in blobs /\ ~c.last
    /\ TakeBlob(c.digest)
    /\ peeked' = c
    /\ UNCHANGED <<wire, gaps>>

\* ... and puts them back, as the newest.
SendPeeked ==
    /\ link = "up"
    /\ peeked # None
    /\ PutBlob(peeked.digest)
    /\ Send(ChunkMessage(peeked))
    /\ peeked' = None
    /\ UNCHANGED <<emitted, events, chunks, link, parts, handler, seen, store,
                   cleaning, gaps>>

\* shutdown: the envelopes that are left are sent, the chunks are not.
Stop ==
    /\ link = "up"
    /\ peeked = None
    /\ link' = "stopped"
    /\ wire' = wire \o [i \in DOMAIN events |-> SpanMessage(events[i])]
    /\ events' = <<>>
    /\ UNCHANGED <<bufferVars, emitted, chunks, peeked, parts, handler, seen,
                   store, cleaning, gaps>>

\* The connection is lost, and with it the server's context of the stream.
StreamEnds ==
    /\ link' = "down"
    /\ wire' = <<>>
    /\ parts' = [d \in Digests |-> <<>>]
    /\ handler' = Idle
    /\ seen' = {}
    /\ UNCHANGED <<client, store, cleaning, gaps>>

Disconnect == link # "down" /\ StreamEnds

-----------------------------------------------------------------------------
(* The server's handlers of the stream, one message at a time.             *)

Receive(kind) ==
    /\ handler = Idle
    /\ wire # <<>> /\ Head(wire).kind = kind
    /\ wire' = Tail(wire)

\* A span starts: its session is registered once per stream ...
SpanStart ==
    /\ Receive("span")
    /\ LET e == Head(wire).envelope
           s == SessionOf[e.span]
           new == s \notin seen /\ rows[s] = "none"
       IN  /\ e.starts
           /\ rows' = IF new THEN [rows EXCEPT ![s] = "live"] ELSE rows
           /\ reborn' = IF new THEN reborn \cup ({s} \cap sweep) ELSE reborn
           /\ seen' = seen \cup {s}
           /\ handler' = [at |-> "append", envelope |-> e]
    /\ UNCHANGED <<client, link, parts, refs, stored, deletion, sweep,
                   cleanups, gaps>>

\* ... and it is stored, unless it is already.
AppendSpan ==
    /\ handler.at = "append"
    /\ refs' = [x \in DOMAIN refs \cup {handler.envelope.span} |->
                  IF x \in DOMAIN refs THEN refs[x] ELSE handler.envelope.digest]
    /\ handler' = Idle
    /\ UNCHANGED <<client, link, wire, parts, seen, rows, stored, cleaning,
                   gaps>>

\* A span ends: the payload of its end takes the place of its start's.
SpanEnd ==
    /\ Receive("span")
    /\ LET e == Head(wire).envelope
       IN  /\ ~e.starts
           /\ refs' = IF e.span \in DOMAIN refs
                        THEN [refs EXCEPT ![e.span] = e.digest] ELSE refs
    /\ UNCHANGED <<client, link, parts, handler, seen, rows, stored, cleaning,
                   gaps>>

\* _handle_payload: the notice of an eviction clears the assembler.
PayloadEvicted ==
    /\ Receive("evicted")
    /\ parts' = [parts EXCEPT ![Head(wire).digest] = <<>>]
    /\ UNCHANGED <<client, link, handler, seen, store, cleaning, gaps>>

\* A chunk is added; the last one completes the payload.
Whole(d) == [i \in 1..Parts[d] |-> i]

PayloadChunk ==
    /\ Receive("chunk")
    /\ ~Head(wire).chunk.last
    /\ LET c == Head(wire).chunk
       IN  parts' = [parts EXCEPT ![c.digest] = Append(@, c.part)]
    /\ UNCHANGED <<client, link, handler, seen, store, cleaning, gaps>>

PayloadLast ==
    /\ Receive("chunk")
    /\ LET c == Head(wire).chunk
       IN  /\ c.last
           /\ Append(parts[c.digest], c.part) = Whole(c.digest)
           /\ parts' = [parts EXCEPT ![c.digest] = <<>>]
           /\ stored' = stored \cup {c.digest}
    /\ UNCHANGED <<client, link, handler, seen, rows, refs, cleaning, gaps>>

\* The digest does not match: the handler raises, and the stream is aborted.
Mismatch(c) == c.last /\ Append(parts[c.digest], c.part) # Whole(c.digest)

PayloadMismatch ==
    /\ handler = Idle
    /\ wire # <<>> /\ Head(wire).kind = "chunk"
    /\ Mismatch(Head(wire).chunk)
    /\ StreamEnds

-----------------------------------------------------------------------------
(* Deletion.                                                               *)

\* A run ends: _finalize_session.
SessionOver(s) ==
    /\ rows[s] = "live"
    /\ rows' = [rows EXCEPT ![s] = "over"]
    /\ UNCHANGED <<client, link, wire, parts, handler, seen, refs, stored,
                   cleaning, gaps>>

Begin ==
    /\ cleanups < MaxCleanups
    /\ cleanups' = cleanups + 1
    /\ UNCHANGED <<client, link, wire, parts, handler, seen, store, gaps,
                   reborn>>

\* DeleteSession, which refuses a session that is LIVE unless it is forced.
DeleteRequested(s, force) ==
    /\ deletion = Idle
    /\ rows[s] # "none"
    /\ rows[s] = "live" => force
    /\ deletion' = [at |-> "delete", session |-> s]
    /\ UNCHANGED sweep
    /\ Begin

SweepListsAll(ss) ==  \* mutant: the sweep does not look at the status
    /\ sweep = {}
    /\ ss # {} /\ \A s \in ss : rows[s] # "none"
    /\ sweep' = ss
    /\ UNCHANGED deletion
    /\ Begin

\* sweep_once lists sessions that are over and old enough ...
SweepLists(ss) ==
    /\ sweep = {}
    /\ ss # {} /\ \A s \in ss : rows[s] = "over"
    /\ sweep' = ss
    /\ UNCHANGED deletion
    /\ Begin

\* delete_session, with the payloads that no other span refers to.
SpansOf(s) == {x \in DOMAIN refs : SessionOf[x] = s}
DigestsOf(xs) == {refs[x] : x \in xs}
OrphansShared(ds, s) == ds  \* mutant: whether another span refers to it
Orphans(ds, s) == ds \ DigestsOf(DOMAIN refs \ SpansOf(s))

DeleteSession(s) ==
    /\ IF rows[s] = "none" THEN UNCHANGED store
         ELSE /\ stored' = stored \ Orphans(DigestsOf(SpansOf(s)), s)
              /\ refs' = [x \in DOMAIN refs \ SpansOf(s) |-> refs[x]]
              /\ rows' = [rows EXCEPT ![s] = "none"]
    /\ UNCHANGED <<client, link, wire, parts, handler, seen, cleanups, gaps>>

\* The call collects what is left if there was something to delete ...
DeleteRuns ==
    /\ deletion.at = "delete"
    /\ DeleteSession(deletion.session)
    /\ deletion' = IF rows[deletion.session] = "none" THEN Idle ELSE [at |-> "gc"]
    /\ UNCHANGED <<sweep, reborn>>

\* ... with gc_payloads ...
GcPayloads ==
    /\ deletion.at = "gc"
    /\ stored' = stored \cap DigestsOf(DOMAIN refs)
    /\ deletion' = Idle
    /\ UNCHANGED <<client, link, wire, parts, handler, seen, rows, refs, sweep,
                   cleanups, gaps, reborn>>

\* ... and the sweep goes on to the next session.
SweepDeletes(s) ==
    /\ s \in sweep
    /\ DeleteSession(s)
    /\ sweep' = sweep \ {s}
    /\ reborn' = reborn \ {s}
    /\ UNCHANGED deletion

-----------------------------------------------------------------------------
SendChunk(c) == SendEvicted(c) \/ SendLast(c) \/ Peek(c)
Handle ==
    \/ SpanStart \/ AppendSpan \/ SpanEnd
    \/ PayloadEvicted \/ PayloadChunk \/ PayloadLast \/ PayloadMismatch

Next ==
    \/ \E x \in Spans : \E d \in Digests : EmitSpan(x, d)
    \/ SendSpan \/ SendPeeked \/ Stop \/ Disconnect
    \/ \E c \in Range(chunks) : SendChunk(c)
    \/ Handle
    \/ \E s \in Sessions :
         \/ SessionOver(s) \/ SweepDeletes(s)
         \/ \E force \in BOOLEAN : DeleteRequested(s, force)
    \/ \E ss \in SUBSET Sessions : SweepLists(ss)
    \/ DeleteRuns \/ GcPayloads

Spec == Init /\ [][Next]_vars

-----------------------------------------------------------------------------
(* Every variable keeps the type the code gives it.                        *)
TypeOK ==
    /\ blobs \subseteq Digests
    /\ bytes \in 0..Capacity
    /\ emitted \in [Spans -> {"new", "started", "ended"}]
    /\ \A i \in DOMAIN chunks : chunks[i].part \in 1..Parts[chunks[i].digest]
    /\ link \in {"up", "stopped", "down"}
    /\ handler.at \in {"idle", "append"}
    /\ seen \subseteq Sessions
    /\ rows \in [Sessions -> {"none", "live", "over"}]
    /\ DOMAIN refs \subseteq Spans /\ Range(refs) \subseteq Digests
    /\ stored \subseteq Digests
    /\ deletion.at \in {"idle", "delete", "gc"}
    /\ reborn \subseteq sweep /\ sweep \subseteq Sessions

\* The client's buffer is well formed and its byte count is what it holds,
\* after any stagings, evictions and takings (PayloadBuffer).
BufferConsistent == TypeOK /\ BufferAccounts

\* An assembler never holds more than the payload has, and starts at its
\* first chunk unless the client has told of an eviction.
AssemblersWhole ==
    \A d \in Digests :
      /\ Len(parts[d]) < Parts[d]
      /\ parts[d] = SubSeq(Whole(d), 1, Len(parts[d])) \/ d \in gaps

\* The server refuses a payload, and with it the stream, only if its bytes
\* were gone when a chunk was due and back when the last one was.
RefusedWasEvicted ==
    wire # <<>> /\ Head(wire).kind = "chunk" /\ Mismatch(Head(wire).chunk) =>
      Head(wire).chunk.digest \in gaps

\* The server assembles a payload from its first chunk on and refuses one
\* only when the client evicted it in between (_handle_payload).
PayloadsWhole == AssemblersWhole /\ RefusedWasEvicted

\* Once everything sent is handled, and nothing was deleted, the payload of a
\* stored span is there, unless it was too big to send or the server was
\* told that it is gone.
Quiet == /\ link = "up" /\ events = <<>> /\ chunks = <<>> /\ peeked = None
         /\ wire = <<>> /\ handler = Idle
ReferencedFound ==
    Quiet /\ cleanups = 0 =>
      \A x \in DOMAIN refs : refs[x] \in stored \cup gaps \/ TooBig(refs[x])

\* No collection takes a payload that a span refers to.
ReferencedKept ==
    [][\A x \in DOMAIN refs \cap DOMAIN refs' :
         refs'[x] = refs[x] /\ refs[x] \in stored => refs[x] \in stored']_vars

\* "Live sessions are never touched" by the sweep: but for one that was
\* deleted by another and created again since the sweep listed it.
SweepSparesLive ==
    [][\A s \in Sessions :
         rows[s] = "live" /\ rows'[s] = "none" /\ s \in sweep \ sweep' =>
           s \in reborn]_vars
=============================================================================
