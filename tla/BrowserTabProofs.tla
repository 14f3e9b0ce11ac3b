-------------------------- MODULE BrowserTabProofs ---------------------------
(***************************************************************************)
(* Proofs about what a tab of the browser keeps, its notes, its shared     *)
(* subscription and its store, for any posts, components, streams and      *)
(* frames.                                                                 *)
(*                                                                         *)
(* The notes.  Calls relates a post's call, its handler and its temporary  *)
(* row: a call in flight has its row, and a post nobody has seen is not    *)
(* one that is retried.  Marks follows a checkmark from the agent's ack    *)
(* through the stored row and the burst to the tab.  Reads says that what  *)
(* is announced is shown or still in the stream.                           *)
(*                                                                         *)
(* The store.  GoodStores is the set of stores that are well formed, and   *)
(* every frame leads from one to another.  A burst is a fold over frames,  *)
(* a merge of rows or a query one over spans: each is a run of single      *)
(* steps, which FoldFunctionExists and FoldRuns provide.  CatchInv adds    *)
(* what the store shows: what is said is shown, or waits in the queue, or  *)
(* among the rows the reader has still to read; and an end is never        *)
(* delivered before its start.                                             *)
(*                                                                         *)
(* The lanes.  Packing a row is a run over its spans in the order of their *)
(* starts: a span takes a lane only when those below are taken (Laid).     *)
(* What another frame does leaves a packed row packed, repacks it, or      *)
(* keeps a start of it in the queue (LaneInv).                             *)
(***************************************************************************)
EXTENDS Annotations, WatchHooks, BrowserStore, WellFoundedInduction, NaturalsInduction,
        SequenceTheorems, FiniteSetTheorems, TLAPS

(* A post that no handler has seen is nobody's call; one whose menu still  *)
(* waits for SendControl is not posted.  A call in flight has its row.     *)
Calls ==
  /\ \A p \in Posts : handler[p] = "none" \/ p \in steering => call[p] = "none"
  /\ \A p \in steering : handler[p] = "none"
  /\ \A p \in Posts : call[p] = "waiting" => Temp(p) \in DOMAIN rows
  /\ \A i \in DOMAIN rows : handler[i.post] # "none"
  /\ TemporaryRowsSettle /\ NoNoteLost

(* Whoever has or brings a checkmark: the agent has heard the note.        *)
Heard(p) == heard[about[p].note] > 0
Marks ==
  /\ CheckmarkTrue
  /\ \A p \in Posts : p \in delivered \/ handler[p] = "acked" => Heard(p)
  /\ \A p \in DOMAIN watch.burst : watch.burst[p] => Heard(p)

(* What the stream brings is on the server, and what the server has        *)
(* announced is shown or still to come.                                    *)
Coming(p) == Stored(p) \in DOMAIN rows \/ p \in DOMAIN watch.burst \/ p \in Range(watch.queue)
Reads ==
  /\ \A i \in DOMAIN rows : ~i.temp => OnServer(i.post)
  /\ \A p \in DOMAIN watch.burst : OnServer(p)
  /\ \A p \in Range(watch.queue) : OnServer(p)
  /\ \A p \in delivered : OnServer(p)
  /\ watch.phase # "open" => watch.burst = <<>>
  /\ watch.phase = "open" => \A p \in Posts : Announced(p) => Coming(p)

Bursts == UNION {[ps -> BOOLEAN] : ps \in SUBSET Posts}
WatchType ==
  watch \in [phase : {"closed", "reading", "open"}, burst : Bursts, queue : Seq(Posts), opens : 0 .. MaxOpens]

IInv == TypeOK /\ WatchType /\ Calls /\ Marks /\ Reads
-----------------------------------------------------------------------------
(* The rows a tab may have, and what the store's functions make of them.   *)
Rows(rs) == DOMAIN rs \subseteq Ids /\ \A i \in DOMAIN rs : rs[i] \in Row

LEMMA IdFacts ==
  /\ \A i \in Ids : i.post \in Posts /\ i.temp \in BOOLEAN /\ (i.temp => i = Temp(i.post))
                   /\ (~i.temp => i = Stored(i.post))
  /\ \A p \in Posts : /\ Temp(p) \in Ids /\ Temp(p).temp /\ Temp(p).post = p
                      /\ Stored(p) \in Ids /\ ~Stored(p).temp /\ Stored(p).post = p
  /\ \A p, q \in Posts : Temp(p) # Stored(q) /\ (Temp(p) = Temp(q) => p = q) /\ (Stored(p) = Stored(q) => p = q)
BY DEF Ids, Temp, Stored

LEMMA RowFacts ==
  \A r \in Row : /\ r.at \in 0 .. MaxDrafts /\ r.end \in 0 .. MaxDrafts
                 /\ r.delivered \in BOOLEAN /\ r.pending \in BOOLEAN /\ r.error \in BOOLEAN
BY DEF Row

LEMMA MadeRows ==
  /\ Optimistic \in Row /\ Optimistic.pending /\ ~Optimistic.error /\ ~Optimistic.delivered
  /\ \A b \in BOOLEAN : /\ Converted(b) \in Row /\ ~Converted(b).pending /\ ~Converted(b).error
                        /\ (Converted(b).delivered <=> b)
BY BoundsAssumption DEF Optimistic, Converted, Row

(* u is rs with one row put, which has the end that the row of its id had. *)
PutRow(u, rs, i, r) ==
  /\ Rows(u) /\ DOMAIN u = DOMAIN rs \cup {i}
  /\ \A j \in DOMAIN rs : j # i => u[j] = rs[j]
  /\ (u[i].delivered <=> r.delivered) /\ (u[i].pending <=> r.pending) /\ (u[i].error <=> r.error)
  /\ i \in DOMAIN rs => u[i].end = rs[i].end

LEMMA UpsertRows ==
  ASSUME NEW rs, Rows(rs), NEW i \in Ids, NEW r \in Row
  PROVE  PutRow(Upsert(rs, i, r), rs, i, r)
<1> DEFINE e == IF i \in DOMAIN rs THEN rs[i].end ELSE 0
           x == [r EXCEPT !.end = e]
           u == Upsert(rs, i, r)
<1>1. e \in 0 .. MaxDrafts
  BY RowFacts, BoundsAssumption DEF Rows
<1>2. x \in Row /\ x.end = e /\ x.delivered = r.delivered /\ x.pending = r.pending /\ x.error = r.error
  BY <1>1 DEF Row
<1>3. u = [j \in DOMAIN rs \cup {i} |-> IF j # i THEN rs[j] ELSE x]
  BY DEF Upsert
<1> HIDE DEF x, e, u
<1>4. DOMAIN u = DOMAIN rs \cup {i} /\ u[i] = x /\ \A j \in DOMAIN rs : j # i => u[j] = rs[j]
  BY <1>3
<1>5. Rows(u)
  BY <1>2, <1>4 DEF Rows
<1>6. i \in DOMAIN rs => e = rs[i].end
  BY DEF e
<1>7. PutRow(u, rs, i, r)
  BY <1>2, <1>4, <1>5, <1>6 DEF PutRow
<1> QED
  BY <1>7 DEF u

LEMMA WithoutRows ==
  ASSUME NEW rs, Rows(rs), NEW i
  PROVE  LET w == Without(rs, i) IN
         Rows(w) /\ DOMAIN w = DOMAIN rs \ {i} /\ \A j \in DOMAIN w : w[j] = rs[j]
BY DEF Rows, Without, Restrict

LEMMA MarkErrorRows ==
  ASSUME NEW rs, Rows(rs), NEW i \in DOMAIN rs
  PROVE  LET m == MarkError(rs, i) IN
         /\ Rows(m) /\ DOMAIN m = DOMAIN rs /\ \A j \in DOMAIN rs : j # i => m[j] = rs[j]
         /\ m[i].error /\ ~m[i].pending /\ (m[i].delivered <=> rs[i].delivered) /\ m[i].end = rs[i].end
<1> DEFINE x == [rs[i] EXCEPT !.error = TRUE, !.pending = FALSE]
<1>1. x \in Row /\ x.error /\ ~x.pending /\ x.delivered = rs[i].delivered /\ x.end = rs[i].end
  BY DEF Rows, Row
<1>2. MarkError(rs, i) = [rs EXCEPT ![i] = x]
  BY DEF MarkError
<1> HIDE DEF x
<1> QED
  BY <1>1, <1>2 DEF Rows

LEMMA StampedRows ==
  ASSUME NEW rs, Rows(rs), NEW a \in About
  PROVE  LET s == Stamped(rs, a) IN
         /\ Rows(s) /\ DOMAIN s = DOMAIN rs
         /\ \A j \in DOMAIN rs : /\ (s[j].delivered <=> rs[j].delivered)
                                 /\ (s[j].pending <=> rs[j].pending) /\ (s[j].error <=> rs[j].error)
                                 /\ rs[j].end # 0 => s[j].end # 0
<1> DEFINE s == Stamped(rs, a)
<1>1. a.draft \in 0 .. MaxDrafts
  BY DEF About
<1>2. DOMAIN s = DOMAIN rs
  BY DEF Stamped
<1>3. ASSUME NEW j \in DOMAIN rs
      PROVE  /\ s[j] \in Row
             /\ (s[j].delivered <=> rs[j].delivered)
             /\ (s[j].pending <=> rs[j].pending) /\ (s[j].error <=> rs[j].error)
             /\ rs[j].end # 0 => s[j].end # 0
  <2>1. rs[j] \in Row
    BY DEF Rows
  <2>2. s[j] = rs[j] \/ (a.draft # 0 /\ s[j] = [rs[j] EXCEPT !.at = a.draft, !.end = a.draft])
    BY DEF Stamped
  <2> HIDE DEF s
  <2> QED
    BY <1>1, <2>1, <2>2 DEF Row
<1> HIDE DEF s
<1>4. Rows(s)
  BY <1>2, <1>3 DEF Rows
<1> QED
  BY <1>2, <1>3, <1>4 DEF s
-----------------------------------------------------------------------------
LEMMA EmptyFunction ==
  ASSUME NEW f \in [{} -> BOOLEAN]
  PROVE  f = <<>>
<1>1. <<>> \in Seq(BOOLEAN) /\ Len(<<>>) = 0
  BY EmptySeq
<1>2. <<>> \in [1 .. 0 -> BOOLEAN]
  BY <1>1, LenProperties
<1>3. 1 .. 0 = {}
  OBVIOUS
<1> QED
  BY <1>2, <1>3

LEMMA BurstFacts ==
  /\ <<>> \in Bursts
  /\ \A b \in Bursts : /\ DOMAIN b \subseteq Posts /\ \A p \in DOMAIN b : b[p] \in BOOLEAN
                       /\ b = <<>> <=> DOMAIN b = {}
                       /\ \A p : Without(b, p) \in Bursts /\ DOMAIN Without(b, p) = DOMAIN b \ {p}
                                /\ \A q \in DOMAIN b \ {p} : Without(b, p)[q] = b[q]
<1>1. [p \in {} |-> TRUE] \in [{} -> BOOLEAN]
  OBVIOUS
<1>2. <<>> \in [{} -> BOOLEAN]
  BY <1>1, EmptyFunction
<1>3. <<>> \in Bursts
  BY <1>2 DEF Bursts
<1>4. ASSUME NEW b \in Bursts
      PROVE  /\ DOMAIN b \subseteq Posts /\ \A p \in DOMAIN b : b[p] \in BOOLEAN
             /\ b = <<>> <=> DOMAIN b = {}
             /\ \A p : Without(b, p) \in Bursts /\ DOMAIN Without(b, p) = DOMAIN b \ {p}
                      /\ \A q \in DOMAIN b \ {p} : Without(b, p)[q] = b[q]
  <2>1. PICK ps \in SUBSET Posts : b \in [ps -> BOOLEAN]
    BY DEF Bursts
  <2>2. b = <<>> <=> DOMAIN b = {}
    BY <1>2, <2>1, EmptyFunction
  <2>3. ASSUME NEW p
        PROVE  /\ Without(b, p) \in Bursts /\ DOMAIN Without(b, p) = DOMAIN b \ {p}
               /\ \A q \in DOMAIN b \ {p} : Without(b, p)[q] = b[q]
    <3>1. Without(b, p) = [q \in ps \ {p} |-> b[q]]
      BY <2>1 DEF Without, Restrict
    <3>2. Without(b, p) \in [ps \ {p} -> BOOLEAN] /\ ps \ {p} \in SUBSET Posts
      BY <2>1, <3>1
    <3> QED
      BY <2>1, <3>1, <3>2 DEF Bursts
  <2> QED
    BY <2>1, <2>2, <2>3
<1> QED
  BY <1>3, <1>4

LEMMA InitIInv == Init => IInv
<1> SUFFICES ASSUME Init PROVE IInv
  OBVIOUS
<1>1. DOMAIN rows = {} /\ DOMAIN watch.burst = {} /\ Range(watch.queue) = {}
  BY DEF Init, Range
<1>2. (CHOOSE s \in Spans : TRUE) \in Spans
  BY SpansAssumption
<1>3. about \in [Posts -> About]
  BY <1>2, BoundsAssumption DEF Init, About
<1>4. watch.burst \in Bursts /\ watch.queue \in Seq(Posts)
  BY BurstFacts, EmptySeq DEF Init
<1>5. WatchType
  BY <1>4, BoundsAssumption DEF Init, WatchType
<1>6. TypeOK
  BY <1>1, <1>3, <1>4, BoundsAssumption DEF Init, TypeOK, HandlerStates, Bursts
<1>7. Calls
  BY <1>1, IdFacts DEF Init, Calls, TemporaryRowsSettle, NoNoteLost
<1>8. Marks /\ Reads
  BY <1>1 DEF Init, Marks, Reads, CheckmarkTrue
<1> QED
  BY <1>5, <1>6, <1>7, <1>8 DEF IInv
-----------------------------------------------------------------------------
(* A step that posts p: a tab's row and the server's call of it.           *)
Louder == /\ heard' \in [Posts -> Nat] /\ \A n \in Posts : heard'[n] >= heard[n]

(* rs is what the tab has, but for a failed row that p is the retry of.    *)
Reposts(rs, a) ==
  \/ rs = rows
  \/ \E q \in Posts : /\ Temp(q) \in DOMAIN rows /\ rows[Temp(q)].error
                      /\ rs = Without(rows, Temp(q)) /\ a.note = about[q].note

LEMMA PostStep ==
  ASSUME IInv, NEW p \in Posts, handler[p] = "none", NEW rs, NEW a \in About,
         Reposts(rs, a), PostAs(p, rs, a), Louder,
         steering' = steering \ {p}, UNCHANGED <<delivered, watch>>,
         draft' \in 0 .. MaxDrafts, drags' \in 0 .. MaxDrafts
  PROVE  IInv'
<1>1. call[p] = "none" /\ Rows(rows)
  BY DEF IInv, Calls, TypeOK, Rows
<1>2. /\ Rows(rs) /\ DOMAIN rs \subseteq DOMAIN rows /\ \A j \in DOMAIN rs : rs[j] = rows[j]
      /\ \A j \in DOMAIN rows \ DOMAIN rs : \E q \in Posts :
           j = Temp(q) /\ rows[j].error /\ a.note = about[q].note
  <2>1. CASE rs = rows
    BY <1>1, <2>1
  <2>2. ASSUME NEW q \in Posts, Temp(q) \in DOMAIN rows, rows[Temp(q)].error, rs = Without(rows, Temp(q)),
               a.note = about[q].note
        PROVE  /\ Rows(rs) /\ DOMAIN rs \subseteq DOMAIN rows /\ \A j \in DOMAIN rs : rs[j] = rows[j]
               /\ \A j \in DOMAIN rows \ DOMAIN rs : \E y \in Posts :
                    j = Temp(y) /\ rows[j].error /\ a.note = about[y].note
    <3>1. /\ Rows(rs) /\ DOMAIN rs = DOMAIN rows \ {Temp(q)} /\ \A j \in DOMAIN rs : rs[j] = rows[j]
      BY <1>1, <2>2 DEF Rows, Without, Restrict
    <3> QED
      BY <2>2, <3>1
  <2> QED
    BY <2>1, <2>2 DEF Reposts
<1>3. /\ Rows(rows') /\ DOMAIN rows' = DOMAIN rs \cup {Temp(p)}
      /\ \A j \in DOMAIN rs : j # Temp(p) => rows'[j] = rows[j]
      /\ ~rows'[Temp(p)].delivered /\ rows'[Temp(p)].pending /\ ~rows'[Temp(p)].error
  <2> DEFINE u == Upsert(rs, Temp(p), Optimistic)
  <2>1. /\ Rows(u) /\ DOMAIN u = DOMAIN rs \cup {Temp(p)}
        /\ \A j \in DOMAIN rs : j # Temp(p) => u[j] = rs[j]
        /\ ~u[Temp(p)].delivered /\ u[Temp(p)].pending /\ ~u[Temp(p)].error
    <3>1. Temp(p) \in Ids /\ Optimistic \in Row /\ Rows(rs)
      BY <1>2, IdFacts, MadeRows
    <3>2. PutRow(u, rs, Temp(p), Optimistic)
      BY <3>1, UpsertRows
    <3> HIDE DEF u
    <3> QED
      BY <3>2, MadeRows DEF PutRow
  <2>2. rows' = u
    BY DEF PostAs
  <2> HIDE DEF u
  <2> QED
    BY <1>2, <2>1, <2>2
<1>4. /\ about' = [about EXCEPT ![p] = a] /\ call' = [call EXCEPT ![p] = "waiting"]
      /\ handler' = [handler EXCEPT ![p] = "sent"]
  BY DEF PostAs
<1>5. /\ about' \in [Posts -> About] /\ \A x \in Posts \ {p} : about'[x] = about[x] /\ about'[p] = a
      /\ call' \in [Posts -> {"none", "waiting", "answered", "failed"}]
      /\ call'[p] = "waiting" /\ \A x \in Posts \ {p} : call'[x] = call[x]
      /\ handler' \in [Posts -> HandlerStates]
      /\ handler'[p] = "sent" /\ \A x \in Posts \ {p} : handler'[x] = handler[x]
  BY <1>4 DEF IInv, TypeOK, HandlerStates
<1>6. TypeOK' /\ WatchType'
  BY <1>3, <1>5 DEF IInv, TypeOK, WatchType, Louder, Rows
<1>7. \A x \in Posts : OnServer(x) => x # p /\ OnServer(x)'
  BY <1>5 DEF OnServer
<1>8. TemporaryRowsSettle'
  BY <1>2, <1>3, <1>5, IdFacts DEF TemporaryRowsSettle, IInv, Calls
<1>9. NoNoteLost'
  <2> SUFFICES ASSUME NEW x \in Posts, call'[x] # "none"
               PROVE  \E y \in Posts :
                        /\ about'[y].note = about'[x].note /\ call'[y] # "none"
                        /\ \/ OnServer(y)' \/ call'[y] = "waiting"
                           \/ Temp(y) \in DOMAIN rows' /\ rows'[Temp(y)].error
    BY DEF NoNoteLost
  <2>1. CASE x = p
    BY <1>5, <2>1
  <2>2. CASE x # p
    <3>1. PICK y \in Posts : /\ about[y].note = about[x].note /\ call[y] # "none"
                             /\ \/ OnServer(y) \/ call[y] = "waiting"
                                \/ Temp(y) \in DOMAIN rows /\ rows[Temp(y)].error
      BY <1>5, <2>2 DEF NoNoteLost, IInv, Calls
    <3>2. y # p
      BY <1>1, <3>1
    <3>3. CASE OnServer(y) \/ call[y] = "waiting"
      BY <1>5, <1>7, <2>2, <3>1, <3>2, <3>3
    <3>4. CASE Temp(y) \in DOMAIN rs /\ rows[Temp(y)].error
      BY <1>3, <1>5, <2>2, <3>1, <3>2, <3>4, IdFacts
    <3>5. CASE Temp(y) \in DOMAIN rows \ DOMAIN rs
      <4>1. a.note = about[y].note
        BY <1>2, <3>5, IdFacts
      <4> QED
        BY <1>5, <2>2, <3>1, <4>1
    <3> QED
      BY <3>1, <3>3, <3>4, <3>5
  <2> QED
    BY <2>1, <2>2
<1>10. Calls'
  <2>1. ASSUME NEW x \in Posts, call'[x] = "waiting" PROVE Temp(x) \in DOMAIN rows'
    <3>1. CASE x # p
      <4>1. call[x] = "waiting" /\ Temp(x) \in DOMAIN rows
        BY <1>5, <2>1, <3>1 DEF IInv, Calls
      <4>2. ~rows[Temp(x)].error
        BY <4>1 DEF IInv, Calls, TemporaryRowsSettle
      <4> QED
        BY <1>2, <1>3, <4>1, <4>2
    <3> QED
      BY <1>3, <3>1
  <2>2. \A x \in Posts : handler'[x] = "none" \/ x \in steering' => call'[x] = "none"
    BY <1>5 DEF IInv, Calls
  <2>3. \A x \in steering' : handler'[x] = "none"
    BY <1>5 DEF IInv, Calls, TypeOK
  <2>4. \A i \in DOMAIN rows' : handler'[i.post] # "none"
    BY <1>1, <1>2, <1>3, <1>5, IdFacts DEF IInv, Calls, Rows
  <2> QED
    BY <1>8, <1>9, <2>1, <2>2, <2>3, <2>4 DEF Calls
<1>11. Marks'
  <2>1. \A x \in Posts : Heard(x) /\ x # p => Heard(x)'
    BY <1>5 DEF Heard, Louder, IInv, TypeOK, About
  <2>2. \A x \in Posts : x \in delivered \/ handler[x] = "acked" \/ x \in DOMAIN watch.burst => x # p
    BY DEF IInv, Reads, OnServer
  <2>3. DOMAIN watch.burst \subseteq Posts /\ delivered \subseteq Posts
    BY BurstFacts DEF IInv, WatchType, TypeOK
  <2>4. \A i \in DOMAIN rows : i.post \in Posts /\ i.post # p
    BY <1>1, IdFacts DEF IInv, Calls, Rows
  <2>5. CheckmarkTrue'
    <3> SUFFICES ASSUME NEW i \in DOMAIN rows', rows'[i].delivered PROVE Heard(i.post)'
      BY DEF CheckmarkTrue, Heard
    <3>1. i # Temp(p) /\ i \in DOMAIN rows /\ rows[i].delivered
      BY <1>2, <1>3
    <3>2. Heard(i.post)
      BY <3>1 DEF IInv, Marks, CheckmarkTrue, Heard
    <3> QED
      BY <2>1, <2>4, <3>1, <3>2
  <2>6. \A x \in Posts : x \in delivered' \/ handler'[x] = "acked" => Heard(x)'
    BY <1>5, <2>1, <2>2 DEF IInv, Marks
  <2>7. \A x \in DOMAIN watch'.burst : watch'.burst[x] => Heard(x)'
    BY <2>1, <2>2, <2>3 DEF IInv, Marks
  <2> QED
    BY <2>5, <2>6, <2>7 DEF Marks
<1>12. Reads'
  <2>1. \A x \in Posts : Announced(x)' => Announced(x)
    BY <1>5 DEF Announced
  <2>2. \A x \in Posts : Stored(x) \in DOMAIN rows <=> Stored(x) \in DOMAIN rows'
    BY <1>2, <1>3, IdFacts
  <2>3. DOMAIN watch.burst \subseteq Posts /\ Range(watch.queue) \subseteq Posts /\ delivered \subseteq Posts
    BY BurstFacts DEF IInv, WatchType, TypeOK, Range
  <2>4. \A i \in DOMAIN rows' : ~i.temp => OnServer(i.post)'
    BY <1>1, <1>2, <1>3, <1>7, IdFacts DEF IInv, Reads, Rows
  <2> QED
    BY <1>7, <2>1, <2>2, <2>3, <2>4 DEF IInv, Reads, Coming
<1> QED
  BY <1>6, <1>10, <1>11, <1>12 DEF IInv

LEMMA NoteTyped == \A p \in Posts, x \in Spans : Note(p, x) \in About /\ Note(p, x).note = p
  BY BoundsAssumption DEF Note, About

LEMMA AboutChanged ==
  ASSUME NEW n \in About
  PROVE  /\ [n EXCEPT !.kind = "STEERING"] \in About
         /\ [n EXCEPT !.draft = 0, !.before = {}] \in About
         /\ [n EXCEPT !.draft = 0, !.before = {}].note = n.note
<1>1. {} \in SUBSET Ids /\ 0 \in 0 .. MaxDrafts
  BY BoundsAssumption
<1>2. [n EXCEPT !.kind = "STEERING"] \in About
  BY DEF About
<1>3. [n EXCEPT !.draft = 0, !.before = {}] \in About /\ [n EXCEPT !.draft = 0, !.before = {}].note = n.note
  BY <1>1 DEF About
<1> QED
  BY <1>2, <1>3

LEMMA LouderIf ==
  ASSUME IInv, NEW n \in Posts, NEW h \in BOOLEAN, HeardIf(n, h)
  PROVE  Louder /\ (h => heard'[n] > 0)
  BY DEF HeardIf, Louder, IInv, TypeOK

LEMMA PostingStep ==
  ASSUME IInv, NEW p \in Posts,
         \/ \E x \in Spans : AddNote(p, x) \/ SubmitDraft(p, x) \/ ControlAnswered(p, x)
         \/ \E q \in Posts : Retry(q, p)
  PROVE  IInv'
<1>1. draft \in 0 .. MaxDrafts /\ drags \in 0 .. MaxDrafts /\ heard \in [Posts -> Nat]
      /\ \A q \in Posts : heard[q] \in Nat
  BY DEF IInv, TypeOK
<1>2. heard' = heard => Louder
  BY <1>1 DEF Louder
<1>3. Reposts(rows, about[p])
  BY DEF Reposts
<1>4. ASSUME NEW x \in Spans, AddNote(p, x) PROVE IInv'
  <2>1. handler[p] = "none" /\ steering' = steering \ {p} /\ Note(p, x) \in About /\ Reposts(rows, Note(p, x))
    BY <1>4, NoteTyped DEF AddNote, NextPost, Unused, Reposts
  <2> QED
    BY <1>1, <1>2, <1>4, <2>1, PostStep DEF AddNote
<1>5. ASSUME NEW x \in Spans, SubmitDraft(p, x) PROVE IInv'
  <2> DEFINE a == [Note(p, x) EXCEPT !.draft = draft, !.before = DOMAIN rows]
  <2>1. a \in About
    <3>1. DOMAIN rows \in SUBSET Ids
      BY DEF IInv, TypeOK
    <3>2. \A n \in About : [n EXCEPT !.draft = draft, !.before = DOMAIN rows] \in About
      BY <1>1, <3>1 DEF About
    <3>3. Note(p, x) \in About
      BY NoteTyped
    <3> QED
      BY <3>2, <3>3, Zenon
  <2>2. handler[p] = "none" /\ steering' = steering \ {p} /\ Reposts(rows, a)
    BY <1>5 DEF SubmitDraft, NextPost, Unused, Reposts
  <2>3. PostAs(p, rows, a) /\ UNCHANGED <<delivered, heard, steering, draft, drags, watch>>
    BY <1>5 DEF SubmitDraft
  <2> HIDE DEF a
  <2> QED
    BY <1>1, <1>2, <2>1, <2>2, <2>3, PostStep
<1>6. ASSUME NEW x \in Spans, ControlAnswered(p, x) PROVE IInv'
  <2> DEFINE a == [Note(p, x) EXCEPT !.kind = "STEERING"]
  <2>1. a \in About
    <3>1. \A n \in About : [n EXCEPT !.kind = "STEERING"] \in About
      BY AboutChanged
    <3>2. Note(p, x) \in About
      BY NoteTyped
    <3> QED
      BY <3>1, <3>2, Zenon
  <2>2. handler[p] = "none" /\ steering' = steering \ {p} /\ Reposts(rows, a)
    BY <1>6 DEF ControlAnswered, Reposts, IInv, Calls
  <2>3. Louder
    BY <1>6, LouderIf DEF ControlAnswered
  <2>4. PostAs(p, rows, a) /\ UNCHANGED <<delivered, draft, drags, watch>>
    BY <1>6 DEF ControlAnswered
  <2> HIDE DEF a
  <2> QED
    BY <1>1, <2>1, <2>2, <2>3, <2>4, PostStep
<1>7. ASSUME NEW q \in Posts, Retry(q, p) PROVE IInv'
  <2> DEFINE a == [about[q] EXCEPT !.draft = 0, !.before = {}]
             rs == Without(rows, Temp(q))
  <2>1. about[q] \in About
    BY DEF IInv, TypeOK
  <2>2. a \in About /\ a.note = about[q].note
    BY <2>1, AboutChanged
  <2>3. PostAs(p, rs, a) /\ Temp(q) \in DOMAIN rows /\ rows[Temp(q)].error
        /\ UNCHANGED <<delivered, heard, steering, draft, drags, watch>>
    BY <1>7 DEF Retry
  <2>4. handler[p] = "none" /\ steering' = steering \ {p}
    BY <1>7 DEF Retry, NextPost, Unused
  <2>5. Reposts(rs, a)
    BY <2>2, <2>3 DEF Reposts
  <2> HIDE DEF a, rs
  <2> QED
    BY <1>1, <1>2, <2>2, <2>3, <2>4, <2>5, PostStep
<1> QED
  BY <1>4, <1>5, <1>6, <1>7
-----------------------------------------------------------------------------
(* A step of the server's side of p, which may publish it.                 *)
Publishes(p) == watch.phase # "closed" /\ watch' = [watch EXCEPT !.queue = Append(@, p)]

LEMMA HandlerStep ==
  ASSUME IInv, NEW p \in Posts, NEW h \in HandlerStates \ {"none"}, NEW a \in About,
         about' = about \/ (handler[p] = "none" /\ call[p] = "none" /\ about' = [about EXCEPT ![p] = a]),
         handler' = [handler EXCEPT ![p] = h], OnServer(p) => OnServer(p)',
         Louder, h = "acked" => Heard(p)',
         delivered' = delivered \/ (delivered' = delivered \cup {p} /\ Heard(p)' /\ OnServer(p)'),
         watch' = watch \/ (Publishes(p) /\ OnServer(p)'),
         Announced(p)' => Announced(p) \/ watch.phase = "closed" \/ Publishes(p),
         steering' = steering \ {p}, UNCHANGED <<call, rows, draft, drags>>
  PROVE  IInv'
<1>1. /\ handler' \in [Posts -> HandlerStates]
      /\ handler'[p] = h /\ h # "none" /\ \A x \in Posts \ {p} : handler'[x] = handler[x]
  BY DEF IInv, TypeOK
<1>2. /\ about' \in [Posts -> About] /\ \A x \in Posts : handler[x] # "none" \/ x # p => about'[x] = about[x]
      /\ \A x \in Posts : call[x] # "none" => about'[x] = about[x]
  BY DEF IInv, TypeOK
<1>3. \A x \in Posts : OnServer(x) => OnServer(x)'
  BY <1>1 DEF OnServer
<1>4. /\ WatchType' /\ watch'.phase = watch.phase /\ watch'.burst = watch.burst
      /\ Range(watch.queue) \subseteq Range(watch'.queue)
      /\ \A x \in Range(watch'.queue) : x \in Range(watch.queue) \/ (x = p /\ OnServer(p)')
      /\ Publishes(p) => p \in Range(watch'.queue)
  <2> DEFINE q == watch.queue
             r == Append(q, p)
  <2>1. q \in Seq(Posts) /\ watch.phase \in {"closed", "reading", "open"}
    BY DEF IInv, WatchType
  <2>2. r \in Seq(Posts) /\ Range(r) = Range(q) \cup {p}
    BY <2>1, AppendProperties DEF Range
  <2>3. Publishes(p) => /\ watch' \in [phase : {"closed", "reading", "open"}, burst : Bursts, queue : Seq(Posts),
                                        opens : 0 .. MaxOpens]
                        /\ watch'.phase = watch.phase /\ watch'.burst = watch.burst /\ watch'.queue = r
    BY <2>2 DEF Publishes, IInv, WatchType
  <2> HIDE DEF r
  <2>4. CASE Publishes(p)
    BY <2>2, <2>3, <2>4 DEF WatchType
  <2>5. CASE ~Publishes(p)
    BY <2>5 DEF IInv, WatchType
  <2> QED
    BY <2>4, <2>5
<1>5. TypeOK'
  BY <1>1, <1>2, <1>4 DEF IInv, TypeOK, WatchType, Louder, Bursts
<1>6. NoNoteLost'
  BY <1>2, <1>3 DEF NoNoteLost, IInv, Calls
<1>7. Rows(rows)
  BY DEF IInv, TypeOK, Rows
<1>8. Calls'
  <2>1. TemporaryRowsSettle'
    BY DEF TemporaryRowsSettle, IInv, Calls
  <2>2. \A i \in DOMAIN rows' : handler'[i.post] # "none"
    BY <1>1, <1>7, IdFacts DEF IInv, Calls, Rows
  <2>3. \A x \in Posts : handler'[x] = "none" \/ x \in steering' => call'[x] = "none"
    BY <1>1 DEF IInv, Calls
  <2>4. \A x \in steering' : handler'[x] = "none"
    BY <1>1 DEF IInv, Calls, TypeOK
  <2>5. \A x \in Posts : call'[x] = "waiting" => Temp(x) \in DOMAIN rows'
    BY DEF IInv, Calls
  <2> QED
    BY <1>6, <2>1, <2>2, <2>3, <2>4, <2>5 DEF Calls
<1>9. \A x \in Posts : Heard(x) /\ handler[x] # "none" => Heard(x)'
  <2>1. \A x \in Posts : about[x].note \in Posts
    BY DEF IInv, TypeOK, About
  <2>2. \A n \in Posts : heard[n] \in Nat /\ heard'[n] \in Nat /\ heard'[n] >= heard[n]
    BY DEF Louder, IInv, TypeOK
  <2> QED
    BY <1>2, <2>1, <2>2 DEF Heard
<1>10. DOMAIN watch.burst \subseteq Posts /\ delivered \subseteq Posts /\ \A i \in DOMAIN rows : i.post \in Posts
  BY <1>7, BurstFacts, IdFacts DEF IInv, WatchType, TypeOK, Rows
<1>11. Marks'
  <2>1. CheckmarkTrue'
    BY <1>9, <1>10 DEF CheckmarkTrue, IInv, Marks, Calls, Heard
  <2>2. \A x \in Posts : x \in delivered' \/ handler'[x] = "acked" => Heard(x)'
    <3> SUFFICES ASSUME NEW x \in Posts, x \in delivered' \/ handler'[x] = "acked" PROVE Heard(x)'
      OBVIOUS
    <3>1. CASE x = p /\ (h = "acked" \/ delivered' # delivered)
      BY <3>1
    <3>2. CASE ~(x = p /\ (h = "acked" \/ delivered' # delivered))
      <4>1. x \in delivered \/ handler[x] = "acked"
        BY <1>1, <3>2
      <4>2. handler[x] # "none"
        BY <4>1 DEF IInv, Reads, OnServer
      <4> QED
        BY <1>9, <4>1, <4>2 DEF IInv, Marks
    <3> QED
      BY <3>1, <3>2
  <2>3. \A x \in DOMAIN watch'.burst : watch'.burst[x] => Heard(x)'
    BY <1>4, <1>9, <1>10 DEF IInv, Marks, Reads, OnServer
  <2> QED
    BY <2>1, <2>2, <2>3 DEF Marks
<1>12. Reads'
  <2>1. Range(watch.queue) \subseteq Posts
    BY DEF IInv, WatchType, Range
  <2>2. \A i \in DOMAIN rows' : ~i.temp => OnServer(i.post)'
    BY <1>3, <1>10 DEF IInv, Reads
  <2>3. /\ \A x \in DOMAIN watch'.burst : OnServer(x)'
        /\ \A x \in Range(watch'.queue) : OnServer(x)'
        /\ \A x \in delivered' : OnServer(x)'
    BY <1>3, <1>4, <1>10, <2>1 DEF IInv, Reads
  <2>4. watch'.phase # "open" => watch'.burst = <<>>
    BY <1>4 DEF IInv, Reads
  <2>5. ASSUME watch'.phase = "open", NEW x \in Posts, Announced(x)' PROVE Coming(x)'
    <3>1. CASE Announced(x)
      BY <1>4, <2>5, <3>1 DEF IInv, Reads, Coming
    <3>2. CASE ~Announced(x)
      <4>1. x = p
        BY <1>1, <2>5, <3>2 DEF Announced
      <4> QED
        BY <1>4, <2>5, <3>2, <4>1 DEF Coming
    <3> QED
      BY <3>1, <3>2
  <2> QED
    BY <2>2, <2>3, <2>4, <2>5 DEF Reads
<1> QED
  BY <1>4, <1>5, <1>8, <1>11, <1>12 DEF IInv

LEMMA ServerStep ==
  ASSUME IInv, NEW p \in Posts,
         \/ ControlFails(p) \/ \E x \in Spans : OtherTabPosts(p, x)
         \/ Store(p) \/ Publish(p) \/ AgentAcks(p) \/ DeliveryFails(p) \/ MarkDelivered(p) \/ HandlerCancelled(p)
  PROVE  IInv'
<1>1. about[p] \in About /\ about[p].note \in Posts /\ handler \in [Posts -> HandlerStates]
  BY DEF IInv, TypeOK, About
<1>2. /\ p \in steering => handler[p] = "none"
      /\ p \notin steering => steering = steering \ {p}
  BY DEF IInv, Calls
<1>3. heard' = heard => Louder
  BY DEF Louder, IInv, TypeOK
<1>4. CASE ControlFails(p)
  <2>1. Louder
    BY <1>4, LouderIf DEF ControlFails
  <2>2. handler[p] = "none" /\ handler'[p] = "lost" /\ "lost" \in HandlerStates
    BY <1>1, <1>2, <1>4 DEF ControlFails, HandlerStates
  <2> QED
    BY <1>1, <1>4, <2>1, <2>2, HandlerStep DEF ControlFails, OnServer, Announced
<1>5. ASSUME NEW x \in Spans, OtherTabPosts(p, x) PROVE IInv'
  <2>1. handler[p] = "none" /\ p \notin steering /\ call[p] = "none"
    BY <1>5 DEF OtherTabPosts, NextPost, Unused, IInv, Calls
  <2>2. handler'[p] = "sent" /\ "sent" \in HandlerStates /\ Note(p, x) \in About
    BY <1>1, <1>5, NoteTyped DEF OtherTabPosts, HandlerStates
  <2> QED
    BY <1>2, <1>3, <1>5, <2>1, <2>2, HandlerStep DEF OtherTabPosts, OnServer, Announced
<1>6. CASE Store(p)
  <2>1. handler[p] = "sent" /\ handler'[p] = "stored" /\ "stored" \in HandlerStates
    BY <1>1, <1>6 DEF Store, HandlerStates
  <2> QED
    BY <1>1, <1>2, <1>3, <1>6, <2>1, HandlerStep DEF Store, OnServer, Announced
<1>7. CASE Publish(p)
  <2> DEFINE h == IF about[p].kind = "COMMENT" THEN "done" ELSE "published"
  <2>1. handler[p] = "stored" /\ handler'[p] = h /\ h \in HandlerStates /\ h \in {"done", "published"}
    BY <1>1, <1>7 DEF Publish, HandlerStates
  <2>2. handler' = [handler EXCEPT ![p] = h]
    BY <1>7 DEF Publish
  <2> HIDE DEF h
  <2>3. OnServer(p)'
    BY <2>1 DEF OnServer
  <2>4. (watch.phase = "closed" /\ watch' = watch) \/ Publishes(p)
    BY <1>7 DEF Publish, Publishes
  <2> QED
    BY <1>1, <1>2, <1>3, <1>7, <2>1, <2>2, <2>3, <2>4, HandlerStep DEF Publish
<1>8. CASE AgentAcks(p)
  <2>1. handler[p] = "published" /\ handler'[p] = "acked" /\ "acked" \in HandlerStates
    BY <1>1, <1>8 DEF AgentAcks, HandlerStates
  <2>2. Louder /\ Heard(p)'
    BY <1>1, <1>8, LouderIf DEF AgentAcks, Heard
  <2> QED
    BY <1>1, <1>2, <1>8, <2>1, <2>2, HandlerStep DEF AgentAcks, OnServer, Announced
<1>9. CASE DeliveryFails(p)
  <2>1. handler[p] = "published" /\ handler'[p] = "done" /\ "done" \in HandlerStates
    BY <1>1, <1>9 DEF DeliveryFails, HandlerStates
  <2>2. Louder
    BY <1>1, <1>9, LouderIf DEF DeliveryFails
  <2> QED
    BY <1>1, <1>2, <1>9, <2>1, <2>2, HandlerStep DEF DeliveryFails, OnServer, Announced
<1>10. CASE MarkDelivered(p)
  <2>1. handler[p] = "acked" /\ handler'[p] = "done" /\ "done" \in HandlerStates
    BY <1>1, <1>10 DEF MarkDelivered, HandlerStates
  <2>2. Heard(p)'
    BY <1>10, <2>1 DEF MarkDelivered, Heard, IInv, Marks
  <2> QED
    BY <1>1, <1>2, <1>3, <1>10, <2>1, <2>2, HandlerStep DEF MarkDelivered, OnServer, Announced
<1>11. CASE HandlerCancelled(p)
  <2> DEFINE h == CASE handler[p] = "sent" -> "lost" [] handler[p] = "stored" -> "silent" [] OTHER -> "done"
  <2>1. handler' = [handler EXCEPT ![p] = h] /\ handler[p] \in {"sent", "stored", "published", "acked"}
    BY <1>11 DEF HandlerCancelled
  <2>2. /\ h \in HandlerStates /\ h \in {"lost", "silent", "done"}
        /\ handler[p] # "sent" => h \in {"silent", "done"}
        /\ h = "done" => handler[p] \in {"published", "acked"}
    BY <2>1 DEF HandlerStates
  <2> HIDE DEF h
  <2>3. handler'[p] = h
    BY <1>1, <2>1
  <2>4. (OnServer(p) => OnServer(p)') /\ (Announced(p)' => Announced(p))
    BY <2>1, <2>2, <2>3 DEF OnServer, Announced
  <2> QED
    BY <1>1, <1>2, <1>3, <1>11, <2>1, <2>2, <2>3, <2>4, HandlerStep DEF HandlerCancelled
<1> QED
  BY <1>4, <1>5, <1>6, <1>7, <1>8, <1>9, <1>10, <1>11
-----------------------------------------------------------------------------
(* A step in which the row of p comes, or its call ends: no other row is   *)
(* touched but for its range.                                              *)
LEMMA TabStep ==
  ASSUME IInv, NEW p \in Posts, NEW c \in {"waiting", "answered", "failed"},
         Rows(rows'),
         \A i \in DOMAIN rows' : i \in DOMAIN rows \/ (i = Stored(p) /\ OnServer(p)),
         \A i \in DOMAIN rows : i \in DOMAIN rows' \/ i = Temp(p),
         \A i \in DOMAIN rows' : rows'[i].delivered => Heard(i.post),
         \A i \in DOMAIN rows' : i.temp /\ i # Temp(p) =>
            (rows'[i].pending <=> rows[i].pending) /\ (rows'[i].error <=> rows[i].error),
         call' = call \/ (call[p] = "waiting" /\ call' = [call EXCEPT ![p] = c]),
         Temp(p) \in DOMAIN rows' =>
            (rows'[Temp(p)].pending <=> call'[p] = "waiting") /\ (rows'[Temp(p)].error <=> call'[p] = "failed"),
         call'[p] = "waiting" => Temp(p) \in DOMAIN rows',
         OnServer(p) \/ (Temp(p) \in DOMAIN rows' /\ rows'[Temp(p)].error),
         WatchType', watch'.phase # "open" => watch'.burst = <<>>,
         \A x \in DOMAIN watch'.burst : x \in DOMAIN watch.burst /\ watch'.burst[x] = watch.burst[x],
         Range(watch'.queue) \subseteq Range(watch.queue),
         watch'.phase = "open" => watch.phase = "open" /\ \A x \in Posts : Coming(x) => Coming(x)',
         draft' \in 0 .. MaxDrafts, UNCHANGED <<about, handler, delivered, heard, steering, drags>>
  PROVE  IInv'
<1>1. /\ call' \in [Posts -> {"none", "waiting", "answered", "failed"}]
      /\ \A x \in Posts \ {p} : call'[x] = call[x]
      /\ call'[p] = "none" <=> call[p] = "none"
  <2>1. call \in [Posts -> {"none", "waiting", "answered", "failed"}]
    BY DEF IInv, TypeOK
  <2>2. CASE call' = call
    BY <2>1, <2>2
  <2>3. CASE call[p] = "waiting" /\ call' = [call EXCEPT ![p] = c]
    BY <2>1, <2>3
  <2> QED
    BY <2>2, <2>3
<1>2. TypeOK'
  BY <1>1 DEF IInv, TypeOK, WatchType, Rows, Bursts
<1>3. Rows(rows) /\ DOMAIN rows' \subseteq Ids
  BY DEF IInv, TypeOK, Rows
<1>4. TemporaryRowsSettle'
  BY <1>1, IdFacts DEF TemporaryRowsSettle, IInv, Calls
<1>5. NoNoteLost'
  <2> SUFFICES ASSUME NEW x \in Posts, call'[x] # "none"
               PROVE  \E y \in Posts :
                        /\ about'[y].note = about'[x].note /\ call'[y] # "none"
                        /\ \/ OnServer(y)' \/ call'[y] = "waiting"
                           \/ Temp(y) \in DOMAIN rows' /\ rows'[Temp(y)].error
    BY DEF NoNoteLost
  <2>1. PICK y \in Posts : /\ about[y].note = about[x].note /\ call[y] # "none"
                           /\ \/ OnServer(y) \/ call[y] = "waiting"
                              \/ Temp(y) \in DOMAIN rows /\ rows[Temp(y)].error
    BY <1>1 DEF NoNoteLost, IInv, Calls
  <2>2. CASE y = p
    BY <1>1, <2>1, <2>2 DEF OnServer
  <2>3. CASE y # p
    <3>1. Temp(y) # Temp(p) /\ Temp(y).temp
      BY <2>3, IdFacts
    <3>2. call'[y] = call[y]
      BY <1>1, <2>3
    <3> QED
      BY <2>1, <3>1, <3>2 DEF OnServer
  <2> QED
    BY <2>2, <2>3
<1>6. Calls'
  <2>1. \A x \in Posts : call'[x] = "waiting" => Temp(x) \in DOMAIN rows'
    BY <1>1, IdFacts DEF IInv, Calls
  <2>2. \A i \in DOMAIN rows' : handler'[i.post] # "none"
    BY IdFacts DEF IInv, Calls, OnServer
  <2>3. \A x \in Posts : handler'[x] = "none" \/ x \in steering' => call'[x] = "none"
    BY <1>1 DEF IInv, Calls
  <2>4. \A x \in steering' : handler'[x] = "none"
    BY DEF IInv, Calls
  <2> QED
    BY <1>4, <1>5, <2>1, <2>2, <2>3, <2>4 DEF Calls
<1>7. Marks'
  <2>1. CheckmarkTrue'
    BY DEF CheckmarkTrue, Heard
  <2> QED
    BY <2>1 DEF IInv, Marks, Heard
<1>8. Reads'
  <2>1. \A i \in DOMAIN rows' : ~i.temp => OnServer(i.post)'
    BY IdFacts DEF IInv, Reads, OnServer
  <2>2. /\ \A x \in DOMAIN watch'.burst : OnServer(x)'
        /\ \A x \in Range(watch'.queue) : OnServer(x)'
        /\ \A x \in delivered' : OnServer(x)'
    BY DEF IInv, Reads, OnServer
  <2>3. watch'.phase = "open" => \A x \in Posts : Announced(x)' => Coming(x)'
    BY DEF IInv, Reads, Announced
  <2> QED
    BY <2>1, <2>2, <2>3 DEF Reads
<1> QED
  BY <1>2, <1>6, <1>7, <1>8 DEF IInv

(* The rows of the stream, and the end of a call.                          *)
LEMMA StoredRow ==
  ASSUME NEW rs, Rows(rs), NEW p \in Posts, NEW b \in BOOLEAN
  PROVE  PutRow(Upsert(rs, Stored(p), Converted(b)), rs, Stored(p), Converted(b))
<1>1. Stored(p) \in Ids /\ Converted(b) \in Row
  BY IdFacts, MadeRows
<1> QED
  BY <1>1, UpsertRows

LEMMA FrameStep ==
  ASSUME IInv, NEW p \in Posts, NEW b \in BOOLEAN, OnServer(p), b => Heard(p),
         rows' = Upsert(rows, Stored(p), Converted(b)),
         WatchType', watch'.phase # "open" => watch'.burst = <<>>,
         \A x \in DOMAIN watch'.burst : x \in DOMAIN watch.burst /\ watch'.burst[x] = watch.burst[x],
         Range(watch'.queue) \subseteq Range(watch.queue),
         watch'.phase = "open" => watch.phase = "open",
         \A x \in Posts : x # p /\ Coming(x) /\ Stored(x) \notin DOMAIN rows =>
            x \in DOMAIN watch'.burst \/ x \in Range(watch'.queue),
         UNCHANGED <<about, call, handler, delivered, heard, steering, draft, drags>>
  PROVE  IInv'
<1>1. /\ Rows(rows') /\ DOMAIN rows' = DOMAIN rows \cup {Stored(p)}
      /\ \A i \in DOMAIN rows : i # Stored(p) => rows'[i] = rows[i]
      /\ rows'[Stored(p)].delivered <=> b
  <2>1. Rows(rows)
    BY DEF IInv, TypeOK, Rows
  <2>2. PutRow(rows', rows, Stored(p), Converted(b))
    BY <2>1, StoredRow
  <2> QED
    BY <2>2, MadeRows DEF PutRow
<1>2. Stored(p) # Temp(p) /\ ~Stored(p).temp /\ Stored(p).post = p
  BY IdFacts
<1>3. \A i \in DOMAIN rows' : rows'[i].delivered => Heard(i.post)
  BY <1>1, <1>2 DEF IInv, Marks, CheckmarkTrue, Heard
<1>4. \A i \in DOMAIN rows' : i.temp => rows'[i] = rows[i] /\ i \in DOMAIN rows
  BY <1>1, <1>2
<1>5. /\ Temp(p) \in DOMAIN rows' =>
            (rows'[Temp(p)].pending <=> call'[p] = "waiting") /\ (rows'[Temp(p)].error <=> call'[p] = "failed")
      /\ call'[p] = "waiting" => Temp(p) \in DOMAIN rows'
  BY <1>1, <1>2 DEF IInv, Calls, TemporaryRowsSettle
<1>6. watch'.phase = "open" => watch.phase = "open" /\ \A x \in Posts : Coming(x) => Coming(x)'
  BY <1>1 DEF Coming
<1>7. draft' \in 0 .. MaxDrafts
  BY DEF IInv, TypeOK
<1>8. \A i \in DOMAIN rows' : i.temp /\ i # Temp(p) =>
        (rows'[i].pending <=> rows[i].pending) /\ (rows'[i].error <=> rows[i].error)
  BY <1>4
<1> QED
  BY <1>1, <1>3, <1>5, <1>6, <1>7, <1>8, TabStep

LEMMA ReceiveInitialStep ==
  ASSUME IInv, NEW p \in Posts, ReceiveInitial(p)
  PROVE  IInv'
<1> DEFINE b == watch.burst
           w == Without(b, p)
<1>1. b \in Bursts /\ watch.phase \in {"closed", "reading", "open"} /\ p \in DOMAIN b
  BY DEF IInv, WatchType, ReceiveInitial
<1>2. /\ w \in Bursts /\ DOMAIN w = DOMAIN b \ {p} /\ \A q \in DOMAIN b \ {p} : w[q] = b[q]
      /\ b # <<>> /\ b[p] \in BOOLEAN
  BY <1>1, BurstFacts
<1> HIDE DEF w
<1>3. watch.phase = "open" /\ OnServer(p) /\ (b[p] => Heard(p))
  BY <1>1, <1>2 DEF IInv, Reads, Marks
<1>4. watch' = [watch EXCEPT !.burst = w] /\ rows' = Upsert(rows, Stored(p), Converted(b[p]))
      /\ UNCHANGED <<about, call, handler, delivered, heard, steering, draft, drags>>
  BY DEF ReceiveInitial, w
<1>5. WatchType' /\ watch'.phase = "open" /\ watch'.burst = w /\ watch'.queue = watch.queue
  BY <1>2, <1>3, <1>4 DEF IInv, WatchType
<1>6. \A x \in Posts : x # p /\ Coming(x) /\ Stored(x) \notin DOMAIN rows =>
        x \in DOMAIN watch'.burst \/ x \in Range(watch'.queue)
  BY <1>2, <1>5 DEF Coming
<1> QED
  BY <1>2, <1>3, <1>4, <1>5, <1>6, FrameStep

LEMMA ReceiveNewStep ==
  ASSUME IInv, ReceiveNew
  PROVE  IInv'
<1> DEFINE q == watch.queue
           p == Head(q)
           t == Tail(q)
<1>1. q \in Seq(Posts) /\ q # <<>> /\ watch.phase = "open" /\ watch.burst = <<>>
  BY DEF IInv, WatchType, ReceiveNew
<1>2. p \in Posts /\ t \in Seq(Posts) /\ Range(q) = {p} \cup Range(t)
  <2>1. p = q[1] /\ t \in Seq(Posts) /\ DOMAIN q = 1 .. Len(q) /\ Len(q) \in Nat \ {0}
        /\ DOMAIN t = 1 .. Len(q) - 1 /\ \A k \in 1 .. Len(q) - 1 : t[k] = q[k + 1]
    BY <1>1, HeadTailProperties, LenProperties, EmptySeq
  <2> HIDE DEF t, p
  <2>2. \A k \in DOMAIN q : k = 1 \/ (k - 1 \in DOMAIN t /\ t[k - 1] = q[k])
    BY <2>1
  <2>3. \A k \in DOMAIN t : k + 1 \in DOMAIN q
    BY <2>1
  <2>4. 1 \in DOMAIN q /\ q[1] \in Posts
    BY <1>1, <2>1
  <2>5. \A x \in Range(q) : x = p \/ x \in Range(t)
    BY <2>1, <2>2 DEF Range
  <2>6. \A x \in Range(t) : x \in Range(q)
    BY <2>1, <2>3 DEF Range
  <2>7. p \in Range(q)
    BY <2>1, <2>4 DEF Range
  <2> QED
    BY <2>1, <2>4, <2>5, <2>6, <2>7
<1>3. OnServer(p)
  BY <1>2 DEF IInv, Reads
<1>4. watch' = [watch EXCEPT !.queue = t] /\ rows' = Upsert(rows, Stored(p), Converted(FALSE))
      /\ UNCHANGED <<about, call, handler, delivered, heard, steering, draft, drags>>
  BY DEF ReceiveNew
<1> HIDE DEF p, t
<1>5. WatchType' /\ watch'.phase = "open" /\ watch'.burst = watch.burst /\ watch'.queue = t
  BY <1>1, <1>2, <1>4 DEF IInv, WatchType
<1>6. \A x \in Posts : x # p /\ Coming(x) /\ Stored(x) \notin DOMAIN rows =>
        x \in DOMAIN watch'.burst \/ x \in Range(watch'.queue)
  BY <1>2, <1>5 DEF Coming
<1> QED
  BY <1>1, <1>2, <1>3, <1>4, <1>5, <1>6, FrameStep

LEMMA AnsweredRows ==
  ASSUME IInv, NEW p \in Posts, Answered(p)
  PROVE  /\ Rows(rows') /\ DOMAIN rows' = (DOMAIN rows \ {Temp(p)}) \cup {Stored(p)}
         /\ \A i \in DOMAIN rows' : i # Stored(p) =>
              /\ (rows'[i].pending <=> rows[i].pending) /\ (rows'[i].error <=> rows[i].error)
              /\ (rows'[i].delivered <=> rows[i].delivered)
         /\ ~rows'[Stored(p)].delivered
         /\ \A i \in DOMAIN rows : ~i.temp /\ rows[i].end # 0 => rows'[i].end # 0
<1> DEFINE w == Without(rows, Temp(p))
           u == Upsert(w, Stored(p), Converted(FALSE))
           z == Stamped(u, about[p])
<1>1. Rows(rows) /\ about[p] \in About /\ Temp(p).temp
  BY IdFacts DEF IInv, TypeOK, Rows
<1>2. Rows(w) /\ DOMAIN w = DOMAIN rows \ {Temp(p)} /\ \A j \in DOMAIN w : w[j] = rows[j]
  BY <1>1, WithoutRows
<1> HIDE DEF w
<1>3. /\ Rows(u) /\ DOMAIN u = DOMAIN w \cup {Stored(p)}
      /\ \A j \in DOMAIN w : j # Stored(p) => u[j] = w[j]
      /\ ~u[Stored(p)].delivered
      /\ Stored(p) \in DOMAIN w => u[Stored(p)].end = w[Stored(p)].end
  <2>1. PutRow(u, w, Stored(p), Converted(FALSE))
    BY <1>2, StoredRow
  <2> HIDE DEF u
  <2> QED
    BY <2>1, MadeRows DEF PutRow
<1> HIDE DEF u
<1>4. /\ Rows(z) /\ DOMAIN z = DOMAIN u
      /\ \A j \in DOMAIN u : /\ (z[j].delivered <=> u[j].delivered)
                             /\ (z[j].pending <=> u[j].pending) /\ (z[j].error <=> u[j].error)
                             /\ u[j].end # 0 => z[j].end # 0
  BY <1>1, <1>3, StampedRows
<1> HIDE DEF z
<1>5. rows' = z
  BY DEF Answered, w, u, z
<1>6. \A i \in DOMAIN rows : ~i.temp /\ rows[i].end # 0 => rows'[i].end # 0
  <2> SUFFICES ASSUME NEW i \in DOMAIN rows, ~i.temp, rows[i].end # 0 PROVE z[i].end # 0
    BY <1>5
  <2>1. i \in DOMAIN w /\ w[i] = rows[i]
    BY <1>1, <1>2
  <2>2. u[i].end # 0 /\ i \in DOMAIN u
    BY <1>3, <2>1
  <2> QED
    BY <1>4, <2>2
<1>7. Rows(rows') /\ DOMAIN rows' = (DOMAIN rows \ {Temp(p)}) \cup {Stored(p)}
  BY <1>2, <1>3, <1>4, <1>5
<1>8. ASSUME NEW i \in DOMAIN rows', i # Stored(p)
      PROVE  /\ (rows'[i].pending <=> rows[i].pending) /\ (rows'[i].error <=> rows[i].error)
             /\ (rows'[i].delivered <=> rows[i].delivered)
  <2>1. i \in DOMAIN w /\ i \in DOMAIN u
    BY <1>3, <1>4, <1>5, <1>8
  <2>2. u[i] = rows[i]
    BY <1>2, <1>3, <1>8, <2>1
  <2> QED
    BY <1>4, <1>5, <2>1, <2>2
<1>9. ~rows'[Stored(p)].delivered
  BY <1>1, <1>3, <1>4, <1>5
<1> QED
  BY <1>6, <1>7, <1>8, <1>9

LEMMA DialogTyped ==
  ASSUME IInv, NEW p \in Posts, DialogAfter(p)
  PROVE  draft' \in 0 .. MaxDrafts
  BY BoundsAssumption DEF DialogAfter, IInv, TypeOK

LEMMA AnsweredStep ==
  ASSUME IInv, NEW p \in Posts, Answered(p)
  PROVE  IInv'
<1>1. /\ Rows(rows') /\ DOMAIN rows' = (DOMAIN rows \ {Temp(p)}) \cup {Stored(p)}
      /\ \A i \in DOMAIN rows' : i # Stored(p) =>
           /\ (rows'[i].pending <=> rows[i].pending) /\ (rows'[i].error <=> rows[i].error)
           /\ (rows'[i].delivered <=> rows[i].delivered)
      /\ ~rows'[Stored(p)].delivered
  BY AnsweredRows
<1>2. /\ call[p] = "waiting" /\ call' = [call EXCEPT ![p] = "answered"] /\ OnServer(p) /\ DialogAfter(p)
      /\ UNCHANGED <<about, handler, delivered, heard, steering, drags, watch>>
  BY DEF Answered, OnServer
<1>3. Stored(p) # Temp(p) /\ ~Stored(p).temp /\ Stored(p).post = p /\ \A x \in Posts : Stored(x) # Temp(p)
  BY IdFacts
<1>4. Temp(p) \notin DOMAIN rows' /\ call'[p] = "answered"
  BY <1>1, <1>2, <1>3 DEF IInv, TypeOK
<1>5. \A i \in DOMAIN rows' : rows'[i].delivered => Heard(i.post)
  BY <1>1 DEF IInv, Marks, CheckmarkTrue, Heard
<1>6. \A x \in Posts : Coming(x) => Coming(x)'
  BY <1>1, <1>2, <1>3 DEF Coming
<1>7. /\ WatchType' /\ (watch'.phase # "open" => watch'.burst = <<>>)
      /\ watch' = watch
  BY <1>2 DEF IInv, WatchType, Reads
<1>8. draft' \in 0 .. MaxDrafts
  BY <1>2, DialogTyped
<1>9. /\ \A i \in DOMAIN rows' : i \in DOMAIN rows \/ (i = Stored(p) /\ OnServer(p))
      /\ \A i \in DOMAIN rows : i \in DOMAIN rows' \/ i = Temp(p)
      /\ \A i \in DOMAIN rows' : i.temp /\ i # Temp(p) =>
           (rows'[i].pending <=> rows[i].pending) /\ (rows'[i].error <=> rows[i].error)
  BY <1>1, <1>2, <1>3
<1> QED
  BY <1>1, <1>2, <1>4, <1>5, <1>6, <1>7, <1>8, <1>9, TabStep

LEMMA CallFailsStep ==
  ASSUME IInv, NEW p \in Posts, CallFails(p)
  PROVE  IInv'
<1>1. /\ call[p] = "waiting" /\ call' = [call EXCEPT ![p] = "failed"] /\ rows' = MarkError(rows, Temp(p))
      /\ DialogAfter(p) /\ UNCHANGED <<about, handler, delivered, heard, steering, drags, watch>>
  BY DEF CallFails
<1>2. Rows(rows) /\ Temp(p) \in DOMAIN rows
  BY <1>1 DEF IInv, TypeOK, Rows, Calls
<1>3. /\ Rows(rows') /\ DOMAIN rows' = DOMAIN rows /\ \A j \in DOMAIN rows : j # Temp(p) => rows'[j] = rows[j]
      /\ rows'[Temp(p)].error /\ ~rows'[Temp(p)].pending /\ (rows'[Temp(p)].delivered <=> rows[Temp(p)].delivered)
  BY <1>1, <1>2, MarkErrorRows
<1>4. call'[p] = "failed"
  BY <1>1 DEF IInv, TypeOK
<1>5. \A i \in DOMAIN rows' : rows'[i].delivered => Heard(i.post)
  BY <1>3 DEF IInv, Marks, CheckmarkTrue, Heard
<1>6. \A x \in Posts : Coming(x) => Coming(x)'
  BY <1>1, <1>3 DEF Coming
<1>7. /\ WatchType' /\ (watch'.phase # "open" => watch'.burst = <<>>)
      /\ watch' = watch
  BY <1>1 DEF IInv, WatchType, Reads
<1>8. draft' \in 0 .. MaxDrafts
  BY <1>1, DialogTyped
<1> QED
  BY <1>1, <1>2, <1>3, <1>4, <1>5, <1>6, <1>7, <1>8, TabStep
-----------------------------------------------------------------------------
(* The stream opens, reads the stored notes, or closes.                    *)
LEMMA WatchStep ==
  ASSUME IInv, WatchOpens \/ ReadAnnotations \/ WatchCloses
  PROVE  IInv'
<1>1. UNCHANGED <<about, call, handler, delivered, heard, steering, rows, draft, drags>>
  BY DEF WatchOpens, ReadAnnotations, WatchCloses
<1>2. watch \in [phase : {"closed", "reading", "open"}, burst : Bursts, queue : Seq(Posts), opens : 0 .. MaxOpens]
  BY DEF IInv, WatchType
<1>3. ASSUME WatchType', watch'.phase # "open" => watch'.burst = <<>>,
             \A x \in DOMAIN watch'.burst : OnServer(x) /\ (watch'.burst[x] => Heard(x)),
             \A x \in Range(watch'.queue) : OnServer(x),
             watch'.phase = "open" => \A x \in Posts : OnServer(x) => x \in DOMAIN watch'.burst
      PROVE  IInv'
  <2>1. TypeOK'
    BY <1>1, <1>3 DEF IInv, TypeOK, WatchType, Bursts
  <2>2. Calls'
    <3>1. TemporaryRowsSettle' /\ NoNoteLost'
      BY <1>1 DEF IInv, Calls, TemporaryRowsSettle, NoNoteLost, OnServer
    <3> QED
      BY <1>1, <3>1 DEF IInv, Calls
  <2>3. Marks'
    BY <1>1, <1>3 DEF IInv, Marks, CheckmarkTrue, Heard
  <2>4. Reads'
    BY <1>1, <1>3 DEF IInv, Reads, OnServer, Announced, Coming
  <2> QED
    BY <1>3, <2>1, <2>2, <2>3, <2>4 DEF IInv
<1>4. <<>> \in Bursts /\ DOMAIN <<>> = {} /\ <<>> \in Seq(Posts) /\ Range(<<>>) = {}
  <2>1. <<>> \in Seq(Posts) /\ Len(<<>>) = 0
    BY EmptySeq
  <2>2. DOMAIN <<>> = {}
    BY <2>1, LenProperties
  <2> QED
    BY <2>1, <2>2, BurstFacts DEF Range
<1>5. CASE WatchOpens
  <2>1. /\ WatchType' /\ watch'.phase = "reading" /\ watch'.burst = <<>> /\ watch'.queue = <<>>
    <3>1. watch.opens + 1 \in 0 .. MaxOpens
      BY <1>2, <1>5, BoundsAssumption DEF WatchOpens
    <3>2. watch' = [phase |-> "reading", burst |-> <<>>, queue |-> <<>>, opens |-> watch.opens + 1]
      BY <1>5 DEF WatchOpens
    <3> QED
      BY <1>4, <3>1, <3>2 DEF WatchType
  <2>2. DOMAIN watch'.burst = {} /\ Range(watch'.queue) = {}
    BY <1>4, <2>1
  <2> QED
    BY <1>3, <2>1, <2>2
<1>6. CASE WatchCloses
  <2>1. /\ WatchType' /\ watch'.phase = "closed" /\ watch'.burst = <<>> /\ watch'.queue = <<>>
    BY <1>2, <1>4, <1>6 DEF WatchCloses, WatchType
  <2>2. DOMAIN watch'.burst = {} /\ Range(watch'.queue) = {}
    BY <1>4, <2>1
  <2> QED
    BY <1>3, <2>1, <2>2
<1>7. CASE ReadAnnotations
  <2> DEFINE ps == {q \in Posts : OnServer(q)}
             b == [p \in ps |-> p \in delivered]
  <2>1. b \in [ps -> BOOLEAN] /\ ps \in SUBSET Posts
    OBVIOUS
  <2>2. b \in Bursts
    BY <2>1 DEF Bursts
  <2>3. DOMAIN b = ps /\ \A x \in ps : b[x] => x \in delivered
    OBVIOUS
  <2>4. watch' = [watch EXCEPT !.phase = "open", !.burst = b]
    BY <1>7 DEF ReadAnnotations
  <2> HIDE DEF b
  <2>5. /\ WatchType' /\ watch'.phase = "open" /\ watch'.burst = b /\ watch'.queue = watch.queue
    BY <1>2, <2>2, <2>4 DEF WatchType
  <2>6. \A x \in DOMAIN watch'.burst : OnServer(x) /\ (watch'.burst[x] => Heard(x))
    BY <2>3, <2>5 DEF IInv, Marks
  <2>7. \A x \in Range(watch'.queue) : OnServer(x)
    BY <2>5 DEF IInv, Reads
  <2>8. \A x \in Posts : OnServer(x) => x \in DOMAIN watch'.burst
    BY <2>3, <2>5
  <2> QED
    BY <1>3, <2>5, <2>6, <2>7, <2>8
<1> QED
  BY <1>5, <1>6, <1>7

(* Steps that change no more than the dialog, the drags or the menus.      *)
LEMMA DialogStep ==
  ASSUME IInv, draft' \in 0 .. MaxDrafts, drags' \in 0 .. MaxDrafts,
         steering' = steering \/ \E p \in Posts : Unused(p) /\ steering' = steering \cup {p},
         UNCHANGED <<about, call, handler, delivered, heard, rows, watch>>
  PROVE  IInv'
<1>1. TypeOK' /\ WatchType'
  BY DEF IInv, TypeOK, WatchType
<1>2. Calls'
  <2>1. TemporaryRowsSettle' /\ NoNoteLost'
    BY DEF IInv, Calls, TemporaryRowsSettle, NoNoteLost, OnServer
  <2> QED
    BY <2>1 DEF IInv, Calls, Unused
<1>3. Marks'
  BY DEF IInv, Marks, CheckmarkTrue, Heard
<1>4. Reads'
  BY DEF IInv, Reads, OnServer, Announced, Coming
<1> QED
  BY <1>1, <1>2, <1>3, <1>4 DEF IInv

LEMMA NextIInv == IInv /\ [Next]_vars => IInv'
<1> SUFFICES ASSUME IInv, [Next]_vars PROVE IInv'
  OBVIOUS
<1>1. draft \in 0 .. MaxDrafts /\ drags \in 0 .. MaxDrafts /\ 0 \in 0 .. MaxDrafts
  BY BoundsAssumption DEF IInv, TypeOK
<1>2. CASE DragRange
  <2>1. drags + 1 \in 0 .. MaxDrafts
    BY <1>1, <1>2, BoundsAssumption DEF DragRange
  <2> QED
    BY <1>2, <2>1, DialogStep DEF DragRange
<1>3. CASE CancelDraft
  BY <1>1, <1>3, DialogStep DEF CancelDraft
<1>4. CASE DraftNowhere
  BY <1>1, <1>4, DialogStep DEF DraftNowhere
<1>5. ASSUME NEW p \in Posts, SteerFromMenu(p) PROVE IInv'
  BY <1>1, <1>5, DialogStep DEF SteerFromMenu, NextPost
<1>6. CASE UNCHANGED vars
  BY <1>1, <1>6, DialogStep DEF vars
<1> QED
  BY <1>2, <1>3, <1>4, <1>5, <1>6, WatchStep, ReceiveNewStep, PostingStep, ServerStep, AnsweredStep, CallFailsStep,
     ReceiveInitialStep DEF Next, Posting

LEMMA AnnotationsIInv == Spec => []IInv
BY InitIInv, NextIInv, PTL DEF Spec
-----------------------------------------------------------------------------
(* A row the user sees as pending has its call in flight, one in error can *)
(* be retried, and a checkmark is of a note that the agent was given.      *)
THEOREM RowsAreTrue == Spec => []RowsTrue
<1>1. IInv => RowsTrue
  BY DEF IInv, Calls, Marks, RowsTrue
<1> QED
  BY <1>1, AnnotationsIInv, PTL

(* Whatever fails behind a post, its note is stored, on its way, or shown  *)
(* with a retry.                                                           *)
THEOREM NotesAreKept == Spec => []NoNoteLost
<1>1. IInv => NoNoteLost
  BY DEF IInv, Calls
<1> QED
  BY <1>1, AnnotationsIInv, PTL

(* A tab that has read its stream shows every note that was announced, and *)
(* none that the server does not have.                                     *)
THEOREM NotesCatchUp == Spec => []NotesCaughtUp
<1>1. IInv => NotesCaughtUp
  <2> SUFFICES ASSUME IInv PROVE NotesCaughtUp
    OBVIOUS
  <2>1. DOMAIN <<>> = {} /\ Range(<<>>) = {}
    <3>1. DOMAIN <<>> = {}
      BY EmptySeq, LenProperties
    <3> QED
      BY <3>1 DEF Range
  <2> QED
    BY <2>1 DEF IInv, Reads, Coming, NotesCaughtUp
<1> QED
  BY <1>1, AnnotationsIInv, PTL

(* No answer and no frame takes a stored row away or a range off its row.  *)
THEOREM RangesAreKept == Spec => RangesStay
<1> DEFINE Stay ==
      \A i \in DOMAIN rows :
        ~i.temp => /\ i \in DOMAIN rows'
                   /\ rows[i].end # 0 => rows'[i].end # 0
<1>1. ASSUME IInv, [Next]_vars, rows' # rows PROVE Stay
  <2> SUFFICES ASSUME NEW i \in DOMAIN rows, ~i.temp
               PROVE  i \in DOMAIN rows' /\ (rows[i].end # 0 => rows'[i].end # 0)
    OBVIOUS
  <2>1. Rows(rows) /\ i \in Ids /\ \A p \in Posts : i # Temp(p)
    <3>1. Rows(rows) /\ i \in Ids
      BY <1>1 DEF IInv, TypeOK, Rows
    <3> QED
      BY <3>1, IdFacts
  <2>2. ASSUME NEW p \in Posts, NEW rs, NEW a, Rows(rs), PostAs(p, rs, a), i \in DOMAIN rs, rs[i] = rows[i]
        PROVE  i \in DOMAIN rows' /\ rows'[i] = rows[i]
    <3> DEFINE u == Upsert(rs, Temp(p), Optimistic)
    <3>1. u[i] = rs[i] /\ i \in DOMAIN u
      BY <2>1, <2>2 DEF Upsert
    <3>2. rows' = u
      BY <2>2 DEF PostAs
    <3> HIDE DEF u
    <3> QED
      BY <2>2, <3>1, <3>2
  <2>3. ASSUME NEW p \in Posts, NEW x \in Spans, AddNote(p, x) \/ SubmitDraft(p, x) \/ ControlAnswered(p, x)
        PROVE  i \in DOMAIN rows' /\ rows'[i] = rows[i]
    BY <2>1, <2>2, <2>3 DEF AddNote, SubmitDraft, ControlAnswered
  <2>4. ASSUME NEW p \in Posts, NEW q \in Posts, Retry(p, q)
        PROVE  i \in DOMAIN rows' /\ rows'[i] = rows[i]
    <3> DEFINE w == Without(rows, Temp(p))
    <3>1. Rows(w) /\ i \in DOMAIN w /\ w[i] = rows[i]
      BY <2>1, WithoutRows
    <3> HIDE DEF w
    <3>2. \E a : PostAs(q, w, a)
      BY <2>4 DEF Retry, w
    <3> QED
      BY <2>2, <3>1, <3>2
  <2>5. ASSUME NEW p \in Posts, NEW b \in BOOLEAN, rows' = Upsert(rows, Stored(p), Converted(b))
        PROVE  i \in DOMAIN rows' /\ (rows[i].end # 0 => rows'[i].end # 0)
    <3>1. PutRow(rows', rows, Stored(p), Converted(b))
      BY <2>1, <2>5, StoredRow
    <3> QED
      BY <3>1 DEF PutRow
  <2>6. ASSUME NEW p \in Posts, Answered(p)
        PROVE  i \in DOMAIN rows' /\ (rows[i].end # 0 => rows'[i].end # 0)
    BY <1>1, <2>1, <2>6, AnsweredRows
  <2>7. ASSUME NEW p \in Posts, CallFails(p)
        PROVE  i \in DOMAIN rows' /\ rows'[i] = rows[i]
    <3>1. Temp(p) \in DOMAIN rows /\ rows' = MarkError(rows, Temp(p))
      BY <1>1, <2>7 DEF IInv, Calls, CallFails
    <3> QED
      BY <2>1, <3>1 DEF MarkError
  <2>8. ASSUME NEW p \in Posts, ReceiveInitial(p)
        PROVE  i \in DOMAIN rows' /\ (rows[i].end # 0 => rows'[i].end # 0)
    <3>1. watch.burst[p] \in BOOLEAN
      BY <1>1, <2>8, BurstFacts DEF IInv, WatchType, ReceiveInitial
    <3> QED
      BY <2>5, <2>8, <3>1 DEF ReceiveInitial
  <2>9. ASSUME ReceiveNew
        PROVE  i \in DOMAIN rows' /\ (rows[i].end # 0 => rows'[i].end # 0)
    <3>1. Head(watch.queue) \in Posts
      BY <1>1, <2>9, HeadTailProperties DEF IInv, WatchType, ReceiveNew
    <3> QED
      BY <2>5, <2>9, <3>1 DEF ReceiveNew
  <2> QED
    BY <1>1, <2>3, <2>4, <2>6, <2>7, <2>8, <2>9
    DEF Next, Posting, vars, DragRange, CancelDraft, DraftNowhere, WatchOpens, ReadAnnotations, WatchCloses,
        OtherTabPosts, SteerFromMenu, ControlFails, Store, Publish, AgentAcks, DeliveryFails, MarkDelivered,
        HandlerCancelled
<1>2. IInv /\ [Next]_vars => [Stay]_rows
  BY <1>1
<1>3. RangesStay <=> [][Stay]_rows
  BY DEF RangesStay
<1> HIDE DEF Stay
<1> QED
  BY <1>2, <1>3, AnnotationsIInv, PTL DEF Spec
-----------------------------------------------------------------------------
(***************************************************************************)
(* The subscription that the components of a tab share.                    *)
(*                                                                         *)
(* The opener's cleanup holds its own controller and the others ask the    *)
(* cache: the two agree (Openers), because a stream can only be replaced   *)
(* when the count is down to zero, and so nobody is mounted (Counted).     *)
(***************************************************************************)
Status == {"LIVE"} \union Final

AllMounted == {c \in Component : Mounted(c)}

StreamFrame == [kind : {"session", "ended"}, status : Status] \union [kind : {"burst", "update"}]

Stream == [state : {"open", "failed", "closed", "aborted"}, frames : Seq(StreamFrame)]

(* The state of a component that is mounted.                               *)
State == [mounted : {TRUE}, stream : Nat, connected : BOOLEAN, burst : BOOLEAN, error : BOOLEAN,
          status : Status \union {"UNKNOWN"}, heard : BOOLEAN]

Types ==
  /\ session \in Status
  /\ statusCache \in Status \union {"UNKNOWN"}
  /\ lastEvent \in BOOLEAN
  /\ view \in [Component -> State \union {Unmounted}]
  /\ stream \in Seq(Stream)
  /\ news \in Nat

Counted ==
  /\ IsFiniteSet(AllMounted) /\ refs = Cardinality(AllMounted)
  /\ controller \in 0..Len(stream)
  /\ controller = 0 <=> refs = 0

(* The stream of whoever opened one is the one that is shared.             *)
Openers == \A c \in AllMounted : view[c].stream \in {0, controller}

Shared == Counted /\ Openers /\ NoStreamLeaks /\ StreamStays

(* Nothing says that the session is over before it is.                     *)
True(status, now) == status \in Final => status = now
FramesTrue ==
  \A s \in DOMAIN stream : \A i \in DOMAIN stream[s].frames :
    stream[s].frames[i].kind \in {"session", "ended"} => True(stream[s].frames[i].status, session)
StatusTrue == True(statusCache, session) /\ \A c \in AllMounted : True(view[c].status, session)

(* Only the loss of the stream disconnects.                                *)
Disconnected == \A c \in AllMounted : view[c].connected \/ stream[controller].state = "failed"

Truth == FramesTrue /\ StatusTrue /\ Disconnected /\ OpenerShowsStatus

HooksIInv == Types /\ Shared /\ Truth

-----------------------------------------------------------------------------
LEMMA MountedView ==
  ASSUME Types
  PROVE  \A c \in AllMounted : c \in Component /\ view[c] \in State
<1> SUFFICES ASSUME NEW c \in AllMounted PROVE view[c] \in State
  BY DEF AllMounted
<1>1. view[c] \in State \union {Unmounted} /\ view[c].mounted
  BY DEF Types, AllMounted, Mounted
<1>2. view[c] # Unmounted
  BY <1>1 DEF Unmounted
<1> QED
  BY <1>1, <1>2

LEMMA StreamTyped ==
  ASSUME Types
  PROVE  \A s \in DOMAIN stream : /\ stream[s] \in Stream /\ stream[s].frames \in Seq(StreamFrame)
                                  /\ stream[s].state \in {"open", "failed", "closed", "aborted"}
<1> SUFFICES ASSUME NEW s \in DOMAIN stream
             PROVE  /\ stream[s] \in Stream /\ stream[s].frames \in Seq(StreamFrame)
                    /\ stream[s].state \in {"open", "failed", "closed", "aborted"}
  OBVIOUS
<1>1. stream[s] \in Stream
  BY DEF Types
<1> QED
  BY <1>1 DEF Stream

LEMMA NobodyMounted ==
  ASSUME Counted
  PROVE  refs \in Nat /\ (refs = 0 <=> AllMounted = {})
  BY FS_CardinalityType, FS_EmptySet DEF Counted

LEMMA HooksInitIInv == HooksInit => HooksIInv
<1> SUFFICES ASSUME HooksInit PROVE HooksIInv
  OBVIOUS
<1>1. Types
  <2>1. view \in [Component -> State \union {Unmounted}]
    BY DEF HooksInit
  <2>2. stream \in Seq(Stream)
    BY DEF HooksInit
  <2> QED
    BY <2>1, <2>2 DEF HooksInit, Types, Status
<1>2. AllMounted = {}
  BY DEF HooksInit, AllMounted, Mounted, Unmounted
<1>3. stream = <<>> /\ DOMAIN stream = {} /\ Len(stream) = 0
  BY DEF HooksInit
<1>4. Counted
  BY <1>2, <1>3, FS_EmptySet DEF HooksInit, Counted
<1>5. Shared
  BY <1>2, <1>3, <1>4 DEF HooksInit, Shared, Openers, NoStreamLeaks, StreamStays
<1>6. Truth
  BY <1>2, <1>3 DEF HooksInit, Truth, FramesTrue, StatusTrue, True, Final, Disconnected, OpenerShowsStatus,
                    AllMounted
<1> QED
  BY <1>1, <1>5, <1>6 DEF HooksIInv

-----------------------------------------------------------------------------
(* Mounting and leaving.                                                   *)
LEMMA SeededTyped ==
  ASSUME HooksIInv, NEW n \in Nat
  PROVE  Seeded(n) \in State
<1>1. (refs > 0 \/ n # 0) \in BOOLEAN
  OBVIOUS
<1> QED
  BY <1>1 DEF HooksIInv, Types, Seeded, State

LEMMA OpenStep ==
  ASSUME HooksIInv, NEW c \in Component, OpenStream(c)
  PROVE  HooksIInv'
<1> DEFINE n == Len(stream) + 1
           new == [state |-> "open", frames |-> <<SessionRow(session), BurstComplete>>]
<1>1. AllMounted = {} /\ n \in Nat \ {0} /\ DOMAIN stream = 1..Len(stream)
  BY NobodyMounted DEF OpenStream, HooksIInv, Shared, Types
<1>2. /\ Seeded(n) \in State /\ Seeded(n).stream = n
      /\ Seeded(n).status = statusCache /\ Seeded(n).connected
  BY <1>1, SeededTyped DEF Seeded
<1>3. new \in Stream
  <2>1. SessionRow(session) \in StreamFrame /\ BurstComplete \in StreamFrame
    BY DEF SessionRow, BurstComplete, StreamFrame, HooksIInv, Types
  <2> QED
    BY <2>1 DEF Stream
<1>4. /\ refs' = 1 /\ controller' = n /\ stream' = Append(stream, new)
      /\ view' = [view EXCEPT ![c] = Seeded(n)]
      /\ UNCHANGED <<session, statusCache, lastEvent, news>>
  BY DEF OpenStream
<1>5. stream' \in Seq(Stream)
      /\ Len(stream') = n /\ DOMAIN stream' = 1..n /\ stream'[n] = new
      /\ \A s \in 1..Len(stream) : stream'[s] = stream[s]
  BY <1>3, <1>4 DEF HooksIInv, Types
<1>6. Types'
  BY <1>2, <1>4, <1>5 DEF HooksIInv, Types
<1>7. AllMounted' = {c}
  BY <1>1, <1>2, <1>4 DEF HooksIInv, Types, AllMounted, Mounted, State
<1>8. view'[c] = Seeded(n)
  BY <1>4 DEF HooksIInv, Types
<1>9. Shared'
  <2>1. Counted'
    <3>1. IsFiniteSet({c}) /\ Cardinality({c}) = 1
      BY FS_Singleton
    <3>2. controller' \in 0..Len(stream') /\ controller' # 0 /\ refs' # 0
      BY <1>1, <1>4, <1>5
    <3> QED
      BY <1>4, <1>7, <3>1, <3>2 DEF Counted
  <2>2. \A s \in DOMAIN stream : ~IsOpen(s)
    BY <1>1, NobodyMounted DEF HooksIInv, Shared, NoStreamLeaks, Counted, IsOpen
  <2>3. NoStreamLeaks'
    BY <1>1, <1>4, <1>5, <2>2 DEF NoStreamLeaks, IsOpen
  <2>4. StreamStays' /\ Openers'
    BY <1>2, <1>4, <1>5, <1>7, <1>8 DEF StreamStays, Openers
  <2> QED
    BY <2>1, <2>3, <2>4 DEF Shared
<1>10. Truth'
  <2>1. FramesTrue'
    <3>1. \A i \in DOMAIN new.frames : new.frames[i].kind \in {"session", "ended"} => new.frames[i].status = session
      BY DEF SessionRow, BurstComplete
    <3> HIDE DEF new
    <3>2. ASSUME NEW s \in DOMAIN stream', NEW i \in DOMAIN stream'[s].frames,
                 stream'[s].frames[i].kind \in {"session", "ended"}
          PROVE  True(stream'[s].frames[i].status, session')
      <4>1. CASE s = n
        BY <1>4, <1>5, <3>1, <3>2, <4>1 DEF True
      <4>2. CASE s # n
        BY <1>1, <1>4, <1>5, <3>2, <4>2 DEF True, HooksIInv, Truth, FramesTrue
      <4> QED
        BY <4>1, <4>2
    <3> QED
      BY <3>2 DEF FramesTrue
  <2>2. StatusTrue' /\ Disconnected' /\ OpenerShowsStatus'
    BY <1>2, <1>4, <1>7, <1>8
       DEF StatusTrue, True, Disconnected, OpenerShowsStatus, HooksIInv, Truth, AllMounted
  <2> QED
    BY <2>1, <2>2 DEF Truth
<1> QED
  BY <1>6, <1>9, <1>10 DEF HooksIInv

LEMMA JoinStep ==
  ASSUME HooksIInv, NEW c \in Component, Join(c)
  PROVE  HooksIInv'
<1>1. /\ refs > 0 /\ refs' = refs + 1 /\ view' = [view EXCEPT ![c] = Seeded(0)]
      /\ c \notin AllMounted
      /\ UNCHANGED <<session, controller, statusCache, lastEvent, stream, news>>
  BY DEF Join, AllMounted
<1>2. /\ Seeded(0) \in State /\ Seeded(0).stream = 0
      /\ Seeded(0).status = statusCache /\ Seeded(0).connected
  BY <1>1, SeededTyped DEF Seeded
<1>3. Types'
  BY <1>1, <1>2 DEF HooksIInv, Types
<1>4. AllMounted' = AllMounted \union {c} /\ view'[c] = Seeded(0)
      /\ \A d \in AllMounted : view'[d] = view[d]
  BY <1>1, <1>2 DEF HooksIInv, Types, AllMounted, Mounted, State
<1>5. Shared'
  <2>1. Counted'
    BY <1>1, <1>4, FS_AddElement, NobodyMounted DEF HooksIInv, Shared, Counted
  <2>2. NoStreamLeaks' /\ StreamStays' /\ Openers'
    BY <1>1, <1>2, <1>4 DEF HooksIInv, Shared, NoStreamLeaks, StreamStays, Openers, IsOpen
  <2> QED
    BY <2>1, <2>2 DEF Shared
<1>6. Truth'
  <2>1. FramesTrue'
    BY <1>1 DEF HooksIInv, Truth, FramesTrue, True
  <2>2. StatusTrue' /\ Disconnected'
    BY <1>1, <1>2, <1>4 DEF HooksIInv, Truth, StatusTrue, True, Disconnected
  <2>3. \A d \in AllMounted' : view'[d].stream # 0 => view'[d].status = statusCache'
    BY <1>1, <1>2, <1>4 DEF HooksIInv, Truth, OpenerShowsStatus, AllMounted
  <2> QED
    BY <2>1, <2>2, <2>3 DEF Truth, OpenerShowsStatus, AllMounted
<1> QED
  BY <1>3, <1>5, <1>6 DEF HooksIInv

(* The last to leave closes the stream, whoever opened it.                 *)
LEMMA UnmountStep ==
  ASSUME HooksIInv, NEW c \in Component, Unmount(c)
  PROVE  HooksIInv'
<1>1. /\ c \in AllMounted /\ refs' = refs - 1
      /\ controller' = IF refs = 1 THEN 0 ELSE controller
      /\ view' = [view EXCEPT ![c] = Unmounted]
      /\ UNCHANGED <<session, statusCache, lastEvent, news>>
  BY DEF Unmount, Cleanup, AllMounted
<1>2. AllMounted' = AllMounted \ {c} /\ \A d \in AllMounted' : view'[d] = view[d]
  BY <1>1 DEF HooksIInv, Types, AllMounted, Mounted, Unmounted
<1>3. refs \in Nat /\ refs # 0 /\ controller # 0 /\ controller \in DOMAIN stream
  BY <1>1, NobodyMounted DEF HooksIInv, Shared, Counted, Types
<1>4. stream' = IF refs = 1 THEN Abort(controller) ELSE stream
  <2>1. (IF view[c].stream # 0 THEN view[c].stream ELSE controller) = controller
    BY <1>1 DEF HooksIInv, Shared, Openers
  <2> QED
    BY <2>1 DEF Unmount, Cleanup
<1>5. /\ stream' \in Seq(Stream) /\ Len(stream') = Len(stream)
      /\ \A s \in DOMAIN stream : stream'[s] = stream[s] \/ (refs = 1 /\ s = controller /\ stream'[s].frames = <<>>)
      /\ refs = 1 => \A s \in DOMAIN stream : stream'[s].state # "open"
  <2>1. CASE refs # 1 \/ stream[controller].state # "open"
    <3>1. stream' = stream
      BY <1>4, <2>1 DEF Abort
    <3>2. refs = 1 => \A s \in DOMAIN stream : stream[s].state # "open"
      BY <2>1 DEF HooksIInv, Shared, NoStreamLeaks, IsOpen
    <3> QED
      BY <3>1, <3>2 DEF HooksIInv, Types
  <2>2. CASE refs = 1 /\ stream[controller].state = "open"
    <3> DEFINE gone == [state |-> "aborted", frames |-> <<>>]
    <3>1. stream' = [stream EXCEPT ![controller] = gone]
      BY <1>3, <1>4, <2>2 DEF Abort
    <3>2. gone \in Stream
      BY DEF Stream
    <3>3. gone.state # "open" /\ gone.frames = <<>>
      OBVIOUS
    <3> HIDE DEF gone
    <3> QED
      BY <1>3, <2>2, <3>1, <3>2, <3>3 DEF HooksIInv, Types, Shared, NoStreamLeaks, IsOpen
  <2> QED
    BY <2>1, <2>2
<1>6. Types'
  BY <1>1, <1>5 DEF HooksIInv, Types
<1>7. /\ IsFiniteSet(AllMounted') /\ refs' = Cardinality(AllMounted')
      /\ refs = 1 => AllMounted' = {}
  <2>1. IsFiniteSet(AllMounted') /\ refs' = Cardinality(AllMounted')
    BY <1>1, <1>2, FS_RemoveElement DEF HooksIInv, Shared, Counted
  <2> QED
    BY <1>1, <2>1, FS_EmptySet
<1>8. Shared'
  <2>2. Counted'
    BY <1>1, <1>3, <1>5, <1>7 DEF HooksIInv, Shared, Counted
  <2>4. Openers' /\ StreamStays'
    BY <1>1, <1>2, <1>3, <1>5, <1>7 DEF HooksIInv, Shared, Openers, StreamStays
  <2>5. NoStreamLeaks'
    BY <1>1, <1>3, <1>5 DEF HooksIInv, Types, Shared, NoStreamLeaks, IsOpen
  <2> QED
    BY <2>2, <2>4, <2>5 DEF Shared
<1>9. Truth'
  <2>1. DOMAIN stream' = DOMAIN stream
    BY <1>5 DEF HooksIInv, Types
  <2>2. FramesTrue'
    BY <1>1, <1>5, <2>1 DEF HooksIInv, Truth, FramesTrue
  <2>3. StatusTrue'
    BY <1>1, <1>2 DEF HooksIInv, Truth, StatusTrue
  <2>4. \A d \in AllMounted' : view'[d].stream # 0 => view'[d].status = statusCache'
    BY <1>1, <1>2 DEF HooksIInv, Truth, OpenerShowsStatus, AllMounted
  <2>6. Disconnected'
    BY <1>1, <1>2, <1>3, <1>5, <1>7 DEF HooksIInv, Truth, Disconnected
  <2> QED
    BY <2>2, <2>3, <2>4, <2>6 DEF Truth, OpenerShowsStatus, AllMounted
<1> QED
  BY <1>6, <1>8, <1>9 DEF HooksIInv

-----------------------------------------------------------------------------
(* The loop and the server: nobody comes or goes, and streams only end.    *)
StreamsOnlyEnd ==
  /\ stream' \in Seq(Stream) /\ Len(stream') = Len(stream)
  /\ \A s \in DOMAIN stream : \/ stream'[s].state = stream[s].state
                              \/ stream[s].state = "open" /\ stream'[s].state \in {"failed", "closed"}

LEMMA SharedStays ==
  ASSUME HooksIInv, refs' = refs, controller' = controller, StreamsOnlyEnd, AllMounted' = AllMounted,
         \A c \in AllMounted : view'[c].stream = view[c].stream
  PROVE  Shared'
<1>1. DOMAIN stream' = DOMAIN stream
  BY DEF HooksIInv, Types, StreamsOnlyEnd
<1>2. Counted' /\ Openers'
  BY DEF HooksIInv, Shared, Counted, Openers, StreamsOnlyEnd
<1>3. NoStreamLeaks'
  BY <1>1 DEF HooksIInv, Shared, NoStreamLeaks, IsOpen, StreamsOnlyEnd
<1>4. refs > 0 => controller \in DOMAIN stream
  BY NobodyMounted DEF HooksIInv, Types, Shared, Counted
<1>5. StreamStays'
  BY <1>4 DEF HooksIInv, Shared, StreamStays, StreamsOnlyEnd
<1> QED
  BY <1>2, <1>3, <1>5 DEF Shared

LEMMA ViewKept ==
  ASSUME Types, NEW S \in SUBSET AllMounted, NEW change \in [S -> State],
         \A c \in S : change[c].stream = view[c].stream,
         view' = [c \in Component |-> IF c \in S THEN change[c] ELSE view[c]]
  PROVE  /\ view' \in [Component -> State \union {Unmounted}]
         /\ AllMounted' = AllMounted
         /\ \A c \in AllMounted : view'[c] = (IF c \in S THEN change[c] ELSE view[c])
         /\ \A c \in AllMounted : view'[c].stream = view[c].stream
<1>1. view' \in [Component -> State \union {Unmounted}]
  BY DEF Types, AllMounted
<1>2. \A c \in S : change[c].mounted /\ view[c].mounted
  BY DEF State, AllMounted, Mounted
<1>3. AllMounted' = AllMounted
  BY <1>2 DEF AllMounted, Mounted
<1> QED
  BY <1>1, <1>3 DEF AllMounted

LEMMA TakeProperties ==
  ASSUME HooksIInv, NEW s \in DOMAIN stream, stream[s].frames # <<>>, Take(s), session' = session
  PROVE  /\ stream' \in Seq(Stream) /\ Len(stream') = Len(stream)
         /\ \A r \in DOMAIN stream : stream'[r].state = stream[r].state
         /\ FramesTrue'
         /\ Head(stream[s].frames) \in StreamFrame
<1> DEFINE rest == [stream[s] EXCEPT !.frames = Tail(stream[s].frames)]
<1>1. stream[s] \in Stream
  BY DEF HooksIInv, Types
<1>2. stream[s].frames \in Seq(StreamFrame)
  BY <1>1 DEF Stream
<1>3. /\ Tail(stream[s].frames) \in Seq(StreamFrame) /\ Head(stream[s].frames) \in StreamFrame
      /\ \A i \in DOMAIN Tail(stream[s].frames) :
           i + 1 \in DOMAIN stream[s].frames /\ Tail(stream[s].frames)[i] = stream[s].frames[i + 1]
  BY <1>2
<1>4. rest \in Stream /\ rest.state = stream[s].state /\ rest.frames = Tail(stream[s].frames)
  BY <1>1, <1>3 DEF Stream
<1>5. stream' = [stream EXCEPT ![s] = rest]
  BY DEF Take
<1> HIDE DEF rest
<1>6. stream' \in Seq(Stream) /\ Len(stream') = Len(stream) /\ DOMAIN stream' = DOMAIN stream
      /\ stream'[s] = rest /\ \A r \in DOMAIN stream : r # s => stream'[r] = stream[r]
  BY <1>4, <1>5 DEF HooksIInv, Types
<1>7. FramesTrue'
  <2> SUFFICES ASSUME NEW r \in DOMAIN stream, NEW i \in DOMAIN stream'[r].frames,
                      stream'[r].frames[i].kind \in {"session", "ended"}
               PROVE  True(stream'[r].frames[i].status, session)
    BY <1>6 DEF FramesTrue
  <2>1. CASE r # s
    BY <1>6, <2>1 DEF HooksIInv, Truth, FramesTrue
  <2>2. CASE r = s
    <3>1. i + 1 \in DOMAIN stream[s].frames /\ stream'[s].frames[i] = stream[s].frames[i + 1]
      BY <1>3, <1>4, <1>6, <2>2
    <3> QED
      BY <2>2, <3>1 DEF HooksIInv, Truth, FramesTrue
  <2> QED
    BY <2>1, <2>2
<1> QED
  BY <1>3, <1>4, <1>6, <1>7

(* Who is told is who opened the stream that is shared.                    *)
LEMMA ToldOpened ==
  ASSUME HooksIInv, NEW s \in DOMAIN stream, IsOpen(s)
  PROVE  /\ s = controller /\ s # 0
         /\ Told(s) = {c \in AllMounted : view[c].stream # 0}
<1>1. s = controller /\ s # 0
  BY DEF HooksIInv, Types, Shared, NoStreamLeaks
<1>2. \A c \in AllMounted : view[c].stream = s <=> view[c].stream # 0
  BY <1>1 DEF HooksIInv, Shared, Openers
<1> QED
  BY <1>1, <1>2 DEF Told, AllMounted

(* A frame of the shared stream is read: only its opener's state changes.  *)
LEMMA ReadKeeps ==
  ASSUME HooksIInv, NEW s \in DOMAIN stream, IsOpen(s), stream[s].frames # <<>>, Take(s),
         UNCHANGED <<session, refs, controller, news>>,
         statusCache' \in Status \union {"UNKNOWN"}, True(statusCache', session), lastEvent' \in BOOLEAN,
         NEW change \in [Told(s) -> State],
         view' = [c \in Component |-> IF c \in Told(s) THEN change[c] ELSE view[c]],
         \A c \in Told(s) : change[c].stream = view[c].stream /\ change[c].connected = view[c].connected
                            /\ change[c].status = statusCache'
  PROVE  HooksIInv'
<1>1. /\ stream' \in Seq(Stream) /\ Len(stream') = Len(stream) /\ FramesTrue'
      /\ \A r \in DOMAIN stream : stream'[r].state = stream[r].state
  BY TakeProperties
<1>2. Told(s) = {c \in AllMounted : view[c].stream # 0}
  BY ToldOpened
<1>3. /\ view' \in [Component -> State \union {Unmounted}]
      /\ AllMounted' = AllMounted
      /\ \A c \in AllMounted : view'[c] = (IF c \in Told(s) THEN change[c] ELSE view[c])
      /\ \A c \in AllMounted : view'[c].stream = view[c].stream
  <2>1. Told(s) \in SUBSET AllMounted
    BY <1>2
  <2> QED
    BY <2>1, ViewKept DEF HooksIInv
<1>4. Types'
  BY <1>1, <1>3 DEF HooksIInv, Types
<1>5. Shared'
  <2>1. StreamsOnlyEnd
    BY <1>1 DEF StreamsOnlyEnd
  <2> QED
    BY <1>3, <2>1, SharedStays
<1>6. StatusTrue'
  BY <1>3 DEF HooksIInv, Truth, StatusTrue
<1>7. Disconnected'
  <2>1. AllMounted # {} => controller \in DOMAIN stream
    BY NobodyMounted DEF HooksIInv, Types, Shared, Counted
  <2> QED
    BY <1>1, <1>3, <2>1 DEF HooksIInv, Truth, Disconnected
<1>8. \A c \in AllMounted : view'[c].stream # 0 => view'[c].status = statusCache'
  BY <1>2, <1>3
<1>9. OpenerShowsStatus'
  BY <1>3, <1>8 DEF OpenerShowsStatus, AllMounted
<1> QED
  BY <1>1, <1>4, <1>5, <1>6, <1>7, <1>9 DEF HooksIInv, Truth

LEMMA ReadStep ==
  ASSUME HooksIInv, Read
  PROVE  HooksIInv'
<1>1. PICK s \in DOMAIN stream : ReadStatus(s) \/ ReadBurst(s) \/ ReadUpdate(s)
  BY DEF Read
<1>2. IsOpen(s) /\ stream[s].frames # <<>> /\ Take(s) /\ UNCHANGED <<session, refs, controller, news>>
      /\ lastEvent' = TRUE
  BY <1>1 DEF ReadStatus, ReadBurst, ReadUpdate, Comes
<1>3. \A c \in Told(s) : view[c] \in State /\ view[c].status = statusCache
  BY <1>2, ToldOpened, MountedView DEF HooksIInv, Truth, OpenerShowsStatus, AllMounted
<1>4. Head(stream[s].frames) \in StreamFrame
  BY <1>2, TakeProperties
<1>5. CASE ReadStatus(s)
  <2> DEFINE status == Head(stream[s].frames).status
             change == [c \in Told(s) |->
                          Hear(IF statusCache = status THEN view[c] ELSE [view[c] EXCEPT !.status = status])]
  <2>1. Head(stream[s].frames).kind \in {"session", "ended"} /\ statusCache' = status
    BY <1>5 DEF ReadStatus, Comes, SetStatus
  <2>2. status \in Status
    BY <1>4, <2>1 DEF StreamFrame
  <2>3. True(status, session)
    <3>1. stream[s].frames \in Seq(StreamFrame)
      BY StreamTyped DEF HooksIInv
    <3>2. 1 \in DOMAIN stream[s].frames /\ Head(stream[s].frames) = stream[s].frames[1]
      BY <1>2, <3>1
    <3> QED
      BY <2>1, <3>2 DEF HooksIInv, Truth, FramesTrue
  <2>4. \A c \in Told(s) : /\ change[c] \in State /\ change[c].stream = view[c].stream
                           /\ change[c].connected = view[c].connected /\ change[c].status = status
    BY <1>3, <2>2 DEF Hear, State
  <2>5. view' = [c \in Component |-> IF c \in Told(s) THEN change[c] ELSE view[c]]
    BY <1>5 DEF ReadStatus, SetStatus
  <2>6. change \in [Told(s) -> State]
    BY <2>4
  <2> HIDE DEF status, change
  <2> QED
    BY <1>2, <2>1, <2>2, <2>3, <2>4, <2>5, <2>6, ReadKeeps
<1>6. CASE ReadBurst(s) \/ ReadUpdate(s)
  <2>1. PICK b \in BOOLEAN :
          view' = [c \in Component |->
                     IF c \in Told(s) THEN Hear(IF b THEN [view[c] EXCEPT !.burst = TRUE] ELSE view[c])
                     ELSE view[c]]
    <3>1. CASE ReadBurst(s)
      <4> WITNESS TRUE \in BOOLEAN
      <4> QED
        BY <3>1 DEF ReadBurst, BurstRead
    <3>2. CASE ReadUpdate(s)
      <4> WITNESS FALSE \in BOOLEAN
      <4> QED
        BY <3>2 DEF ReadUpdate
    <3> QED
      BY <1>6, <3>1, <3>2
  <2> DEFINE change == [c \in Told(s) |-> Hear(IF b THEN [view[c] EXCEPT !.burst = TRUE] ELSE view[c])]
  <2>2. \A c \in Told(s) : /\ change[c] \in State /\ change[c].stream = view[c].stream
                           /\ change[c].connected = view[c].connected /\ change[c].status = statusCache
    BY <1>3 DEF Hear, State
  <2>3. view' = [c \in Component |-> IF c \in Told(s) THEN change[c] ELSE view[c]]
    BY <2>1
  <2>4. change \in [Told(s) -> State]
    BY <2>2
  <2>5. statusCache' = statusCache
    BY <1>6 DEF ReadBurst, ReadUpdate
  <2> HIDE DEF change
  <2> QED
    BY <1>2, <2>2, <2>3, <2>4, <2>5, ReadKeeps DEF HooksIInv, Types, Truth, StatusTrue
<1> QED
  BY <1>1, <1>5, <1>6

LEMMA FailStep ==
  ASSUME HooksIInv, NEW s \in DOMAIN stream, Fail(s)
  PROVE  HooksIInv'
<1> DEFINE change == [c \in Told(s) |-> [view[c] EXCEPT !.error = TRUE, !.connected = FALSE]]
           gone == [state |-> "failed", frames |-> <<>>]
<1>1. IsOpen(s) /\ stream' = [stream EXCEPT ![s] = gone] /\ UNCHANGED <<session, caches, news>>
      /\ view' = [c \in Component |-> IF c \in Told(s) THEN change[c] ELSE view[c]]
  BY DEF Fail
<1>2. s = controller /\ Told(s) \in SUBSET AllMounted
  BY <1>1, ToldOpened
<1>3. \A c \in Told(s) : view[c] \in State
  BY <1>2, MountedView DEF HooksIInv
<1>4. \A c \in Told(s) : /\ change[c] \in State /\ change[c].stream = view[c].stream
                         /\ change[c].status = view[c].status
  BY <1>3 DEF State
<1>5. change \in [Told(s) -> State]
  BY <1>4
<1>6. gone \in Stream /\ gone.state = "failed" /\ gone.frames = <<>>
  BY DEF Stream
<1> HIDE DEF change, gone
<1>7. /\ stream' \in Seq(Stream) /\ Len(stream') = Len(stream) /\ DOMAIN stream' = DOMAIN stream
      /\ stream'[s] = gone /\ \A r \in DOMAIN stream : r # s => stream'[r] = stream[r]
  BY <1>1, <1>6 DEF HooksIInv, Types
<1>8. /\ view' \in [Component -> State \union {Unmounted}]
      /\ AllMounted' = AllMounted
      /\ \A c \in AllMounted : view'[c] = (IF c \in Told(s) THEN change[c] ELSE view[c])
      /\ \A c \in AllMounted : view'[c].stream = view[c].stream
  BY <1>1, <1>2, <1>4, <1>5, ViewKept DEF HooksIInv
<1>9. \A c \in AllMounted : view'[c].status = view[c].status
  BY <1>4, <1>8
<1>10. Types'
  BY <1>1, <1>7, <1>8 DEF HooksIInv, Types, caches
<1>11. Shared'
  <2>1. StreamsOnlyEnd
    BY <1>1, <1>6, <1>7 DEF StreamsOnlyEnd, IsOpen
  <2>2. refs' = refs /\ controller' = controller
    BY <1>1 DEF caches
  <2> QED
    BY <1>8, <2>1, <2>2, SharedStays
<1>12. FramesTrue'
  BY <1>1, <1>6, <1>7 DEF HooksIInv, Truth, FramesTrue
<1>13. StatusTrue' /\ Disconnected'
  BY <1>1, <1>2, <1>6, <1>7, <1>8, <1>9 DEF HooksIInv, Truth, StatusTrue, Disconnected, caches
<1>14. OpenerShowsStatus'
  BY <1>1, <1>8, <1>9 DEF HooksIInv, Truth, OpenerShowsStatus, AllMounted, caches
<1> QED
  BY <1>10, <1>11, <1>12, <1>13, <1>14 DEF HooksIInv, Truth

(* The stream changes under the components.                                *)
LEMMA StreamMoves ==
  ASSUME HooksIInv, caches' = caches, view' = view, StreamsOnlyEnd,
         session' \in Status, session # "LIVE" => session' = session, news' \in Nat, FramesTrue'
  PROVE  HooksIInv'
<1>1. AllMounted' = AllMounted
  BY DEF AllMounted, Mounted
<1>2. Types'
  BY DEF HooksIInv, Types, caches, StreamsOnlyEnd
<1>3. Shared'
  <2>1. refs' = refs /\ controller' = controller
    BY DEF caches
  <2> QED
    BY <1>1, <2>1, SharedStays
<1>4. \A status : True(status, session) => True(status, session')
  BY DEF True, Final
<1>5. StatusTrue'
  BY <1>1, <1>4 DEF HooksIInv, Truth, StatusTrue, caches
<1>6. AllMounted # {} => controller \in DOMAIN stream
  BY NobodyMounted DEF HooksIInv, Types, Shared, Counted
<1>7. Disconnected' /\ OpenerShowsStatus'
  BY <1>1, <1>6 DEF HooksIInv, Truth, Disconnected, OpenerShowsStatus, Mounted, caches, StreamsOnlyEnd
<1> QED
  BY <1>2, <1>3, <1>5, <1>7 DEF HooksIInv, Truth

LEMMA PublishProperties ==
  ASSUME HooksIInv, NEW f \in StreamFrame, stream' = PublishFrame(f), session # "LIVE" => session' = session,
         f.kind \in {"session", "ended"} => True(f.status, session')
  PROVE  StreamsOnlyEnd /\ FramesTrue'
<1>1. \A s \in DOMAIN stream : stream[s] \in Stream /\ stream[s].frames \in Seq(StreamFrame)
  BY StreamTyped DEF HooksIInv
<1>2. \A s \in DOMAIN stream : IsOpen(s) =>
        /\ stream'[s] \in Stream /\ stream'[s].state = stream[s].state
        /\ stream'[s].frames = Append(stream[s].frames, f)
  <2> SUFFICES ASSUME NEW s \in DOMAIN stream, IsOpen(s)
               PROVE  /\ stream'[s] \in Stream /\ stream'[s].state = stream[s].state
                      /\ stream'[s].frames = Append(stream[s].frames, f)
    OBVIOUS
  <2>1. stream'[s] = [stream[s] EXCEPT !.frames = Append(stream[s].frames, f)]
    BY DEF PublishFrame
  <2>2. Append(stream[s].frames, f) \in Seq(StreamFrame)
    BY <1>1
  <2> QED
    BY <1>1, <2>1, <2>2 DEF Stream
<1>3. \A s \in DOMAIN stream : ~IsOpen(s) => stream'[s] = stream[s]
  BY DEF PublishFrame
<1>4. stream' \in Seq(Stream) /\ Len(stream') = Len(stream) /\ DOMAIN stream' = DOMAIN stream
  <2>1. DOMAIN stream = 1..Len(stream) /\ Len(stream) \in Nat
    BY DEF HooksIInv, Types
  <2>2. stream' = [s \in 1..Len(stream) |-> stream'[s]] /\ \A s \in 1..Len(stream) : stream'[s] \in Stream
    BY <1>1, <1>2, <1>3, <2>1 DEF PublishFrame
  <2> QED
    BY <2>1, <2>2
<1>5. \A status : True(status, session) => True(status, session')
  BY DEF True, Final, HooksIInv, Types, Status
<1>6. FramesTrue'
  <2> SUFFICES ASSUME NEW s \in DOMAIN stream, NEW i \in DOMAIN stream'[s].frames,
                      stream'[s].frames[i].kind \in {"session", "ended"}
               PROVE  True(stream'[s].frames[i].status, session')
    BY <1>4 DEF FramesTrue
  <2>1. CASE IsOpen(s) /\ i \notin DOMAIN stream[s].frames
    <3>1. stream'[s].frames[i] = f
      BY <1>1, <1>2, <2>1
    <3> QED
      BY <3>1
  <2>2. CASE i \in DOMAIN stream[s].frames
    <3>1. CASE IsOpen(s)
      <4> DEFINE fs == stream[s].frames
      <4>1. fs \in Seq(StreamFrame) /\ stream'[s].frames = Append(fs, f) /\ i \in 1..Len(fs)
        BY <1>1, <1>2, <2>2, <3>1
      <4> HIDE DEF fs
      <4>2. Append(fs, f)[i] = fs[i]
        BY <4>1
      <4> QED
        BY <4>1, <4>2, <1>5, <2>2 DEF HooksIInv, Truth, FramesTrue, fs
    <3>2. CASE ~IsOpen(s)
      BY <1>3, <1>5, <2>2, <3>2 DEF HooksIInv, Truth, FramesTrue
    <3> QED
      BY <3>1, <3>2
  <2> QED
    BY <1>3, <2>1, <2>2
<1>7. \A s \in DOMAIN stream : stream'[s].state = stream[s].state
  BY <1>2, <1>3
<1> QED
  BY <1>4, <1>6, <1>7 DEF StreamsOnlyEnd

LEMMA ServerSteps ==
  ASSUME HooksIInv, EndSession \/ SayMore \/ (\E s \in DOMAIN stream : Close(s)) \/ UNCHANGED hookVars
  PROVE  HooksIInv'
<1>1. CASE EndSession
  <2>1. session = "LIVE" /\ session' \in Final /\ stream' = PublishFrame(SessionEnded(session'))
        /\ UNCHANGED <<caches, view, news>>
    BY <1>1 DEF EndSession
  <2>2. SessionEnded(session') \in StreamFrame /\ SessionEnded(session').status = session'
    BY <2>1 DEF SessionEnded, StreamFrame, Status
  <2>3. True(SessionEnded(session').status, session')
    BY <2>2 DEF True
  <2>4. StreamsOnlyEnd /\ FramesTrue'
    BY <2>1, <2>2, <2>3, PublishProperties
  <2> QED
    BY <2>1, <2>4, StreamMoves DEF Status, HooksIInv, Types
<1>2. CASE SayMore
  <2>1. stream' = PublishFrame(Update) /\ UNCHANGED <<session, caches, view>> /\ news' = news + 1
    BY <1>2 DEF SayMore
  <2>2. Update \in StreamFrame /\ Update.kind = "update"
    BY DEF Update, StreamFrame
  <2>3. StreamsOnlyEnd /\ FramesTrue'
    BY <2>1, <2>2, PublishProperties
  <2> QED
    BY <2>1, <2>3, StreamMoves DEF HooksIInv, Types
<1>3. ASSUME NEW s \in DOMAIN stream, Close(s)
      PROVE  HooksIInv'
  <2> DEFINE done == [stream[s] EXCEPT !.state = "closed"]
  <2>1. stream[s] \in Stream
    BY DEF HooksIInv, Types
  <2>2. done \in Stream /\ done.state = "closed" /\ done.frames = stream[s].frames
    BY <2>1 DEF Stream
  <2>3. stream' = [stream EXCEPT ![s] = done] /\ UNCHANGED <<session, caches, view, news>>
        /\ stream[s].state = "open"
    BY <1>3 DEF Close, IsOpen
  <2> HIDE DEF done
  <2>4. /\ stream' \in Seq(Stream) /\ Len(stream') = Len(stream) /\ DOMAIN stream' = DOMAIN stream
        /\ stream'[s] = done /\ \A r \in DOMAIN stream : r # s => stream'[r] = stream[r]
    BY <2>2, <2>3 DEF HooksIInv, Types
  <2>5. FramesTrue'
    BY <2>2, <2>3, <2>4 DEF HooksIInv, Truth, FramesTrue
  <2>6. StreamsOnlyEnd
    BY <2>2, <2>3, <2>4 DEF StreamsOnlyEnd
  <2> QED
    BY <2>3, <2>5, <2>6, StreamMoves DEF HooksIInv, Types
<1>4. CASE UNCHANGED hookVars
  BY <1>4 DEF hookVars, caches, HooksIInv, Types, Shared, Truth, Counted, Openers,
              NoStreamLeaks, StreamStays, FramesTrue, StatusTrue, Disconnected,
              OpenerShowsStatus, AllMounted, Mounted, IsOpen
<1> QED
  BY <1>1, <1>2, <1>3, <1>4

LEMMA HooksNextIInv == HooksIInv /\ [HooksNext]_hookVars => HooksIInv'
BY OpenStep, JoinStep, UnmountStep, ReadStep, FailStep, ServerSteps DEF HooksNext

LEMMA IInvImplies == HooksIInv => StreamShared /\ ViewsTrue
<1> SUFFICES ASSUME HooksIInv PROVE StreamShared /\ ViewsTrue
  OBVIOUS
<1>1. HooksTypeOK
  <2>1. \A s \in DOMAIN stream : stream[s].state \in {"open", "failed", "closed", "aborted"}
    BY StreamTyped DEF HooksIInv
  <2>2. session \in {"LIVE"} \union Final /\ statusCache \in {"UNKNOWN", "LIVE"} \union Final
    BY DEF HooksIInv, Types, Status
  <2>3. refs = Cardinality({c \in Component : Mounted(c)}) /\ controller \in 0..Len(stream)
        /\ (controller = 0 <=> refs = 0)
    BY DEF HooksIInv, Shared, Counted, AllMounted
  <2> QED
    BY <2>1, <2>2, <2>3 DEF HooksTypeOK
<1>2. InactiveIsTrue
  <2> SUFFICES ASSUME NEW c \in AllMounted, view[c].status \in Final \/ ~view[c].connected
               PROVE  session \in Final \/ stream[controller].state = "failed"
    BY DEF InactiveIsTrue, Inactive, AllMounted
  <2> QED
    BY DEF HooksIInv, Truth, StatusTrue, True, Disconnected
<1> QED
  BY <1>1, <1>2 DEF StreamShared, ViewsTrue, HooksIInv, Shared, Truth

(* One stream for all the components of a tab, closed with the last and    *)
(* not before (useSessionWatch).                                           *)
THEOREM StreamIsShared == HooksSpec => []StreamShared
<1>1. HooksIInv => StreamShared
  BY IInvImplies
<1> QED
  BY <1>1, HooksInitIInv, HooksNextIInv, PTL DEF HooksSpec

(* A view that takes the session for over is right, or has lost its        *)
(* stream; the opener shows the status it was told last.                   *)
THEOREM ViewsAreTrue == HooksSpec => []ViewsTrue
<1>1. HooksIInv => ViewsTrue
  BY IInvImplies
<1> QED
  BY <1>1, HooksInitIInv, HooksNextIInv, PTL DEF HooksSpec
------------------------------------------------------------------------------
(* The store.  Every set of numbers has a least one.                       *)
LEMMA LeastNumber ==
  ASSUME NEW T \in SUBSET Nat, T # {}
  PROVE  \E x \in T : \A y \in T : x <= y
<1> DEFINE R == OpToRel(<, Nat)
<1>1. \E x \in T : \A y \in T : ~(<<y, x>> \in R)
  <2>1. IsWellFoundedOn(R, Nat)
    BY NatLessThanWellFounded
  <2> HIDE DEF R
  <2> QED
    BY <2>1, WFMin, Zenon
<1>2. \A x, y \in Nat : <<y, x>> \in R <=> y < x
  BY DEF OpToRel
<1> HIDE DEF R
<1>3. PICK x \in T : \A y \in T : ~(<<y, x>> \in R)
  BY <1>1
<1>4. \A y \in T : ~(y < x)
  BY <1>2, <1>3
<1>5. \A y \in T : x <= y
  BY <1>4
<1> QED
  BY <1>5

(* What holds at first, and from each number to the next, holds at the end. *)
LEMMA StepsReach ==
  ASSUME NEW n \in Nat, NEW r, NEW A, r[0] \in A[0],
         \A k \in 1 .. n : r[k - 1] \in A[k - 1] => r[k] \in A[k]
  PROVE  \A k \in 0 .. n : r[k] \in A[k]
<1> SUFFICES ASSUME NEW m \in 0 .. n, r[m] \notin A[m] PROVE FALSE
  OBVIOUS
<1> DEFINE T == {k \in 0 .. n : r[k] \notin A[k]}
<1>1. PICK x \in T : \A y \in T : x <= y
  <2>1. T \in SUBSET Nat /\ T # {}
    OBVIOUS
  <2> HIDE DEF T
  <2> QED
    BY <2>1, LeastNumber
<1>2. x \in 1 .. n /\ x - 1 \in 0 .. n
  BY <1>1
<1>3. x - 1 \notin T
  BY <1>1, <1>2
<1>4. r[x - 1] \in A[x - 1]
  BY <1>2, <1>3
<1>5. r[x] \in A[x]
  BY <1>2, <1>4
<1> QED
  BY <1>1, <1>5

LEMMA MaxIsLast ==
  ASSUME NEW k \in Nat, NEW s \in SUBSET (1 .. k + 1), k + 1 \in s
  PROVE  Max(s) = k + 1
<1>1. \A y \in s : k + 1 >= y
  OBVIOUS
<1>2. \A x \in s : (\A y \in s : x >= y) => x = k + 1
  OBVIOUS
<1> QED
  BY <1>1, <1>2 DEF Max

(* The sets a fold over n elements goes through.                           *)
LEMMA FoldSets ==
  ASSUME NEW n \in Nat
  PROVE  /\ \A s \in SUBSET (1 .. n) : s # {} => Max(s) \in s
         /\ \A k \in 1 .. n : /\ 1 .. k \in SUBSET (1 .. n) /\ 1 .. k # {} /\ Max(1 .. k) = k
                              /\ (1 .. k) \ {k} = 1 .. (k - 1)
         /\ 1 .. 0 = {}
<1>1. ASSUME NEW s \in SUBSET (1 .. n), s # {} PROVE Max(s) \in s
  <2> DEFINE T == {n - y : y \in s}
  <2>1. PICK z \in T : \A y \in T : z <= y
    <3>1. \A y \in s : n - y \in Nat
      OBVIOUS
    <3>2. T \in SUBSET Nat /\ T # {}
      BY <1>1, <3>1
    <3> HIDE DEF T
    <3> QED
      BY <3>2, LeastNumber
  <2>2. PICK x \in s : z = n - x
    BY <2>1
  <2>3. \A y \in s : n - x <= n - y
    BY <2>1, <2>2
  <2>4. \A y \in s : x >= y
    BY <2>3
  <2> QED
    BY <2>4 DEF Max
<1>2. ASSUME NEW k \in 1 .. n
      PROVE  /\ 1 .. k \in SUBSET (1 .. n) /\ 1 .. k # {} /\ Max(1 .. k) = k
             /\ (1 .. k) \ {k} = 1 .. (k - 1)
  <2>1. k - 1 \in Nat /\ k - 1 + 1 = k /\ 1 .. k \in SUBSET (1 .. k) /\ k \in 1 .. k
    OBVIOUS
  <2>2. Max(1 .. k) = k
    BY <2>1, MaxIsLast
  <2> QED
    BY <2>2
<1> QED
  BY <1>1, <1>2

(* The function by which a fold is defined exists, for steps on a set.     *)
Folded(g, h, F, m) ==
  \A s \in SUBSET (1 .. m) : g[s] = IF s = {} THEN h ELSE F[Max(s)][g[s \ {Max(s)}]]

LEMMA FoldFunctionExists ==
  ASSUME NEW D, NEW h \in D, NEW n \in Nat, NEW F \in [1 .. n -> [D -> D]]
  PROVE  \E g \in [SUBSET (1 .. n) -> D] : Folded(g, h, F, n)
<1> DEFINE S(k) == {g \in [SUBSET (1 .. k) -> D] : Folded(g, h, F, k)}
           A == [k \in 0 .. n |-> {x \in {S(k)} : x # {}}]
           r == [k \in 0 .. n |-> S(k)]
<1>1. S(0) # {}
  <2> DEFINE g == [s \in SUBSET (1 .. 0) |-> h]
  <2>0. g \in [SUBSET (1 .. 0) -> D] /\ \A s \in SUBSET (1 .. 0) : s = {} /\ g[s] = h
    OBVIOUS
  <2> HIDE DEF g
  <2>1. g \in [SUBSET (1 .. 0) -> D] /\ Folded(g, h, F, 0)
    BY <2>0 DEF Folded
  <2> QED
    BY <2>1
<1>2. ASSUME NEW k \in 0 .. n, k < n, S(k) # {} PROVE S(k + 1) # {}
  <2>1. k \in Nat /\ k + 1 \in 1 .. n
    BY <1>2
  <2>2. PICK g \in [SUBSET (1 .. k) -> D] : Folded(g, h, F, k)
    BY <1>2
  <2> DEFINE f == [s \in SUBSET (1 .. k + 1) |-> IF k + 1 \in s THEN F[k + 1][g[s \ {k + 1}]] ELSE g[s]]
  <2>3. ASSUME NEW s \in SUBSET (1 .. k + 1)
        PROVE  f[s] \in D /\ f[s] = IF s = {} THEN h ELSE F[Max(s)][f[s \ {Max(s)}]]
    <3>1. CASE k + 1 \in s
      <4>1. Max(s) = k + 1 /\ s # {}
        BY <2>1, <3>1, MaxIsLast
      <4>2. k + 1 \notin s \ {k + 1} /\ s \ {k + 1} \in SUBSET (1 .. k + 1) /\ s \ {k + 1} \in SUBSET (1 .. k)
        BY <2>1
      <4>3. f[s \ {k + 1}] = g[s \ {k + 1}] /\ g[s \ {k + 1}] \in D
        BY <4>2
      <4>4. f[s] = F[k + 1][g[s \ {k + 1}]]
        BY <3>1
      <4> HIDE DEF f
      <4>5. F[k + 1][g[s \ {k + 1}]] \in D
        BY <2>1, <4>3
      <4> QED
        BY <4>1, <4>3, <4>4, <4>5
    <3>2. CASE k + 1 \notin s
      <4>1. s \in SUBSET (1 .. k)
        BY <2>1, <3>2
      <4>2. g[s] = IF s = {} THEN h ELSE F[Max(s)][g[s \ {Max(s)}]]
        BY <2>2, <4>1 DEF Folded
      <4>3. k + 1 \notin s \ {Max(s)} /\ s \ {Max(s)} \in SUBSET (1 .. k + 1)
        BY <3>2
      <4>4. f[s \ {Max(s)}] = g[s \ {Max(s)}] /\ f[s] = g[s] /\ g[s] \in D
        BY <3>2, <4>1, <4>3
      <4> HIDE DEF f
      <4> QED
        BY <4>2, <4>4
    <3> QED
      BY <3>1, <3>2
  <2>4. f \in [SUBSET (1 .. k + 1) -> D]
    BY <2>3
  <2> HIDE DEF f
  <2>5. Folded(f, h, F, k + 1)
    BY <2>3 DEF Folded
  <2> QED
    BY <2>4, <2>5
<1> HIDE DEF S
<1>3. \A k \in 0 .. n : r[k] \in A[k]
  <2>1. r[0] \in A[0]
    BY <1>1
  <2>2. ASSUME NEW k \in 1 .. n, r[k - 1] \in A[k - 1] PROVE r[k] \in A[k]
    <3>1. k - 1 \in 0 .. n /\ k - 1 < n /\ k - 1 + 1 = k
      OBVIOUS
    <3>2. S(k - 1) # {}
      BY <2>2, <3>1
    <3>3. S(k) # {}
      BY <1>2, <3>1, <3>2
    <3> QED
      BY <3>3
  <2> HIDE DEF r, A
  <2> QED
    BY <2>1, <2>2, StepsReach
<1>4. S(n) # {}
  BY <1>3
<1> QED
  BY <1>4 DEF S
-----------------------------------------------------------------------------
(* Sorted lists: InsertBy, InsertAll.                                      *)
Lists(s, S) == IsInjective(s) /\ Range(s) = S
Ordered(key, s) == \A i, j \in DOMAIN s : i < j => key[s[i]] <= key[s[j]]

LEMMA SeqFacts ==
  ASSUME NEW X, NEW s \in Seq(X)
  PROVE  DOMAIN s = 1 .. Len(s) /\ Len(s) \in Nat /\ \A i \in DOMAIN s : s[i] \in X
OBVIOUS

(* s is the list with x put behind its first n elements.                   *)
PutBehind(s, list, x, n) ==
  /\ n \in 0 .. Len(list) /\ DOMAIN s = 1 .. Len(list) + 1
  /\ \A i \in 1 .. Len(list) + 1 :
       s[i] = IF i <= n THEN list[i] ELSE IF i = n + 1 THEN x ELSE list[i - 1]

LEMMA PutBehindCases ==
  ASSUME NEW s, NEW list, NEW x, NEW n, Len(list) \in Nat, DOMAIN list = 1 .. Len(list), PutBehind(s, list, x, n)
  PROVE  \A i \in DOMAIN s : \/ i = n + 1 /\ s[i] = x
                             \/ i <= n /\ i \in DOMAIN list /\ s[i] = list[i]
                             \/ i > n + 1 /\ i - 1 \in DOMAIN list /\ s[i] = list[i - 1]
<1> SUFFICES ASSUME NEW i \in 1 .. Len(list) + 1
             PROVE  \/ i = n + 1 /\ s[i] = x
                    \/ i <= n /\ i \in DOMAIN list /\ s[i] = list[i]
                    \/ i > n + 1 /\ i - 1 \in DOMAIN list /\ s[i] = list[i - 1]
  BY DEF PutBehind
<1>1. n \in 0 .. Len(list) /\ s[i] = IF i <= n THEN list[i] ELSE IF i = n + 1 THEN x ELSE list[i - 1]
  BY DEF PutBehind
<1>2. CASE i <= n
  <2>1. i \in 1 .. Len(list)
    BY <1>1, <1>2
  <2> QED
    BY <1>1, <1>2, <2>1
<1>3. CASE i = n + 1
  <2>1. ~(i <= n)
    BY <1>1, <1>3
  <2> QED
    BY <1>1, <1>3, <2>1
<1>4. CASE i > n + 1
  <2>1. ~(i <= n) /\ i # n + 1 /\ i - 1 \in 1 .. Len(list)
    BY <1>1, <1>4
  <2> QED
    BY <1>1, <1>4, <2>1
<1> QED
  BY <1>1, <1>2, <1>3, <1>4

LEMMA InsertByFacts ==
  ASSUME NEW X, NEW key, NEW list \in Seq(X), NEW x \in X
  PROVE  /\ InsertBy(key, list, x) \in Seq(X)
         /\ PutBehind(InsertBy(key, list, x), list, x, Cardinality({i \in DOMAIN list : key[list[i]] <= key[x]}))
<1> DEFINE P == {i \in DOMAIN list : key[list[i]] <= key[x]}
           n == Cardinality(P)
           one == SubSeq(list, 1, n)
           two == SubSeq(list, n + 1, Len(list))
           front == one \o <<x>>
           s == InsertBy(key, list, x)
<1>0. DOMAIN list = 1 .. Len(list) /\ Len(list) \in Nat /\ \A i \in DOMAIN list : list[i] \in X
  BY SeqFacts
<1>1. n \in 0 .. Len(list)
  <2>1. P \subseteq 1 .. Len(list)
    BY <1>0
  <2> HIDE DEF P
  <2>2. IsFiniteSet(1 .. Len(list)) /\ Cardinality(1 .. Len(list)) = Len(list)
    BY <1>0, FS_Interval
  <2>3. IsFiniteSet(P) /\ Cardinality(P) <= Len(list) /\ Cardinality(P) \in Nat
    BY <2>1, <2>2, FS_Subset, FS_CardinalityType
  <2> QED
    BY <1>0, <2>3
<1>3. s = front \o two
  BY DEF InsertBy
<1> HIDE DEF P, n
<1>2. /\ one \in Seq(X) /\ Len(one) = n /\ \A i \in 1 .. n : one[i] = list[i]
      /\ two \in Seq(X) /\ Len(two) = Len(list) - n /\ \A i \in 1 .. Len(list) - n : two[i] = list[n + i]
  <2>1. one \in Seq(X) /\ Len(one) = n /\ \A i \in 1 .. n : one[i] = list[i]
    <3>1. 1 \in Int /\ n \in Int /\ \A i \in 1 .. n : list[i] \in X
      BY <1>0, <1>1
    <3>2. /\ one \in Seq(X) /\ Len(one) = (IF 1 <= n THEN n - 1 + 1 ELSE 0)
          /\ \A i \in 1 .. n - 1 + 1 : one[i] = list[1 + i - 1]
      BY <3>1, SubSeqProperties
    <3> HIDE DEF one
    <3> QED
      BY <1>0, <1>1, <3>2
  <2>2. two \in Seq(X) /\ Len(two) = Len(list) - n /\ \A i \in 1 .. Len(list) - n : two[i] = list[n + i]
    <3>1. n + 1 \in Int /\ Len(list) \in Int /\ \A i \in n + 1 .. Len(list) : list[i] \in X
      BY <1>0, <1>1
    <3>2. /\ two \in Seq(X) /\ Len(two) = (IF n + 1 <= Len(list) THEN Len(list) - (n + 1) + 1 ELSE 0)
          /\ \A i \in 1 .. Len(list) - (n + 1) + 1 : two[i] = list[n + 1 + i - 1]
      BY <3>1, SubSeqProperties
    <3>3. /\ Len(list) - (n + 1) + 1 = Len(list) - n /\ (~(n + 1 <= Len(list)) => Len(list) - n = 0)
          /\ \A i \in 1 .. Len(list) - n : n + 1 + i - 1 = n + i
      <4>1. \A l, m \in Int : /\ l - (m + 1) + 1 = l - m
                              /\ 0 <= m /\ m <= l /\ ~(m + 1 <= l) => l - m = 0
                              /\ \A i \in 1 .. l - m : m + 1 + i - 1 = m + i
        OBVIOUS
      <4>2. n \in Int /\ Len(list) \in Int /\ 0 <= n /\ n <= Len(list)
        BY <1>0, <1>1
      <4> QED
        BY <4>1, <4>2
    <3> HIDE DEF two
    <3> QED
      BY <3>2, <3>3
  <2> QED
    BY <2>1, <2>2
<1> HIDE DEF one, two, s
<1>4. /\ front \in Seq(X) /\ Len(front) = n + 1
      /\ \A i \in 1 .. n + 1 : front[i] = IF i <= n THEN list[i] ELSE x
  <2>1. <<x>> \in Seq(X) /\ Len(<<x>>) = 1 /\ <<x>>[1] = x
    OBVIOUS
  <2>2. /\ front \in Seq(X) /\ Len(front) = Len(one) + 1
        /\ \A i \in 1 .. Len(one) + 1 : front[i] = IF i <= Len(one) THEN one[i] ELSE <<x>>[i - Len(one)]
    BY <1>2, <2>1, ConcatProperties
  <2> QED
    BY <1>0, <1>1, <1>2, <2>1, <2>2
<1> HIDE DEF front
<1>5. /\ s \in Seq(X) /\ Len(s) = Len(list) + 1
      /\ \A i \in 1 .. Len(list) + 1 : s[i] = IF i <= n + 1 THEN front[i] ELSE two[i - (n + 1)]
  <2>1. /\ s \in Seq(X) /\ Len(s) = Len(front) + Len(two)
        /\ \A i \in 1 .. Len(front) + Len(two) :
              s[i] = IF i <= Len(front) THEN front[i] ELSE two[i - Len(front)]
    <3>1. front \in Seq(X) /\ two \in Seq(X)
      BY <1>2, <1>4
    <3>2. /\ front \o two \in Seq(X) /\ Len(front \o two) = Len(front) + Len(two)
          /\ \A i \in 1 .. Len(front) + Len(two) :
                (front \o two)[i] = IF i <= Len(front) THEN front[i] ELSE two[i - Len(front)]
      BY <3>1, ConcatProperties
    <3> QED
      BY <1>3, <3>2
  <2>2. Len(front) = n + 1 /\ n + 1 + Len(two) = Len(list) + 1
    BY <1>0, <1>1, <1>2, <1>4
  <2> QED
    BY <2>1, <2>2
<1>6. ASSUME NEW i \in 1 .. Len(list) + 1
      PROVE  s[i] = IF i <= n THEN list[i] ELSE IF i = n + 1 THEN x ELSE list[i - 1]
  <2>1. s[i] = IF i <= n + 1 THEN front[i] ELSE two[i - (n + 1)]
    BY <1>5
  <2>2. CASE i <= n + 1
    <3>1. i \in 1 .. n + 1
      BY <1>1, <2>2
    <3> QED
      BY <1>1, <1>4, <2>1, <2>2, <3>1
  <2>3. CASE ~(i <= n + 1)
    <3>1. i - (n + 1) \in 1 .. Len(list) - n /\ n + (i - (n + 1)) = i - 1 /\ ~(i <= n) /\ i # n + 1
      BY <1>0, <1>1, <2>3
    <3>2. two[i - (n + 1)] = list[i - 1]
      BY <1>2, <3>1
    <3> QED
      BY <2>1, <2>3, <3>1, <3>2
  <2> QED
    BY <2>2, <2>3
<1>7. DOMAIN s = 1 .. Len(list) + 1
  BY <1>5
<1>8. PutBehind(s, list, x, n)
  BY <1>1, <1>6, <1>7 DEF PutBehind
<1> QED
  BY <1>5, <1>8 DEF s, n, P

LEMMA RangeOfAppend ==
  ASSUME NEW X, NEW s \in Seq(X), NEW x \in X
  PROVE  Append(s, x) \in Seq(X) /\ Range(Append(s, x)) = Range(s) \union {x}
<1>1. /\ Append(s, x) \in Seq(X) /\ DOMAIN Append(s, x) = 1 .. Len(s) + 1 /\ DOMAIN s = 1 .. Len(s) /\ Len(s) \in Nat
      /\ \A i \in 1 .. Len(s) : Append(s, x)[i] = s[i]
      /\ Append(s, x)[Len(s) + 1] = x
  OBVIOUS
<1>2. \A i \in 1 .. Len(s) + 1 : i \in 1 .. Len(s) \/ i = Len(s) + 1
  BY <1>1
<1>3. \A i \in 1 .. Len(s) : i \in 1 .. Len(s) + 1
  BY <1>1
<1>4. Len(s) + 1 \in 1 .. Len(s) + 1
  BY <1>1
<1> QED
  BY <1>1, <1>2, <1>3, <1>4 DEF Range

LEMMA AppendLists ==
  ASSUME NEW X, NEW s \in Seq(X), NEW x \in X, IsInjective(s), x \notin Range(s)
  PROVE  Append(s, x) \in Seq(X) /\ Lists(Append(s, x), Range(s) \union {x})
<1> DEFINE u == Append(s, x)
<1>1. /\ u \in Seq(X) /\ DOMAIN u = 1 .. Len(s) + 1 /\ DOMAIN s = 1 .. Len(s) /\ Len(s) \in Nat
      /\ \A i \in 1 .. Len(s) : u[i] = s[i]
      /\ u[Len(s) + 1] = x
  OBVIOUS
<1>2. \A i \in DOMAIN s : s[i] # x
  BY DEF Range
<1>3. Range(u) = Range(s) \union {x}
  BY RangeOfAppend
<1> HIDE DEF u
<1>4. \A i \in DOMAIN u : \/ i \in DOMAIN s /\ u[i] = s[i] /\ u[i] # x
                          \/ i = Len(s) + 1 /\ u[i] = x
  BY <1>1, <1>2
<1>5. \A i, j \in DOMAIN s : s[i] = s[j] => i = j
  BY DEF IsInjective
<1>6. \A i, j \in DOMAIN u : u[i] = u[j] => i = j
  BY <1>4, <1>5
<1> QED
  BY <1>1, <1>3, <1>6 DEF Lists, IsInjective, u

LEMMA InsertByLists ==
  ASSUME NEW X, NEW key, NEW list \in Seq(X), NEW x \in X, IsInjective(list), x \notin Range(list)
  PROVE  /\ InsertBy(key, list, x) \in Seq(X)
         /\ Lists(InsertBy(key, list, x), Range(list) \union {x})
<1> DEFINE n == Cardinality({i \in DOMAIN list : key[list[i]] <= key[x]})
           s == InsertBy(key, list, x)
<1>1. /\ n \in 0 .. Len(list) /\ s \in Seq(X) /\ DOMAIN s = 1 .. Len(list) + 1
      /\ \A i \in 1 .. Len(list) + 1 : s[i] = IF i <= n THEN list[i] ELSE IF i = n + 1 THEN x ELSE list[i - 1]
  <2>1. s \in Seq(X) /\ PutBehind(s, list, x, n)
    BY InsertByFacts
  <2> HIDE DEF s, n
  <2> QED
    BY <2>1 DEF PutBehind
<1>2. DOMAIN list = 1 .. Len(list) /\ Len(list) \in Nat
  BY SeqFacts
<1> HIDE DEF n, s
<1>3. \A i \in DOMAIN s : \/ i = n + 1 /\ s[i] = x
                          \/ i <= n /\ i \in DOMAIN list /\ s[i] = list[i]
                          \/ i > n + 1 /\ i - 1 \in DOMAIN list /\ s[i] = list[i - 1]
  <2>1. PutBehind(s, list, x, n)
    BY <1>1 DEF PutBehind
  <2> QED
    BY <1>2, <2>1, PutBehindCases
<1>4. \A i \in DOMAIN list : x # list[i]
  BY DEF Range
<1>5. ASSUME NEW i \in DOMAIN s, NEW j \in DOMAIN s, s[i] = s[j]
      PROVE  i = j
  <2>1. \A k, l \in DOMAIN list : list[k] = list[l] => k = l
    BY DEF IsInjective
  <2> QED
    BY <1>1, <1>2, <1>3, <1>4, <1>5, <2>1
<1>6. Range(s) = Range(list) \union {x}
  <2>1. ASSUME NEW i \in DOMAIN list PROVE \E j \in DOMAIN s : s[j] = list[i]
    <3>1. CASE i <= n
      BY <1>1, <1>2, <3>1
    <3>2. CASE ~(i <= n)
      <4>1. i + 1 \in 1 .. Len(list) + 1 /\ i + 1 - 1 = i /\ ~(i + 1 <= n) /\ i + 1 # n + 1
        BY <1>1, <1>2, <3>2
      <4> QED
        BY <1>1, <4>1
    <3> QED
      BY <3>1, <3>2
  <2>2. \E j \in DOMAIN s : s[j] = x
    <3>1. n + 1 \in 1 .. Len(list) + 1 /\ ~(n + 1 <= n)
      BY <1>1, <1>2
    <3> QED
      BY <1>1, <3>1
  <2> QED
    BY <1>3, <2>1, <2>2 DEF Range
<1>7. Lists(s, Range(list) \union {x})
  BY <1>5, <1>6 DEF Lists, IsInjective
<1> QED
  BY <1>1, <1>7 DEF s

(* A set that holds all that is below its elements is counted by its last. *)
LEMMA PrefixCounted ==
  ASSUME NEW n \in Nat, NEW P \in SUBSET (1 .. n), \A i \in P : \A j \in 1 .. n : j < i => j \in P
  PROVE  P = 1 .. Cardinality(P) /\ Cardinality(P) \in 0 .. n
<1>1. \E k \in 0 .. n : P = 1 .. k
  <2>1. CASE P = 1 .. n
    BY <2>1
  <2>2. CASE P # 1 .. n
    <3>1. PICK m \in (1 .. n) \ P : \A y \in (1 .. n) \ P : m <= y
      <4> DEFINE T == (1 .. n) \ P
      <4>1. T \in SUBSET Nat
        OBVIOUS
      <4>2. T # {}
        <5>1. \E y \in 1 .. n : y \notin P
          BY <2>2
        <5> QED
          BY <5>1
      <4> HIDE DEF T
      <4>3. \E m \in T : \A y \in T : m <= y
        BY <4>1, <4>2, LeastNumber
      <4> QED
        BY <4>3 DEF T
    <3>2. \A i \in 1 .. n : i < m => i \in P
      BY <3>1
    <3>3. \A i \in P : i < m
      BY <3>1
    <3>4. m \in 1 .. n /\ m - 1 \in 0 .. n
      BY <3>1
    <3>5. \A i \in 1 .. n : i \in P <=> i \in 1 .. (m - 1)
      BY <3>2, <3>3, <3>4
    <3>6. P = 1 .. (m - 1)
      <4>1. P \subseteq 1 .. (m - 1)
        BY <3>5
      <4>2. \A i \in 1 .. (m - 1) : i \in 1 .. n
        BY <3>4
      <4>3. 1 .. (m - 1) \subseteq P
        BY <3>5, <4>2
      <4> QED
        BY <4>1, <4>3
    <3> QED
      BY <3>4, <3>6
  <2> QED
    BY <2>1, <2>2
<1>2. PICK k \in 0 .. n : P = 1 .. k
  BY <1>1
<1>3. Cardinality(1 .. k) = k
  BY <1>2, FS_Interval
<1> QED
  BY <1>2, <1>3

LEMMA InsertByOrdered ==
  ASSUME NEW X, NEW key \in [X -> Nat], NEW list \in Seq(X), NEW x \in X, Ordered(key, list)
  PROVE  Ordered(key, InsertBy(key, list, x))
<1> DEFINE P == {i \in DOMAIN list : key[list[i]] <= key[x]}
           n == Cardinality(P)
           s == InsertBy(key, list, x)
<1>1. /\ n \in 0 .. Len(list) /\ s \in Seq(X) /\ DOMAIN s = 1 .. Len(list) + 1
      /\ \A i \in 1 .. Len(list) + 1 : s[i] = IF i <= n THEN list[i] ELSE IF i = n + 1 THEN x ELSE list[i - 1]
  <2>1. s \in Seq(X) /\ PutBehind(s, list, x, n)
    BY InsertByFacts
  <2> HIDE DEF s, n
  <2> QED
    BY <2>1 DEF PutBehind
<1>2. DOMAIN list = 1 .. Len(list) /\ Len(list) \in Nat /\ \A i \in DOMAIN list : key[list[i]] \in Nat
  <2>1. DOMAIN list = 1 .. Len(list) /\ Len(list) \in Nat /\ \A i \in DOMAIN list : list[i] \in X
    BY SeqFacts
  <2> QED
    BY <2>1
<1>3. P = 1 .. n
  <2>1. P \in SUBSET (1 .. Len(list)) /\ key[x] \in Nat
    BY <1>2
  <2>2. ASSUME NEW i \in P, NEW j \in 1 .. Len(list), j < i PROVE j \in P
    <3>1. key[list[j]] <= key[list[i]] /\ key[list[i]] <= key[x]
      BY <1>2, <2>1, <2>2 DEF Ordered
    <3>2. key[list[j]] \in Nat /\ key[list[i]] \in Nat
      BY <1>2, <2>1, <2>2
    <3>3. key[list[j]] <= key[x]
      BY <2>1, <3>1, <3>2
    <3> QED
      BY <1>2, <3>3
  <2> HIDE DEF P
  <2> QED
    BY <1>2, <2>1, <2>2, PrefixCounted
<1>4. /\ \A i \in DOMAIN list : i <= n => key[list[i]] <= key[x]
      /\ \A i \in DOMAIN list : ~(i <= n) => key[x] <= key[list[i]]
  <2>1. \A i \in DOMAIN list : i \in 1 .. n <=> key[list[i]] <= key[x]
    BY <1>3
  <2>2. \A i \in DOMAIN list : i \in 1 .. n <=> i <= n
    BY <1>1, <1>2
  <2>3. key[x] \in Nat
    OBVIOUS
  <2> HIDE DEF n, s
  <2> QED
    BY <1>2, <2>1, <2>2, <2>3
<1> HIDE DEF n, s
<1>5. \A i \in DOMAIN s : \/ i = n + 1 /\ s[i] = x
                          \/ i <= n /\ i \in DOMAIN list /\ s[i] = list[i]
                          \/ i > n + 1 /\ i - 1 \in DOMAIN list /\ s[i] = list[i - 1]
  <2>1. PutBehind(s, list, x, n)
    BY <1>1 DEF PutBehind
  <2> QED
    BY <1>2, <2>1, PutBehindCases
<1>6. ASSUME NEW i \in DOMAIN s, NEW j \in DOMAIN s, i < j
      PROVE  key[s[i]] <= key[s[j]]
  <2>1. \A k, l \in DOMAIN list : k < l => key[list[k]] <= key[list[l]]
    BY DEF Ordered
  <2>2. i \in Nat /\ j \in Nat /\ n \in Nat
    BY <1>1, <1>2
  <2>3. CASE i = n + 1
    <3>1. j - 1 \in DOMAIN list /\ s[j] = list[j - 1] /\ ~(j - 1 <= n)
      BY <1>5, <1>6, <2>2, <2>3
    <3>2. s[i] = x
      BY <1>5, <2>2, <2>3
    <3> QED
      BY <1>4, <3>1, <3>2
  <2>4. CASE i <= n
    <3>1. i \in DOMAIN list /\ s[i] = list[i]
      BY <1>5, <2>2, <2>4
    <3>2. CASE j = n + 1
      BY <1>4, <1>5, <2>2, <2>4, <3>1, <3>2
    <3>3. CASE j <= n
      BY <1>5, <1>6, <2>1, <2>2, <3>1, <3>3
    <3>4. CASE j > n + 1
      <4>1. j - 1 \in DOMAIN list /\ s[j] = list[j - 1] /\ i < j - 1
        BY <1>5, <2>2, <2>4, <3>4
      <4> QED
        BY <2>1, <3>1, <4>1
    <3> QED
      BY <2>2, <3>2, <3>3, <3>4
  <2>5. CASE i > n + 1
    <3>1. /\ i - 1 \in DOMAIN list /\ s[i] = list[i - 1] /\ j - 1 \in DOMAIN list /\ s[j] = list[j - 1]
          /\ i - 1 < j - 1
      BY <1>5, <1>6, <2>2, <2>5
    <3> QED
      BY <2>1, <3>1
  <2> QED
    BY <2>2, <2>3, <2>4, <2>5
<1> QED
  BY <1>6 DEF Ordered, s

(* InsertAll inserts one element after the other.                          *)
InsertSolves(g, key, list, xs, n) ==
  g = [s \in SUBSET (1 .. n) |-> IF s = {} THEN list ELSE InsertBy(key, g[s \ {Max(s)}], xs[Max(s)])]

LEMMA InsertSteps ==
  ASSUME NEW X, NEW key, NEW list \in Seq(X), NEW xs \in Seq(X)
  PROVE  \E r : /\ r[0] = list /\ r[Len(xs)] = InsertAll(key, list, xs)
                /\ \A k \in 1 .. Len(xs) : r[k] = InsertBy(key, r[k - 1], xs[k])
<1> DEFINE n == Len(xs)
           F == [k \in 1 .. n |-> [l \in Seq(X) |-> InsertBy(key, l, xs[k])]]
           g == CHOOSE g : InsertSolves(g, key, list, xs, n)
           r == [k \in 0 .. n |-> g[1 .. k]]
<1>1. n \in Nat /\ DOMAIN xs = 1 .. n /\ \A k \in 1 .. n : xs[k] \in X
  BY SeqFacts
<1> HIDE DEF n
<1>2. \E f : InsertSolves(f, key, list, xs, n)
  <2>1. \A k \in 1 .. n, l \in Seq(X) : F[k][l] = InsertBy(key, l, xs[k]) /\ F[k][l] \in Seq(X)
    BY <1>1, InsertByFacts
  <2>2. F \in [1 .. n -> [Seq(X) -> Seq(X)]]
    BY <2>1
  <2> HIDE DEF F
  <2>3. PICK f \in [SUBSET (1 .. n) -> Seq(X)] : Folded(f, list, F, n)
    BY <1>1, <2>2, FoldFunctionExists
  <2>4. ASSUME NEW s \in SUBSET (1 .. n)
        PROVE  f[s] = IF s = {} THEN list ELSE InsertBy(key, f[s \ {Max(s)}], xs[Max(s)])
    <3>1. s \ {Max(s)} \in SUBSET (1 .. n) /\ (s # {} => Max(s) \in 1 .. n)
      BY <1>1, FoldSets
    <3>2. f[s \ {Max(s)}] \in Seq(X)
      BY <3>1
    <3> QED
      BY <2>1, <2>3, <3>1, <3>2 DEF Folded
  <2>5. f = [s \in SUBSET (1 .. n) |-> f[s]]
    OBVIOUS
  <2>6. InsertSolves(f, key, list, xs, n)
    BY <2>4, <2>5 DEF InsertSolves
  <2> QED
    BY <2>6
<1>3. InsertSolves(g, key, list, xs, n)
  BY <1>2
<1>4. InsertAll(key, list, xs) = g[1 .. n]
  BY <1>1 DEF InsertAll, FoldLeft, MapThenFoldSet, InsertSolves
<1> HIDE DEF g
<1>5. \A s \in SUBSET (1 .. n) : g[s] = IF s = {} THEN list ELSE InsertBy(key, g[s \ {Max(s)}], xs[Max(s)])
  BY <1>3 DEF InsertSolves
<1>6. r[0] = list
  <2>1. 1 .. 0 = {} /\ {} \in SUBSET (1 .. n)
    OBVIOUS
  <2>2. r[0] = g[1 .. 0]
    BY <1>1
  <2> HIDE DEF r
  <2>3. g[{}] = list
    BY <1>5, <2>1
  <2> QED
    BY <2>1, <2>2, <2>3
<1>7. ASSUME NEW k \in 1 .. n PROVE r[k] = InsertBy(key, r[k - 1], xs[k])
  <2>1. 1 .. k \in SUBSET (1 .. n) /\ 1 .. k # {} /\ Max(1 .. k) = k /\ (1 .. k) \ {k} = 1 .. (k - 1)
    BY <1>1, FoldSets
  <2>2. r[k] = g[1 .. k] /\ r[k - 1] = g[1 .. (k - 1)]
    BY <1>1
  <2> HIDE DEF r
  <2> QED
    BY <1>5, <2>1, <2>2
<1>8. r[n] = g[1 .. n]
  BY <1>1
<1> HIDE DEF r
<1> QED
  BY <1>4, <1>6, <1>7, <1>8 DEF n

(* What SortBy and the merge of two rows make: every element once, and in  *)
(* order, if they were.                                                    *)
LEMMA InsertAllFacts ==
  ASSUME NEW X, NEW key, NEW list \in Seq(X), NEW xs \in Seq(X),
         IsInjective(list), IsInjective(xs), Range(list) \intersect Range(xs) = {}
  PROVE  /\ InsertAll(key, list, xs) \in Seq(X)
         /\ Lists(InsertAll(key, list, xs), Range(list) \union Range(xs))
         /\ key \in [X -> Nat] /\ Ordered(key, list) => Ordered(key, InsertAll(key, list, xs))
<1> DEFINE n == Len(xs)
           first(k) == {xs[i] : i \in 1 .. k}
           A == [k \in 0 .. n |-> {l \in Seq(X) :
                   /\ Lists(l, Range(list) \union first(k))
                   /\ key \in [X -> Nat] /\ Ordered(key, list) => Ordered(key, l)}]
<1>1. n \in Nat /\ DOMAIN xs = 1 .. n /\ \A k \in 1 .. n : xs[k] \in X
  BY SeqFacts
<1> HIDE DEF n
<1>2. PICK r : /\ r[0] = list /\ r[n] = InsertAll(key, list, xs)
               /\ \A k \in 1 .. n : r[k] = InsertBy(key, r[k - 1], xs[k])
  BY InsertSteps DEF n
<1>3. r[0] \in A[0]
  <2>1. first(0) = {}
    OBVIOUS
  <2> HIDE DEF first
  <2> QED
    BY <1>1, <1>2, <2>1 DEF Lists
<1>4. ASSUME NEW k \in 1 .. n, r[k - 1] \in A[k - 1] PROVE r[k] \in A[k]
  <2> DEFINE l == r[k - 1]
  <2>1. k - 1 \in 0 .. n /\ k \in 0 .. n /\ xs[k] \in X
    BY <1>1
  <2>2. /\ l \in Seq(X) /\ IsInjective(l) /\ Range(l) = Range(list) \union first(k - 1)
        /\ key \in [X -> Nat] /\ Ordered(key, list) => Ordered(key, l)
    <3> HIDE DEF l, first
    <3>1. l \in A[k - 1]
      BY <1>4 DEF l
    <3> QED
      BY <2>1, <3>1 DEF Lists
  <2>3. xs[k] \notin Range(list) \union first(k - 1)
    <3>1. xs[k] \in Range(xs)
      BY <1>1 DEF Range
    <3>2. \A i \in 1 .. (k - 1) : xs[i] # xs[k]
      BY <1>1 DEF IsInjective
    <3> QED
      BY <3>1, <3>2
  <2>4. first(k) = first(k - 1) \union {xs[k]}
    <3>1. 1 .. k = (1 .. (k - 1)) \union {k}
      BY <1>1
    <3> QED
      BY <3>1
  <2>5. r[k] = InsertBy(key, l, xs[k])
    BY <1>2
  <2> HIDE DEF l, first
  <2>6. r[k] \in Seq(X) /\ Lists(r[k], Range(list) \union first(k))
    <3>1. InsertBy(key, l, xs[k]) \in Seq(X) /\ Lists(InsertBy(key, l, xs[k]), Range(l) \union {xs[k]})
      BY <2>1, <2>2, <2>3, InsertByLists
    <3>2. Range(l) \union {xs[k]} = Range(list) \union first(k)
      BY <2>2, <2>4
    <3> QED
      BY <2>5, <3>1, <3>2
  <2>7. key \in [X -> Nat] /\ Ordered(key, list) => Ordered(key, r[k])
    <3> SUFFICES ASSUME key \in [X -> Nat], Ordered(key, list) PROVE Ordered(key, r[k])
      OBVIOUS
    <3>1. Ordered(key, l) /\ l \in Seq(X)
      BY <2>2
    <3>2. Ordered(key, InsertBy(key, l, xs[k]))
      BY <2>1, <3>1, InsertByOrdered
    <3> QED
      BY <2>5, <3>2
  <2> QED
    BY <2>1, <2>6, <2>7
<1>5. r[n] \in A[n]
  <2> HIDE DEF A
  <2>1. \A k \in 0 .. n : r[k] \in A[k]
    BY <1>1, <1>3, <1>4, StepsReach
  <2> QED
    BY <1>1, <2>1
<1>6. first(n) = Range(xs)
  BY <1>1 DEF Range
<1> HIDE DEF first
<1> QED
  BY <1>1, <1>2, <1>5, <1>6

-----------------------------------------------------------------------------
(* The index: what its operations keep.                                    *)
Label == {f.id : f \in Frame}
SpanName == Label \X Agent
Shape == [agent : Agent, start : 1 .. (Forever - 1), end : 1 .. Forever, lane : Nat]
SpanMaps == UNION {[xs -> Shape] : xs \in SUBSET SpanName}
Indexes == [span : SpanMaps, rows : [Agent -> Seq(SpanName)], maxEnd : Nat]

(* Every span is in the row of its agent, once, and the rows are sorted.   *)
GoodIndex(ix) ==
  \A a \in Agent : /\ Lists(ix.rows[a], {x \in DOMAIN ix.span : ix.span[x].agent = a})
                   /\ Ordered(Starts(ix.span), ix.rows[a])

(* A span does not end before it starts, the index knows how far it        *)
(* reaches, and nothing is said of it before it starts.                    *)
GoodSpans(ix) ==
  \A x \in DOMAIN ix.span :
    /\ ix.span[x].start <= ix.span[x].end /\ Extent(ix.span[x]) <= ix.maxEnd
    /\ \A f \in Spanned : f.id = x[1] => ix.span[x].start <= f.at
GoodIndexes == {ix \in Indexes : GoodIndex(ix) /\ GoodSpans(ix)}

(* The spans of m2 are those of m, but for their ends and lanes.           *)
SamePlaces(m, m2) ==
  DOMAIN m2 = DOMAIN m /\ \A x \in DOMAIN m : m2[x].agent = m[x].agent /\ m2[x].start = m[x].start

(* They end as those of m do; they do, but for x, which ends at e.         *)
SameEnds(m, m2) == DOMAIN m2 = DOMAIN m /\ \A x \in DOMAIN m : m2[x].end = m[x].end
EndPut(m, m2, x, e) ==
  /\ DOMAIN m2 = DOMAIN m \union {x} /\ m2[x].end = e
  /\ \A z \in DOMAIN m : z # x => m2[z].end = m[z].end

LEMMA SpanMapFacts ==
  ASSUME NEW m \in SpanMaps
  PROVE  DOMAIN m \subseteq SpanName /\ m \in [DOMAIN m -> Shape] /\ \A x \in DOMAIN m : m[x] \in Shape
<1>1. PICK xs \in SUBSET SpanName : m \in [xs -> Shape]
  BY DEF SpanMaps
<1> QED
  BY <1>1

LEMMA ShapeFacts ==
  ASSUME NEW s \in Shape
  PROVE  /\ s.agent \in Agent /\ s.start \in Nat /\ s.start \in 1 .. (Forever - 1)
         /\ s.end \in 1 .. Forever /\ s.end \in Nat /\ s.lane \in Nat
BY StoreBounds DEF Shape

LEMMA IndexFacts ==
  ASSUME NEW ix \in Indexes
  PROVE  /\ ix.span \in SpanMaps /\ ix.rows \in [Agent -> Seq(SpanName)] /\ ix.maxEnd \in Nat
         /\ ix = [span |-> ix.span, rows |-> ix.rows, maxEnd |-> ix.maxEnd]
BY DEF Indexes

LEMMA StartsFacts ==
  ASSUME NEW m \in SpanMaps
  PROVE  Starts(m) \in [DOMAIN m -> Nat] /\ \A x \in DOMAIN m : Starts(m)[x] = m[x].start
<1>1. \A x \in DOMAIN m : m[x].start \in Nat
  BY SpanMapFacts, ShapeFacts
<1> QED
  BY <1>1 DEF Starts

LEMMA WidenTyped ==
  ASSUME NEW ix \in Indexes, NEW s \in Shape
  PROVE  Widen(ix, s) \in Nat /\ Widen(ix, s) >= ix.maxEnd /\ Widen(ix, s) >= Extent(s) /\ Extent(s) \in Nat
<1>1. s.start \in Nat /\ s.end \in Nat /\ ix.maxEnd \in Nat
  BY IndexFacts, ShapeFacts
<1> QED
  BY <1>1 DEF Widen, Extent

LEMMA PlacesKept ==
  ASSUME NEW ix \in GoodIndexes, NEW ix2 \in Indexes, ix2.rows = ix.rows, SamePlaces(ix.span, ix2.span),
         GoodSpans(ix2)
  PROVE  ix2 \in GoodIndexes
<1>1. Starts(ix2.span) = Starts(ix.span)
  BY DEF SamePlaces, Starts
<1>2. \A a \in Agent : {x \in DOMAIN ix2.span : ix2.span[x].agent = a} = {x \in DOMAIN ix.span : ix.span[x].agent = a}
  BY DEF SamePlaces
<1>3. GoodIndex(ix2)
  BY <1>1, <1>2 DEF GoodIndexes, GoodIndex
<1> QED
  BY <1>3 DEF GoodIndexes

LEMMA UpdateSpanGood ==
  ASSUME NEW ix \in GoodIndexes, NEW x \in DOMAIN ix.span, NEW e \in 1 .. Forever, ix.span[x].start <= e
  PROVE  /\ UpdateSpan(ix, x, e) \in GoodIndexes /\ UpdateSpan(ix, x, e).rows = ix.rows
         /\ EndPut(ix.span, UpdateSpan(ix, x, e).span, x, e)
<1> DEFINE s == [ix.span[x] EXCEPT !.end = e]
           m == [ix.span EXCEPT ![x] = s]
           w == Widen(ix, s)
           ix2 == UpdateSpan(ix, x, e)
<1>1. ix \in Indexes /\ ix.span \in SpanMaps /\ ix.span \in [DOMAIN ix.span -> Shape] /\ DOMAIN ix.span \subseteq SpanName
  BY IndexFacts, SpanMapFacts DEF GoodIndexes
<1>2. s \in Shape /\ s.agent = ix.span[x].agent /\ s.start = ix.span[x].start /\ s.end = e
  BY <1>1 DEF Shape
<1>3. w \in Nat /\ w >= ix.maxEnd /\ w >= Extent(s) /\ Extent(s) \in Nat
  BY <1>1, <1>2, WidenTyped
<1>4. ix2 = [ix EXCEPT !.span[x] = s, !.maxEnd = w]
  BY DEF UpdateSpan
<1> HIDE DEF s, w, ix2
<1>5. m \in [DOMAIN ix.span -> Shape] /\ SamePlaces(ix.span, m)
  BY <1>1, <1>2 DEF SamePlaces
<1>6. m \in SpanMaps
  BY <1>1, <1>5 DEF SpanMaps
<1>7. ix2 \in Indexes /\ ix2.rows = ix.rows /\ ix2.span = m /\ ix2.maxEnd = w
  BY <1>1, <1>3, <1>4, <1>6 DEF Indexes
<1>8. m[x] = s /\ \A z \in DOMAIN ix.span : z # x => m[z] = ix.span[z]
  BY <1>1
<1>9. DOMAIN m = DOMAIN ix.span
  OBVIOUS
<1> HIDE DEF m
<1>10. GoodSpans(ix2)
  <2>1. ASSUME NEW z \in DOMAIN ix.span
        PROVE  /\ m[z].start <= m[z].end /\ Extent(m[z]) <= w
               /\ \A f \in Spanned : f.id = z[1] => m[z].start <= f.at
    <3>1. /\ ix.span[z].start <= ix.span[z].end /\ Extent(ix.span[z]) <= ix.maxEnd
          /\ \A f \in Spanned : f.id = z[1] => ix.span[z].start <= f.at
      BY DEF GoodIndexes, GoodSpans
    <3>2. CASE z = x
      BY <1>2, <1>3, <1>8, <3>1, <3>2
    <3>3. CASE z # x
      <4>1. m[z] = ix.span[z] /\ Extent(ix.span[z]) \in Nat /\ ix.maxEnd \in Nat
        BY <1>1, <1>8, <3>3, WidenTyped, IndexFacts
      <4> QED
        BY <1>3, <3>1, <4>1
    <3> QED
      BY <3>2, <3>3
  <2> QED
    BY <1>7, <1>9, <2>1 DEF GoodSpans
<1>11. ix2 \in GoodIndexes
  BY <1>5, <1>7, <1>10, PlacesKept
<1>12. EndPut(ix.span, m, x, e)
  BY <1>2, <1>8, <1>9 DEF EndPut
<1> QED
  BY <1>7, <1>11, <1>12 DEF ix2

LEMMA RowsListed ==
  ASSUME NEW ix \in GoodIndexes, NEW a \in Agent
  PROVE  /\ ix.rows[a] \in Seq(DOMAIN ix.span) /\ IsInjective(ix.rows[a]) /\ Ordered(Starts(ix.span), ix.rows[a])
         /\ Range(ix.rows[a]) = {x \in DOMAIN ix.span : ix.span[x].agent = a}
<1>1. ix \in Indexes /\ ix.rows[a] \in Seq(SpanName) /\ GoodIndex(ix)
  BY IndexFacts DEF GoodIndexes
<1>2. /\ IsInjective(ix.rows[a]) /\ Ordered(Starts(ix.span), ix.rows[a])
      /\ Range(ix.rows[a]) = {x \in DOMAIN ix.span : ix.span[x].agent = a}
  BY <1>1 DEF GoodIndex, Lists
<1>3. \A i \in 1 .. Len(ix.rows[a]) : ix.rows[a][i] \in DOMAIN ix.span
  BY <1>1, <1>2, SeqFacts DEF Range
<1>4. ix.rows[a] \in Seq(DOMAIN ix.span)
  <2>1. DOMAIN ix.rows[a] = 1 .. Len(ix.rows[a]) /\ Len(ix.rows[a]) \in Nat /\ ix.rows[a] \in [1 .. Len(ix.rows[a]) -> SpanName]
    BY <1>1, LenProperties
  <2>2. ix.rows[a] \in [1 .. Len(ix.rows[a]) -> DOMAIN ix.span]
    BY <1>3, <2>1
  <2> QED
    BY <2>1, <2>2, SeqDef
<1> QED
  BY <1>2, <1>4

LEMMA AppendSpanGood ==
  ASSUME NEW ix \in GoodIndexes, NEW x \in SpanName, NEW s \in Shape,
         \A f \in Spanned : f.id = x[1] => s.start <= f.at,
         s.end = Forever \/ \E f \in Spanned : f.id = x[1] /\ s.end = f.at
  PROVE  /\ AppendSpan(ix, x, s) \in GoodIndexes
         /\ \A a \in Agent : a # s.agent => AppendSpan(ix, x, s).rows[a] = ix.rows[a]
         /\ EndPut(ix.span, AppendSpan(ix, x, s).span, x, s.end)
<1>1. CASE x \in DOMAIN ix.span
  <2>1. AppendSpan(ix, x, s) = UpdateSpan(ix, x, s.end) /\ s.end \in 1 .. Forever
    BY <1>1, ShapeFacts DEF AppendSpan
  <2>2. ix.span[x].start <= s.end
    <3>1. ix.span[x] \in Shape
      BY <1>1, IndexFacts, SpanMapFacts DEF GoodIndexes
    <3>2. ix.span[x].start <= Forever
      BY <3>1, StoreBounds DEF Shape
    <3>3. \A f \in Spanned : f.id = x[1] => ix.span[x].start <= f.at
      BY <1>1 DEF GoodIndexes, GoodSpans
    <3> QED
      BY <3>2, <3>3
  <2> QED
    BY <1>1, <2>1, <2>2, UpdateSpanGood
<1>2. CASE x \notin DOMAIN ix.span
  <2> DEFINE m == Put(ix.span, x, s)
             row == InsertBy(Starts(m), ix.rows[s.agent], x)
             ix2 == [span |-> m, rows |-> [ix.rows EXCEPT ![s.agent] = row], maxEnd |-> Widen(ix, s)]
  <2>1. AppendSpan(ix, x, s) = ix2
    BY <1>2 DEF AppendSpan
  <2>2. /\ ix \in Indexes /\ ix.span \in SpanMaps /\ ix.span \in [DOMAIN ix.span -> Shape]
        /\ DOMAIN ix.span \subseteq SpanName /\ ix.rows \in [Agent -> Seq(SpanName)] /\ s.agent \in Agent
    BY IndexFacts, SpanMapFacts, ShapeFacts DEF GoodIndexes
  <2>3. /\ DOMAIN m = DOMAIN ix.span \union {x} /\ m[x] = s /\ m \in [DOMAIN m -> Shape]
        /\ \A z \in DOMAIN ix.span : m[z] = ix.span[z]
    <3>1. DOMAIN m = DOMAIN ix.span \union {x} /\ m[x] = s /\ \A z \in DOMAIN ix.span : m[z] = ix.span[z]
      BY <1>2 DEF Put
    <3>2. m \in [DOMAIN ix.span \union {x} -> Shape]
      BY <2>2 DEF Put
    <3> QED
      BY <3>1, <3>2
  <2>4. m \in SpanMaps
    BY <2>2, <2>3 DEF SpanMaps
  <2> HIDE DEF m
  <2>5. Starts(m) \in [DOMAIN m -> Nat] /\ \A z \in DOMAIN ix.span : Starts(m)[z] = Starts(ix.span)[z]
    <3>1. Starts(m) \in [DOMAIN m -> Nat] /\ \A z \in DOMAIN m : Starts(m)[z] = m[z].start
      BY <2>4, StartsFacts
    <3>2. \A z \in DOMAIN ix.span : Starts(ix.span)[z] = ix.span[z].start
      BY <2>2, StartsFacts
    <3> QED
      BY <2>3, <3>1, <3>2
  <2>6. ASSUME NEW a \in Agent
        PROVE  /\ ix.rows[a] \in Seq(DOMAIN m) /\ IsInjective(ix.rows[a]) /\ Ordered(Starts(m), ix.rows[a])
               /\ Range(ix.rows[a]) = {z \in DOMAIN ix.span : ix.span[z].agent = a}
    <3>1. /\ ix.rows[a] \in Seq(DOMAIN ix.span) /\ IsInjective(ix.rows[a]) /\ Ordered(Starts(ix.span), ix.rows[a])
          /\ Range(ix.rows[a]) = {z \in DOMAIN ix.span : ix.span[z].agent = a}
      BY RowsListed
    <3>2. ix.rows[a] \in Seq(DOMAIN m)
      BY <2>3, <3>1, SeqMonotonic
    <3>3. \A i \in DOMAIN ix.rows[a] : ix.rows[a][i] \in DOMAIN ix.span
      BY <3>1, SeqFacts
    <3>4. Ordered(Starts(m), ix.rows[a])
      BY <2>5, <3>1, <3>3 DEF Ordered
    <3> QED
      BY <3>1, <3>2, <3>4
  <2>7. /\ row \in Seq(DOMAIN m) /\ Lists(row, Range(ix.rows[s.agent]) \union {x}) /\ Ordered(Starts(m), row)
    <3>1. x \in DOMAIN m /\ x \notin Range(ix.rows[s.agent])
      BY <1>2, <2>2, <2>3, <2>6
    <3>2. ix.rows[s.agent] \in Seq(DOMAIN m) /\ IsInjective(ix.rows[s.agent]) /\ Ordered(Starts(m), ix.rows[s.agent])
      BY <2>2, <2>6
    <3> QED
      BY <2>5, <3>1, <3>2, InsertByLists, InsertByOrdered
  <2>8. /\ row \in Seq(SpanName) /\ Widen(ix, s) \in Nat
        /\ Widen(ix, s) >= ix.maxEnd /\ Widen(ix, s) >= Extent(s) /\ Extent(s) \in Nat
    <3>1. DOMAIN m \subseteq SpanName
      BY <2>2, <2>3
    <3> HIDE DEF row
    <3> QED
      BY <2>2, <2>7, <3>1, SeqMonotonic, WidenTyped
  <2> HIDE DEF row
  <2>9. /\ ix2 \in Indexes /\ ix2.span = m /\ ix2.rows[s.agent] = row /\ ix2.maxEnd = Widen(ix, s)
        /\ \A a \in Agent : a # s.agent => ix2.rows[a] = ix.rows[a]
    BY <2>2, <2>4, <2>8 DEF Indexes
  <2> HIDE DEF ix2
  <2>10. ASSUME NEW a \in Agent
         PROVE  Lists(ix2.rows[a], {z \in DOMAIN m : m[z].agent = a}) /\ Ordered(Starts(m), ix2.rows[a])
    <3>1. CASE a = s.agent
      <4>1. {z \in DOMAIN m : m[z].agent = a} = {z \in DOMAIN ix.span : ix.span[z].agent = a} \union {x}
        BY <2>3, <3>1
      <4> QED
        BY <2>6, <2>7, <2>9, <3>1, <4>1
    <3>2. CASE a # s.agent
      <4>1. {z \in DOMAIN m : m[z].agent = a} = {z \in DOMAIN ix.span : ix.span[z].agent = a}
        BY <2>3, <3>2
      <4> QED
        BY <2>6, <2>9, <3>2, <4>1 DEF Lists
    <3> QED
      BY <3>1, <3>2
  <2>11. GoodSpans(ix2)
    <3>1. ASSUME NEW z \in DOMAIN m
          PROVE  /\ m[z].start <= m[z].end /\ Extent(m[z]) <= Widen(ix, s)
                 /\ \A f \in Spanned : f.id = z[1] => m[z].start <= f.at
      <4>1. CASE z = x
        <5>1. s.start <= s.end
          <6>1. s.start <= Forever
            BY StoreBounds DEF Shape
          <6> QED
            BY <6>1
        <5> QED
          BY <2>3, <2>8, <4>1, <5>1
      <4>2. CASE z # x
        <5>1. z \in DOMAIN ix.span /\ m[z] = ix.span[z]
          BY <2>3, <4>2
        <5>2. /\ ix.span[z].start <= ix.span[z].end /\ Extent(ix.span[z]) <= ix.maxEnd
              /\ \A f \in Spanned : f.id = z[1] => ix.span[z].start <= f.at
          BY <5>1 DEF GoodIndexes, GoodSpans
        <5>3. Extent(ix.span[z]) \in Nat /\ ix.maxEnd \in Nat
          BY <2>2, <5>1, WidenTyped, IndexFacts
        <5> QED
          BY <2>8, <5>1, <5>2, <5>3
      <4> QED
        BY <4>1, <4>2
    <3> QED
      BY <2>9, <3>1 DEF GoodSpans
  <2>12. ix2 \in GoodIndexes
    BY <2>9, <2>10, <2>11 DEF GoodIndexes, GoodIndex
  <2>13. EndPut(ix.span, m, x, s.end)
    BY <2>3 DEF EndPut
  <2> QED
    BY <2>1, <2>9, <2>12, <2>13
<1> QED
  BY <1>1, <1>2

LEMMA ReassignGood ==
  ASSUME NEW ix \in GoodIndexes, NEW from \in Agent, NEW to \in Agent, from # to
  PROVE  /\ ReassignAgent(ix, from, to) \in GoodIndexes
         /\ ReassignAgent(ix, from, to).rows[from] = <<>>
         /\ SameEnds(ix.span, ReassignAgent(ix, from, to).span)
<1> DEFINE m == [x \in DOMAIN ix.span |-> IF ix.span[x].agent = from THEN [ix.span[x] EXCEPT !.agent = to] ELSE ix.span[x]]
           row == InsertAll(Starts(ix.span), ix.rows[to], ix.rows[from])
           listed == [ix.rows EXCEPT ![from] = <<>>, ![to] = row]
           ix2 == ReassignAgent(ix, from, to)
<1>1. /\ ix \in Indexes /\ ix.span \in SpanMaps /\ ix.span \in [DOMAIN ix.span -> Shape]
      /\ DOMAIN ix.span \subseteq SpanName /\ ix.rows \in [Agent -> Seq(SpanName)]
  BY IndexFacts, SpanMapFacts DEF GoodIndexes
<1>2. ASSUME NEW x \in DOMAIN ix.span
      PROVE  /\ m[x] \in Shape /\ m[x].start = ix.span[x].start /\ m[x].end = ix.span[x].end
             /\ m[x].agent = IF ix.span[x].agent = from THEN to ELSE ix.span[x].agent
  <2>1. ix.span[x] \in Shape
    BY <1>1
  <2>2. /\ [ix.span[x] EXCEPT !.agent = to] \in Shape
        /\ [ix.span[x] EXCEPT !.agent = to].start = ix.span[x].start
        /\ [ix.span[x] EXCEPT !.agent = to].end = ix.span[x].end
        /\ [ix.span[x] EXCEPT !.agent = to].agent = to
    BY <2>1 DEF Shape
  <2> QED
    BY <2>1, <2>2
<1>3. DOMAIN m = DOMAIN ix.span /\ m \in SpanMaps
  <2>1. DOMAIN m = DOMAIN ix.span
    OBVIOUS
  <2>2. m \in [DOMAIN ix.span -> Shape]
    BY <1>2
  <2> HIDE DEF m
  <2> QED
    BY <1>1, <2>1, <2>2 DEF SpanMaps
<1>4. ix2 = [ix EXCEPT !.span = m, !.rows = listed]
  BY DEF ReassignAgent
<1> HIDE DEF m
<1>5. /\ row \in Seq(DOMAIN ix.span) /\ Lists(row, Range(ix.rows[to]) \union Range(ix.rows[from]))
      /\ Ordered(Starts(ix.span), row)
  <2>1. \A a \in {from, to} : /\ ix.rows[a] \in Seq(DOMAIN ix.span) /\ IsInjective(ix.rows[a]) /\ Ordered(Starts(ix.span), ix.rows[a])
                            /\ Range(ix.rows[a]) = {x \in DOMAIN ix.span : ix.span[x].agent = a}
    BY RowsListed
  <2>2. Range(ix.rows[to]) \intersect Range(ix.rows[from]) = {}
    BY <2>1
  <2>3. Starts(ix.span) \in [DOMAIN ix.span -> Nat]
    BY <1>1, StartsFacts
  <2> QED
    BY <2>1, <2>2, <2>3, InsertAllFacts
<1>6. row \in Seq(SpanName)
  <2> HIDE DEF row
  <2> QED
    BY <1>1, <1>5, SeqMonotonic
<1> HIDE DEF row
<1>7. /\ listed \in [Agent -> Seq(SpanName)] /\ listed[from] = <<>> /\ listed[to] = row
      /\ \A a \in Agent : a # from /\ a # to => listed[a] = ix.rows[a]
  <2>1. <<>> \in Seq(SpanName)
    OBVIOUS
  <2> QED
    BY <1>1, <1>6, <2>1
<1> HIDE DEF listed, ix2
<1>8. ix2 \in Indexes /\ ix2.span = m /\ ix2.rows = listed /\ ix2.maxEnd = ix.maxEnd
  BY <1>1, <1>3, <1>4, <1>7 DEF Indexes
<1>9. Starts(m) = Starts(ix.span)
  BY <1>2, <1>3 DEF Starts
<1>10. ASSUME NEW a \in Agent
       PROVE  Lists(listed[a], {x \in DOMAIN m : m[x].agent = a}) /\ Ordered(Starts(m), listed[a])
  <2> DEFINE mine == {x \in DOMAIN m : m[x].agent = a}
             theirs(b) == {x \in DOMAIN ix.span : ix.span[x].agent = b}
  <2>1. \A b \in Agent : Lists(ix.rows[b], theirs(b)) /\ Ordered(Starts(ix.span), ix.rows[b])
    BY DEF GoodIndexes, GoodIndex
  <2>2. CASE a = from
    <3>1. mine = {}
      BY <1>2, <1>3, <2>2
    <3>2. Range(<<>>) = {} /\ IsInjective(<<>>) /\ Ordered(Starts(m), <<>>)
      BY DEF Range, IsInjective, Ordered
    <3> QED
      BY <1>7, <2>2, <3>1, <3>2 DEF Lists
  <2>3. CASE a = to
    <3>1. mine = theirs(to) \union theirs(from)
      BY <1>2, <1>3, <2>3
    <3>2. Range(ix.rows[to]) = theirs(to) /\ Range(ix.rows[from]) = theirs(from)
      BY <2>1 DEF Lists
    <3> HIDE DEF mine, theirs
    <3> QED
      BY <1>5, <1>7, <1>9, <2>3, <3>1, <3>2 DEF mine
  <2>4. CASE a # from /\ a # to
    <3>1. mine = theirs(a)
      BY <1>2, <1>3, <2>4
    <3> QED
      BY <1>7, <1>9, <2>1, <2>4, <3>1
  <2> QED
    BY <2>2, <2>3, <2>4
<1>11. SameEnds(ix.span, m)
  BY <1>2, <1>3 DEF SameEnds
<1>12. GoodSpans(ix2)
  <2>1. \A x \in DOMAIN m : Extent(m[x]) = Extent(ix.span[x])
    BY <1>2, <1>3 DEF Extent
  <2> QED
    BY <1>2, <1>3, <1>8, <2>1 DEF GoodSpans, GoodIndexes
<1>13. ix2 \in GoodIndexes
  BY <1>8, <1>10, <1>12 DEF GoodIndexes, GoodIndex
<1> QED
  BY <1>7, <1>8, <1>11, <1>13 DEF ix2

-----------------------------------------------------------------------------
(* packLanes changes nothing but lanes.                                    *)
LaneFor(ix, ends, x) ==
  LET free == FreeLanes(ends, ix.span[x].start)
  IN  IF free = {} THEN Len(ends) + 1 ELSE CHOOSE i \in free : \A j \in free : i <= j
PackOne(ix, acc, x) ==
  LET lane == LaneFor(ix, acc.ends, x)
  IN  [ends |-> IF lane > Len(acc.ends) THEN Append(acc.ends, ix.span[x].end)
                ELSE [acc.ends EXCEPT ![lane] = ix.span[x].end],
       span |-> [acc.span EXCEPT ![x].lane = lane]]
PackOrder(ix, a) ==
  SortBy([x \in DOMAIN ix.span |-> ix.span[x].start * (Forever + 1) + ix.span[x].end], ix.rows[a])
Unpacked(ix) == [ends |-> <<>>, span |-> ix.span]

Packings(ix) == [ends : Seq(Nat), span : {m \in SpanMaps : SamePlaces(ix.span, m) /\ SameEnds(ix.span, m)}]
PackSolves(g, ix, xs, n) ==
  g = [s \in SUBSET (1 .. n) |-> IF s = {} THEN Unpacked(ix) ELSE PackOne(ix, g[s \ {Max(s)}], xs[Max(s)])]

LEMMA LaneTyped ==
  ASSUME NEW ix, NEW ends \in Seq(Nat), NEW x
  PROVE  LaneFor(ix, ends, x) \in 1 .. Len(ends) + 1
<1> DEFINE free == FreeLanes(ends, ix.span[x].start)
<1>1. Len(ends) \in Nat /\ free \subseteq 1 .. Len(ends)
  BY SeqFacts DEF FreeLanes
<1> HIDE DEF free
<1>2. CASE free = {}
  BY <1>1, <1>2 DEF LaneFor, free
<1>3. CASE free # {}
  <2>1. PICK i \in free : \A j \in free : i <= j
    BY <1>1, <1>3, LeastNumber
  <2>2. LaneFor(ix, ends, x) = CHOOSE k \in free : \A j \in free : k <= j
    BY <1>3 DEF LaneFor, free
  <2>3. LaneFor(ix, ends, x) \in free
    BY <2>1, <2>2
  <2> HIDE DEF free
  <2>4. LaneFor(ix, ends, x) \in 1 .. Len(ends)
    BY <1>1, <2>3
  <2> QED
    BY <1>1, <2>4
<1> QED
  BY <1>2, <1>3

LEMMA PackOneTyped ==
  ASSUME NEW ix \in Indexes, NEW acc \in Packings(ix), NEW x \in DOMAIN ix.span
  PROVE  PackOne(ix, acc, x) \in Packings(ix)
<1> DEFINE lane == LaneFor(ix, acc.ends, x)
           ends == IF lane > Len(acc.ends) THEN Append(acc.ends, ix.span[x].end)
                   ELSE [acc.ends EXCEPT ![lane] = ix.span[x].end]
           s == [acc.span[x] EXCEPT !.lane = lane]
           m == [acc.span EXCEPT ![x].lane = lane]
<1>1. acc.ends \in Seq(Nat) /\ acc.span \in SpanMaps /\ SamePlaces(ix.span, acc.span) /\ SameEnds(ix.span, acc.span)
  BY DEF Packings
<1>2. lane \in 1 .. Len(acc.ends) + 1 /\ Len(acc.ends) \in Nat
  BY <1>1, LaneTyped
<1> HIDE DEF lane
<1>3. ix.span[x] \in Shape /\ ix.span[x].end \in Nat
  BY IndexFacts, SpanMapFacts, ShapeFacts
<1>4. ends \in Seq(Nat)
  BY <1>1, <1>2, <1>3
<1>5. x \in DOMAIN acc.span /\ acc.span \in [DOMAIN acc.span -> Shape] /\ DOMAIN acc.span \subseteq SpanName
  BY <1>1, SpanMapFacts DEF SamePlaces
<1>6. s \in Shape /\ s.agent = acc.span[x].agent /\ s.start = acc.span[x].start /\ s.end = acc.span[x].end
  BY <1>2, <1>5 DEF Shape
<1>7. m = [acc.span EXCEPT ![x] = s]
  OBVIOUS
<1> HIDE DEF s
<1>8. m \in [DOMAIN acc.span -> Shape] /\ SamePlaces(ix.span, m) /\ SameEnds(ix.span, m)
  BY <1>1, <1>5, <1>6, <1>7 DEF SamePlaces, SameEnds
<1>9. m \in SpanMaps
  BY <1>5, <1>8 DEF SpanMaps
<1>10. PackOne(ix, acc, x) = [ends |-> ends, span |-> m]
  BY DEF PackOne, lane
<1> HIDE DEF ends, m
<1> QED
  BY <1>4, <1>8, <1>9, <1>10 DEF Packings

LEMMA PackIsFold ==
  ASSUME NEW ix, NEW a, NEW n, DOMAIN PackOrder(ix, a) = 1 .. n
  PROVE  PackLanes(ix, a) = [ix EXCEPT !.span = (CHOOSE g : PackSolves(g, ix, PackOrder(ix, a), n))[1 .. n].span]
BY DEF PackLanes, PackOrder, FoldLeft, MapThenFoldSet, PackSolves, PackOne, LaneFor, Unpacked

LEMMA SortByFacts ==
  ASSUME NEW X, NEW key, NEW list \in Seq(X), IsInjective(list)
  PROVE  SortBy(key, list) \in Seq(X) /\ Lists(SortBy(key, list), Range(list))
<1>1. <<>> \in Seq(X) /\ IsInjective(<<>>) /\ Range(<<>>) = {}
  BY DEF Range, IsInjective
<1>2. /\ InsertAll(key, <<>>, list) \in Seq(X)
      /\ Lists(InsertAll(key, <<>>, list), Range(<<>>) \union Range(list))
  BY <1>1, InsertAllFacts
<1> QED
  BY <1>1, <1>2 DEF SortBy

(* The packing, one span after the other: from r[0], where none is laid.   *)
LEMMA PackRuns ==
  ASSUME NEW ix \in GoodIndexes, NEW a \in Agent
  PROVE  LET xs == PackOrder(ix, a) IN
         /\ xs \in Seq(DOMAIN ix.span) /\ Lists(xs, Range(ix.rows[a]))
         /\ \E r \in [0 .. Len(xs) -> Packings(ix)] :
              /\ r[0] = Unpacked(ix) /\ PackLanes(ix, a) = [ix EXCEPT !.span = r[Len(xs)].span]
              /\ \A k \in 1 .. Len(xs) : r[k] = PackOne(ix, r[k - 1], xs[k])
<1> DEFINE xs == PackOrder(ix, a)
           n == Len(xs)
           F == [k \in 1 .. n |-> [acc \in Packings(ix) |-> PackOne(ix, acc, xs[k])]]
           g == CHOOSE g : PackSolves(g, ix, xs, n)
           r == [k \in 0 .. n |-> g[1 .. k]]
           A == [k \in 0 .. n |-> Packings(ix)]
<1>1. ix \in Indexes /\ ix.span \in SpanMaps
  BY IndexFacts DEF GoodIndexes
<1>2. xs \in Seq(DOMAIN ix.span) /\ Lists(xs, Range(ix.rows[a]))
  BY RowsListed, SortByFacts DEF PackOrder
<1>3. n \in Nat /\ DOMAIN xs = 1 .. n /\ \A k \in 1 .. n : xs[k] \in DOMAIN ix.span
  BY <1>2, SeqFacts
<1>4. PackLanes(ix, a) = [ix EXCEPT !.span = g[1 .. n].span]
  BY <1>3, PackIsFold
<1> HIDE DEF n, xs
<1>5. Unpacked(ix) \in Packings(ix)
  BY <1>1 DEF Unpacked, Packings, SamePlaces, SameEnds
<1>6. \E f : PackSolves(f, ix, xs, n)
  <2>1. \A k \in 1 .. n, acc \in Packings(ix) : F[k][acc] = PackOne(ix, acc, xs[k]) /\ F[k][acc] \in Packings(ix)
    BY <1>1, <1>3, PackOneTyped
  <2>2. F \in [1 .. n -> [Packings(ix) -> Packings(ix)]]
    BY <2>1
  <2> HIDE DEF F
  <2>3. PICK f \in [SUBSET (1 .. n) -> Packings(ix)] : Folded(f, Unpacked(ix), F, n)
    BY <1>3, <1>5, <2>2, FoldFunctionExists
  <2>4. ASSUME NEW s \in SUBSET (1 .. n)
        PROVE  f[s] = IF s = {} THEN Unpacked(ix) ELSE PackOne(ix, f[s \ {Max(s)}], xs[Max(s)])
    <3>1. s \ {Max(s)} \in SUBSET (1 .. n) /\ (s # {} => Max(s) \in 1 .. n)
      BY <1>3, FoldSets
    <3>2. f[s \ {Max(s)}] \in Packings(ix)
      BY <3>1
    <3> QED
      BY <2>1, <2>3, <3>1, <3>2 DEF Folded
  <2>5. f = [s \in SUBSET (1 .. n) |-> f[s]]
    OBVIOUS
  <2>6. PackSolves(f, ix, xs, n)
    BY <2>4, <2>5 DEF PackSolves
  <2> QED
    BY <2>6
<1>7. PackSolves(g, ix, xs, n)
  BY <1>6
<1> HIDE DEF g
<1>8. \A s \in SUBSET (1 .. n) : g[s] = IF s = {} THEN Unpacked(ix) ELSE PackOne(ix, g[s \ {Max(s)}], xs[Max(s)])
  BY <1>7 DEF PackSolves
<1>9. r[0] \in A[0] /\ r[0] = Unpacked(ix)
  <2>1. 1 .. 0 = {} /\ {} \in SUBSET (1 .. n)
    OBVIOUS
  <2>2. r[0] = g[1 .. 0] /\ A[0] = Packings(ix)
    BY <1>3
  <2> HIDE DEF r, A
  <2>3. g[{}] = Unpacked(ix)
    BY <1>8, <2>1
  <2> QED
    BY <1>5, <2>1, <2>2, <2>3
<1>10. ASSUME NEW k \in 1 .. n PROVE r[k] = PackOne(ix, r[k - 1], xs[k])
  <2>1. 1 .. k \in SUBSET (1 .. n) /\ 1 .. k # {} /\ Max(1 .. k) = k /\ (1 .. k) \ {k} = 1 .. (k - 1)
    BY <1>3, FoldSets
  <2>2. r[k] = g[1 .. k] /\ r[k - 1] = g[1 .. (k - 1)]
    BY <1>3
  <2> HIDE DEF r
  <2> QED
    BY <1>8, <2>1, <2>2
<1>11. r \in [0 .. n -> Packings(ix)]
  <2>1. \A k \in 0 .. n : A[k] = Packings(ix)
    OBVIOUS
  <2>2. r = [k \in 0 .. n |-> r[k]] /\ \A k \in 1 .. n : k \in 0 .. n /\ k - 1 \in 0 .. n
    BY <1>3
  <2> HIDE DEF r, A
  <2>3. ASSUME NEW k \in 1 .. n, r[k - 1] \in A[k - 1] PROVE r[k] \in A[k]
    <3>1. k \in 0 .. n /\ r[k - 1] \in Packings(ix) /\ xs[k] \in DOMAIN ix.span
      BY <1>3, <2>1, <2>2, <2>3
    <3>2. PackOne(ix, r[k - 1], xs[k]) \in Packings(ix)
      BY <1>1, <3>1, PackOneTyped
    <3> QED
      BY <1>10, <2>1, <3>1, <3>2
  <2>4. \A k \in 0 .. n : r[k] \in A[k]
    BY <1>3, <1>9, <2>3, StepsReach
  <2> QED
    BY <2>1, <2>2, <2>4
<1>12. r[n] = g[1 .. n]
  BY <1>3
<1> HIDE DEF r, A
<1> QED
  BY <1>2, <1>4, <1>9, <1>10, <1>11, <1>12 DEF n, xs

LEMMA PackGood ==
  ASSUME NEW ix \in GoodIndexes, NEW a \in Agent
  PROVE  /\ PackLanes(ix, a) \in GoodIndexes /\ PackLanes(ix, a).rows = ix.rows
         /\ SameEnds(ix.span, PackLanes(ix, a).span)
<1> DEFINE xs == PackOrder(ix, a)
           ix2 == PackLanes(ix, a)
<1>1. ix \in Indexes /\ Len(xs) \in Nat
  <2>1. xs \in Seq(DOMAIN ix.span)
    BY PackRuns
  <2> QED
    BY <2>1, SeqFacts DEF GoodIndexes
<1>2. PICK r \in [0 .. Len(xs) -> Packings(ix)] : ix2 = [ix EXCEPT !.span = r[Len(xs)].span]
  BY PackRuns
<1> DEFINE m == r[Len(xs)].span
<1>3. m \in SpanMaps /\ SamePlaces(ix.span, m) /\ SameEnds(ix.span, m)
  <2>1. Len(xs) \in 0 .. Len(xs)
    BY <1>1
  <2> QED
    BY <1>2, <2>1 DEF Packings
<1> HIDE DEF m, ix2
<1>4. ix2 \in Indexes /\ ix2.rows = ix.rows /\ ix2.span = m /\ ix2.maxEnd = ix.maxEnd
  BY <1>1, <1>2, <1>3 DEF Indexes, m
<1>5. GoodSpans(ix2)
  <2>1. \A x \in DOMAIN ix.span : Extent(ix2.span[x]) = Extent(ix.span[x])
    BY <1>3, <1>4 DEF SamePlaces, SameEnds, Extent
  <2> QED
    BY <1>3, <1>4, <2>1 DEF SamePlaces, SameEnds, GoodSpans, GoodIndexes
<1>6. ix2 \in GoodIndexes
  BY <1>3, <1>4, <1>5, PlacesKept
<1> QED
  BY <1>3, <1>4, <1>6 DEF ix2

-----------------------------------------------------------------------------
(* Queries.  How many spans of the row start before the window; which of   *)
(* the row's are wanted, in the order in which they are visited.           *)
Before(ix, a, t0) == {i \in DOMAIN ix.rows[a] : ix.span[ix.rows[a][i]].start < t0}
WantedAt(ix, a, t0, t1, i) ==
  LET row == ix.rows[a]
      At(k) == ix.span[row[k]]
      lo == Cardinality(Before(ix, a, t0))
  IN  i \in DOMAIN row /\ At(i).start < t1
      /\ (i > lo \/ ((i = lo \/ At(i + 1).start + Budget >= t0) /\ At(i).end >= t0))
QueryOrder(ix, a, t0) ==
  LET lo == Cardinality(Before(ix, a, t0))
  IN  Backwards(lo) \o [k \in 1 .. (Len(ix.rows[a]) - lo) |-> lo + k]
QueryOne(ix, a, t0, t1, out, i) == IF WantedAt(ix, a, t0, t1, i) THEN Append(out, ix.rows[a][i]) ELSE out
QuerySolves(g, ix, a, t0, t1, xs, n) ==
  g = [s \in SUBSET (1 .. n) |-> IF s = {} THEN <<>> ELSE QueryOne(ix, a, t0, t1, g[s \ {Max(s)}], xs[Max(s)])]

LEMMA QueryIsFold ==
  ASSUME NEW ix, NEW a, NEW t0, NEW t1, NEW n, DOMAIN QueryOrder(ix, a, t0) = 1 .. n
  PROVE  QueryAgent(ix, a, t0, t1) = (CHOOSE g : QuerySolves(g, ix, a, t0, t1, QueryOrder(ix, a, t0), n))[1 .. n]
BY DEF QueryAgent, QueryOrder, Before, FoldLeft, MapThenFoldSet, QuerySolves, QueryOne, WantedAt

LEMMA BeforeFacts ==
  ASSUME NEW ix \in GoodIndexes, NEW a \in Agent, NEW t0 \in Nat
  PROVE  /\ DOMAIN ix.rows[a] = 1 .. Len(ix.rows[a]) /\ Len(ix.rows[a]) \in Nat
         /\ \A i \in DOMAIN ix.rows[a] : ix.rows[a][i] \in DOMAIN ix.span /\ ix.span[ix.rows[a][i]] \in Shape
         /\ \A i, j \in DOMAIN ix.rows[a] : i < j => ix.span[ix.rows[a][i]].start <= ix.span[ix.rows[a][j]].start
         /\ Cardinality(Before(ix, a, t0)) \in 0 .. Len(ix.rows[a])
         /\ \A i \in DOMAIN ix.rows[a] :
              i <= Cardinality(Before(ix, a, t0)) <=> ix.span[ix.rows[a][i]].start < t0
<1> DEFINE row == ix.rows[a]
           P == Before(ix, a, t0)
<1>1. /\ row \in Seq(DOMAIN ix.span) /\ Ordered(Starts(ix.span), row)
      /\ ix \in Indexes /\ ix.span \in SpanMaps
  BY RowsListed, IndexFacts DEF GoodIndexes
<1>2. DOMAIN row = 1 .. Len(row) /\ Len(row) \in Nat /\ \A i \in DOMAIN row : row[i] \in DOMAIN ix.span
  BY <1>1, SeqFacts
<1>3. \A i \in DOMAIN row : ix.span[row[i]] \in Shape /\ ix.span[row[i]].start \in Nat
  BY <1>1, <1>2, SpanMapFacts, ShapeFacts
<1>4. \A i \in DOMAIN row : Starts(ix.span)[row[i]] = ix.span[row[i]].start
  BY <1>1, <1>2, StartsFacts
<1>5. \A i, j \in DOMAIN row : i < j => ix.span[row[i]].start <= ix.span[row[j]].start
  BY <1>1, <1>4 DEF Ordered
<1>6. \A i \in 1 .. Len(row) : i \in P <=> ix.span[row[i]].start < t0
  BY <1>2 DEF Before
<1>7. P \in SUBSET (1 .. Len(row))
  BY <1>2 DEF Before
<1> HIDE DEF P
<1>8. ASSUME NEW i \in P, NEW j \in 1 .. Len(row), j < i PROVE j \in P
  <2>1. ix.span[row[j]].start <= ix.span[row[i]].start /\ ix.span[row[i]].start < t0
    BY <1>2, <1>5, <1>6, <1>7, <1>8
  <2>2. ix.span[row[j]].start \in Nat /\ ix.span[row[i]].start \in Nat
    BY <1>2, <1>3, <1>7, <1>8
  <2>3. \A b, c, d \in Nat : b <= c /\ c < d => b < d
    OBVIOUS
  <2>4. ix.span[row[j]].start < t0
    BY <2>1, <2>2, <2>3
  <2> QED
    BY <1>6, <2>4
<1>9. P = 1 .. Cardinality(P) /\ Cardinality(P) \in 0 .. Len(row)
  BY <1>2, <1>7, <1>8, PrefixCounted
<1>10. \A i \in 1 .. Len(row) : i <= Cardinality(P) <=> i \in P
  BY <1>9
<1> QED
  BY <1>2, <1>3, <1>5, <1>6, <1>9, <1>10 DEF P

(* Each position of the row is visited once.                               *)
LEMMA QueryOrderFacts ==
  ASSUME NEW ix \in GoodIndexes, NEW a \in Agent, NEW t0 \in Nat
  PROVE  LET xs == QueryOrder(ix, a, t0)
             n == Len(ix.rows[a])
         IN  DOMAIN xs = 1 .. n /\ xs \in [1 .. n -> 1 .. n] /\ IsInjective(xs) /\ Range(xs) = 1 .. n
<1> DEFINE lo == Cardinality(Before(ix, a, t0))
           n == Len(ix.rows[a])
           back == Backwards(lo)
           fwd == [k \in 1 .. (n - lo) |-> lo + k]
           xs == QueryOrder(ix, a, t0)
<1>1. lo \in 0 .. n /\ n \in Nat
  BY BeforeFacts
<1>2. xs = back \o fwd
  BY DEF QueryOrder
<1> HIDE DEF lo, n, xs
<1>3. /\ back \in Seq(Nat) /\ Len(back) = lo /\ \A i \in 1 .. lo : back[i] = lo + 1 - i
  <2>1. back = [k \in 1 .. lo |-> lo + 1 - k]
    BY DEF Backwards
  <2>2. \A k \in 1 .. lo : lo + 1 - k \in Nat
    BY <1>1
  <2>3. lo \in Nat
    BY <1>1
  <2> HIDE DEF back
  <2> QED
    BY <2>1, <2>2, <2>3
<1>4. /\ fwd \in Seq(Nat) /\ Len(fwd) = n - lo /\ \A i \in 1 .. (n - lo) : fwd[i] = lo + i
  <2>1. n - lo \in Nat /\ \A k \in 1 .. (n - lo) : lo + k \in Nat
    BY <1>1
  <2> QED
    BY <2>1
<1> HIDE DEF back, fwd
<1>5. /\ xs \in Seq(Nat) /\ Len(xs) = lo + (n - lo)
      /\ \A i \in 1 .. lo + (n - lo) : xs[i] = IF i <= lo THEN back[i] ELSE fwd[i - lo]
  <2>1. /\ back \o fwd \in Seq(Nat) /\ Len(back \o fwd) = Len(back) + Len(fwd)
        /\ \A i \in 1 .. Len(back) + Len(fwd) : (back \o fwd)[i] = IF i <= Len(back) THEN back[i] ELSE fwd[i - Len(back)]
    BY <1>3, <1>4, ConcatProperties
  <2>2. Len(back) = lo /\ Len(fwd) = n - lo
    BY <1>3, <1>4
  <2> QED
    BY <1>2, <2>1, <2>2
<1>6. lo + (n - lo) = n /\ DOMAIN xs = 1 .. n /\ xs = [i \in 1 .. n |-> xs[i]]
  BY <1>1, <1>5
<1>7. ASSUME NEW i \in 1 .. n PROVE xs[i] = IF i <= lo THEN lo + 1 - i ELSE i
  <2>1. CASE i <= lo
    <3>1. i \in 1 .. lo
      BY <1>1, <2>1
    <3> QED
      BY <1>3, <1>5, <1>6, <2>1, <3>1
  <2>2. CASE ~(i <= lo)
    <3>1. i - lo \in 1 .. (n - lo) /\ lo + (i - lo) = i
      BY <1>1, <2>2
    <3> QED
      BY <1>4, <1>5, <1>6, <2>2, <3>1
  <2> QED
    BY <2>1, <2>2
<1>8. \A i \in 1 .. n : xs[i] \in 1 .. n
  BY <1>1, <1>7
<1>9. \A i, j \in 1 .. n : xs[i] = xs[j] => i = j
  BY <1>1, <1>7
<1>10. ASSUME NEW i \in 1 .. n PROVE \E j \in 1 .. n : xs[j] = i
  <2>1. CASE i <= lo
    <3>1. lo + 1 - i \in 1 .. n /\ lo + 1 - i <= lo /\ lo + 1 - (lo + 1 - i) = i
      BY <1>1, <2>1
    <3> QED
      BY <1>7, <3>1
  <2>2. CASE ~(i <= lo)
    BY <1>7, <2>2
  <2> QED
    BY <2>1, <2>2
<1>11. IsInjective(xs)
  BY <1>6, <1>9 DEF IsInjective
<1>12. Range(xs) = 1 .. n
  BY <1>6, <1>8, <1>10 DEF Range
<1>13. xs \in [1 .. n -> 1 .. n]
  BY <1>6, <1>8
<1> QED
  BY <1>6, <1>11, <1>12, <1>13 DEF xs, n

(* The answer lists what is wanted, each span once.                        *)
LEMMA QueryFacts ==
  ASSUME NEW ix \in GoodIndexes, NEW a \in Agent, NEW t0 \in Nat, NEW t1 \in Nat
  PROVE  Lists(QueryAgent(ix, a, t0, t1), {ix.rows[a][i] : i \in {i \in DOMAIN ix.rows[a] : WantedAt(ix, a, t0, t1, i)}})
<1> DEFINE row == ix.rows[a]
           n == Len(row)
           xs == QueryOrder(ix, a, t0)
           X == DOMAIN ix.span
           W == {i \in DOMAIN row : WantedAt(ix, a, t0, t1, i)}
           F == [k \in 1 .. n |-> [out \in Seq(X) |-> QueryOne(ix, a, t0, t1, out, xs[k])]]
           g == CHOOSE g : QuerySolves(g, ix, a, t0, t1, xs, n)
<1>1. DOMAIN row = 1 .. n /\ n \in Nat /\ \A i \in 1 .. n : row[i] \in X
  BY BeforeFacts
<1>2. DOMAIN xs = 1 .. n /\ xs \in [1 .. n -> 1 .. n] /\ IsInjective(xs) /\ Range(xs) = 1 .. n
  BY QueryOrderFacts
<1>3. QueryAgent(ix, a, t0, t1) = g[1 .. n]
  BY <1>2, QueryIsFold
<1>4. \A i, j \in 1 .. n : row[i] = row[j] => i = j
  BY <1>1, RowsListed DEF IsInjective
<1> HIDE DEF n, xs, X
<1>5. \A i \in 1 .. n : \A out : QueryOne(ix, a, t0, t1, out, i) = IF i \in W THEN Append(out, row[i]) ELSE out
  BY <1>1 DEF QueryOne
<1>6. W \subseteq 1 .. n
  BY <1>1
<1> HIDE DEF W
<1>7. ASSUME NEW k \in 1 .. n, NEW out \in Seq(X) PROVE QueryOne(ix, a, t0, t1, out, xs[k]) \in Seq(X)
  <2>1. xs[k] \in 1 .. n /\ row[xs[k]] \in X
    BY <1>1, <1>2
  <2>2. Append(out, row[xs[k]]) \in Seq(X)
    BY <2>1, AppendProperties
  <2> QED
    BY <1>5, <2>1, <2>2
<1>8. QuerySolves(g, ix, a, t0, t1, xs, n)
  <2>1. \A k \in 1 .. n, out \in Seq(X) : F[k][out] = QueryOne(ix, a, t0, t1, out, xs[k]) /\ F[k][out] \in Seq(X)
    BY <1>7
  <2>2. F \in [1 .. n -> [Seq(X) -> Seq(X)]]
    BY <2>1
  <2> HIDE DEF F, g
  <2>3. <<>> \in Seq(X)
    OBVIOUS
  <2>4. PICK f \in [SUBSET (1 .. n) -> Seq(X)] : Folded(f, <<>>, F, n)
    BY <1>1, <2>2, <2>3, FoldFunctionExists
  <2>5. ASSUME NEW s \in SUBSET (1 .. n)
        PROVE  f[s] = IF s = {} THEN <<>> ELSE QueryOne(ix, a, t0, t1, f[s \ {Max(s)}], xs[Max(s)])
    <3>1. s \ {Max(s)} \in SUBSET (1 .. n) /\ (s # {} => Max(s) \in 1 .. n)
      BY <1>1, FoldSets
    <3>2. f[s \ {Max(s)}] \in Seq(X)
      BY <3>1
    <3> QED
      BY <2>1, <2>4, <3>1, <3>2 DEF Folded
  <2>6. f = [s \in SUBSET (1 .. n) |-> f[s]]
    OBVIOUS
  <2>7. QuerySolves(f, ix, a, t0, t1, xs, n)
    BY <2>5, <2>6 DEF QuerySolves
  <2> QED
    BY <2>7 DEF g
<1> HIDE DEF g, F
<1>9. \A s \in SUBSET (1 .. n) : g[s] = IF s = {} THEN <<>> ELSE QueryOne(ix, a, t0, t1, g[s \ {Max(s)}], xs[Max(s)])
  BY <1>8 DEF QuerySolves
<1> DEFINE seen(k) == {row[xs[j]] : j \in {j \in 1 .. k : xs[j] \in W}}
           r == [k \in 0 .. n |-> g[1 .. k]]
           A == [k \in 0 .. n |-> {out \in Seq(X) : Lists(out, seen(k))}]
<1>10. \A k \in 0 .. n : r[k] = g[1 .. k] /\ A[k] = {out \in Seq(X) : Lists(out, seen(k))}
  OBVIOUS
<1>11. 0 \in 0 .. n /\ n \in 0 .. n /\ \A k \in 1 .. n : k \in 0 .. n /\ k - 1 \in 0 .. n
  BY <1>1
<1>12. seen(0) = {}
  OBVIOUS
<1>13. ASSUME NEW k \in 1 .. n
       PROVE  seen(k) = IF xs[k] \in W THEN seen(k - 1) \union {row[xs[k]]} ELSE seen(k - 1)
  <2>1. 1 .. k = (1 .. (k - 1)) \union {k}
    BY <1>1
  <2> QED
    BY <2>1
<1>14. ASSUME NEW k \in 1 .. n PROVE row[xs[k]] \notin seen(k - 1)
  <2> SUFFICES ASSUME NEW j \in 1 .. (k - 1), row[xs[j]] = row[xs[k]] PROVE FALSE
    OBVIOUS
  <2>1. j \in 1 .. n /\ k \in 1 .. n /\ j # k
    BY <1>1
  <2>2. xs[j] = xs[k]
    BY <1>2, <1>4, <2>1
  <2> QED
    BY <1>2, <2>1, <2>2 DEF IsInjective
<1>15. seen(n) = {row[i] : i \in W}
  <2>1. \A i \in W : \E j \in 1 .. n : xs[j] = i
    BY <1>2, <1>6 DEF Range
  <2> QED
    BY <2>1
<1> HIDE DEF seen, r, A
<1>16. \A k \in 0 .. n : r[k] \in A[k]
  <2>1. r[0] \in A[0]
    <3>1. 1 .. 0 = {} /\ {} \in SUBSET (1 .. n)
      OBVIOUS
    <3>2. r[0] = <<>>
      BY <1>9, <1>10, <1>11, <3>1
    <3>3. <<>> \in Seq(X) /\ Lists(<<>>, {})
      BY DEF Lists, IsInjective, Range
    <3> QED
      BY <1>10, <1>11, <1>12, <3>2, <3>3
  <2>2. ASSUME NEW k \in 1 .. n, r[k - 1] \in A[k - 1] PROVE r[k] \in A[k]
    <3>1. 1 .. k \in SUBSET (1 .. n) /\ 1 .. k # {} /\ Max(1 .. k) = k /\ (1 .. k) \ {k} = 1 .. (k - 1)
      BY <1>1, FoldSets
    <3>2. r[k] = QueryOne(ix, a, t0, t1, r[k - 1], xs[k])
      <4>1. r[k] = g[1 .. k] /\ r[k - 1] = g[1 .. (k - 1)]
        BY <1>10, <1>11
      <4>2. g[1 .. k] = QueryOne(ix, a, t0, t1, g[1 .. (k - 1)], xs[k])
        BY <1>9, <3>1
      <4> QED
        BY <4>1, <4>2
    <3>3. r[k - 1] \in Seq(X) /\ Lists(r[k - 1], seen(k - 1))
      BY <1>10, <1>11, <2>2
    <3>4. xs[k] \in 1 .. n /\ row[xs[k]] \in X
      BY <1>1, <1>2
    <3>5. r[k] = IF xs[k] \in W THEN Append(r[k - 1], row[xs[k]]) ELSE r[k - 1]
      BY <1>5, <3>2, <3>4
    <3>6. CASE xs[k] \in W
      <4>1. row[xs[k]] \notin Range(r[k - 1]) /\ IsInjective(r[k - 1])
        BY <1>14, <3>3 DEF Lists
      <4>2. r[k] \in Seq(X) /\ Lists(r[k], seen(k - 1) \union {row[xs[k]]})
        BY <3>3, <3>4, <3>5, <3>6, <4>1, AppendLists DEF Lists
      <4>3. Lists(r[k], seen(k))
        BY <1>13, <3>6, <4>2
      <4> QED
        BY <1>10, <1>11, <4>2, <4>3
    <3>7. CASE xs[k] \notin W
      <4>1. r[k] \in Seq(X) /\ seen(k) = seen(k - 1) /\ r[k] = r[k - 1]
        BY <1>13, <3>3, <3>5, <3>7
      <4>2. Lists(r[k], seen(k))
        BY <3>3, <4>1
      <4> QED
        BY <1>10, <1>11, <4>1, <4>2
    <3> QED
      BY <3>6, <3>7
  <2> QED
    BY <1>1, <2>1, <2>2, StepsReach
<1>17. Lists(g[1 .. n], {row[i] : i \in W})
  BY <1>10, <1>11, <1>15, <1>16
<1> QED
  BY <1>3, <1>17 DEF W

-----------------------------------------------------------------------------
(* The store: what each frame keeps.                                       *)
AgentMeta == [joined : Nat, announced : BOOLEAN]
MetaMaps == UNION {[as -> AgentMeta] : as \in SUBSET Agent}
Stores == [agents : Seq(Agent), meta : MetaMaps, index : Indexes, drifts : Seq(Label),
           delegations : Seq(Label), seen : SUBSET Label]

(* A row is listed once; an edge is remembered when it is drawn.           *)
GoodRows(st) ==
  /\ st \in Stores /\ st.index \in GoodIndexes
  /\ Lists(st.agents, DOMAIN st.meta)
  /\ IsInjective(st.delegations) /\ Range(st.delegations) = st.seen

(* The made-up row has no spans before it is there, and is gone once the   *)
(* row of the orchestrator has come.                                       *)
NoSpansUnknown(st) == ~Known(st, Legacy) => st.index.rows[Legacy] = <<>>
OneRow(st) == (\E c \in Compound : Known(st, c)) => ~Known(st, Legacy)
GoodStores == {st \in Stores : GoodRows(st) /\ NoSpansUnknown(st) /\ OneRow(st)}

LEMMA StoreFacts ==
  ASSUME NEW st \in Stores
  PROVE  /\ st.agents \in Seq(Agent) /\ st.index \in Indexes /\ st.drifts \in Seq(Label)
         /\ st.delegations \in Seq(Label) /\ st.seen \subseteq Label
         /\ st.meta \in [DOMAIN st.meta -> AgentMeta] /\ DOMAIN st.meta \subseteq Agent
<1>1. st.meta \in MetaMaps
  BY DEF Stores
<1>2. PICK as \in SUBSET Agent : st.meta \in [as -> AgentMeta]
  BY <1>1 DEF MetaMaps
<1> QED
  BY <1>2 DEF Stores

(* st2 is st with a row for a, which it may have had.                      *)
WithRow(st, st2, a) ==
  /\ GoodRows(st2) /\ DOMAIN st2.meta = DOMAIN st.meta \union {a}
  /\ \A b \in DOMAIN st.meta \ {a} : st2.meta[b] = st.meta[b]
  /\ st2.index = st.index /\ st2.drifts = st.drifts /\ st2.delegations = st.delegations

(* st2 tells of spans, agents, drifts and delegations what st tells of     *)
(* them, but for the made-up row.                                          *)
Kept(st, st2) ==
  /\ SameEnds(st.index.span, st2.index.span)
  /\ \A a \in DOMAIN st.meta \ {Legacy} : a \in DOMAIN st2.meta /\ st2.meta[a] = st.meta[a]
  /\ st2.drifts = st.drifts /\ st2.delegations = st.delegations

(* st2 has all that st has, and tells the same of what f does not tell of. *)
Named(f, x) == f \in Spanned /\ f.id = x[1]
Adds(st, st2, f) ==
  /\ DOMAIN st.index.span \subseteq DOMAIN st2.index.span
  /\ \A x \in DOMAIN st2.index.span :
        ~Named(f, x) => x \in DOMAIN st.index.span /\ st2.index.span[x].end = st.index.span[x].end
  /\ \A a \in DOMAIN st.meta \ {Legacy} :
        a \in DOMAIN st2.meta /\ ((f.kind = "agent" /\ f.agent = a) \/ st2.meta[a] = st.meta[a])
  /\ Range(st.drifts) \subseteq Range(st2.drifts) /\ Range(st.delegations) \subseteq Range(st2.delegations)

(* The store shows what f tells; of an agent, what one of the frames tells. *)
Shows(st, frames, f) ==
  /\ f.kind \in {"agent", "plan"} => Known(st, f.agent)
  /\ f.kind = "agent" => \E g \in frames : TellsOf(g, f.agent, st.meta[f.agent])
  /\ f.kind \in {"start", "cancel"} => SpanId(f) \in DOMAIN st.index.span
  /\ f.kind = "drift" => f.id \in Range(st.drifts) /\ \E x \in DOMAIN st.index.span : x[1] = f.id
  /\ f.kind = "delegation" => f.id \in Range(st.delegations)

LEMMA AddAgentGood ==
  ASSUME NEW st, GoodRows(st), NEW a \in Agent, ~Known(st, a), NEW meta \in AgentMeta
  PROVE  WithRow(st, AddAgent(st, a, meta), a) /\ AddAgent(st, a, meta).meta[a] = meta
<1> DEFINE known == Put(st.meta, a, meta)
           listed == SortBy([b \in DOMAIN known |-> known[b].joined], Append(st.agents, a))
           st2 == AddAgent(st, a, meta)
<1>1. /\ st \in Stores /\ st.agents \in Seq(Agent) /\ st.meta \in [DOMAIN st.meta -> AgentMeta] /\ DOMAIN st.meta \subseteq Agent
      /\ IsInjective(st.agents) /\ Range(st.agents) = DOMAIN st.meta
  BY StoreFacts DEF GoodRows, Lists
<1>2. /\ DOMAIN known = DOMAIN st.meta \union {a} /\ known \in MetaMaps
      /\ known[a] = meta /\ \A b \in DOMAIN st.meta : known[b] = st.meta[b]
  <2>1. /\ DOMAIN known = DOMAIN st.meta \union {a} /\ known \in [DOMAIN st.meta \union {a} -> AgentMeta]
        /\ known[a] = meta /\ \A b \in DOMAIN st.meta : known[b] = st.meta[b]
    BY <1>1 DEF Put, Known
  <2> HIDE DEF known
  <2> QED
    BY <1>1, <2>1 DEF MetaMaps
<1>3. /\ Append(st.agents, a) \in Seq(Agent) /\ IsInjective(Append(st.agents, a))
      /\ Range(Append(st.agents, a)) = DOMAIN known
  <2>1. a \notin Range(st.agents)
    BY <1>1 DEF Known
  <2> QED
    BY <1>1, <1>2, <2>1, AppendLists DEF Lists
<1>4. listed \in Seq(Agent) /\ Lists(listed, DOMAIN known)
  BY <1>3, SortByFacts
<1>5. st2 = [st EXCEPT !.meta = known, !.agents = listed]
  BY DEF AddAgent
<1> HIDE DEF known, listed, st2
<1>6. /\ st2 \in Stores /\ st2.meta = known /\ st2.agents = listed /\ st2.index = st.index
      /\ st2.delegations = st.delegations /\ st2.seen = st.seen /\ st2.drifts = st.drifts
  BY <1>1, <1>2, <1>4, <1>5 DEF Stores
<1> QED
  BY <1>2, <1>4, <1>6 DEF WithRow, GoodRows, st2

LEMMA UpsertGood ==
  ASSUME NEW st, GoodRows(st), NEW a \in Agent, NEW joined \in Nat
  PROVE  WithRow(st, UpsertAgent(st, a, joined), a) /\ UpsertAgent(st, a, joined).meta[a] = [joined |-> joined, announced |-> FALSE]
<1> DEFINE real == [joined |-> joined, announced |-> FALSE]
           st2 == [st EXCEPT !.meta[a] = real]
           meta == [st.meta EXCEPT ![a] = real]
<1>1. real \in AgentMeta
  BY DEF AgentMeta
<1> HIDE DEF real
<1>2. CASE Known(st, a)
  <2>1. UpsertAgent(st, a, joined) = st2
    BY <1>2 DEF UpsertAgent, real
  <2>2. st \in Stores /\ st.meta \in [DOMAIN st.meta -> AgentMeta] /\ DOMAIN st.meta \subseteq Agent
    BY StoreFacts DEF GoodRows
  <2>3. /\ meta \in [DOMAIN st.meta -> AgentMeta] /\ meta[a] = real
        /\ \A b \in DOMAIN st.meta \ {a} : meta[b] = st.meta[b]
    BY <1>1, <1>2, <2>2 DEF Known
  <2>4. meta \in MetaMaps
    BY <2>2, <2>3 DEF MetaMaps
  <2>5. /\ st2 \in Stores /\ st2.meta = meta /\ st2.agents = st.agents /\ st2.index = st.index
        /\ st2.delegations = st.delegations /\ st2.seen = st.seen /\ st2.drifts = st.drifts
    BY <2>2, <2>4 DEF Stores
  <2> HIDE DEF st2, meta
  <2> QED
    BY <1>2, <2>1, <2>3, <2>5 DEF WithRow, GoodRows, Known, real
<1>3. CASE ~Known(st, a)
  BY <1>1, <1>3, AddAgentGood DEF UpsertAgent, real
<1> QED
  BY <1>2, <1>3

LEMMA EnsureGood ==
  ASSUME NEW st, GoodRows(st), NEW a \in Agent
  PROVE  /\ WithRow(st, EnsureAgent(st, a), a) /\ WithRow(st, EnsureSynthetic(st, a), a)
         /\ Known(st, a) => EnsureAgent(st, a) = st /\ EnsureSynthetic(st, a) = st
<1>1. CASE Known(st, a)
  BY <1>1 DEF EnsureAgent, EnsureSynthetic, WithRow, Known
<1>2. CASE ~Known(st, a)
  <2>1. [joined |-> 0, announced |-> TRUE] \in AgentMeta
    BY DEF AgentMeta
  <2> QED
    BY <1>2, <2>1, AddAgentGood, UpsertGood DEF EnsureAgent, EnsureSynthetic
<1> QED
  BY <1>1, <1>2

LEMMA RemoveAtFacts ==
  ASSUME NEW X, NEW s \in Seq(X), NEW k \in DOMAIN s, IsInjective(s)
  PROVE  RemoveAt(s, k) \in Seq(X) /\ Lists(RemoveAt(s, k), Range(s) \ {s[k]})
<1> DEFINE one == SubSeq(s, 1, k - 1)
           two == SubSeq(s, k + 1, Len(s))
           t == RemoveAt(s, k)
<1>1. DOMAIN s = 1 .. Len(s) /\ Len(s) \in Nat /\ k \in 1 .. Len(s) /\ \A i \in 1 .. Len(s) : s[i] \in X
  BY SeqFacts
<1>2. one \in Seq(X) /\ Len(one) = k - 1 /\ \A i \in 1 .. k - 1 : one[i] = s[i]
  <2>1. 1 \in Int /\ k - 1 \in Int /\ \A i \in 1 .. k - 1 : s[i] \in X
    BY <1>1
  <2>2. /\ one \in Seq(X) /\ Len(one) = (IF 1 <= k - 1 THEN k - 1 - 1 + 1 ELSE 0)
        /\ \A i \in 1 .. k - 1 - 1 + 1 : one[i] = s[1 + i - 1]
    BY <2>1, SubSeqProperties
  <2> HIDE DEF one
  <2> QED
    BY <1>1, <2>2
<1>3. two \in Seq(X) /\ Len(two) = Len(s) - k /\ \A i \in 1 .. Len(s) - k : two[i] = s[k + i]
  <2>1. k + 1 \in Int /\ Len(s) \in Int /\ \A i \in k + 1 .. Len(s) : s[i] \in X
    BY <1>1
  <2>2. /\ two \in Seq(X) /\ Len(two) = (IF k + 1 <= Len(s) THEN Len(s) - (k + 1) + 1 ELSE 0)
        /\ \A i \in 1 .. Len(s) - (k + 1) + 1 : two[i] = s[k + 1 + i - 1]
    BY <2>1, SubSeqProperties
  <2>3. \A l, m \in Int : /\ l - (m + 1) + 1 = l - m
                          /\ 0 <= m /\ m <= l /\ ~(m + 1 <= l) => l - m = 0
                          /\ \A i \in 1 .. l - m : m + 1 + i - 1 = m + i
    OBVIOUS
  <2>4. k \in Int /\ Len(s) \in Int /\ 0 <= k /\ k <= Len(s)
    BY <1>1
  <2> HIDE DEF two
  <2> QED
    BY <2>2, <2>3, <2>4
<1>4. t = one \o two
  BY DEF RemoveAt
<1> HIDE DEF one, two, t
<1>5. /\ t \in Seq(X) /\ Len(t) = Len(one) + Len(two)
      /\ \A i \in 1 .. Len(one) + Len(two) : t[i] = IF i <= Len(one) THEN one[i] ELSE two[i - Len(one)]
  BY <1>2, <1>3, <1>4, ConcatProperties
<1>6. DOMAIN t = 1 .. Len(s) - 1
  BY <1>1, <1>2, <1>3, <1>5
<1>7. ASSUME NEW i \in 1 .. Len(s) - 1 PROVE t[i] = IF i < k THEN s[i] ELSE s[i + 1]
  <2>1. i \in 1 .. Len(one) + Len(two)
    BY <1>1, <1>2, <1>3
  <2>2. CASE i < k
    BY <1>1, <1>2, <1>5, <2>1, <2>2
  <2>3. CASE ~(i < k)
    <3>1. i - (k - 1) \in 1 .. Len(s) - k /\ k + (i - (k - 1)) = i + 1 /\ ~(i <= k - 1)
      BY <1>1, <2>3
    <3>2. t[i] = two[i - (k - 1)]
      BY <1>2, <1>5, <2>1, <3>1
    <3> QED
      BY <1>3, <2>3, <3>1, <3>2
  <2> QED
    BY <2>2, <2>3
<1>8. \A i, j \in 1 .. Len(s) : s[i] = s[j] => i = j
  BY <1>1 DEF IsInjective
<1>9. ASSUME NEW i \in DOMAIN t, NEW j \in DOMAIN t, t[i] = t[j] PROVE i = j
  <2>1. i \in 1 .. Len(s) - 1 /\ j \in 1 .. Len(s) - 1
    BY <1>6
  <2>2. \A x \in 1 .. Len(s) - 1 : x \in 1 .. Len(s) /\ x + 1 \in 1 .. Len(s)
    BY <1>1
  <2> QED
    BY <1>1, <1>7, <1>8, <1>9, <2>1, <2>2
<1>10. Range(t) = Range(s) \ {s[k]}
  <2>1. ASSUME NEW i \in DOMAIN t PROVE t[i] \in Range(s) \ {s[k]}
    <3>1. i \in 1 .. Len(s) - 1 /\ i \in 1 .. Len(s) /\ i + 1 \in 1 .. Len(s)
      BY <1>1, <1>6
    <3>2. CASE i < k
      <4>1. t[i] = s[i] /\ s[i] # s[k]
        BY <1>1, <1>7, <1>8, <3>1, <3>2
      <4> QED
        BY <1>1, <3>1, <4>1 DEF Range
    <3>3. CASE ~(i < k)
      <4>1. t[i] = s[i + 1] /\ s[i + 1] # s[k]
        BY <1>1, <1>7, <1>8, <3>1, <3>3
      <4> QED
        BY <1>1, <3>1, <4>1 DEF Range
    <3> QED
      BY <3>2, <3>3
  <2>2. ASSUME NEW i \in DOMAIN s, s[i] # s[k] PROVE \E j \in DOMAIN t : t[j] = s[i]
    <3>1. i # k /\ i \in 1 .. Len(s)
      BY <1>1, <2>2
    <3>2. CASE i < k
      <4>1. i \in 1 .. Len(s) - 1
        BY <1>1, <3>1, <3>2
      <4> QED
        BY <1>6, <1>7, <3>2, <4>1
    <3>3. CASE i > k
      <4>1. i - 1 \in 1 .. Len(s) - 1 /\ i - 1 + 1 = i /\ ~(i - 1 < k)
        BY <1>1, <3>1, <3>3
      <4>2. t[i - 1] = s[i]
        BY <1>7, <4>1
      <4> QED
        BY <1>6, <4>1, <4>2
    <3> QED
      BY <1>1, <3>1, <3>2, <3>3
  <2> QED
    BY <2>1, <2>2 DEF Range
<1> QED
  BY <1>5, <1>9, <1>10 DEF Lists, IsInjective, t

LEMMA RemoveAgentGood ==
  ASSUME NEW st, GoodRows(st), NEW a \in DOMAIN st.meta
  PROVE  /\ GoodRows(RemoveAgent(st, a)) /\ DOMAIN RemoveAgent(st, a).meta = DOMAIN st.meta \ {a}
         /\ RemoveAgent(st, a).index = st.index /\ RemoveAgent(st, a).drifts = st.drifts
         /\ RemoveAgent(st, a).delegations = st.delegations
         /\ \A b \in DOMAIN st.meta \ {a} : RemoveAgent(st, a).meta[b] = st.meta[b]
<1> DEFINE k == CHOOSE i \in DOMAIN st.agents : st.agents[i] = a
           listed == RemoveAt(st.agents, k)
           meta == [b \in DOMAIN st.meta \ {a} |-> st.meta[b]]
           st2 == RemoveAgent(st, a)
<1>1. /\ st \in Stores /\ st.agents \in Seq(Agent) /\ st.meta \in [DOMAIN st.meta -> AgentMeta] /\ DOMAIN st.meta \subseteq Agent
      /\ IsInjective(st.agents) /\ Range(st.agents) = DOMAIN st.meta
  BY StoreFacts DEF GoodRows, Lists
<1>2. k \in DOMAIN st.agents /\ st.agents[k] = a
  BY <1>1 DEF Range
<1>3. st2 = [st EXCEPT !.agents = listed, !.meta = meta]
  BY DEF RemoveAgent
<1> HIDE DEF k
<1>4. listed \in Seq(Agent) /\ Lists(listed, DOMAIN st.meta \ {a})
  BY <1>1, <1>2, RemoveAtFacts
<1>5. /\ DOMAIN meta = DOMAIN st.meta \ {a} /\ meta \in MetaMaps
      /\ \A b \in DOMAIN st.meta \ {a} : meta[b] = st.meta[b]
  <2>0. \A b \in DOMAIN st.meta \ {a} : meta[b] = st.meta[b]
    OBVIOUS
  <2>1. DOMAIN meta = DOMAIN st.meta \ {a} /\ meta \in [DOMAIN st.meta \ {a} -> AgentMeta]
    BY <1>1
  <2> HIDE DEF meta
  <2> QED
    BY <1>1, <2>0, <2>1 DEF MetaMaps
<1> HIDE DEF listed, meta, st2
<1>6. /\ st2 \in Stores /\ st2.meta = meta /\ st2.agents = listed /\ st2.index = st.index
      /\ st2.delegations = st.delegations /\ st2.seen = st.seen /\ st2.drifts = st.drifts
  BY <1>1, <1>3, <1>4, <1>5 DEF Stores
<1> QED
  BY <1>4, <1>5, <1>6 DEF GoodRows, st2

(* The orchestrator's row is the first of those the server knows.          *)
LEMMA ResolveFacts ==
  ASSUME NEW st, GoodRows(st)
  PROVE  /\ CompoundRows(st) = {} <=> ~\E c \in Compound : Known(st, c)
         /\ CompoundRows(st) = {} => ResolveGoldfive(st) = Legacy
         /\ CompoundRows(st) # {} => ResolveGoldfive(st) \in Compound /\ Known(st, ResolveGoldfive(st))
         /\ ResolveGoldfive(st) \in Agent
<1> DEFINE cs == CompoundRows(st)
<1>1. st.agents \in Seq(Agent) /\ Range(st.agents) = DOMAIN st.meta
  BY StoreFacts DEF GoodRows, Lists
<1>2. cs \subseteq DOMAIN st.agents /\ cs \subseteq Nat /\ \A i \in cs : st.agents[i] \in Compound /\ Known(st, st.agents[i])
  BY <1>1, SeqFacts DEF CompoundRows, Known, Range
<1>3. cs = {} <=> ~\E c \in Compound : Known(st, c)
  BY <1>1 DEF CompoundRows, Known, Range
<1>4. CASE cs = {}
  BY <1>3, <1>4, ActorAssumption DEF ResolveGoldfive
<1>5. CASE cs # {}
  <2>1. Min(cs) \in cs
    <3> HIDE DEF cs
    <3>1. PICK i \in cs : \A j \in cs : i <= j
      BY <1>2, <1>5, LeastNumber
    <3> QED
      BY <3>1 DEF Min
  <2>2. ResolveGoldfive(st) = st.agents[Min(cs)]
    BY <1>5 DEF ResolveGoldfive
  <2> HIDE DEF cs
  <2> QED
    BY <1>2, <1>3, <1>5, <2>1, <2>2, ActorAssumption DEF cs
<1> QED
  BY <1>4, <1>5

LEMMA MergeGood ==
  ASSUME NEW st, GoodRows(st), NoSpansUnknown(st)
  PROVE  MergeGoldfive(st) \in GoodStores /\ Kept(st, MergeGoldfive(st))
<1>1. CASE CompoundRows(st) = {} \/ ~Known(st, Legacy)
  <2>1. MergeGoldfive(st) = st
    BY <1>1 DEF MergeGoldfive
  <2>2. OneRow(st)
    BY <1>1, ResolveFacts DEF OneRow
  <2> QED
    BY <2>1, <2>2 DEF GoodStores, GoodRows, Kept, SameEnds
<1>2. CASE CompoundRows(st) # {} /\ Known(st, Legacy)
  <2> DEFINE ix == ReassignAgent(st.index, Legacy, ResolveGoldfive(st))
             st1 == [st EXCEPT !.index = ix]
             st2 == MergeGoldfive(st)
  <2>1. st2 = RemoveAgent(st1, Legacy)
    BY <1>2 DEF MergeGoldfive
  <2>2. ResolveGoldfive(st) \in Agent /\ Legacy \in Agent /\ ResolveGoldfive(st) # Legacy
    BY <1>2, ResolveFacts, ActorAssumption
  <2>3. ix \in GoodIndexes /\ ix.rows[Legacy] = <<>> /\ SameEnds(st.index.span, ix.span)
    BY <2>2, ReassignGood DEF GoodRows
  <2> HIDE DEF ix
  <2>4. /\ st1 \in Stores /\ st1.index = ix /\ st1.meta = st.meta /\ st1.agents = st.agents
        /\ st1.delegations = st.delegations /\ st1.seen = st.seen /\ st1.drifts = st.drifts
    BY <2>3 DEF Stores, GoodRows, GoodIndexes
  <2> HIDE DEF st1, st2
  <2>5. GoodRows(st1) /\ Legacy \in DOMAIN st1.meta
    BY <1>2, <2>3, <2>4 DEF GoodRows, Known
  <2>6. /\ GoodRows(st2) /\ DOMAIN st2.meta = DOMAIN st1.meta \ {Legacy} /\ st2.index = ix
        /\ st2.drifts = st.drifts /\ st2.delegations = st.delegations
        /\ \A b \in DOMAIN st.meta \ {Legacy} : st2.meta[b] = st.meta[b]
    BY <2>1, <2>4, <2>5, RemoveAgentGood
  <2>7. NoSpansUnknown(st2) /\ OneRow(st2)
    BY <2>3, <2>6 DEF NoSpansUnknown, OneRow, Known
  <2>8. Kept(st, st2)
    BY <2>3, <2>4, <2>6 DEF Kept
  <2> QED
    BY <2>6, <2>7, <2>8 DEF GoodStores, GoodRows, st2
<1> QED
  BY <1>1, <1>2

LEMMA FrameFacts ==
  ASSUME NEW f \in Frame
  PROVE  /\ f.agent \in Agent /\ f.at \in Nat /\ f.at \in 1 .. (Forever - 1) /\ f.at \in 1 .. Forever
         /\ Forever \in 1 .. Forever /\ f.id \in Label /\ SpanId(f) \in SpanName
         /\ f.kind \in {"agent", "start", "end", "plan", "drift", "cancel", "delegation"}
         /\ f.kind \in {"plan", "cancel"} => f.agent \notin Compound /\ f.agent # Legacy
         /\ f.kind \in {"agent", "start", "end"} => f.agent # Legacy
<1>1. f.agent \in Agent /\ f.at \in 1 .. (Forever - 1) /\ Forever \in Nat
  BY FrameAssumption, StoreBounds
<1>2. f.id \in Label
  BY DEF Label
<1>3. SpanId(f) \in SpanName
  BY <1>1, <1>2 DEF SpanId, SpanName
<1> QED
  BY <1>1, <1>2, <1>3, FrameAssumption

LEMMA IndexPut ==
  ASSUME NEW st \in GoodStores, NEW ix \in GoodIndexes, ~Known(st, Legacy) => ix.rows[Legacy] = <<>>
  PROVE  /\ [st EXCEPT !.index = ix] \in GoodStores /\ [st EXCEPT !.index = ix].index = ix
         /\ [st EXCEPT !.index = ix].meta = st.meta /\ [st EXCEPT !.index = ix].drifts = st.drifts
         /\ [st EXCEPT !.index = ix].delegations = st.delegations
<1> DEFINE st2 == [st EXCEPT !.index = ix]
<1>1. /\ st2 \in Stores /\ st2.index = ix /\ st2.meta = st.meta /\ st2.agents = st.agents
      /\ st2.delegations = st.delegations /\ st2.seen = st.seen /\ st2.drifts = st.drifts
  BY DEF Stores, GoodStores, GoodIndexes
<1> HIDE DEF st2
<1>2. GoodRows(st2) /\ NoSpansUnknown(st2) /\ OneRow(st2)
  BY <1>1 DEF GoodStores, GoodRows, NoSpansUnknown, OneRow, Known
<1> QED
  BY <1>1, <1>2 DEF GoodStores, st2

LEMMA RepackGood ==
  ASSUME NEW st \in GoodStores, NEW a \in Agent
  PROVE  Repack(st, a) \in GoodStores /\ Kept(st, Repack(st, a))
<1> DEFINE ix == PackLanes(st.index, a)
<1>1. /\ ix \in GoodIndexes /\ ix.rows = st.index.rows /\ SameEnds(st.index.span, ix.span)
      /\ ~Known(st, Legacy) => st.index.rows[Legacy] = <<>>
  BY PackGood DEF GoodStores, GoodRows, NoSpansUnknown
<1>2. Repack(st, a) = [st EXCEPT !.index = ix]
  BY DEF Repack
<1> HIDE DEF ix
<1> QED
  BY <1>1, <1>2, IndexPut DEF Kept

LEMMA KeptShows ==
  ASSUME NEW st, NEW st2, Kept(st, st2), NEW f \in Frame, NEW frames, Shows(st, frames, f)
  PROVE  Shows(st2, frames, f)
BY FrameFacts DEF Kept, SameEnds, Shows, Known

LEMMA KeptTwice ==
  ASSUME NEW st, NEW st1, NEW st2, Kept(st, st1), Kept(st1, st2)
  PROVE  Kept(st, st2)
BY DEF Kept, SameEnds

LEMMA KeptAdds ==
  ASSUME NEW st, NEW st2, Kept(st, st2), NEW f
  PROVE  Adds(st, st2, f)
BY DEF Kept, SameEnds, Adds

LEMMA AddsThenKept ==
  ASSUME NEW st, NEW st1, NEW st2, NEW f, Adds(st, st1, f), Kept(st1, st2)
  PROVE  Adds(st, st2, f)
BY DEF Kept, SameEnds, Adds

LEMMA OnAgentGood ==
  ASSUME NEW st \in GoodStores, NEW f \in Frame, f.kind = "agent"
  PROVE  /\ OnAgent(st, f) \in GoodStores
         /\ Adds(st, OnAgent(st, f), f) /\ Shows(OnAgent(st, f), {f}, f)
<1> DEFINE st2 == UpsertAgent(st, f.agent, f.at)
<1>1. f.agent \in Agent /\ f.at \in Nat /\ f.agent # Legacy
  BY FrameFacts
<1>2. WithRow(st, st2, f.agent) /\ st2.meta[f.agent] = [joined |-> f.at, announced |-> FALSE]
  BY <1>1, UpsertGood DEF GoodStores
<1>0. OnAgent(st, f) = MergeFor(st2, f.agent)
  BY DEF OnAgent
<1> HIDE DEF st2
<1>3. NoSpansUnknown(st2) /\ GoodRows(st2)
  BY <1>1, <1>2 DEF GoodStores, NoSpansUnknown, WithRow, Known
<1>4. Shows(st2, {f}, f)
  BY <1>2 DEF Shows, WithRow, Known, TellsOf
<1>5. Adds(st, st2, f)
  BY <1>2 DEF Adds, WithRow
<1>6. CASE f.agent \in Compound
  <2>1. OnAgent(st, f) = MergeGoldfive(st2)
    BY <1>0, <1>6 DEF MergeFor
  <2>2. MergeGoldfive(st2) \in GoodStores /\ Kept(st2, MergeGoldfive(st2))
    BY <1>3, MergeGood
  <2> QED
    BY <1>4, <1>5, <2>1, <2>2, KeptShows, AddsThenKept
<1>7. CASE f.agent \notin Compound
  <2>1. OneRow(st2)
    BY <1>1, <1>2, <1>7 DEF GoodStores, OneRow, WithRow, Known
  <2> QED
    BY <1>0, <1>3, <1>4, <1>5, <1>7, <2>1 DEF MergeFor, GoodStores, GoodRows
<1> QED
  BY <1>6, <1>7

(* Nothing is said of a span before its start, nor of a marker twice.      *)
LEMMA StartIsFirst ==
  ASSUME NEW f \in Frame, f.kind \in {"start", "drift", "cancel"}
  PROVE  f \in Spanned /\ \A g \in Spanned : g.id = f.id => f.at <= g.at
<1>1. f \in Spanned /\ f.at \in Nat
  BY FrameFacts DEF Spanned
<1>2. ASSUME NEW g \in Spanned, g.id = f.id, g # f PROVE f.at <= g.at
  BY <1>1, <1>2, NameAssumption
<1> QED
  BY <1>1, <1>2

LEMMA PutAdds ==
  ASSUME NEW st, NEW st2, NEW f \in Spanned, NEW x, x[1] = f.id, NEW e,
         EndPut(st.index.span, st2.index.span, x, e),
         \A a \in DOMAIN st.meta \ {Legacy} : a \in DOMAIN st2.meta /\ st2.meta[a] = st.meta[a],
         Range(st.drifts) \subseteq Range(st2.drifts), st2.delegations = st.delegations
  PROVE  Adds(st, st2, f)
BY DEF EndPut, Adds, Named

LEMMA OnSpanGood ==
  ASSUME NEW st \in GoodStores, NEW f \in Frame, f.kind = "start", NEW end \in 1 .. Forever,
         end = Forever \/ \E g \in Spanned : g.id = f.id /\ end = g.at
  PROVE  /\ OnSpan(st, f, end) \in GoodStores
         /\ Adds(st, OnSpan(st, f, end), f) /\ Shows(OnSpan(st, f, end), {f}, f)
         /\ OnSpan(st, f, end).index.span[SpanId(f)].end = end
<1> DEFINE s == [agent |-> f.agent, start |-> f.at, end |-> end, lane |-> 0]
           ix == AppendSpan(st.index, SpanId(f), s)
           st2 == [st EXCEPT !.index = ix]
           st3 == OnSpan(st, f, end)
<1>1. s \in Shape /\ s.agent # Legacy /\ SpanId(f) \in SpanName /\ s.end = end /\ s.start = f.at
  BY FrameFacts DEF Shape
<1>2. st.index \in GoodIndexes /\ NoSpansUnknown(st)
  BY DEF GoodStores, GoodRows
<1>3. st2 = [st EXCEPT !.index = AppendSpan(@, SpanId(f), s)]
  OBVIOUS
<1> HIDE DEF s
<1>4. SpanId(f)[1] = f.id /\ f \in Spanned /\ \A g \in Spanned : g.id = SpanId(f)[1] => s.start <= g.at
  BY <1>1, StartIsFirst DEF SpanId
<1>5. /\ ix \in GoodIndexes /\ ix.rows[Legacy] = st.index.rows[Legacy]
      /\ EndPut(st.index.span, ix.span, SpanId(f), end)
  <2>1. s.end = Forever \/ \E g \in Spanned : g.id = SpanId(f)[1] /\ s.end = g.at
    BY <1>1, <1>4
  <2> QED
    BY <1>1, <1>2, <1>4, <2>1, AppendSpanGood, ActorAssumption
<1> HIDE DEF ix
<1>6. /\ st2 \in GoodStores /\ st2.index = ix /\ st2.meta = st.meta /\ st2.drifts = st.drifts
      /\ st2.delegations = st.delegations
  BY <1>2, <1>5, IndexPut DEF NoSpansUnknown
<1>7. st3 = MergeFor(st2, f.agent)
  BY DEF OnSpan, s, ix
<1> HIDE DEF st2, st3
<1>8. st3 \in GoodStores /\ Kept(st2, st3)
  <2>1. MergeGoldfive(st2) \in GoodStores /\ Kept(st2, MergeGoldfive(st2))
    BY <1>6, MergeGood DEF GoodStores
  <2>2. Kept(st2, st2)
    BY DEF Kept, SameEnds
  <2> QED
    BY <1>6, <1>7, <2>1, <2>2 DEF MergeFor
<1>9. Adds(st, st2, f)
  BY <1>4, <1>5, <1>6, PutAdds
<1>10. SpanId(f) \in DOMAIN st2.index.span /\ st2.index.span[SpanId(f)].end = end
  BY <1>5, <1>6 DEF EndPut
<1>11. Shows(st2, {f}, f)
  BY <1>10 DEF Shows
<1>12. st3.index.span[SpanId(f)].end = end
  BY <1>8, <1>10 DEF Kept, SameEnds
<1> QED
  BY <1>8, <1>9, <1>11, <1>12, AddsThenKept, KeptShows DEF st3

LEMMA OnStartGood ==
  ASSUME NEW st \in GoodStores, NEW f \in Frame, f.kind = "start"
  PROVE  /\ OnStart(st, f) \in GoodStores
         /\ Adds(st, OnStart(st, f), f) /\ Shows(OnStart(st, f), {f}, f)
         /\ OnStart(st, f).index.span[SpanId(f)].end = Forever
<1> DEFINE st2 == OnSpan(st, f, Forever)
<1>1. f.agent \in Agent /\ Forever \in 1 .. Forever
  BY FrameFacts
<1>2. /\ st2 \in GoodStores /\ Adds(st, st2, f) /\ Shows(st2, {f}, f)
      /\ st2.index.span[SpanId(f)].end = Forever
  BY <1>1, OnSpanGood
<1>3. OnStart(st, f) = Repack(st2, f.agent)
  BY DEF OnStart
<1> HIDE DEF st2
<1>4. Repack(st2, f.agent) \in GoodStores /\ Kept(st2, Repack(st2, f.agent))
  BY <1>1, <1>2, RepackGood
<1>5. SpanId(f) \in DOMAIN st2.index.span
  BY <1>2 DEF Shows
<1> QED
  BY <1>2, <1>3, <1>4, <1>5, AddsThenKept, KeptShows DEF Kept, SameEnds

LEMMA OnEndGood ==
  ASSUME NEW st \in GoodStores, NEW f \in Frame, f.kind = "end"
  PROVE  /\ OnEnd(st, f) \in GoodStores /\ Adds(st, OnEnd(st, f), f)
         /\ SpanId(f) \in DOMAIN st.index.span => OnEnd(st, f).index.span[SpanId(f)].end = f.at
<1>1. CASE SpanId(f) \notin DOMAIN st.index.span
  <2>1. OnEnd(st, f) = st
    BY <1>1 DEF OnEnd
  <2>2. Adds(st, st, f)
    BY DEF Adds
  <2> QED
    BY <1>1, <2>1, <2>2
<1>2. CASE SpanId(f) \in DOMAIN st.index.span
  <2> DEFINE shown == st.index.span[SpanId(f)]
             ix == UpdateSpan(st.index, SpanId(f), f.at)
             ended == [st EXCEPT !.index = ix]
  <2>1. st.index \in GoodIndexes /\ NoSpansUnknown(st)
    BY DEF GoodStores, GoodRows
  <2>2. f \in Spanned /\ SpanId(f)[1] = f.id /\ f.at \in 1 .. Forever
    BY FrameFacts DEF Spanned, SpanId
  <2>3. shown.start <= f.at
    BY <1>2, <2>1, <2>2 DEF GoodIndexes, GoodSpans
  <2>4. ix \in GoodIndexes /\ ix.rows = st.index.rows /\ EndPut(st.index.span, ix.span, SpanId(f), f.at)
    BY <1>2, <2>1, <2>2, <2>3, UpdateSpanGood
  <2>5. shown.agent \in Agent
    BY <1>2, <2>1, IndexFacts, SpanMapFacts, ShapeFacts DEF GoodIndexes
  <2>6. OnEnd(st, f) = IF shown.end = Forever THEN Repack(ended, shown.agent) ELSE ended
    BY <1>2 DEF OnEnd
  <2> HIDE DEF ix
  <2>7. /\ ended \in GoodStores /\ ended.index = ix /\ ended.meta = st.meta /\ ended.drifts = st.drifts
        /\ ended.delegations = st.delegations
    BY <2>1, <2>4, IndexPut DEF NoSpansUnknown
  <2> HIDE DEF ended, shown
  <2>8. OnEnd(st, f) \in GoodStores /\ Kept(ended, OnEnd(st, f))
    <3>1. Kept(ended, ended)
      BY DEF Kept, SameEnds
    <3> QED
      BY <2>5, <2>6, <2>7, <3>1, RepackGood
  <2>9. Adds(st, ended, f)
    BY <2>2, <2>4, <2>7, PutAdds
  <2>10. SpanId(f) \in DOMAIN ended.index.span /\ ended.index.span[SpanId(f)].end = f.at
    BY <2>4, <2>7 DEF EndPut
  <2>11. OnEnd(st, f).index.span[SpanId(f)].end = f.at
    BY <2>8, <2>10 DEF Kept, SameEnds
  <2> QED
    BY <2>8, <2>9, <2>11, AddsThenKept
<1> QED
  BY <1>1, <1>2

(* A row made for anybody but the orchestrator changes nothing about its   *)
(* two rows; nor does the made-up one while there is no other.             *)
RowMade(st, st2, a) ==
  /\ st2 \in GoodStores /\ Known(st2, a) /\ st2.index = st.index
  /\ st2.drifts = st.drifts /\ st2.delegations = st.delegations
  /\ \A b \in DOMAIN st.meta : b \in DOMAIN st2.meta /\ st2.meta[b] = st.meta[b]

LEMMA EnsureKeeps ==
  ASSUME NEW st \in GoodStores, NEW a \in Agent, a \notin Compound \/ Known(st, a),
         a # Legacy \/ CompoundRows(st) = {}
  PROVE  RowMade(st, EnsureAgent(st, a), a) /\ RowMade(st, EnsureSynthetic(st, a), a)
<1>1. GoodRows(st) /\ NoSpansUnknown(st) /\ OneRow(st)
  BY DEF GoodStores
<1>2. CompoundRows(st) = {} => ~\E c \in Compound : Known(st, c)
  BY <1>1, ResolveFacts
<1>3. ASSUME NEW st2, WithRow(st, st2, a), Known(st, a) => st2 = st
      PROVE  RowMade(st, st2, a)
  <2>1. NoSpansUnknown(st2)
    BY <1>1, <1>3 DEF NoSpansUnknown, WithRow, Known
  <2>2. \A c \in Compound : Known(st2, c) <=> Known(st, c)
    BY <1>3 DEF WithRow, Known
  <2>3. OneRow(st2)
    <3>1. CASE a # Legacy
      BY <1>1, <1>3, <2>2, <3>1 DEF OneRow, WithRow, Known
    <3>2. CASE CompoundRows(st) = {}
      BY <1>2, <2>2, <3>2 DEF OneRow
    <3> QED
      BY <3>1, <3>2
  <2>4. st2 \in Stores
    BY <1>3 DEF WithRow, GoodRows
  <2>5. st2 \in GoodStores
    BY <1>3, <2>1, <2>3, <2>4 DEF WithRow, GoodStores
  <2>6. \A b \in DOMAIN st.meta : b \in DOMAIN st2.meta /\ st2.meta[b] = st.meta[b]
    BY <1>3 DEF WithRow, Known
  <2> QED
    BY <1>3, <2>5, <2>6 DEF WithRow, RowMade, Known
<1>4. /\ WithRow(st, EnsureAgent(st, a), a) /\ WithRow(st, EnsureSynthetic(st, a), a)
      /\ Known(st, a) => EnsureAgent(st, a) = st /\ EnsureSynthetic(st, a) = st
  BY <1>1, EnsureGood
<1> QED
  BY <1>3, <1>4

LEMMA OnPlanGood ==
  ASSUME NEW st \in GoodStores, NEW f \in Frame, f.kind = "plan"
  PROVE  /\ OnPlan(st, f) \in GoodStores
         /\ Adds(st, OnPlan(st, f), f) /\ Shows(OnPlan(st, f), {f}, f)
<1>1. RowMade(st, OnPlan(st, f), f.agent)
  BY FrameFacts, EnsureKeeps DEF OnPlan
<1> QED
  BY <1>1 DEF RowMade, Adds, Shows

LEMMA MarkerShape ==
  ASSUME NEW a \in Agent, NEW at \in 1 .. (Forever - 1)
  PROVE  Marker(a, at) \in Shape /\ Marker(a, at).agent = a /\ Marker(a, at).start = at /\ Marker(a, at).end = at
<1>1. at \in 1 .. Forever
  BY StoreBounds
<1> QED
  BY <1>1 DEF Marker, Shape

LEMMA OnCancelGood ==
  ASSUME NEW st \in GoodStores, NEW f \in Frame, f.kind = "cancel"
  PROVE  /\ OnCancel(st, f) \in GoodStores
         /\ Adds(st, OnCancel(st, f), f) /\ Shows(OnCancel(st, f), {f}, f)
<1> DEFINE st2 == EnsureAgent(st, f.agent)
           mark == Marker(f.agent, f.at)
           ix == AppendSpan(st2.index, SpanId(f), mark)
           st3 == OnCancel(st, f)
<1>1. f.agent \in Agent /\ f.agent \notin Compound /\ f.agent # Legacy /\ SpanId(f) \in SpanName /\ f.at \in 1 .. (Forever - 1)
  BY FrameFacts
<1>2. RowMade(st, st2, f.agent)
  BY <1>1, EnsureKeeps
<1>3. st3 = [st2 EXCEPT !.index = ix]
  BY DEF OnCancel
<1> HIDE DEF st2, st3
<1>4. st2 \in GoodStores /\ st2.index \in GoodIndexes /\ NoSpansUnknown(st2)
  BY <1>2 DEF RowMade, GoodStores, GoodRows
<1>5. SpanId(f)[1] = f.id /\ f \in Spanned /\ \A g \in Spanned : g.id = SpanId(f)[1] => f.at <= g.at
  BY StartIsFirst DEF SpanId
<1>6. mark \in Shape /\ mark.agent = f.agent /\ mark.start = f.at /\ mark.end = f.at
  BY <1>1, MarkerShape
<1> HIDE DEF mark
<1>7. /\ ix \in GoodIndexes /\ ix.rows[Legacy] = st2.index.rows[Legacy]
      /\ EndPut(st2.index.span, ix.span, SpanId(f), f.at)
  <2>1. mark.end = Forever \/ \E g \in Spanned : g.id = SpanId(f)[1] /\ mark.end = g.at
    BY <1>5, <1>6
  <2>2. \A g \in Spanned : g.id = SpanId(f)[1] => mark.start <= g.at
    BY <1>5, <1>6
  <2> QED
    BY <1>1, <1>4, <1>6, <2>1, <2>2, AppendSpanGood, ActorAssumption
<1> HIDE DEF ix
<1>8. /\ st3 \in GoodStores /\ st3.index = ix /\ st3.meta = st2.meta /\ st3.drifts = st2.drifts
      /\ st3.delegations = st2.delegations
  BY <1>3, <1>4, <1>7, IndexPut DEF NoSpansUnknown
<1>9. Adds(st, st3, f)
  BY <1>2, <1>5, <1>7, <1>8, PutAdds DEF RowMade
<1>10. Shows(st3, {f}, f)
  BY <1>7, <1>8 DEF Shows, EndPut
<1> QED
  BY <1>8, <1>9, <1>10 DEF st3

LEMMA OnDriftGood ==
  ASSUME NEW st \in GoodStores, NEW f \in Frame, f.kind = "drift"
  PROVE  /\ OnDrift(st, f) \in GoodStores
         /\ Adds(st, OnDrift(st, f), f) /\ Shows(OnDrift(st, f), {f}, f)
<1> DEFINE actor == IF f.agent = User THEN User ELSE ResolveGoldfive(st)
           st2 == EnsureSynthetic(st, actor)
           mark == Marker(actor, f.at)
           ix == AppendSpan(st2.index, <<f.id, actor>>, mark)
           st3 == [st2 EXCEPT !.drifts = Append(st2.drifts, f.id)]
           st4 == OnDrift(st, f)
<1>1. f.id \in Label /\ f.at \in 1 .. (Forever - 1)
  BY FrameFacts
<1>2. /\ actor \in Agent /\ (actor \notin Compound \/ Known(st, actor))
      /\ actor # Legacy \/ CompoundRows(st) = {}
  <2>1. GoodRows(st)
    BY DEF GoodStores
  <2> QED
    BY <2>1, ResolveFacts, ActorAssumption
<1>3. st4 = [st2 EXCEPT !.drifts = Append(st2.drifts, f.id), !.index = ix]
  BY DEF OnDrift
<1> HIDE DEF actor, st4
<1>4. RowMade(st, st2, actor)
  BY <1>2, EnsureKeeps
<1> HIDE DEF st2
<1>5. /\ st2 \in GoodStores /\ st2 \in Stores /\ st2.index \in GoodIndexes /\ NoSpansUnknown(st2)
      /\ <<f.id, actor>> \in SpanName /\ Known(st2, actor)
  BY <1>1, <1>2, <1>4 DEF RowMade, GoodStores, GoodRows, SpanName
<1>6. mark \in Shape /\ mark.agent = actor /\ mark.start = f.at /\ mark.end = f.at
  BY <1>1, <1>2, MarkerShape
<1> HIDE DEF mark
<1>7. f \in Spanned /\ \A g \in Spanned : g.id = f.id => f.at <= g.at
  BY StartIsFirst
<1>8. /\ ix \in GoodIndexes /\ \A a \in Agent : a # actor => ix.rows[a] = st2.index.rows[a]
      /\ EndPut(st2.index.span, ix.span, <<f.id, actor>>, f.at)
  <2>1. mark.end = Forever \/ \E g \in Spanned : g.id = <<f.id, actor>>[1] /\ mark.end = g.at
    BY <1>6, <1>7
  <2>2. \A g \in Spanned : g.id = <<f.id, actor>>[1] => mark.start <= g.at
    BY <1>6, <1>7
  <2> QED
    BY <1>5, <1>6, <2>1, <2>2, AppendSpanGood
<1> HIDE DEF ix
<1>9. ~Known(st2, Legacy) => ix.rows[Legacy] = <<>>
  BY <1>5, <1>8, ActorAssumption DEF NoSpansUnknown
<1>10. Append(st2.drifts, f.id) \in Seq(Label) /\ Range(Append(st2.drifts, f.id)) = Range(st2.drifts) \union {f.id}
  <2>1. st2.drifts \in Seq(Label)
    BY <1>5, StoreFacts
  <2> QED
    BY <1>1, <2>1, RangeOfAppend
<1>11. /\ st3 \in Stores /\ st3.index = st2.index /\ st3.meta = st2.meta /\ st3.agents = st2.agents
       /\ st3.delegations = st2.delegations /\ st3.seen = st2.seen /\ st3.drifts = Append(st2.drifts, f.id)
  BY <1>5, <1>10 DEF Stores
<1>12. st4 = [st3 EXCEPT !.index = ix]
  BY <1>3, <1>5 DEF Stores
<1> HIDE DEF st3
<1>13. st3 \in GoodStores
  BY <1>5, <1>11 DEF GoodStores, GoodRows, NoSpansUnknown, OneRow, Known
<1>14. /\ st4 \in GoodStores /\ st4.index = ix /\ st4.meta = st2.meta /\ st4.drifts = Append(st2.drifts, f.id)
       /\ st4.delegations = st2.delegations
  BY <1>8, <1>9, <1>11, <1>12, <1>13, IndexPut DEF Known
<1>15. Adds(st, st4, f)
  <2>1. <<f.id, actor>>[1] = f.id
    OBVIOUS
  <2>2. EndPut(st.index.span, st4.index.span, <<f.id, actor>>, f.at)
    BY <1>4, <1>8, <1>14 DEF RowMade
  <2>3. \A a \in DOMAIN st.meta \ {Legacy} : a \in DOMAIN st4.meta /\ st4.meta[a] = st.meta[a]
    BY <1>4, <1>14 DEF RowMade
  <2>4. Range(st.drifts) \subseteq Range(st4.drifts) /\ st4.delegations = st.delegations
    BY <1>4, <1>10, <1>14 DEF RowMade
  <2> QED
    BY <1>7, <2>1, <2>2, <2>3, <2>4, PutAdds
<1>16. Shows(st4, {f}, f)
  <2>1. <<f.id, actor>> \in DOMAIN st4.index.span /\ <<f.id, actor>>[1] = f.id
    BY <1>8, <1>14 DEF EndPut
  <2>2. f.id \in Range(st4.drifts)
    BY <1>10, <1>14
  <2> QED
    BY <2>1, <2>2 DEF Shows
<1> QED
  BY <1>14, <1>15, <1>16 DEF st4

LEMMA OnDelegationGood ==
  ASSUME NEW st \in GoodStores, NEW f \in Frame, f.kind = "delegation"
  PROVE  /\ OnDelegation(st, f) \in GoodStores
         /\ Adds(st, OnDelegation(st, f), f) /\ Shows(OnDelegation(st, f), {f}, f)
<1>0. /\ st \in Stores /\ st.delegations \in Seq(Label) /\ f.id \in Label /\ st.seen \subseteq Label
      /\ IsInjective(st.delegations) /\ Range(st.delegations) = st.seen
  BY FrameFacts, StoreFacts DEF GoodStores, GoodRows
<1>1. CASE f.id \in st.seen
  <2>1. OnDelegation(st, f) = st
    BY <1>1 DEF OnDelegation
  <2>2. Adds(st, st, f) /\ Shows(st, {f}, f)
    BY <1>0, <1>1 DEF Adds, Shows
  <2> QED
    BY <2>1, <2>2
<1>2. CASE f.id \notin st.seen
  <2> DEFINE s == Append(st.delegations, f.id)
             st2 == [st EXCEPT !.seen = st.seen \union {f.id}, !.delegations = s]
  <2>2. OnDelegation(st, f) = st2
    BY <1>2 DEF OnDelegation
  <2>3. s \in Seq(Label) /\ IsInjective(s) /\ Range(s) = st.seen \union {f.id}
    BY <1>0, <1>2, AppendLists DEF Lists
  <2> HIDE DEF s
  <2>7. /\ st2 \in Stores /\ st2.index = st.index /\ st2.meta = st.meta /\ st2.agents = st.agents
        /\ st2.delegations = s /\ st2.seen = st.seen \union {f.id} /\ st2.drifts = st.drifts
    BY <1>0, <2>3 DEF Stores
  <2> HIDE DEF st2
  <2>8. st2 \in GoodStores
    BY <2>3, <2>7 DEF GoodStores, GoodRows, NoSpansUnknown, OneRow, Known
  <2>9. Adds(st, st2, f)
    BY <1>0, <2>3, <2>7 DEF Adds
  <2>10. Shows(st2, {f}, f)
    BY <2>3, <2>7 DEF Shows
  <2> QED
    BY <2>2, <2>8, <2>9, <2>10
<1> QED
  BY <1>1, <1>2

LEMMA OnEventGood ==
  ASSUME NEW st \in GoodStores, NEW f \in Frame, f.kind \in {"plan", "drift", "cancel", "delegation"}
  PROVE  /\ OnEvent(st, f) \in GoodStores
         /\ Adds(st, OnEvent(st, f), f) /\ Shows(OnEvent(st, f), {f}, f)
<1> DEFINE next == CASE f.kind = "plan" -> OnPlan(st, f)
                     [] f.kind = "drift" -> OnDrift(st, f)
                     [] f.kind = "cancel" -> OnCancel(st, f)
                     [] f.kind = "delegation" -> OnDelegation(st, f)
<1>1. next \in GoodStores /\ Adds(st, next, f) /\ Shows(next, {f}, f)
  <2>1. CASE f.kind = "plan"
    BY <2>1, OnPlanGood
  <2>2. CASE f.kind = "drift"
    BY <2>2, OnDriftGood
  <2>3. CASE f.kind = "cancel"
    BY <2>3, OnCancelGood
  <2>4. CASE f.kind = "delegation"
    BY <2>4, OnDelegationGood
  <2> QED
    BY <2>1, <2>2, <2>3, <2>4
<1>2. OnEvent(st, f) = Repack(next, ResolveGoldfive(next))
  BY DEF OnEvent
<1> HIDE DEF next
<1>3. ResolveGoldfive(next) \in Agent
  BY <1>1, ResolveFacts DEF GoodStores
<1>4. OnEvent(st, f) \in GoodStores /\ Kept(next, OnEvent(st, f))
  BY <1>1, <1>2, <1>3, RepackGood
<1> QED
  BY <1>1, <1>4, AddsThenKept, KeptShows

LEMMA OnFrameGood ==
  ASSUME NEW st \in GoodStores, NEW f \in Frame
  PROVE  /\ OnFrame(st, f) \in GoodStores
         /\ Adds(st, OnFrame(st, f), f) /\ Shows(OnFrame(st, f), {f}, f)
         /\ f.kind = "start" => OnFrame(st, f).index.span[SpanId(f)].end = Forever
         /\ f.kind = "end" /\ SpanId(f) \in DOMAIN st.index.span => OnFrame(st, f).index.span[SpanId(f)].end = f.at
<1>1. f.kind \in {"agent", "start", "end", "plan", "drift", "cancel", "delegation"}
  BY FrameFacts
<1>2. CASE f.kind = "agent"
  <2>1. OnFrame(st, f) = OnAgent(st, f)
    BY <1>2 DEF OnFrame
  <2> QED
    BY <1>2, <2>1, OnAgentGood
<1>3. CASE f.kind = "start"
  <2>1. OnFrame(st, f) = OnStart(st, f)
    BY <1>3 DEF OnFrame
  <2> QED
    BY <1>3, <2>1, OnStartGood
<1>4. CASE f.kind = "end"
  <2>1. OnFrame(st, f) = OnEnd(st, f)
    BY <1>4 DEF OnFrame
  <2>2. Shows(OnFrame(st, f), {f}, f)
    BY <1>4 DEF Shows
  <2> QED
    BY <1>4, <2>1, <2>2, OnEndGood
<1>5. CASE f.kind \in {"plan", "drift", "cancel", "delegation"}
  <2>1. OnFrame(st, f) = OnEvent(st, f)
    BY <1>5 DEF OnFrame
  <2> QED
    BY <1>5, <2>1, OnEventGood
<1> QED
  BY <1>1, <1>2, <1>3, <1>4, <1>5

-----------------------------------------------------------------------------
(* What the store gains by a set of frames: it shows them, and what it     *)
(* showed, and no other span has a new end.                                *)
Gains(st, st2, frames) ==
  /\ \A f \in frames : Shows(st2, frames, f)
  /\ \A f \in Frame : \A told \in SUBSET Frame : Shows(st, told, f) => Shows(st2, told \union frames, f)
  /\ DOMAIN st.index.span \subseteq DOMAIN st2.index.span
  /\ \A x \in DOMAIN st2.index.span : (\A f \in frames : ~Named(f, x)) =>
        x \in DOMAIN st.index.span /\ st2.index.span[x].end = st.index.span[x].end

LEMMA MoreTold ==
  ASSUME NEW st, NEW f, NEW A, NEW B, A \subseteq B, Shows(st, A, f)
  PROVE  Shows(st, B, f)
BY DEF Shows

LEMMA GainsOne ==
  ASSUME NEW st, NEW st2, NEW f \in Frame, Adds(st, st2, f), Shows(st2, {f}, f)
  PROVE  Gains(st, st2, {f})
<1>1. ASSUME NEW g \in Frame, NEW told \in SUBSET Frame, Shows(st, told, g)
      PROVE  Shows(st2, told \union {f}, g)
  <2>1. g.kind \in {"agent", "plan"} => g.agent \in DOMAIN st2.meta
    BY <1>1, FrameFacts DEF Shows, Adds, Known
  <2>2. ASSUME g.kind = "agent" PROVE \E h \in told \union {f} : TellsOf(h, g.agent, st2.meta[g.agent])
    <3>1. g.agent \in DOMAIN st.meta \ {Legacy}
      BY <1>1, <2>2, FrameFacts DEF Shows, Known
    <3>2. CASE f.kind = "agent" /\ f.agent = g.agent
      BY <3>2 DEF Shows, TellsOf
    <3>3. CASE ~(f.kind = "agent" /\ f.agent = g.agent)
      <4>1. st2.meta[g.agent] = st.meta[g.agent]
        BY <3>1, <3>3 DEF Adds
      <4> QED
        BY <1>1, <2>2, <4>1 DEF Shows
    <3> QED
      BY <3>2, <3>3
  <2>3. g.kind \in {"start", "cancel"} => SpanId(g) \in DOMAIN st2.index.span
    BY <1>1 DEF Shows, Adds
  <2>4. g.kind = "drift" => g.id \in Range(st2.drifts) /\ \E x \in DOMAIN st2.index.span : x[1] = g.id
    BY <1>1 DEF Shows, Adds
  <2>5. g.kind = "delegation" => g.id \in Range(st2.delegations)
    BY <1>1 DEF Shows, Adds
  <2> QED
    BY <2>1, <2>2, <2>3, <2>4, <2>5 DEF Shows, Known
<1> QED
  BY <1>1 DEF Gains, Adds

LEMMA GainsNone ==
  ASSUME NEW st, NEW st2, Kept(st, st2)
  PROVE  Gains(st, st2, {})
<1>1. \A f \in Frame : \A told \in SUBSET Frame : Shows(st, told, f) => Shows(st2, told \union {}, f)
  <2>1. \A told : told \union {} = told
    OBVIOUS
  <2> QED
    BY <2>1, KeptShows
<1> QED
  BY <1>1 DEF Gains, Kept, SameEnds

LEMMA GainsTwice ==
  ASSUME NEW st, NEW st1, NEW st2, NEW A \in SUBSET Frame, NEW B \in SUBSET Frame,
         Gains(st, st1, A), Gains(st1, st2, B)
  PROVE  Gains(st, st2, A \union B)
<1>1. \A f \in A : Shows(st2, A \union B, f)
  BY DEF Gains
<1>2. \A f \in B : Shows(st2, A \union B, f)
  BY MoreTold DEF Gains
<1>3. ASSUME NEW f \in Frame, NEW told \in SUBSET Frame, Shows(st, told, f)
      PROVE  Shows(st2, told \union (A \union B), f)
  <2>1. Shows(st1, told \union A, f) /\ told \union A \in SUBSET Frame
    BY <1>3 DEF Gains
  <2>2. Shows(st2, (told \union A) \union B, f)
    BY <2>1 DEF Gains
  <2>3. (told \union A) \union B = told \union (A \union B)
    OBVIOUS
  <2> QED
    BY <2>2, <2>3
<1>4. ASSUME NEW x \in DOMAIN st2.index.span, \A f \in A \union B : ~Named(f, x)
      PROVE  x \in DOMAIN st.index.span /\ st2.index.span[x].end = st.index.span[x].end
  <2>1. x \in DOMAIN st1.index.span /\ st2.index.span[x].end = st1.index.span[x].end
    BY <1>4 DEF Gains
  <2> QED
    BY <1>4, <2>1 DEF Gains
<1> QED
  BY <1>1, <1>2, <1>3, <1>4 DEF Gains

LEMMA GainsByRun ==
  ASSUME NEW n \in Nat, NEW D, NEW r \in [0 .. n -> D], NEW S \in [1 .. n -> SUBSET Frame],
         \A k \in 1 .. n : Gains(r[k - 1], r[k], S[k])
  PROVE  Gains(r[0], r[n], UNION {S[k] : k \in 1 .. n})
<1> DEFINE upTo(k) == UNION {S[j] : j \in 1 .. k}
           A == [k \in 0 .. n |-> {d \in D : Gains(r[0], d, upTo(k))}]
<1>0. ASSUME NEW k \in 0 .. n PROVE r[k] \in A[k] <=> Gains(r[0], r[k], upTo(k))
  OBVIOUS
<1>1. Gains(r[0], r[0], upTo(0))
  <2>1. upTo(0) = {}
    OBVIOUS
  <2>2. Kept(r[0], r[0])
    BY DEF Kept, SameEnds
  <2> HIDE DEF upTo
  <2> QED
    BY <2>1, <2>2, GainsNone
<1>2. ASSUME NEW k \in 1 .. n, Gains(r[0], r[k - 1], upTo(k - 1)) PROVE Gains(r[0], r[k], upTo(k))
  <2>1. upTo(k) = upTo(k - 1) \union S[k]
    <3>1. 1 .. k = (1 .. (k - 1)) \union {k}
      OBVIOUS
    <3> QED
      BY <3>1
  <2>2. upTo(k - 1) \in SUBSET Frame /\ S[k] \in SUBSET Frame
    <3>1. \A j \in 1 .. (k - 1) : S[j] \in SUBSET Frame
      OBVIOUS
    <3> QED
      BY <3>1
  <2> HIDE DEF upTo
  <2> QED
    BY <1>2, <2>1, <2>2, GainsTwice
<1>3. 0 \in 0 .. n /\ n \in 0 .. n /\ \A k \in 1 .. n : k \in 0 .. n /\ k - 1 \in 0 .. n
  OBVIOUS
<1> HIDE DEF upTo, A
<1>4. \A k \in 0 .. n : r[k] \in A[k]
  <2>1. r[0] \in A[0]
    BY <1>0, <1>1, <1>3
  <2>2. \A k \in 1 .. n : r[k - 1] \in A[k - 1] => r[k] \in A[k]
    BY <1>0, <1>2, <1>3
  <2> QED
    BY <2>1, <2>2, StepsReach
<1> QED
  BY <1>0, <1>3, <1>4 DEF upTo

-----------------------------------------------------------------------------
(* The burst: frames one after the other, then every row is packed.        *)
IsRun(r, D, h, n, F, end) ==
  /\ r \in [0 .. n -> D] /\ r[0] = h /\ r[n] = end
  /\ \A k \in 1 .. n : r[k] = F[k][r[k - 1]]

LEMMA FoldRuns ==
  ASSUME NEW D, NEW h \in D, NEW n \in Nat, NEW F \in [1 .. n -> [D -> D]], NEW g, g[{}] = h,
         \A k \in 1 .. n : g[1 .. (k - 1)] \in D => g[1 .. k] = F[k][g[1 .. (k - 1)]]
  PROVE  \E r : IsRun(r, D, h, n, F, g[1 .. n])
<1> DEFINE r == [k \in 0 .. n |-> g[1 .. k]]
           A == [k \in 0 .. n |-> D]
<1>0. \A k \in 0 .. n : r[k] = g[1 .. k] /\ A[k] = D
  OBVIOUS
<1>1. r[0] = h /\ r[0] \in A[0]
  <2>1. 1 .. 0 = {} /\ 0 \in 0 .. n
    OBVIOUS
  <2> HIDE DEF r, A
  <2> QED
    BY <1>0, <2>1
<1>2. ASSUME NEW k \in 1 .. n, r[k - 1] \in A[k - 1] PROVE r[k] \in A[k] /\ r[k] = F[k][r[k - 1]]
  <2>1. k \in 0 .. n /\ k - 1 \in 0 .. n
    OBVIOUS
  <2> HIDE DEF r, A
  <2> QED
    BY <1>0, <1>2, <2>1
<1>3. r = [k \in 0 .. n |-> r[k]] /\ n \in 0 .. n /\ \A k \in 1 .. n : k - 1 \in 0 .. n
  OBVIOUS
<1> HIDE DEF r, A
<1>4. \A k \in 0 .. n : r[k] \in A[k]
  BY <1>1, <1>2, StepsReach
<1>5. r \in [0 .. n -> D]
  BY <1>0, <1>3, <1>4
<1>6. IsRun(r, D, h, n, F, g[1 .. n])
  BY <1>0, <1>1, <1>2, <1>3, <1>4, <1>5 DEF IsRun
<1> QED
  BY <1>6

FramesOf(kinds) == {f \in Frame : f.kind \in kinds}

AgentsSolves(g, st, xs, n) ==
  g = [s \in SUBSET (1 .. n) |-> IF s = {} THEN st ELSE OnAgent(g[s \ {Max(s)}], xs[Max(s)])]

LEMMA AgentsFold ==
  ASSUME NEW st \in GoodStores, NEW xs \in Seq(FramesOf({"agent"}))
  PROVE  \E r \in [0 .. Len(xs) -> GoodStores] :
           /\ r[0] = st /\ r[Len(xs)] = FoldLeft(OnAgent, st, xs)
           /\ \A k \in 1 .. Len(xs) : r[k] = OnAgent(r[k - 1], xs[k])
<1> DEFINE n == Len(xs)
           F == [k \in 1 .. n |-> [d \in GoodStores |-> OnAgent(d, xs[k])]]
           g == CHOOSE g : AgentsSolves(g, st, xs, n)
<1>1. n \in Nat /\ DOMAIN xs = 1 .. n /\ \A k \in 1 .. n : xs[k] \in FramesOf({"agent"})
  BY SeqFacts
<1> HIDE DEF n
<1>2. \A k \in 1 .. n, d \in GoodStores : F[k][d] = OnAgent(d, xs[k]) /\ F[k][d] \in GoodStores
  BY <1>1, OnAgentGood DEF FramesOf
<1>3. F \in [1 .. n -> [GoodStores -> GoodStores]]
  BY <1>2
<1>4. FoldLeft(OnAgent, st, xs) = g[1 .. n]
  BY <1>1 DEF FoldLeft, MapThenFoldSet, AgentsSolves
<1> HIDE DEF F, g
<1>5. AgentsSolves(g, st, xs, n)
  <2>1. PICK f \in [SUBSET (1 .. n) -> GoodStores] : Folded(f, st, F, n)
    BY <1>1, <1>3, FoldFunctionExists
  <2>2. ASSUME NEW s \in SUBSET (1 .. n)
        PROVE  f[s] = IF s = {} THEN st ELSE OnAgent(f[s \ {Max(s)}], xs[Max(s)])
    <3>1. s \ {Max(s)} \in SUBSET (1 .. n) /\ (s # {} => Max(s) \in 1 .. n)
      BY <1>1, FoldSets
    <3>2. f[s \ {Max(s)}] \in GoodStores
      BY <3>1
    <3> QED
      BY <1>2, <2>1, <3>1, <3>2 DEF Folded
  <2>3. f = [s \in SUBSET (1 .. n) |-> f[s]]
    OBVIOUS
  <2>4. AgentsSolves(f, st, xs, n)
    BY <2>2, <2>3 DEF AgentsSolves
  <2> QED
    BY <2>4 DEF g
<1>6. \A s \in SUBSET (1 .. n) : g[s] = IF s = {} THEN st ELSE OnAgent(g[s \ {Max(s)}], xs[Max(s)])
  BY <1>5 DEF AgentsSolves
<1>7. g[{}] = st
  BY <1>6
<1>8. ASSUME NEW k \in 1 .. n, g[1 .. (k - 1)] \in GoodStores PROVE g[1 .. k] = F[k][g[1 .. (k - 1)]]
  <2>1. 1 .. k \in SUBSET (1 .. n) /\ 1 .. k # {} /\ Max(1 .. k) = k /\ (1 .. k) \ {k} = 1 .. (k - 1)
    BY <1>1, FoldSets
  <2>2. g[1 .. k] = OnAgent(g[1 .. (k - 1)], xs[k])
    BY <1>6, <2>1
  <2> QED
    BY <1>2, <1>8, <2>2
<1>9. PICK r : IsRun(r, GoodStores, st, n, F, g[1 .. n])
  BY <1>1, <1>3, <1>7, <1>8, FoldRuns
<1>10. \A k \in 1 .. n : r[k] = OnAgent(r[k - 1], xs[k])
  <2>1. \A k \in 1 .. n : r[k - 1] \in GoodStores
    BY <1>1, <1>9 DEF IsRun
  <2> QED
    BY <1>2, <1>9, <2>1 DEF IsRun
<1> QED
  BY <1>4, <1>9, <1>10 DEF n, IsRun

EndStored(f, end) == end \in 1 .. Forever /\ (end = Forever \/ \E g \in Spanned : g.id = f.id /\ end = g.at)
SpansSolves(g, st, xs, n) ==
  g = [s \in SUBSET (1 .. n) |-> IF s = {} THEN st ELSE OnSpan(g[s \ {Max(s)}], xs[Max(s)], StoredEnd(xs[Max(s)]))]

LEMMA SpansFold ==
  ASSUME \A f \in Frame : f.kind = "start" => EndStored(f, StoredEnd(f)),
         NEW st \in GoodStores, NEW xs \in Seq(FramesOf({"start"}))
  PROVE  \E r \in [0 .. Len(xs) -> GoodStores] :
           /\ r[0] = st /\ r[Len(xs)] = FoldLeft(LAMBDA d, f : OnSpan(d, f, StoredEnd(f)), st, xs)
           /\ \A k \in 1 .. Len(xs) : r[k] = OnSpan(r[k - 1], xs[k], StoredEnd(xs[k]))
<1> DEFINE n == Len(xs)
           F == [k \in 1 .. n |-> [d \in GoodStores |-> OnSpan(d, xs[k], StoredEnd(xs[k]))]]
           g == CHOOSE g : SpansSolves(g, st, xs, n)
<1>1. n \in Nat /\ DOMAIN xs = 1 .. n /\ \A k \in 1 .. n : xs[k] \in FramesOf({"start"})
  BY SeqFacts
<1> HIDE DEF n
<1>2. \A k \in 1 .. n, d \in GoodStores : F[k][d] = OnSpan(d, xs[k], StoredEnd(xs[k])) /\ F[k][d] \in GoodStores
  BY <1>1, OnSpanGood DEF FramesOf, EndStored
<1>3. F \in [1 .. n -> [GoodStores -> GoodStores]]
  BY <1>2
<1>4. FoldLeft(LAMBDA d, f : OnSpan(d, f, StoredEnd(f)), st, xs) = g[1 .. n]
  BY <1>1 DEF FoldLeft, MapThenFoldSet, SpansSolves
<1> HIDE DEF F, g
<1>5. SpansSolves(g, st, xs, n)
  <2>1. PICK f \in [SUBSET (1 .. n) -> GoodStores] : Folded(f, st, F, n)
    BY <1>1, <1>3, FoldFunctionExists
  <2>2. ASSUME NEW s \in SUBSET (1 .. n)
        PROVE  f[s] = IF s = {} THEN st ELSE OnSpan(f[s \ {Max(s)}], xs[Max(s)], StoredEnd(xs[Max(s)]))
    <3>1. s \ {Max(s)} \in SUBSET (1 .. n) /\ (s # {} => Max(s) \in 1 .. n)
      BY <1>1, FoldSets
    <3>2. f[s \ {Max(s)}] \in GoodStores
      BY <3>1
    <3> QED
      BY <1>2, <2>1, <3>1, <3>2 DEF Folded
  <2>3. f = [s \in SUBSET (1 .. n) |-> f[s]]
    OBVIOUS
  <2>4. SpansSolves(f, st, xs, n)
    BY <2>2, <2>3 DEF SpansSolves
  <2> QED
    BY <2>4 DEF g
<1>6. \A s \in SUBSET (1 .. n) : g[s] = IF s = {} THEN st ELSE OnSpan(g[s \ {Max(s)}], xs[Max(s)], StoredEnd(xs[Max(s)]))
  BY <1>5 DEF SpansSolves
<1>7. g[{}] = st
  BY <1>6
<1>8. ASSUME NEW k \in 1 .. n, g[1 .. (k - 1)] \in GoodStores PROVE g[1 .. k] = F[k][g[1 .. (k - 1)]]
  <2>1. 1 .. k \in SUBSET (1 .. n) /\ 1 .. k # {} /\ Max(1 .. k) = k /\ (1 .. k) \ {k} = 1 .. (k - 1)
    BY <1>1, FoldSets
  <2>2. g[1 .. k] = OnSpan(g[1 .. (k - 1)], xs[k], StoredEnd(xs[k]))
    BY <1>6, <2>1
  <2> QED
    BY <1>2, <1>8, <2>2
<1>9. PICK r : IsRun(r, GoodStores, st, n, F, g[1 .. n])
  BY <1>1, <1>3, <1>7, <1>8, FoldRuns
<1>10. \A k \in 1 .. n : r[k] = OnSpan(r[k - 1], xs[k], StoredEnd(xs[k]))
  <2>1. \A k \in 1 .. n : r[k - 1] \in GoodStores
    BY <1>1, <1>9 DEF IsRun
  <2> QED
    BY <1>2, <1>9, <2>1 DEF IsRun
<1> QED
  BY <1>4, <1>9, <1>10 DEF n, IsRun

EventsSolves(g, st, xs, n) ==
  g = [s \in SUBSET (1 .. n) |-> IF s = {} THEN st ELSE OnEvent(g[s \ {Max(s)}], xs[Max(s)])]

LEMMA EventsFold ==
  ASSUME NEW st \in GoodStores, NEW xs \in Seq(FramesOf({"plan", "drift", "cancel", "delegation"}))
  PROVE  \E r \in [0 .. Len(xs) -> GoodStores] :
           /\ r[0] = st /\ r[Len(xs)] = FoldLeft(OnEvent, st, xs)
           /\ \A k \in 1 .. Len(xs) : r[k] = OnEvent(r[k - 1], xs[k])
<1> DEFINE n == Len(xs)
           F == [k \in 1 .. n |-> [d \in GoodStores |-> OnEvent(d, xs[k])]]
           g == CHOOSE g : EventsSolves(g, st, xs, n)
<1>1. n \in Nat /\ DOMAIN xs = 1 .. n /\ \A k \in 1 .. n : xs[k] \in FramesOf({"plan", "drift", "cancel", "delegation"})
  BY SeqFacts
<1> HIDE DEF n
<1>2. \A k \in 1 .. n, d \in GoodStores : F[k][d] = OnEvent(d, xs[k]) /\ F[k][d] \in GoodStores
  BY <1>1, OnEventGood DEF FramesOf
<1>3. F \in [1 .. n -> [GoodStores -> GoodStores]]
  BY <1>2
<1>4. FoldLeft(OnEvent, st, xs) = g[1 .. n]
  BY <1>1 DEF FoldLeft, MapThenFoldSet, EventsSolves
<1> HIDE DEF F, g
<1>5. EventsSolves(g, st, xs, n)
  <2>1. PICK f \in [SUBSET (1 .. n) -> GoodStores] : Folded(f, st, F, n)
    BY <1>1, <1>3, FoldFunctionExists
  <2>2. ASSUME NEW s \in SUBSET (1 .. n)
        PROVE  f[s] = IF s = {} THEN st ELSE OnEvent(f[s \ {Max(s)}], xs[Max(s)])
    <3>1. s \ {Max(s)} \in SUBSET (1 .. n) /\ (s # {} => Max(s) \in 1 .. n)
      BY <1>1, FoldSets
    <3>2. f[s \ {Max(s)}] \in GoodStores
      BY <3>1
    <3> QED
      BY <1>2, <2>1, <3>1, <3>2 DEF Folded
  <2>3. f = [s \in SUBSET (1 .. n) |-> f[s]]
    OBVIOUS
  <2>4. EventsSolves(f, st, xs, n)
    BY <2>2, <2>3 DEF EventsSolves
  <2> QED
    BY <2>4 DEF g
<1>6. \A s \in SUBSET (1 .. n) : g[s] = IF s = {} THEN st ELSE OnEvent(g[s \ {Max(s)}], xs[Max(s)])
  BY <1>5 DEF EventsSolves
<1>7. g[{}] = st
  BY <1>6
<1>8. ASSUME NEW k \in 1 .. n, g[1 .. (k - 1)] \in GoodStores PROVE g[1 .. k] = F[k][g[1 .. (k - 1)]]
  <2>1. 1 .. k \in SUBSET (1 .. n) /\ 1 .. k # {} /\ Max(1 .. k) = k /\ (1 .. k) \ {k} = 1 .. (k - 1)
    BY <1>1, FoldSets
  <2>2. g[1 .. k] = OnEvent(g[1 .. (k - 1)], xs[k])
    BY <1>6, <2>1
  <2> QED
    BY <1>2, <1>8, <2>2
<1>9. PICK r : IsRun(r, GoodStores, st, n, F, g[1 .. n])
  BY <1>1, <1>3, <1>7, <1>8, FoldRuns
<1>10. \A k \in 1 .. n : r[k] = OnEvent(r[k - 1], xs[k])
  <2>1. \A k \in 1 .. n : r[k - 1] \in GoodStores
    BY <1>1, <1>9 DEF IsRun
  <2> QED
    BY <1>2, <1>9, <2>1 DEF IsRun
<1> QED
  BY <1>4, <1>9, <1>10 DEF n, IsRun

RepackSolves(g, st, xs, n) ==
  g = [s \in SUBSET (1 .. n) |-> IF s = {} THEN st ELSE Repack(g[s \ {Max(s)}], xs[Max(s)])]

LEMMA RepackFold ==
  ASSUME NEW st \in GoodStores, NEW xs \in Seq(Agent)
  PROVE  \E r \in [0 .. Len(xs) -> GoodStores] :
           /\ r[0] = st /\ r[Len(xs)] = FoldLeft(Repack, st, xs)
           /\ \A k \in 1 .. Len(xs) : r[k] = Repack(r[k - 1], xs[k])
<1> DEFINE n == Len(xs)
           F == [k \in 1 .. n |-> [d \in GoodStores |-> Repack(d, xs[k])]]
           g == CHOOSE g : RepackSolves(g, st, xs, n)
<1>1. n \in Nat /\ DOMAIN xs = 1 .. n /\ \A k \in 1 .. n : xs[k] \in Agent
  BY SeqFacts
<1> HIDE DEF n
<1>2. \A k \in 1 .. n, d \in GoodStores : F[k][d] = Repack(d, xs[k]) /\ F[k][d] \in GoodStores
  BY <1>1, RepackGood
<1>3. F \in [1 .. n -> [GoodStores -> GoodStores]]
  BY <1>2
<1>4. FoldLeft(Repack, st, xs) = g[1 .. n]
  BY <1>1 DEF FoldLeft, MapThenFoldSet, RepackSolves
<1> HIDE DEF F, g
<1>5. RepackSolves(g, st, xs, n)
  <2>1. PICK f \in [SUBSET (1 .. n) -> GoodStores] : Folded(f, st, F, n)
    BY <1>1, <1>3, FoldFunctionExists
  <2>2. ASSUME NEW s \in SUBSET (1 .. n)
        PROVE  f[s] = IF s = {} THEN st ELSE Repack(f[s \ {Max(s)}], xs[Max(s)])
    <3>1. s \ {Max(s)} \in SUBSET (1 .. n) /\ (s # {} => Max(s) \in 1 .. n)
      BY <1>1, FoldSets
    <3>2. f[s \ {Max(s)}] \in GoodStores
      BY <3>1
    <3> QED
      BY <1>2, <2>1, <3>1, <3>2 DEF Folded
  <2>3. f = [s \in SUBSET (1 .. n) |-> f[s]]
    OBVIOUS
  <2>4. RepackSolves(f, st, xs, n)
    BY <2>2, <2>3 DEF RepackSolves
  <2> QED
    BY <2>4 DEF g
<1>6. \A s \in SUBSET (1 .. n) : g[s] = IF s = {} THEN st ELSE Repack(g[s \ {Max(s)}], xs[Max(s)])
  BY <1>5 DEF RepackSolves
<1>7. g[{}] = st
  BY <1>6
<1>8. ASSUME NEW k \in 1 .. n, g[1 .. (k - 1)] \in GoodStores PROVE g[1 .. k] = F[k][g[1 .. (k - 1)]]
  <2>1. 1 .. k \in SUBSET (1 .. n) /\ 1 .. k # {} /\ Max(1 .. k) = k /\ (1 .. k) \ {k} = 1 .. (k - 1)
    BY <1>1, FoldSets
  <2>2. g[1 .. k] = Repack(g[1 .. (k - 1)], xs[k])
    BY <1>6, <2>1
  <2> QED
    BY <1>2, <1>8, <2>2
<1>9. PICK r : IsRun(r, GoodStores, st, n, F, g[1 .. n])
  BY <1>1, <1>3, <1>7, <1>8, FoldRuns
<1>10. \A k \in 1 .. n : r[k] = Repack(r[k - 1], xs[k])
  <2>1. \A k \in 1 .. n : r[k - 1] \in GoodStores
    BY <1>1, <1>9 DEF IsRun
  <2> QED
    BY <1>2, <1>9, <2>1 DEF IsRun
<1> QED
  BY <1>4, <1>9, <1>10 DEF n, IsRun


-----------------------------------------------------------------------------
StoreInv ==
  /\ said \subseteq Frame /\ IsFiniteSet(said) /\ queue \in Seq(Frame) /\ visits \in 0 .. MaxVisits
  /\ reader \in {"away", "agents", "spans", "events", "live"}
  /\ store \in GoodStores

LEMMA InitStoreInv == StoreInit => StoreInv
<1> SUFFICES ASSUME StoreInit PROVE StoreInv
  OBVIOUS
<1> DEFINE none == [a \in Agent |-> <<>>]
<1>1. IsInjective(<<>>) /\ Range(<<>>) = {}
  BY DEF IsInjective, Range
<1>2. DOMAIN <<>> = {}
  OBVIOUS
<1>3. <<>> \in SpanMaps /\ <<>> \in MetaMaps
  <2>1. <<>> \in [{} -> Shape] /\ <<>> \in [{} -> AgentMeta]
    OBVIOUS
  <2> QED
    BY <2>1 DEF SpanMaps, MetaMaps
<1>4. EmptyIndex \in Indexes /\ EmptyIndex.span = <<>> /\ EmptyIndex.rows = none
  BY <1>3 DEF EmptyIndex, Indexes
<1>5. GoodIndex(EmptyIndex)
  <2>1. \A a \in Agent : none[a] = <<>>
    OBVIOUS
  <2>2. Lists(<<>>, {}) /\ \A key : Ordered(key, <<>>)
    BY <1>1, <1>2 DEF Lists, Ordered
  <2>3. \A a : {x \in DOMAIN <<>> : <<>>[x].agent = a} = {}
    BY <1>2
  <2> QED
    BY <1>4, <2>1, <2>2, <2>3 DEF GoodIndex
<1>6. /\ store \in Stores /\ store.index = EmptyIndex /\ store.agents = <<>> /\ store.meta = <<>>
      /\ store.delegations = <<>> /\ store.seen = {}
  BY <1>3, <1>4 DEF StoreInit, EmptyStore, Stores
<1>7. GoodRows(store)
  <2>1. GoodSpans(EmptyIndex)
    BY <1>2, <1>4 DEF GoodSpans
  <2> QED
    BY <1>1, <1>2, <1>4, <1>5, <1>6, <2>1 DEF GoodRows, GoodIndexes, Lists
<1>8. NoSpansUnknown(store) /\ OneRow(store)
  BY <1>2, <1>4, <1>6, ActorAssumption DEF NoSpansUnknown, OneRow, Known
<1>9. store \in GoodStores
  BY <1>6, <1>7, <1>8 DEF GoodStores
<1>10. IsFiniteSet({})
  BY FS_EmptySet
<1> QED
  BY <1>9, <1>10, StoreBounds DEF StoreInit, StoreInv

(* The end that is stored with a span is that of the end said of it.       *)
EndOf(f, g) == f.kind = "start" /\ g.kind = "end" /\ f.id = g.id

LEMMA StoredEndFacts ==
  ASSUME said \subseteq Frame, NEW f \in Frame, f.kind = "start"
  PROVE  /\ EndStored(f, StoredEnd(f))
         /\ \A g \in said : EndOf(f, g) => StoredEnd(f) = g.at
         /\ (\A g \in said : ~EndOf(f, g)) => StoredEnd(f) = Forever
<1> DEFINE said2 == {g \in said : g.kind = "end" /\ g.id = f.id}
           ends == {g.at : g \in said2}
<1>1. StoredEnd(f) = IF ends = {} THEN Forever ELSE CHOOSE e \in ends : TRUE
  BY DEF StoredEnd
<1>2. \A g \in said2 : g \in Spanned /\ g.id = f.id /\ g.at \in 1 .. Forever
  BY FrameFacts DEF Spanned
<1>3. \A g, h \in said2 : g = h
  BY <1>2, NameAssumption
<1>4. \A g \in said : EndOf(f, g) <=> g \in said2
  BY DEF EndOf
<1> HIDE DEF said2
<1>5. CASE said2 = {}
  <2>1. ends = {}
    BY <1>5
  <2>2. Forever \in 1 .. Forever
    BY FrameFacts
  <2> HIDE DEF ends
  <2> QED
    BY <1>1, <1>4, <1>5, <2>1, <2>2 DEF EndStored
<1>6. CASE said2 # {}
  <2>1. PICK g \in said2 : TRUE
    BY <1>6
  <2>2. ends = {g.at}
    BY <1>3
  <2> HIDE DEF ends
  <2>3. StoredEnd(f) = g.at
    BY <1>1, <2>2
  <2>4. g \in said
    BY DEF said2
  <2>5. EndStored(f, g.at)
    BY <1>2 DEF EndStored
  <2> QED
    BY <1>3, <1>4, <2>1, <2>3, <2>4, <2>5
<1> QED
  BY <1>5, <1>6

LEMMA OrdersTyped ==
  ASSUME said \subseteq Frame, IsFiniteSet(said), NEW kinds, NEW fs \in Orders(kinds)
  PROVE  fs \in Seq(FramesOf(kinds))
<1> DEFINE listed == {f \in said : f.kind \in kinds}
<1>1. Cardinality(listed) \in Nat
  <2>1. listed \subseteq said
    OBVIOUS
  <2> HIDE DEF listed
  <2> QED
    BY <2>1, FS_Subset, FS_CardinalityType
<1>2. fs \in [1 .. Cardinality(listed) -> listed]
  BY DEF Orders
<1>3. listed \subseteq FramesOf(kinds)
  BY DEF FramesOf
<1> HIDE DEF listed
<1>4. fs \in Seq(listed)
  BY <1>1, <1>2, SeqDef
<1> QED
  BY <1>3, <1>4, SeqMonotonic

(* Read in order, every row of some kinds is said, and each of them is read. *)
LEMMA OrdersAll ==
  ASSUME NEW kinds, NEW fs \in Orders(kinds)
  PROVE  Range(fs) = {f \in said : f.kind \in kinds}
BY DEF Orders

LEMMA RunGains ==
  ASSUME NEW xs, NEW n \in Nat, DOMAIN xs = 1 .. n, NEW r \in [0 .. n -> GoodStores],
         \A k \in 1 .. n : xs[k] \in Frame /\ Gains(r[k - 1], r[k], {xs[k]})
  PROVE  Gains(r[0], r[n], Range(xs))
<1> DEFINE S == [k \in 1 .. n |-> {xs[k]}]
<1>1. S \in [1 .. n -> SUBSET Frame] /\ \A k \in 1 .. n : S[k] = {xs[k]}
  OBVIOUS
<1>2. UNION {S[k] : k \in 1 .. n} = Range(xs)
  BY DEF Range
<1> HIDE DEF S
<1>3. \A k \in 1 .. n : Gains(r[k - 1], r[k], S[k])
  BY <1>1
<1>4. Gains(r[0], r[n], UNION {S[k] : k \in 1 .. n})
  BY <1>1, <1>3, GainsByRun
<1> QED
  BY <1>2, <1>4

LEMMA ReadAgentsGains ==
  ASSUME StoreInv, ReadAgents
  PROVE  store' \in GoodStores /\ Gains(store, store', {f \in said : f.kind \in {"agent"}})
<1>1. PICK listed \in Orders({"agent"}) : store' = FoldLeft(OnAgent, store, listed)
  BY DEF ReadAgents
<1>2. listed \in Seq(FramesOf({"agent"}))
  BY OrdersTyped DEF StoreInv
<1>3. PICK r \in [0 .. Len(listed) -> GoodStores] :
        /\ r[0] = store /\ r[Len(listed)] = FoldLeft(OnAgent, store, listed)
        /\ \A k \in 1 .. Len(listed) : r[k] = OnAgent(r[k - 1], listed[k])
  BY <1>2, AgentsFold DEF StoreInv
<1> DEFINE n == Len(listed)
<1>4. n \in Nat /\ DOMAIN listed = 1 .. n /\ \A k \in 1 .. n : listed[k] \in FramesOf({"agent"})
  BY <1>2, SeqFacts
<1>5. n \in 0 .. n /\ \A k \in 1 .. n : k - 1 \in 0 .. n
  BY <1>4
<1>6. \A k \in 1 .. n : r[k] = OnAgent(r[k - 1], listed[k])
  BY <1>3
<1>7. r[0] = store /\ r[n] = store'
  BY <1>1, <1>3
<1> HIDE DEF n
<1>9. r \in [0 .. n -> GoodStores]
  BY <1>3 DEF n
<1>8. ASSUME NEW k \in 1 .. n PROVE listed[k] \in Frame /\ Gains(r[k - 1], r[k], {listed[k]})
  <2> DEFINE d == r[k - 1]
             f == listed[k]
  <2>1. d \in GoodStores /\ f \in Frame /\ f.kind = "agent" /\ r[k] = OnAgent(d, f)
    BY <1>4, <1>5, <1>6, <1>9 DEF FramesOf
  <2> HIDE DEF d, f
  <2>2. Adds(d, r[k], f) /\ Shows(r[k], {f}, f)
    BY <2>1, OnAgentGood
  <2>3. Gains(d, r[k], {f})
    BY <2>1, <2>2, GainsOne
  <2> QED
    BY <2>1, <2>3 DEF d, f
<1>10. Gains(r[0], r[n], Range(listed))
  BY <1>4, <1>8, <1>9, RunGains
<1> QED
  BY <1>5, <1>7, <1>9, <1>10, OrdersAll

LEMMA ReadSpansGains ==
  ASSUME StoreInv, ReadSpans
  PROVE  /\ store' \in GoodStores /\ Gains(store, store', {f \in said : f.kind \in {"start"}})
         /\ \A f \in said : f.kind = "start" =>
              SpanId(f) \in DOMAIN store'.index.span /\ store'.index.span[SpanId(f)].end = StoredEnd(f)
<1>1. PICK listed \in Orders({"start"}) :
        store' = FoldLeft(LAMBDA st, f : OnSpan(st, f, StoredEnd(f)), store, listed)
  BY DEF ReadSpans
<1>2. listed \in Seq(FramesOf({"start"}))
  BY OrdersTyped DEF StoreInv
<1>3. \A f \in Frame : f.kind = "start" => EndStored(f, StoredEnd(f))
  BY StoredEndFacts DEF StoreInv
<1>4. PICK r \in [0 .. Len(listed) -> GoodStores] :
        /\ r[0] = store /\ r[Len(listed)] = FoldLeft(LAMBDA st, f : OnSpan(st, f, StoredEnd(f)), store, listed)
        /\ \A k \in 1 .. Len(listed) : r[k] = OnSpan(r[k - 1], listed[k], StoredEnd(listed[k]))
  BY <1>2, <1>3, SpansFold DEF StoreInv
<1> DEFINE n == Len(listed)
<1>5. n \in Nat /\ DOMAIN listed = 1 .. n /\ \A k \in 1 .. n : listed[k] \in Frame /\ listed[k].kind = "start"
  BY <1>2, SeqFacts DEF FramesOf
<1>6. 0 \in 0 .. n /\ n \in 0 .. n /\ \A k \in 1 .. n : k \in 0 .. n /\ k - 1 \in 0 .. n
  BY <1>5
<1>7. \A k \in 1 .. n : r[k] = OnSpan(r[k - 1], listed[k], StoredEnd(listed[k]))
  BY <1>4
<1>8. r[0] = store /\ r[n] = store'
  BY <1>1, <1>4
<1> HIDE DEF n
<1>9. r \in [0 .. n -> GoodStores]
  BY <1>4 DEF n
<1>10. ASSUME NEW k \in 1 .. n
       PROVE  /\ Adds(r[k - 1], r[k], listed[k]) /\ Shows(r[k], {listed[k]}, listed[k])
              /\ r[k].index.span[SpanId(listed[k])].end = StoredEnd(listed[k])
  <2> DEFINE d == r[k - 1]
             f == listed[k]
             end == StoredEnd(f)
  <2>1. d \in GoodStores /\ f \in Frame /\ f.kind = "start" /\ r[k] = OnSpan(d, f, end) /\ EndStored(f, end)
    BY <1>3, <1>5, <1>6, <1>7, <1>9
  <2> HIDE DEF d, f, end
  <2>2. end \in 1 .. Forever /\ (end = Forever \/ \E g \in Spanned : g.id = f.id /\ end = g.at)
    BY <2>1 DEF EndStored
  <2> DEFINE st2 == OnSpan(d, f, end)
  <2>3. Adds(d, st2, f) /\ Shows(st2, {f}, f) /\ st2.index.span[SpanId(f)].end = end
    BY <2>1, <2>2, OnSpanGood
  <2>4. r[k] = st2
    BY <2>1
  <2> HIDE DEF st2
  <2> QED
    BY <2>3, <2>4 DEF d, f, end
<1>11. Gains(r[0], r[n], Range(listed))
  <2>1. \A k \in 1 .. n : listed[k] \in Frame /\ Gains(r[k - 1], r[k], {listed[k]})
    BY <1>5, <1>10, GainsOne
  <2> QED
    BY <1>5, <1>9, <2>1, RunGains
<1> DEFINE Right(d, k) == \A j \in 1 .. k : /\ SpanId(listed[j]) \in DOMAIN d.index.span
                                            /\ d.index.span[SpanId(listed[j])].end = StoredEnd(listed[j])
           A == [k \in 0 .. n |-> {d \in GoodStores : Right(d, k)}]
<1>12. \A k \in 0 .. n : r[k] \in A[k] <=> Right(r[k], k)
  BY <1>9
<1>13. Right(r[0], 0)
  OBVIOUS
<1>14. ASSUME NEW k \in 1 .. n, Right(r[k - 1], k - 1) PROVE Right(r[k], k)
  <2>1. ASSUME NEW j \in 1 .. k
        PROVE  SpanId(listed[j]) \in DOMAIN r[k].index.span /\ r[k].index.span[SpanId(listed[j])].end = StoredEnd(listed[j])
    <3>1. j \in 1 .. n
      BY <1>5
    <3>2. CASE listed[j] = listed[k]
      BY <1>5, <1>10, <3>2 DEF Shows
    <3>3. CASE listed[j] # listed[k]
      <4>1. j \in 1 .. (k - 1)
        BY <3>3
      <4>2. SpanId(listed[j]) \in DOMAIN r[k - 1].index.span /\ r[k - 1].index.span[SpanId(listed[j])].end = StoredEnd(listed[j])
        BY <1>14, <4>1
      <4>3. listed[j].id # listed[k].id
        <5>1. /\ listed[j] \in Spanned /\ listed[k] \in Spanned
              /\ listed[j].kind = "start" /\ listed[k].kind = "start"
          BY <1>5, <3>1 DEF Spanned
        <5> QED
          BY <3>3, <5>1, NameAssumption
      <4>4. ~Named(listed[k], SpanId(listed[j]))
        BY <4>3 DEF Named, SpanId
      <4> QED
        BY <1>10, <4>2, <4>4 DEF Adds
    <3> QED
      BY <3>2, <3>3
  <2> QED
    BY <2>1
<1> HIDE DEF Right, A
<1>15. \A k \in 0 .. n : r[k] \in A[k]
  <2>1. r[0] \in A[0]
    BY <1>6, <1>12, <1>13
  <2>2. \A k \in 1 .. n : r[k - 1] \in A[k - 1] => r[k] \in A[k]
    BY <1>6, <1>12, <1>14
  <2> QED
    BY <1>5, <2>1, <2>2, StepsReach
<1>16. Right(r[n], n)
  BY <1>6, <1>12, <1>15
<1>17. ASSUME NEW f \in said, f.kind = "start"
       PROVE  SpanId(f) \in DOMAIN store'.index.span /\ store'.index.span[SpanId(f)].end = StoredEnd(f)
  <2>1. f \in Range(listed)
    BY <1>17, OrdersAll
  <2>2. PICK j \in 1 .. n : f = listed[j]
    BY <1>5, <2>1 DEF Range
  <2> QED
    BY <1>8, <1>16, <2>2 DEF Right
<1> QED
  BY <1>6, <1>8, <1>9, <1>11, <1>17, OrdersAll

EventKinds == {"plan", "drift", "cancel", "delegation"}

LEMMA RangeOfConcat ==
  ASSUME NEW X, NEW s \in Seq(X), NEW u \in Seq(X)
  PROVE  s \o u \in Seq(X) /\ Range(s \o u) = Range(s) \union Range(u)
<1>1. /\ s \o u \in Seq(X) /\ Len(s \o u) = Len(s) + Len(u)
      /\ \A i \in 1 .. Len(s) + Len(u) : (s \o u)[i] = IF i <= Len(s) THEN s[i] ELSE u[i - Len(s)]
  BY ConcatProperties
<1>2. /\ DOMAIN s = 1 .. Len(s) /\ DOMAIN u = 1 .. Len(u) /\ DOMAIN (s \o u) = 1 .. Len(s) + Len(u)
      /\ Len(s) \in Nat /\ Len(u) \in Nat
  BY <1>1, SeqFacts
<1>3. ASSUME NEW i \in DOMAIN s PROVE \E k \in DOMAIN (s \o u) : (s \o u)[k] = s[i]
  BY <1>1, <1>2
<1>4. ASSUME NEW i \in DOMAIN u PROVE \E k \in DOMAIN (s \o u) : (s \o u)[k] = u[i]
  <2>1. Len(s) + i \in 1 .. Len(s) + Len(u) /\ ~(Len(s) + i <= Len(s)) /\ Len(s) + i - Len(s) = i
    BY <1>2
  <2> QED
    BY <1>1, <1>2, <2>1
<1>5. ASSUME NEW k \in DOMAIN (s \o u) PROVE (\E i \in DOMAIN s : (s \o u)[k] = s[i]) \/ \E i \in DOMAIN u : (s \o u)[k] = u[i]
  <2>1. CASE k <= Len(s)
    BY <1>1, <1>2, <2>1
  <2>2. CASE ~(k <= Len(s))
    <3>1. k - Len(s) \in 1 .. Len(u)
      BY <1>2, <2>2
    <3> QED
      BY <1>1, <1>2, <2>2, <3>1
  <2> QED
    BY <2>1, <2>2
<1>6. Range(s) \subseteq Range(s \o u) /\ Range(u) \subseteq Range(s \o u)
  <2> DEFINE both == s \o u
  <2>1. (\A i \in DOMAIN s : \E k \in DOMAIN both : both[k] = s[i]) /\ \A i \in DOMAIN u : \E k \in DOMAIN both : both[k] = u[i]
    BY <1>3, <1>4
  <2> HIDE DEF both
  <2>2. Range(s) \subseteq Range(both)
    BY <2>1 DEF Range
  <2>3. Range(u) \subseteq Range(both)
    BY <2>1 DEF Range
  <2> QED
    BY <2>2, <2>3 DEF both
<1>7. Range(s \o u) \subseteq Range(s) \union Range(u)
  BY <1>5 DEF Range
<1> QED
  BY <1>1, <1>6, <1>7

LEMMA PackAllKept ==
  ASSUME NEW st \in GoodStores
  PROVE  PackAll(st) \in GoodStores /\ Gains(st, PackAll(st), {})
<1> DEFINE xs == st.agents
           n == Len(xs)
<1>1. PackAll(st) = FoldLeft(Repack, st, xs)
  BY DEF PackAll
<1>2. xs \in Seq(Agent)
  BY StoreFacts DEF GoodStores
<1> HIDE DEF xs
<1>3. PICK r \in [0 .. Len(xs) -> GoodStores] :
        /\ r[0] = st /\ r[Len(xs)] = FoldLeft(Repack, st, xs)
        /\ \A k \in 1 .. Len(xs) : r[k] = Repack(r[k - 1], xs[k])
  BY <1>2, RepackFold
<1>4. n \in Nat /\ \A k \in 1 .. n : xs[k] \in Agent
  BY <1>2, SeqFacts
<1>5. n \in 0 .. n /\ \A k \in 1 .. n : k - 1 \in 0 .. n
  BY <1>4
<1>6. r \in [0 .. n -> GoodStores] /\ \A k \in 1 .. n : r[k] = Repack(r[k - 1], xs[k])
  BY <1>3
<1>7. r[0] = st /\ r[n] = PackAll(st)
  BY <1>1, <1>3
<1> HIDE DEF n
<1> DEFINE S == [k \in 1 .. n |-> {}]
<1>8. S \in [1 .. n -> SUBSET Frame] /\ \A k \in 1 .. n : S[k] = {}
  OBVIOUS
<1>9. UNION {S[k] : k \in 1 .. n} = {}
  OBVIOUS
<1> HIDE DEF S
<1>10. ASSUME NEW k \in 1 .. n PROVE Gains(r[k - 1], r[k], S[k])
  <2>1. r[k - 1] \in GoodStores /\ xs[k] \in Agent /\ r[k] = Repack(r[k - 1], xs[k])
    BY <1>4, <1>5, <1>6
  <2>2. Kept(r[k - 1], r[k])
    BY <2>1, RepackGood
  <2>3. Gains(r[k - 1], r[k], {})
    BY <2>2, GainsNone
  <2> QED
    BY <1>8, <2>3
<1>11. Gains(r[0], r[n], UNION {S[k] : k \in 1 .. n})
  BY <1>4, <1>6, <1>8, <1>10, GainsByRun
<1>12. Gains(r[0], r[n], {})
  BY <1>9, <1>11
<1>13. r[n] \in GoodStores
  BY <1>5, <1>6
<1> QED
  BY <1>7, <1>12, <1>13

(* The burst's events are those that are said, each read.                  *)
LEMMA BurstEvents ==
  ASSUME StoreInv, NEW plans \in Orders({"plan"}), NEW drifts \in Orders({"drift"}),
         NEW cancels \in Orders({"cancel"}), NEW edges \in Orders({"delegation"})
  PROVE  LET events == plans \o drifts \o cancels \o edges IN
         /\ events \in Seq(FramesOf({"plan", "drift", "cancel", "delegation"}))
         /\ Range(events) = {f \in said : f.kind \in EventKinds}
<1> DEFINE K == FramesOf({"plan", "drift", "cancel", "delegation"})
           events == plans \o drifts \o cancels \o edges
<1>1. plans \in Seq(K) /\ drifts \in Seq(K) /\ cancels \in Seq(K) /\ edges \in Seq(K)
  <2>1. /\ plans \in Seq(FramesOf({"plan"})) /\ drifts \in Seq(FramesOf({"drift"}))
        /\ cancels \in Seq(FramesOf({"cancel"})) /\ edges \in Seq(FramesOf({"delegation"}))
    BY OrdersTyped DEF StoreInv
  <2>2. /\ FramesOf({"plan"}) \subseteq K /\ FramesOf({"drift"}) \subseteq K
        /\ FramesOf({"cancel"}) \subseteq K /\ FramesOf({"delegation"}) \subseteq K
    BY DEF FramesOf
  <2> HIDE DEF K
  <2> QED
    BY <2>1, <2>2, SeqMonotonic
<1>2. events \in Seq(K) /\ Range(events) = Range(plans) \union Range(drifts) \union Range(cancels) \union Range(edges)
  <2> HIDE DEF K
  <2> DEFINE two == plans \o drifts
             three == two \o cancels
  <2>1. two \in Seq(K) /\ Range(two) = Range(plans) \union Range(drifts)
    BY <1>1, RangeOfConcat
  <2>2. three \in Seq(K) /\ Range(three) = Range(two) \union Range(cancels)
    <3> HIDE DEF two
    <3> QED
      BY <1>1, <2>1, RangeOfConcat
  <2>3. events = three \o edges
    OBVIOUS
  <2> HIDE DEF two, three, events
  <2>4. events \in Seq(K) /\ Range(events) = Range(three) \union Range(edges)
    BY <1>1, <2>2, <2>3, RangeOfConcat
  <2> QED
    BY <2>1, <2>2, <2>4
<1>3. Range(events) = {f \in said : f.kind \in EventKinds}
  <2>1. /\ Range(plans) = {f \in said : f.kind \in {"plan"}} /\ Range(drifts) = {f \in said : f.kind \in {"drift"}}
        /\ Range(cancels) = {f \in said : f.kind \in {"cancel"}} /\ Range(edges) = {f \in said : f.kind \in {"delegation"}}
    BY OrdersAll
  <2> QED
    BY <1>2, <2>1 DEF EventKinds
<1> QED
  BY <1>2, <1>3

LEMMA ReadEventsGains ==
  ASSUME StoreInv, ReadEvents
  PROVE  store' \in GoodStores /\ Gains(store, store', {f \in said : f.kind \in EventKinds})
<1>1. PICK plans \in Orders({"plan"}), drifts \in Orders({"drift"}),
           cancels \in Orders({"cancel"}), edges \in Orders({"delegation"}) :
        store' = PackAll(FoldLeft(OnEvent, store, plans \o drifts \o cancels \o edges))
  BY DEF ReadEvents
<1> DEFINE K == FramesOf({"plan", "drift", "cancel", "delegation"})
           events == plans \o drifts \o cancels \o edges
           st == FoldLeft(OnEvent, store, events)
<1>3. events \in Seq(K)
  BY BurstEvents
<1>4. Range(events) = {f \in said : f.kind \in EventKinds}
  BY BurstEvents
<1> HIDE DEF events
<1>5. PICK r \in [0 .. Len(events) -> GoodStores] :
        /\ r[0] = store /\ r[Len(events)] = st
        /\ \A k \in 1 .. Len(events) : r[k] = OnEvent(r[k - 1], events[k])
  BY <1>3, EventsFold DEF StoreInv
<1> DEFINE n == Len(events)
<1>6. n \in Nat /\ DOMAIN events = 1 .. n /\ \A k \in 1 .. n : events[k] \in K
  BY <1>3, SeqFacts
<1>7. n \in 0 .. n /\ \A k \in 1 .. n : k - 1 \in 0 .. n
  BY <1>6
<1>8. r \in [0 .. n -> GoodStores] /\ r[0] = store /\ r[n] = st /\ \A k \in 1 .. n : r[k] = OnEvent(r[k - 1], events[k])
  BY <1>5
<1> HIDE DEF n, st
<1>9. \A k \in 1 .. n : events[k] \in Frame /\ Gains(r[k - 1], r[k], {events[k]})
  BY <1>6, <1>7, <1>8, OnEventGood, GainsOne DEF FramesOf
<1>10. st \in GoodStores /\ Gains(store, st, Range(events))
  <2>1. Gains(r[0], r[n], Range(events))
    BY <1>6, <1>8, <1>9, RunGains
  <2> QED
    BY <1>7, <1>8, <2>1
<1>11. store' = PackAll(st)
  BY <1>1 DEF st, events
<1>12. store' \in GoodStores /\ Gains(st, store', {})
  BY <1>10, <1>11, PackAllKept
<1>13. Range(events) \in SUBSET Frame /\ {} \in SUBSET Frame /\ Range(events) \union {} = Range(events)
  BY <1>4 DEF StoreInv
<1>14. Gains(store, store', Range(events) \union {})
  BY <1>10, <1>12, <1>13, GainsTwice
<1> QED
  BY <1>4, <1>12, <1>13, <1>14

LEMMA DeliverGains ==
  ASSUME StoreInv, Deliver
  PROVE  LET f == Head(queue) IN
         /\ f \in Frame /\ Tail(queue) \in Seq(Frame)
         /\ store' \in GoodStores /\ Gains(store, store', {f})
         /\ f.kind = "start" => store'.index.span[SpanId(f)].end = Forever
         /\ f.kind = "end" /\ SpanId(f) \in DOMAIN store.index.span => store'.index.span[SpanId(f)].end = f.at
<1> DEFINE f == Head(queue)
<1>1. f \in Frame /\ Tail(queue) \in Seq(Frame) /\ store' = OnFrame(store, f) /\ store \in GoodStores
  BY HeadTailProperties DEF Deliver, StoreInv
<1> HIDE DEF f
<1>2. Adds(store, store', f) /\ Shows(store', {f}, f)
  BY <1>1, OnFrameGood
<1>3. Gains(store, store', {f})
  BY <1>1, <1>2, GainsOne
<1> QED
  BY <1>1, <1>3, OnFrameGood DEF f

LEMMA NextStoreInv == StoreInv /\ [StoreNext]_storeVars => StoreInv'
<1> SUFFICES ASSUME StoreInv, [StoreNext]_storeVars PROVE StoreInv'
  OBVIOUS
<1>1. ASSUME NEW f \in Frame, Say(f) PROVE StoreInv'
  <2>1. IsFiniteSet(said \union {f})
    BY FS_AddElement DEF StoreInv
  <2>2. queue' \in Seq(Frame)
    BY <1>1 DEF Say, StoreInv
  <2> QED
    BY <1>1, <2>1, <2>2 DEF Say, StoreInv
<1>2. CASE Open
  BY <1>2, StoreBounds DEF Open, StoreInv
<1>3. CASE ReadAgents
  BY <1>3, ReadAgentsGains DEF ReadAgents, StoreInv
<1>4. CASE ReadSpans
  BY <1>4, ReadSpansGains DEF ReadSpans, StoreInv
<1>5. CASE ReadEvents
  BY <1>5, ReadEventsGains DEF ReadEvents, StoreInv
<1>6. CASE Deliver
  BY <1>6, DeliverGains DEF Deliver, StoreInv
<1>7. CASE Leave
  <2>1. <<>> \in Seq(Frame)
    OBVIOUS
  <2> QED
    BY <1>7, <2>1 DEF Leave, StoreInv
<1>8. CASE UNCHANGED storeVars
  BY <1>8 DEF storeVars, StoreInv
<1> QED
  BY <1>1, <1>2, <1>3, <1>4, <1>5, <1>6, <1>7, <1>8 DEF StoreNext

LEMMA StoreInvImplies == StoreInv => StoreConsistent
<1> SUFFICES ASSUME StoreInv PROVE StoreConsistent
  OBVIOUS
<1>1. /\ store \in Stores /\ GoodRows(store) /\ NoSpansUnknown(store) /\ OneRow(store)
      /\ index = store.index /\ index \in GoodIndexes
  BY DEF StoreInv, GoodStores, GoodRows, index
<1> HIDE DEF index
<1>2. \A a \in Agent : /\ IsInjective(index.rows[a]) /\ Ordered(Starts(index.span), index.rows[a])
                       /\ Range(index.rows[a]) = {x \in DOMAIN index.span : index.span[x].agent = a}
  BY <1>1, RowsListed
<1>3. index.span \in SpanMaps
  BY <1>1, IndexFacts DEF GoodIndexes
<1>4. StoreTypeOK
  <2>1. \A x \in Indexed : index.span[x].end \in 1 .. Forever /\ index.span[x].lane \in Nat
    BY <1>3, SpanMapFacts, ShapeFacts DEF Indexed
  <2> QED
    BY <1>1, <1>2, <2>1 DEF StoreTypeOK, StoreInv, GoodRows, Lists, Indexed
<1>5. RowsSorted
  <2>1. ASSUME NEW a \in Agent PROVE RowIsSorted(index, a)
    <3> DEFINE row == index.rows[a]
    <3>1. \A i \in DOMAIN row : row[i] \in DOMAIN index.span
      BY <1>2 DEF Range
    <3>2. \A i \in DOMAIN row : Starts(index.span)[row[i]] = index.span[row[i]].start
      BY <1>3, <3>1, StartsFacts
    <3>3. row \in Seq(SpanName) /\ DOMAIN row = 1 .. Len(row) /\ Len(row) \in Nat
      BY <1>1, IndexFacts, SeqFacts DEF GoodIndexes
    <3>4. ASSUME NEW i \in DOMAIN row, NEW j \in DOMAIN row, i < j
          PROVE  row[i] # row[j] /\ index.span[row[i]].start <= index.span[row[j]].start
      <4>1. i # j
        BY <3>3, <3>4
      <4>2. row[i] # row[j]
        BY <1>2, <4>1 DEF IsInjective
      <4>3. Starts(index.span)[row[i]] <= Starts(index.span)[row[j]]
        BY <1>2, <3>4 DEF Ordered
      <4> QED
        BY <3>2, <4>2, <4>3
    <3> QED
      BY <3>4 DEF RowIsSorted
  <2> QED
    BY <2>1 DEF RowsSorted
<1>6. OneOrchestrator
  BY <1>1, ResolveFacts DEF OneOrchestrator, OneRow, NoSpansUnknown
<1>7. DelegationsOnce
  BY <1>1 DEF DelegationsOnce, GoodRows
<1> QED
  BY <1>4, <1>5, <1>6, <1>7 DEF StoreConsistent

(* Whichever frames a tab reads, from the burst, the queue or both, its    *)
(* rows, spans and arrows stand once and in order, and the orchestrator    *)
(* has one row (StoreConsistent).                                          *)
THEOREM StoreIsConsistent == StoreSpec => []StoreConsistent
<1>1. StoreInit => StoreInv
  BY InitStoreInv
<1>2. StoreInv /\ [StoreNext]_storeVars => StoreInv'
  BY NextStoreInv
<1>3. StoreInv => StoreConsistent
  BY StoreInvImplies
<1> QED
  BY <1>1, <1>2, <1>3, PTL DEF StoreSpec
-----------------------------------------------------------------------------
(* Catching up.  The kinds of rows the reader has still to read.           *)
Unread(where) ==
  CASE where \in {"away", "agents"} -> {"agent", "start"} \union EventKinds
    [] where = "spans" -> {"start"} \union EventKinds
    [] where = "events" -> EventKinds
    [] OTHER -> {}

(* What is said is shown, or waits in the queue, or among the rows.        *)
ShownOrComing == \A f \in said : Shows(store, said, f) \/ f \in Range(queue) \/ f.kind \in Unread(reader)

(* The queue holds what was said, once, and a span's end behind its start. *)
QueueTrue ==
  /\ Range(queue) \subseteq said /\ IsInjective(queue) /\ (reader = "away" => queue = <<>>)
  /\ \A g \in said : g.kind = "end" => \E f \in said : EndOf(f, g)
  /\ \A i \in DOMAIN queue : \A g \in said : EndOf(queue[i], g) => \E j \in DOMAIN queue : i < j /\ queue[j] = g

(* A span that is shown runs while no end of it is said; it has its end    *)
(* once the rows of spans are read, unless the end is still to come.       *)
EndsTrue ==
  \A f \in Frame : f.kind = "start" =>
    /\ (\A g \in said : ~EndOf(f, g)) /\ SpanId(f) \in DOMAIN store.index.span =>
          store.index.span[SpanId(f)].end = Forever
    /\ \A g \in said : EndOf(f, g) /\ g \notin Range(queue) /\ reader \in {"events", "live"} =>
          SpanId(f) \in DOMAIN store.index.span /\ store.index.span[SpanId(f)].end = g.at

CatchInv == StoreInv /\ ShownOrComing /\ QueueTrue /\ EndsTrue

(* Only its start and its end name a span, and each span has one of each.  *)
LEMMA NamesOfSpan ==
  ASSUME NEW f \in Frame, f.kind = "start", NEW g \in Frame, Named(g, SpanId(f))
  PROVE  g = f \/ (EndOf(f, g) /\ SpanId(g) = SpanId(f))
<1>1. f \in Spanned /\ g \in Spanned /\ g.id = f.id
  BY DEF Spanned, Named, SpanId
<1> QED
  BY <1>1, NameAssumption DEF EndOf, SpanId

LEMMA OneEnd ==
  ASSUME NEW f \in Frame, NEW h \in Frame, NEW g \in Frame, EndOf(f, g)
  PROVE  /\ SpanId(g) = SpanId(f) /\ Named(g, SpanId(f))
         /\ EndOf(h, g) => h = f
         /\ EndOf(f, h) => h = g
<1>1. f \in Spanned /\ g \in Spanned /\ g.id = f.id /\ f.kind = "start" /\ g.kind = "end"
  BY DEF Spanned, EndOf
<1>2. SpanId(g) = SpanId(f) /\ Named(g, SpanId(f))
  BY <1>1, NameAssumption DEF SpanId, Named
<1>3. EndOf(h, g) => h = f
  BY <1>1, NameAssumption DEF EndOf, Spanned
<1>4. EndOf(f, h) => h = g
  BY <1>1, NameAssumption DEF EndOf, Spanned
<1> QED
  BY <1>2, <1>3, <1>4

LEMMA InitCatchInv == StoreInit => CatchInv
<1> SUFFICES ASSUME StoreInit PROVE CatchInv
  OBVIOUS
<1>1. said = {} /\ queue = <<>> /\ store.index.span = <<>> /\ DOMAIN <<>> = {}
  BY DEF StoreInit, EmptyStore, EmptyIndex
<1>2. ShownOrComing /\ EndsTrue
  BY <1>1 DEF ShownOrComing, EndsTrue
<1>3. QueueTrue
  BY <1>1 DEF QueueTrue, Range, IsInjective
<1> QED
  BY <1>2, <1>3, InitStoreInv DEF CatchInv

(* What a reading of rows gains leaves the rest shown, or to come.         *)
LEMMA ReadShows ==
  ASSUME StoreInv, ShownOrComing, NEW kinds, Gains(store, store', {f \in said : f.kind \in kinds}),
         said' = said, queue' = queue, Unread(reader) \subseteq Unread(reader') \union kinds
  PROVE  ShownOrComing'
<1> DEFINE S == {f \in said : f.kind \in kinds}
<1>1. S \subseteq said /\ said \subseteq Frame /\ said \union S = said
  BY DEF StoreInv
<1>2. ASSUME NEW f \in said
      PROVE  Shows(store', said, f) \/ f \in Range(queue) \/ f.kind \in Unread(reader')
  <2>1. CASE f.kind \in kinds
    <3>1. f \in S
      BY <2>1
    <3> HIDE DEF S
    <3>2. Shows(store', S, f)
      BY <3>1 DEF Gains, S
    <3> QED
      BY <1>1, <3>2, MoreTold
  <2>2. CASE Shows(store, said, f)
    <3>1. f \in Frame /\ said \in SUBSET Frame
      BY <1>1
    <3>2. Shows(store', said \union S, f)
      BY <2>2, <3>1 DEF Gains
    <3> QED
      BY <1>1, <3>2
  <2>3. CASE f.kind \notin kinds /\ ~Shows(store, said, f)
    BY <2>3 DEF ShownOrComing
  <2> QED
    BY <2>1, <2>2, <2>3
<1> QED
  BY <1>2 DEF ShownOrComing

(* Rows that name no span leave the ends as they are.                      *)
LEMMA ReadEnds ==
  ASSUME StoreInv, EndsTrue, NEW kinds, {"start", "end"} \intersect kinds = {},
         Gains(store, store', {f \in said : f.kind \in kinds}), said' = said, queue' = queue,
         reader' \in {"events", "live"} => reader \in {"events", "live"}
  PROVE  EndsTrue'
<1>1. ASSUME NEW f \in Frame, f.kind = "start", SpanId(f) \in DOMAIN store'.index.span
      PROVE  SpanId(f) \in DOMAIN store.index.span /\ store'.index.span[SpanId(f)].end = store.index.span[SpanId(f)].end
  <2>1. \A g \in {h \in said : h.kind \in kinds} : ~Named(g, SpanId(f))
    <3>1. \A g \in said : Named(g, SpanId(f)) => g.kind \in {"start", "end"}
      BY <1>1, NamesOfSpan DEF EndOf, StoreInv
    <3> QED
      BY <3>1
  <2> QED
    BY <1>1, <2>1 DEF Gains
<1>2. DOMAIN store.index.span \subseteq DOMAIN store'.index.span
  BY DEF Gains
<1> QED
  BY <1>1, <1>2 DEF EndsTrue

LEMMA SayCatches ==
  ASSUME CatchInv, NEW h \in Frame, Say(h), StoreInv'
  PROVE  CatchInv'
<1> USE DEF CatchInv
<1>1. /\ h \notin said /\ MayFollow(h) /\ said' = said \union {h} /\ reader' = reader /\ store' = store
      /\ queue' = IF reader = "away" THEN queue ELSE Append(queue, h)
      /\ queue \in Seq(Frame) /\ said \subseteq Frame
  BY DEF Say, StoreInv
<1>2. /\ DOMAIN queue = 1 .. Len(queue) /\ Len(queue) \in Nat
      /\ \A i \in DOMAIN queue : queue[i] \in said /\ queue[i] # h
  BY <1>1, SeqFacts DEF QueueTrue, Range
<1>3. CASE reader = "away"
  <2>1. queue' = <<>> /\ queue = <<>> /\ reader' = "away" /\ DOMAIN <<>> = {}
    BY <1>1, <1>3 DEF QueueTrue
  <2>2. ShownOrComing'
    <3>1. Shows(store, {h}, h) \/ h.kind \in Unread("away")
      BY FrameFacts DEF Shows, Unread, EventKinds
    <3> QED
      BY <1>1, <1>3, <2>1, <3>1, MoreTold DEF ShownOrComing
  <2>3. QueueTrue'
    <3>1. \A g \in said' : g.kind = "end" => \E f \in said' : EndOf(f, g)
      BY <1>1 DEF QueueTrue, MayFollow, EndOf
    <3> QED
      BY <2>1, <3>1 DEF QueueTrue, Range, IsInjective
  <2>4. EndsTrue'
    BY <1>1, <1>3 DEF EndsTrue
  <2> QED
    BY <2>2, <2>3, <2>4
<1>4. CASE reader # "away"
  <2>1. /\ DOMAIN queue' = 1 .. Len(queue) + 1 /\ queue'[Len(queue) + 1] = h
        /\ \A i \in DOMAIN queue : queue'[i] = queue[i]
    BY <1>1, <1>2, <1>4
  <2>2. /\ \A i \in DOMAIN queue' : \/ i \in DOMAIN queue /\ queue'[i] = queue[i]
                                    \/ i = Len(queue) + 1 /\ queue'[i] = h
        /\ DOMAIN queue \subseteq DOMAIN queue' /\ Len(queue) + 1 \in DOMAIN queue'
        /\ \A i \in DOMAIN queue : i < Len(queue) + 1
    BY <1>2, <2>1
  <2>3. Range(queue') = Range(queue) \union {h}
    BY <2>1, <2>2 DEF Range
  <2>4. ShownOrComing'
    BY <1>1, <2>3, MoreTold DEF ShownOrComing
  <2>5. QueueTrue'
    <3>1. IsInjective(queue')
      <4>1. \A i, j \in DOMAIN queue : queue[i] = queue[j] => i = j
        BY DEF QueueTrue, IsInjective
      <4>2. \A i, j \in DOMAIN queue' : queue'[i] = queue'[j] => i = j
        BY <1>2, <2>2, <4>1
      <4> QED
        BY <4>2 DEF IsInjective
    <3>2. Range(queue') \subseteq said'
      BY <1>1, <2>3 DEF QueueTrue
    <3>3. \A g \in said' : g.kind = "end" => \E f \in said' : EndOf(f, g)
      BY <1>1 DEF QueueTrue, MayFollow, EndOf
    <3>4. ASSUME NEW i \in DOMAIN queue', NEW g \in said', EndOf(queue'[i], g)
          PROVE  \E j \in DOMAIN queue' : i < j /\ queue'[j] = g
      <4>1. CASE i \in DOMAIN queue /\ g \in said
        <5>1. PICK j \in DOMAIN queue : i < j /\ queue[j] = g
          BY <2>1, <3>4, <4>1 DEF QueueTrue
        <5> QED
          BY <2>1, <2>2, <5>1
      <4>2. CASE i \in DOMAIN queue /\ g = h
        BY <2>1, <2>2, <4>2
      <4>3. CASE i \notin DOMAIN queue
        <5>1. EndOf(h, g)
          BY <2>2, <3>4, <4>3
        <5>2. g \in said
          BY <1>1, <5>1 DEF EndOf
        <5>3. PICK f \in said : EndOf(f, g)
          BY <5>1, <5>2 DEF QueueTrue, EndOf
        <5>4. h = f
          BY <1>1, <5>1, <5>2, <5>3, OneEnd
        <5> QED
          BY <1>1, <5>3, <5>4
      <4> QED
        BY <1>1, <4>1, <4>2, <4>3
    <3> QED
      BY <1>1, <1>4, <3>1, <3>2, <3>3, <3>4 DEF QueueTrue
  <2>6. EndsTrue'
    BY <1>1, <2>3 DEF EndsTrue
  <2> QED
    BY <2>4, <2>5, <2>6
<1> QED
  BY <1>3, <1>4

LEMMA DeliverCatches ==
  ASSUME CatchInv, Deliver, StoreInv'
  PROVE  CatchInv'
<1> USE DEF CatchInv
<1> DEFINE h == Head(queue)
<1>1. /\ reader = "live" /\ reader' = "live" /\ said' = said /\ queue' = Tail(queue) /\ queue # <<>>
      /\ queue \in Seq(Frame) /\ said \subseteq Frame
  BY DEF Deliver, StoreInv
<1>2. /\ h \in Frame /\ Gains(store, store', {h})
      /\ h.kind = "start" => store'.index.span[SpanId(h)].end = Forever
      /\ h.kind = "end" /\ SpanId(h) \in DOMAIN store.index.span => store'.index.span[SpanId(h)].end = h.at
  BY DeliverGains
<1>3. /\ DOMAIN queue = 1 .. Len(queue) /\ Len(queue) \in Nat /\ Len(queue) > 0 /\ h = queue[1]
      /\ DOMAIN queue' = 1 .. Len(queue) - 1 /\ \A i \in 1 .. Len(queue) - 1 : queue'[i] = queue[i + 1]
  BY <1>1
<1> HIDE DEF h
<1>4. /\ 1 \in DOMAIN queue /\ h \in said
      /\ \A i \in DOMAIN queue' : i + 1 \in DOMAIN queue /\ queue'[i] = queue[i + 1] /\ i + 1 # 1
      /\ \A i \in DOMAIN queue : i # 1 => i - 1 \in DOMAIN queue' /\ queue'[i - 1] = queue[i]
  BY <1>3 DEF QueueTrue, Range
<1>5. \A i, j \in DOMAIN queue : queue[i] = queue[j] => i = j
  BY DEF QueueTrue, IsInjective
<1>6. Range(queue) = Range(queue') \union {h} /\ h \notin Range(queue')
  <2>1. Range(queue') \subseteq Range(queue)
    BY <1>4 DEF Range
  <2>2. \A x \in Range(queue) : x = h \/ x \in Range(queue')
    BY <1>3, <1>4 DEF Range
  <2>3. h \in Range(queue)
    BY <1>3, <1>4 DEF Range
  <2>4. h \notin Range(queue')
    BY <1>3, <1>4, <1>5 DEF Range
  <2> QED
    BY <2>1, <2>2, <2>3, <2>4
<1>7. ShownOrComing'
  <2>1. said \union {h} = said /\ said \in SUBSET Frame
    BY <1>1, <1>4
  <2>2. Shows(store', said, h)
    BY <1>2, <1>4, MoreTold DEF Gains
  <2>3. \A f \in said : Shows(store, said, f) => Shows(store', said, f)
    <3>1. \A f \in said : Shows(store, said, f) => Shows(store', said \union {h}, f)
      BY <1>2, <2>1 DEF Gains
    <3> QED
      BY <2>1, <3>1
  <2> QED
    BY <1>1, <1>6, <2>2, <2>3 DEF ShownOrComing
<1>8. QueueTrue'
  <2>1. IsInjective(queue')
    <3>1. \A i, j \in DOMAIN queue' : queue'[i] = queue'[j] => i = j
      BY <1>3, <1>4, <1>5
    <3> QED
      BY <3>1 DEF IsInjective
  <2>2. ASSUME NEW i \in DOMAIN queue', NEW g \in said, EndOf(queue'[i], g)
        PROVE  \E j \in DOMAIN queue' : i < j /\ queue'[j] = g
    <3>1. PICK j \in DOMAIN queue : i + 1 < j /\ queue[j] = g
      BY <1>4, <2>2 DEF QueueTrue
    <3>2. j # 1 /\ i < j - 1
      BY <1>3, <3>1
    <3> QED
      BY <1>4, <3>1, <3>2
  <2> QED
    BY <1>1, <1>6, <2>1, <2>2 DEF QueueTrue
<1>9. EndsTrue'
  <2>0. \A x \in DOMAIN store'.index.span : ~Named(h, x) =>
          x \in DOMAIN store.index.span /\ store'.index.span[x].end = store.index.span[x].end
    BY <1>2 DEF Gains
  <2>1. ASSUME NEW f \in Frame, f.kind = "start", \A g \in said : ~EndOf(f, g), SpanId(f) \in DOMAIN store'.index.span
        PROVE  store'.index.span[SpanId(f)].end = Forever
    <3>1. CASE Named(h, SpanId(f))
      <4>1. h = f
        BY <1>2, <1>4, <2>1, <3>1, NamesOfSpan
      <4> QED
        BY <1>2, <2>1, <4>1
    <3>2. CASE ~Named(h, SpanId(f))
      BY <2>0, <2>1, <3>2 DEF EndsTrue
    <3> QED
      BY <3>1, <3>2
  <2>2. ASSUME NEW f \in Frame, f.kind = "start", NEW g \in said, EndOf(f, g), g \notin Range(queue')
        PROVE  SpanId(f) \in DOMAIN store'.index.span /\ store'.index.span[SpanId(f)].end = g.at
    <3>0. g \in Frame /\ DOMAIN store.index.span \subseteq DOMAIN store'.index.span
      BY <1>1, <1>2 DEF Gains
    <3>1. CASE h = g
      <4>1. PICK f2 \in said : EndOf(f2, g)
        BY <2>2 DEF QueueTrue, EndOf
      <4>2. f2 = f /\ f \in said
        BY <1>1, <2>2, <3>0, <4>1, OneEnd
      <4>3. f \notin Range(queue)
        <5> SUFFICES ASSUME f \in Range(queue) PROVE FALSE
          OBVIOUS
        <5>1. PICK i \in DOMAIN queue : queue[i] = f
          BY DEF Range
        <5>2. PICK j \in DOMAIN queue : i < j /\ queue[j] = g
          BY <2>2, <5>1 DEF QueueTrue
        <5>3. j = 1
          BY <1>3, <1>4, <1>5, <3>1, <5>2
        <5> QED
          BY <1>3, <5>1, <5>2, <5>3
      <4>4. Shows(store, said, f)
        BY <1>1, <4>2, <4>3 DEF ShownOrComing, Unread
      <4>5. SpanId(f) \in DOMAIN store.index.span /\ SpanId(g) = SpanId(f) /\ g.kind = "end"
        BY <2>2, <3>0, <4>4, OneEnd DEF Shows, EndOf
      <4> QED
        BY <1>2, <3>0, <3>1, <4>5
    <3>2. CASE h # g
      <4>1. g \notin Range(queue)
        BY <1>6, <2>2, <3>2
      <4>2. SpanId(f) \in DOMAIN store.index.span /\ store.index.span[SpanId(f)].end = g.at
        BY <1>1, <2>2, <4>1 DEF EndsTrue
      <4>3. ~Named(h, SpanId(f))
        <5> SUFFICES ASSUME Named(h, SpanId(f)) PROVE FALSE
          OBVIOUS
        <5>1. h = f \/ EndOf(f, h)
          BY <1>2, <2>2, NamesOfSpan
        <5>2. h = f
          BY <1>2, <2>2, <3>0, <3>2, <5>1, OneEnd
        <5>3. 1 \in DOMAIN queue /\ EndOf(queue[1], g)
          BY <1>3, <1>4, <2>2, <5>2
        <5>4. PICK j \in DOMAIN queue : 1 < j /\ queue[j] = g
          BY <5>3 DEF QueueTrue
        <5> QED
          BY <4>1, <5>4 DEF Range
      <4> QED
        BY <2>0, <3>0, <4>2, <4>3
    <3> QED
      BY <3>1, <3>2
  <2> QED
    BY <1>1, <2>1, <2>2 DEF EndsTrue
<1> QED
  BY <1>7, <1>8, <1>9

LEMMA ReadSpansCatches ==
  ASSUME CatchInv, ReadSpans, StoreInv'
  PROVE  CatchInv'
<1> USE DEF CatchInv
<1>1. reader = "spans" /\ reader' = "events" /\ said' = said /\ queue' = queue /\ said \subseteq Frame
  BY DEF ReadSpans, StoreInv
<1>2. /\ Gains(store, store', {f \in said : f.kind \in {"start"}})
      /\ \A f \in said : f.kind = "start" =>
           SpanId(f) \in DOMAIN store'.index.span /\ store'.index.span[SpanId(f)].end = StoredEnd(f)
  BY ReadSpansGains
<1>3. ShownOrComing'
  <2>1. Unread(reader) \subseteq Unread(reader') \union {"start"}
    BY <1>1 DEF Unread
  <2> QED
    BY <1>1, <1>2, <2>1, ReadShows
<1>4. QueueTrue'
  BY <1>1 DEF QueueTrue
<1>5. EndsTrue'
  <2>1. ASSUME NEW f \in Frame, f.kind = "start", \A g \in said : ~EndOf(f, g), SpanId(f) \in DOMAIN store'.index.span
        PROVE  store'.index.span[SpanId(f)].end = Forever
    <3>1. CASE f \in said
      BY <1>1, <1>2, <2>1, <3>1, StoredEndFacts
    <3>2. CASE f \notin said
      <4>1. \A g \in said : ~Named(g, SpanId(f))
        BY <1>1, <2>1, <3>2, NamesOfSpan
      <4>2. SpanId(f) \in DOMAIN store.index.span /\ store'.index.span[SpanId(f)].end = store.index.span[SpanId(f)].end
        BY <1>2, <2>1, <4>1 DEF Gains
      <4> QED
        BY <2>1, <4>2 DEF EndsTrue
    <3> QED
      BY <3>1, <3>2
  <2>2. ASSUME NEW f \in Frame, f.kind = "start", NEW g \in said, EndOf(f, g)
        PROVE  SpanId(f) \in DOMAIN store'.index.span /\ store'.index.span[SpanId(f)].end = g.at
    <3>1. PICK f2 \in said : EndOf(f2, g)
      BY <2>2 DEF QueueTrue, EndOf
    <3>2. f \in said
      BY <1>1, <2>2, <3>1, OneEnd
    <3>3. StoredEnd(f) = g.at
      BY <1>1, <2>2, StoredEndFacts
    <3> QED
      BY <1>2, <2>2, <3>2, <3>3
  <2> QED
    BY <1>1, <2>1, <2>2 DEF EndsTrue
<1> QED
  BY <1>3, <1>4, <1>5

LEMMA NextCatchInv == CatchInv /\ [StoreNext]_storeVars => CatchInv'
<1> SUFFICES ASSUME CatchInv, [StoreNext]_storeVars PROVE CatchInv'
  OBVIOUS
<1>0. StoreInv' /\ StoreInv
  BY NextStoreInv DEF CatchInv
<1>1. ASSUME NEW f \in Frame, Say(f) PROVE CatchInv'
  BY <1>0, <1>1, SayCatches
<1>2. CASE Open
  <2>1. reader = "away" /\ reader' = "agents" /\ said' = said /\ queue' = queue /\ store' = store
    BY <1>2 DEF Open
  <2>2. Unread("away") = Unread("agents")
    BY DEF Unread
  <2> QED
    BY <1>0, <2>1, <2>2 DEF CatchInv, ShownOrComing, QueueTrue, EndsTrue
<1>3. CASE ReadAgents
  <2>1. reader = "agents" /\ reader' = "spans" /\ said' = said /\ queue' = queue
    BY <1>3 DEF ReadAgents
  <2>2. Gains(store, store', {f \in said : f.kind \in {"agent"}})
    BY <1>0, <1>3, ReadAgentsGains
  <2>3. Unread(reader) \subseteq Unread(reader') \union {"agent"}
    BY <2>1 DEF Unread
  <2>4. ShownOrComing'
    BY <1>0, <2>1, <2>2, <2>3, ReadShows DEF CatchInv
  <2>5. EndsTrue'
    BY <1>0, <2>1, <2>2, ReadEnds DEF CatchInv
  <2> QED
    BY <1>0, <2>1, <2>4, <2>5 DEF CatchInv, QueueTrue
<1>4. CASE ReadSpans
  BY <1>0, <1>4, ReadSpansCatches
<1>5. CASE ReadEvents
  <2>1. reader = "events" /\ reader' = "live" /\ said' = said /\ queue' = queue
    BY <1>5 DEF ReadEvents
  <2>2. Gains(store, store', {f \in said : f.kind \in EventKinds})
    BY <1>0, <1>5, ReadEventsGains
  <2>3. Unread(reader) \subseteq Unread(reader') \union EventKinds
    BY <2>1 DEF Unread
  <2>4. ShownOrComing'
    BY <1>0, <2>1, <2>2, <2>3, ReadShows DEF CatchInv
  <2>5. EndsTrue'
    <3>1. {"start", "end"} \intersect EventKinds = {}
      BY DEF EventKinds
    <3> QED
      BY <1>0, <2>1, <2>2, <3>1, ReadEnds DEF CatchInv
  <2> QED
    BY <1>0, <2>1, <2>4, <2>5 DEF CatchInv, QueueTrue
<1>6. CASE Deliver
  BY <1>0, <1>6, DeliverCatches
<1>7. CASE Leave
  <2>1. reader' = "away" /\ queue' = <<>> /\ said' = said /\ store' = store /\ DOMAIN <<>> = {}
    BY <1>7 DEF Leave
  <2>2. ShownOrComing'
    <3>1. \A f \in said : Shows(store, said, f) \/ f.kind \in Unread("away")
      BY <1>0, FrameFacts DEF Shows, Unread, EventKinds, StoreInv
    <3> QED
      BY <2>1, <3>1 DEF ShownOrComing
  <2>3. QueueTrue'
    BY <2>1 DEF CatchInv, QueueTrue, Range, IsInjective
  <2>4. EndsTrue'
    BY <2>1 DEF CatchInv, EndsTrue
  <2> QED
    BY <1>0, <2>2, <2>3, <2>4 DEF CatchInv
<1>8. CASE UNCHANGED storeVars
  BY <1>0, <1>8 DEF storeVars, CatchInv, ShownOrComing, QueueTrue, EndsTrue
<1> QED
  BY <1>1, <1>2, <1>3, <1>4, <1>5, <1>6, <1>7, <1>8 DEF StoreNext

LEMMA CatchInvImplies == CatchInv => CaughtUp
<1> SUFFICES ASSUME CatchInv, reader = "live", queue = <<>>, NEW f \in said
             PROVE  CASE f.kind = "agent" -> Known(store, f.agent) /\ \E g \in said : TellsOf(g, f.agent, store.meta[f.agent])
                      [] f.kind = "start" -> SpanId(f) \in Indexed /\ index.span[SpanId(f)].end = StoredEnd(f)
                      [] f.kind = "plan" -> Known(store, f.agent)
                      [] f.kind = "drift" -> f.id \in Range(store.drifts) /\ \E x \in Indexed : x[1] = f.id
                      [] f.kind = "cancel" -> SpanId(f) \in Indexed
                      [] f.kind = "delegation" -> f.id \in Range(store.delegations)
                      [] OTHER -> TRUE
  BY DEF CaughtUp
<1>1. f \in Frame /\ said \subseteq Frame
  BY DEF CatchInv, StoreInv
<1>2. Range(queue) = {} /\ Unread("live") = {}
  BY DEF Range, Unread
<1>3. Shows(store, said, f)
  BY <1>2 DEF CatchInv, ShownOrComing
<1>4. ASSUME f.kind = "start" PROVE SpanId(f) \in Indexed /\ index.span[SpanId(f)].end = StoredEnd(f)
  <2>1. SpanId(f) \in DOMAIN store.index.span
    BY <1>3, <1>4 DEF Shows
  <2>2. CASE \A g \in said : ~EndOf(f, g)
    BY <1>1, <1>4, <2>1, <2>2, StoredEndFacts DEF CatchInv, EndsTrue, Indexed, index
  <2>3. CASE \E g \in said : EndOf(f, g)
    <3>1. PICK g \in said : EndOf(f, g)
      BY <2>3
    <3>2. StoredEnd(f) = g.at
      BY <1>1, <1>4, <3>1, StoredEndFacts
    <3>3. store.index.span[SpanId(f)].end = g.at
      BY <1>1, <1>2, <1>4, <3>1 DEF CatchInv, EndsTrue
    <3> QED
      BY <2>1, <3>2, <3>3 DEF Indexed, index
  <2> QED
    BY <2>2, <2>3
<1> QED
  BY <1>3, <1>4 DEF Shows, Indexed, index

(* A tab that has read all it was sent shows what the server has, however  *)
(* the rows it read and the frames of its queue overlap, and also when it  *)
(* opens the session a second time (CaughtUp).                             *)
THEOREM StoreCatchesUp == StoreSpec => []CaughtUp
<1>1. StoreInit => CatchInv
  BY InitCatchInv
<1>2. CatchInv /\ [StoreNext]_storeVars => CatchInv'
  BY NextCatchInv
<1>3. CatchInv => CaughtUp
  BY CatchInvImplies
<1> QED
  BY <1>1, <1>2, <1>3, PTL DEF StoreSpec

-----------------------------------------------------------------------------
LEMMA StoreInvQueries == StoreInv => QueriesFind
<1> SUFFICES ASSUME StoreInv PROVE QueriesFind
  OBVIOUS
<1>1. index \in GoodIndexes
  BY DEF StoreInv, GoodStores, GoodRows, index
<1> HIDE DEF index
<1>2. index \in Indexes /\ index.span \in SpanMaps /\ GoodSpans(index) /\ index.maxEnd \in Nat
  BY <1>1, IndexFacts DEF GoodIndexes
<1>3. QueryFinds
  <2> SUFFICES ASSUME NEW s \in Range(index.span), NEW t1 \in 1 .. Forever, NEW t0 \in 0 .. (t1 - 1)
               PROVE  LET a == s.agent
                          found == QueryAgent(index, a, t0, t1)
                          touching == {x \in Range(index.rows[a]) : Touches(index.span[x], t0, t1)}
                      IN  /\ IsInjective(found) /\ Range(found) \subseteq touching
                          /\ \A x \in touching : index.span[x].start + Budget >= t0 => x \in Range(found)
    BY DEF QueryFinds
  <2> DEFINE a == s.agent
             row == index.rows[a]
             lo == Cardinality(Before(index, a, t0))
             found == QueryAgent(index, a, t0, t1)
  <2>1. a \in Agent /\ t0 \in Nat /\ t1 \in Nat
    <3>1. s \in Shape
      BY <1>2, SpanMapFacts DEF Range
    <3> QED
      BY <3>1, ShapeFacts, StoreBounds
  <2> HIDE DEF a
  <2>2. /\ DOMAIN row = 1 .. Len(row) /\ Len(row) \in Nat /\ lo \in 0 .. Len(row)
        /\ \A i \in DOMAIN row : row[i] \in DOMAIN index.span /\ index.span[row[i]] \in Shape
        /\ \A i, j \in DOMAIN row : i < j => index.span[row[i]].start <= index.span[row[j]].start
        /\ \A i \in DOMAIN row : i <= lo <=> index.span[row[i]].start < t0
    BY <1>1, <2>1, BeforeFacts
  <2>3. IsInjective(found) /\ Range(found) = {row[i] : i \in {i \in DOMAIN row : WantedAt(index, a, t0, t1, i)}}
    BY <1>1, <2>1, QueryFacts DEF Lists
  <2>4. \A i \in DOMAIN row : index.span[row[i]].start \in Nat /\ index.span[row[i]].end \in Nat
                              /\ index.span[row[i]].start <= index.span[row[i]].end
    BY <1>2, <2>2, ShapeFacts DEF GoodSpans
  <2>5. ASSUME NEW i \in DOMAIN row
        PROVE  WantedAt(index, a, t0, t1, i) <=>
                 /\ index.span[row[i]].start < t1
                 /\ i > lo \/ ((i = lo \/ index.span[row[i + 1]].start + Budget >= t0) /\ index.span[row[i]].end >= t0)
    BY DEF WantedAt
  <2> HIDE DEF row, lo, found
  <2>6. ASSUME NEW x \in Range(found) PROVE x \in Range(row) /\ Touches(index.span[x], t0, t1)
    <3>1. PICK i \in DOMAIN row : x = row[i] /\ WantedAt(index, a, t0, t1, i)
      BY <2>3
    <3>2. index.span[x].start < t1 /\ (i > lo \/ index.span[x].end >= t0)
      BY <2>5, <3>1
    <3>3. index.span[x].end >= t0
      <4>1. CASE i > lo
        <5>1. ~(i <= lo)
          BY <2>2, <4>1
        <5>2. index.span[x].start >= t0
          BY <2>1, <2>2, <2>4, <3>1, <5>1
        <5> QED
          BY <2>1, <2>4, <3>1, <5>2
      <4> QED
        BY <3>2, <4>1
    <3> QED
      BY <3>1, <3>2, <3>3 DEF Touches, Range
  <2>7. ASSUME NEW x \in Range(row), Touches(index.span[x], t0, t1), index.span[x].start + Budget >= t0
        PROVE  x \in Range(found)
    <3>1. PICK i \in DOMAIN row : x = row[i]
      BY DEF Range
    <3>2. index.span[x].start < t1 /\ index.span[x].end >= t0
      BY <2>7 DEF Touches
    <3>3. i > lo \/ i = lo \/ index.span[row[i + 1]].start + Budget >= t0
      <4>1. CASE i < lo
        <5>1. i + 1 \in DOMAIN row /\ i < i + 1
          BY <2>2, <4>1
        <5>2. index.span[row[i]].start <= index.span[row[i + 1]].start
          BY <2>2, <5>1
        <5>3. \A b, c, d, e \in Nat : b <= c /\ b + d >= e => c + d >= e
          OBVIOUS
        <5> QED
          BY <2>1, <2>4, <2>7, <3>1, <5>1, <5>2, <5>3, StoreBounds
      <4> QED
        BY <2>2, <4>1
    <3>4. WantedAt(index, a, t0, t1, i)
      BY <2>5, <3>1, <3>2, <3>3
    <3> QED
      BY <2>3, <3>1, <3>4
  <2> QED
    BY <2>3, <2>6, <2>7 DEF a, row, found
<1>4. WholeSessionFound
  <2> SUFFICES ASSUME NEW a \in Agent
               PROVE  Range(QueryAgent(index, a, 0, index.maxEnd + 1)) = Range(index.rows[a])
    BY DEF WholeSessionFound
  <2> DEFINE row == index.rows[a]
             lo == Cardinality(Before(index, a, 0))
             t1 == index.maxEnd + 1
  <2>1. t1 \in Nat /\ 0 \in Nat
    BY <1>2
  <2>2. /\ DOMAIN row = 1 .. Len(row) /\ Len(row) \in Nat /\ lo \in 0 .. Len(row)
        /\ \A i \in DOMAIN row : row[i] \in DOMAIN index.span /\ index.span[row[i]] \in Shape
        /\ \A i \in DOMAIN row : i <= lo <=> index.span[row[i]].start < 0
    BY <1>1, <2>1, BeforeFacts
  <2> HIDE DEF t1
  <2>3. Range(QueryAgent(index, a, 0, t1)) = {row[i] : i \in {i \in DOMAIN row : WantedAt(index, a, 0, t1, i)}}
    BY <1>1, <2>1, QueryFacts DEF Lists
  <2>4. ASSUME NEW i \in DOMAIN row PROVE WantedAt(index, a, 0, t1, i)
    <3>1. index.span[row[i]].start \in Nat /\ index.span[row[i]].end \in Nat
      BY <2>2, ShapeFacts
    <3>2. i > lo
      BY <2>2, <3>1
    <3>3. index.span[row[i]].start <= index.span[row[i]].end /\ Extent(index.span[row[i]]) <= index.maxEnd
      BY <1>2, <2>2 DEF GoodSpans
    <3>4. index.span[row[i]].start <= index.maxEnd
      BY <1>2, <3>1, <3>3 DEF Extent
    <3>5. index.span[row[i]].start < t1
      BY <1>2, <3>1, <3>4 DEF t1
    <3> QED
      BY <3>2, <3>5 DEF WantedAt
  <2>5. Range(row) = {row[i] : i \in DOMAIN row}
    BY DEF Range
  <2> QED
    BY <2>3, <2>4, <2>5 DEF t1
<1> QED
  BY <1>3, <1>4 DEF QueriesFind

(* Every answer of the index is right: a window holds each span that       *)
(* overlaps it and starts within the walk's budget, once, and no other;    *)
(* the window of the whole session holds all of them (QueriesFind).        *)
THEOREM QueriesAreRight == StoreSpec => []QueriesFind
<1>1. StoreInit => StoreInv
  BY InitStoreInv
<1>2. StoreInv /\ [StoreNext]_storeVars => StoreInv'
  BY NextStoreInv
<1>3. StoreInv => QueriesFind
  BY StoreInvQueries
<1> QED
  BY <1>1, <1>2, <1>3, PTL DEF StoreSpec

-----------------------------------------------------------------------------
(* A lane is the first that is free: the lanes below it are taken.         *)
LEMMA LaneFacts ==
  ASSUME NEW ix, NEW ends \in Seq(Nat), NEW x, ix.span[x].start \in Nat
  PROVE  LET lane == LaneFor(ix, ends, x) IN
         /\ lane \in 1 .. Len(ends) + 1
         /\ \A l \in 1 .. (lane - 1) : l \in DOMAIN ends /\ ix.span[x].start < ends[l]
         /\ lane \in DOMAIN ends => ends[lane] <= ix.span[x].start
<1> DEFINE free == FreeLanes(ends, ix.span[x].start)
           lane == LaneFor(ix, ends, x)
<1>1. Len(ends) \in Nat /\ DOMAIN ends = 1 .. Len(ends) /\ \A i \in 1 .. Len(ends) : ends[i] \in Nat
  BY SeqFacts
<1>2. \A i \in 1 .. Len(ends) : i \in free <=> ends[i] <= ix.span[x].start
  BY <1>1 DEF FreeLanes
<1>3. free \in SUBSET Nat /\ free \subseteq 1 .. Len(ends)
  BY <1>1 DEF FreeLanes
<1>4. lane = IF free = {} THEN Len(ends) + 1 ELSE CHOOSE i \in free : \A j \in free : i <= j
  BY DEF LaneFor
<1> HIDE DEF free, lane
<1>5. CASE free = {}
  <2>1. lane = Len(ends) + 1 /\ \A l \in 1 .. Len(ends) : ix.span[x].start < ends[l]
    BY <1>1, <1>2, <1>4, <1>5
  <2>2. lane \notin DOMAIN ends /\ lane - 1 = Len(ends)
    BY <1>1, <2>1
  <2> QED
    BY <1>1, <2>1, <2>2 DEF lane
<1>6. CASE free # {}
  <2>1. PICK i \in free : \A j \in free : i <= j
    BY <1>3, <1>6, LeastNumber
  <2>2. lane \in free /\ \A j \in free : lane <= j
    BY <1>4, <1>6, <2>1
  <2>3. lane \in 1 .. Len(ends) /\ ends[lane] <= ix.span[x].start
    BY <1>2, <1>3, <2>2
  <2>4. ASSUME NEW l \in 1 .. (lane - 1) PROVE l \in DOMAIN ends /\ ix.span[x].start < ends[l]
    <3>1. l \in 1 .. Len(ends) /\ ~(lane <= l)
      BY <1>1, <2>3
    <3> QED
      BY <1>1, <1>2, <2>2, <3>1
  <2> QED
    BY <1>1, <2>3, <2>4 DEF lane
<1> QED
  BY <1>5, <1>6

(* The first k of the row are laid: each in a lane that is open, behind    *)
(* those before it there, and only while the lanes below were taken.       *)
LaidAt(ix, xs, acc, j) ==
  LET l == acc.span[xs[j]].lane
  IN  /\ l \in DOMAIN acc.ends /\ ix.span[xs[j]].end <= acc.ends[l]
      /\ \A i \in 1 .. (j - 1) : acc.span[xs[i]].lane = l => ix.span[xs[i]].end <= ix.span[xs[j]].start
      /\ \A low \in 1 .. (l - 1) : \E i \in 1 .. (j - 1) :
            acc.span[xs[i]].lane = low /\ ix.span[xs[j]].start < ix.span[xs[i]].end
Laid(ix, xs, acc, k) ==
  /\ \A j \in 1 .. k : LaidAt(ix, xs, acc, j)
  /\ \A l \in DOMAIN acc.ends : \E j \in 1 .. k : acc.span[xs[j]].lane = l /\ acc.ends[l] = ix.span[xs[j]].end
  /\ \A z \in DOMAIN ix.span : (\A j \in 1 .. k : xs[j] # z) => acc.span[z] = ix.span[z]

LEMMA PackOneParts ==
  ASSUME NEW ix \in Indexes, NEW acc \in Packings(ix), NEW x \in DOMAIN ix.span
  PROVE  LET acc2 == PackOne(ix, acc, x)
             lane == LaneFor(ix, acc.ends, x) IN
         /\ acc2.ends \in Seq(Nat) /\ DOMAIN acc2.ends = DOMAIN acc.ends \union {lane}
         /\ acc2.ends[lane] = ix.span[x].end
         /\ \A l \in DOMAIN acc.ends : l # lane => acc2.ends[l] = acc.ends[l]
         /\ acc2.span[x].lane = lane
         /\ \A z \in DOMAIN ix.span : z # x => acc2.span[z] = acc.span[z]
<1> DEFINE lane == LaneFor(ix, acc.ends, x)
           ends == IF lane > Len(acc.ends) THEN Append(acc.ends, ix.span[x].end)
                   ELSE [acc.ends EXCEPT ![lane] = ix.span[x].end]
           m == [acc.span EXCEPT ![x].lane = lane]
<1>1. acc.ends \in Seq(Nat) /\ acc.span \in SpanMaps /\ DOMAIN acc.span = DOMAIN ix.span
  BY DEF Packings, SamePlaces
<1>2. lane \in 1 .. Len(acc.ends) + 1 /\ Len(acc.ends) \in Nat /\ DOMAIN acc.ends = 1 .. Len(acc.ends)
  BY <1>1, LaneTyped, SeqFacts
<1> HIDE DEF lane
<1>3. ix.span[x].end \in Nat /\ acc.span[x] \in Shape
  BY <1>1, IndexFacts, SpanMapFacts, ShapeFacts
<1>4. /\ ends \in Seq(Nat) /\ DOMAIN ends = DOMAIN acc.ends \union {lane} /\ ends[lane] = ix.span[x].end
      /\ \A l \in DOMAIN acc.ends : l # lane => ends[l] = acc.ends[l]
  <2>1. CASE lane > Len(acc.ends)
    <3> DEFINE e == Append(acc.ends, ix.span[x].end)
    <3>1. lane = Len(acc.ends) + 1
      BY <1>2, <2>1
    <3>2. /\ e \in Seq(Nat) /\ DOMAIN e = 1 .. Len(acc.ends) + 1 /\ e[Len(acc.ends) + 1] = ix.span[x].end
          /\ \A i \in 1 .. Len(acc.ends) : e[i] = acc.ends[i]
      BY <1>1, <1>3
    <3>3. 1 .. Len(acc.ends) + 1 = (1 .. Len(acc.ends)) \union {Len(acc.ends) + 1}
      BY <1>2
    <3>4. ends = e
      BY <2>1
    <3> HIDE DEF e, ends
    <3> QED
      BY <1>2, <3>1, <3>2, <3>3, <3>4
  <2>2. CASE ~(lane > Len(acc.ends))
    <3>1. lane \in DOMAIN acc.ends /\ ends = [acc.ends EXCEPT ![lane] = ix.span[x].end]
      BY <1>2, <2>2
    <3> HIDE DEF ends
    <3> QED
      BY <1>1, <1>3, <3>1
  <2> QED
    BY <2>1, <2>2
<1>5. m[x].lane = lane /\ \A z \in DOMAIN ix.span : z # x => m[z] = acc.span[z]
  BY <1>1, <1>3 DEF Shape
<1>6. PackOne(ix, acc, x) = [ends |-> ends, span |-> m]
  BY DEF PackOne, lane
<1> HIDE DEF ends, m
<1> QED
  BY <1>4, <1>5, <1>6 DEF lane

LEMMA LayOne ==
  ASSUME NEW ix \in GoodIndexes, NEW n \in Nat, NEW xs, DOMAIN xs = 1 .. n, IsInjective(xs),
         \A j \in 1 .. n : xs[j] \in DOMAIN ix.span,
         NEW k \in 1 .. n, NEW acc \in Packings(ix), Laid(ix, xs, acc, k - 1)
  PROVE  Laid(ix, xs, PackOne(ix, acc, xs[k]), k)
<1> DEFINE x == xs[k]
           acc2 == PackOne(ix, acc, x)
           lane == LaneFor(ix, acc.ends, x)
           Start(j) == ix.span[xs[j]].start
           End(j) == ix.span[xs[j]].end
           Lane(j) == acc.span[xs[j]].lane
           Lane2(j) == acc2.span[xs[j]].lane
<1>1. ix \in Indexes /\ acc.ends \in Seq(Nat) /\ acc.span \in SpanMaps /\ DOMAIN acc.span = DOMAIN ix.span
  BY DEF GoodIndexes, Packings, SamePlaces
<1>2. \A j \in 1 .. n : Start(j) \in Nat /\ End(j) \in Nat /\ Start(j) <= End(j) /\ Lane(j) \in Nat
  <2> SUFFICES ASSUME NEW j \in 1 .. n
               PROVE  Start(j) \in Nat /\ End(j) \in Nat /\ Start(j) <= End(j) /\ Lane(j) \in Nat
    OBVIOUS
  <2>1. xs[j] \in DOMAIN ix.span
    OBVIOUS
  <2>2. ix.span[xs[j]] \in Shape /\ acc.span[xs[j]] \in Shape
    BY <1>1, <2>1, IndexFacts, SpanMapFacts
  <2> QED
    BY <2>1, <2>2, ShapeFacts DEF GoodIndexes, GoodSpans
<1>3. /\ lane \in 1 .. Len(acc.ends) + 1
      /\ \A l \in 1 .. (lane - 1) : l \in DOMAIN acc.ends /\ Start(k) < acc.ends[l]
      /\ lane \in DOMAIN acc.ends => acc.ends[lane] <= Start(k)
  BY <1>1, <1>2, LaneFacts
<1>4. /\ DOMAIN acc2.ends = DOMAIN acc.ends \union {lane} /\ acc2.ends[lane] = End(k)
      /\ \A l \in DOMAIN acc.ends : l # lane => acc2.ends[l] = acc.ends[l]
      /\ Lane2(k) = lane
      /\ \A z \in DOMAIN ix.span : z # x => acc2.span[z] = acc.span[z]
  BY <1>1, PackOneParts
<1>5. \A j \in 1 .. (k - 1) : j \in 1 .. n /\ xs[j] # x
  <2>1. \A j \in 1 .. (k - 1) : j \in 1 .. n /\ j # k
    OBVIOUS
  <2> QED
    BY <2>1 DEF IsInjective
<1>6. \A j \in 1 .. (k - 1) : acc2.span[xs[j]] = acc.span[xs[j]]
  BY <1>4, <1>5
<1>7. DOMAIN acc.ends = 1 .. Len(acc.ends) /\ \A l \in DOMAIN acc.ends : acc.ends[l] \in Nat
  BY <1>1, SeqFacts
<1>8. /\ \A j \in 1 .. (k - 1) : LaidAt(ix, xs, acc, j)
      /\ \A l \in DOMAIN acc.ends : \E j \in 1 .. (k - 1) : Lane(j) = l /\ acc.ends[l] = End(j)
      /\ \A z \in DOMAIN ix.span : (\A j \in 1 .. (k - 1) : xs[j] # z) => acc.span[z] = ix.span[z]
  BY DEF Laid
<1>9. 1 .. k = (1 .. (k - 1)) \union {k}
  OBVIOUS
<1> HIDE DEF acc2, lane, x
<1>10. LaidAt(ix, xs, acc2, k)
  <2>1. Lane2(k) \in DOMAIN acc2.ends /\ End(k) <= acc2.ends[Lane2(k)]
    BY <1>2, <1>4
  <2>2. ASSUME NEW i \in 1 .. (k - 1), Lane2(i) = lane PROVE End(i) <= Start(k)
    <3>1. Lane(i) = lane
      BY <1>6, <2>2
    <3>2. lane \in DOMAIN acc.ends /\ End(i) <= acc.ends[lane]
      BY <1>8, <3>1 DEF LaidAt
    <3>3. End(i) \in Nat /\ Start(k) \in Nat /\ acc.ends[lane] \in Nat
      BY <1>2, <1>5, <1>7, <3>2
    <3> QED
      BY <1>3, <3>2, <3>3
  <2>3. ASSUME NEW low \in 1 .. (lane - 1) PROVE \E i \in 1 .. (k - 1) : Lane2(i) = low /\ Start(k) < End(i)
    <3>1. low \in DOMAIN acc.ends /\ Start(k) < acc.ends[low]
      BY <1>3
    <3>2. PICK i \in 1 .. (k - 1) : Lane(i) = low /\ acc.ends[low] = End(i)
      BY <1>8, <3>1
    <3> QED
      BY <1>6, <3>1, <3>2
  <2> QED
    BY <1>4, <2>1, <2>2, <2>3 DEF LaidAt
<1>11. ASSUME NEW j \in 1 .. (k - 1) PROVE LaidAt(ix, xs, acc2, j)
  <2>1. LaidAt(ix, xs, acc, j) /\ Lane2(j) = Lane(j)
    BY <1>6, <1>8
  <2>2. \A i \in 1 .. (j - 1) : i \in 1 .. (k - 1)
    OBVIOUS
  <2>3. Lane(j) \in DOMAIN acc.ends /\ End(j) <= acc.ends[Lane(j)]
    BY <2>1 DEF LaidAt
  <2>4. Lane(j) \in DOMAIN acc2.ends /\ End(j) <= acc2.ends[Lane(j)]
    <3>1. CASE Lane(j) = lane
      <4>1. End(j) \in Nat /\ Start(k) \in Nat /\ End(k) \in Nat /\ Start(k) <= End(k)
        BY <1>2, <1>5
      <4>2. End(j) <= acc.ends[lane] /\ acc.ends[lane] <= Start(k) /\ acc.ends[lane] \in Nat
        BY <1>3, <1>7, <2>3, <3>1
      <4>3. End(j) <= End(k)
        BY <4>1, <4>2
      <4> QED
        BY <1>4, <3>1, <4>3
    <3>2. CASE Lane(j) # lane
      BY <1>4, <2>3, <3>2
    <3> QED
      BY <3>1, <3>2
  <2>5. /\ \A i \in 1 .. (j - 1) : Lane(i) = Lane(j) => End(i) <= Start(j)
        /\ \A low \in 1 .. (Lane(j) - 1) : \E i \in 1 .. (j - 1) : Lane(i) = low /\ Start(j) < End(i)
    BY <2>1 DEF LaidAt
  <2>6. \A i \in 1 .. (j - 1) : Lane2(i) = Lane(i)
    BY <1>6, <2>2
  <2>7. \A low \in 1 .. (Lane2(j) - 1) : \E i \in 1 .. (j - 1) : Lane2(i) = low /\ Start(j) < End(i)
    BY <2>1, <2>5, <2>6
  <2> QED
    BY <2>1, <2>4, <2>5, <2>6, <2>7 DEF LaidAt
<1>12. ASSUME NEW l \in DOMAIN acc2.ends PROVE \E j \in 1 .. k : Lane2(j) = l /\ acc2.ends[l] = End(j)
  <2>1. CASE l = lane
    BY <1>4, <1>9, <2>1
  <2>2. CASE l # lane
    <3>1. l \in DOMAIN acc.ends /\ acc2.ends[l] = acc.ends[l]
      BY <1>4, <2>2
    <3>2. PICK j \in 1 .. (k - 1) : Lane(j) = l /\ acc.ends[l] = End(j)
      BY <1>8, <3>1
    <3> QED
      BY <1>6, <1>9, <3>1, <3>2
  <2> QED
    BY <2>1, <2>2
<1>13. ASSUME NEW z \in DOMAIN ix.span, \A j \in 1 .. k : xs[j] # z PROVE acc2.span[z] = ix.span[z]
  <2>1. z # x /\ \A j \in 1 .. (k - 1) : xs[j] # z
    BY <1>9, <1>13 DEF x
  <2> QED
    BY <1>4, <1>8, <2>1
<1>14. \A j \in 1 .. k : LaidAt(ix, xs, acc2, j)
  BY <1>9, <1>10, <1>11
<1> QED
  BY <1>12, <1>13, <1>14 DEF Laid, acc2, x

(* A smaller key is an earlier start.                                      *)
LEMMA KeyOrder ==
  ASSUME NEW F \in Nat, NEW s1 \in Nat, NEW s2 \in Nat, NEW e1 \in 0 .. F, NEW e2 \in 0 .. F,
         s1 * (F + 1) + e1 <= s2 * (F + 1) + e2
  PROVE  s1 <= s2
<1> SUFFICES ASSUME s2 + 1 <= s1 PROVE FALSE
  OBVIOUS
<1>1. (s2 + 1) * (F + 1) <= s1 * (F + 1)
  <2>1. PICK d \in Nat : s1 = s2 + 1 + d
    <3>1. s1 - (s2 + 1) \in Nat /\ s1 = s2 + 1 + (s1 - (s2 + 1))
      OBVIOUS
    <3> QED
      BY <3>1
  <2>2. s1 * (F + 1) = (s2 + 1) * (F + 1) + d * (F + 1) /\ d * (F + 1) \in Nat
    BY <2>1
  <2>3. (s2 + 1) * (F + 1) \in Nat
    OBVIOUS
  <2> QED
    BY <2>2, <2>3
<1>2. (s2 + 1) * (F + 1) = s2 * (F + 1) + F + 1 /\ s2 * (F + 1) \in Nat /\ s1 * (F + 1) \in Nat
  OBVIOUS
<1> QED
  BY <1>1, <1>2

LEMMA SortByOrdered ==
  ASSUME NEW X, NEW key \in [X -> Nat], NEW list \in Seq(X), IsInjective(list)
  PROVE  Ordered(key, SortBy(key, list))
<1>1. <<>> \in Seq(X) /\ IsInjective(<<>>) /\ Range(<<>>) = {} /\ Ordered(key, <<>>)
  BY DEF Range, IsInjective, Ordered
<1>2. key \in [X -> Nat] /\ Ordered(key, <<>>) => Ordered(key, InsertAll(key, <<>>, list))
  BY <1>1, InsertAllFacts
<1> QED
  BY <1>1, <1>2 DEF SortBy

LEMMA PackOrderStarts ==
  ASSUME NEW ix \in GoodIndexes, NEW a \in Agent
  PROVE  LET xs == PackOrder(ix, a) IN
         \A i, j \in DOMAIN xs : i < j => ix.span[xs[i]].start <= ix.span[xs[j]].start
<1> DEFINE xs == PackOrder(ix, a)
           key == [x \in DOMAIN ix.span |-> ix.span[x].start * (Forever + 1) + ix.span[x].end]
<1>1. ix \in Indexes /\ Forever \in Nat
  BY StoreBounds DEF GoodIndexes
<1>2. ASSUME NEW x \in DOMAIN ix.span
      PROVE  /\ ix.span[x].start \in Nat /\ ix.span[x].end \in 0 .. Forever
             /\ key[x] = ix.span[x].start * (Forever + 1) + ix.span[x].end /\ key[x] \in Nat
  <2>1. ix.span[x].start \in Nat /\ ix.span[x].end \in 1 .. Forever
    BY <1>1, IndexFacts, SpanMapFacts, ShapeFacts
  <2>2. ix.span[x].start * (Forever + 1) \in Nat /\ ix.span[x].end \in 0 .. Forever /\ ix.span[x].end \in Nat
    BY <1>1, <2>1
  <2>3. key[x] = ix.span[x].start * (Forever + 1) + ix.span[x].end
    OBVIOUS
  <2> HIDE DEF key
  <2> QED
    BY <2>1, <2>2, <2>3
<1>3. key \in [DOMAIN ix.span -> Nat]
  <2>1. key = [x \in DOMAIN ix.span |-> key[x]]
    OBVIOUS
  <2> HIDE DEF key
  <2> QED
    BY <1>2, <2>1
<1>4. xs = SortBy(key, ix.rows[a])
  BY DEF PackOrder
<1> HIDE DEF key, xs
<1>5. xs \in Seq(DOMAIN ix.span) /\ Ordered(key, xs)
  BY <1>3, <1>4, RowsListed, SortByFacts, SortByOrdered
<1>6. ASSUME NEW i \in DOMAIN xs, NEW j \in DOMAIN xs, i < j
      PROVE  ix.span[xs[i]].start <= ix.span[xs[j]].start
  <2>1. xs[i] \in DOMAIN ix.span /\ xs[j] \in DOMAIN ix.span
    BY <1>5, SeqFacts
  <2>2. key[xs[i]] <= key[xs[j]]
    BY <1>5, <1>6 DEF Ordered
  <2> QED
    BY <1>1, <1>2, <2>1, <2>2, KeyOrder
<1> QED
  BY <1>6 DEF xs

-----------------------------------------------------------------------------
(* The row of a, packed: LanesDistinct and LanesNeeded, of a map of spans. *)
SolidIn(m, a) == {x \in DOMAIN m : m[x].agent = a /\ m[x].start < m[x].end}
Above(m, a, x) == {y \in SolidIn(m, a) \ {x} : m[y].start <= m[x].start /\ m[x].start < m[y].end}
Packed(m, a) ==
  \A x \in SolidIn(m, a) :
    /\ \A y \in SolidIn(m, a) \ {x} : Overlap(m[x], m[y]) => m[x].lane # m[y].lane
    /\ m[x].lane <= 1 + Cardinality(Above(m, a, x))

(* What is not a point of a's row is as it was.                            *)
LanesKept(m, m2, a) ==
  SolidIn(m2, a) = SolidIn(m, a) /\ \A x \in SolidIn(m, a) :
    m2[x].start = m[x].start /\ m2[x].end = m[x].end /\ m2[x].lane = m[x].lane

LEMMA KeptPacked ==
  ASSUME NEW m, NEW m2, NEW a, LanesKept(m, m2, a), Packed(m, a)
  PROVE  Packed(m2, a)
<1>1. \A x \in SolidIn(m, a) : Above(m2, a, x) = Above(m, a, x)
  BY DEF LanesKept, Above
<1> QED
  BY <1>1 DEF LanesKept, Packed, Overlap

LEMMA LowLanesCounted ==
  ASSUME NEW S, IsFiniteSet(S), NEW m, NEW n \in Nat,
         \A low \in 1 .. (n - 1) : \E y \in S : m[y].lane = low
  PROVE  n <= 1 + Cardinality(S)
<1> DEFINE f == [low \in 1 .. (n - 1) |-> CHOOSE y \in S : m[y].lane = low]
<1>1. Cardinality(S) \in Nat
  BY FS_CardinalityType
<1>2. CASE n = 0
  BY <1>1, <1>2
<1>3. CASE n # 0
  <2>1. n - 1 \in Nat
    BY <1>3
  <2>2. \A low \in 1 .. (n - 1) : f[low] \in S /\ m[f[low]].lane = low
    OBVIOUS
  <2>3. f \in [1 .. (n - 1) -> S]
    BY <2>2
  <2> HIDE DEF f
  <2>4. f \in Injection(1 .. (n - 1), S)
    BY <2>2, <2>3 DEF Injection, IsInjective
  <2>5. Cardinality(1 .. (n - 1)) <= Cardinality(S) /\ Cardinality(1 .. (n - 1)) = n - 1
    <3>1. Cardinality(1 .. (n - 1)) = IF 1 > n - 1 THEN 0 ELSE n - 1 - 1 + 1
      BY <2>1, FS_Interval
    <3> QED
      BY <2>1, <2>4, <3>1, FS_Injection
  <2> QED
    BY <1>1, <2>5
<1> QED
  BY <1>2, <1>3

(* packLanes packs its row, and leaves the others.                         *)
LEMMA PackPacks ==
  ASSUME NEW ix \in GoodIndexes, NEW a \in Agent
  PROVE  LET m == PackLanes(ix, a).span IN
         /\ SamePlaces(ix.span, m) /\ SameEnds(ix.span, m)
         /\ Packed(m, a)
         /\ \A b \in Agent : b # a => LanesKept(ix.span, m, b)
<1> DEFINE xs == PackOrder(ix, a)
           n == Len(xs)
           m == PackLanes(ix, a).span
           A == [k \in 0 .. n |-> {acc \in Packings(ix) : Laid(ix, xs, acc, k)}]
           Start(j) == ix.span[xs[j]].start
           End(j) == ix.span[xs[j]].end
<1>1. ix \in Indexes /\ Range(ix.rows[a]) = {x \in DOMAIN ix.span : ix.span[x].agent = a}
  BY RowsListed DEF GoodIndexes
<1>2. xs \in Seq(DOMAIN ix.span) /\ IsInjective(xs) /\ Range(xs) = {x \in DOMAIN ix.span : ix.span[x].agent = a}
  BY <1>1, PackRuns DEF Lists
<1>3. PICK r \in [0 .. n -> Packings(ix)] :
        /\ r[0] = Unpacked(ix) /\ PackLanes(ix, a) = [ix EXCEPT !.span = r[n].span]
        /\ \A k \in 1 .. n : r[k] = PackOne(ix, r[k - 1], xs[k])
  BY PackRuns
<1>4. \A i, j \in DOMAIN xs : i < j => Start(i) <= Start(j)
  BY PackOrderStarts
<1>5. n \in Nat /\ DOMAIN xs = 1 .. n /\ \A k \in 1 .. n : xs[k] \in DOMAIN ix.span
  BY <1>2, SeqFacts
<1> HIDE DEF xs, n
<1>6. \A k \in 0 .. n : r[k] \in A[k] <=> Laid(ix, xs, r[k], k)
  BY <1>3
<1>7. r[0] \in A[0]
  <2>1. Laid(ix, xs, Unpacked(ix), 0)
    <3>1. DOMAIN <<>> = {} /\ 1 .. 0 = {}
      OBVIOUS
    <3> QED
      BY <3>1 DEF Laid, Unpacked
  <2>2. 0 \in 0 .. n
    BY <1>5
  <2> HIDE DEF A
  <2> QED
    BY <1>3, <1>6, <2>1, <2>2
<1>8. ASSUME NEW k \in 1 .. n, r[k - 1] \in A[k - 1] PROVE r[k] \in A[k]
  <2>1. k \in 0 .. n /\ k - 1 \in 0 .. n
    BY <1>5
  <2> HIDE DEF A
  <2>2. Laid(ix, xs, r[k - 1], k - 1) /\ r[k - 1] \in Packings(ix) /\ r[k] = PackOne(ix, r[k - 1], xs[k])
    BY <1>3, <1>6, <1>8, <2>1
  <2>3. Laid(ix, xs, r[k], k)
    BY <1>2, <1>5, <2>2, LayOne
  <2> QED
    BY <1>6, <2>1, <2>3
<1> HIDE DEF A
<1>9. Laid(ix, xs, r[n], n) /\ r[n] \in Packings(ix)
  <2>1. \A k \in 0 .. n : r[k] \in A[k]
    BY <1>5, <1>7, <1>8, StepsReach
  <2>2. n \in 0 .. n
    BY <1>5
  <2> QED
    BY <1>3, <1>6, <2>1, <2>2
<1>10. m = r[n].span
  BY <1>1, <1>3 DEF Indexes
<1> HIDE DEF m
<1>11. SamePlaces(ix.span, m) /\ SameEnds(ix.span, m) /\ m \in SpanMaps /\ DOMAIN m = DOMAIN ix.span
  BY <1>9, <1>10 DEF Packings, SamePlaces
<1>12. ASSUME NEW j \in 1 .. n
       PROVE  /\ m[xs[j]].start = Start(j) /\ m[xs[j]].end = End(j) /\ m[xs[j]].agent = a /\ xs[j] \in DOMAIN m
              /\ Start(j) \in Nat /\ End(j) \in Nat /\ m[xs[j]].lane \in Nat
              /\ \A i \in 1 .. (j - 1) : m[xs[i]].lane = m[xs[j]].lane => End(i) <= Start(j)
              /\ \A low \in 1 .. (m[xs[j]].lane - 1) : \E i \in 1 .. (j - 1) : m[xs[i]].lane = low /\ Start(j) < End(i)
  <2>1. xs[j] \in DOMAIN ix.span /\ ix.span[xs[j]].agent = a
    BY <1>2, <1>5 DEF Range
  <2>2. ix.span[xs[j]] \in Shape /\ m[xs[j]] \in Shape
    BY <1>1, <1>11, <2>1, IndexFacts, SpanMapFacts
  <2>3. Start(j) \in Nat /\ End(j) \in Nat /\ m[xs[j]].lane \in Nat
    BY <2>2, ShapeFacts
  <2>4. LaidAt(ix, xs, r[n], j)
    BY <1>9 DEF Laid
  <2> QED
    BY <1>10, <1>11, <2>1, <2>3, <2>4 DEF LaidAt, SamePlaces, SameEnds
<1>13. \A x \in SolidIn(m, a) : \E j \in 1 .. n : x = xs[j]
  <2>1. \A x \in SolidIn(m, a) : x \in Range(xs)
    BY <1>2, <1>11 DEF SolidIn, SamePlaces
  <2> QED
    BY <1>5, <2>1 DEF Range
<1>14. ASSUME NEW i \in 1 .. n, NEW j \in 1 .. n, i < j, Overlap(m[xs[i]], m[xs[j]]) \/ Overlap(m[xs[j]], m[xs[i]])
       PROVE  m[xs[i]].lane # m[xs[j]].lane
  <2>1. i \in 1 .. (j - 1)
    BY <1>5, <1>14
  <2>2. Start(j) < End(i)
    BY <1>12, <1>14 DEF Overlap
  <2> QED
    BY <1>12, <2>1, <2>2
<1>15. ASSUME NEW j \in 1 .. n, xs[j] \in SolidIn(m, a)
       PROVE  m[xs[j]].lane <= 1 + Cardinality(Above(m, a, xs[j]))
  <2> DEFINE S == Above(m, a, xs[j])
  <2>1. IsFiniteSet(S)
    <3>1. S \subseteq Range(xs)
      BY <1>13, <1>5 DEF Above, Range
    <3>2. IsFiniteSet(Range(xs))
      <4> DEFINE f == [i \in 1 .. n |-> xs[i]]
      <4>1. IsFiniteSet(1 .. n)
        BY <1>5, FS_Interval
      <4>2. f \in Surjection(1 .. n, Range(xs))
        BY <1>5 DEF Surjection, Range
      <4> QED
        BY <4>1, <4>2, FS_Surjection
    <3> QED
      BY <3>1, <3>2, FS_Subset
  <2>2. ASSUME NEW low \in 1 .. (m[xs[j]].lane - 1) PROVE \E y \in S : m[y].lane = low
    <3>0. \A l \in 1 .. (m[xs[j]].lane - 1) : \E i \in 1 .. (j - 1) : m[xs[i]].lane = l /\ Start(j) < End(i)
      BY <1>12, Zenon
    <3>1. PICK i \in 1 .. (j - 1) : m[xs[i]].lane = low /\ Start(j) < End(i)
      BY <3>0, Zenon
    <3>2. i \in 1 .. n /\ i < j /\ xs[i] # xs[j] /\ Start(i) <= Start(j)
      <4>1. i \in 1 .. n /\ i < j
        BY <1>5
      <4> QED
        BY <1>2, <1>4, <1>5, <4>1 DEF IsInjective
    <3>3. Start(i) < End(i)
      <4>1. Start(i) \in Nat /\ Start(j) \in Nat /\ End(i) \in Nat
        BY <1>12, <3>2
      <4> QED
        BY <3>1, <3>2, <4>1
    <3>4. xs[i] \in S
      BY <1>12, <3>1, <3>2, <3>3 DEF Above, SolidIn
    <3> QED
      BY <3>1, <3>4
  <2> HIDE DEF S
  <2>3. m[xs[j]].lane \in Nat
    BY <1>12
  <2>4. m[xs[j]].lane <= 1 + Cardinality(S)
    BY <2>1, <2>2, <2>3, LowLanesCounted
  <2> QED
    BY <2>4 DEF S
<1>16. Packed(m, a)
  <2>1. ASSUME NEW x \in SolidIn(m, a), NEW y \in SolidIn(m, a) \ {x}, Overlap(m[x], m[y])
        PROVE  m[x].lane # m[y].lane
    <3>1. PICK i \in 1 .. n, j \in 1 .. n : x = xs[i] /\ y = xs[j]
      BY <1>13
    <3>2. i < j \/ j < i
      BY <1>5, <3>1
    <3> QED
      BY <1>14, <2>1, <3>1, <3>2
  <2> QED
    BY <1>13, <1>15, <2>1 DEF Packed
<1>17. ASSUME NEW b \in Agent, b # a PROVE LanesKept(ix.span, m, b)
  <2>1. SolidIn(m, b) = SolidIn(ix.span, b)
    BY <1>11 DEF SolidIn, SamePlaces, SameEnds
  <2>2. ASSUME NEW x \in SolidIn(ix.span, b) PROVE m[x] = ix.span[x]
    <3>1. x \in DOMAIN ix.span /\ x \notin Range(xs)
      BY <1>2, <1>17 DEF SolidIn
    <3>2. \A j \in 1 .. n : xs[j] # x
      BY <1>5, <3>1 DEF Range
    <3> QED
      BY <1>9, <1>10, <3>1, <3>2 DEF Laid
  <2> QED
    BY <2>1, <2>2 DEF LanesKept
<1> QED
  BY <1>11, <1>16, <1>17 DEF m

-----------------------------------------------------------------------------
(* What the shown spans are: those of starts, running or with the end that *)
(* is said of them, and markers, which are points.                         *)
IsStarted(m, x, frames) ==
  \E f \in frames : /\ f.kind = "start" /\ x = SpanId(f) /\ m[x].agent = f.agent
                    /\ m[x].end = Forever \/ \E g \in Frame : EndOf(f, g) /\ m[x].end = g.at
IsPoint(m, x) ==
  \E f \in Frame : f.kind \in {"drift", "cancel"} /\ x[1] = f.id /\ m[x].start = f.at /\ m[x].end = f.at
Placed(m, frames) == \A x \in DOMAIN m : IsStarted(m, x, frames) \/ IsPoint(m, x)

(* Each row that was packed still is.                                      *)
StillPacked(m, m2) == \A a \in Agent : Packed(m, a) => Packed(m2, a)

LEMMA PointFacts ==
  ASSUME NEW m \in SpanMaps, NEW x \in DOMAIN m, NEW a
  PROVE  /\ m[x].start \in Nat /\ m[x].end \in Nat
         /\ IsPoint(m, x) => x \notin SolidIn(m, a)
<1>1. m[x].start \in Nat /\ m[x].end \in Nat
  BY SpanMapFacts, ShapeFacts
<1> QED
  BY <1>1 DEF IsPoint, SolidIn

(* A name is that of a start and its end, or of one marker.                *)
LEMMA OneName ==
  ASSUME NEW f \in Frame, NEW g \in Frame, f.kind \in {"start", "end", "drift", "cancel"},
         g.kind \in {"start", "end", "drift", "cancel"}, f.id = g.id
  PROVE  /\ f.kind \in {"drift", "cancel"} => g = f
         /\ f.kind = "start" => g = f \/ EndOf(f, g)
         /\ f.kind = "end" => g = f \/ EndOf(g, f)
<1>1. f \in Spanned /\ g \in Spanned
  BY DEF Spanned
<1> QED
  BY <1>1, NameAssumption DEF EndOf

(* The span of a start's name is of its agent; of a marker's, its point.   *)
LEMMA NamedPlace ==
  ASSUME NEW frames \in SUBSET Frame, NEW m, NEW x \in DOMAIN m, Placed(m, frames), NEW f \in Frame, x[1] = f.id
  PROVE  /\ f.kind \in {"start", "end"} /\ x = SpanId(f) =>
              IsStarted(m, x, frames) /\ m[x].agent = f.agent /\ (f.kind = "start" => f \in frames)
         /\ f.kind \in {"drift", "cancel"} => IsPoint(m, x) /\ m[x].start = f.at /\ m[x].end = f.at
<1>1. IsStarted(m, x, frames) \/ IsPoint(m, x)
  BY DEF Placed
<1>2. ASSUME IsStarted(m, x, frames)
      PROVE  /\ f.kind \notin {"drift", "cancel"}
             /\ f.kind \in {"start", "end"} => m[x].agent = f.agent /\ (f.kind = "start" => f \in frames)
  <2>1. PICK h \in frames : h.kind = "start" /\ x = SpanId(h) /\ m[x].agent = h.agent
    BY <1>2 DEF IsStarted
  <2>2. h \in Frame /\ h.id = f.id
    BY <2>1 DEF SpanId
  <2>3. f.kind \notin {"drift", "cancel"}
    BY <2>1, <2>2, OneName
  <2>4. f.kind \in {"start", "end"} => f = h \/ EndOf(h, f)
    BY <2>1, <2>2, OneName
  <2>5. EndOf(h, f) => f.kind = "end" /\ SpanId(f) = SpanId(h)
    BY <2>2, OneEnd DEF EndOf
  <2>6. SpanId(f) = SpanId(h) => f.agent = h.agent
    BY DEF SpanId
  <2> QED
    BY <2>1, <2>3, <2>4, <2>5, <2>6
<1>3. ASSUME IsPoint(m, x)
      PROVE  /\ f.kind \notin {"start", "end"}
             /\ f.kind \in {"drift", "cancel"} => m[x].start = f.at /\ m[x].end = f.at
  <2>1. PICK h \in Frame : h.kind \in {"drift", "cancel"} /\ x[1] = h.id /\ m[x].start = h.at /\ m[x].end = h.at
    BY <1>3 DEF IsPoint
  <2>2. f.kind \in {"start", "end", "drift", "cancel"} => f = h
    BY <2>1, OneName
  <2> QED
    BY <2>1, <2>2
<1> QED
  BY <1>1, <1>2, <1>3

LEMMA PlacedMore ==
  ASSUME NEW m, NEW A, NEW B, A \subseteq B, Placed(m, A)
  PROVE  Placed(m, B)
BY DEF Placed, IsStarted

LEMMA SamePlaced ==
  ASSUME NEW m, NEW m2, NEW frames, SamePlaces(m, m2), SameEnds(m, m2), Placed(m, frames)
  PROVE  Placed(m2, frames)
BY DEF SamePlaces, SameEnds, Placed, IsStarted, IsPoint

LEMMA SameLanes ==
  ASSUME NEW m, NEW m2, \A a \in Agent : LanesKept(m, m2, a)
  PROVE  StillPacked(m, m2)
BY KeptPacked DEF StillPacked

(* The merge moves points: no start names the made-up row.                 *)
LEMMA ReassignPlaces ==
  ASSUME NEW ix \in GoodIndexes, NEW to \in Agent, to # Legacy, NEW frames \in SUBSET Frame, Placed(ix.span, frames)
  PROVE  LET m == ReassignAgent(ix, Legacy, to).span IN Placed(m, frames) /\ StillPacked(ix.span, m)
<1> DEFINE m == [x \in DOMAIN ix.span |-> IF ix.span[x].agent = Legacy THEN [ix.span[x] EXCEPT !.agent = to] ELSE ix.span[x]]
<1>1. ReassignAgent(ix, Legacy, to).span = m
  BY IndexFacts DEF ReassignAgent, GoodIndexes, Indexes
<1>2. ix.span \in SpanMaps /\ DOMAIN m = DOMAIN ix.span
  BY DEF GoodIndexes, Indexes
<1>3. ASSUME NEW x \in DOMAIN ix.span
      PROVE  /\ m[x].start = ix.span[x].start /\ m[x].end = ix.span[x].end /\ m[x].lane = ix.span[x].lane
             /\ ix.span[x].agent # Legacy => m[x] = ix.span[x]
             /\ ix.span[x].agent = Legacy => m[x].agent = to
  <2>1. ix.span[x] \in Shape
    BY <1>2, SpanMapFacts
  <2> QED
    BY <2>1 DEF Shape
<1> HIDE DEF m
<1>4. ASSUME NEW x \in DOMAIN ix.span, ix.span[x].agent = Legacy PROVE IsPoint(ix.span, x)
  <2>1. ~IsStarted(ix.span, x, frames)
    BY <1>4, FrameFacts DEF IsStarted
  <2> QED
    BY <2>1 DEF Placed
<1>5. Placed(m, frames)
  <2> SUFFICES ASSUME NEW x \in DOMAIN ix.span PROVE IsStarted(m, x, frames) \/ IsPoint(m, x)
    BY <1>2 DEF Placed
  <2>1. CASE ix.span[x].agent = Legacy
    BY <1>3, <1>4, <2>1 DEF IsPoint
  <2>2. CASE ix.span[x].agent # Legacy
    BY <1>3, <2>2 DEF Placed, IsStarted, IsPoint
  <2> QED
    BY <2>1, <2>2
<1>6. ASSUME NEW a \in Agent PROVE LanesKept(ix.span, m, a)
  <2>1. ASSUME NEW x \in DOMAIN ix.span PROVE x \in SolidIn(m, a) <=> x \in SolidIn(ix.span, a)
    <3>1. CASE ix.span[x].agent = Legacy
      <4>1. ~(ix.span[x].start < ix.span[x].end)
        BY <1>2, <1>4, <3>1, PointFacts DEF SolidIn
      <4> QED
        BY <1>2, <1>3, <4>1 DEF SolidIn
    <3>2. CASE ix.span[x].agent # Legacy
      BY <1>2, <1>3, <3>2 DEF SolidIn
    <3> QED
      BY <3>1, <3>2
  <2>2. SolidIn(m, a) = SolidIn(ix.span, a)
    <3>1. SolidIn(m, a) \subseteq DOMAIN ix.span /\ SolidIn(ix.span, a) \subseteq DOMAIN ix.span
      BY <1>2 DEF SolidIn
    <3> QED
      BY <2>1, <3>1
  <2> QED
    BY <1>3, <2>2 DEF LanesKept, SolidIn
<1> QED
  BY <1>1, <1>5, <1>6, SameLanes

-----------------------------------------------------------------------------
(* What the operators of the index do to one span.                         *)
PutOne(m, m2, x) == DOMAIN m2 = DOMAIN m \union {x} /\ \A z \in DOMAIN m : z # x => m2[z] = m[z]

LEMMA UpdateParts ==
  ASSUME NEW ix \in GoodIndexes, NEW x \in DOMAIN ix.span, NEW e
  PROVE  LET m == UpdateSpan(ix, x, e).span IN
         /\ PutOne(ix.span, m, x) /\ m[x].agent = ix.span[x].agent /\ m[x].start = ix.span[x].start
         /\ m[x].end = e /\ m[x].lane = ix.span[x].lane
<1> DEFINE s == [ix.span[x] EXCEPT !.end = e]
           m == [ix.span EXCEPT ![x] = s]
<1>1. ix \in Indexes /\ ix.span \in [DOMAIN ix.span -> Shape] /\ ix.span[x] \in Shape
  BY IndexFacts, SpanMapFacts DEF GoodIndexes
<1>2. s.agent = ix.span[x].agent /\ s.start = ix.span[x].start /\ s.end = e /\ s.lane = ix.span[x].lane
  BY <1>1 DEF Shape
<1>3. UpdateSpan(ix, x, e) = [ix EXCEPT !.span[x] = s, !.maxEnd = Widen(ix, s)]
  BY DEF UpdateSpan
<1> HIDE DEF s
<1>4. UpdateSpan(ix, x, e).span = m
  BY <1>1, <1>3 DEF Indexes
<1>5. m[x] = s /\ PutOne(ix.span, m, x)
  BY <1>1 DEF PutOne
<1> QED
  BY <1>2, <1>4, <1>5

LEMMA AppendParts ==
  ASSUME NEW ix \in GoodIndexes, NEW x, x \notin DOMAIN ix.span, NEW s
  PROVE  LET m == AppendSpan(ix, x, s).span IN PutOne(ix.span, m, x) /\ m[x] = s
BY DEF AppendSpan, Put, PutOne

LEMMA PutElsewhere ==
  ASSUME NEW m, NEW m2, NEW x, PutOne(m, m2, x), NEW a, x \notin SolidIn(m, a), x \notin SolidIn(m2, a)
  PROVE  LanesKept(m, m2, a)
<1>1. SolidIn(m2, a) = SolidIn(m, a)
  BY DEF PutOne, SolidIn
<1>2. \A z \in SolidIn(m, a) : z # x /\ z \in DOMAIN m /\ m2[z] = m[z]
  BY DEF PutOne, SolidIn
<1> QED
  BY <1>1, <1>2 DEF LanesKept

LEMMA PutBack ==
  ASSUME NEW m, NEW m2, NEW x \in DOMAIN m, PutOne(m, m2, x), m2[x].agent = m[x].agent,
         m2[x].start = m[x].start, m2[x].end = m[x].end, m2[x].lane = m[x].lane, NEW a
  PROVE  LanesKept(m, m2, a)
<1>1. \A z \in DOMAIN m : /\ m2[z].agent = m[z].agent /\ m2[z].start = m[z].start
                          /\ m2[z].end = m[z].end /\ m2[z].lane = m[z].lane
  BY DEF PutOne
<1>2. DOMAIN m2 = DOMAIN m
  BY DEF PutOne
<1>3. SolidIn(m2, a) = SolidIn(m, a)
  BY <1>1, <1>2 DEF SolidIn
<1> QED
  BY <1>1, <1>3 DEF LanesKept, SolidIn

LEMMA PutPlaced ==
  ASSUME NEW m, NEW m2, NEW x, NEW frames, PutOne(m, m2, x), Placed(m, frames),
         IsStarted(m2, x, frames) \/ IsPoint(m2, x)
  PROVE  Placed(m2, frames)
<1> SUFFICES ASSUME NEW z \in DOMAIN m2 PROVE IsStarted(m2, z, frames) \/ IsPoint(m2, z)
  BY DEF Placed
<1>1. CASE z = x
  BY <1>1
<1>2. CASE z # x
  <2>1. z \in DOMAIN m /\ m2[z] = m[z]
    BY <1>2 DEF PutOne
  <2> QED
    BY <2>1 DEF Placed, IsStarted, IsPoint
<1> QED
  BY <1>1, <1>2

(* A marker is a point, whether it comes for the first time or again.      *)
LEMMA MarkerLanes ==
  ASSUME NEW ix \in GoodIndexes, NEW frames \in SUBSET Frame, Placed(ix.span, frames),
         NEW f \in Frame, f.kind \in {"drift", "cancel"}, NEW x, x[1] = f.id, NEW actor
  PROVE  LET m == AppendSpan(ix, x, Marker(actor, f.at)).span IN Placed(m, frames) /\ StillPacked(ix.span, m)
<1> DEFINE mark == Marker(actor, f.at)
           m == AppendSpan(ix, x, mark).span
<1>1. mark.start = f.at /\ mark.end = f.at
  BY DEF Marker
<1> HIDE DEF mark
<1>2. CASE x \in DOMAIN ix.span
  <2>1. AppendSpan(ix, x, mark) = UpdateSpan(ix, x, f.at)
    BY <1>1, <1>2 DEF AppendSpan
  <2>2. ix.span[x].start = f.at /\ ix.span[x].end = f.at
    BY <1>2, NamedPlace
  <2>3. /\ PutOne(ix.span, m, x) /\ m[x].agent = ix.span[x].agent /\ m[x].start = ix.span[x].start
        /\ m[x].end = f.at /\ m[x].lane = ix.span[x].lane
    BY <1>2, <2>1, UpdateParts
  <2> HIDE DEF m
  <2>4. IsPoint(m, x)
    BY <2>2, <2>3 DEF IsPoint
  <2>5. \A a \in Agent : LanesKept(ix.span, m, a)
    BY <1>2, <2>2, <2>3, PutBack
  <2> QED
    BY <2>3, <2>4, <2>5, PutPlaced, SameLanes DEF m, mark
<1>3. CASE x \notin DOMAIN ix.span
  <2>1. PutOne(ix.span, m, x) /\ m[x] = mark
    BY <1>3, AppendParts
  <2> HIDE DEF m
  <2>2. IsPoint(m, x)
    BY <1>1, <2>1 DEF IsPoint
  <2>3. ASSUME NEW a \in Agent PROVE LanesKept(ix.span, m, a)
    <3>1. x \notin SolidIn(ix.span, a)
      BY <1>3 DEF SolidIn
    <3>2. x \notin SolidIn(m, a)
      <4>1. ~(mark.start < mark.end)
        BY <1>1, FrameFacts
      <4> QED
        BY <2>1, <4>1 DEF SolidIn
    <3> QED
      BY <2>1, <3>1, <3>2, PutElsewhere
  <2> QED
    BY <2>1, <2>2, <2>3, PutPlaced, SameLanes DEF m, mark
<1> QED
  BY <1>2, <1>3

(* A start moves its own row only.                                         *)
LEMMA StartLanes ==
  ASSUME NEW ix \in GoodIndexes, NEW frames \in SUBSET Frame, Placed(ix.span, frames),
         NEW f \in frames, f.kind = "start", NEW end, end = Forever \/ \E g \in Frame : EndOf(f, g) /\ end = g.at,
         NEW s, s.agent = f.agent, s.end = end
  PROVE  LET m == AppendSpan(ix, SpanId(f), s).span IN
         Placed(m, frames) /\ \A b \in Agent : b # f.agent => LanesKept(ix.span, m, b)
<1> DEFINE x == SpanId(f)
           m == AppendSpan(ix, x, s).span
<1>1. PutOne(ix.span, m, x) /\ m[x].agent = f.agent /\ m[x].end = end /\ (x \in DOMAIN ix.span => ix.span[x].agent = f.agent)
  <2>1. CASE x \in DOMAIN ix.span
    <3>1. x[1] = f.id
      BY DEF SpanId
    <3>2. ix.span[x].agent = f.agent
      BY <2>1, <3>1, NamedPlace
    <3>3. AppendSpan(ix, x, s) = UpdateSpan(ix, x, end)
      BY <2>1 DEF AppendSpan
    <3> HIDE DEF x
    <3>4. PutOne(ix.span, m, x) /\ m[x].agent = ix.span[x].agent /\ m[x].end = end
      BY <2>1, <3>3, UpdateParts
    <3> QED
      BY <3>2, <3>4
  <2>2. CASE x \notin DOMAIN ix.span
    <3> HIDE DEF x
    <3>1. PutOne(ix.span, m, x) /\ m[x] = s
      BY <2>2, AppendParts
    <3> QED
      BY <2>2, <3>1
  <2> QED
    BY <2>1, <2>2
<1> HIDE DEF m
<1>2. IsStarted(m, x, frames)
  BY <1>1 DEF IsStarted
<1> HIDE DEF x
<1>3. ASSUME NEW b \in Agent, b # f.agent PROVE LanesKept(ix.span, m, b)
  <2>1. x \notin SolidIn(ix.span, b) /\ x \notin SolidIn(m, b)
    BY <1>1, <1>3 DEF SolidIn
  <2> QED
    BY <1>1, <2>1, PutElsewhere
<1>4. Placed(m, frames)
  BY <1>1, <1>2, PutPlaced
<1> QED
  BY <1>3, <1>4 DEF m, x

(* An end moves its own row, and nothing when it has been shown.           *)
LEMMA EndLanes ==
  ASSUME NEW ix \in GoodIndexes, NEW frames \in SUBSET Frame, Placed(ix.span, frames),
         NEW f \in Frame, f.kind = "end", SpanId(f) \in DOMAIN ix.span
  PROVE  LET m == UpdateSpan(ix, SpanId(f), f.at).span
             shown == ix.span[SpanId(f)] IN
         /\ Placed(m, frames)
         /\ \A b \in Agent : b # shown.agent \/ shown.end # Forever => LanesKept(ix.span, m, b)
<1> DEFINE x == SpanId(f)
           m == UpdateSpan(ix, x, f.at).span
<1>1. x[1] = f.id
  BY DEF SpanId
<1>2. /\ PutOne(ix.span, m, x) /\ m[x].agent = ix.span[x].agent /\ m[x].start = ix.span[x].start
      /\ m[x].end = f.at /\ m[x].lane = ix.span[x].lane
  BY UpdateParts
<1> HIDE DEF m
<1>3. IsStarted(ix.span, x, frames)
  BY <1>1, NamedPlace
<1>4. PICK h \in frames : /\ h.kind = "start" /\ x = SpanId(h) /\ ix.span[x].agent = h.agent
                          /\ ix.span[x].end = Forever \/ \E g \in Frame : EndOf(h, g) /\ ix.span[x].end = g.at
  BY <1>3 DEF IsStarted
<1>5. EndOf(h, f)
  <2>1. h.id = f.id /\ h \in Frame
    BY <1>1, <1>4 DEF SpanId
  <2> QED
    BY <1>4, <2>1 DEF EndOf
<1>6. IsStarted(m, x, frames)
  BY <1>2, <1>4, <1>5 DEF IsStarted
<1>7. Placed(m, frames)
  BY <1>2, <1>6, PutPlaced
<1>8. ASSUME NEW b \in Agent, ix.span[x].end # Forever PROVE LanesKept(ix.span, m, b)
  <2>1. PICK g \in Frame : EndOf(h, g) /\ ix.span[x].end = g.at
    BY <1>4, <1>8
  <2>2. g = f
    BY <1>5, <2>1, OneEnd
  <2> QED
    BY <1>2, <2>1, <2>2, PutBack
<1>9. ASSUME NEW b \in Agent, b # ix.span[x].agent PROVE LanesKept(ix.span, m, b)
  <2>1. x \notin SolidIn(ix.span, b) /\ x \notin SolidIn(m, b)
    BY <1>2, <1>9 DEF SolidIn
  <2> QED
    BY <1>2, <2>1, PutElsewhere
<1> QED
  BY <1>7, <1>8, <1>9 DEF m

-----------------------------------------------------------------------------
(* What the store's operations do to the lanes.                            *)
LanesStay(st, st2, frames) ==
  Placed(st2.index.span, frames) /\ StillPacked(st.index.span, st2.index.span)
OthersStay(st, st2, a) ==
  \A b \in Agent : b # a /\ Packed(st.index.span, b) => Packed(st2.index.span, b)

LEMMA StayTwice ==
  ASSUME NEW st, NEW st1, NEW st2, NEW frames, LanesStay(st, st1, frames), LanesStay(st1, st2, frames)
  PROVE  LanesStay(st, st2, frames)
BY DEF LanesStay, StillPacked

LEMMA RepackLanes ==
  ASSUME NEW st \in GoodStores, NEW a \in Agent, NEW frames, Placed(st.index.span, frames)
  PROVE  LanesStay(st, Repack(st, a), frames) /\ Packed(Repack(st, a).index.span, a)
<1> DEFINE ix == PackLanes(st.index, a)
<1>1. st.index \in GoodIndexes /\ st \in Stores
  BY DEF GoodStores, GoodRows
<1>2. /\ SamePlaces(st.index.span, ix.span) /\ SameEnds(st.index.span, ix.span) /\ Packed(ix.span, a)
      /\ \A b \in Agent : b # a => LanesKept(st.index.span, ix.span, b)
  BY <1>1, PackPacks
<1>3. Repack(st, a).index = ix
  BY <1>1 DEF Repack, Stores
<1> HIDE DEF ix
<1>4. StillPacked(st.index.span, ix.span)
  BY <1>2, KeptPacked DEF StillPacked
<1>5. Placed(ix.span, frames)
  BY <1>2, SamePlaced
<1> QED
  BY <1>2, <1>3, <1>4, <1>5 DEF LanesStay

LEMMA MergeLanes ==
  ASSUME NEW st, GoodRows(st), NEW frames \in SUBSET Frame, Placed(st.index.span, frames), NEW a
  PROVE  LanesStay(st, MergeGoldfive(st), frames) /\ LanesStay(st, MergeFor(st, a), frames)
<1>1. LanesStay(st, st, frames)
  BY DEF LanesStay, StillPacked
<1>2. LanesStay(st, MergeGoldfive(st), frames)
  <2>1. CASE CompoundRows(st) = {} \/ ~Known(st, Legacy)
    BY <1>1, <2>1 DEF MergeGoldfive
  <2>2. CASE CompoundRows(st) # {} /\ Known(st, Legacy)
    <3> DEFINE to == ResolveGoldfive(st)
               ix == ReassignAgent(st.index, Legacy, to)
               st1 == [st EXCEPT !.index = ix]
    <3>1. to \in Agent /\ to # Legacy
      BY <2>2, ResolveFacts, ActorAssumption
    <3>2. st.index \in GoodIndexes /\ st \in Stores
      BY DEF GoodRows
    <3>3. Placed(ix.span, frames) /\ StillPacked(st.index.span, ix.span)
      BY <3>1, <3>2, ReassignPlaces
    <3>4. MergeGoldfive(st) = RemoveAgent(st1, Legacy)
      BY <2>2 DEF MergeGoldfive
    <3> HIDE DEF ix
    <3>5. st1 = [st1 EXCEPT !.index = ix] /\ st1.index = ix
      BY <3>2 DEF Stores
    <3>6. RemoveAgent(st1, Legacy).index = ix
      <4>1. DOMAIN st1 = DOMAIN st /\ "index" \in DOMAIN st
        BY <3>2 DEF Stores
      <4> HIDE DEF st1
      <4> QED
        BY <3>5, <4>1 DEF RemoveAgent
    <3> QED
      BY <3>3, <3>4, <3>6 DEF LanesStay
  <2> QED
    BY <2>1, <2>2
<1> QED
  BY <1>1, <1>2 DEF MergeFor

LEMMA OnAgentLanes ==
  ASSUME NEW st \in GoodStores, NEW f \in Frame, NEW frames \in SUBSET Frame, Placed(st.index.span, frames)
  PROVE  LanesStay(st, OnAgent(st, f), frames)
<1> DEFINE st2 == UpsertAgent(st, f.agent, f.at)
<1>1. GoodRows(st2) /\ st2.index = st.index
  BY UpsertGood, FrameFacts DEF GoodStores, WithRow
<1>2. OnAgent(st, f) = MergeFor(st2, f.agent)
  BY DEF OnAgent
<1> HIDE DEF st2
<1>3. LanesStay(st2, MergeFor(st2, f.agent), frames)
  BY <1>1, MergeLanes
<1> QED
  BY <1>1, <1>2, <1>3 DEF LanesStay

LEMMA OnSpanLanes ==
  ASSUME NEW st \in GoodStores, NEW frames \in SUBSET Frame, Placed(st.index.span, frames),
         NEW f \in frames, f.kind = "start", NEW end \in 1 .. Forever, end = Forever \/ \E g \in Frame : EndOf(f, g) /\ end = g.at
  PROVE  Placed(OnSpan(st, f, end).index.span, frames) /\ OthersStay(st, OnSpan(st, f, end), f.agent)
<1> DEFINE s == [agent |-> f.agent, start |-> f.at, end |-> end, lane |-> 0]
           ix == AppendSpan(st.index, SpanId(f), s)
           st2 == [st EXCEPT !.index = ix]
           st3 == OnSpan(st, f, end)
<1>1. s \in Shape /\ s.agent = f.agent /\ SpanId(f) \in SpanName /\ s.end = end /\ s.start = f.at /\ s.agent # Legacy
  BY FrameFacts DEF Shape
<1>2. st.index \in GoodIndexes /\ NoSpansUnknown(st)
  BY DEF GoodStores, GoodRows
<1>3. st2 = [st EXCEPT !.index = AppendSpan(@, SpanId(f), s)]
  OBVIOUS
<1>7. st3 = MergeFor(st2, f.agent)
  BY DEF OnSpan
<1> HIDE DEF s, st3
<1>4. /\ ix \in GoodIndexes /\ ix.rows[Legacy] = st.index.rows[Legacy]
  <2>1. SpanId(f)[1] = f.id /\ f \in Spanned /\ \A g \in Spanned : g.id = SpanId(f)[1] => s.start <= g.at
    BY <1>1, StartIsFirst DEF SpanId
  <2>2. \A g \in Frame : EndOf(f, g) => g \in Spanned /\ g.id = SpanId(f)[1]
    BY <2>1 DEF EndOf, Spanned
  <2>3. s.end = Forever \/ \E g \in Spanned : g.id = SpanId(f)[1] /\ s.end = g.at
    BY <1>1, <2>2
  <2> QED
    BY <1>1, <1>2, <2>1, <2>3, AppendSpanGood, ActorAssumption
<1>5. Placed(ix.span, frames) /\ \A b \in Agent : b # f.agent => LanesKept(st.index.span, ix.span, b)
  BY <1>1, <1>2, StartLanes
<1> HIDE DEF ix
<1>6. st2 \in GoodStores /\ st2.index = ix
  BY <1>2, <1>4, IndexPut DEF NoSpansUnknown
<1> HIDE DEF st2
<1>8. OthersStay(st, st2, f.agent)
  BY <1>5, <1>6, KeptPacked DEF OthersStay
<1>9. LanesStay(st2, st3, frames)
  BY <1>5, <1>6, <1>7, MergeLanes DEF GoodStores
<1> QED
  BY <1>8, <1>9 DEF LanesStay, StillPacked, OthersStay, st3

LEMMA OnStartLanes ==
  ASSUME NEW st \in GoodStores, NEW frames \in SUBSET Frame, Placed(st.index.span, frames),
         NEW f \in frames, f.kind = "start"
  PROVE  LanesStay(st, OnStart(st, f), frames) /\ Packed(OnStart(st, f).index.span, f.agent)
<1> DEFINE st2 == OnSpan(st, f, Forever)
<1>1. f \in Frame /\ f.agent \in Agent /\ Forever \in 1 .. Forever
  BY FrameFacts
<1>2. st2 \in GoodStores
  BY <1>1, OnSpanGood
<1>3. Placed(st2.index.span, frames) /\ OthersStay(st, st2, f.agent)
  BY <1>1, OnSpanLanes
<1>4. OnStart(st, f) = Repack(st2, f.agent)
  BY DEF OnStart
<1> HIDE DEF st2
<1>5. LanesStay(st2, Repack(st2, f.agent), frames) /\ Packed(Repack(st2, f.agent).index.span, f.agent)
  BY <1>1, <1>2, <1>3, RepackLanes
<1> QED
  BY <1>3, <1>4, <1>5 DEF LanesStay, StillPacked, OthersStay

LEMMA OnEndLanes ==
  ASSUME NEW st \in GoodStores, NEW frames \in SUBSET Frame, Placed(st.index.span, frames),
         NEW f \in Frame, f.kind = "end"
  PROVE  LanesStay(st, OnEnd(st, f), frames)
<1>1. CASE SpanId(f) \notin DOMAIN st.index.span
  BY <1>1 DEF OnEnd, LanesStay, StillPacked
<1>2. CASE SpanId(f) \in DOMAIN st.index.span
  <2> DEFINE shown == st.index.span[SpanId(f)]
             ix == UpdateSpan(st.index, SpanId(f), f.at)
             ended == [st EXCEPT !.index = ix]
  <2>1. st.index \in GoodIndexes /\ NoSpansUnknown(st)
    BY DEF GoodStores, GoodRows
  <2>2. f \in Spanned /\ SpanId(f)[1] = f.id /\ f.at \in 1 .. Forever
    BY FrameFacts DEF Spanned, SpanId
  <2>3. shown.start <= f.at
    BY <1>2, <2>1, <2>2 DEF GoodIndexes, GoodSpans
  <2>4. ix \in GoodIndexes /\ ix.rows = st.index.rows
    BY <1>2, <2>1, <2>2, <2>3, UpdateSpanGood
  <2>5. shown.agent \in Agent
    BY <1>2, <2>1, IndexFacts, SpanMapFacts, ShapeFacts DEF GoodIndexes
  <2>6. OnEnd(st, f) = IF shown.end = Forever THEN Repack(ended, shown.agent) ELSE ended
    BY <1>2 DEF OnEnd
  <2>7. /\ Placed(ix.span, frames)
        /\ \A b \in Agent : b # shown.agent \/ shown.end # Forever => LanesKept(st.index.span, ix.span, b)
    BY <1>2, <2>1, EndLanes
  <2> HIDE DEF ix
  <2>8. ended \in GoodStores /\ ended.index = ix
    BY <2>1, <2>4, IndexPut DEF NoSpansUnknown
  <2> HIDE DEF ended, shown
  <2>9. \A b \in Agent : b # shown.agent \/ shown.end # Forever =>
          (Packed(st.index.span, b) => Packed(ended.index.span, b))
    BY <2>7, <2>8, KeptPacked
  <2>10. CASE shown.end = Forever
    <3>1. LanesStay(ended, Repack(ended, shown.agent), frames) /\ Packed(Repack(ended, shown.agent).index.span, shown.agent)
      BY <2>5, <2>7, <2>8, RepackLanes
    <3> QED
      BY <2>6, <2>9, <2>10, <3>1 DEF LanesStay, StillPacked
  <2>11. CASE shown.end # Forever
    BY <2>6, <2>7, <2>8, <2>9, <2>11 DEF LanesStay, StillPacked
  <2> QED
    BY <2>10, <2>11
<1> QED
  BY <1>1, <1>2

LEMMA OnDriftLanes ==
  ASSUME NEW st \in GoodStores, NEW frames \in SUBSET Frame, Placed(st.index.span, frames),
         NEW f \in Frame, f.kind = "drift"
  PROVE  LanesStay(st, OnDrift(st, f), frames)
<1> DEFINE actor == IF f.agent = User THEN User ELSE ResolveGoldfive(st)
           st2 == EnsureSynthetic(st, actor)
           ix == AppendSpan(st2.index, <<f.id, actor>>, Marker(actor, f.at))
<1>1. actor \in Agent /\ GoodRows(st)
  BY ResolveFacts, ActorAssumption DEF GoodStores
<1>2. OnDrift(st, f).index = [st2 EXCEPT !.drifts = Append(st2.drifts, f.id), !.index = ix].index
  BY DEF OnDrift
<1> HIDE DEF actor
<1>3. GoodRows(st2) /\ st2.index = st.index
  BY <1>1, EnsureGood DEF WithRow
<1> HIDE DEF st2
<1>4. st2 \in Stores /\ st2.index \in GoodIndexes
  BY <1>3 DEF GoodRows
<1>5. Placed(ix.span, frames) /\ StillPacked(st2.index.span, ix.span)
  <2>1. <<f.id, actor>>[1] = f.id
    OBVIOUS
  <2> QED
    BY <1>3, <1>4, <2>1, MarkerLanes
<1> HIDE DEF ix
<1>6. OnDrift(st, f).index = ix
  BY <1>2, <1>4 DEF Stores
<1> QED
  BY <1>3, <1>5, <1>6 DEF LanesStay

LEMMA OnCancelLanes ==
  ASSUME NEW st \in GoodStores, NEW frames \in SUBSET Frame, Placed(st.index.span, frames),
         NEW f \in Frame, f.kind = "cancel"
  PROVE  LanesStay(st, OnCancel(st, f), frames)
<1> DEFINE st2 == EnsureAgent(st, f.agent)
           ix == AppendSpan(st2.index, SpanId(f), Marker(f.agent, f.at))
<1>1. OnCancel(st, f).index = [st2 EXCEPT !.index = ix].index
  BY DEF OnCancel
<1>2. GoodRows(st2) /\ st2.index = st.index
  BY FrameFacts, EnsureGood DEF GoodStores, WithRow
<1> HIDE DEF st2
<1>3. st2 \in Stores /\ st2.index \in GoodIndexes
  BY <1>2 DEF GoodRows
<1>4. Placed(ix.span, frames) /\ StillPacked(st2.index.span, ix.span)
  <2>1. SpanId(f)[1] = f.id
    BY DEF SpanId
  <2> QED
    BY <1>2, <1>3, <2>1, MarkerLanes
<1> HIDE DEF ix
<1>5. OnCancel(st, f).index = ix
  BY <1>1, <1>3 DEF Stores
<1> QED
  BY <1>2, <1>4, <1>5 DEF LanesStay

LEMMA OnEventLanes ==
  ASSUME NEW st \in GoodStores, NEW frames \in SUBSET Frame, Placed(st.index.span, frames),
         NEW f \in Frame, f.kind \in {"plan", "drift", "cancel", "delegation"}
  PROVE  LanesStay(st, OnEvent(st, f), frames)
<1> DEFINE next == CASE f.kind = "plan" -> OnPlan(st, f)
                     [] f.kind = "drift" -> OnDrift(st, f)
                     [] f.kind = "cancel" -> OnCancel(st, f)
                     [] f.kind = "delegation" -> OnDelegation(st, f)
<1>1. next \in GoodStores /\ LanesStay(st, next, frames)
  <2>1. CASE f.kind = "plan"
    <3>1. OnPlan(st, f).index = st.index
      BY FrameFacts, EnsureGood DEF OnPlan, GoodStores, WithRow
    <3>2. LanesStay(st, OnPlan(st, f), frames)
      BY <3>1 DEF LanesStay, StillPacked
    <3> QED
      BY <2>1, <3>2, OnPlanGood
  <2>2. CASE f.kind = "drift"
    BY <2>2, OnDriftGood, OnDriftLanes
  <2>3. CASE f.kind = "cancel"
    BY <2>3, OnCancelGood, OnCancelLanes
  <2>4. CASE f.kind = "delegation"
    <3>1. OnDelegation(st, f).index = st.index
      BY DEF OnDelegation, GoodStores, Stores
    <3>2. LanesStay(st, OnDelegation(st, f), frames)
      BY <3>1 DEF LanesStay, StillPacked
    <3> QED
      BY <2>4, <3>2, OnDelegationGood
  <2> QED
    BY <2>1, <2>2, <2>3, <2>4
<1>2. OnEvent(st, f) = Repack(next, ResolveGoldfive(next))
  BY DEF OnEvent
<1> HIDE DEF next
<1>3. ResolveGoldfive(next) \in Agent
  BY <1>1, ResolveFacts DEF GoodStores
<1>4. LanesStay(next, OnEvent(st, f), frames)
  BY <1>1, <1>2, <1>3, RepackLanes DEF LanesStay
<1> QED
  BY <1>1, <1>4, StayTwice

LEMMA OnFrameLanes ==
  ASSUME NEW st \in GoodStores, NEW frames \in SUBSET Frame, Placed(st.index.span, frames), NEW f \in frames
  PROVE  /\ LanesStay(st, OnFrame(st, f), frames)
         /\ f.kind = "start" => Packed(OnFrame(st, f).index.span, f.agent)
<1>1. f \in Frame /\ f.kind \in {"agent", "start", "end", "plan", "drift", "cancel", "delegation"}
  BY FrameFacts
<1>2. CASE f.kind = "agent"
  <2>1. OnFrame(st, f) = OnAgent(st, f)
    BY <1>2 DEF OnFrame
  <2> QED
    BY <1>1, <1>2, <2>1, OnAgentLanes
<1>3. CASE f.kind = "start"
  <2>1. OnFrame(st, f) = OnStart(st, f)
    BY <1>3 DEF OnFrame
  <2> QED
    BY <1>3, <2>1, OnStartLanes
<1>4. CASE f.kind = "end"
  <2>1. OnFrame(st, f) = OnEnd(st, f)
    BY <1>4 DEF OnFrame
  <2> QED
    BY <1>1, <1>4, <2>1, OnEndLanes
<1>5. CASE f.kind \in {"plan", "drift", "cancel", "delegation"}
  <2>1. OnFrame(st, f) = OnEvent(st, f)
    BY <1>5 DEF OnFrame
  <2> QED
    BY <1>1, <1>5, <2>1, OnEventLanes
<1> QED
  BY <1>1, <1>2, <1>3, <1>4, <1>5

-----------------------------------------------------------------------------
(* Reading the rows: every span that is put is one that was said.          *)
LEMMA ReadAgentsLanes ==
  ASSUME StoreInv, ReadAgents, Placed(store.index.span, said)
  PROVE  Placed(store'.index.span, said)
<1>1. PICK listed \in Orders({"agent"}) : store' = FoldLeft(OnAgent, store, listed)
  BY DEF ReadAgents
<1>2. listed \in Seq(FramesOf({"agent"})) /\ said \in SUBSET Frame
  BY OrdersTyped DEF StoreInv
<1>3. PICK r \in [0 .. Len(listed) -> GoodStores] :
        /\ r[0] = store /\ r[Len(listed)] = FoldLeft(OnAgent, store, listed)
        /\ \A k \in 1 .. Len(listed) : r[k] = OnAgent(r[k - 1], listed[k])
  BY <1>2, AgentsFold DEF StoreInv
<1> DEFINE n == Len(listed)
           A == [k \in 0 .. n |-> {d \in GoodStores : Placed(d.index.span, said)}]
<1>4. n \in Nat /\ \A k \in 1 .. n : listed[k] \in Frame
  BY <1>2, SeqFacts DEF FramesOf
<1>5. 0 \in 0 .. n /\ n \in 0 .. n /\ \A k \in 1 .. n : k \in 0 .. n /\ k - 1 \in 0 .. n
  BY <1>4
<1>6. \A k \in 0 .. n : r[k] \in A[k] <=> Placed(r[k].index.span, said)
  BY <1>3
<1>7. r \in [0 .. n -> GoodStores] /\ r[0] = store /\ r[n] = store' /\ \A k \in 1 .. n : r[k] = OnAgent(r[k - 1], listed[k])
  BY <1>1, <1>3
<1> HIDE DEF n, A
<1>8. ASSUME NEW k \in 1 .. n, r[k - 1] \in A[k - 1] PROVE r[k] \in A[k]
  <2>1. r[k - 1] \in GoodStores /\ Placed(r[k - 1].index.span, said)
    BY <1>5, <1>6, <1>7, <1>8
  <2>2. LanesStay(r[k - 1], OnAgent(r[k - 1], listed[k]), said)
    BY <1>2, <1>4, <2>1, OnAgentLanes
  <2> QED
    BY <1>5, <1>6, <1>7, <2>2 DEF LanesStay
<1>9. r[0] \in A[0]
  BY <1>5, <1>6, <1>7
<1>10. \A k \in 0 .. n : r[k] \in A[k]
  BY <1>4, <1>8, <1>9, StepsReach
<1> QED
  BY <1>5, <1>6, <1>7, <1>10

LEMMA ReadSpansLanes ==
  ASSUME StoreInv, ReadSpans, Placed(store.index.span, said)
  PROVE  Placed(store'.index.span, said)
<1>1. PICK listed \in Orders({"start"}) :
        store' = FoldLeft(LAMBDA st, f : OnSpan(st, f, StoredEnd(f)), store, listed)
  BY DEF ReadSpans
<1>2. listed \in Seq(FramesOf({"start"})) /\ said \in SUBSET Frame /\ Range(listed) = {f \in said : f.kind \in {"start"}}
  BY OrdersTyped, OrdersAll DEF StoreInv
<1>3. \A f \in Frame : f.kind = "start" => EndStored(f, StoredEnd(f))
  BY StoredEndFacts DEF StoreInv
<1>4. PICK r \in [0 .. Len(listed) -> GoodStores] :
        /\ r[0] = store /\ r[Len(listed)] = FoldLeft(LAMBDA st, f : OnSpan(st, f, StoredEnd(f)), store, listed)
        /\ \A k \in 1 .. Len(listed) : r[k] = OnSpan(r[k - 1], listed[k], StoredEnd(listed[k]))
  BY <1>2, <1>3, SpansFold DEF StoreInv
<1> DEFINE n == Len(listed)
           A == [k \in 0 .. n |-> {d \in GoodStores : Placed(d.index.span, said)}]
<1>5. n \in Nat /\ \A k \in 1 .. n : listed[k] \in said /\ listed[k].kind = "start"
  <2>1. n \in Nat /\ DOMAIN listed = 1 .. n
    BY <1>2, SeqFacts
  <2> QED
    BY <1>2, <2>1 DEF Range
<1>6. 0 \in 0 .. n /\ n \in 0 .. n /\ \A k \in 1 .. n : k \in 0 .. n /\ k - 1 \in 0 .. n
  BY <1>5
<1>7. \A k \in 0 .. n : r[k] \in A[k] <=> Placed(r[k].index.span, said)
  BY <1>4
<1>8. \A k \in 1 .. n : r[k] = OnSpan(r[k - 1], listed[k], StoredEnd(listed[k]))
  BY <1>4
<1>9. r \in [0 .. n -> GoodStores] /\ r[0] = store /\ r[n] = store'
  BY <1>1, <1>4
<1> HIDE DEF n, A
<1>10. ASSUME NEW k \in 1 .. n, r[k - 1] \in A[k - 1] PROVE r[k] \in A[k]
  <2> DEFINE d == r[k - 1]
             f == listed[k]
             end == StoredEnd(f)
  <2>1. d \in GoodStores /\ Placed(d.index.span, said) /\ r[k] = OnSpan(d, f, end) /\ f \in said /\ f.kind = "start"
    BY <1>5, <1>6, <1>7, <1>8, <1>9, <1>10
  <2>2. end \in 1 .. Forever /\ (end = Forever \/ \E g \in Frame : EndOf(f, g) /\ end = g.at)
    <3>1. end \in 1 .. Forever
      BY <1>2, <1>3, <2>1 DEF EndStored
    <3>2. CASE \E g \in said : EndOf(f, g)
      BY <1>2, <2>1, <3>2, <3>1, StoredEndFacts
    <3>3. CASE \A g \in said : ~EndOf(f, g)
      BY <1>2, <2>1, <3>3, <3>1, StoredEndFacts
    <3> QED
      BY <3>1, <3>2, <3>3
  <2> HIDE DEF d, f, end
  <2>3. Placed(OnSpan(d, f, end).index.span, said)
    BY <1>2, <2>1, <2>2, OnSpanLanes
  <2>4. Placed(r[k].index.span, said)
    BY <2>1, <2>3
  <2> QED
    BY <1>6, <1>7, <2>4
<1>11. r[0] \in A[0]
  BY <1>6, <1>7, <1>9
<1>12. \A k \in 0 .. n : r[k] \in A[k]
  BY <1>5, <1>10, <1>11, StepsReach
<1> QED
  BY <1>6, <1>7, <1>9, <1>12

(* The end of the burst packs the row of every agent there is.             *)
LEMMA PackAllLanes ==
  ASSUME NEW st \in GoodStores, NEW frames, Placed(st.index.span, frames)
  PROVE  /\ Placed(PackAll(st).index.span, frames)
         /\ \A a \in DOMAIN st.meta : Packed(PackAll(st).index.span, a)
<1> DEFINE xs == st.agents
           n == Len(xs)
<1>1. PackAll(st) = FoldLeft(Repack, st, xs)
  BY DEF PackAll
<1>2. xs \in Seq(Agent) /\ Range(xs) = DOMAIN st.meta
  BY StoreFacts DEF GoodStores, GoodRows, Lists
<1> HIDE DEF xs
<1>3. PICK r \in [0 .. Len(xs) -> GoodStores] :
        /\ r[0] = st /\ r[Len(xs)] = FoldLeft(Repack, st, xs)
        /\ \A k \in 1 .. Len(xs) : r[k] = Repack(r[k - 1], xs[k])
  BY <1>2, RepackFold
<1>4. n \in Nat /\ DOMAIN xs = 1 .. n /\ \A k \in 1 .. n : xs[k] \in Agent
  BY <1>2, SeqFacts
<1>5. 0 \in 0 .. n /\ n \in 0 .. n /\ \A k \in 1 .. n : k \in 0 .. n /\ k - 1 \in 0 .. n
  BY <1>4
<1>6. r \in [0 .. n -> GoodStores] /\ \A k \in 1 .. n : r[k] = Repack(r[k - 1], xs[k])
  BY <1>3
<1>7. r[0] = st /\ r[n] = PackAll(st)
  BY <1>1, <1>3
<1> HIDE DEF n
<1> DEFINE Done(d, k) == Placed(d.index.span, frames) /\ \A j \in 1 .. k : Packed(d.index.span, xs[j])
           A == [k \in 0 .. n |-> {d \in GoodStores : Done(d, k)}]
<1>8. \A k \in 0 .. n : r[k] \in A[k] <=> Done(r[k], k)
  BY <1>6
<1>9. Done(r[0], 0)
  BY <1>7
<1>10. ASSUME NEW k \in 1 .. n, Done(r[k - 1], k - 1) PROVE Done(r[k], k)
  <2> DEFINE d == r[k - 1]
  <2>1. d \in GoodStores /\ xs[k] \in Agent /\ r[k] = Repack(d, xs[k]) /\ Placed(d.index.span, frames)
    BY <1>4, <1>5, <1>6, <1>10
  <2>2. \A j \in 1 .. (k - 1) : Packed(d.index.span, xs[j]) /\ xs[j] \in Agent
    <3>1. \A j \in 1 .. (k - 1) : j \in 1 .. n
      BY <1>4
    <3> QED
      BY <1>4, <1>10, <3>1
  <2> HIDE DEF d
  <2>3. LanesStay(d, Repack(d, xs[k]), frames) /\ Packed(Repack(d, xs[k]).index.span, xs[k])
    BY <2>1, RepackLanes
  <2>4. 1 .. k = (1 .. (k - 1)) \union {k}
    OBVIOUS
  <2> QED
    BY <2>1, <2>2, <2>3, <2>4 DEF LanesStay, StillPacked
<1> HIDE DEF Done, A
<1>11. \A k \in 0 .. n : r[k] \in A[k]
  <2>1. r[0] \in A[0]
    BY <1>5, <1>8, <1>9
  <2>2. \A k \in 1 .. n : r[k - 1] \in A[k - 1] => r[k] \in A[k]
    BY <1>5, <1>8, <1>10
  <2> QED
    BY <1>4, <2>1, <2>2, StepsReach
<1>12. Done(r[n], n)
  BY <1>5, <1>8, <1>11
<1>13. \A a \in DOMAIN st.meta : \E j \in 1 .. n : a = xs[j]
  BY <1>2, <1>4 DEF Range
<1> QED
  BY <1>7, <1>12, <1>13 DEF Done

LEMMA ReadEventsLanes ==
  ASSUME StoreInv, ReadEvents, Placed(store.index.span, said)
  PROVE  /\ Placed(store'.index.span, said)
         /\ \A a \in DOMAIN store.meta \ {Legacy} : Packed(store'.index.span, a)
<1>1. PICK plans \in Orders({"plan"}), drifts \in Orders({"drift"}),
           cancels \in Orders({"cancel"}), edges \in Orders({"delegation"}) :
        store' = PackAll(FoldLeft(OnEvent, store, plans \o drifts \o cancels \o edges))
  BY DEF ReadEvents
<1> DEFINE K == FramesOf({"plan", "drift", "cancel", "delegation"})
           events == plans \o drifts \o cancels \o edges
           st == FoldLeft(OnEvent, store, events)
           known == DOMAIN store.meta \ {Legacy}
<1>2. events \in Seq(K) /\ said \in SUBSET Frame
  BY BurstEvents DEF StoreInv
<1> HIDE DEF events
<1>3. PICK r \in [0 .. Len(events) -> GoodStores] :
        /\ r[0] = store /\ r[Len(events)] = st
        /\ \A k \in 1 .. Len(events) : r[k] = OnEvent(r[k - 1], events[k])
  BY <1>2, EventsFold DEF StoreInv
<1> DEFINE n == Len(events)
           Good(d) == Placed(d.index.span, said) /\ \A a \in known : Known(d, a)
           A == [k \in 0 .. n |-> {d \in GoodStores : Good(d)}]
<1>4. n \in Nat /\ \A k \in 1 .. n : events[k] \in Frame /\ events[k].kind \in {"plan", "drift", "cancel", "delegation"}
  BY <1>2, SeqFacts DEF FramesOf
<1>5. 0 \in 0 .. n /\ n \in 0 .. n /\ \A k \in 1 .. n : k \in 0 .. n /\ k - 1 \in 0 .. n
  BY <1>4
<1>6. r \in [0 .. n -> GoodStores] /\ r[0] = store /\ r[n] = st /\ \A k \in 1 .. n : r[k] = OnEvent(r[k - 1], events[k])
  BY <1>3
<1>7. \A k \in 0 .. n : r[k] \in A[k] <=> Good(r[k])
  BY <1>6
<1>8. Good(store)
  BY DEF Known
<1> HIDE DEF n, st, A
<1>9. ASSUME NEW k \in 1 .. n, Good(r[k - 1]) PROVE Good(r[k])
  <2> DEFINE d == r[k - 1]
             f == events[k]
  <2>1. d \in GoodStores /\ f \in Frame /\ f.kind \in {"plan", "drift", "cancel", "delegation"} /\ r[k] = OnEvent(d, f)
    BY <1>4, <1>5, <1>6
  <2>2. Placed(d.index.span, said) /\ \A a \in known : Known(d, a)
    BY <1>9
  <2> HIDE DEF d, f
  <2>3. LanesStay(d, r[k], said)
    BY <1>2, <2>1, <2>2, OnEventLanes
  <2>4. Adds(d, r[k], f)
    BY <2>1, OnEventGood
  <2> QED
    BY <2>2, <2>3, <2>4 DEF LanesStay, Adds, Known
<1> HIDE DEF Good
<1>10. Good(st) /\ st \in GoodStores
  <2>1. r[0] \in A[0] /\ \A k \in 1 .. n : r[k - 1] \in A[k - 1] => r[k] \in A[k]
    BY <1>5, <1>6, <1>7, <1>8, <1>9
  <2>2. \A k \in 0 .. n : r[k] \in A[k]
    BY <1>4, <2>1, StepsReach
  <2> QED
    BY <1>5, <1>6, <1>7, <2>2
<1>11. store' = PackAll(st)
  BY <1>1 DEF st, events
<1>12. /\ Placed(PackAll(st).index.span, said)
       /\ \A a \in DOMAIN st.meta : Packed(PackAll(st).index.span, a)
  BY <1>10, PackAllLanes DEF Good
<1> QED
  BY <1>10, <1>11, <1>12 DEF Good, Known

-----------------------------------------------------------------------------
(* An agent's row is there before its spans, or will come with them: its   *)
(* agent was said first, and so it is read first, or queued before them.   *)
StartsTrue ==
  \A f \in said : f.kind = "start" =>
    \E g \in said : /\ g.kind = "agent" /\ g.agent = f.agent
                    /\ g \in Range(queue) /\ reader # "live" => f \in Range(queue)

(* After the burst a row is packed, or one of its starts is still queued.  *)
Queued(a) == \E f \in Range(queue) : f.kind = "start" /\ f.agent = a
LanesTrue == reader = "live" => \A a \in Agent : Queued(a) \/ Packed(store.index.span, a)

LaneInv == CatchInv /\ Placed(store.index.span, said) /\ StartsTrue /\ LanesTrue

LEMMA InitLaneInv == StoreInit => LaneInv
<1> SUFFICES ASSUME StoreInit PROVE LaneInv
  OBVIOUS
<1>1. said = {} /\ reader = "away" /\ store.index.span = <<>> /\ DOMAIN <<>> = {}
  BY DEF StoreInit, EmptyStore, EmptyIndex
<1>2. Placed(store.index.span, said) /\ StartsTrue /\ LanesTrue
  BY <1>1 DEF Placed, StartsTrue, LanesTrue
<1> QED
  BY <1>2, InitCatchInv DEF LaneInv

LEMMA SayLanes ==
  ASSUME LaneInv, NEW h \in Frame, Say(h), CatchInv'
  PROVE  LaneInv'
<1>1. /\ h \notin said /\ MayFollow(h) /\ said' = said \union {h} /\ reader' = reader /\ store' = store
      /\ queue' = IF reader = "away" THEN queue ELSE Append(queue, h)
      /\ queue \in Seq(Frame) /\ said \subseteq Frame
  BY DEF Say, LaneInv, CatchInv, StoreInv
<1>2. /\ reader = "away" => Range(queue') = {} /\ Range(queue) = {}
      /\ reader # "away" => Range(queue') = Range(queue) \union {h}
  <2>1. CASE reader = "away"
    <3>1. queue' = <<>> /\ queue = <<>> /\ Range(<<>>) = {}
      BY <1>1, <2>1 DEF LaneInv, CatchInv, QueueTrue, Range
    <3> QED
      BY <2>1, <3>1
  <2>2. CASE reader # "away"
    BY <1>1, <2>2, RangeOfAppend
  <2> QED
    BY <2>1, <2>2
<1>3. Placed(store'.index.span, said')
  <2>1. said \subseteq said'
    BY <1>1
  <2> QED
    BY <1>1, <2>1, PlacedMore DEF LaneInv
<1>4. StartsTrue'
  <2>1. ASSUME NEW f \in said', f.kind = "start"
        PROVE  \E g \in said' : /\ g.kind = "agent" /\ g.agent = f.agent
                                /\ g \in Range(queue') /\ reader' # "live" => f \in Range(queue')
    <3>1. CASE f = h
      <4>1. PICK g \in said : g.kind = "agent" /\ g.agent = f.agent
        BY <1>1, <2>1, <3>1 DEF MayFollow
      <4> QED
        BY <1>1, <1>2, <3>1, <4>1
    <3>2. CASE f \in said
      <4>1. PICK g \in said : /\ g.kind = "agent" /\ g.agent = f.agent
                              /\ g \in Range(queue) /\ reader # "live" => f \in Range(queue)
        BY <2>1, <3>2 DEF LaneInv, StartsTrue
      <4> QED
        BY <1>1, <1>2, <4>1
    <3> QED
      BY <1>1, <3>1, <3>2
  <2> QED
    BY <2>1 DEF StartsTrue
<1>5. LanesTrue'
  <2>1. Range(queue) \subseteq Range(queue')
    BY <1>2
  <2> QED
    BY <1>1, <2>1 DEF LaneInv, LanesTrue, Queued
<1> QED
  BY <1>3, <1>4, <1>5 DEF LaneInv

LEMMA DeliverLanes ==
  ASSUME LaneInv, Deliver, CatchInv'
  PROVE  LaneInv'
<1> DEFINE h == Head(queue)
<1>1. /\ reader = "live" /\ reader' = "live" /\ said' = said /\ queue' = Tail(queue) /\ queue # <<>>
      /\ queue \in Seq(Frame) /\ said \in SUBSET Frame /\ store' = OnFrame(store, h) /\ store \in GoodStores
  BY DEF Deliver, LaneInv, CatchInv, StoreInv
<1>2. /\ DOMAIN queue = 1 .. Len(queue) /\ Len(queue) \in Nat /\ Len(queue) > 0 /\ h = queue[1]
      /\ DOMAIN queue' = 1 .. Len(queue) - 1 /\ \A i \in 1 .. Len(queue) - 1 : queue'[i] = queue[i + 1]
  BY <1>1
<1> HIDE DEF h
<1>3. h \in said
  <2>1. 1 \in DOMAIN queue
    BY <1>2
  <2> QED
    BY <1>2, <2>1 DEF LaneInv, CatchInv, QueueTrue, Range
<1>4. \A f \in Range(queue) : f = h \/ f \in Range(queue')
  <2>1. \A i \in DOMAIN queue : i # 1 => i - 1 \in DOMAIN queue' /\ queue'[i - 1] = queue[i]
    BY <1>2
  <2> QED
    BY <1>2, <2>1 DEF Range
<1>5. LanesStay(store, store', said) /\ (h.kind = "start" => Packed(store'.index.span, h.agent))
  BY <1>1, <1>3, OnFrameLanes DEF LaneInv
<1>6. StartsTrue'
  BY <1>1 DEF LaneInv, StartsTrue
<1>7. LanesTrue'
  <2>1. ASSUME NEW a \in Agent PROVE Queued(a)' \/ Packed(store'.index.span, a)
    <3>1. CASE Queued(a)
      BY <1>4, <1>5, <3>1 DEF Queued
    <3>2. CASE ~Queued(a)
      BY <1>1, <1>5, <3>2 DEF LaneInv, LanesTrue, LanesStay, StillPacked
    <3> QED
      BY <3>1, <3>2
  <2> QED
    BY <2>1 DEF LanesTrue
<1> QED
  BY <1>1, <1>5, <1>6, <1>7 DEF LaneInv, LanesStay

LEMMA ReadEventsKeepsLanes ==
  ASSUME LaneInv, ReadEvents, CatchInv'
  PROVE  LaneInv'
<1>1. /\ reader = "events" /\ reader' = "live" /\ said' = said /\ queue' = queue
      /\ said \subseteq Frame /\ StoreInv
  BY DEF ReadEvents, LaneInv, CatchInv, StoreInv
<1>2. /\ Placed(store'.index.span, said)
      /\ \A a \in DOMAIN store.meta \ {Legacy} : Packed(store'.index.span, a)
  BY <1>1, ReadEventsLanes DEF LaneInv
<1>3. store'.index.span \in SpanMaps
  BY <1>1, StoreFacts, IndexFacts DEF CatchInv, StoreInv, GoodStores
<1>4. ASSUME NEW a \in Agent, ~Queued(a), NEW x \in SolidIn(store'.index.span, a)
      PROVE  a \in DOMAIN store.meta \ {Legacy}
  <2>1. x \in DOMAIN store'.index.span /\ store'.index.span[x].agent = a
    BY DEF SolidIn
  <2>2. IsStarted(store'.index.span, x, said)
    BY <1>2, <1>3, <2>1, PointFacts DEF Placed
  <2>3. PICK f \in said : f.kind = "start" /\ f.agent = a
    BY <2>1, <2>2 DEF IsStarted
  <2>4. PICK g \in said : /\ g.kind = "agent" /\ g.agent = a
                          /\ g \in Range(queue) /\ reader # "live" => f \in Range(queue)
    BY <2>3 DEF LaneInv, StartsTrue
  <2>5. g \notin Range(queue)
    BY <1>1, <1>4, <2>3, <2>4 DEF Queued
  <2>6. g.kind \notin Unread(reader)
    BY <1>1, <2>4 DEF Unread, EventKinds
  <2>7. Shows(store, said, g)
    BY <2>5, <2>6 DEF LaneInv, CatchInv, ShownOrComing
  <2>8. g \in Frame /\ a # Legacy
    BY <1>1, <2>4, FrameFacts
  <2> QED
    BY <2>4, <2>7, <2>8 DEF Shows, Known
<1>5. LanesTrue'
  <2>1. ASSUME NEW a \in Agent, ~Queued(a) PROVE Packed(store'.index.span, a)
    <3>1. CASE SolidIn(store'.index.span, a) = {}
      BY <3>1 DEF Packed
    <3>2. CASE SolidIn(store'.index.span, a) # {}
      BY <1>2, <1>4, <2>1, <3>2
    <3> QED
      BY <3>1, <3>2
  <2>2. \A a \in Agent : Queued(a)' <=> Queued(a)
    BY <1>1 DEF Queued
  <2> QED
    BY <2>1, <2>2 DEF LanesTrue
<1>6. StartsTrue'
  BY <1>1 DEF LaneInv, StartsTrue
<1> QED
  BY <1>1, <1>2, <1>5, <1>6 DEF LaneInv

LEMMA NextLaneInv == LaneInv /\ [StoreNext]_storeVars => LaneInv'
<1> SUFFICES ASSUME LaneInv, [StoreNext]_storeVars PROVE LaneInv'
  OBVIOUS
<1>0. CatchInv' /\ CatchInv /\ StoreInv
  BY NextCatchInv DEF LaneInv, CatchInv
<1>1. ASSUME NEW f \in Frame, Say(f) PROVE LaneInv'
  BY <1>0, <1>1, SayLanes
<1>2. CASE Open
  BY <1>0, <1>2 DEF Open, LaneInv, StartsTrue, LanesTrue
<1>3. CASE ReadAgents
  <2>1. Placed(store'.index.span, said)
    BY <1>0, <1>3, ReadAgentsLanes DEF LaneInv
  <2> QED
    BY <1>0, <1>3, <2>1 DEF ReadAgents, LaneInv, StartsTrue, LanesTrue
<1>4. CASE ReadSpans
  <2>1. Placed(store'.index.span, said)
    BY <1>0, <1>4, ReadSpansLanes DEF LaneInv
  <2> QED
    BY <1>0, <1>4, <2>1 DEF ReadSpans, LaneInv, StartsTrue, LanesTrue
<1>5. CASE ReadEvents
  BY <1>0, <1>5, ReadEventsKeepsLanes
<1>6. CASE Deliver
  BY <1>0, <1>6, DeliverLanes
<1>7. CASE Leave
  <2>1. reader' = "away" /\ queue' = <<>> /\ said' = said /\ store' = store
    BY <1>7 DEF Leave
  <2>2. Range(<<>>) = {}
    BY DEF Range
  <2> QED
    BY <1>0, <2>1, <2>2 DEF LaneInv, StartsTrue, LanesTrue
<1>8. CASE UNCHANGED storeVars
  BY <1>0, <1>8 DEF storeVars, LaneInv, StartsTrue, LanesTrue, Queued
<1> QED
  BY <1>1, <1>2, <1>3, <1>4, <1>5, <1>6, <1>7, <1>8 DEF StoreNext

LEMMA LaneInvImplies == LaneInv => LanesPacked
<1> SUFFICES ASSUME LaneInv PROVE LanesPacked
  OBVIOUS
<1>1. index \in GoodIndexes
  BY DEF LaneInv, CatchInv, StoreInv, GoodStores, GoodRows, index
<1>2. \A a \in Agent : Solid(a) = SolidIn(index.span, a)
  BY <1>1, RowsListed DEF Solid, SolidIn
<1>3. \A a \in Agent : Settled(a) => Packed(index.span, a)
  BY DEF Settled, LaneInv, LanesTrue, Queued, index
<1> HIDE DEF index
<1>4. LanesDistinct
  BY <1>2, <1>3 DEF LanesDistinct, Packed
<1>5. LanesNeeded
  BY <1>2, <1>3 DEF LanesNeeded, Packed, Above
<1> QED
  BY <1>4, <1>5 DEF LanesPacked

(* After the burst, spans of a row that overlap are in lanes of their own, *)
(* and no lane is open that the row does not need, whichever frames moved, *)
(* ended or restarted them (LanesPacked).                                  *)
THEOREM LanesArePacked == StoreSpec => []LanesPacked
<1>1. StoreInit => LaneInv
  BY InitLaneInv
<1>2. LaneInv /\ [StoreNext]_storeVars => LaneInv'
  BY NextLaneInv
<1>3. LaneInv => LanesPacked
  BY LaneInvImplies
<1> QED
  BY <1>1, <1>2, <1>3, PTL DEF StoreSpec
=============================================================================
