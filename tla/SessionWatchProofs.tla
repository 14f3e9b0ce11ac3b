------------------------- MODULE SessionWatchProofs -------------------------
(***************************************************************************)
(* That a browser's view follows the store (CatchesUp), and that the       *)
(* session's signal comes after the ends of its spans                      *)
(* (SpansEndBeforeSession), for every set of streams, spans and watchers,  *)
(* every queue size and every bound.                                       *)
(*                                                                         *)
(* A view is behind the store by its queue, so the invariants speak of     *)
(* what is shown once the queue is read: Final(v, queue[w]).  While a      *)
(* burst is being read its rows are not known, so the invariants hold for  *)
(* every view it may leave: InBurst relates the row x of such a view, the  *)
(* row r that the queue makes of it, and the stored row; it becomes InTail *)
(* when x is the row that was read.  A step of the handlers changes what   *)
(* is stored and what is queued at once; Carried is what its writes and    *)
(* deltas have in common, and all a watcher needs to know of them.         *)
(***************************************************************************)
EXTENDS SessionWatch, Integers, WellFoundedInduction, SequenceTheorems, TLAPS

SpanKind == {"new_span", "updated_span", "ended_span"}
Delta ==
  [kind : SpanKind, span : Span, row : Row]
  \cup [kind : {"session_ended"}, status : FinalStatus, closed : SUBSET Span]
Rows == Row \cup {Absent}
View == [session : SessionStatus \cup {"UNKNOWN"}, spans : [Span -> Rows]]

(* Watchers that a delta reaches.                                          *)
Watching == {w \in Watcher : pc[w] \in {"burst", "tail"}}
QueuesOK ==
  /\ registered = Watching
  /\ queue \in [Watcher -> Seq(Delta)] /\ dropped \in [Watcher -> Nat]
  /\ \A w \in Watcher : w \notin registered => queue[w] = <<>>

Final(v, q) == Replay(v, q)[Len(q)]

(* The suspended handlers: whose span it is, and what its row holds.       *)
Pending(st) == handler[st].op \in {"attributes", "refresh"}
Closing(st) == handler[st].op \in {"close", "refresh"}
HandlerOK(st) ==
  /\ handler[st].op = "attributes" =>
       LET s == handler[st].span IN Owner[s] = st /\ s \notin open /\ spans[s].attrs < MaxUpdates
  /\ Pending(st) => spans[handler[st].span] # Absent /\ spans[handler[st].span].ended
  /\ Closing(st) =>
       /\ handler[st].left \subseteq handler[st].listed
       /\ \A s \in handler[st].listed : spans[s] # Absent /\ (s \notin handler[st].left => spans[s].ended)
HandlersOK == \A st \in Stream : HandlerOK(st)

(* r is as the store has it, as far as the store has been published.       *)
Fresh(r, s) ==
  /\ r.attrs = spans[s].attrs
  /\ s \notin Unpublished => r.status = spans[s].status /\ r.ended = spans[s].ended

(* r has come from x by what was published since.                          *)
Between(x, r, s) ==
  /\ r.attrs \in {x.attrs, spans[s].attrs}
  /\ s \notin Unpublished => r.status \in {x.status, spans[s].status} /\ r.ended \in {x.ended, spans[s].ended}

InBurst(x, r, s) ==
  \/ r = Absent /\ x = Absent
  \/ r # Absent /\ x # Absent /\ Between(x, r, s)
  \/ r # Absent /\ x = Absent /\ spans[s] # Absent /\ Fresh(r, s)

InTail(r, s, recent) ==
  \/ r = Absent /\ (spans[s] = Absent \/ (s \in Early /\ recent))
  \/ r # Absent /\ spans[s] # Absent /\ Fresh(r, s)

SpansOf(w) ==
  /\ pc[w] = "burst" =>
       \A v \in View, s \in Span : InBurst(v.spans[s], Final(v, queue[w]).spans[s], s)
  /\ pc[w] = "tail" =>
       \A s \in Span : InTail(CaughtUp(w).spans[s], s, windowed[w])
SpansFollow == \A w \in Watching : dropped[w] = 0 => SpansOf(w)

(* One finalization at a time writes the status that it will publish.      *)
OneFinalizer ==
  ~overlap => \A st, other \in Stream : IsFinalizing(st) =>
    /\ handler[st].final = session.status
    /\ IsFinalizing(other) => other = st

(* The views a watcher may have when it has read its burst.                *)
Candidates(w) == IF pc[w] = "burst" THEN {v \in View : v.session = view[w].session} ELSE {view[w]}

Calm == \A st \in Stream : ~IsFinalizing(st)
StatusOf(w) == \A v \in Candidates(w) : Final(v, queue[w]).session = session.status
StatusFollows == \A w \in Watching : dropped[w] = 0 /\ ~overlap /\ Calm => StatusOf(w)

IInv == TypeOK /\ QueuesOK /\ HandlersOK /\ SpansFollow /\ OneFinalizer /\ StatusFollows
-----------------------------------------------------------------------------
(* Induction, through the least number without the property.               *)
LEMMA LeastNumber ==
  ASSUME NEW T \in SUBSET Nat, T # {}
  PROVE  \E x \in T : \A y \in T : x <= y
<1> DEFINE R == OpToRel(<, Nat)
<1>1. \E x \in T : \A y \in T : ~(<<y, x>> \in R)
  <2>1. IsWellFoundedOn(R, Nat)
    BY NatLessThanWellFounded
  <2> HIDE DEF R
  <2> QED
    BY <2>1, WFMin, Zenon
<1>2. \A x, y \in Nat : <<y, x>> \in R <=> y < x
  BY DEF OpToRel
<1> HIDE DEF R
<1>3. PICK x \in T : \A y \in T : ~(<<y, x>> \in R)
  BY <1>1
<1>4. \A y \in T : ~(y < x)
  BY <1>2, <1>3
<1>5. \A y \in T : x <= y
  BY <1>4
<1> QED
  BY <1>5

LEMMA SetInduction ==
  ASSUME NEW G \in SUBSET Nat, 0 \in G, \A n \in G : n + 1 \in G
  PROVE  G = Nat
<1> SUFFICES ASSUME G # Nat PROVE FALSE
  OBVIOUS
<1>1. PICK x \in Nat \ G : \A y \in Nat \ G : x <= y
  BY LeastNumber
<1>2. x # 0 /\ x - 1 \in Nat
  BY <1>1
<1>3. x - 1 \in G
  BY <1>1, <1>2
<1>4. x - 1 + 1 = x
  BY <1>1, <1>2
<1> QED
  BY <1>1, <1>3, <1>4

LEMMA UpTo ==
  ASSUME NEW n \in Nat, NEW G \in SUBSET (0 .. n), 0 \in G, \A k \in G : k < n => k + 1 \in G
  PROVE  G = 0 .. n
<1> DEFINE H == {k \in Nat : k <= n => k \in G}
<1>1. H \in SUBSET Nat /\ 0 \in H
  OBVIOUS
<1>2. ASSUME NEW k \in H PROVE k + 1 \in H
  <2>1. k \in Nat /\ (k <= n => k \in G)
    OBVIOUS
  <2>2. k + 1 <= n => k + 1 \in G
    BY <2>1
  <2> QED
    BY <2>1, <2>2
<1> HIDE DEF H
<1>3. H = Nat
  BY <1>1, <1>2, SetInduction
<1>4. \A k \in 0 .. n : k \in G
  <2> TAKE k \in 0 .. n
  <2>1. k \in H /\ k <= n
    BY <1>3
  <2> QED
    BY <2>1 DEF H
<1> QED
  BY <1>4
-----------------------------------------------------------------------------
(* The recursion of Replay has a solution.                                 *)
Solves(g, v, q, m) == g = [n \in 0 .. m |-> IF n = 0 THEN v ELSE Show(g[n - 1], q[n])]

LEMMA ReplayExists ==
  ASSUME NEW v, NEW q, NEW m \in Nat
  PROVE  \E g : Solves(g, v, q, m)
<1> DEFINE G == {k \in Nat : \E g : Solves(g, v, q, k)}
<1>1. 0 \in G
  <2> DEFINE g == [n \in 0 .. 0 |-> v]
  <2>1. g = [n \in 0 .. 0 |-> IF n = 0 THEN v ELSE Show(g[n - 1], q[n])]
    <3>1. \A n \in 0 .. 0 : n = 0
      OBVIOUS
    <3> QED
      BY <3>1
  <2> QED
    BY <2>1 DEF Solves
<1>2. ASSUME NEW k \in G PROVE k + 1 \in G
  <2>1. k \in Nat
    OBVIOUS
  <2>2. PICK g : Solves(g, v, q, k)
    OBVIOUS
  <2> DEFINE h == [n \in 0 .. k + 1 |-> IF n <= k THEN g[n] ELSE Show(g[k], q[k + 1])]
  <2>3. \A n \in 0 .. k : g[n] = IF n = 0 THEN v ELSE Show(g[n - 1], q[n])
    BY <2>2 DEF Solves
  <2>4. \A n \in 0 .. k + 1 : h[n] = IF n = 0 THEN v ELSE Show(h[n - 1], q[n])
    <3> TAKE n \in 0 .. k + 1
    <3>1. CASE n = 0
      BY <2>1, <2>3, <3>1
    <3>2. CASE n # 0 /\ n <= k
      <4>1. n - 1 \in 0 .. k /\ n \in 0 .. k
        BY <2>1, <3>2
      <4>2. h[n] = g[n] /\ h[n - 1] = g[n - 1]
        BY <2>1, <3>2, <4>1
      <4> QED
        BY <2>3, <3>2, <4>1, <4>2
    <3>3. CASE n = k + 1
      <4>1. n - 1 = k /\ k \in 0 .. k + 1 /\ ~(n <= k) /\ n # 0
        BY <2>1, <3>3
      <4>2. h[n] = Show(g[k], q[k + 1]) /\ h[n - 1] = g[k]
        BY <2>1, <3>3, <4>1
      <4> QED
        BY <3>3, <4>1, <4>2
    <3> QED
      BY <2>1, <3>1, <3>2, <3>3
  <2>5. DOMAIN h = 0 .. k + 1 /\ h = [n \in 0 .. k + 1 |-> h[n]]
    OBVIOUS
  <2> HIDE DEF h
  <2>6. h = [n \in 0 .. k + 1 |-> IF n = 0 THEN v ELSE Show(h[n - 1], q[n])]
    BY <2>4, <2>5
  <2> QED
    BY <2>1, <2>6 DEF Solves
<1> HIDE DEF G
<1>3. G = Nat
  <2>1. G \in SUBSET Nat
    BY DEF G
  <2> QED
    BY <1>1, <1>2, <2>1, SetInduction
<1> QED
  BY <1>3 DEF G

LEMMA ReplayDef ==
  ASSUME NEW v, NEW q, Len(q) \in Nat
  PROVE  /\ Replay(v, q)[0] = v
         /\ \A n \in 1 .. Len(q) : Replay(v, q)[n] = Show(Replay(v, q)[n - 1], q[n])
<1> DEFINE r == CHOOSE g : g = [n \in 0 .. Len(q) |-> IF n = 0 THEN v ELSE Show(g[n - 1], q[n])]
<1>1. \E g : g = [n \in 0 .. Len(q) |-> IF n = 0 THEN v ELSE Show(g[n - 1], q[n])]
  BY ReplayExists DEF Solves
<1>2. r = [n \in 0 .. Len(q) |-> IF n = 0 THEN v ELSE Show(r[n - 1], q[n])]
  BY <1>1
<1>3. Replay(v, q) = r
  BY DEF Replay
<1> HIDE DEF r
<1>4. r[0] = v
  BY <1>2
<1>5. \A n \in 1 .. Len(q) : r[n] = Show(r[n - 1], q[n])
  BY <1>2
<1> QED
  BY <1>3, <1>4, <1>5

LEMMA ReplayEmpty ==
  ASSUME NEW v
  PROVE  Final(v, <<>>) = v
  BY ReplayDef DEF Final

(* A delta more at the end.                                                *)
LEMMA ReplayAppend ==
  ASSUME NEW v, NEW q \in Seq(Delta), NEW d \in Delta
  PROVE  /\ \A n \in 0 .. Len(q) : Replay(v, Append(q, d))[n] = Replay(v, q)[n]
         /\ Final(v, Append(q, d)) = Show(Final(v, q), d)
<1> DEFINE a == Append(q, d)
           r == Replay(v, q)
           t == Replay(v, a)
           G == {n \in 0 .. Len(q) : t[n] = r[n]}
<1>1. /\ Len(q) \in Nat /\ Len(a) = Len(q) + 1 /\ a[Len(q) + 1] = d
      /\ \A n \in 1 .. Len(q) : a[n] = q[n]
  BY AppendProperties, LenProperties
<1>2. r[0] = v /\ \A n \in 1 .. Len(q) : r[n] = Show(r[n - 1], q[n])
  BY <1>1, ReplayDef
<1>3. t[0] = v /\ \A n \in 1 .. Len(q) + 1 : t[n] = Show(t[n - 1], a[n])
  <2>1. Len(a) \in Nat
    BY <1>1
  <2> HIDE DEF a
  <2> QED
    BY <1>1, <2>1, ReplayDef
<1>4. Final(v, q) = r[Len(q)] /\ Final(v, a) = t[Len(q) + 1]
  BY <1>1 DEF Final
<1> HIDE DEF a, r, t
<1>5. G = 0 .. Len(q)
  <2>1. 0 \in G
    BY <1>1, <1>2, <1>3
  <2>2. ASSUME NEW k \in G, k < Len(q) PROVE k + 1 \in G
    <3>1. k + 1 \in 1 .. Len(q) /\ k + 1 - 1 = k /\ k + 1 \in 1 .. Len(q) + 1
      BY <1>1, <2>2
    <3>2. t[k + 1] = Show(t[k], q[k + 1]) /\ r[k + 1] = Show(r[k], q[k + 1])
      BY <1>1, <1>2, <1>3, <3>1
    <3> QED
      BY <1>1, <3>1, <3>2
  <2> HIDE DEF G
  <2>3. G \in SUBSET (0 .. Len(q))
    BY DEF G
  <2> QED
    BY <1>1, <2>1, <2>2, <2>3, UpTo
<1>6. t[Len(q) + 1] = Show(r[Len(q)], d)
  <2>1. Len(q) + 1 \in 1 .. Len(q) + 1 /\ Len(q) + 1 - 1 = Len(q) /\ Len(q) \in 0 .. Len(q)
    BY <1>1
  <2>2. t[Len(q)] = r[Len(q)]
    BY <1>5, <2>1
  <2> QED
    BY <1>1, <1>3, <2>1, <2>2
<1> QED
  BY <1>4, <1>5, <1>6 DEF a, r, t

(* The first delta is read.                                                *)
LEMMA ReplayTail ==
  ASSUME NEW v, NEW q \in Seq(Delta), q # <<>>
  PROVE  /\ \A n \in 0 .. Len(Tail(q)) : Replay(Show(v, Head(q)), Tail(q))[n] = Replay(v, q)[n + 1]
         /\ Final(Show(v, Head(q)), Tail(q)) = Final(v, q)
<1> DEFINE h == Head(q)
           a == Tail(q)
           r == Replay(v, q)
           t == Replay(Show(v, h), a)
           G == {n \in 0 .. Len(a) : t[n] = r[n + 1]}
<1>1. /\ Len(q) \in Nat /\ Len(q) > 0 /\ h = q[1] /\ Len(a) = Len(q) - 1 /\ Len(a) \in Nat
      /\ \A n \in 1 .. Len(a) : a[n] = q[n + 1]
  <2>1. Len(q) \in Nat /\ (Len(q) = 0 => q = <<>>) /\ h = q[1]
    BY LenProperties, EmptySeq
  <2>2. Len(a) = Len(q) - 1 /\ \A n \in 1 .. Len(a) : a[n] = q[n + 1]
    BY HeadTailProperties
  <2> QED
    BY <2>1, <2>2
<1>2. r[0] = v /\ \A n \in 1 .. Len(q) : r[n] = Show(r[n - 1], q[n])
  BY <1>1, ReplayDef
<1>3. t[0] = Show(v, h) /\ \A n \in 1 .. Len(a) : t[n] = Show(t[n - 1], a[n])
  <2> DEFINE w == Show(v, h)
  <2> HIDE DEF w, a
  <2> QED
    BY <1>1, ReplayDef
<1>4. Final(v, q) = r[Len(q)] /\ Final(Show(v, h), a) = t[Len(a)]
  BY DEF Final
<1> HIDE DEF h, a, r, t
<1>5. G = 0 .. Len(a)
  <2>1. 0 \in G
    <3>1. r[1] = Show(r[1 - 1], q[1])
      BY <1>1, <1>2
    <3> QED
      BY <1>1, <1>2, <1>3, <3>1
  <2>2. ASSUME NEW k \in G, k < Len(a) PROVE k + 1 \in G
    <3>1. /\ k + 1 \in 1 .. Len(a) /\ k + 1 - 1 = k /\ k + 1 + 1 \in 1 .. Len(q) /\ k + 1 + 1 - 1 = k + 1
      BY <1>1, <2>2
    <3>2. t[k + 1] = Show(t[k], q[k + 1 + 1]) /\ r[k + 1 + 1] = Show(r[k + 1], q[k + 1 + 1])
      BY <1>1, <1>2, <1>3, <3>1
    <3> QED
      BY <1>1, <3>1, <3>2
  <2> HIDE DEF G
  <2>3. G \in SUBSET (0 .. Len(a))
    BY DEF G
  <2> QED
    BY <1>1, <2>1, <2>2, <2>3, UpTo
<1>6. t[Len(a)] = r[Len(q)]
  <2>1. Len(a) \in 0 .. Len(a) /\ Len(a) + 1 = Len(q)
    BY <1>1
  <2> QED
    BY <1>5, <2>1
<1> QED
  BY <1>4, <1>5, <1>6 DEF h, a, r, t
-----------------------------------------------------------------------------
(* What a delta does to one span's row and to the session's status.        *)
RowAfter(r, d, s) ==
  IF d.kind = "session_ended" \/ d.span # s THEN r
  ELSE IF d.kind = "new_span" THEN d.row
  ELSE IF r = Absent THEN r
  ELSE IF d.kind = "updated_span" THEN [r EXCEPT !.status = d.row.status, !.attrs = d.row.attrs]
  ELSE [r EXCEPT !.status = d.row.status, !.ended = TRUE]

LEMMA RowTyped ==
  ASSUME NEW r \in Rows, NEW d \in Delta, NEW s \in Span
  PROVE  RowAfter(r, d, s) \in Rows
<1>1. r # Absent => r \in Row
  BY DEF Rows
<1>2. d.kind # "session_ended" => d.kind \in SpanKind /\ d.row \in Row
  BY DEF Delta, SpanKind
<1> QED
  BY <1>1, <1>2 DEF RowAfter, Rows, Row

LEMMA Shown ==
  ASSUME NEW v \in View, NEW d \in Delta
  PROVE  /\ Show(v, d) \in View
         /\ \A s \in Span : Show(v, d).spans[s] = RowAfter(v.spans[s], d, s)
         /\ Show(v, d).session = IF d.kind = "session_ended" THEN d.status ELSE v.session
<1>0. v.spans \in [Span -> Rows] /\ v.session \in SessionStatus \cup {"UNKNOWN"}
  BY DEF View
<1>1. CASE d.kind = "session_ended"
  <2>1. d.status \in FinalStatus /\ Show(v, d) = [v EXCEPT !.session = d.status]
    BY <1>1 DEF Delta, SpanKind, Show
  <2> QED
    BY <1>0, <1>1, <2>1 DEF RowAfter, View, FinalStatus, SessionStatus
<1>2. CASE d.kind # "session_ended"
  <2>1. d.kind \in SpanKind /\ d.span \in Span /\ d.row \in Row
    BY <1>2 DEF Delta
  <2> DEFINE f == [v.spans EXCEPT ![d.span] = RowAfter(v.spans[d.span], d, d.span)]
  <2>2. f \in [Span -> Rows] /\ \A s \in Span : f[s] = RowAfter(v.spans[s], d, s)
    <3>1. RowAfter(v.spans[d.span], d, d.span) \in Rows
      BY <1>0, <2>1, RowTyped
    <3>2. \A s \in Span : s # d.span => RowAfter(v.spans[s], d, s) = v.spans[s]
      BY DEF RowAfter
    <3> QED
      BY <1>0, <2>1, <3>1, <3>2
  <2>3. Show(v, d) = [v EXCEPT !.spans = f]
    <3>1. CASE d.kind = "new_span"
      <4>1. Show(v, d) = [v EXCEPT !.spans[d.span] = d.row]
        BY <3>1 DEF Show
      <4>2. RowAfter(v.spans[d.span], d, d.span) = d.row
        BY <3>1 DEF RowAfter
      <4> QED
        BY <4>1, <4>2
    <3>2. CASE d.kind # "new_span" /\ v.spans[d.span] = Absent
      <4>1. Show(v, d) = v
        BY <1>2, <2>1, <3>2 DEF Show, SpanKind
      <4>2. RowAfter(v.spans[d.span], d, d.span) = v.spans[d.span]
        BY <3>2 DEF RowAfter
      <4>3. f = v.spans
        BY <1>0, <4>2
      <4>4. v = [v EXCEPT !.spans = v.spans]
        BY DEF View
      <4> QED
        BY <4>1, <4>3, <4>4
    <3>3. CASE d.kind = "updated_span" /\ v.spans[d.span] # Absent
      <4>1. Show(v, d) = [v EXCEPT !.spans[d.span].status = d.row.status, !.spans[d.span].attrs = d.row.attrs]
        BY <3>3 DEF Show
      <4>2. RowAfter(v.spans[d.span], d, d.span) =
              [v.spans[d.span] EXCEPT !.status = d.row.status, !.attrs = d.row.attrs]
        BY <3>3 DEF RowAfter
      <4> QED
        BY <1>0, <2>1, <4>1, <4>2 DEF View
    <3>4. CASE d.kind = "ended_span" /\ v.spans[d.span] # Absent
      <4>1. Show(v, d) = [v EXCEPT !.spans[d.span].status = d.row.status, !.spans[d.span].ended = TRUE]
        BY <3>4 DEF Show
      <4>2. RowAfter(v.spans[d.span], d, d.span) =
              [v.spans[d.span] EXCEPT !.status = d.row.status, !.ended = TRUE]
        BY <3>4 DEF RowAfter
      <4> QED
        BY <1>0, <2>1, <4>1, <4>2 DEF View
    <3> QED
      BY <2>1, <3>1, <3>2, <3>3, <3>4 DEF SpanKind
  <2> QED
    BY <1>0, <1>2, <2>2, <2>3 DEF View
<1> QED
  BY <1>1, <1>2

LEMMA ReplayTyped ==
  ASSUME NEW v \in View, NEW q \in Seq(Delta)
  PROVE  /\ \A n \in 0 .. Len(q) : Replay(v, q)[n] \in View
         /\ Final(v, q) \in View
<1> DEFINE r == Replay(v, q)
           G == {n \in 0 .. Len(q) : r[n] \in View}
<1>1. Len(q) \in Nat /\ \A n \in 1 .. Len(q) : q[n] \in Delta
  BY LenProperties, ElementOfSeq
<1>2. r[0] = v /\ \A n \in 1 .. Len(q) : r[n] = Show(r[n - 1], q[n])
  BY <1>1, ReplayDef
<1>3. Final(v, q) = r[Len(q)]
  BY DEF Final
<1> HIDE DEF r
<1>4. G = 0 .. Len(q)
  <2>1. 0 \in G
    BY <1>1, <1>2
  <2>2. ASSUME NEW k \in G, k < Len(q) PROVE k + 1 \in G
    <3>1. k + 1 \in 1 .. Len(q) /\ k + 1 - 1 = k /\ k + 1 \in 0 .. Len(q) /\ r[k] \in View
      BY <1>1, <2>2
    <3>2. r[k + 1] = Show(r[k], q[k + 1])
      BY <1>2, <3>1
    <3>3. Show(r[k], q[k + 1]) \in View
      BY <1>1, <3>1, Shown
    <3> QED
      BY <3>1, <3>2, <3>3
  <2> HIDE DEF G
  <2>3. G \in SUBSET (0 .. Len(q))
    BY DEF G
  <2> QED
    BY <1>1, <2>1, <2>2, <2>3, UpTo
<1>5. Len(q) \in 0 .. Len(q)
  BY <1>1
<1> QED
  BY <1>3, <1>4, <1>5 DEF r
-----------------------------------------------------------------------------
(* What a publish does to one queue.                                       *)
LEMMA OnePut ==
  ASSUME NEW q \in Seq(Delta), NEW d \in Delta
  PROVE  /\ Enqueue(q, d) \in Seq(Delta) /\ Misses(q, d) \in {0, 1}
         /\ Misses(q, d) = 0 => Enqueue(q, d) = Append(q, d)
         /\ Len(q) <= Maxsize => Len(Enqueue(q, d)) <= Maxsize
<1>1. Len(q) \in Nat /\ Append(q, d) \in Seq(Delta) /\ Len(Append(q, d)) = Len(q) + 1
  BY AppendProperties, LenProperties
<1>2. CASE IsFull(q)
  BY <1>2 DEF Enqueue, PutNowait, Misses
<1>3. CASE ~IsFull(q)
  BY <1>1, <1>3, MaxsizeAssumption DEF Enqueue, PutNowait, Misses, IsFull
<1> QED
  BY <1>2, <1>3

(* What it does to the queues, and to one that misses nothing.             *)
LEMMA Published ==
  ASSUME QueuesOK, BusTypeOK, NEW d \in Delta, Publish(d)
  PROVE  /\ registered' = registered /\ BusTypeOK'
         /\ queue' \in [Watcher -> Seq(Delta)] /\ dropped' \in [Watcher -> Nat]
         /\ \A w \in Watcher \ registered : queue'[w] = queue[w] /\ dropped'[w] = dropped[w]
         /\ \A w \in registered : dropped'[w] = 0 =>
              dropped[w] = 0 /\ queue'[w] = Append(queue[w], d)
<1>1. /\ registered' = registered
      /\ queue' = [w \in Watcher |-> IF w \in registered THEN Enqueue(queue[w], d) ELSE queue[w]]
      /\ dropped' = [w \in Watcher |-> IF w \in registered THEN dropped[w] + Misses(queue[w], d) ELSE dropped[w]]
  BY DEF Publish
<1>2. registered \subseteq Watcher
  BY DEF QueuesOK, Watching
<1>3. \A w \in Watcher : queue[w] \in Seq(Delta) /\ dropped[w] \in Nat /\ Len(queue[w]) <= Maxsize
  BY DEF QueuesOK, BusTypeOK
<1>4. ASSUME NEW w \in Watcher
      PROVE  /\ queue'[w] \in Seq(Delta) /\ dropped'[w] \in Nat /\ Len(queue'[w]) <= Maxsize
             /\ w \notin registered => queue'[w] = queue[w] /\ dropped'[w] = dropped[w]
             /\ w \in registered /\ dropped'[w] = 0 =>
                  dropped[w] = 0 /\ queue'[w] = Append(queue[w], d)
  <2> DEFINE q == Enqueue(queue[w], d)
             m == Misses(queue[w], d)
  <2>1. /\ q \in Seq(Delta) /\ m \in {0, 1} /\ Len(q) <= Maxsize
        /\ m = 0 => q = Append(queue[w], d)
    BY <1>3, OnePut
  <2>2. /\ queue'[w] = IF w \in registered THEN q ELSE queue[w]
        /\ dropped'[w] = IF w \in registered THEN dropped[w] + m ELSE dropped[w]
    BY <1>1
  <2> HIDE DEF q, m
  <2> QED
    BY <1>3, <2>1, <2>2
<1>5. queue' \in [Watcher -> Seq(Delta)]
  <2>1. queue' = [w \in Watcher |-> queue'[w]]
    BY <1>1
  <2> QED
    BY <1>4, <2>1
<1>6. dropped' \in [Watcher -> Nat]
  <2>1. dropped' = [w \in Watcher |-> dropped'[w]]
    BY <1>1
  <2> QED
    BY <1>4, <2>1
<1> QED
  BY <1>1, <1>2, <1>4, <1>5, <1>6 DEF BusTypeOK

LEMMA PublishedBoth ==
  ASSUME QueuesOK, BusTypeOK, NEW d \in Delta, NEW e \in Delta, PublishBoth(d, e)
  PROVE  /\ registered' = registered /\ BusTypeOK'
         /\ queue' \in [Watcher -> Seq(Delta)] /\ dropped' \in [Watcher -> Nat]
         /\ \A w \in Watcher \ registered : queue'[w] = queue[w] /\ dropped'[w] = dropped[w]
         /\ \A w \in registered : dropped'[w] = 0 =>
              dropped[w] = 0 /\ queue'[w] = Append(Append(queue[w], d), e)
<1>1. /\ registered' = registered
      /\ queue' = [w \in Watcher |->
           IF w \in registered THEN Enqueue(Enqueue(queue[w], d), e) ELSE queue[w]]
      /\ dropped' = [w \in Watcher |->
           IF w \in registered
             THEN dropped[w] + Misses(queue[w], d) + Misses(Enqueue(queue[w], d), e)
             ELSE dropped[w]]
  BY DEF PublishBoth
<1>2. registered \subseteq Watcher
  BY DEF QueuesOK, Watching
<1>3. \A w \in Watcher : queue[w] \in Seq(Delta) /\ dropped[w] \in Nat /\ Len(queue[w]) <= Maxsize
  BY DEF QueuesOK, BusTypeOK
<1>4. ASSUME NEW w \in Watcher
      PROVE  /\ queue'[w] \in Seq(Delta) /\ dropped'[w] \in Nat /\ Len(queue'[w]) <= Maxsize
             /\ w \notin registered => queue'[w] = queue[w] /\ dropped'[w] = dropped[w]
             /\ w \in registered /\ dropped'[w] = 0 =>
                  dropped[w] = 0 /\ queue'[w] = Append(Append(queue[w], d), e)
  <2> DEFINE p == Enqueue(queue[w], d)
             q == Enqueue(p, e)
             m == Misses(queue[w], d)
             n == Misses(p, e)
  <2>1. /\ p \in Seq(Delta) /\ m \in {0, 1} /\ Len(p) <= Maxsize
        /\ m = 0 => p = Append(queue[w], d)
    BY <1>3, OnePut
  <2>2. /\ q \in Seq(Delta) /\ n \in {0, 1} /\ Len(q) <= Maxsize
        /\ n = 0 => q = Append(p, e)
    <3> HIDE DEF p
    <3> QED
      BY <2>1, OnePut
  <2>3. /\ queue'[w] = IF w \in registered THEN q ELSE queue[w]
        /\ dropped'[w] = IF w \in registered THEN dropped[w] + m + n ELSE dropped[w]
    BY <1>1
  <2> HIDE DEF p, q, m, n
  <2> QED
    BY <1>3, <2>1, <2>2, <2>3
<1>5. queue' \in [Watcher -> Seq(Delta)]
  <2>1. queue' = [w \in Watcher |-> queue'[w]]
    BY <1>1
  <2> QED
    BY <1>4, <2>1
<1>6. dropped' \in [Watcher -> Nat]
  <2>1. dropped' = [w \in Watcher |-> dropped'[w]]
    BY <1>1
  <2> QED
    BY <1>4, <2>1
<1> QED
  BY <1>1, <1>2, <1>4, <1>5, <1>6 DEF BusTypeOK
-----------------------------------------------------------------------------
(* The handlers' states.                                                   *)
LEMMA HandlerCases ==
  ASSUME NEW h \in Handler
  PROVE  /\ h.op \in {"idle", "attributes", "list", "close", "refresh"}
         /\ h = Idle <=> h.op = "idle"
         /\ h.op = "attributes" => h.span \in Span
         /\ h.op \in {"list", "close", "refresh"} => h.final \in FinalStatus /\ h.listed \subseteq Invocation
         /\ h.op = "list" => h.listed = {}
         /\ h.op \in {"close", "refresh"} => h.left \subseteq Invocation
         /\ h.op = "refresh" => h.span \in Invocation
<1>1. CASE h = Idle
  BY <1>1 DEF Idle
<1>2. CASE \E s \in Span : h = Attributes(s)
  BY <1>2 DEF Attributes, Idle
<1>3. CASE \E f \in FinalStatus : h = Finalize(f)
  BY <1>3 DEF Finalize, Idle
<1>4. CASE \E f \in FinalStatus, l \in SUBSET Invocation, r \in SUBSET Invocation : h = Close(f, l, r)
  BY <1>4 DEF Close, Idle
<1>5. CASE \E f \in FinalStatus, l \in SUBSET Invocation, r \in SUBSET Invocation, s \in Invocation :
             h = Refresh(Close(f, l, r), s)
  BY <1>5 DEF Refresh, Close, Idle
<1> QED
  BY <1>1, <1>2, <1>3, <1>4, <1>5 DEF Handler

LEMMA HandlerStates ==
  /\ Idle \in Handler
  /\ \A s \in Span : Attributes(s) \in Handler
  /\ \A f \in FinalStatus : Finalize(f) \in Handler
  /\ \A f \in FinalStatus, l \in SUBSET Invocation, r \in SUBSET Invocation : Close(f, l, r) \in Handler
  /\ \A h \in Handler, s \in Invocation : h.op = "close" => Refresh(h, s) \in Handler
<1>1. \A f \in FinalStatus, l \in SUBSET Invocation, r \in SUBSET Invocation : Close(f, l, r) \in Handler
  BY DEF Handler
<1>2. ASSUME NEW h \in Handler, NEW s \in Invocation, h.op = "close"
      PROVE  Refresh(h, s) \in Handler
  <2>1. h.final \in FinalStatus /\ h.listed \in SUBSET Invocation /\ h.left \in SUBSET Invocation
    BY <1>2, HandlerCases
  <2>2. Refresh(h, s) = Refresh(Close(h.final, h.listed, h.left), s)
    BY DEF Refresh, Close
  <2> QED
    BY <2>1, <2>2 DEF Handler
<1> QED
  BY <1>1, <1>2 DEF Handler
-----------------------------------------------------------------------------
(* What a step of the handlers does to the views that follow it: f takes   *)
(* what a watcher that misses nothing would show to what it will show.     *)
Pushed(f) ==
  /\ QueuesOK' /\ BusTypeOK' /\ Watching' = Watching
  /\ \A w \in Watching : dropped'[w] = 0 =>
       dropped[w] = 0 /\ \A v \in View : Final(v, queue'[w]) = f[Final(v, queue[w])]

LEMMA FinalAppend ==
  \A v \in View, q \in Seq(Delta), d \in Delta : Final(v, Append(q, d)) = Show(Final(v, q), d)
  BY ReplayAppend

LEMMA WatchersStay ==
  ASSUME UNCHANGED pc
  PROVE  Watching' = Watching
  BY DEF Watching

LEMMA PushNone ==
  ASSUME QueuesOK, BusTypeOK, UNCHANGED <<bus, watch>>
  PROVE  Pushed([v \in View |-> v])
<1>1. Watching' = Watching
  BY WatchersStay DEF watch
<1>2. QueuesOK' /\ BusTypeOK'
  BY <1>1 DEF QueuesOK, BusTypeOK, bus
<1>3. ASSUME NEW w \in Watching, NEW v \in View
      PROVE  Final(v, queue[w]) \in View
  BY ReplayTyped DEF QueuesOK, Watching
<1> QED
  BY <1>1, <1>2, <1>3 DEF Pushed, bus

LEMMA PushOne ==
  ASSUME QueuesOK, BusTypeOK, UNCHANGED watch, NEW d \in Delta, Publish(d)
  PROVE  Pushed([v \in View |-> Show(v, d)])
<1>1. Watching' = Watching /\ registered = Watching
  BY WatchersStay DEF watch, QueuesOK
<1>2. QueuesOK' /\ BusTypeOK'
  BY <1>1, Published DEF QueuesOK
<1>3. ASSUME NEW w \in Watching, NEW v \in View, dropped'[w] = 0
      PROVE  /\ dropped[w] = 0 /\ Final(v, queue[w]) \in View
             /\ Final(v, queue'[w]) = Show(Final(v, queue[w]), d)
  <2>1. dropped[w] = 0 /\ queue'[w] = Append(queue[w], d)
    BY <1>1, <1>3, Published
  <2>2. queue[w] \in Seq(Delta)
    BY DEF QueuesOK, Watching
  <2> QED
    BY <2>1, <2>2, ReplayAppend, ReplayTyped
<1>4. ASSUME NEW w \in Watching, dropped'[w] = 0
      PROVE  dropped[w] = 0
  BY <1>1, <1>4, Published
<1> QED
  BY <1>1, <1>2, <1>3, <1>4 DEF Pushed

LEMMA PushBoth ==
  ASSUME QueuesOK, BusTypeOK, UNCHANGED watch, NEW d \in Delta, NEW e \in Delta, PublishBoth(d, e)
  PROVE  Pushed([v \in View |-> Show(Show(v, d), e)])
<1>1. Watching' = Watching /\ registered = Watching
  BY WatchersStay DEF watch, QueuesOK
<1>2. QueuesOK' /\ BusTypeOK'
  BY <1>1, PublishedBoth DEF QueuesOK
<1>3. ASSUME NEW w \in Watching, NEW v \in View, dropped'[w] = 0
      PROVE  /\ Final(v, queue[w]) \in View
             /\ Final(v, queue'[w]) = Show(Show(Final(v, queue[w]), d), e)
  <2>1. queue'[w] = Append(Append(queue[w], d), e)
    BY <1>1, <1>3, PublishedBoth
  <2>2. queue[w] \in Seq(Delta) /\ Append(queue[w], d) \in Seq(Delta)
    BY AppendProperties DEF QueuesOK, Watching
  <2>3. PICK q \in Seq(Delta) : q = queue[w]
    BY <2>2
  <2>4. PICK p \in Seq(Delta) : p = Append(q, d)
    BY <2>2, <2>3
  <2>5. Final(v, Append(q, d)) = Show(Final(v, q), d)
    BY FinalAppend
  <2>6. Final(v, Append(p, e)) = Show(Final(v, p), e)
    BY FinalAppend
  <2>7. Final(v, q) \in View
    BY ReplayTyped
  <2> QED
    BY <2>1, <2>3, <2>4, <2>5, <2>6, <2>7
<1>4. ASSUME NEW w \in Watching, dropped'[w] = 0
      PROVE  dropped[w] = 0
  BY <1>1, <1>4, PublishedBoth
<1> QED
  BY <1>1, <1>2, <1>3, <1>4 DEF Pushed
-----------------------------------------------------------------------------
(* What a step may do to a row r that is shown, or about to be: r2 is what *)
(* the step's deltas make of it.                                           *)
Carried(r, r2, s) ==
  /\ r2 # Absent =>
       /\ \/ r2.attrs = spans'[s].attrs
          \/ r2.attrs = r.attrs /\ spans'[s].attrs = spans[s].attrs
       /\ s \notin Unpublished' =>
            /\ \/ r2.status = spans'[s].status
               \/ s \notin Unpublished /\ r2.status = r.status /\ spans'[s].status = spans[s].status
            /\ \/ r2.ended = spans'[s].ended
               \/ s \notin Unpublished /\ r2.ended = r.ended /\ spans'[s].ended = spans[s].ended
  /\ spans[s] # Absent => spans'[s] # Absent
  /\ r # Absent => r2 # Absent
  /\ r = Absent => \/ r2 = Absent /\ (spans[s] = Absent => spans'[s] = Absent)
                   \/ r2 = spans'[s] /\ r2 # Absent

LEMMA CarriesBurst ==
  ASSUME NEW x, NEW r, NEW r2, NEW s, Carried(r, r2, s), InBurst(x, r, s)
  PROVE  InBurst(x, r2, s)'
<1>1. CASE r = Absent /\ x = Absent
  BY <1>1 DEF Carried, InBurst, Fresh
<1>2. CASE r # Absent /\ x # Absent /\ Between(x, r, s)
  BY <1>2 DEF Carried, InBurst, Between
<1>3. CASE r # Absent /\ x = Absent /\ spans[s] # Absent /\ Fresh(r, s)
  BY <1>3 DEF Carried, InBurst, Fresh
<1> QED
  BY <1>1, <1>2, <1>3 DEF InBurst

LEMMA CarriesTail ==
  ASSUME NEW r, NEW r2, NEW s, NEW recent, Carried(r, r2, s), InTail(r, s, recent)
  PROVE  InTail(r2, s, recent)'
<1>1. CASE r = Absent
  BY <1>1 DEF Carried, InTail, Fresh
<1>2. CASE r # Absent
  BY <1>2 DEF Carried, InTail, Fresh
<1> QED
  BY <1>1, <1>2

RowsCarried(f) == \A v \in View, s \in Span : Carried(v.spans[s], f[v].spans[s], s)

LEMMA SpansCarried ==
  ASSUME TypeOK, QueuesOK, SpansFollow, UNCHANGED watch,
         NEW f \in [View -> View], Pushed(f), RowsCarried(f)
  PROVE  SpansFollow'
<1>1. /\ Watching' = Watching /\ pc' = pc /\ windowed' = windowed /\ view' = view
      /\ Watching \subseteq Watcher
  BY DEF Pushed, watch, Watching
<1>2. \A w \in Watcher : view[w] \in View /\ queue[w] \in Seq(Delta)
  BY DEF TypeOK, View, Rows, QueuesOK
<1> SUFFICES ASSUME NEW w \in Watching, dropped'[w] = 0
             PROVE  /\ pc[w] = "burst" =>
                         \A v \in View, s \in Span : InBurst(v.spans[s], Final(v, queue[w]).spans[s], s)'
                    /\ pc[w] = "tail" =>
                         \A s \in Span : InTail(CaughtUp(w).spans[s], s, windowed[w])'
  BY <1>1 DEF SpansFollow, SpansOf
<1>3. dropped[w] = 0 /\ \A v \in View : Final(v, queue'[w]) = f[Final(v, queue[w])]
  BY DEF Pushed
<1>4. ASSUME pc[w] = "burst", NEW v \in View, NEW s \in Span
      PROVE  InBurst(v.spans[s], Final(v, queue[w]).spans[s], s)'
  <2>1. Final(v, queue[w]) \in View
    BY <1>1, <1>2, ReplayTyped
  <2>2. PICK u \in View : u = Final(v, queue[w])
    BY <2>1
  <2>3. InBurst(v.spans[s], u.spans[s], s)
    BY <1>3, <1>4, <2>2 DEF SpansFollow, SpansOf
  <2>4. InBurst(v.spans[s], f[u].spans[s], s)'
    BY <2>3, CarriesBurst DEF RowsCarried
  <2>5. Final(v, queue'[w]) = f[u]
    BY <1>3, <2>2
  <2> QED
    BY <2>4, <2>5
<1>5. ASSUME pc[w] = "tail", NEW s \in Span
      PROVE  InTail(CaughtUp(w).spans[s], s, windowed[w])'
  <2>1. Final(view[w], queue[w]) \in View
    BY <1>1, <1>2, ReplayTyped
  <2>2. PICK u \in View : u = Final(view[w], queue[w])
    BY <2>1
  <2>3. PICK recent : recent = windowed[w]
    OBVIOUS
  <2>4. InTail(u.spans[s], s, recent)
    BY <1>3, <1>5, <2>2, <2>3 DEF SpansFollow, SpansOf, CaughtUp, Final
  <2>5. InTail(f[u].spans[s], s, recent)'
    BY <2>4, CarriesTail DEF RowsCarried
  <2>6. Final(view[w], queue'[w]) = f[u]
    BY <1>1, <1>2, <1>3, <2>2
  <2>7. CaughtUp(w)' = f[u] /\ windowed'[w] = recent
    BY <1>1, <2>3, <2>6 DEF CaughtUp, Final
  <2> QED
    BY <2>5, <2>7
<1> QED
  BY <1>4, <1>5
-----------------------------------------------------------------------------
StatusCarried(f) ==
  ~overlap' /\ Calm' =>
    /\ ~overlap
    /\ \A v \in View :
         \/ f[v].session = session'.status
         \/ Calm /\ f[v].session = v.session /\ session'.status = session.status

Effect == \E f \in [View -> View] : Pushed(f) /\ RowsCarried(f) /\ StatusCarried(f)

(* The step leaves the session's status to earlier signals, or publishes   *)
(* the signal of the status that is written.                               *)
StatusKept == ~overlap' /\ Calm' => ~overlap /\ Calm /\ session'.status = session.status
StatusSent(d) == ~overlap' => ~overlap /\ d.status = session'.status
StatusBy(d) == IF d.kind = "session_ended" THEN StatusSent(d) ELSE StatusKept

LEMMA StatusCarries ==
  ASSUME TypeOK, QueuesOK, StatusFollows, UNCHANGED watch,
         NEW f \in [View -> View], Pushed(f), StatusCarried(f)
  PROVE  StatusFollows'
<1>1. /\ Watching' = Watching /\ pc' = pc /\ view' = view
      /\ Watching \subseteq Watcher
  BY DEF Pushed, watch, Watching
<1>2. \A w \in Watcher : view[w] \in View /\ queue[w] \in Seq(Delta)
  BY DEF TypeOK, View, Rows, QueuesOK
<1>3. ASSUME NEW w \in Watching, dropped'[w] = 0, ~overlap', Calm', NEW v \in View, v \in Candidates(w)
      PROVE  Final(v, queue'[w]).session = session'.status
  <2>1. dropped[w] = 0 /\ Final(v, queue'[w]) = f[Final(v, queue[w])]
    BY <1>3 DEF Pushed
  <2>2. PICK u \in View : u = Final(v, queue[w])
    BY <1>1, <1>2, ReplayTyped
  <2>3. CASE f[u].session = session'.status
    BY <2>1, <2>2, <2>3
  <2>4. CASE Calm /\ f[u].session = u.session /\ session'.status = session.status
    <3>1. ~overlap
      BY <1>3 DEF StatusCarried
    <3>2. u.session = session.status
      BY <1>3, <2>1, <2>2, <2>4, <3>1 DEF StatusFollows, StatusOf, Calm
    <3> QED
      BY <2>1, <2>2, <2>4, <3>2
  <2> QED
    BY <1>3, <2>3, <2>4 DEF StatusCarried
<1>4. \A w \in Watching : Candidates(w)' = Candidates(w) /\ Candidates(w) \subseteq View
  BY <1>1, <1>2 DEF Candidates
<1> QED
  BY <1>1, <1>3, <1>4 DEF StatusFollows, StatusOf, Calm

LEMMA EffectNone ==
  ASSUME QueuesOK, BusTypeOK, UNCHANGED <<bus, watch>>, StatusKept,
         \A r \in Rows, s \in Span : Carried(r, r, s)
  PROVE  Effect
<1> DEFINE f == [v \in View |-> v]
<1>1. Pushed(f)
  BY PushNone
<1>2. f \in [View -> View] /\ \A v \in View : f[v] = v
  OBVIOUS
<1> HIDE DEF f
<1>3. RowsCarried(f)
  BY <1>2 DEF RowsCarried, View
<1>4. StatusCarried(f)
  BY <1>2 DEF StatusCarried, StatusKept
<1> QED
  BY <1>1, <1>2, <1>3, <1>4 DEF Effect

LEMMA EffectOne ==
  ASSUME QueuesOK, BusTypeOK, UNCHANGED watch, NEW d \in Delta, Publish(d), StatusBy(d),
         \A r \in Rows, s \in Span : Carried(r, RowAfter(r, d, s), s)
  PROVE  Effect
<1> DEFINE f == [v \in View |-> Show(v, d)]
<1>1. Pushed(f)
  BY PushOne
<1>2. /\ f \in [View -> View]
      /\ \A v \in View, s \in Span : f[v].spans[s] = RowAfter(v.spans[s], d, s)
      /\ \A v \in View : f[v].session = IF d.kind = "session_ended" THEN d.status ELSE v.session
  BY Shown
<1> HIDE DEF f
<1>3. RowsCarried(f)
  <2>1. \A v \in View, s \in Span : v.spans[s] \in Rows
    BY DEF View
  <2> QED
    BY <1>2, <2>1 DEF RowsCarried
<1>4. StatusCarried(f)
  BY <1>2 DEF StatusCarried, StatusKept, StatusSent, StatusBy
<1> QED
  BY <1>1, <1>2, <1>3, <1>4 DEF Effect

(* Of two deltas the first is a span's.                                    *)
LEMMA EffectBoth ==
  ASSUME QueuesOK, BusTypeOK, UNCHANGED watch, NEW d \in Delta, NEW e \in Delta,
         d.kind # "session_ended", PublishBoth(d, e), StatusBy(e),
         \A r \in Rows, s \in Span : Carried(r, RowAfter(RowAfter(r, d, s), e, s), s)
  PROVE  Effect
<1> DEFINE f == [v \in View |-> Show(Show(v, d), e)]
<1>1. Pushed(f)
  BY PushBoth
<1>2. ASSUME NEW v \in View
      PROVE  /\ Show(Show(v, d), e) \in View
             /\ \A s \in Span : Show(Show(v, d), e).spans[s] = RowAfter(RowAfter(v.spans[s], d, s), e, s)
             /\ Show(Show(v, d), e).session = IF e.kind = "session_ended" THEN e.status ELSE v.session
  <2>1. PICK u \in View : u = Show(v, d)
    BY Shown
  <2>2. (\A s \in Span : u.spans[s] = RowAfter(v.spans[s], d, s)) /\ u.session = v.session
    BY <2>1, Shown
  <2>3. /\ Show(u, e) \in View
        /\ \A s \in Span : Show(u, e).spans[s] = RowAfter(u.spans[s], e, s)
        /\ Show(u, e).session = IF e.kind = "session_ended" THEN e.status ELSE u.session
    BY Shown
  <2> QED
    BY <2>1, <2>2, <2>3
<1>3. /\ f \in [View -> View]
      /\ \A v \in View, s \in Span : f[v].spans[s] = RowAfter(RowAfter(v.spans[s], d, s), e, s)
      /\ \A v \in View : f[v].session = IF e.kind = "session_ended" THEN e.status ELSE v.session
  BY <1>2
<1> HIDE DEF f
<1>4. RowsCarried(f)
  <2>1. \A v \in View, s \in Span : v.spans[s] \in Rows
    BY DEF View
  <2> QED
    BY <1>3, <2>1 DEF RowsCarried
<1>5. StatusCarried(f)
  BY <1>3 DEF StatusCarried, StatusKept, StatusSent, StatusBy
<1> QED
  BY <1>1, <1>3, <1>4, <1>5 DEF Effect
-----------------------------------------------------------------------------
LEMMA TypeFacts ==
  ASSUME TypeOK
  PROVE  /\ \A s \in Span : spans[s] \in Rows /\ (spans[s] # Absent => spans[s] \in Row)
         /\ spans \in [Span -> Rows] /\ handler \in [Stream -> Handler] /\ BusTypeOK
         /\ open \subseteq Span /\ \A s \in open : spans[s] # Absent
  BY DEF TypeOK, Rows, Stored

LEMMA Untouched ==
  ASSUME NEW r, NEW s, spans'[s] = spans[s], s \in Unpublished => s \in Unpublished'
  PROVE  Carried(r, r, s)
  BY DEF Carried

LEMMA HandlerStep ==
  ASSUME handler \in [Stream -> Handler], NEW st \in Stream, NEW h \in Handler,
         handler' = [handler EXCEPT ![st] = h]
  PROVE  /\ \A s \in Span : s \in Unpublished /\ s \notin Unpublished' =>
              handler[st].op \in {"attributes", "refresh"} /\ handler[st].span = s
         /\ h.op \in {"attributes", "refresh"} => h.span \in Unpublished'
         /\ h.op \in {"list", "close", "refresh"} => ~Calm'
         /\ ~IsFinalizing(st) /\ Calm' => Calm
<1>1. handler'[st] = h /\ \A other \in Stream : other # st => handler'[other] = handler[other]
  OBVIOUS
<1>2. \A s \in Span : s \in Unpublished /\ s \notin Unpublished' =>
              handler[st].op \in {"attributes", "refresh"} /\ handler[st].span = s
  BY <1>1 DEF Unpublished
<1>3. h.op \in {"attributes", "refresh"} => h.span \in Span
  BY HandlerCases, KindAssumption
<1> QED
  BY <1>1, <1>2, <1>3 DEF Unpublished, Calm, IsFinalizing

LEMMA SameHandlers ==
  ASSUME UNCHANGED handler
  PROVE  Unpublished' = Unpublished /\ (Calm' <=> Calm) /\ \A st \in Stream : IsFinalizing(st)' <=> IsFinalizing(st)
  BY DEF Unpublished, Calm, IsFinalizing
-----------------------------------------------------------------------------
(* The effect of each step of the handlers.                                *)
LEMMA NotAbsent ==
  /\ \A r : r.status \in SpanStatus => r # Absent
  /\ \A r \in Row : r.status \in SpanStatus /\ r # Absent
<1>1. \A r : r.status \in SpanStatus => r # Absent
  BY DEF SpanStatus, Absent
<1> QED
  BY <1>1 DEF Row

LEMMA SpanDeltas ==
  ASSUME NEW kind \in SpanKind, NEW s \in Span, NEW row \in Row
  PROVE  /\ SpanDelta(kind, s, row) \in Delta
         /\ SpanDelta(kind, s, row).kind = kind /\ kind # "session_ended"
         /\ SpanDelta(kind, s, row).span = s /\ SpanDelta(kind, s, row).row = row
  BY DEF SpanDelta, Delta, SpanKind

LEMMA StartEffect ==
  ASSUME IInv, NEW s \in Span, SpanStart(s)
  PROVE  Effect
<1>1. TypeOK /\ QueuesOK /\ UNCHANGED <<watch, handler, overlap, session>>
  BY DEF IInv, SpanStart, watch
<1>2. spans'[s] = Started /\ Started \in Row /\ Started # Absent /\ \A t \in Span : t # s => spans'[t] = spans[t]
  <2>1. Started \in Row
    BY BoundAssumption DEF Started, Row, SpanStatus
  <2> QED
    BY <1>1, <2>1, TypeFacts, NotAbsent DEF SpanStart
<1> DEFINE d == SpanDelta("new_span", s, Started)
<1>3. d \in Delta /\ d.kind = "new_span" /\ d.span = s /\ d.row = Started
  BY <1>2, SpanDeltas DEF SpanKind
<1>4. Publish(d) /\ spans[s] = Absent
  BY <1>2 DEF SpanStart
<1> HIDE DEF d
<1>5. ASSUME NEW r \in Rows, NEW t \in Span
      PROVE  Carried(r, RowAfter(r, d, t), t)
  <2>1. CASE t # s
    BY <1>1, <1>2, <1>3, <2>1, Untouched, SameHandlers DEF RowAfter
  <2>2. CASE t = s
    <3>1. RowAfter(r, d, s) = Started
      BY <1>3 DEF RowAfter
    <3> QED
      BY <1>2, <1>4, <2>2, <3>1 DEF Carried
  <2> QED
    BY <2>1, <2>2
<1>6. StatusBy(d)
  BY <1>1, <1>3, SameHandlers DEF StatusBy, StatusKept
<1> QED
  BY <1>1, <1>3, <1>4, <1>5, <1>6, EffectOne, TypeFacts

LEMMA UpdateEffect ==
  ASSUME IInv, NEW s \in Span, SpanUpdate(s)
  PROVE  Effect
<1>1. TypeOK /\ QueuesOK /\ UNCHANGED <<watch, handler, overlap, session>>
  BY DEF IInv, SpanUpdate, watch
<1>2. spans[s] # Absent /\ spans[s] \in Row /\ spans[s].attrs < MaxUpdates
  BY <1>1, TypeFacts DEF SpanUpdate
<1>3. /\ spans'[s].status = spans[s].status /\ spans'[s].ended = spans[s].ended
      /\ spans'[s] \in Row /\ spans'[s] # Absent
      /\ \A t \in Span : t # s => spans'[t] = spans[t]
  <2>1. spans' = [spans EXCEPT ![s].attrs = @ + 1]
    BY DEF SpanUpdate
  <2>2. spans'[s] = [spans[s] EXCEPT !.attrs = @ + 1] /\ \A t \in Span : t # s => spans'[t] = spans[t]
    BY <1>1, <2>1, TypeFacts
  <2> QED
    BY <1>2, <2>2, BoundAssumption DEF Row, Absent, SpanStatus
<1>4. PICK row \in Row : row = spans'[s]
  BY <1>3
<1> DEFINE d == SpanDelta("updated_span", s, row)
<1>5. d \in Delta /\ d.kind = "updated_span" /\ d.span = s /\ d.row = row
  BY SpanDeltas DEF SpanKind
<1>6. Publish(d)
  BY <1>4 DEF SpanUpdate
<1> HIDE DEF d
<1>7. ASSUME NEW r \in Rows, NEW t \in Span
      PROVE  Carried(r, RowAfter(r, d, t), t)
  <2>1. CASE t # s
    BY <1>1, <1>3, <1>5, <2>1, Untouched, SameHandlers DEF RowAfter
  <2>2. CASE t = s /\ r = Absent
    BY <1>2, <1>3, <1>5, <2>2 DEF RowAfter, Carried
  <2>3. CASE t = s /\ r # Absent
    <3>1. r \in Row
      BY <2>3 DEF Rows
    <3>2. RowAfter(r, d, s) = [r EXCEPT !.status = row.status, !.attrs = row.attrs]
      BY <1>5, <2>3 DEF RowAfter
    <3>3. PICK r2 : r2 = RowAfter(r, d, s)
      OBVIOUS
    <3>4. r2.status = row.status /\ r2.attrs = row.attrs /\ r2.ended = r.ended /\ r2 # Absent
      <4>1. r2.status = row.status /\ r2.attrs = row.attrs /\ r2.ended = r.ended
        BY <3>1, <3>2, <3>3 DEF Row
      <4> QED
        BY <4>1, NotAbsent
    <3>5. Carried(r, r2, s)
      BY <1>1, <1>2, <1>3, <1>4, <2>3, <3>4, SameHandlers DEF Carried
    <3> QED
      BY <2>3, <3>3, <3>5
  <2> QED
    BY <2>1, <2>2, <2>3
<1>8. StatusBy(d)
  BY <1>1, <1>5, SameHandlers DEF StatusBy, StatusKept
<1> QED
  BY <1>1, <1>5, <1>6, <1>7, <1>8, EffectOne, TypeFacts

(* What an ended_span delta does, of the row that is stored or about to be.*)
LEMMA EndCarries ==
  ASSUME NEW s \in Span, NEW row \in Row, row = spans'[s], row.ended, spans[s] # Absent,
         row.attrs = spans[s].attrs, NEW d, d = SpanDelta("ended_span", s, row), NEW r \in Rows
  PROVE  Carried(r, RowAfter(r, d, s), s)
<1>1. d.kind = "ended_span" /\ d.span = s /\ d.row = row
  BY SpanDeltas DEF SpanKind
<1>2. spans'[s] # Absent
  BY DEF Absent, Row, SpanStatus
<1>3. CASE r = Absent
  BY <1>1, <1>2, <1>3 DEF RowAfter, Carried
<1>4. CASE r # Absent
  <2>1. r \in Row
    BY <1>4 DEF Rows
  <2>2. RowAfter(r, d, s) = [r EXCEPT !.status = row.status, !.ended = TRUE]
    BY <1>1, <1>4 DEF RowAfter
  <2>3. PICK r2 : r2 = RowAfter(r, d, s)
    OBVIOUS
  <2>4. r2.status = row.status /\ r2.attrs = r.attrs /\ r2.ended = TRUE /\ r2 # Absent
    <3>1. r2.status = row.status /\ r2.attrs = r.attrs /\ r2.ended = TRUE
      BY <2>1, <2>2, <2>3 DEF Row
    <3> QED
      BY <3>1, NotAbsent
  <2>5. row.ended = TRUE
    BY DEF Row
  <2>6. Carried(r, r2, s)
    BY <1>2, <1>4, <2>4, <2>5 DEF Carried
  <2> QED
    BY <2>3, <2>6
<1> QED
  BY <1>3, <1>4

LEMMA EndRows ==
  ASSUME TypeOK, NEW s \in Span, spans[s] # Absent, NEW status \in SpanStatus, spans' = EndRow(s, status)
  PROVE  /\ spans'[s] \in Row /\ spans'[s] # Absent /\ spans'[s].ended /\ spans'[s].attrs = spans[s].attrs
         /\ \A t \in Span : t # s => spans'[t] = spans[t]
<1>1. spans[s] \in Row /\ spans \in [Span -> Rows]
  BY TypeFacts
<1>2. spans'[s] = [spans[s] EXCEPT !.status = status, !.ended = TRUE]
  BY <1>1 DEF EndRow
<1>3. \A t \in Span : t # s => spans'[t] = spans[t]
  BY <1>1 DEF EndRow
<1> QED
  BY <1>1, <1>2, <1>3, NotAbsent DEF Row

LEMMA EndStatuses == EndStatus \subseteq SpanStatus
  BY StatusAssumption DEF SpanStatus

LEMMA EndEffect ==
  ASSUME IInv, NEW s \in Span, NEW status \in EndStatus, SpanEnd(s, status)
  PROVE  Effect
<1>1. TypeOK /\ QueuesOK /\ UNCHANGED <<watch, handler, overlap, session>>
  BY DEF IInv, SpanEnd, watch
<1>2. spans[s] # Absent /\ spans' = EndRow(s, status) /\ status \in SpanStatus
  BY <1>1, TypeFacts, EndStatuses DEF SpanEnd
<1>3. PICK row \in Row : row = spans'[s]
  BY <1>1, <1>2, EndRows
<1> DEFINE d == SpanDelta("ended_span", s, row)
<1>4. d \in Delta /\ d.kind = "ended_span" /\ d.span = s
  BY SpanDeltas DEF SpanKind
<1>5. Publish(d)
  BY <1>3 DEF SpanEnd
<1>6. ASSUME NEW r \in Rows, NEW t \in Span
      PROVE  Carried(r, RowAfter(r, d, t), t)
  <2>1. CASE t # s
    <3> HIDE DEF d
    <3> QED
      BY <1>1, <1>2, <1>4, <2>1, EndRows, Untouched, SameHandlers DEF RowAfter
  <2>2. CASE t = s
    BY <1>1, <1>2, <1>3, <2>2, EndRows, EndCarries
  <2> QED
    BY <2>1, <2>2
<1> HIDE DEF d
<1>7. StatusBy(d)
  BY <1>1, <1>4, SameHandlers DEF StatusBy, StatusKept
<1> QED
  BY <1>1, <1>4, <1>5, <1>6, <1>7, EffectOne, TypeFacts

LEMMA EndWithAttributesEffect ==
  ASSUME IInv, NEW s \in Span, NEW status \in EndStatus, SpanEndWithAttributes(s, status)
  PROVE  Effect
<1>1. TypeOK /\ QueuesOK /\ UNCHANGED <<watch, bus, overlap, session>>
  BY DEF IInv, SpanEndWithAttributes, watch
<1>2. spans[s] # Absent /\ spans' = EndRow(s, status) /\ status \in SpanStatus
  BY <1>1, TypeFacts, EndStatuses DEF SpanEndWithAttributes
<1>3. PICK st \in Stream : st = Owner[s]
  BY OwnerAssumption
<1>4. PICK h \in Handler : h = Attributes(s)
  BY HandlerStates
<1>5. /\ handler' = [handler EXCEPT ![st] = h] /\ handler \in [Stream -> Handler]
      /\ handler[st].op = "idle" /\ h.op = "attributes" /\ h.span = s
  BY <1>1, <1>3, <1>4, TypeFacts DEF SpanEndWithAttributes, Attributes, Idle
<1>6. Unpublished \subseteq Unpublished' /\ s \in Unpublished' /\ (Calm' => Calm)
  BY <1>5, HandlerStep DEF IsFinalizing, Unpublished
<1>7. ASSUME NEW r \in Rows, NEW t \in Span
      PROVE  Carried(r, r, t)
  <2>1. CASE t # s
    BY <1>1, <1>2, <1>6, <2>1, EndRows, Untouched
  <2>2. CASE t = s
    BY <1>1, <1>2, <1>6, <2>2, EndRows DEF Carried
  <2> QED
    BY <2>1, <2>2
<1>8. StatusKept
  BY <1>1, <1>6 DEF StatusKept
<1> QED
  BY <1>1, <1>7, <1>8, EffectNone, TypeFacts

LEMMA RunEndsEffect ==
  ASSUME IInv, NEW st \in Stream, NEW final \in FinalStatus, RunEnds(st, final)
  PROVE  Effect
<1>1. TypeOK /\ QueuesOK /\ UNCHANGED <<watch, bus, spans>>
  BY DEF IInv, RunEnds, watch
<1>2. PICK h \in Handler : h = Finalize(final)
  BY HandlerStates
<1>3. /\ handler' = [handler EXCEPT ![st] = h] /\ handler \in [Stream -> Handler]
      /\ handler[st].op = "idle" /\ h.op = "list"
  BY <1>1, <1>2, TypeFacts DEF RunEnds, Finalize, Idle
<1>4. Unpublished \subseteq Unpublished' /\ ~Calm'
  BY <1>3, HandlerStep DEF Unpublished
<1>5. \A r \in Rows, t \in Span : Carried(r, r, t)
  BY <1>1, <1>4, Untouched
<1>6. StatusKept
  BY <1>4 DEF StatusKept
<1> QED
  BY <1>1, <1>5, <1>6, EffectNone, TypeFacts

LEMMA CloseEffect ==
  ASSUME IInv, NEW st \in Stream, NEW s \in Span, CloseSpan(st, s)
  PROVE  Effect
<1>1. TypeOK /\ QueuesOK /\ UNCHANGED <<watch, bus, overlap, session>>
  BY DEF IInv, CloseSpan, watch
<1>2. handler \in [Stream -> Handler] /\ handler[st].op = "close" /\ s \in handler[st].left
  BY <1>1, TypeFacts DEF CloseSpan
<1>3. s \in Invocation /\ s \in handler[st].listed /\ spans[s] # Absent
  <2>1. s \in Invocation
    BY <1>2, HandlerCases
  <2> QED
    BY <1>2, <2>1 DEF IInv, HandlersOK, HandlerOK, Closing
<1>4. PICK h \in Handler : h = Refresh(handler[st], s)
  BY <1>2, <1>3, HandlerStates
<1>5. handler' = [handler EXCEPT ![st] = h] /\ h.op = "refresh" /\ h.span = s
  BY <1>4 DEF CloseSpan, Refresh
<1>6. Unpublished \subseteq Unpublished' /\ s \in Unpublished' /\ ~Calm'
  BY <1>2, <1>5, HandlerStep DEF Unpublished
<1>7. PICK status \in SpanStatus : spans' = EndRow(s, status)
  BY DEF CloseSpan, SpanStatus
<1>8. ASSUME NEW r \in Rows, NEW t \in Span
      PROVE  Carried(r, r, t)
  <2>1. CASE t # s
    BY <1>1, <1>3, <1>6, <1>7, <2>1, EndRows, Untouched
  <2>2. CASE t = s
    BY <1>1, <1>3, <1>6, <1>7, <2>2, EndRows DEF Carried
  <2> QED
    BY <2>1, <2>2
<1>9. StatusKept
  BY <1>6 DEF StatusKept
<1> QED
  BY <1>1, <1>8, <1>9, EffectNone, TypeFacts

LEMMA EndAttributesEffect ==
  ASSUME IInv, NEW st \in Stream, SpanEndAttributes(st)
  PROVE  Effect
<1>1. TypeOK /\ QueuesOK /\ UNCHANGED <<watch, overlap, session>>
  BY DEF IInv, SpanEndAttributes, watch
<1>2. handler \in [Stream -> Handler] /\ handler[st].op = "attributes"
  BY <1>1, TypeFacts DEF SpanEndAttributes
<1>3. PICK s \in Span : s = handler[st].span
  BY <1>2, HandlerCases
<1>4. spans[s] \in Row /\ spans[s].ended /\ spans[s].attrs < MaxUpdates
  BY <1>1, <1>2, <1>3, TypeFacts DEF IInv, HandlersOK, HandlerOK, Pending
<1>5. /\ spans'[s].status = spans[s].status /\ spans'[s].ended = spans[s].ended
      /\ spans'[s] \in Row /\ \A t \in Span : t # s => spans'[t] = spans[t]
  <2>1. spans' = [spans EXCEPT ![s].attrs = @ + 1]
    BY <1>3 DEF SpanEndAttributes
  <2>2. spans'[s] = [spans[s] EXCEPT !.attrs = @ + 1] /\ \A t \in Span : t # s => spans'[t] = spans[t]
    BY <1>1, <2>1, TypeFacts
  <2> QED
    <3>1. PICK n \in 0 .. MaxUpdates : n = spans[s].attrs
      BY <1>4 DEF Row
    <3>2. n + 1 \in 0 .. MaxUpdates
      BY <1>4, <3>1, BoundAssumption
    <3>3. spans'[s] = [spans[s] EXCEPT !.attrs = n + 1]
      BY <2>2, <3>1
    <3> QED
      BY <1>4, <2>2, <3>2, <3>3 DEF Row
<1>6. PICK row \in Row : row = spans'[s]
  BY <1>5
<1>7. row.ended = TRUE /\ spans'[s] # Absent /\ spans[s] # Absent
  BY <1>4, <1>5, <1>6, NotAbsent DEF Row
<1> DEFINE d == SpanDelta("updated_span", s, row)
           e == SpanDelta("ended_span", s, row)
<1>8. /\ d \in Delta /\ d.kind = "updated_span" /\ d.span = s /\ d.row = row
      /\ e \in Delta /\ e.kind = "ended_span" /\ e.span = s /\ e.row = row
  BY SpanDeltas DEF SpanKind
<1>9. PublishBoth(d, e)
  BY <1>3, <1>6 DEF SpanEndAttributes
<1> HIDE DEF d, e
<1>10. /\ \A t \in Span : t # s /\ t \in Unpublished => t \in Unpublished'
       /\ Calm' => Calm
  <2>1. handler' = [handler EXCEPT ![st] = Idle] /\ Idle \in Handler
    BY HandlerStates DEF SpanEndAttributes
  <2> QED
    BY <1>2, <1>3, <2>1, HandlerStep DEF IsFinalizing
<1>11. ASSUME NEW r \in Rows, NEW t \in Span
       PROVE  Carried(r, RowAfter(RowAfter(r, d, t), e, t), t)
  <2>1. CASE t # s
    <3>1. RowAfter(r, d, t) = r /\ RowAfter(r, e, t) = r
      BY <1>8, <2>1 DEF RowAfter
    <3> QED
      BY <1>5, <1>10, <2>1, <3>1, Untouched
  <2>2. CASE t = s /\ r = Absent
    <3>1. RowAfter(r, d, s) = r /\ RowAfter(r, e, s) = r
      BY <1>8, <2>2 DEF RowAfter
    <3> QED
      BY <1>7, <2>2, <3>1 DEF Carried
  <2>3. CASE t = s /\ r # Absent
    <3>1. r \in Row
      BY <2>3 DEF Rows
    <3>2. PICK r1 : r1 = RowAfter(r, d, s)
      OBVIOUS
    <3>3. r1 = [r EXCEPT !.status = row.status, !.attrs = row.attrs]
      BY <1>8, <2>3, <3>2 DEF RowAfter
    <3>4. r1 \in Row
      BY <3>1, <3>3 DEF Row
    <3>5. r1.status = row.status /\ r1.attrs = row.attrs /\ r1 # Absent
      BY <3>1, <3>3, <3>4, NotAbsent DEF Row
    <3>6. PICK r2 : r2 = RowAfter(r1, e, s)
      OBVIOUS
    <3>7. r2 = [r1 EXCEPT !.status = row.status, !.ended = TRUE]
      BY <1>8, <3>5, <3>6 DEF RowAfter
    <3>8. r2.status = row.status /\ r2.attrs = row.attrs /\ r2.ended = TRUE
      BY <3>4, <3>5, <3>7 DEF Row
    <3>9. r2 # Absent
      BY <3>8, NotAbsent
    <3>10. Carried(r, r2, s)
      BY <1>6, <1>7, <2>3, <3>8, <3>9 DEF Carried
    <3> QED
      BY <2>3, <3>2, <3>6, <3>10
  <2> QED
    BY <2>1, <2>2, <2>3
<1>12. StatusBy(e)
  BY <1>1, <1>8, <1>10 DEF StatusBy, StatusKept
<1> QED
  BY <1>1, <1>8, <1>9, <1>11, <1>12, EffectBoth, TypeFacts

LEMMA EndSignal ==
  ASSUME IInv, NEW st \in Stream, IsFinalizing(st)
  PROVE  /\ SessionEnded(handler[st]) \in Delta
         /\ SessionEnded(handler[st]).kind = "session_ended"
         /\ ~overlap => SessionEnded(handler[st]).status = session.status
<1>1. handler[st] \in Handler
  BY TypeFacts DEF IInv
<1>2. handler[st].final \in FinalStatus /\ handler[st].listed \subseteq Span
  BY <1>1, HandlerCases, KindAssumption DEF IsFinalizing
<1>3. ~overlap => handler[st].final = session.status
  BY DEF IInv, OneFinalizer
<1> QED
  BY <1>2, <1>3 DEF SessionEnded, Delta

LEMMA ListEffect ==
  ASSUME IInv, NEW st \in Stream, ListOpenSpans(st)
  PROVE  Effect
<1>1. TypeOK /\ QueuesOK /\ UNCHANGED <<watch, spans, overlap, session>>
  BY DEF IInv, ListOpenSpans, watch
<1>2. handler \in [Stream -> Handler] /\ handler[st].op = "list" /\ handler[st] \in Handler
  BY <1>1, TypeFacts DEF ListOpenSpans
<1>3. ASSUME NEW h \in Handler, handler' = [handler EXCEPT ![st] = h]
      PROVE  Unpublished \subseteq Unpublished'
  BY <1>2, <1>3, HandlerStep DEF Unpublished
<1>4. CASE OpenInvocations = {}
  <2>1. Publish(SessionEnded(handler[st])) /\ handler' = [handler EXCEPT ![st] = Idle]
    BY <1>4 DEF ListOpenSpans
  <2>2. PICK d \in Delta : d = SessionEnded(handler[st])
    BY <1>2, EndSignal DEF IsFinalizing
  <2>3. d.kind = "session_ended" /\ (~overlap => d.status = session.status)
    BY <1>2, <2>2, EndSignal DEF IsFinalizing
  <2>4. \A r \in Rows, t \in Span : Carried(r, RowAfter(r, d, t), t)
    BY <1>1, <1>3, <2>1, <2>3, Untouched, HandlerStates DEF RowAfter
  <2>5. StatusBy(d)
    BY <1>1, <2>3 DEF StatusBy, StatusSent
  <2> QED
    BY <1>1, <2>1, <2>2, <2>4, <2>5, EffectOne, TypeFacts
<1>5. CASE OpenInvocations # {}
  <2>1. PICK h \in Handler : h = Close(handler[st].final, OpenInvocations, OpenInvocations)
    <3>1. OpenInvocations \in SUBSET Invocation /\ handler[st].final \in FinalStatus
      BY <1>2, HandlerCases DEF OpenInvocations
    <3> QED
      BY <3>1, HandlerStates
  <2>2. handler' = [handler EXCEPT ![st] = h] /\ UNCHANGED bus /\ h.op = "close"
    BY <1>5, <2>1 DEF ListOpenSpans, Close
  <2>3. Unpublished \subseteq Unpublished' /\ ~Calm'
    BY <1>2, <1>3, <2>2, HandlerStep
  <2>4. \A r \in Rows, t \in Span : Carried(r, r, t)
    BY <1>1, <2>3, Untouched
  <2>5. StatusKept
    BY <2>3 DEF StatusKept
  <2> QED
    BY <1>1, <2>2, <2>4, <2>5, EffectNone, TypeFacts
<1> QED
  BY <1>4, <1>5

LEMMA RefreshEffect ==
  ASSUME IInv, NEW st \in Stream, RefreshSpan(st)
  PROVE  Effect
<1>1. TypeOK /\ QueuesOK /\ UNCHANGED <<watch, spans, overlap, session>>
  BY DEF IInv, RefreshSpan, watch
<1>2. handler \in [Stream -> Handler] /\ handler[st].op = "refresh" /\ handler[st] \in Handler
  BY <1>1, TypeFacts DEF RefreshSpan
<1>3. PICK s \in Span : s = handler[st].span
  BY <1>2, HandlerCases, KindAssumption
<1>4. spans[s] # Absent /\ spans[s].ended
  BY <1>2, <1>3 DEF IInv, HandlersOK, HandlerOK, Pending
<1>5. PICK row \in Row : row = spans[s]
  BY <1>1, <1>4, TypeFacts
<1> DEFINE d == SpanDelta("ended_span", s, row)
<1>6. d \in Delta /\ d.kind = "ended_span" /\ d.span = s /\ d.row = row
  BY SpanDeltas DEF SpanKind
<1>7. ASSUME NEW h \in Handler, handler' = [handler EXCEPT ![st] = h], NEW r \in Rows, NEW t \in Span
      PROVE  Carried(r, RowAfter(r, d, t), t)
  <2>1. CASE t # s
    <3>1. RowAfter(r, d, t) = r
      BY <1>6, <2>1 DEF RowAfter
    <3>2. t \in Unpublished => t \in Unpublished'
      BY <1>2, <1>3, <1>7, <2>1, HandlerStep
    <3> QED
      BY <1>1, <3>1, <3>2, Untouched
  <2>2. CASE t = s
    BY <1>1, <1>4, <1>5, <2>2, EndCarries
  <2> QED
    BY <2>1, <2>2
<1>8. CASE handler[st].left = {}
  <2>1. /\ PublishBoth(d, SessionEnded(handler[st]))
        /\ handler' = [handler EXCEPT ![st] = Idle]
    BY <1>3, <1>5, <1>8 DEF RefreshSpan
  <2>2. PICK e \in Delta : e = SessionEnded(handler[st])
    BY <1>2, EndSignal DEF IsFinalizing
  <2>3. e.kind = "session_ended" /\ (~overlap => e.status = session.status)
    BY <1>2, <2>2, EndSignal DEF IsFinalizing
  <2> HIDE DEF d
  <2>4. \A r \in Rows, t \in Span : Carried(r, RowAfter(RowAfter(r, d, t), e, t), t)
    <3>1. \A r \in Rows, t \in Span : RowAfter(RowAfter(r, d, t), e, t) = RowAfter(r, d, t)
      BY <2>3 DEF RowAfter
    <3> QED
      BY <1>7, <2>1, <3>1, HandlerStates
  <2>5. StatusBy(e)
    BY <1>1, <2>3 DEF StatusBy, StatusSent
  <2> QED
    BY <1>1, <1>6, <2>1, <2>2, <2>4, <2>5, EffectBoth, TypeFacts
<1>9. CASE handler[st].left # {}
  <2>1. PICK h \in Handler : h = Close(handler[st].final, handler[st].listed, handler[st].left)
    BY <1>2, HandlerCases, HandlerStates
  <2>2. /\ Publish(d) /\ handler' = [handler EXCEPT ![st] = h] /\ h.op = "close"
    BY <1>3, <1>5, <1>9, <2>1 DEF RefreshSpan, Close
  <2> HIDE DEF d
  <2>3. \A r \in Rows, t \in Span : Carried(r, RowAfter(r, d, t), t)
    BY <1>7, <2>2
  <2>4. StatusBy(d)
    BY <1>2, <1>6, <2>2, HandlerStep DEF StatusBy, StatusKept
  <2> QED
    BY <1>1, <1>6, <2>2, <2>3, <2>4, EffectOne, TypeFacts
<1> QED
  BY <1>8, <1>9

LEMMA IngestEffect ==
  ASSUME IInv, Ingest
  PROVE  Effect
  BY StartEffect, UpdateEffect, EndEffect, EndWithAttributesEffect, RunEndsEffect, EndAttributesEffect,
     ListEffect, CloseEffect, RefreshEffect DEF Ingest, Resume
-----------------------------------------------------------------------------
StoreOK ==
  /\ session \in [status : SessionStatus, ended_at : 0 .. MaxRuns]
  /\ spans \in [Span -> Rows] /\ open \subseteq Stored
  /\ handler \in [Stream -> Handler]
  /\ runs \in 0 .. MaxRuns /\ overlap \in BOOLEAN
WatchOK ==
  /\ pc \in [Watcher -> {"new", "burst", "tail", "left"}]
  /\ windowed \in [Watcher -> BOOLEAN] /\ view \in [Watcher -> View]

LEMMA TypeParts ==
  /\ TypeOK <=> BusTypeOK /\ StoreOK /\ WatchOK
  /\ TypeOK' <=> BusTypeOK' /\ StoreOK' /\ WatchOK'
  BY DEF TypeOK, StoreOK, WatchOK, Rows, View

LEMMA StoredKept ==
  ASSUME StoreOK, NEW s \in Span, spans'[s] \in Row, spans' \in [Span -> Rows],
         \A t \in Span : t # s => spans'[t] = spans[t], open' \subseteq open \cup {s}
  PROVE  open' \subseteq Stored'
<1>1. spans'[s] # Absent
  BY NotAbsent
<1> QED
  BY <1>1 DEF StoreOK, Stored

LEMMA SpanChange ==
  ASSUME StoreOK, NEW s \in Span, NEW row \in Row, spans' = [spans EXCEPT ![s] = row],
         open' \subseteq open \cup {s}, UNCHANGED <<session, runs, overlap>>, handler' \in [Stream -> Handler]
  PROVE  StoreOK'
<1>1. /\ spans' \in [Span -> Rows] /\ spans'[s] = row
      /\ \A t \in Span : t # s => spans'[t] = spans[t]
  BY DEF StoreOK, Rows
<1> QED
  BY <1>1, StoredKept DEF StoreOK

LEMMA HandlerChange ==
  ASSUME StoreOK, NEW st \in Stream, NEW h \in Handler, handler' = [handler EXCEPT ![st] = h]
  PROVE  handler' \in [Stream -> Handler]
  BY DEF StoreOK

LEMMA RowNext ==
  ASSUME NEW row \in Row
  PROVE  /\ \A status \in SpanStatus : [row EXCEPT !.status = status, !.ended = TRUE] \in Row
         /\ row.attrs < MaxUpdates => [row EXCEPT !.attrs = @ + 1] \in Row
<1>1. \A status \in SpanStatus : [row EXCEPT !.status = status, !.ended = TRUE] \in Row
  BY DEF Row
<1>2. ASSUME row.attrs < MaxUpdates PROVE [row EXCEPT !.attrs = @ + 1] \in Row
  <2>1. PICK n \in 0 .. MaxUpdates : n = row.attrs
    BY DEF Row
  <2>2. n + 1 \in 0 .. MaxUpdates
    BY <1>2, <2>1, BoundAssumption
  <2>3. [row EXCEPT !.attrs = n + 1] \in Row
    BY <2>2 DEF Row
  <2> QED
    BY <2>1, <2>3
<1> QED
  BY <1>1, <1>2

LEMMA IngestTyped ==
  ASSUME IInv, Ingest
  PROVE  StoreOK'
<1>1. StoreOK /\ HandlersOK
  BY TypeParts DEF IInv
<1>2. /\ \A s \in Span : spans[s] # Absent => spans[s] \in Row
      /\ \A s \in open : s \in Span /\ spans[s] \in Row
      /\ handler \in [Stream -> Handler]
  BY <1>1 DEF StoreOK, Rows, Stored
<1>3. ASSUME NEW s \in Span, SpanStart(s) PROVE StoreOK'
  <2>1. Started \in Row
    BY BoundAssumption DEF Started, Row, SpanStatus
  <2> QED
    BY <1>1, <1>2, <1>3, <2>1, SpanChange DEF SpanStart
<1>4. ASSUME NEW s \in Span, SpanUpdate(s) PROVE StoreOK'
  <2>1. PICK row \in Row : row = [spans[s] EXCEPT !.attrs = @ + 1]
    BY <1>2, <1>4, RowNext DEF SpanUpdate
  <2>2. spans' = [spans EXCEPT ![s] = row]
    BY <1>4, <2>1 DEF SpanUpdate
  <2> QED
    BY <1>1, <1>2, <1>4, <2>2, SpanChange DEF SpanUpdate
<1>5. ASSUME NEW s \in Span, NEW status \in SpanStatus, spans[s] # Absent, spans' = EndRow(s, status),
             UNCHANGED <<session, runs, overlap>>, open' \subseteq open \cup {s},
             handler' \in [Stream -> Handler]
      PROVE  StoreOK'
  <2>1. PICK row \in Row : row = [spans[s] EXCEPT !.status = status, !.ended = TRUE]
    BY <1>2, <1>5, RowNext
  <2>2. spans' = [spans EXCEPT ![s] = row]
    BY <1>5, <2>1 DEF EndRow
  <2> QED
    BY <1>1, <1>5, <2>2, SpanChange
<1>6. ASSUME NEW s \in Span, NEW status \in EndStatus, SpanEnd(s, status) PROVE StoreOK'
  <2>1. spans[s] # Absent /\ status \in SpanStatus
    BY <1>2, <1>6, EndStatuses, NotAbsent DEF SpanEnd
  <2> QED
    BY <1>2, <1>5, <1>6, <2>1 DEF SpanEnd
<1>7. ASSUME NEW s \in Span, NEW status \in EndStatus, SpanEndWithAttributes(s, status) PROVE StoreOK'
  <2>1. spans[s] # Absent /\ status \in SpanStatus
    BY <1>2, <1>7, EndStatuses, NotAbsent DEF SpanEndWithAttributes
  <2>2. handler' \in [Stream -> Handler]
    <3>1. Owner[s] \in Stream /\ Attributes(s) \in Handler
      BY HandlerStates, OwnerAssumption
    <3> QED
      BY <1>2, <1>7, <3>1 DEF SpanEndWithAttributes
  <2> QED
    BY <1>5, <1>7, <2>1, <2>2 DEF SpanEndWithAttributes
<1>8. ASSUME NEW st \in Stream, NEW final \in FinalStatus, RunEnds(st, final) PROVE StoreOK'
  <2>1. runs' \in 0 .. MaxRuns
    BY <1>1, <1>8, BoundAssumption DEF StoreOK, RunEnds
  <2>2. session' \in [status : SessionStatus, ended_at : 0 .. MaxRuns]
    BY <1>8, <2>1 DEF RunEnds, FinalStatus, SessionStatus
  <2>3. handler' \in [Stream -> Handler]
    BY <1>1, <1>8, HandlerChange, HandlerStates DEF RunEnds
  <2>4. overlap' \in BOOLEAN /\ UNCHANGED <<spans, open>>
    BY <1>8 DEF RunEnds
  <2> QED
    BY <1>1, <2>1, <2>2, <2>3, <2>4 DEF StoreOK, Stored
<1>9. ASSUME NEW st \in Stream, SpanEndAttributes(st) PROVE StoreOK'
  <2>1. handler[st].op = "attributes" /\ handler[st] \in Handler
    BY <1>2, <1>9 DEF SpanEndAttributes
  <2>2. PICK s \in Span : s = handler[st].span
    BY <2>1, HandlerCases
  <2>3. spans[s] \in Row /\ spans[s].attrs < MaxUpdates
    BY <1>1, <1>2, <2>1, <2>2 DEF HandlersOK, HandlerOK, Pending
  <2>4. PICK row \in Row : row = [spans[s] EXCEPT !.attrs = @ + 1]
    BY <2>3, RowNext
  <2>5. spans' = [spans EXCEPT ![s] = row]
    BY <1>9, <2>2, <2>4 DEF SpanEndAttributes
  <2>6. handler' \in [Stream -> Handler]
    BY <1>1, <1>9, HandlerChange, HandlerStates DEF SpanEndAttributes
  <2> QED
    BY <1>1, <1>9, <2>5, <2>6, SpanChange DEF SpanEndAttributes
<1>10. ASSUME UNCHANGED <<session, spans, open, runs, overlap>>, handler' \in [Stream -> Handler] PROVE StoreOK'
  BY <1>1, <1>10 DEF StoreOK, Stored
<1>11. ASSUME NEW st \in Stream, ListOpenSpans(st) PROVE StoreOK'
  <2>1. handler[st].final \in FinalStatus /\ OpenInvocations \in SUBSET Invocation
    BY <1>2, <1>11, HandlerCases DEF ListOpenSpans, OpenInvocations
  <2>2. PICK h \in Handler : handler' = [handler EXCEPT ![st] = h]
    BY <1>11, <2>1, HandlerStates DEF ListOpenSpans
  <2> QED
    BY <1>1, <1>10, <1>11, <2>2, HandlerChange DEF ListOpenSpans
<1>12. ASSUME NEW st \in Stream, RefreshSpan(st) PROVE StoreOK'
  <2>1. /\ handler[st].final \in FinalStatus /\ handler[st].listed \in SUBSET Invocation
        /\ handler[st].left \in SUBSET Invocation
    BY <1>2, <1>12, HandlerCases DEF RefreshSpan
  <2>2. PICK h \in Handler : handler' = [handler EXCEPT ![st] = h]
    BY <1>12, <2>1, HandlerStates DEF RefreshSpan
  <2> QED
    BY <1>1, <1>10, <1>12, <2>2, HandlerChange DEF RefreshSpan
<1>13. ASSUME NEW st \in Stream, NEW s \in Span, CloseSpan(st, s) PROVE StoreOK'
  <2>1. handler[st] \in Handler /\ handler[st].op = "close" /\ s \in handler[st].left
    BY <1>2, <1>13 DEF CloseSpan
  <2>2. s \in Invocation /\ spans[s] # Absent
    BY <1>1, <2>1, HandlerCases DEF HandlersOK, HandlerOK, Closing
  <2>3. handler' \in [Stream -> Handler]
    BY <1>1, <1>13, <2>1, <2>2, HandlerChange, HandlerStates DEF CloseSpan
  <2>4. PICK status \in SpanStatus : spans' = EndRow(s, status)
    BY <1>13 DEF CloseSpan, SpanStatus
  <2> QED
    BY <1>5, <1>13, <2>2, <2>3, <2>4 DEF CloseSpan
<1> QED
  BY <1>3, <1>4, <1>6, <1>7, <1>8, <1>9, <1>11, <1>12, <1>13 DEF Ingest, Resume
-----------------------------------------------------------------------------
(* What the handlers know of the rows they have listed or written.         *)
RowsGrow ==
  \A s \in Span : spans[s] # Absent =>
    spans'[s] # Absent /\ (spans[s].ended => spans'[s].ended)

LEMMA RowChanged ==
  ASSUME StoreOK, NEW s \in Span, NEW row \in Row, spans' = [spans EXCEPT ![s] = row],
         spans[s] # Absent => (spans[s].ended => row.ended)
  PROVE  RowsGrow
<1>1. spans'[s] = row /\ row # Absent /\ \A t \in Span : t # s => spans'[t] = spans[t]
  BY NotAbsent DEF StoreOK
<1> QED
  BY <1>1 DEF RowsGrow

LEMMA RowEnded ==
  ASSUME StoreOK, NEW s \in Span, spans[s] # Absent, NEW status \in SpanStatus, spans' = EndRow(s, status)
  PROVE  /\ RowsGrow /\ spans'[s] # Absent /\ spans'[s].ended
         /\ \A t \in Span : spans'[t].attrs = spans[t].attrs
<1>1. spans[s] \in Row /\ spans \in [Span -> Rows]
  BY DEF StoreOK, Rows
<1>2. PICK row : row = [spans[s] EXCEPT !.status = status, !.ended = TRUE]
  OBVIOUS
<1>3. row \in Row /\ row.attrs = spans[s].attrs /\ row.ended
  BY <1>1, <1>2 DEF Row
<1>4. spans' = [spans EXCEPT ![s] = row]
  BY <1>2 DEF EndRow
<1> QED
  BY <1>1, <1>3, <1>4, RowChanged, NotAbsent

LEMMA HandlerKept ==
  ASSUME handler \in [Stream -> Handler], RowsGrow, NEW st \in Stream, HandlerOK(st), handler'[st] = handler[st],
         handler[st].op = "attributes" =>
           LET s == handler[st].span IN s \notin open' /\ spans'[s].attrs = spans[s].attrs
  PROVE  HandlerOK(st)'
<1>1. handler[st] \in Handler
  OBVIOUS
<1>2. PICK h \in Handler : h = handler[st]
  BY <1>1
<1>3. /\ h.op \in {"attributes", "refresh"} => h.span \in Span
      /\ h.op \in {"close", "refresh"} => h.listed \subseteq Span
  BY HandlerCases, KindAssumption
<1>4. h.op = "attributes" => LET s == h.span IN Owner[s] = st /\ s \notin open' /\ spans'[s].attrs < MaxUpdates
  BY <1>2 DEF HandlerOK
<1>5. h.op \in {"attributes", "refresh"} => spans'[h.span] # Absent /\ spans'[h.span].ended
  BY <1>2, <1>3 DEF HandlerOK, RowsGrow, Pending
<1>6. h.op \in {"close", "refresh"} =>
        h.left \subseteq h.listed /\ \A s \in h.listed : spans'[s] # Absent /\ (s \notin h.left => spans'[s].ended)
  BY <1>2, <1>3 DEF HandlerOK, RowsGrow, Closing
<1> QED
  BY <1>2, <1>4, <1>5, <1>6 DEF HandlerOK, Pending, Closing

LEMMA FinalizerKept ==
  ASSUME StoreOK, OneFinalizer, UNCHANGED <<session, overlap>>, NEW st \in Stream, NEW h \in Handler,
         handler' = [handler EXCEPT ![st] = h],
         h.op \in {"list", "close", "refresh"} => IsFinalizing(st) /\ h.final = handler[st].final
  PROVE  OneFinalizer'
<1>1. handler'[st] = h /\ \A other \in Stream : other # st => handler'[other] = handler[other]
  BY DEF StoreOK
<1>2. \A other \in Stream : IsFinalizing(other)' => IsFinalizing(other) /\ handler'[other].final = handler[other].final
  BY <1>1 DEF IsFinalizing
<1> QED
  BY <1>2 DEF OneFinalizer

LEMMA HandlersKept ==
  ASSUME StoreOK, HandlersOK, RowsGrow, NEW st \in Stream, NEW h \in Handler,
         handler' = [handler EXCEPT ![st] = h], HandlerOK(st)', open' \subseteq open,
         \A other \in Stream : other # st /\ handler[other].op = "attributes" =>
           spans'[handler[other].span].attrs = spans[handler[other].span].attrs
  PROVE  HandlersOK'
<1>1. handler \in [Stream -> Handler] /\ \A other \in Stream : other # st => handler'[other] = handler[other]
  BY DEF StoreOK
<1>2. ASSUME NEW other \in Stream, other # st
      PROVE  HandlerOK(other)'
  <2>1. handler[other].op = "attributes" => handler[other].span \notin open'
    BY DEF HandlersOK, HandlerOK
  <2> QED
    BY <1>1, <1>2, <2>1, HandlerKept DEF HandlersOK
<1> QED
  BY <1>2 DEF HandlersOK

LEMMA IngestHandlers ==
  ASSUME IInv, Ingest
  PROVE  HandlersOK' /\ OneFinalizer' /\ RowsGrow
<1>1. StoreOK /\ HandlersOK /\ OneFinalizer
  BY TypeParts DEF IInv
<1>2. /\ handler \in [Stream -> Handler] /\ spans \in [Span -> Rows]
      /\ \A s \in open : s \in Span /\ spans[s] \in Row
      /\ \A s \in Span : spans[s] # Absent => spans[s] \in Row
  BY <1>1 DEF StoreOK, Rows, Stored
<1> DEFINE Post == HandlersOK' /\ OneFinalizer' /\ RowsGrow
<1>3. ASSUME UNCHANGED <<session, handler, overlap>>, RowsGrow,
             \A st \in Stream : handler[st].op = "attributes" =>
               LET s == handler[st].span IN s \notin open' /\ spans'[s].attrs = spans[s].attrs
      PROVE  Post
  <2>1. OneFinalizer'
    BY <1>1, <1>3 DEF OneFinalizer, IsFinalizing
  <2>2. \A st \in Stream : HandlerOK(st)'
    BY <1>1, <1>2, <1>3, HandlerKept DEF HandlersOK
  <2> QED
    BY <1>3, <2>1, <2>2 DEF HandlersOK
<1>4. ASSUME NEW st \in Stream, handler[st].op = "attributes"
      PROVE  /\ handler[st].span \in Span /\ Owner[handler[st].span] = st
             /\ spans[handler[st].span] # Absent /\ handler[st].span \notin open
             /\ spans[handler[st].span].ended /\ spans[handler[st].span].attrs < MaxUpdates
  <2>1. handler[st].span \in Span
    BY <1>2, <1>4, HandlerCases
  <2> QED
    BY <1>1, <1>4, <2>1 DEF HandlersOK, HandlerOK, Pending
<1>5. ASSUME NEW s \in Span, SpanStart(s) PROVE Post
  <2>1. Started \in Row /\ spans[s] = Absent /\ spans' = [spans EXCEPT ![s] = Started] /\ open' = open \cup {s}
    BY <1>5, BoundAssumption DEF SpanStart, Started, Row, SpanStatus
  <2>2. RowsGrow
    BY <1>1, <2>1, RowChanged
  <2>3. UNCHANGED <<session, handler, overlap>>
    BY <1>5 DEF SpanStart
  <2> QED
    BY <1>2, <1>3, <1>4, <2>1, <2>2, <2>3
<1>6. ASSUME NEW s \in Span, SpanUpdate(s) PROVE Post
  <2>1. PICK row \in Row : row = [spans[s] EXCEPT !.attrs = @ + 1]
    BY <1>2, <1>6, RowNext DEF SpanUpdate
  <2>2. spans' = [spans EXCEPT ![s] = row] /\ s \in open /\ UNCHANGED <<session, handler, overlap, open>>
    BY <1>6, <2>1 DEF SpanUpdate
  <2>3. row.ended = spans[s].ended
    BY <1>2, <2>1, <2>2 DEF Row
  <2>4. RowsGrow
    BY <1>1, <2>2, <2>3, RowChanged
  <2> QED
    BY <1>2, <1>3, <1>4, <2>2, <2>4
<1>7. ASSUME NEW s \in Span, NEW status \in EndStatus, SpanEnd(s, status) PROVE Post
  <2>1. /\ spans[s] # Absent /\ status \in SpanStatus /\ spans' = EndRow(s, status)
        /\ open' \subseteq open /\ UNCHANGED <<session, handler, overlap>>
    BY <1>2, <1>7, EndStatuses, NotAbsent DEF SpanEnd
  <2>2. RowsGrow /\ \A t \in Span : spans'[t].attrs = spans[t].attrs
    BY <1>1, <2>1, RowEnded
  <2> QED
    BY <1>3, <1>4, <2>1, <2>2
<1>8. ASSUME NEW s \in Span, NEW status \in EndStatus, SpanEndWithAttributes(s, status) PROVE Post
  <2>1. /\ spans[s] # Absent /\ status \in SpanStatus /\ spans' = EndRow(s, status) /\ spans[s].attrs < MaxUpdates
        /\ open' = open \ {s} /\ UNCHANGED <<session, overlap>>
    BY <1>2, <1>8, EndStatuses, NotAbsent DEF SpanEndWithAttributes
  <2>2. RowsGrow /\ spans'[s] # Absent /\ spans'[s].ended /\ \A t \in Span : spans'[t].attrs = spans[t].attrs
    BY <1>1, <2>1, RowEnded
  <2>3. PICK st \in Stream : st = Owner[s]
    BY OwnerAssumption
  <2>4. PICK h \in Handler : h = Attributes(s)
    BY HandlerStates
  <2>5. handler' = [handler EXCEPT ![st] = h] /\ h.op = "attributes" /\ h.span = s
    BY <1>8, <2>3, <2>4 DEF SpanEndWithAttributes, Attributes
  <2>6. handler'[st] = h
    BY <1>2, <2>5
  <2>7. HandlerOK(st)'
    BY <2>1, <2>2, <2>3, <2>5, <2>6 DEF HandlerOK, Pending, Closing
  <2>8. HandlersOK'
    BY <1>1, <1>4, <2>1, <2>2, <2>5, <2>7, HandlersKept
  <2>9. OneFinalizer'
    BY <1>1, <2>1, <2>5, FinalizerKept
  <2> QED
    BY <2>2, <2>8, <2>9
<1>9. ASSUME UNCHANGED spans PROVE RowsGrow
  BY <1>9 DEF RowsGrow
<1>10. ASSUME NEW st \in Stream, NEW final \in FinalStatus, RunEnds(st, final) PROVE Post
  <2>1. PICK h \in Handler : h = Finalize(final)
    BY HandlerStates
  <2>2. /\ handler' = [handler EXCEPT ![st] = h] /\ h.op = "list" /\ h.final = final
        /\ session'.status = final /\ UNCHANGED <<spans, open>>
        /\ ~overlap' => ~overlap /\ \A other \in Stream : ~IsFinalizing(other)
    BY <1>10, <2>1 DEF RunEnds, Finalize
  <2>3. handler'[st] = h /\ \A other \in Stream : other # st => handler'[other] = handler[other]
    BY <1>2, <2>2
  <2>4. HandlerOK(st)'
    BY <2>2, <2>3 DEF HandlerOK, Pending, Closing
  <2>5. RowsGrow
    BY <1>9, <2>2
  <2>6. HandlersOK'
    BY <1>1, <2>2, <2>4, <2>5, HandlersKept
  <2>7. \A other \in Stream : ~overlap' /\ IsFinalizing(other)' => other = st
    BY <2>2, <2>3 DEF IsFinalizing
  <2>8. OneFinalizer'
    BY <2>2, <2>3, <2>7 DEF OneFinalizer
  <2> QED
    BY <2>5, <2>6, <2>8
<1>11. ASSUME NEW st \in Stream, SpanEndAttributes(st) PROVE Post
  <2>1. handler[st].op = "attributes" /\ open' = open /\ UNCHANGED <<session, overlap>>
    BY <1>11 DEF SpanEndAttributes
  <2>2. PICK s \in Span : s = handler[st].span
    BY <1>4, <2>1
  <2>3. spans[s] \in Row /\ spans[s].attrs < MaxUpdates
    BY <1>2, <1>4, <2>1, <2>2
  <2>4. PICK row \in Row : row = [spans[s] EXCEPT !.attrs = @ + 1]
    BY <2>3, RowNext
  <2>5. spans' = [spans EXCEPT ![s] = row]
    BY <1>11, <2>2, <2>4 DEF SpanEndAttributes
  <2>6. row.ended = spans[s].ended
    BY <2>3, <2>4 DEF Row
  <2>7. RowsGrow
    BY <1>1, <2>5, <2>6, RowChanged
  <2>8. PICK h \in Handler : h = Idle
    BY HandlerStates
  <2>9. handler' = [handler EXCEPT ![st] = h] /\ h.op = "idle"
    BY <1>11, <2>8 DEF SpanEndAttributes, Idle
  <2>10. HandlerOK(st)'
    BY <1>2, <2>9 DEF HandlerOK, Pending, Closing
  <2>11. HandlersOK'
    <3>1. ASSUME NEW other \in Stream, other # st, handler[other].op = "attributes"
          PROVE  spans'[handler[other].span].attrs = spans[handler[other].span].attrs
      <4>1. handler[other].span # s /\ handler[other].span \in Span
        BY <1>4, <2>1, <2>2, <3>1
      <4> QED
        BY <1>2, <2>5, <4>1
    <3> QED
      BY <1>1, <2>1, <2>7, <2>9, <2>10, <3>1, HandlersKept
  <2>12. OneFinalizer'
    BY <1>1, <2>1, <2>9, FinalizerKept
  <2> QED
    BY <2>7, <2>11, <2>12
<1>12. ASSUME NEW st \in Stream, ListOpenSpans(st) PROVE Post
  <2>1. /\ handler[st].op = "list" /\ UNCHANGED <<session, spans, open, overlap>>
        /\ OpenInvocations \in SUBSET Invocation /\ OpenInvocations \subseteq Span
        /\ handler[st].final \in FinalStatus
    BY <1>2, <1>12, HandlerCases, KindAssumption DEF ListOpenSpans, OpenInvocations
  <2>2. PICK h \in Handler : /\ handler' = [handler EXCEPT ![st] = h]
                             /\ h = Idle \/ h = Close(handler[st].final, OpenInvocations, OpenInvocations)
    BY <1>12, <2>1, HandlerStates DEF ListOpenSpans
  <2>3. handler'[st] = h
    BY <1>2, <2>2
  <2>4. h.op \in {"list", "close", "refresh"} => IsFinalizing(st) /\ h.final = handler[st].final
    BY <2>1, <2>2 DEF IsFinalizing, Close, Idle
  <2>5. HandlerOK(st)'
    BY <2>1, <2>2, <2>3 DEF HandlerOK, Pending, Closing, Close, Idle, OpenInvocations
  <2>6. RowsGrow
    BY <1>9, <2>1
  <2> QED
    BY <1>1, <2>1, <2>2, <2>4, <2>5, <2>6, HandlersKept, FinalizerKept
<1>13. ASSUME NEW st \in Stream, NEW s \in Span, CloseSpan(st, s) PROVE Post
  <2>1. /\ handler[st].op = "close" /\ s \in handler[st].left /\ handler[st] \in Handler
        /\ UNCHANGED <<session, open, overlap>>
    BY <1>2, <1>13 DEF CloseSpan
  <2>2. /\ s \in Invocation /\ spans[s] # Absent /\ handler[st].left \subseteq handler[st].listed
        /\ handler[st].listed \subseteq Span
        /\ \A t \in handler[st].listed : spans[t] # Absent /\ (t \notin handler[st].left => spans[t].ended)
    BY <1>1, <2>1, HandlerCases, KindAssumption DEF HandlersOK, HandlerOK, Closing
  <2>3. PICK status \in SpanStatus : spans' = EndRow(s, status)
    BY <1>13 DEF CloseSpan, SpanStatus
  <2>4. RowsGrow /\ spans'[s] # Absent /\ spans'[s].ended /\ \A t \in Span : spans'[t].attrs = spans[t].attrs
    BY <1>1, <2>2, <2>3, RowEnded
  <2>5. PICK h \in Handler : h = Refresh(handler[st], s)
    BY <2>1, <2>2, HandlerStates
  <2>6. /\ handler' = [handler EXCEPT ![st] = h] /\ h.op = "refresh" /\ h.final = handler[st].final
        /\ h.listed = handler[st].listed /\ h.left = handler[st].left \ {s} /\ h.span = s
    BY <1>13, <2>5 DEF CloseSpan, Refresh
  <2>7. handler'[st] = h
    BY <1>2, <2>6
  <2>8. \A t \in h.listed : spans'[t] # Absent /\ (t \notin h.left => spans'[t].ended)
    BY <2>2, <2>4, <2>6 DEF RowsGrow
  <2>9. HandlerOK(st)'
    BY <2>2, <2>4, <2>6, <2>7, <2>8 DEF HandlerOK, Pending, Closing
  <2>10. HandlersOK'
    BY <1>1, <1>4, <2>1, <2>4, <2>6, <2>9, HandlersKept
  <2>11. OneFinalizer'
    BY <1>1, <2>1, <2>6, FinalizerKept DEF IsFinalizing
  <2> QED
    BY <2>4, <2>10, <2>11
<1>14. ASSUME NEW st \in Stream, RefreshSpan(st) PROVE Post
  <2>1. /\ handler[st].op = "refresh" /\ handler[st] \in Handler
        /\ UNCHANGED <<session, spans, open, overlap>>
    BY <1>2, <1>14 DEF RefreshSpan
  <2>2. /\ handler[st].left \subseteq handler[st].listed
        /\ \A t \in handler[st].listed : spans[t] # Absent /\ (t \notin handler[st].left => spans[t].ended)
    BY <1>1, <2>1 DEF HandlersOK, HandlerOK, Closing
  <2>3. PICK h \in Handler : /\ handler' = [handler EXCEPT ![st] = h]
                             /\ h = Idle \/ h = Close(handler[st].final, handler[st].listed, handler[st].left)
    BY <1>14, <2>1, HandlerCases, HandlerStates DEF RefreshSpan
  <2>4. handler'[st] = h
    BY <1>2, <2>3
  <2>5. h.op \in {"list", "close", "refresh"} => IsFinalizing(st) /\ h.final = handler[st].final
    BY <2>1, <2>3 DEF IsFinalizing, Close, Idle
  <2>6. HandlerOK(st)'
    BY <2>1, <2>2, <2>3, <2>4 DEF HandlerOK, Pending, Closing, Close, Idle
  <2>7. RowsGrow
    BY <1>9, <2>1
  <2> QED
    BY <1>1, <2>1, <2>3, <2>5, <2>6, <2>7, HandlersKept, FinalizerKept
<1> QED
  BY <1>5, <1>6, <1>7, <1>8, <1>10, <1>11, <1>12, <1>13, <1>14 DEF Ingest, Resume
-----------------------------------------------------------------------------
(* The steps of a watcher.                                                 *)
LEMMA RowsRead ==
  ASSUME UNCHANGED spans, Unpublished' = Unpublished, NEW r, NEW s
  PROVE  /\ \A x : InBurst(x, r, s)' <=> InBurst(x, r, s)
         /\ \A recent : InTail(r, s, recent)' <=> InTail(r, s, recent)
  BY DEF InBurst, InTail, Between, Fresh

LEMMA SpansStay ==
  ASSUME UNCHANGED spans, Unpublished' = Unpublished, NEW w, pc'[w] = pc[w], windowed'[w] = windowed[w] \/ pc[w] = "burst",
         view'[w] = view[w], queue'[w] = queue[w]
  PROVE  SpansOf(w)' <=> SpansOf(w)
<1>1. CaughtUp(w)' = CaughtUp(w)
  BY DEF CaughtUp
<1>2. PICK q, c, p, b : q = queue[w] /\ c = CaughtUp(w) /\ p = pc[w] /\ b = windowed[w]
  OBVIOUS
<1>3. SpansOf(w) <=> /\ p = "burst" => \A v \in View, s \in Span : InBurst(v.spans[s], Final(v, q).spans[s], s)
                     /\ p = "tail" => \A s \in Span : InTail(c.spans[s], s, b)
  BY <1>2 DEF SpansOf
<1>4. SpansOf(w)' <=> /\ p = "burst" => \A v \in View, s \in Span : InBurst(v.spans[s], Final(v, q).spans[s], s)'
                      /\ p = "tail" => \A s \in Span : InTail(c.spans[s], s, b)'
  BY <1>1, <1>2 DEF SpansOf
<1> QED
  BY <1>3, <1>4, RowsRead

LEMMA OtherWatchers ==
  ASSUME UNCHANGED store, NEW w \in Watcher, SpansFollow, StatusFollows,
         \A u \in Watcher : u # w => /\ pc'[u] = pc[u] /\ windowed'[u] = windowed[u] /\ view'[u] = view[u]
                                     /\ queue'[u] = queue[u] /\ dropped'[u] = dropped[u],
         w \in Watching' /\ dropped'[w] = 0 => SpansOf(w)' /\ (~overlap' /\ Calm' => StatusOf(w)')
  PROVE  SpansFollow' /\ StatusFollows'
<1>1. Unpublished' = Unpublished /\ (Calm' <=> Calm) /\ overlap' = overlap /\ spans' = spans /\ session' = session
  BY SameHandlers DEF store
<1>2. ASSUME NEW u \in Watching', u # w, dropped'[u] = 0
      PROVE  /\ SpansOf(u)' /\ (~overlap' /\ Calm' => StatusOf(u)')
  <2>1. /\ u \in Watching /\ dropped[u] = 0 /\ pc'[u] = pc[u] /\ windowed'[u] = windowed[u]
        /\ view'[u] = view[u] /\ queue'[u] = queue[u] /\ u \in Watcher
    BY <1>2 DEF Watching
  <2>2. SpansOf(u) /\ (~overlap /\ Calm => StatusOf(u))
    BY <2>1 DEF SpansFollow, StatusFollows
  <2>3. SpansOf(u)'
    BY <1>1, <2>1, <2>2, SpansStay
  <2>4. Candidates(u)' = Candidates(u)
    BY <2>1 DEF Candidates
  <2>5. ~overlap' /\ Calm' => StatusOf(u)'
    BY <1>1, <2>1, <2>2, <2>4 DEF StatusOf
  <2> QED
    BY <2>3, <2>5
<1> QED
  BY <1>2 DEF SpansFollow, StatusFollows

LEMMA StoreStays ==
  ASSUME StoreOK, HandlersOK, OneFinalizer, UNCHANGED store
  PROVE  StoreOK' /\ HandlersOK' /\ OneFinalizer'
<1>1. StoreOK'
  BY DEF store, StoreOK, Stored
<1>2. HandlersOK'
  BY DEF store, HandlersOK, HandlerOK, Pending, Closing
<1>3. OneFinalizer'
  BY DEF store, OneFinalizer, IsFinalizing
<1> QED
  BY <1>1, <1>2, <1>3

LEMMA OpenKeeps ==
  ASSUME IInv, NEW w \in Watcher, Open(w)
  PROVE  IInv'
<1>1. /\ WatchOK /\ QueuesOK /\ BusTypeOK /\ StoreOK /\ UNCHANGED store
      /\ pc[w] = "new" /\ w \notin Watching
  BY TypeParts DEF IInv, Open, Watching
<1>2. /\ pc' = [pc EXCEPT ![w] = "burst"] /\ windowed' = [windowed EXCEPT ![w] = session.status = "LIVE"]
      /\ view' = [view EXCEPT ![w].session = session.status]
      /\ registered' = registered \cup {w} /\ queue' = queue /\ dropped' = dropped
  BY DEF Open, Subscribe
<1>3. view'[w] \in View /\ view'[w].session = session.status
  BY <1>1, <1>2 DEF WatchOK, StoreOK, View
<1>4. WatchOK'
  BY <1>1, <1>2, <1>3 DEF WatchOK
<1>5. Watching' = Watching \cup {w}
  BY <1>1, <1>2 DEF Watching, WatchOK
<1>6. QueuesOK' /\ BusTypeOK'
  BY <1>1, <1>2, <1>5 DEF QueuesOK, BusTypeOK
<1>7. queue'[w] = <<>> /\ pc'[w] = "burst"
  BY <1>1, <1>2 DEF QueuesOK, WatchOK
<1>8. SpansOf(w)'
  BY <1>7, ReplayEmpty DEF SpansOf, InBurst, Between
<1>9. StatusOf(w)'
  BY <1>1, <1>3, <1>7, ReplayEmpty DEF StatusOf, Candidates, store
<1>10. SpansFollow' /\ StatusFollows'
  BY <1>1, <1>2, <1>8, <1>9, OtherWatchers, TypeParts DEF IInv, WatchOK
<1> QED
  BY <1>1, <1>4, <1>6, <1>10, StoreStays, TypeParts DEF IInv

LEMMA LeaveKeeps ==
  ASSUME IInv, NEW w \in Watcher, Leave(w)
  PROVE  IInv'
<1>1. WatchOK /\ QueuesOK /\ BusTypeOK /\ StoreOK /\ UNCHANGED <<store, windowed>>
  BY TypeParts DEF IInv, Leave
<1>2. /\ pc' = [pc EXCEPT ![w] = "left"] /\ view' = [view EXCEPT ![w] = Blank]
      /\ registered' = registered \ {w} /\ queue' = [queue EXCEPT ![w] = <<>>] /\ dropped' = dropped
  BY DEF Leave, Unsubscribe
<1>3. Blank \in View
  BY DEF Blank, View, Rows
<1>4. WatchOK'
  BY <1>1, <1>2, <1>3 DEF WatchOK
<1>5. Watching' = Watching \ {w}
  BY <1>1, <1>2 DEF Watching, WatchOK
<1>6. queue' \in [Watcher -> Seq(Delta)] /\ queue'[w] = <<>> /\ Len(<<>>) = 0 /\ \A u \in Watcher : u # w => queue'[u] = queue[u]
  <2>1. <<>> \in Seq(Delta)
    OBVIOUS
  <2> QED
    BY <1>1, <1>2, <2>1 DEF QueuesOK
<1>7. QueuesOK' /\ BusTypeOK'
  <2>1. QueuesOK'
    BY <1>1, <1>2, <1>5, <1>6 DEF QueuesOK
  <2>2. Len(queue'[w]) <= Maxsize
    BY <1>6, MaxsizeAssumption
  <2> QED
    BY <1>1, <1>2, <1>6, <2>1, <2>2 DEF BusTypeOK
<1>8. SpansFollow' /\ StatusFollows'
  BY <1>1, <1>2, <1>5, <1>6, OtherWatchers, TypeParts DEF IInv, WatchOK
<1> QED
  BY <1>1, <1>4, <1>7, <1>8, StoreStays, TypeParts DEF IInv

LEMMA FollowKeeps ==
  ASSUME IInv, NEW w \in Watcher, Follow(w)
  PROVE  IInv'
<1>1. /\ WatchOK /\ QueuesOK /\ BusTypeOK /\ StoreOK /\ SpansFollow /\ StatusFollows
      /\ UNCHANGED <<store, pc, windowed, registered, dropped>>
      /\ pc[w] = "tail" /\ queue[w] # <<>>
  BY TypeParts DEF IInv, Follow
<1>2. view' = [view EXCEPT ![w] = Show(@, Head(queue[w]))] /\ queue' = [queue EXCEPT ![w] = Tail(@)]
  BY DEF Follow
<1>3. PICK q \in Seq(Delta) : q = queue[w]
  BY <1>1 DEF QueuesOK
<1>4. PICK v \in View : v = view[w]
  BY <1>1 DEF WatchOK
<1>5. Head(q) \in Delta /\ Tail(q) \in Seq(Delta) /\ Len(Tail(q)) <= Len(q) /\ Len(q) \in Nat
  BY <1>1, <1>3, HeadTailProperties, LenProperties
<1>6. view'[w] = Show(v, Head(q)) /\ Show(v, Head(q)) \in View /\ queue'[w] = Tail(q)
  BY <1>1, <1>2, <1>3, <1>4, <1>5, Shown DEF WatchOK, QueuesOK
<1>7. WatchOK'
  BY <1>1, <1>2, <1>6 DEF WatchOK
<1>8. Watching' = Watching /\ w \in Watching
  BY <1>1 DEF Watching
<1>9. /\ queue' \in [Watcher -> Seq(Delta)] /\ \A u \in Watcher : u # w => queue'[u] = queue[u]
  BY <1>1, <1>2, <1>3, <1>5 DEF QueuesOK
<1>10. Len(queue'[w]) <= Maxsize
  <2>1. Len(q) <= Maxsize
    BY <1>1, <1>3 DEF BusTypeOK
  <2> QED
    BY <1>5, <1>6, <2>1, MaxsizeAssumption
<1>11. QueuesOK'
  BY <1>1, <1>8, <1>9 DEF QueuesOK
<1>12. BusTypeOK'
  BY <1>1, <1>9, <1>10 DEF BusTypeOK
<1>13. CaughtUp(w)' = CaughtUp(w)
  BY <1>1, <1>3, <1>4, <1>6, ReplayTail DEF CaughtUp, Final
<1>14. Unpublished' = Unpublished /\ (Calm' <=> Calm) /\ overlap' = overlap /\ spans' = spans /\ session' = session
  BY <1>1, SameHandlers DEF store
<1>15. ASSUME dropped'[w] = 0 PROVE SpansOf(w)' /\ (~overlap' /\ Calm' => StatusOf(w)')
  <2>1. SpansOf(w) /\ (~overlap /\ Calm => StatusOf(w))
    BY <1>1, <1>8, <1>15 DEF SpansFollow, StatusFollows
  <2>2. SpansOf(w)'
    BY <1>1, <1>13, <1>14, <2>1 DEF SpansOf, InTail, Fresh
  <2>3. StatusOf(w) <=> CaughtUp(w).session = session.status
    BY <1>1 DEF StatusOf, Candidates, CaughtUp, Final
  <2>4. StatusOf(w)' <=> CaughtUp(w)'.session = session'.status
    BY <1>1 DEF StatusOf, Candidates, CaughtUp, Final
  <2> QED
    BY <1>13, <1>14, <2>1, <2>2, <2>3, <2>4
<1>16. SpansFollow' /\ StatusFollows'
  BY <1>1, <1>2, <1>9, <1>15, OtherWatchers DEF WatchOK
<1> QED
  BY <1>1, <1>7, <1>11, <1>12, <1>16, StoreStays, TypeParts DEF IInv

LEMMA ReadKeeps ==
  ASSUME IInv, NEW w \in Watcher, ReadSpans(w)
  PROVE  IInv'
<1>1. /\ WatchOK /\ QueuesOK /\ BusTypeOK /\ StoreOK /\ SpansFollow /\ StatusFollows
      /\ UNCHANGED <<store, registered, queue, dropped>> /\ pc[w] = "burst" /\ w \in Watching
  BY TypeParts DEF IInv, ReadSpans, bus, Watching
<1>2. Unpublished' = Unpublished /\ (Calm' <=> Calm) /\ overlap' = overlap /\ spans' = spans /\ session' = session
  BY <1>1, SameHandlers DEF store
<1> DEFINE sent == IF windowed[w] THEN InWindow ELSE Stored
<1>3. CASE windowed[w] /\ sent = {}
  <2>1. windowed' = [windowed EXCEPT ![w] = FALSE] /\ UNCHANGED <<pc, view>>
    BY <1>3 DEF ReadSpans
  <2>2. WatchOK' /\ QueuesOK' /\ BusTypeOK'
    BY <1>1, <2>1 DEF WatchOK, QueuesOK, BusTypeOK, Watching
  <2>3. ASSUME dropped'[w] = 0 PROVE SpansOf(w)' /\ (~overlap' /\ Calm' => StatusOf(w)')
    <3>1. SpansOf(w) /\ (~overlap /\ Calm => StatusOf(w))
      BY <1>1, <2>3 DEF SpansFollow, StatusFollows
    <3>2. SpansOf(w)'
      BY <1>1, <1>2, <2>1, <3>1, SpansStay
    <3>3. Candidates(w)' = Candidates(w)
      BY <2>1 DEF Candidates
    <3> QED
      BY <1>1, <1>2, <3>1, <3>2, <3>3 DEF StatusOf
  <2>4. SpansFollow' /\ StatusFollows'
    BY <1>1, <2>1, <2>3, OtherWatchers DEF WatchOK
  <2> QED
    BY <1>1, <2>2, <2>4, StoreStays, TypeParts DEF IInv
<1>4. CASE ~(windowed[w] /\ sent = {})
  <2>1. /\ pc' = [pc EXCEPT ![w] = "tail"] /\ view' = [view EXCEPT ![w].spans = Showing(sent)]
        /\ UNCHANGED windowed
    BY <1>4 DEF ReadSpans
  <2>2. /\ Showing(sent) \in [Span -> Rows]
        /\ \A s \in Span : Showing(sent)[s] = IF s \in sent THEN spans[s] ELSE Absent
    BY <1>1 DEF Showing, StoreOK, Rows
  <2>3. PICK f \in [Span -> Rows] : f = Showing(sent)
    BY <2>2
  <2>4. \A s \in Span : f[s] = IF s \in sent THEN spans[s] ELSE Absent
    BY <2>2, <2>3
  <2>5. view' = [view EXCEPT ![w].spans = f]
    BY <2>1, <2>3
  <2>6. \A s \in Span : /\ s \in sent => spans[s] # Absent
                        /\ s \notin sent => spans[s] = Absent \/ (s \in Early /\ windowed[w])
    BY DEF InWindow, Stored
  <2> HIDE DEF sent
  <2>7. PICK v \in View : v = view'[w] /\ v.spans = f /\ v.session = view[w].session
    <3>1. view'[w] = [view[w] EXCEPT !.spans = f]
      BY <1>1, <2>5 DEF WatchOK
    <3>2. view[w] \in View
      BY <1>1 DEF WatchOK
    <3>3. [view[w] EXCEPT !.spans = f] \in View
      BY <3>2 DEF View
    <3> QED
      BY <3>1, <3>2, <3>3 DEF View
  <2>8. WatchOK'
    BY <1>1, <2>1, <2>7 DEF WatchOK
  <2>9. Watching' = Watching /\ pc'[w] = "tail" /\ windowed'[w] = windowed[w]
    BY <1>1, <2>1 DEF Watching, WatchOK
  <2>10. QueuesOK' /\ BusTypeOK'
    BY <1>1, <2>9 DEF QueuesOK, BusTypeOK
  <2>11. CaughtUp(w)' = Final(v, queue[w])
    BY <1>1, <2>7 DEF CaughtUp, Final
  <2>12. ASSUME dropped'[w] = 0 PROVE SpansOf(w)' /\ (~overlap' /\ Calm' => StatusOf(w)')
    <3>1. SpansOf(w) /\ (~overlap /\ Calm => StatusOf(w))
      BY <1>1, <2>12 DEF SpansFollow, StatusFollows
    <3>2. ASSUME NEW s \in Span
          PROVE  InTail(Final(v, queue[w]).spans[s], s, windowed[w])
      <4>1. PICK r : r = Final(v, queue[w]).spans[s]
        OBVIOUS
      <4>2. InBurst(f[s], r, s)
        BY <1>1, <2>7, <3>1, <4>1 DEF SpansOf
      <4>3. CASE s \in sent
        BY <2>4, <2>6, <4>1, <4>2, <4>3 DEF InBurst, InTail, Between, Fresh
      <4>4. CASE s \notin sent
        BY <2>4, <2>6, <4>1, <4>2, <4>4 DEF InBurst, InTail
      <4> QED
        BY <4>3, <4>4
    <3>3. SpansOf(w)'
      BY <1>2, <2>9, <2>11, <3>2 DEF SpansOf, InTail, Fresh
    <3>4. ~overlap /\ Calm => Final(v, queue[w]).session = session.status
      BY <1>1, <2>7, <3>1 DEF StatusOf, Candidates
    <3>5. ~overlap' /\ Calm' => StatusOf(w)'
      BY <1>1, <1>2, <2>7, <2>9, <3>4 DEF StatusOf, Candidates
    <3> QED
      BY <3>3, <3>5
  <2>13. SpansFollow' /\ StatusFollows'
    BY <1>1, <2>1, <2>5, <2>12, OtherWatchers DEF WatchOK
  <2> QED
    BY <1>1, <2>8, <2>10, <2>13, StoreStays, TypeParts DEF IInv
<1> QED
  BY <1>3, <1>4
-----------------------------------------------------------------------------
LEMMA InitOK ==
  ASSUME Init
  PROVE  IInv
<1>1. Watching = {}
  BY DEF Init, Watching
<1>2. queue \in [Watcher -> Seq(Delta)] /\ dropped \in [Watcher -> Nat]
  <2>1. <<>> \in Seq(Delta)
    OBVIOUS
  <2> QED
    BY <2>1 DEF Init, BusInit
<1>3. BusTypeOK
  BY MaxsizeAssumption DEF Init, BusInit, BusTypeOK
<1>4. StoreOK
  <2>1. session \in [status : SessionStatus, ended_at : 0 .. MaxRuns] /\ runs \in 0 .. MaxRuns
    BY BoundAssumption DEF Init, SessionStatus
  <2>2. spans \in [Span -> Rows] /\ open \subseteq Stored
    BY DEF Init, Rows
  <2>3. handler \in [Stream -> Handler] /\ overlap \in BOOLEAN
    BY HandlerStates DEF Init
  <2> QED
    BY <2>1, <2>2, <2>3 DEF StoreOK
<1>5. WatchOK
  BY DEF Init, WatchOK, View, Blank, Rows
<1>6. QueuesOK
  BY <1>1, <1>2 DEF Init, BusInit, QueuesOK
<1>7. HandlersOK /\ OneFinalizer
  BY DEF Init, HandlersOK, HandlerOK, Pending, Closing, OneFinalizer, IsFinalizing, Idle
<1> QED
  BY <1>1, <1>3, <1>4, <1>5, <1>6, <1>7, TypeParts DEF IInv, SpansFollow, StatusFollows

LEMMA NextOK ==
  ASSUME IInv, [Next]_vars
  PROVE  IInv'
<1>1. CASE Ingest
  <2>1. PICK f \in [View -> View] : Pushed(f) /\ RowsCarried(f) /\ StatusCarried(f)
    BY <1>1, IngestEffect DEF Effect
  <2>2. UNCHANGED watch
    BY <1>1 DEF Ingest, Resume, SpanStart, SpanUpdate, SpanEnd, SpanEndWithAttributes, RunEnds,
                SpanEndAttributes, ListOpenSpans, CloseSpan, RefreshSpan, watch
  <2>3. TypeOK /\ QueuesOK /\ SpansFollow /\ StatusFollows /\ WatchOK
    BY TypeParts DEF IInv
  <2>4. SpansFollow' /\ StatusFollows'
    BY <2>1, <2>2, <2>3, SpansCarried, StatusCarries
  <2>5. QueuesOK' /\ BusTypeOK'
    BY <2>1 DEF Pushed
  <2>6. WatchOK'
    BY <2>2, <2>3 DEF WatchOK, watch
  <2> QED
    BY <1>1, <2>4, <2>5, <2>6, IngestTyped, IngestHandlers, TypeParts DEF IInv
<1>2. CASE UNCHANGED vars
  <2>1. UNCHANGED store /\ UNCHANGED watch /\ UNCHANGED bus
    BY <1>2 DEF vars
  <2>2. Unpublished' = Unpublished /\ (Calm' <=> Calm)
    BY <2>1, SameHandlers DEF store
  <2>3. StoreOK' /\ HandlersOK' /\ OneFinalizer'
    BY <2>1, StoreStays, TypeParts DEF IInv
  <2>4. WatchOK' /\ QueuesOK' /\ BusTypeOK'
    BY <2>1, TypeParts DEF IInv, WatchOK, QueuesOK, BusTypeOK, watch, bus, Watching
  <2>5. ASSUME NEW w \in Watcher
        PROVE  (SpansOf(w)' <=> SpansOf(w)) /\ (StatusOf(w)' <=> StatusOf(w))
    BY <2>1, <2>2, SpansStay DEF watch, bus, store, StatusOf, Candidates
  <2>6. SpansFollow' /\ StatusFollows'
    BY <2>1, <2>2, <2>5 DEF IInv, SpansFollow, StatusFollows, watch, bus, store, Watching
  <2> QED
    BY <2>3, <2>4, <2>6, TypeParts DEF IInv
<1> QED
  BY <1>1, <1>2, OpenKeeps, LeaveKeeps, FollowKeeps, ReadKeeps DEF Next

LEMMA Catches ==
  ASSUME IInv
  PROVE  CatchesUp
<1>1. ViewCatchesUp
  <2> SUFFICES ASSUME NEW w \in Watcher, pc[w] = "tail", dropped[w] = 0, NEW s \in Span \ Unpublished
               PROVE  \/ CaughtUp(w).spans[s] = spans[s]
                      \/ s \in Early /\ windowed[w] /\ CaughtUp(w).spans[s] = Absent
    BY DEF ViewCatchesUp
  <2>1. InTail(CaughtUp(w).spans[s], s, windowed[w])
    BY DEF IInv, SpansFollow, SpansOf, Watching
  <2>2. PICK r \in Rows : r = CaughtUp(w).spans[s]
    <3>1. view[w] \in View /\ queue[w] \in Seq(Delta)
      BY TypeParts DEF IInv, WatchOK, QueuesOK
    <3>2. Final(view[w], queue[w]) \in View
      BY <3>1, ReplayTyped
    <3> QED
      BY <3>2 DEF CaughtUp, Final, View
  <2>3. CASE r # Absent
    <3>1. spans[s] # Absent /\ r.attrs = spans[s].attrs /\ r.status = spans[s].status /\ r.ended = spans[s].ended
      BY <2>1, <2>2, <2>3 DEF InTail, Fresh
    <3>2. r \in Row /\ spans[s] \in Row
      BY <2>3, <3>1, TypeParts DEF IInv, StoreOK, Rows
    <3>3. r = spans[s]
      BY <3>1, <3>2 DEF Row
    <3> QED
      BY <2>2, <3>3
  <2>4. CASE r = Absent
    BY <2>1, <2>2, <2>4 DEF InTail
  <2> QED
    BY <2>3, <2>4
<1>2. StatusCatchesUp
  <2> SUFFICES ASSUME NEW w \in Watcher, pc[w] \in {"burst", "tail"}, dropped[w] = 0, ~overlap, Calm
               PROVE  CaughtUp(w).session = session.status
    BY DEF StatusCatchesUp, Calm
  <2>1. StatusOf(w)
    BY DEF IInv, StatusFollows, Watching
  <2>2. view[w] \in Candidates(w)
    BY TypeParts DEF IInv, WatchOK, Candidates
  <2> QED
    BY <2>1, <2>2 DEF StatusOf, CaughtUp, Final
<1> QED
  BY <1>1, <1>2 DEF CatchesUp, IInv

(* A browser whose WatchSession has dropped nothing is behind the store by *)
(* exactly what its queue holds, whatever the handlers write and publish   *)
(* between its subscription, its burst's reads and its tail.               *)
THEOREM WatchCatchesUp == Spec => []CatchesUp
<1>1. Spec => []IInv
  BY InitOK, NextOK, PTL DEF Spec
<1> QED
  BY <1>1, Catches, PTL
-----------------------------------------------------------------------------
(* The session's signal comes after the ends of its spans.  Over(r): no    *)
(* running span is shown.  A watcher that still reads its burst may come   *)
(* to show any row that is over; what is published after that keeps it so. *)
Over(r) == r = Absent \/ r.ended
OverViews(w, s) == IF pc[w] = "burst" THEN {v \in View : Over(v.spans[s])} ELSE {view[w]}

EndShown(V, q, s) == \A v \in V : Over(Final(v, q).spans[s])
SignalShown(V, q, k, s) == \A v \in V : Over(Replay(v, q)[k - 1].spans[s])

(* Spans whose end a handler that finalizes the session has published.     *)
Told ==
  {s \in Span : \E st \in Stream :
     /\ Closing(st) /\ s \in handler[st].listed /\ s \notin handler[st].left
     /\ handler[st].op = "refresh" => s # handler[st].span}

EndedRows == {s \in Span : spans[s] # Absent /\ spans[s].ended}

QueueEnds(vs, told, ended, q) ==
  /\ \A s \in told : EndShown(vs[s], q, s)
  /\ \A k \in 1 .. Len(q) : q[k].kind = "session_ended" =>
       \A s \in q[k].closed : s \in ended /\ SignalShown(vs[s], q, k, s)

ViewsFor(w) == [s \in Span |-> OverViews(w, s)]
EndsOf(w) == QueueEnds(ViewsFor(w), Told, EndedRows, queue[w])
EndsFollow == \A w \in Watching : dropped[w] = 0 => EndsOf(w)

LEMMA ToldEnded ==
  ASSUME IInv
  PROVE  Told \subseteq EndedRows
  BY DEF IInv, Told, EndedRows, HandlersOK, HandlerOK

LEMMA OverAppend ==
  ASSUME NEW V \in SUBSET View, NEW q \in Seq(Delta), NEW d \in Delta, NEW s \in Span
  PROVE  /\ EndShown(V, q, s) /\ ~(d.kind = "new_span" /\ d.span = s) => EndShown(V, Append(q, d), s)
         /\ d.kind = "ended_span" /\ d.span = s => EndShown(V, Append(q, d), s)
         /\ \A k \in 1 .. Len(q) : SignalShown(V, q, k, s) => SignalShown(V, Append(q, d), k, s)
         /\ EndShown(V, q, s) => SignalShown(V, Append(q, d), Len(q) + 1, s)
<1>1. Len(q) \in Nat
  BY LenProperties
<1>2. ASSUME NEW v \in V
      PROVE  /\ Over(Final(v, q).spans[s]) /\ ~(d.kind = "new_span" /\ d.span = s) => Over(Final(v, Append(q, d)).spans[s])
             /\ d.kind = "ended_span" /\ d.span = s => Over(Final(v, Append(q, d)).spans[s])
  <2>1. PICK u \in View : u = Final(v, q)
    BY ReplayTyped
  <2>2. Final(v, Append(q, d)) = Show(u, d)
    BY <2>1, ReplayAppend
  <2>3. Show(u, d).spans[s] = RowAfter(u.spans[s], d, s) /\ u.spans[s] \in Rows
    BY Shown DEF View
  <2>4. PICK r \in Rows : r = u.spans[s]
    BY <2>3
  <2>5. d.kind \in {"session_ended", "new_span", "updated_span", "ended_span"}
    BY DEF Delta, SpanKind
  <2>6. r # Absent => /\ [r EXCEPT !.status = d.row.status, !.attrs = d.row.attrs].ended = r.ended
                      /\ [r EXCEPT !.status = d.row.status, !.ended = TRUE].ended = TRUE
    BY DEF Rows, Row
  <2>7. Over(r) /\ ~(d.kind = "new_span" /\ d.span = s) => Over(RowAfter(r, d, s))
    BY <2>5, <2>6 DEF Over, RowAfter
  <2>8. d.kind = "ended_span" /\ d.span = s => Over(RowAfter(r, d, s))
    BY <2>6 DEF Over, RowAfter
  <2> QED
    BY <2>1, <2>2, <2>3, <2>4, <2>7, <2>8
<1>3. ASSUME NEW k \in 1 .. Len(q), NEW v \in V
      PROVE  Replay(v, Append(q, d))[k - 1] = Replay(v, q)[k - 1]
  <2>1. k - 1 \in 0 .. Len(q)
    BY <1>1
  <2> QED
    BY <2>1, ReplayAppend
<1>4. ASSUME NEW v \in V
      PROVE  Replay(v, Append(q, d))[Len(q) + 1 - 1] = Final(v, q)
  <2>1. Len(q) + 1 - 1 = Len(q) /\ Len(q) \in 0 .. Len(q)
    BY <1>1
  <2> QED
    BY <2>1, ReplayAppend DEF Final
<1> QED
  BY <1>2, <1>3, <1>4 DEF EndShown, SignalShown

Ending(d, s) == d.kind = "ended_span" /\ d.span = s

LEMMA EndsAppend ==
  ASSUME NEW vs \in [Span -> SUBSET View], NEW T \in SUBSET Span, NEW Z \in SUBSET Span,
         NEW q \in Seq(Delta), NEW d \in Delta, QueueEnds(vs, T, Z, q), T \subseteq Z,
         d.kind = "new_span" => d.span \notin Z,
         NEW T2 \in SUBSET Span, NEW Z2 \in SUBSET Span, Z \subseteq Z2,
         \A s \in T2 : s \in T \/ Ending(d, s),
         d.kind = "session_ended" => d.closed \subseteq T
  PROVE  QueueEnds(vs, T2, Z2, Append(q, d))
<1>1. /\ Len(q) \in Nat /\ Len(Append(q, d)) = Len(q) + 1 /\ Append(q, d)[Len(q) + 1] = d
      /\ \A k \in 1 .. Len(q) : Append(q, d)[k] = q[k]
  BY AppendProperties, LenProperties
<1>2. ASSUME NEW s \in T2
      PROVE  EndShown(vs[s], Append(q, d), s)
  <2>1. CASE Ending(d, s)
    BY <2>1, OverAppend DEF Ending
  <2>2. CASE s \in T
    <3>1. EndShown(vs[s], q, s) /\ ~(d.kind = "new_span" /\ d.span = s)
      BY <2>2 DEF QueueEnds
    <3> QED
      BY <2>2, <3>1, OverAppend
  <2> QED
    BY <2>1, <2>2
<1>3. ASSUME NEW k \in 1 .. Len(q) + 1, Append(q, d)[k].kind = "session_ended", NEW s \in Append(q, d)[k].closed
      PROVE  s \in Z2 /\ SignalShown(vs[s], Append(q, d), k, s)
  <2>1. CASE k \in 1 .. Len(q)
    <3>1. s \in Z /\ SignalShown(vs[s], q, k, s)
      BY <1>1, <1>3, <2>1 DEF QueueEnds
    <3> QED
      BY <2>1, <3>1, OverAppend
  <2>2. CASE k = Len(q) + 1
    <3>1. s \in T /\ EndShown(vs[s], q, s)
      BY <1>1, <1>3, <2>2 DEF QueueEnds
    <3> QED
      BY <2>2, <3>1, OverAppend
  <2> QED
    BY <1>1, <2>1, <2>2
<1> QED
  BY <1>1, <1>2, <1>3 DEF QueueEnds

LEMMA EndsStay ==
  ASSUME NEW vs, NEW T, NEW Z, NEW q, QueueEnds(vs, T, Z, q), NEW T2 \in SUBSET T, NEW Z2, Z \subseteq Z2
  PROVE  QueueEnds(vs, T2, Z2, q)
  BY DEF QueueEnds

(* What a step of the handlers leaves for the watchers.                    *)
LEMMA ViewsTyped ==
  ASSUME WatchOK, NEW w \in Watcher
  PROVE  ViewsFor(w) \in [Span -> SUBSET View] /\ (UNCHANGED watch => ViewsFor(w)' = ViewsFor(w))
  BY DEF WatchOK, ViewsFor, OverViews, watch

LEMMA EndsNone ==
  ASSUME IInv, EndsFollow, RowsGrow, UNCHANGED <<bus, watch>>, Told' \subseteq Told
  PROVE  EndsFollow'
<1>1. WatchOK /\ Watching' = Watching /\ Watching \subseteq Watcher
  BY WatchersStay, TypeParts DEF IInv, watch, Watching
<1>2. EndedRows \subseteq EndedRows'
  BY DEF RowsGrow, EndedRows
<1>3. ASSUME NEW w \in Watching, dropped'[w] = 0
      PROVE  EndsOf(w)'
  <2>1. EndsOf(w)
    BY <1>3 DEF EndsFollow, bus
  <2> QED
    BY <1>1, <1>2, <2>1, EndsStay, ViewsTyped DEF EndsOf, bus
<1> QED
  BY <1>1, <1>3 DEF EndsFollow

LEMMA EndsOne ==
  ASSUME IInv, EndsFollow, RowsGrow, UNCHANGED watch, NEW d \in Delta, Publish(d),
         d.kind = "new_span" => spans[d.span] = Absent,
         \A s \in Told' : s \in Told \/ Ending(d, s),
         d.kind = "session_ended" => d.closed \subseteq Told
  PROVE  EndsFollow'
<1>1. /\ WatchOK /\ Watching' = Watching /\ Watching \subseteq Watcher /\ registered = Watching
      /\ QueuesOK /\ BusTypeOK
  BY WatchersStay, TypeParts DEF IInv, watch, Watching, QueuesOK
<1>2. EndedRows \subseteq EndedRows' /\ EndedRows \subseteq Span /\ EndedRows' \subseteq Span
  BY DEF RowsGrow, EndedRows
<1>3. Told \subseteq EndedRows /\ Told' \subseteq Span
  BY ToldEnded DEF Told
<1>4. ASSUME NEW w \in Watching, dropped'[w] = 0
      PROVE  EndsOf(w)'
  <2>1. dropped[w] = 0 /\ queue'[w] = Append(queue[w], d)
    BY <1>1, <1>4, Published
  <2>2. EndsOf(w)
    BY <2>1 DEF EndsFollow
  <2>3. PICK q \in Seq(Delta) : q = queue[w]
    BY <1>1 DEF QueuesOK
  <2>4. PICK vs \in [Span -> SUBSET View] : vs = ViewsFor(w) /\ vs = ViewsFor(w)'
    BY <1>1, ViewsTyped
  <2>5. d.kind = "new_span" => d.span \notin EndedRows
    BY DEF EndedRows
  <2>6. QueueEnds(vs, Told', EndedRows', Append(q, d))
    BY <1>2, <1>3, <2>2, <2>3, <2>4, <2>5, EndsAppend DEF EndsOf
  <2> QED
    BY <2>1, <2>3, <2>4, <2>6 DEF EndsOf
<1> QED
  BY <1>1, <1>4 DEF EndsFollow

LEMMA EndsBoth ==
  ASSUME IInv, EndsFollow, RowsGrow, UNCHANGED watch, NEW d \in Delta, NEW e \in Delta, PublishBoth(d, e),
         d.kind \in {"updated_span", "ended_span"}, e.kind \in {"ended_span", "session_ended"},
         \A s \in Told' : s \in Told \/ Ending(d, s),
         NEW T \in SUBSET EndedRows', \A s \in T : s \in Told \/ Ending(d, s),
         e.kind = "session_ended" => e.closed \subseteq T,
         Told' \subseteq T
  PROVE  EndsFollow'
<1>1. /\ WatchOK /\ Watching' = Watching /\ Watching \subseteq Watcher /\ registered = Watching
      /\ QueuesOK /\ BusTypeOK
  BY WatchersStay, TypeParts DEF IInv, watch, Watching, QueuesOK
<1>2. EndedRows \subseteq EndedRows' /\ EndedRows \subseteq Span /\ EndedRows' \subseteq Span
  BY DEF RowsGrow, EndedRows
<1>3. Told \subseteq EndedRows /\ Told' \subseteq Span
  BY ToldEnded DEF Told
<1>4. ASSUME NEW w \in Watching, dropped'[w] = 0
      PROVE  EndsOf(w)'
  <2>1. dropped[w] = 0 /\ queue'[w] = Append(Append(queue[w], d), e)
    BY <1>1, <1>4, PublishedBoth
  <2>2. EndsOf(w)
    BY <2>1 DEF EndsFollow
  <2>3. PICK q \in Seq(Delta) : q = queue[w]
    BY <1>1 DEF QueuesOK
  <2>4. PICK p \in Seq(Delta) : p = Append(q, d)
    BY AppendProperties
  <2>5. PICK vs \in [Span -> SUBSET View] : vs = ViewsFor(w) /\ vs = ViewsFor(w)'
    BY <1>1, ViewsTyped
  <2>6. QueueEnds(vs, T, EndedRows', p)
    BY <1>2, <1>3, <2>2, <2>3, <2>4, <2>5, EndsAppend DEF EndsOf
  <2>7. QueueEnds(vs, Told', EndedRows', Append(p, e))
    BY <1>2, <1>3, <2>6, EndsAppend
  <2> QED
    BY <2>1, <2>3, <2>4, <2>5, <2>7 DEF EndsOf
<1> QED
  BY <1>1, <1>4 DEF EndsFollow

LEMMA ToldStep ==
  ASSUME handler \in [Stream -> Handler], NEW st \in Stream, NEW h, handler' = [handler EXCEPT ![st] = h]
  PROVE  \A s \in Told' :
           \/ s \in Told
           \/ /\ h.op \in {"close", "refresh"} /\ s \in h.listed /\ s \notin h.left
              /\ h.op = "refresh" => s # h.span
<1>1. handler'[st] = h /\ \A other \in Stream : other # st => handler'[other] = handler[other]
  OBVIOUS
<1> QED
  BY <1>1 DEF Told, Closing

LEMMA IngestEnds ==
  ASSUME IInv, EndsFollow, Ingest
  PROVE  EndsFollow'
<1>1. /\ RowsGrow /\ StoreOK /\ HandlersOK /\ handler \in [Stream -> Handler]
      /\ \A s \in Span : spans[s] # Absent => spans[s] \in Row
      /\ \A s \in open : s \in Span /\ spans[s] \in Row
      /\ Told \subseteq EndedRows /\ EndedRows \subseteq EndedRows'
  <2>1. RowsGrow /\ StoreOK /\ HandlersOK
    BY IngestHandlers, TypeParts DEF IInv
  <2> QED
    BY <2>1, ToldEnded DEF StoreOK, Rows, Stored, RowsGrow, EndedRows
<1>2. StoreOK'
  BY IngestTyped
<1>3. ASSUME UNCHANGED handler PROVE Told' = Told
  BY <1>3 DEF Told, Closing
<1>4. ASSUME NEW s \in Span, SpanStart(s) PROVE EndsFollow'
  <2>1. Started \in Row
    BY BoundAssumption DEF Started, Row, SpanStatus
  <2>2. PICK d \in Delta : d = SpanDelta("new_span", s, Started) /\ d.kind = "new_span" /\ d.span = s
    BY <2>1, SpanDeltas DEF SpanKind
  <2>3. Publish(d) /\ UNCHANGED <<watch, handler>> /\ spans[s] = Absent
    <3>1. spans'[s] = Started
      BY <1>1, <1>4 DEF SpanStart, StoreOK
    <3> QED
      BY <1>4, <2>2, <3>1 DEF SpanStart, watch
  <2> QED
    BY <1>1, <1>3, <2>2, <2>3, EndsOne
<1>5. ASSUME NEW s \in Span, NEW kind \in {"updated_span", "ended_span"}, spans[s] # Absent,
             Publish(SpanDelta(kind, s, spans'[s])), UNCHANGED <<watch, handler>>
      PROVE  EndsFollow'
  <2>1. spans'[s] \in Row
    BY <1>1, <1>2, <1>5 DEF RowsGrow, StoreOK, Rows
  <2>2. PICK d \in Delta : d = SpanDelta(kind, s, spans'[s]) /\ d.kind = kind
    BY <2>1, SpanDeltas DEF SpanKind
  <2> QED
    BY <1>1, <1>3, <1>5, <2>2, EndsOne
<1>6. ASSUME NEW s \in Span, SpanUpdate(s) PROVE EndsFollow'
  BY <1>1, <1>5, <1>6, NotAbsent DEF SpanUpdate, watch
<1>7. ASSUME NEW s \in Span, NEW status \in EndStatus, SpanEnd(s, status) PROVE EndsFollow'
  BY <1>1, <1>5, <1>7, NotAbsent DEF SpanEnd, watch
<1>8. ASSUME NEW st \in Stream, NEW h, handler' = [handler EXCEPT ![st] = h], UNCHANGED <<bus, watch>>,
             h.op \in {"idle", "attributes", "list"} \/ (h.op = "close" /\ h.listed = h.left)
      PROVE  EndsFollow'
  BY <1>1, <1>8, ToldStep, EndsNone
<1>9. ASSUME NEW s \in Span, NEW status \in EndStatus, SpanEndWithAttributes(s, status) PROVE EndsFollow'
  <2>1. PICK st \in Stream : st = Owner[s]
    BY OwnerAssumption
  <2>2. PICK h : h = Attributes(s)
    OBVIOUS
  <2>3. h.op = "attributes"
    BY <2>2 DEF Attributes
  <2> QED
    BY <1>8, <1>9, <2>1, <2>2, <2>3 DEF SpanEndWithAttributes, watch
<1>10. ASSUME NEW st \in Stream, NEW final \in FinalStatus, RunEnds(st, final) PROVE EndsFollow'
  <2>1. PICK h : h = Finalize(final)
    OBVIOUS
  <2>2. h.op = "list"
    BY <2>1 DEF Finalize
  <2> QED
    BY <1>8, <1>10, <2>1, <2>2 DEF RunEnds, watch
<1>11. ASSUME NEW st \in Stream, handler' = [handler EXCEPT ![st] = Idle] PROVE Told' \subseteq Told
  <2>1. PICK h : h = Idle
    OBVIOUS
  <2>2. h.op = "idle"
    BY <2>1 DEF Idle
  <2> QED
    BY <1>1, <1>11, <2>1, <2>2, ToldStep
<1>12. ASSUME NEW st \in Stream, SpanEndAttributes(st) PROVE EndsFollow'
  <2>1. handler[st].op = "attributes" /\ handler[st] \in Handler
    BY <1>1, <1>12 DEF SpanEndAttributes
  <2>2. PICK s \in Span : s = handler[st].span
    BY <2>1, HandlerCases
  <2>3. spans[s] # Absent
    BY <1>1, <2>1, <2>2 DEF HandlersOK, HandlerOK, Pending
  <2>4. PICK row \in Row : row = spans'[s]
    BY <1>1, <1>2, <2>3 DEF RowsGrow, StoreOK, Rows
  <2>5. PICK d \in Delta : d = SpanDelta("updated_span", s, row) /\ d.kind = "updated_span"
    BY SpanDeltas DEF SpanKind
  <2>6. PICK e \in Delta : e = SpanDelta("ended_span", s, row) /\ e.kind = "ended_span"
    BY SpanDeltas DEF SpanKind
  <2>7. PublishBoth(d, e) /\ UNCHANGED watch /\ handler' = [handler EXCEPT ![st] = Idle]
    BY <1>12, <2>2, <2>4, <2>5, <2>6 DEF SpanEndAttributes, watch
  <2>8. Told' \subseteq Told
    BY <1>11, <2>7
  <2> QED
    BY <1>1, <2>5, <2>6, <2>7, <2>8, EndsBoth
<1>13. ASSUME NEW st \in Stream, ListOpenSpans(st) PROVE EndsFollow'
  <2>1. handler[st].op = "list" /\ handler[st] \in Handler /\ UNCHANGED watch
    BY <1>1, <1>13 DEF ListOpenSpans, watch
  <2>2. CASE OpenInvocations = {}
    <3>1. Publish(SessionEnded(handler[st])) /\ handler' = [handler EXCEPT ![st] = Idle]
      BY <1>13, <2>2 DEF ListOpenSpans
    <3>2. PICK d \in Delta : d = SessionEnded(handler[st]) /\ d.kind = "session_ended"
      BY <2>1, EndSignal DEF IsFinalizing
    <3>3. d.closed = {}
      BY <2>1, <3>2, HandlerCases DEF SessionEnded
    <3>4. Told' \subseteq Told
      BY <1>11, <3>1
    <3> QED
      BY <1>1, <2>1, <3>1, <3>2, <3>3, <3>4, EndsOne
  <2>3. CASE OpenInvocations # {}
    <3>1. PICK h : h = Close(handler[st].final, OpenInvocations, OpenInvocations)
      OBVIOUS
    <3>2. h.op = "close" /\ h.listed = h.left
      BY <3>1 DEF Close
    <3> QED
      BY <1>8, <1>13, <2>1, <2>3, <3>1, <3>2 DEF ListOpenSpans
  <2> QED
    BY <2>2, <2>3
<1>14. ASSUME NEW st \in Stream, NEW s \in Span, CloseSpan(st, s) PROVE EndsFollow'
  <2>1. PICK h : h = Refresh(handler[st], s)
    OBVIOUS
  <2>2. /\ handler' = [handler EXCEPT ![st] = h] /\ UNCHANGED <<bus, watch>> /\ handler[st].op = "close"
        /\ h.op = "refresh" /\ h.listed = handler[st].listed /\ h.left = handler[st].left \ {s} /\ h.span = s
    BY <1>14, <2>1 DEF CloseSpan, Refresh, watch
  <2>3. Told' \subseteq Told
    <3>1. \A t \in Span : t \in handler[st].listed /\ t \notin handler[st].left => t \in Told
      BY <2>2 DEF Told, Closing
    <3>2. Told' \subseteq Span
      BY DEF Told
    <3> QED
      BY <1>1, <2>2, <3>1, <3>2, ToldStep
  <2> QED
    BY <1>1, <2>2, <2>3, EndsNone
<1>15. ASSUME NEW st \in Stream, RefreshSpan(st) PROVE EndsFollow'
  <2>1. handler[st].op = "refresh" /\ handler[st] \in Handler /\ UNCHANGED <<watch, spans>>
    BY <1>1, <1>15 DEF RefreshSpan, watch
  <2>2. PICK s \in Span : s = handler[st].span
    BY <2>1, HandlerCases, KindAssumption
  <2>3. PICK row \in Row : row = spans[s]
    BY <1>1, <2>1, <2>2 DEF HandlersOK, HandlerOK, Pending
  <2>4. PICK d \in Delta : d = SpanDelta("ended_span", s, row) /\ d.kind = "ended_span" /\ Ending(d, s)
    BY SpanDeltas DEF SpanKind, Ending
  <2>5. handler[st].listed \subseteq Span
    BY <2>1, HandlerCases, KindAssumption
  <2>6. \A t \in handler[st].listed : t \notin handler[st].left => t \in Told \/ Ending(d, t)
    BY <2>1, <2>2, <2>4, <2>5 DEF Told, Closing
  <2>7. CASE handler[st].left = {}
    <3>1. PICK e \in Delta : e = SessionEnded(handler[st]) /\ e.kind = "session_ended" /\ e.closed = handler[st].listed
      BY <2>1, EndSignal DEF IsFinalizing, SessionEnded
    <3>2. PublishBoth(d, e) /\ handler' = [handler EXCEPT ![st] = Idle]
      BY <1>15, <2>2, <2>3, <2>4, <2>7, <3>1 DEF RefreshSpan
    <3>3. Told' \subseteq Told
      BY <1>11, <3>2
    <3>4. handler[st].listed \subseteq EndedRows'
      BY <1>1, <2>1, <2>5, <2>7 DEF HandlersOK, HandlerOK, Closing, EndedRows
    <3>5. PICK T \in SUBSET EndedRows' : T = Told \cup handler[st].listed
      BY <1>1, <3>4
    <3>6. \A t \in T : t \in Told \/ Ending(d, t)
      BY <2>6, <2>7, <3>5
    <3>7. Told' \subseteq T /\ e.closed \subseteq T
      BY <3>1, <3>3, <3>5
    <3> QED
      BY <1>1, <2>1, <2>4, <3>1, <3>2, <3>3, <3>6, <3>7, EndsBoth
  <2>8. CASE handler[st].left # {}
    <3>1. PICK h : h = Close(handler[st].final, handler[st].listed, handler[st].left)
      OBVIOUS
    <3>2. /\ Publish(d) /\ handler' = [handler EXCEPT ![st] = h]
          /\ h.op = "close" /\ h.listed = handler[st].listed /\ h.left = handler[st].left
      BY <1>15, <2>2, <2>3, <2>4, <2>8, <3>1 DEF RefreshSpan, Close
    <3>3. \A t \in Told' : t \in Told \/ Ending(d, t)
      BY <1>1, <2>6, <3>2, ToldStep
    <3> QED
      BY <1>1, <2>1, <2>4, <3>2, <3>3, EndsOne
  <2> QED
    BY <2>7, <2>8
<1> QED
  BY <1>4, <1>6, <1>7, <1>9, <1>10, <1>12, <1>13, <1>14, <1>15 DEF Ingest, Resume

LEMMA WatcherEnds ==
  ASSUME WatchOK, UNCHANGED store, NEW w \in Watcher, EndsFollow,
         \A u \in Watcher : u # w => /\ pc'[u] = pc[u] /\ view'[u] = view[u]
                                     /\ queue'[u] = queue[u] /\ dropped'[u] = dropped[u],
         w \in Watching' /\ dropped'[w] = 0 => EndsOf(w)'
  PROVE  EndsFollow'
<1>1. Told' = Told /\ EndedRows' = EndedRows
  BY DEF store, Told, Closing, EndedRows
<1>2. ASSUME NEW u \in Watching', u # w, dropped'[u] = 0
      PROVE  EndsOf(u)'
  <2>1. u \in Watching /\ dropped[u] = 0 /\ pc'[u] = pc[u] /\ view'[u] = view[u] /\ queue'[u] = queue[u]
    BY <1>2 DEF Watching
  <2>2. ViewsFor(u)' = ViewsFor(u)
    BY <2>1 DEF ViewsFor, OverViews
  <2> QED
    BY <1>1, <2>1, <2>2 DEF EndsFollow, EndsOf
<1> QED
  BY <1>2 DEF EndsFollow

LEMMA OpenEnds ==
  ASSUME IInv, EndsFollow, NEW w \in Watcher, Open(w)
  PROVE  EndsFollow'
<1>1. /\ WatchOK /\ QueuesOK /\ UNCHANGED store /\ w \notin registered
      /\ pc' = [pc EXCEPT ![w] = "burst"] /\ view' = [view EXCEPT ![w].session = session.status]
      /\ queue' = queue /\ dropped' = dropped
  BY TypeParts DEF IInv, Open, Subscribe, QueuesOK, Watching
<1>2. queue'[w] = <<>> /\ pc'[w] = "burst" /\ Len(<<>>) = 0
  BY <1>1 DEF QueuesOK, WatchOK
<1>3. \A s \in Span : ViewsFor(w)'[s] = {v \in View : Over(v.spans[s])}
  BY <1>2 DEF ViewsFor, OverViews
<1>4. EndsOf(w)'
  BY <1>2, <1>3, ReplayEmpty DEF EndsOf, QueueEnds, EndShown, Told
<1> QED
  BY <1>1, <1>4, WatcherEnds DEF WatchOK

LEMMA LeaveEnds ==
  ASSUME IInv, EndsFollow, NEW w \in Watcher, Leave(w)
  PROVE  EndsFollow'
<1>1. /\ WatchOK /\ QueuesOK /\ UNCHANGED store
      /\ pc' = [pc EXCEPT ![w] = "left"] /\ view' = [view EXCEPT ![w] = Blank]
      /\ queue' = [queue EXCEPT ![w] = <<>>] /\ dropped' = dropped
  BY TypeParts DEF IInv, Leave, Unsubscribe
<1>2. w \notin Watching'
  BY <1>1 DEF WatchOK, Watching
<1> QED
  BY <1>1, <1>2, WatcherEnds DEF WatchOK, QueuesOK

LEMMA ReadEnds ==
  ASSUME IInv, EndsFollow, NEW w \in Watcher, ReadSpans(w)
  PROVE  EndsFollow'
<1>1. /\ WatchOK /\ StoreOK /\ UNCHANGED <<store, queue, dropped>> /\ pc[w] = "burst" /\ w \in Watching
      /\ Told \subseteq EndedRows
  BY ToldEnded, TypeParts DEF IInv, ReadSpans, bus, Watching
<1>2. Told' = Told /\ EndedRows' = EndedRows
  BY <1>1 DEF store, Told, Closing, EndedRows
<1> DEFINE sent == IF windowed[w] THEN InWindow ELSE Stored
<1>3. CASE windowed[w] /\ sent = {}
  <2>1. UNCHANGED <<pc, view>>
    BY <1>3 DEF ReadSpans
  <2>2. ViewsFor(w)' = ViewsFor(w)
    BY <2>1 DEF ViewsFor, OverViews
  <2>3. w \in Watching' /\ dropped'[w] = 0 => EndsOf(w)'
    BY <1>1, <1>2, <2>2 DEF EndsFollow, EndsOf
  <2> QED
    BY <1>1, <2>1, <2>3, WatcherEnds
<1>4. CASE ~(windowed[w] /\ sent = {})
  <2>1. pc' = [pc EXCEPT ![w] = "tail"] /\ view' = [view EXCEPT ![w].spans = Showing(sent)]
    BY <1>4 DEF ReadSpans
  <2>2. /\ Showing(sent) \in [Span -> Rows]
        /\ \A s \in Span : Showing(sent)[s] \in {spans[s], Absent}
    BY <1>1 DEF Showing, StoreOK, Rows
  <2>3. PICK f \in [Span -> Rows] : f = Showing(sent) /\ \A s \in Span : f[s] \in {spans[s], Absent}
    BY <2>2
  <2>4. view' = [view EXCEPT ![w].spans = f]
    BY <2>1, <2>3
  <2> HIDE DEF sent
  <2>5. PICK v \in View : v = view'[w] /\ v.spans = f
    <3>1. view'[w] = [view[w] EXCEPT !.spans = f]
      BY <1>1, <2>4 DEF WatchOK
    <3>2. view[w] \in View
      BY <1>1 DEF WatchOK
    <3>3. [view[w] EXCEPT !.spans = f] \in View
      BY <3>2 DEF View
    <3> QED
      BY <3>1, <3>2, <3>3 DEF View
  <2>6. ASSUME NEW s \in EndedRows
        PROVE  ViewsFor(w)'[s] \subseteq ViewsFor(w)[s]
    <3>1. Over(v.spans[s]) /\ s \in Span
      BY <2>3, <2>5 DEF EndedRows, Over
    <3>2. ViewsFor(w)'[s] = {v}
      BY <1>1, <2>1, <2>5, <3>1 DEF ViewsFor, OverViews, WatchOK
    <3>3. v \in ViewsFor(w)[s]
      BY <1>1, <3>1 DEF ViewsFor, OverViews
    <3> QED
      BY <3>2, <3>3
  <2>7. ASSUME dropped'[w] = 0 PROVE EndsOf(w)'
    <3>1. QueueEnds(ViewsFor(w), Told, EndedRows, queue[w])
      BY <1>1, <2>7 DEF EndsFollow, EndsOf
    <3>2. QueueEnds(ViewsFor(w)', Told, EndedRows, queue[w])
      BY <1>1, <2>6, <3>1 DEF QueueEnds, EndShown, SignalShown
    <3> QED
      BY <1>1, <1>2, <3>2 DEF EndsOf
  <2> QED
    BY <1>1, <2>1, <2>4, <2>7, WatcherEnds DEF WatchOK
<1> QED
  BY <1>3, <1>4

LEMMA FollowEnds ==
  ASSUME IInv, EndsFollow, NEW w \in Watcher, Follow(w)
  PROVE  EndsFollow'
<1>1. /\ WatchOK /\ QueuesOK /\ UNCHANGED <<store, pc, dropped>> /\ pc[w] = "tail" /\ queue[w] # <<>> /\ w \in Watching
      /\ view' = [view EXCEPT ![w] = Show(@, Head(queue[w]))] /\ queue' = [queue EXCEPT ![w] = Tail(@)]
  BY TypeParts DEF IInv, Follow, Watching
<1>2. Told' = Told /\ EndedRows' = EndedRows /\ Told \subseteq Span
  BY <1>1 DEF store, Told, Closing, EndedRows
<1>3. PICK q \in Seq(Delta) : q = queue[w]
  BY <1>1 DEF QueuesOK
<1>4. PICK v \in View : v = view[w]
  BY <1>1 DEF WatchOK
<1>5. PICK u : u = Show(v, Head(q))
  OBVIOUS
<1>6. PICK t : t = Tail(q)
  OBVIOUS
<1>7. view'[w] = u /\ queue'[w] = t
  BY <1>1, <1>3, <1>4, <1>5, <1>6 DEF WatchOK, QueuesOK
<1>8. \A s \in Span : ViewsFor(w)[s] = {v} /\ ViewsFor(w)'[s] = {u}
  BY <1>1, <1>4, <1>7 DEF ViewsFor, OverViews
<1>9. /\ Len(q) \in Nat /\ Len(t) = Len(q) - 1 /\ \A k \in 1 .. Len(t) : t[k] = q[k + 1]
      /\ \A n \in 1 .. Len(q) : q[n] \in Delta
  BY <1>1, <1>3, <1>6, HeadTailProperties, LenProperties, ElementOfSeq
<1>10. (\A n \in 0 .. Len(t) : Replay(u, t)[n] = Replay(v, q)[n + 1]) /\ Final(u, t) = Final(v, q)
  BY <1>1, <1>3, <1>5, <1>6, ReplayTail
<1>11. ASSUME dropped'[w] = 0 PROVE EndsOf(w)'
  <2>1. QueueEnds(ViewsFor(w), Told, EndedRows, q)
    BY <1>1, <1>3, <1>11 DEF EndsFollow, EndsOf
  <2>2. \A s \in Told : EndShown(ViewsFor(w)'[s], t, s)
    BY <1>2, <1>8, <1>10, <2>1 DEF QueueEnds, EndShown
  <2>3. ASSUME NEW k \in 1 .. Len(t), t[k].kind = "session_ended", NEW s \in t[k].closed
        PROVE  s \in EndedRows /\ SignalShown(ViewsFor(w)'[s], t, k, s)
    <3>1. k + 1 \in 1 .. Len(q) /\ k - 1 \in 0 .. Len(t) /\ k - 1 + 1 = k /\ k + 1 - 1 = k /\ t[k] = q[k + 1]
      BY <1>9
    <3>2. s \in EndedRows /\ SignalShown(ViewsFor(w)[s], q, k + 1, s) /\ s \in Span
      BY <2>1, <2>3, <3>1 DEF QueueEnds, EndedRows
    <3>3. Over(Replay(v, q)[k].spans[s])
      <4>1. v \in ViewsFor(w)[s]
        BY <1>8, <3>2
      <4>2. Over(Replay(v, q)[k + 1 - 1].spans[s])
        BY <3>2, <4>1 DEF SignalShown
      <4> QED
        BY <3>1, <4>2
    <3>4. Replay(u, t)[k - 1] = Replay(v, q)[k]
      BY <1>10, <3>1
    <3> QED
      BY <1>8, <3>2, <3>3, <3>4 DEF SignalShown
  <2>4. QueueEnds(ViewsFor(w)', Told, EndedRows, t)
    BY <2>2, <2>3 DEF QueueEnds
  <2> QED
    BY <1>2, <1>7, <2>4 DEF EndsOf
<1> QED
  BY <1>1, <1>11, WatcherEnds DEF WatchOK, QueuesOK

LEMMA NextEnds ==
  ASSUME IInv, EndsFollow, [Next]_vars
  PROVE  EndsFollow'
<1>1. CASE UNCHANGED vars
  <2>1. Told' = Told /\ EndedRows' = EndedRows /\ Watching' = Watching /\ UNCHANGED <<queue, dropped>>
    BY <1>1 DEF vars, store, bus, watch, Told, Closing, EndedRows, Watching
  <2>2. \A w : ViewsFor(w)' = ViewsFor(w)
    BY <1>1 DEF vars, watch, ViewsFor, OverViews
  <2> QED
    BY <2>1, <2>2 DEF EndsFollow, EndsOf
<1> QED
  BY <1>1, IngestEnds, OpenEnds, ReadEnds, FollowEnds, LeaveEnds DEF Next

(* When a browser that missed nothing reads the session's terminal signal, *)
(* it shows none of the invocations that were ended for it as running,     *)
(* whichever streams wrote or ended spans meanwhile (_finalize_session).   *)
THEOREM SignalComesLast == Spec => SpansEndBeforeSession
<1>1. Init => IInv /\ EndsFollow
  BY InitOK DEF EndsFollow, Init, Watching
<1>2. IInv /\ EndsFollow /\ [Next]_vars => IInv' /\ EndsFollow'
  BY NextOK, NextEnds
<1>3. ASSUME IInv, EndsFollow, NEW w \in Watcher, Follow(w), dropped[w] = 0,
             Head(queue[w]).kind = "session_ended", NEW s \in Head(queue[w]).closed
      PROVE  view[w].spans[s] # Absent => view[w].spans[s].ended
  <2>1. QueuesOK /\ pc[w] = "tail" /\ queue[w] # <<>> /\ w \in Watching
    BY <1>3, TypeParts DEF IInv, Follow, Watching
  <2>2. PICK q \in Seq(Delta) : q = queue[w]
    BY <2>1 DEF QueuesOK
  <2>3. Len(q) \in Nat /\ Len(q) > 0 /\ Head(q) = q[1]
    BY <2>1, <2>2, LenProperties, EmptySeq
  <2>4. s \in Span /\ SignalShown(ViewsFor(w)[s], q, 1, s)
    BY <1>3, <2>1, <2>2, <2>3 DEF EndsFollow, EndsOf, QueueEnds, EndedRows
  <2>5. ViewsFor(w)[s] = {view[w]}
    BY <2>1, <2>4 DEF ViewsFor, OverViews
  <2>6. Over(Replay(view[w], q)[0].spans[s])
    BY <2>4, <2>5 DEF SignalShown
  <2>7. Replay(view[w], q)[0] = view[w]
    BY <2>3, ReplayDef
  <2> QED
    BY <2>6, <2>7 DEF Over
<1> DEFINE AllOver ==
      \A w \in Watcher :
        Follow(w) /\ dropped[w] = 0 /\ Head(queue[w]).kind = "session_ended" =>
          \A s \in Head(queue[w]).closed : view[w].spans[s] # Absent => view[w].spans[s].ended
<1>4. IInv /\ EndsFollow => AllOver
  BY <1>3
<1>5. SpansEndBeforeSession <=> [][AllOver]_vars
  BY DEF SpansEndBeforeSession
<1> HIDE DEF AllOver
<1> QED
  BY <1>1, <1>2, <1>4, <1>5, PTL DEF Spec
=============================================================================
