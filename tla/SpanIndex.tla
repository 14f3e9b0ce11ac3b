----------------------------- MODULE SpanIndex -----------------------------
(* The browser's index of spans (gantt/spatialIndex.ts) and the packing of *)
(* an agent's spans into lanes (gantt/layout.ts), as operators on the      *)
(* value of an index: [span, rows, maxEnd].  `span` is byId, a row is the  *)
(* list of one agent.  A span is [agent, start, end, lane]; a running one  *)
(* ends Forever, and lane 0 is that of a span no packing has seen.  The    *)
(* prefix of ends, which nothing reads, is left out.                       *)
EXTENDS Naturals, Sequences, FiniteSets, SequencesExt

CONSTANTS Agent, Forever,
          Budget        \* how far behind the window a query looks: 1024 buckets

EmptyIndex == [span |-> <<>>, rows |-> [a \in Agent |-> <<>>], maxEnd |-> 0]

(* Behind all that are not greater: where the fast path and the binary     *)
(* search of append put an element of a sorted list.                       *)
InsertBy(key, list, x) ==
    LET n == Cardinality({i \in DOMAIN list : key[list[i]] <= key[x]})
    IN  SubSeq(list, 1, n) \o <<x>> \o SubSeq(list, n + 1, Len(list))
InsertAll(key, list, xs) == FoldLeft(LAMBDA sorted, x : InsertBy(key, sorted, x), list, xs)
SortBy(key, list) == InsertAll(key, <<>>, list)
Starts(span) == [x \in DOMAIN span |-> span[x].start]

Put(f, x, y) == [z \in DOMAIN f \union {x} |-> IF z = x THEN y ELSE f[z]]

-----------------------------------------------------------------------------
(* A running span reaches to its start as far as maxEndMs is concerned. *)
Extent(s) == IF s.end = Forever THEN s.start ELSE s.end
Widen(index, s) == IF Extent(s) > index.maxEnd THEN Extent(s) ELSE index.maxEnd

(* A span that is known keeps its place, and with it agent, start and lane. *)
UpdateSpan(index, id, end) ==
    LET s == [index.span[id] EXCEPT !.end = end]
    IN  [index EXCEPT !.span[id] = s, !.maxEnd = Widen(index, s)]

AppendSpan(index, id, s) ==
    IF id \in DOMAIN index.span THEN UpdateSpan(index, id, s.end)
    ELSE LET span == Put(index.span, id, s)
         IN  [span |-> span,
              rows |-> [index.rows EXCEPT ![s.agent] = InsertBy(Starts(span), @, id)],
              maxEnd |-> Widen(index, s)]

(* The spans of one row go to their places in the other's. *)
ReassignAgent(index, from, to) ==
    [index EXCEPT
          !.span = [x \in DOMAIN @ |-> IF @[x].agent = from THEN [@[x] EXCEPT !.agent = to] ELSE @[x]],
          !.rows = [index.rows EXCEPT ![from] = <<>>,
                                      ![to] = InsertAll(Starts(index.span), index.rows[to], index.rows[from])]]

-----------------------------------------------------------------------------
(* queryAgent: back from the first span that starts in the window, to the  *)
(* first one that starts more than Budget before it; then forward.         *)
Backwards_FromFirst(n) == IF n = 0 THEN <<1>> ELSE [k \in 1..n |-> n + 1 - k]
Backwards(n) == [k \in 1..n |-> n + 1 - k]

QueryAgent(index, a, t0, t1) ==
    LET row == index.rows[a]
        At(i) == index.span[row[i]]
        lo == Cardinality({i \in DOMAIN row : At(i).start < t0})
        Visited(i) == i = lo \/ At(i + 1).start + Budget >= t0
        Wanted(i) == i \in DOMAIN row /\ At(i).start < t1 /\ (i > lo \/ (Visited(i) /\ At(i).end >= t0))
    IN  FoldLeft(LAMBDA out, i : IF Wanted(i) THEN Append(out, row[i]) ELSE out,
                 <<>>, Backwards(lo) \o [k \in 1..(Len(row) - lo) |-> lo + k])

-----------------------------------------------------------------------------
(* packLanes: by start and then end, each into the first lane that is free. *)
FreeLanes(ends, start) == {i \in DOMAIN ends : ends[i] <= start}

PackLanes(index, a) ==
    LET key == [x \in DOMAIN index.span |-> index.span[x].start * (Forever + 1) + index.span[x].end]
        Lane(ends, x) == LET free == FreeLanes(ends, index.span[x].start)
                         IN  IF free = {} THEN Len(ends) + 1 ELSE CHOOSE i \in free : \A j \in free : i <= j
        Pack(acc, x) ==
            LET lane == Lane(acc.ends, x)
            IN  [ends |-> IF lane > Len(acc.ends) THEN Append(acc.ends, index.span[x].end)
                          ELSE [acc.ends EXCEPT ![lane] = index.span[x].end],
                 span |-> [acc.span EXCEPT ![x].lane = lane]]
    IN  [index EXCEPT !.span = FoldLeft(Pack, [ends |-> <<>>, span |-> @], SortBy(key, index.rows[a])).span]

-----------------------------------------------------------------------------
(* What the index and the lanes promise.                                   *)

Overlap(r, s) == r.start < s.end /\ s.start < r.end

RowIsSorted(index, a) ==
    LET row == index.rows[a]
    IN  \A i, j \in DOMAIN row : i < j => row[i] # row[j] /\ index.span[row[i]].start <= index.span[row[j]].start
=============================================================================
