--------------------------- MODULE TransportProofs ---------------------------
(***************************************************************************)
(* That the breaker and the thread's state agree, that no envelope is      *)
(* lost, duplicated or reordered while the connection holds, and that      *)
(* Hello opens a stream and Goodbye closes it, for every number of emits,  *)
(* capacity, batch size and breaker threshold.                             *)
(*                                                                         *)
(* The envelopes of a connection are in a pipeline: received, on the wire, *)
(* in the batch in hand, in the buffer.  A step moves a part of it along   *)
(* or adds to its end, so what is needed of it is said of the sequence of  *)
(* its numbers, which rise, and of their set.                              *)
(*                                                                         *)
(* The drain's last Goodbye may leave behind what payloads made room for   *)
(* beyond the capacity: Outgrown bounds that by the payloads staged, and   *)
(* Farewell carries the bound to the end of the stream.                    *)
(***************************************************************************)
EXTENDS Transport, Integers, SequenceTheorems, FiniteSetTheorems, TLAPS

(* The breaker, attempt by attempt: a trial is under way exactly when the  *)
(* threshold has been reached, and nothing is healthy until it succeeds.   *)
Breaker ==
  /\ BreakerCountsFailures
  /\ pc = "idle" => breaker # "half_open"
  /\ pc = "connecting" =>
       ~healthy /\ breaker # "open" /\ (breaker = "half_open" <=> failures >= BreakerThreshold)

(* What the thread's place says of the stream.                             *)
Phases ==
  /\ pc \in {"idle", "connecting"} => rpc = "none"
  /\ pc \in {"waiting", "sending", "draining", "closing"} => rpc # "none"
  /\ rpc = "none" => received = <<>> /\ sendq = <<>> /\ ~hello_sent
  /\ pc = "ended" => rpc # "open"
  /\ pc # "sending" => batch = <<>>
  /\ pc \in {"draining", "closing"} => stop

(* How far the buffer has outgrown its capacity.  Each payload staged pays *)
(* for one envelope beyond it: the payload is still to be referenced, or a *)
(* reference still to be stripped, or the envelope is there.               *)
Excess == IF Len(events) > Capacity THEN Len(events) - Capacity ELSE 0
Outgrown == Excess + Cardinality(refs) + (IF staging THEN 1 ELSE 0) <= staged

HasHello(fs) == \E k \in DOMAIN fs : fs[k].kind = "hello"
HasGoodbye(fs) == \E k \in DOMAIN fs : fs[k].kind = "goodbye"

(* LazyHello of any stream, and what _hello_sent says.                     *)
Framing == LazyHello /\ (hello_sent <=> HasHello(Sent))

(* Goodbye is sent when the buffer has been drained, and nothing but the   *)
(* end of the stream comes after it.                                       *)
Late == {i \in Ids(events) : i <= accepted}
Missing == (1 .. accepted) \ (SpanIds(received) \cup dropped)

Ends(fs) ==
  \A k \in DOMAIN fs : fs[k].kind = "goodbye" =>
    \A j \in DOMAIN fs : j > k => fs[j].kind = "eof"

Farewell ==
  /\ HasGoodbye(Sent) => pc \in {"closing", "ended"}
  /\ Ends(Sent)
  /\ pc = "closing" => Cardinality(Late) <= staged
  /\ HasGoodbye(received) => stop /\ Missing \subseteq Ids(events) /\ Cardinality(Missing) <= staged

IInv == TypeOK /\ Breaker /\ Phases /\ Outgrown /\ Framing /\ EnvelopesAccounted /\ Farewell
-----------------------------------------------------------------------------
(* Sequences: parts, increasing numbers, and the numbers they hold.        *)
Rising(s) == \A j, k \in DOMAIN s : j < k => s[j] < s[k]

LEMMA SeqBasics ==
  ASSUME NEW S, NEW s \in Seq(S)
  PROVE  /\ Len(s) \in Nat /\ DOMAIN s = 1 .. Len(s)
         /\ \A k \in DOMAIN s : s[k] \in S
         /\ Ids(s) \subseteq S
         /\ s # <<>> => Head(s) = s[1] /\ Len(s) > 0
<1>1. Len(s) \in Nat /\ DOMAIN s = 1 .. Len(s)
  BY LenProperties
<1>2. \A k \in DOMAIN s : s[k] \in S
  BY <1>1, ElementOfSeq
<1>3. s # <<>> => Head(s) = s[1] /\ Len(s) > 0
  BY <1>1, EmptySeq
<1> QED
  BY <1>1, <1>2, <1>3 DEF Ids

LEMMA ConcatParts ==
  ASSUME NEW S, NEW p \in Seq(S), NEW q \in Seq(S)
  PROVE  /\ p \o q \in Seq(S) /\ Len(p \o q) = Len(p) + Len(q)
         /\ DOMAIN (p \o q) = 1 .. Len(p) + Len(q)
         /\ \A k \in DOMAIN p : k \in DOMAIN (p \o q) /\ (p \o q)[k] = p[k]
         /\ \A k \in DOMAIN q : Len(p) + k \in DOMAIN (p \o q) /\ (p \o q)[Len(p) + k] = q[k]
         /\ \A k \in DOMAIN (p \o q) : k \in DOMAIN p \/ (k - Len(p) \in DOMAIN q /\ k > Len(p))
<1>1. /\ Len(p) \in Nat /\ DOMAIN p = 1 .. Len(p)
      /\ Len(q) \in Nat /\ DOMAIN q = 1 .. Len(q)
  BY SeqBasics
<1>2. /\ p \o q \in Seq(S) /\ Len(p \o q) = Len(p) + Len(q)
      /\ \A k \in 1 .. Len(p) + Len(q) : (p \o q)[k] = IF k <= Len(p) THEN p[k] ELSE q[k - Len(p)]
  BY ConcatProperties
<1> DEFINE c == p \o q
<1>3. DOMAIN c = 1 .. Len(p) + Len(q)
  BY <1>2, SeqBasics
<1> HIDE DEF c
<1>4. \A k \in 1 .. Len(p) + Len(q) : c[k] = IF k <= Len(p) THEN p[k] ELSE q[k - Len(p)]
  BY <1>2 DEF c
<1>5. \A k \in DOMAIN p : k \in DOMAIN c /\ c[k] = p[k]
  BY <1>1, <1>3, <1>4
<1>6. \A k \in DOMAIN q : Len(p) + k \in DOMAIN c /\ c[Len(p) + k] = q[k]
  <2> TAKE k \in DOMAIN q
  <2>1. Len(p) + k \in 1 .. Len(p) + Len(q) /\ ~(Len(p) + k <= Len(p)) /\ (Len(p) + k) - Len(p) = k
    BY <1>1
  <2> QED
    BY <1>3, <1>4, <2>1
<1>7. \A k \in DOMAIN c : k \in DOMAIN p \/ (k - Len(p) \in DOMAIN q /\ k > Len(p))
  BY <1>1, <1>3
<1> QED
  BY <1>2, <1>3, <1>5, <1>6, <1>7 DEF c

(* Two stretches of numbers one after the other.                           *)
LEMMA RisingConcat ==
  ASSUME NEW p \in Seq(Nat), NEW q \in Seq(Nat)
  PROVE  /\ Ids(p \o q) = Ids(p) \cup Ids(q)
         /\ Rising(p \o q) <=>
              Rising(p) /\ Rising(q) /\ \A i \in Ids(p), j \in Ids(q) : i < j
<1> DEFINE c == p \o q
<1>1. /\ Len(p) \in Nat /\ DOMAIN p = 1 .. Len(p)
      /\ Len(q) \in Nat /\ DOMAIN q = 1 .. Len(q)
  BY SeqBasics
<1>2. /\ DOMAIN c = 1 .. Len(p) + Len(q)
      /\ \A k \in DOMAIN p : k \in DOMAIN c /\ c[k] = p[k]
      /\ \A k \in DOMAIN q : Len(p) + k \in DOMAIN c /\ c[Len(p) + k] = q[k]
      /\ \A k \in DOMAIN c : k \in DOMAIN p \/ (k - Len(p) \in DOMAIN q /\ k > Len(p))
  BY ConcatParts
<1> HIDE DEF c
<1>3. \A k \in DOMAIN c : k - Len(p) \in DOMAIN q => c[k] = q[k - Len(p)]
  <2> SUFFICES ASSUME NEW k \in DOMAIN c, k - Len(p) \in DOMAIN q PROVE c[k] = q[k - Len(p)]
    OBVIOUS
  <2>1. Len(p) + (k - Len(p)) = k
    BY <1>1, <1>2
  <2> QED
    BY <1>2, <2>1
<1>4. Ids(c) = Ids(p) \cup Ids(q)
  <2>1. Ids(c) \subseteq Ids(p) \cup Ids(q)
    BY <1>2, <1>3 DEF Ids
  <2>2. Ids(p) \subseteq Ids(c)
    BY <1>2 DEF Ids
  <2>3. Ids(q) \subseteq Ids(c)
    BY <1>2 DEF Ids
  <2> QED
    BY <2>1, <2>2, <2>3
<1>5. ASSUME Rising(c) PROVE Rising(p) /\ Rising(q) /\ \A i \in Ids(p), j \in Ids(q) : i < j
  <2>1. Rising(p)
    BY <1>2, <1>5 DEF Rising
  <2>2. Rising(q)
    <3> SUFFICES ASSUME NEW j \in DOMAIN q, NEW k \in DOMAIN q, j < k PROVE q[j] < q[k]
      BY DEF Rising
    <3>1. Len(p) + j < Len(p) + k
      BY <1>1
    <3>2. c[Len(p) + j] < c[Len(p) + k]
      BY <1>2, <1>5, <3>1 DEF Rising
    <3> QED
      BY <1>2, <3>2
  <2>3. ASSUME NEW i \in Ids(p), NEW j \in Ids(q) PROVE i < j
    <3>1. PICK k \in DOMAIN p, l \in DOMAIN q : i = p[k] /\ j = q[l]
      BY DEF Ids
    <3>2. k < Len(p) + l
      BY <1>1
    <3>3. c[k] < c[Len(p) + l]
      BY <1>2, <1>5, <3>2 DEF Rising
    <3> QED
      BY <1>2, <3>1, <3>3
  <2> QED
    BY <2>1, <2>2, <2>3
<1>6. ASSUME Rising(p), Rising(q), \A i \in Ids(p), j \in Ids(q) : i < j PROVE Rising(c)
  <2> SUFFICES ASSUME NEW j \in DOMAIN c, NEW k \in DOMAIN c, j < k PROVE c[j] < c[k]
    BY DEF Rising
  <2>1. CASE k \in DOMAIN p
    <3>1. j \in DOMAIN p
      BY <1>1, <1>2, <2>1
    <3> QED
      BY <1>2, <1>6, <2>1, <3>1 DEF Rising
  <2>2. CASE j \in DOMAIN p /\ k - Len(p) \in DOMAIN q
    <3>1. c[j] \in Ids(p) /\ c[k] \in Ids(q)
      BY <1>2, <1>3, <2>2 DEF Ids
    <3> QED
      BY <1>6, <3>1
  <2>3. CASE j - Len(p) \in DOMAIN q /\ k - Len(p) \in DOMAIN q
    <3>1. j - Len(p) < k - Len(p)
      BY <1>1, <1>2
    <3>2. q[j - Len(p)] < q[k - Len(p)]
      BY <1>6, <2>3, <3>1 DEF Rising
    <3> QED
      BY <1>3, <2>3, <3>2
  <2>4. CASE j - Len(p) \in DOMAIN q /\ k \in DOMAIN p
    BY <1>1, <1>2, <2>4
  <2> QED
    BY <1>2, <2>1, <2>2, <2>3, <2>4
<1> QED
  BY <1>4, <1>5, <1>6 DEF c

(* A sequence cut in two.                                                  *)
LEMMA Cut ==
  ASSUME NEW S, NEW s \in Seq(S), NEW n \in 0 .. Len(s)
  PROVE  /\ SubSeq(s, 1, n) \in Seq(S) /\ Len(SubSeq(s, 1, n)) = n
         /\ SubSeq(s, n + 1, Len(s)) \in Seq(S) /\ Len(SubSeq(s, n + 1, Len(s))) = Len(s) - n
         /\ SubSeq(s, 1, n) \o SubSeq(s, n + 1, Len(s)) = s
<1>1. Len(s) \in Nat /\ \A k \in 1 .. Len(s) : s[k] \in S
  BY SeqBasics
<1>2. /\ 1 \in Int /\ n \in Int /\ n + 1 \in Int /\ Len(s) \in Int
      /\ (\A k \in 1 .. n : s[k] \in S) /\ (\A k \in n + 1 .. Len(s) : s[k] \in S)
  BY <1>1
<1> DEFINE a == SubSeq(s, 1, n)
           b == SubSeq(s, n + 1, Len(s))
<1>3. a \in Seq(S) /\ Len(a) = IF 1 <= n THEN n - 1 + 1 ELSE 0
  BY <1>2, SubSeqProperties
<1>4. b \in Seq(S) /\ Len(b) = IF n + 1 <= Len(s) THEN Len(s) - (n + 1) + 1 ELSE 0
  BY <1>2, SubSeqProperties
<1>5. 1 \in 1 .. Len(s) + 1 /\ n \in 1 - 1 .. Len(s) /\ Len(s) \in n .. Len(s)
  BY <1>1
<1>6. a \o b = s
  BY <1>5, ConcatAdjacentSubSeq, SubSeqFull
<1> HIDE DEF a, b
<1>7. Len(a) = n /\ Len(b) = Len(s) - n
  BY <1>1, <1>3, <1>4
<1> QED
  BY <1>3, <1>4, <1>6, <1>7 DEF a, b

(* What is left when one element goes.                                     *)
LEMMA Without ==
  ASSUME NEW s \in Seq(Nat), NEW k \in DOMAIN s
  PROVE  /\ RemoveAt(s, k) \in Seq(Nat) /\ Len(RemoveAt(s, k)) = Len(s) - 1
         /\ Ids(RemoveAt(s, k)) \subseteq Ids(s)
         /\ Ids(s) \subseteq Ids(RemoveAt(s, k)) \cup {s[k]}
         /\ Rising(s) => Rising(RemoveAt(s, k)) /\ s[k] \notin Ids(RemoveAt(s, k))
<1> DEFINE a == SubSeq(s, 1, k - 1)
           b == SubSeq(s, k, Len(s))
           c == SubSeq(s, k + 1, Len(s))
<1>1. /\ Len(s) \in Nat /\ DOMAIN s = 1 .. Len(s) /\ s[k] \in Nat
      /\ k - 1 \in 0 .. Len(s) /\ (k - 1) + 1 = k /\ k \in 0 .. Len(s)
      /\ k \in 1 .. Len(s) /\ Len(s) \in k .. Len(s)
  BY SeqBasics
<1>2. a \in Seq(Nat) /\ Len(a) = k - 1 /\ b \in Seq(Nat) /\ a \o b = s
  <2> DEFINE d == SubSeq(s, (k - 1) + 1, Len(s))
  <2>1. a \in Seq(Nat) /\ Len(a) = k - 1 /\ d \in Seq(Nat) /\ a \o d = s
    BY <1>1, Cut
  <2>2. d = b
    BY <1>1
  <2> QED
    BY <2>1, <2>2
<1>3. b = <<s[k]>> \o c
  BY <1>1, SubSeqRecursiveFirst
<1>4. c \in Seq(Nat) /\ Len(c) = Len(s) - k
  BY <1>1, Cut
<1>5. RemoveAt(s, k) = a \o c
  BY DEF RemoveAt
<1> HIDE DEF a, b, c
<1>6. a \o c \in Seq(Nat) /\ Len(a \o c) = Len(s) - 1
  <2>1. a \o c \in Seq(Nat) /\ Len(a \o c) = Len(a) + Len(c)
    BY <1>2, <1>4, ConcatProperties
  <2>2. Len(a) + Len(c) = Len(s) - 1
    BY <1>1, <1>2, <1>4
  <2> QED
    BY <2>1, <2>2
<1>7. /\ Ids(a \o c) = Ids(a) \cup Ids(c)
      /\ Rising(a \o c) <=> Rising(a) /\ Rising(c) /\ \A i \in Ids(a), j \in Ids(c) : i < j
  BY <1>2, <1>4, RisingConcat
<1>8. /\ Ids(s) = Ids(a) \cup Ids(b)
      /\ Rising(s) <=> Rising(a) /\ Rising(b) /\ \A i \in Ids(a), j \in Ids(b) : i < j
  BY <1>2, RisingConcat
<1>9. <<s[k]>> \in Seq(Nat) /\ Ids(<<s[k]>>) = {s[k]}
  BY <1>1 DEF Ids
<1>10. /\ Ids(b) = Ids(<<s[k]>>) \cup Ids(c)
       /\ Rising(b) <=> Rising(<<s[k]>>) /\ Rising(c) /\ \A i \in Ids(<<s[k]>>), j \in Ids(c) : i < j
  BY <1>3, <1>4, <1>9, RisingConcat
<1>11. Ids(a) \subseteq Nat /\ Ids(c) \subseteq Nat
  BY <1>2, <1>4, SeqBasics
<1>12. Rising(s) => Rising(a \o c) /\ s[k] \notin Ids(a \o c)
  <2> SUFFICES ASSUME Rising(s) PROVE Rising(a \o c) /\ s[k] \notin Ids(a) /\ s[k] \notin Ids(c)
    BY <1>7
  <2>1. /\ Rising(a) /\ Rising(c)
        /\ \A i \in Ids(a) : i < s[k] /\ \A j \in Ids(c) : i < j
        /\ \A j \in Ids(c) : s[k] < j
    BY <1>8, <1>9, <1>10
  <2> QED
    BY <1>1, <1>7, <1>11, <2>1
<1> QED
  BY <1>5, <1>6, <1>7, <1>8, <1>9, <1>10, <1>12

LEMMA OneMore ==
  ASSUME NEW s \in Seq(Nat), NEW e \in Nat
  PROVE  /\ Ids(Append(s, e)) = Ids(s) \cup {e}
         /\ (\A i \in Ids(s) : i < e) /\ Rising(s) => Rising(Append(s, e))
<1>1. Append(s, e) = s \o <<e>>
  BY AppendIsConcat
<1>2. <<e>> \in Seq(Nat) /\ Ids(<<e>>) = {e} /\ Rising(<<e>>)
  BY DEF Ids, Rising
<1>3. /\ Ids(s \o <<e>>) = Ids(s) \cup Ids(<<e>>)
      /\ Rising(s \o <<e>>) <=> Rising(s) /\ Rising(<<e>>) /\ \A i \in Ids(s), j \in Ids(<<e>>) : i < j
  BY <1>2, RisingConcat
<1> QED
  BY <1>1, <1>2, <1>3
-----------------------------------------------------------------------------
(* Streams of frames.                                                      *)
SpansInOrder(fs) == \A j, k \in SpanAt(fs) : j < k => fs[j].id < fs[k].id

NeedsHello == {"span", "heartbeat", "goodbye"}

Framed(fs) ==
  /\ \A k \in DOMAIN fs : fs[k].kind \in NeedsHello =>
       \E j \in 1 .. k - 1 : fs[j].kind = "hello"
  /\ \A j \in DOMAIN fs : fs[j].kind = "hello" =>
       /\ \A k \in DOMAIN fs : fs[k].kind = "hello" => k = j
       /\ j + 1 \in DOMAIN fs /\ fs[j + 1].kind = "span"

(* Frames that may follow a stream that has had its Hello, or has not.     *)
MayFollow(fs, greeted) ==
  /\ \A k \in DOMAIN fs : fs[k].kind = "hello" =>
       ~greeted /\ k = 1 /\ 2 \in DOMAIN fs /\ fs[2].kind = "span"
  /\ \A k \in DOMAIN fs : fs[k].kind \in NeedsHello => greeted \/ fs[1].kind = "hello"

LEMMA FrameTyped ==
  /\ \A kind \in Kind : FrameOf(kind) \in Frame /\ FrameOf(kind).kind = kind
  /\ \A i \in Nat : SpanFrame(i) \in Frame /\ SpanFrame(i).kind = "span" /\ SpanFrame(i).id = i
  BY DEF FrameOf, SpanFrame, Frame, Kind

LEMMA StreamConcat ==
  ASSUME NEW p \in Seq(Frame), NEW q \in Seq(Frame)
  PROVE  /\ p \o q \in Seq(Frame)
         /\ SpanIds(p \o q) = SpanIds(p) \cup SpanIds(q)
         /\ HasHello(p \o q) <=> HasHello(p) \/ HasHello(q)
         /\ HasGoodbye(p \o q) <=> HasGoodbye(p) \/ HasGoodbye(q)
         /\ SpansInOrder(p) /\ SpansInOrder(q) /\ (\A i \in SpanIds(p), j \in SpanIds(q) : i < j)
              => SpansInOrder(p \o q)
         /\ ~HasGoodbye(p) /\ Ends(q) => Ends(p \o q)
<1> DEFINE c == p \o q
<1>1. /\ Len(p) \in Nat /\ DOMAIN p = 1 .. Len(p)
      /\ Len(q) \in Nat /\ DOMAIN q = 1 .. Len(q)
  BY SeqBasics
<1>2. /\ c \in Seq(Frame)
      /\ DOMAIN c = 1 .. Len(p) + Len(q)
      /\ \A k \in DOMAIN p : k \in DOMAIN c /\ c[k] = p[k]
      /\ \A k \in DOMAIN q : Len(p) + k \in DOMAIN c /\ c[Len(p) + k] = q[k]
      /\ \A k \in DOMAIN c : k \in DOMAIN p \/ (k - Len(p) \in DOMAIN q /\ k > Len(p))
  BY ConcatParts
<1> HIDE DEF c
<1>3. \A k \in DOMAIN c : k - Len(p) \in DOMAIN q => c[k] = q[k - Len(p)]
  <2> SUFFICES ASSUME NEW k \in DOMAIN c, k - Len(p) \in DOMAIN q PROVE c[k] = q[k - Len(p)]
    OBVIOUS
  <2>1. Len(p) + (k - Len(p)) = k
    BY <1>1, <1>2
  <2> QED
    BY <1>2, <2>1
<1>4. SpanIds(c) = SpanIds(p) \cup SpanIds(q)
  <2>1. SpanIds(c) \subseteq SpanIds(p) \cup SpanIds(q)
    BY <1>2, <1>3 DEF SpanIds, SpanAt
  <2>2. SpanIds(p) \subseteq SpanIds(c)
    BY <1>2 DEF SpanIds, SpanAt
  <2>3. SpanIds(q) \subseteq SpanIds(c)
    BY <1>2 DEF SpanIds, SpanAt
  <2> QED
    BY <2>1, <2>2, <2>3
<1>5. HasHello(c) <=> HasHello(p) \/ HasHello(q)
  BY <1>2, <1>3 DEF HasHello
<1>6. HasGoodbye(c) <=> HasGoodbye(p) \/ HasGoodbye(q)
  BY <1>2, <1>3 DEF HasGoodbye
<1>7. ASSUME SpansInOrder(p), SpansInOrder(q), \A i \in SpanIds(p), j \in SpanIds(q) : i < j
      PROVE  SpansInOrder(c)
  <2> SUFFICES ASSUME NEW j \in SpanAt(c), NEW k \in SpanAt(c), j < k PROVE c[j].id < c[k].id
    BY DEF SpansInOrder
  <2>0. j \in DOMAIN c /\ k \in DOMAIN c /\ c[j].kind = "span" /\ c[k].kind = "span"
    BY DEF SpanAt
  <2>1. CASE k \in DOMAIN p
    <3>1. j \in DOMAIN p
      BY <1>1, <1>2, <2>0, <2>1
    <3>2. j \in SpanAt(p) /\ k \in SpanAt(p)
      BY <1>2, <2>0, <2>1, <3>1 DEF SpanAt
    <3> QED
      BY <1>2, <1>7, <2>1, <3>1, <3>2 DEF SpansInOrder
  <2>2. CASE j \in DOMAIN p /\ k - Len(p) \in DOMAIN q
    <3>1. c[j].id \in SpanIds(p) /\ c[k].id \in SpanIds(q)
      BY <1>2, <1>3, <2>0, <2>2 DEF SpanIds, SpanAt
    <3> QED
      BY <1>7, <3>1
  <2>3. CASE j - Len(p) \in DOMAIN q /\ k - Len(p) \in DOMAIN q
    <3>1. j - Len(p) < k - Len(p)
      BY <1>1, <1>2, <2>0
    <3>2. j - Len(p) \in SpanAt(q) /\ k - Len(p) \in SpanAt(q)
      BY <1>3, <2>0, <2>3 DEF SpanAt
    <3>3. q[j - Len(p)].id < q[k - Len(p)].id
      BY <1>7, <3>1, <3>2 DEF SpansInOrder
    <3> QED
      BY <1>3, <2>0, <2>3, <3>3
  <2>4. CASE j - Len(p) \in DOMAIN q /\ k \in DOMAIN p
    BY <1>1, <1>2, <2>0, <2>4
  <2> QED
    BY <1>2, <2>0, <2>1, <2>2, <2>3, <2>4
<1>8. ASSUME ~HasGoodbye(p), Ends(q) PROVE Ends(c)
  <2> SUFFICES ASSUME NEW k \in DOMAIN c, c[k].kind = "goodbye", NEW j \in DOMAIN c, j > k
               PROVE  c[j].kind = "eof"
    BY DEF Ends
  <2>1. k \notin DOMAIN p
    BY <1>2, <1>8 DEF HasGoodbye
  <2>2. k - Len(p) \in DOMAIN q /\ k > Len(p)
    BY <1>2, <2>1
  <2>3. j - Len(p) \in DOMAIN q /\ j - Len(p) > k - Len(p)
    BY <1>1, <1>2, <2>2
  <2> QED
    BY <1>3, <1>8, <2>2, <2>3 DEF Ends
<1> QED
  BY <1>2, <1>4, <1>5, <1>6, <1>7, <1>8 DEF c

LEMMA FramedConcat ==
  ASSUME NEW p \in Seq(Frame), NEW q \in Seq(Frame), Framed(p), MayFollow(q, HasHello(p))
  PROVE  Framed(p \o q)
<1> DEFINE c == p \o q
<1>1. /\ Len(p) \in Nat /\ DOMAIN p = 1 .. Len(p)
      /\ Len(q) \in Nat /\ DOMAIN q = 1 .. Len(q)
  BY SeqBasics
<1>2. /\ DOMAIN c = 1 .. Len(p) + Len(q)
      /\ \A k \in DOMAIN p : k \in DOMAIN c /\ c[k] = p[k]
      /\ \A k \in DOMAIN q : Len(p) + k \in DOMAIN c /\ c[Len(p) + k] = q[k]
      /\ \A k \in DOMAIN c : k \in DOMAIN p \/ (k - Len(p) \in DOMAIN q /\ k > Len(p))
  BY ConcatParts
<1> HIDE DEF c
<1>3. \A k \in DOMAIN c : k - Len(p) \in DOMAIN q => c[k] = q[k - Len(p)]
  <2> SUFFICES ASSUME NEW k \in DOMAIN c, k - Len(p) \in DOMAIN q PROVE c[k] = q[k - Len(p)]
    OBVIOUS
  <2>1. Len(p) + (k - Len(p)) = k
    BY <1>1, <1>2
  <2> QED
    BY <1>2, <2>1
<1>4. ASSUME NEW k \in DOMAIN c, c[k].kind \in NeedsHello
      PROVE  \E j \in 1 .. k - 1 : c[j].kind = "hello"
  <2>1. CASE k \in DOMAIN p
    <3>1. PICK j \in 1 .. k - 1 : p[j].kind = "hello"
      BY <1>2, <1>4, <2>1 DEF Framed
    <3>2. j \in DOMAIN p
      BY <1>1, <2>1
    <3> QED
      BY <1>2, <3>1, <3>2
  <2>2. CASE k - Len(p) \in DOMAIN q /\ k > Len(p)
    <3>1. q[k - Len(p)].kind \in NeedsHello
      BY <1>3, <1>4, <2>2
    <3>2. CASE HasHello(p)
      <4>1. PICK j \in DOMAIN p : p[j].kind = "hello"
        BY <3>2 DEF HasHello
      <4>2. j \in 1 .. k - 1
        BY <1>1, <1>2, <2>2
      <4> QED
        BY <1>2, <4>1, <4>2
    <3>3. CASE ~HasHello(p)
      <4>1. q[1].kind = "hello" /\ 1 \in DOMAIN q
        BY <1>1, <2>2, <3>1, <3>3 DEF MayFollow
      <4>2. k - Len(p) # 1
        BY <3>1, <4>1 DEF NeedsHello
      <4>3. Len(p) + 1 \in 1 .. k - 1
        BY <1>1, <1>2, <2>2, <4>2
      <4> QED
        BY <1>2, <4>1, <4>3
    <3> QED
      BY <3>2, <3>3
  <2> QED
    BY <1>2, <2>1, <2>2
<1>5. ASSUME NEW j \in DOMAIN c, c[j].kind = "hello"
      PROVE  /\ \A k \in DOMAIN c : c[k].kind = "hello" => k = j
             /\ j + 1 \in DOMAIN c /\ c[j + 1].kind = "span"
  <2>1. CASE j \in DOMAIN p
    <3>1. HasHello(p) /\ p[j].kind = "hello"
      BY <1>2, <1>5, <2>1 DEF HasHello
    <3>2. j + 1 \in DOMAIN p /\ p[j + 1].kind = "span"
      BY <2>1, <3>1 DEF Framed
    <3>3. ASSUME NEW k \in DOMAIN c, c[k].kind = "hello" PROVE k = j
      <4>1. CASE k \in DOMAIN p
        BY <1>2, <2>1, <3>1, <3>3, <4>1 DEF Framed
      <4>2. CASE k - Len(p) \in DOMAIN q
        BY <1>3, <3>1, <3>3, <4>2 DEF MayFollow
      <4> QED
        BY <1>2, <4>1, <4>2
    <3> QED
      BY <1>2, <3>2, <3>3
  <2>2. CASE j - Len(p) \in DOMAIN q
    <3>1. /\ ~HasHello(p) /\ j - Len(p) = 1 /\ 2 \in DOMAIN q /\ q[2].kind = "span"
      BY <1>3, <1>5, <2>2 DEF MayFollow
    <3>2. j + 1 = Len(p) + 2
      BY <1>1, <1>2, <3>1
    <3>3. j + 1 \in DOMAIN c /\ c[j + 1].kind = "span"
      BY <1>2, <3>1, <3>2
    <3>4. ASSUME NEW k \in DOMAIN c, c[k].kind = "hello" PROVE k = j
      <4>1. k \notin DOMAIN p
        BY <1>2, <3>1, <3>4 DEF HasHello
      <4>2. k - Len(p) \in DOMAIN q /\ q[k - Len(p)].kind = "hello"
        BY <1>2, <1>3, <3>4, <4>1
      <4>3. k - Len(p) = 1
        BY <4>2 DEF MayFollow
      <4> QED
        BY <1>1, <1>2, <3>1, <4>3
    <3> QED
      BY <3>3, <3>4
  <2> QED
    BY <1>2, <2>1, <2>2
<1> QED
  BY <1>4, <1>5 DEF Framed, c

(* A frame leaves the stream unread: the first one, or the last.           *)
LEMMA FrameLeaves ==
  ASSUME NEW fs \in Seq(Frame), NEW gs \in Seq(Frame), NEW p \in DOMAIN fs,
         Len(gs) = Len(fs) - 1,
         \A k \in 1 .. Len(fs) - 1 : gs[k] = IF k < p THEN fs[k] ELSE fs[k + 1],
         fs[p].kind # "hello", fs[p].kind = "span" => p = 1
  PROVE  /\ HasHello(gs) <=> HasHello(fs)
         /\ Framed(fs) => Framed(gs)
         /\ Ends(fs) => Ends(gs)
         /\ HasGoodbye(gs) => HasGoodbye(fs)
         /\ SpansInOrder(fs) => SpansInOrder(gs)
         /\ fs[p].kind # "span" => SpanIds(gs) = SpanIds(fs)
<1> DEFINE Old(k) == IF k < p THEN k ELSE k + 1
<1>1. /\ Len(fs) \in Nat /\ DOMAIN fs = 1 .. Len(fs) /\ DOMAIN gs = 1 .. Len(fs) - 1
      /\ p \in 1 .. Len(fs)
  BY SeqBasics
<1>2. \A k \in DOMAIN gs : Old(k) \in DOMAIN fs /\ Old(k) # p /\ gs[k] = fs[Old(k)]
  BY <1>1
<1>3. \A j, k \in DOMAIN gs : j < k <=> Old(j) < Old(k)
  BY <1>1
<1>4. \A i \in DOMAIN fs : i # p => \E k \in DOMAIN gs : Old(k) = i
  <2> TAKE i \in DOMAIN fs
  <2> SUFFICES ASSUME i # p PROVE \E k \in DOMAIN gs : Old(k) = i
    OBVIOUS
  <2>1. CASE i < p
    <3>1. i \in DOMAIN gs /\ Old(i) = i
      BY <1>1, <2>1
    <3> QED
      BY <3>1
  <2>2. CASE i > p
    <3>1. i - 1 \in DOMAIN gs /\ Old(i - 1) = i
      BY <1>1, <2>2
    <3> QED
      BY <3>1
  <2> QED
    BY <1>1, <2>1, <2>2
<1>5. \A k \in DOMAIN gs : k + 1 \in DOMAIN gs /\ Old(k) + 1 # p => Old(k + 1) = Old(k) + 1
  BY <1>1
<1>6. \A k \in DOMAIN gs : Old(k) + 1 \in DOMAIN fs /\ Old(k) + 1 # p => k + 1 \in DOMAIN gs
  BY <1>1
<1> HIDE DEF Old
<1>7. HasHello(gs) <=> HasHello(fs)
  <2>1. HasHello(gs) => HasHello(fs)
    BY <1>2 DEF HasHello
  <2>2. ASSUME HasHello(fs) PROVE HasHello(gs)
    <3>1. PICK i \in DOMAIN fs : fs[i].kind = "hello"
      BY <2>2 DEF HasHello
    <3>2. PICK k \in DOMAIN gs : Old(k) = i
      BY <1>4, <3>1
    <3> QED
      BY <1>2, <3>1, <3>2 DEF HasHello
  <2> QED
    BY <2>1, <2>2
<1>8. HasGoodbye(gs) => HasGoodbye(fs)
  BY <1>2 DEF HasGoodbye
<1>9. ASSUME Framed(fs) PROVE Framed(gs)
  <2>1. ASSUME NEW k \in DOMAIN gs, gs[k].kind \in NeedsHello
        PROVE  \E j \in 1 .. k - 1 : gs[j].kind = "hello"
    <3>1. fs[Old(k)].kind \in NeedsHello /\ Old(k) \in DOMAIN fs
      BY <1>2, <2>1
    <3>2. PICK i \in 1 .. Old(k) - 1 : fs[i].kind = "hello"
      BY <1>9, <3>1 DEF Framed
    <3>3. i \in DOMAIN fs /\ i # p /\ i < Old(k)
      BY <1>1, <3>1, <3>2
    <3>4. PICK j \in DOMAIN gs : Old(j) = i
      BY <1>4, <3>3
    <3>5. j < k /\ gs[j].kind = "hello"
      BY <1>2, <1>3, <3>2, <3>3, <3>4
    <3>6. j \in 1 .. k - 1
      BY <1>1, <3>5
    <3> QED
      BY <3>5, <3>6
  <2>2. ASSUME NEW j \in DOMAIN gs, gs[j].kind = "hello"
        PROVE  /\ \A k \in DOMAIN gs : gs[k].kind = "hello" => k = j
               /\ j + 1 \in DOMAIN gs /\ gs[j + 1].kind = "span"
    <3>1. fs[Old(j)].kind = "hello" /\ Old(j) \in DOMAIN fs
      BY <1>2, <2>2
    <3>2. /\ \A i \in DOMAIN fs : fs[i].kind = "hello" => i = Old(j)
          /\ Old(j) + 1 \in DOMAIN fs /\ fs[Old(j) + 1].kind = "span"
      BY <1>9, <3>1 DEF Framed
    <3>3. Old(j) + 1 # p
      BY <1>1, <3>1, <3>2
    <3>4. j + 1 \in DOMAIN gs /\ Old(j + 1) = Old(j) + 1
      BY <1>5, <1>6, <3>2, <3>3
    <3>5. gs[j + 1].kind = "span"
      BY <1>2, <3>2, <3>4
    <3>6. ASSUME NEW k \in DOMAIN gs, gs[k].kind = "hello" PROVE k = j
      <4>1. Old(k) = Old(j)
        BY <1>2, <3>2, <3>6
      <4> QED
        BY <1>1, <1>3, <4>1
    <3> QED
      BY <3>4, <3>5, <3>6
  <2> QED
    BY <2>1, <2>2 DEF Framed
<1>10. ASSUME Ends(fs) PROVE Ends(gs)
  BY <1>2, <1>3, <1>10 DEF Ends
<1>11. ASSUME SpansInOrder(fs) PROVE SpansInOrder(gs)
  <2>1. \A k \in SpanAt(gs) : k \in DOMAIN gs /\ Old(k) \in SpanAt(fs) /\ gs[k] = fs[Old(k)]
    BY <1>2 DEF SpanAt
  <2> QED
    BY <1>3, <1>11, <2>1 DEF SpansInOrder
<1>12. ASSUME fs[p].kind # "span" PROVE SpanIds(gs) = SpanIds(fs)
  <2>1. SpanIds(gs) \subseteq SpanIds(fs)
    BY <1>2 DEF SpanIds, SpanAt
  <2>2. ASSUME NEW i \in SpanAt(fs) PROVE fs[i].id \in SpanIds(gs)
    <3>1. i \in DOMAIN fs /\ i # p /\ fs[i].kind = "span"
      BY <1>12, <2>2 DEF SpanAt
    <3>2. PICK k \in DOMAIN gs : Old(k) = i
      BY <1>4, <3>1
    <3> QED
      BY <1>2, <3>1, <3>2 DEF SpanIds, SpanAt
  <2> QED
    BY <2>1, <2>2 DEF SpanIds
<1> QED
  BY <1>7, <1>8, <1>9, <1>10, <1>11, <1>12

(* A stretch of envelopes, behind its Hello, with the frames that follow.  *)
LEMMA BurstFrames ==
  ASSUME NEW ids \in Seq(Nat), NEW rest \in Seq(Frame), hello_sent \in BOOLEAN,
         \A k \in DOMAIN rest : rest[k].kind \notin {"hello", "span"},
         \A k \in DOMAIN rest : rest[k].kind \in NeedsHello => hello_sent \/ ids # <<>>
  PROVE  LET x == Burst(ids, rest)
         IN  /\ x \in Seq(Frame)
             /\ MayFollow(x, hello_sent)
             /\ hello_sent \/ HasHello(x) <=> hello_sent \/ ids # <<>>
             /\ SpanIds(x) = Ids(ids)
             /\ Rising(ids) => SpansInOrder(x)
             /\ Ends(rest) => Ends(x)
             /\ HasGoodbye(x) <=> HasGoodbye(rest)
<1> DEFINE h == Hello(ids)
           f == [k \in DOMAIN ids |-> SpanFrame(ids[k])]
           g == h \o f
           x == g \o rest
<1>1. /\ Len(ids) \in Nat /\ DOMAIN ids = 1 .. Len(ids)
      /\ \A k \in DOMAIN ids : ids[k] \in Nat
  BY SeqBasics
<1>2. h = IF hello_sent \/ ids = <<>> THEN <<>> ELSE <<FrameOf("hello")>>
  BY DEF Hello
<1>3. f \in Seq(Frame) /\ DOMAIN f = DOMAIN ids /\ \A k \in DOMAIN ids : f[k].kind = "span" /\ f[k].id = ids[k]
  <2>1. f \in [1 .. Len(ids) -> Frame]
    BY <1>1, FrameTyped
  <2>2. f \in Seq(Frame)
    BY <1>1, <2>1, SeqDef
  <2> QED
    BY <1>1, <2>2, FrameTyped
<1>4. h \in Seq(Frame) /\ SpanIds(h) = {} /\ ~HasGoodbye(h)
  <2>1. CASE hello_sent \/ ids = <<>>
    BY <1>2, <2>1, EmptySeq DEF SpanIds, SpanAt, HasGoodbye
  <2>2. CASE ~(hello_sent \/ ids = <<>>)
    <3>1. h = <<FrameOf("hello")>> /\ FrameOf("hello") \in Frame /\ FrameOf("hello").kind = "hello"
      BY <1>2, <2>2, FrameTyped DEF Kind
    <3>2. <<FrameOf("hello")>> \in Seq(Frame)
      BY <3>1
    <3> QED
      BY <3>1, <3>2 DEF SpanIds, SpanAt, HasGoodbye
  <2> QED
    BY <2>1, <2>2
<1>5. SpanAt(f) = DOMAIN ids /\ SpanIds(f) = Ids(ids) /\ ~HasHello(f) /\ ~HasGoodbye(f)
  <2> HIDE DEF f
  <2>1. SpanAt(f) = DOMAIN ids
    BY <1>3 DEF SpanAt
  <2>2. SpanIds(f) = Ids(ids)
    BY <1>3, <2>1 DEF SpanIds, Ids
  <2> QED
    BY <1>3, <2>1, <2>2 DEF HasHello, HasGoodbye
<1>6. Rising(ids) => SpansInOrder(f)
  BY <1>3, <1>5 DEF Rising, SpansInOrder
<1>7. SpanIds(rest) = {} /\ ~HasHello(rest)
  BY DEF SpanIds, SpanAt, HasHello
<1>8. x = Burst(ids, rest)
  BY DEF Burst
<1> HIDE DEF h, f
<1>9. /\ g \in Seq(Frame) /\ SpanIds(g) = Ids(ids) /\ ~HasGoodbye(g)
      /\ HasHello(g) <=> HasHello(h)
      /\ Rising(ids) => SpansInOrder(g)
  <2>1. SpansInOrder(h)
    BY <1>4 DEF SpansInOrder, SpanIds
  <2>2. /\ g \in Seq(Frame)
        /\ SpanIds(g) = SpanIds(h) \cup SpanIds(f)
        /\ HasHello(g) <=> HasHello(h) \/ HasHello(f)
        /\ HasGoodbye(g) <=> HasGoodbye(h) \/ HasGoodbye(f)
        /\ SpansInOrder(h) /\ SpansInOrder(f) /\ (\A i \in SpanIds(h), j \in SpanIds(f) : i < j)
             => SpansInOrder(g)
    BY <1>3, <1>4, StreamConcat
  <2> QED
    BY <1>4, <1>5, <1>6, <2>1, <2>2
<1>10. /\ Len(h) \in Nat /\ DOMAIN h = 1 .. Len(h)
       /\ \A k \in DOMAIN h : k \in DOMAIN g /\ g[k] = h[k]
       /\ \A k \in DOMAIN f : Len(h) + k \in DOMAIN g /\ g[Len(h) + k] = f[k]
       /\ \A k \in DOMAIN g : k \in DOMAIN h \/ (k - Len(h) \in DOMAIN f /\ k > Len(h))
  BY <1>3, <1>4, ConcatParts, SeqBasics
<1> HIDE DEF g
<1>11. /\ x \in Seq(Frame) /\ SpanIds(x) = Ids(ids)
       /\ HasGoodbye(x) <=> HasGoodbye(rest)
       /\ HasHello(x) <=> HasHello(h)
       /\ Rising(ids) => SpansInOrder(x)
       /\ Ends(rest) => Ends(x)
  <2>1. SpansInOrder(rest)
    BY <1>7 DEF SpansInOrder, SpanIds
  <2>2. /\ x \in Seq(Frame)
        /\ SpanIds(x) = SpanIds(g) \cup SpanIds(rest)
        /\ HasHello(x) <=> HasHello(g) \/ HasHello(rest)
        /\ HasGoodbye(x) <=> HasGoodbye(g) \/ HasGoodbye(rest)
        /\ SpansInOrder(g) /\ SpansInOrder(rest) /\ (\A i \in SpanIds(g), j \in SpanIds(rest) : i < j)
             => SpansInOrder(x)
        /\ ~HasGoodbye(g) /\ Ends(rest) => Ends(x)
    BY <1>9, StreamConcat
  <2> QED
    BY <1>7, <1>9, <2>1, <2>2
<1>12. /\ DOMAIN x = 1 .. Len(g) + Len(rest)
       /\ Len(g) \in Nat /\ DOMAIN g = 1 .. Len(g) /\ Len(rest) \in Nat /\ DOMAIN rest = 1 .. Len(rest)
       /\ \A k \in DOMAIN g : k \in DOMAIN x /\ x[k] = g[k]
       /\ \A k \in DOMAIN rest : Len(g) + k \in DOMAIN x /\ x[Len(g) + k] = rest[k]
       /\ \A k \in DOMAIN x : k \in DOMAIN g \/ (k - Len(g) \in DOMAIN rest /\ k > Len(g))
  BY <1>9, ConcatParts, SeqBasics
<1> HIDE DEF x
<1>13. \A k \in DOMAIN x : k \in DOMAIN g \/ \E j \in DOMAIN rest : x[k] = rest[j]
  <2> TAKE k \in DOMAIN x
  <2>1. CASE k - Len(g) \in DOMAIN rest
    <3>1. Len(g) + (k - Len(g)) = k
      BY <1>12
    <3> QED
      BY <1>12, <2>1, <3>1
  <2> QED
    BY <1>12, <2>1
<1>14. CASE hello_sent \/ ids = <<>>
  <2>1. h = <<>> /\ ~HasHello(h)
    BY <1>2, <1>14 DEF HasHello
  <2>2. \A k \in DOMAIN x : x[k].kind # "hello"
    BY <1>11, <2>1 DEF HasHello
  <2>3. ASSUME NEW k \in DOMAIN x, x[k].kind \in NeedsHello, ~hello_sent PROVE FALSE
    <3>1. ids = <<>> /\ DOMAIN f = {}
      BY <1>1, <1>3, <1>14, <2>3
    <3>2. k \notin DOMAIN g
      BY <1>10, <2>1, <3>1
    <3>3. PICK j \in DOMAIN rest : x[k] = rest[j]
      BY <1>13, <3>2
    <3> QED
      BY <2>3, <3>1, <3>3
  <2> QED
    BY <1>8, <1>11, <1>14, <2>1, <2>2, <2>3 DEF MayFollow
<1>15. CASE ~(hello_sent \/ ids = <<>>)
  <2>1. h = <<FrameOf("hello")>> /\ FrameOf("hello").kind = "hello"
    BY <1>2, <1>15, FrameTyped DEF Kind
  <2>2. Len(h) = 1 /\ 1 \in DOMAIN h /\ h[1].kind = "hello" /\ HasHello(h)
    BY <2>1 DEF HasHello
  <2>3. 1 \in DOMAIN ids
    BY <1>1, <1>15, SeqBasics
  <2>4. 1 \in DOMAIN x /\ x[1].kind = "hello"
    BY <1>10, <1>12, <2>2
  <2>5. 2 \in DOMAIN x /\ x[2].kind = "span"
    <3>1. Len(h) + 1 \in DOMAIN g /\ g[Len(h) + 1].kind = "span"
      BY <1>3, <1>10, <2>3
    <3>2. Len(h) + 1 = 2
      BY <2>2
    <3> QED
      BY <1>12, <3>1, <3>2
  <2>6. ASSUME NEW k \in DOMAIN x, x[k].kind = "hello" PROVE k = 1
    <3>1. k \in DOMAIN g /\ x[k] = g[k]
      BY <1>12, <1>13, <2>6
    <3>2. k - Len(h) \notin DOMAIN f \/ k <= Len(h)
      <4> SUFFICES ASSUME k - Len(h) \in DOMAIN f, k > Len(h) PROVE FALSE
        BY <1>10, <1>12, <3>1
      <4>1. Len(h) + (k - Len(h)) = k
        BY <1>10, <1>12, <3>1
      <4> QED
        BY <1>3, <1>10, <2>6, <3>1, <4>1
    <3> QED
      BY <1>10, <1>12, <2>2, <3>1, <3>2
  <2> QED
    BY <1>8, <1>11, <1>15, <2>2, <2>4, <2>5, <2>6 DEF MayFollow
<1> QED
  BY <1>14, <1>15

LEMMA OneFrame ==
  ASSUME NEW q \in Seq(Frame), NEW f \in Frame
  PROVE  Append(q, f) = q \o Burst(<<>>, <<f>>) /\ <<f>> \in Seq(Frame)
<1>1. <<f>> \in Seq(Frame) /\ <<>> \in Seq(Frame)
  BY EmptySeq
<1>2. Hello(<<>>) = <<>>
  BY DEF Hello
<1>3. [k \in DOMAIN <<>> |-> SpanFrame(<<>>[k])] = <<>>
  OBVIOUS
<1>4. Burst(<<>>, <<f>>) = (<<>> \o <<>>) \o <<f>>
  BY <1>2, <1>3 DEF Burst
<1>5. (<<>> \o <<>>) \o <<f>> = <<f>>
  BY <1>1, ConcatEmptySeq
<1>6. Append(q, f) = q \o <<f>>
  BY AppendIsConcat
<1> QED
  BY <1>1, <1>4, <1>5, <1>6
-----------------------------------------------------------------------------
(* What the steps do to the buffer, the batch and the stream.              *)
LEMMA Types ==
  ASSUME TypeOK
  PROVE  /\ emitted \in Nat /\ accepted \in Nat /\ accepted <= emitted /\ staged \in Nat
         /\ events \in Seq(1 .. emitted) /\ events \in Seq(Nat)
         /\ batch \in Seq(1 .. emitted) /\ batch \in Seq(Nat)
         /\ Len(events) \in Nat /\ DOMAIN events = 1 .. Len(events)
         /\ Ids(events) \subseteq 1 .. emitted /\ Ids(batch) \subseteq 1 .. emitted
         /\ sendq \in Seq(Frame) /\ received \in Seq(Frame) /\ Sent \in Seq(Frame)
         /\ hello_sent \in BOOLEAN
         /\ IsFiniteSet(refs) /\ Cardinality(refs) \in Nat
<1>1. /\ emitted \in Nat /\ accepted \in Nat /\ accepted <= emitted /\ staged \in Nat
      /\ events \in Seq(1 .. emitted) /\ batch \in Seq(1 .. emitted)
      /\ sendq \in Seq(Frame) /\ received \in Seq(Frame) /\ hello_sent \in BOOLEAN
      /\ refs \subseteq 1 .. emitted
  BY BoundsAssumption DEF TypeOK
<1>2. events \in Seq(Nat) /\ batch \in Seq(Nat)
  <2>1. 1 .. emitted \subseteq Nat
    OBVIOUS
  <2> QED
    BY <1>1, <2>1, SeqMonotonic
<1>3. Sent \in Seq(Frame)
  BY <1>1, ConcatProperties DEF Sent
<1>4. IsFiniteSet(1 .. emitted)
  BY <1>1, FS_Interval
<1>5. IsFiniteSet(refs)
  BY <1>1, <1>4, FS_Subset
<1>6. Cardinality(refs) \in Nat
  BY <1>5, FS_CardinalityType
<1> QED
  BY <1>1, <1>2, <1>3, <1>5, <1>6, SeqBasics

Flagged == IF staging THEN {emitted + 1} ELSE {}

(* An envelope enters the buffer, and perhaps another one leaves it.       *)
LEMMA Pushed ==
  ASSUME TypeOK, PushEnvelope
  PROVE  /\ emitted < MaxEmits /\ emitted' = emitted + 1 /\ staging' = FALSE
         /\ events' \in Seq(1 .. emitted + 1)
         /\ Ids(events') \subseteq Ids(events) \cup {emitted + 1}
         /\ emitted + 1 \in Ids(events')
         /\ Ids(events) \subseteq Ids(events') \cup dropped'
         /\ Rising(events) => Rising(events')
         /\ \/ /\ dropped' = dropped /\ Ids(events') = Ids(events) \cup {emitted + 1}
               /\ Len(events') = Len(events) + 1
               /\ \/ Len(events) < Capacity /\ refs' = refs \cup Flagged
                  \/ \E i \in refs : refs' = (refs \ {i}) \cup Flagged
            \/ /\ \E i \in Ids(events) : dropped' = dropped \cup {i} /\ (Rising(events) => i \notin Ids(events'))
               /\ Len(events') = Len(events) /\ refs' = refs \cup Flagged
<1> DEFINE e == emitted + 1
<1>1. /\ emitted \in Nat /\ events \in Seq(1 .. emitted) /\ events \in Seq(Nat) /\ e \in Nat
      /\ events \in Seq(1 .. e) /\ Len(events) \in Nat /\ DOMAIN events = 1 .. Len(events)
      /\ \A i \in Ids(events) : i \in Nat /\ i < e
  <2>1. /\ emitted \in Nat /\ events \in Seq(1 .. emitted) /\ events \in Seq(Nat)
        /\ Len(events) \in Nat /\ DOMAIN events = 1 .. Len(events) /\ Ids(events) \subseteq 1 .. emitted
    BY Types
  <2>2. 1 .. emitted \subseteq 1 .. e
    BY <2>1
  <2> QED
    BY <2>1, <2>2, SeqMonotonic
<1>2. /\ Append(events, e) \in Seq(1 .. e) /\ Len(Append(events, e)) = Len(events) + 1
      /\ Ids(Append(events, e)) = Ids(events) \cup {e}
      /\ Rising(events) => Rising(Append(events, e))
  <2>1. e \in 1 .. e
    BY <1>1
  <2> QED
    BY <1>1, <2>1, OneMore, AppendProperties
<1>3. emitted < MaxEmits /\ emitted' = e /\ staging' = FALSE
  BY DEF PushEnvelope
<1>4. CASE /\ dropped' = dropped /\ events' = Append(events, e)
           /\ \/ Len(events) < Capacity /\ refs' = refs \cup Flagged
              \/ \E i \in refs : refs' = (refs \ {i}) \cup Flagged
  BY <1>2, <1>3, <1>4
<1>5. CASE \E k \in DOMAIN events :
             /\ events' = Append(RemoveAt(events, k), e)
             /\ refs' = refs \cup Flagged /\ dropped' = dropped \cup {events[k]}
  <2>1. PICK k \in DOMAIN events :
             /\ events' = Append(RemoveAt(events, k), e)
             /\ refs' = refs \cup Flagged /\ dropped' = dropped \cup {events[k]}
    BY <1>5
  <2> DEFINE r == RemoveAt(events, k)
  <2>2. /\ r \in Seq(Nat) /\ Len(r) = Len(events) - 1
        /\ Ids(r) \subseteq Ids(events)
        /\ Ids(events) \subseteq Ids(r) \cup {events[k]}
        /\ Rising(events) => Rising(r) /\ events[k] \notin Ids(r)
    BY <1>1, Without
  <2> HIDE DEF r
  <2>0. \A s \in Seq(Nat), x \in Nat : Append(s, x) \in Seq(Nat) /\ Len(Append(s, x)) = Len(s) + 1
    BY AppendProperties
  <2>a. Append(r, e) \in Seq(Nat) /\ Len(Append(r, e)) = Len(r) + 1
    BY <1>1, <2>0, <2>2
  <2>b. \A i \in Ids(r) : i < e
    BY <1>1, <2>2
  <2>3. /\ Ids(Append(r, e)) = Ids(r) \cup {e}
        /\ Rising(r) => Rising(Append(r, e))
    BY <1>1, <2>2, <2>b, OneMore
  <2>4. events' = Append(r, e)
    BY <2>1 DEF r
  <2>c. Len(events') = Len(events)
    <3>1. Len(events') = Len(r) + 1
      BY <2>a, <2>4
    <3>2. Len(r) = Len(events) - 1
      BY <2>2
    <3> HIDE DEF e
    <3> QED
      BY ONLY <1>1, <3>1, <3>2
  <2>5. Ids(events') = Ids(r) \cup {e} /\ (Rising(events) => Rising(events')) /\ Len(events') = Len(events)
    BY <2>2, <2>3, <2>4, <2>c
  <2>6. events' \in Seq(1 .. e)
    <3>1. events' \in Seq(Nat)
      BY <2>a, <2>4
    <3>2. \A j \in DOMAIN events' : events'[j] \in 1 .. e
      <4>1. \A i \in Ids(events') : i \in 1 .. e
        <5>1. Ids(events) \subseteq 1 .. emitted
          BY Types
        <5> QED
          BY <1>1, <2>2, <2>5, <5>1
      <4> QED
        BY <4>1 DEF Ids
    <3>3. events' \in [1 .. Len(events') -> 1 .. e] /\ Len(events') \in Nat
      BY <3>1, <3>2, LenProperties
    <3> QED
      BY <3>3, SeqDef
  <2>7. events[k] \in Ids(events) /\ events[k] # e
    <3>1. events[k] \in Ids(events)
      BY DEF Ids
    <3> QED
      BY <1>1, <3>1
  <2>8. Rising(events) => events[k] \notin Ids(events')
    BY <2>2, <2>5, <2>7
  <2>9. Ids(events') \subseteq Ids(events) \cup {e} /\ e \in Ids(events') /\ Ids(events) \subseteq Ids(events') \cup dropped'
    BY <2>1, <2>2, <2>5
  <2>10. \E i \in Ids(events) : dropped' = dropped \cup {i} /\ (Rising(events) => i \notin Ids(events'))
    BY <2>1, <2>7, <2>8
  <2>11. refs' = refs \cup Flagged
    BY <2>1
  <2> QED
    BY <1>3, <2>5, <2>6, <2>9, <2>10, <2>11
<1> QED
  BY <1>4, <1>5 DEF PushEnvelope, Flagged

(* The buffer is cut for a batch, and for the last stretch of a stream.    *)
LEMMA Popped ==
  ASSUME TypeOK, PopBatch, batch = <<>>
  PROVE  /\ events' \in Seq(1 .. emitted) /\ batch' \in Seq(1 .. emitted)
         /\ Len(events') <= Len(events) /\ Len(batch') <= BatchMax
         /\ Pending' = Pending
<1> DEFINE n == Min2(BatchMax, Len(events))
<1>1. events \in Seq(1 .. emitted) /\ Len(events) \in Nat /\ BatchMax \in Nat
  BY Types, BatchAssumption
<1>2. n \in 0 .. Len(events) /\ n <= BatchMax
  BY <1>1 DEF Min2
<1>3. batch' = SubSeq(events, 1, n) /\ events' = SubSeq(events, n + 1, Len(events))
  BY DEF PopBatch
<1> HIDE DEF n
<1>4. /\ batch' \in Seq(1 .. emitted) /\ Len(batch') = n
      /\ events' \in Seq(1 .. emitted) /\ Len(events') = Len(events) - n
      /\ batch' \o events' = events
  BY <1>1, <1>2, <1>3, Cut
<1>5. Pending = events
  BY <1>1, ConcatEmptySeq DEF Pending
<1> QED
  BY <1>1, <1>2, <1>4, <1>5 DEF Pending

LEMMA Drained ==
  ASSUME TypeOK, DrainBuffer, batch = <<>>
  PROVE  /\ events' \in Seq(1 .. emitted) /\ Len(events') <= Len(events) /\ Len(events') <= staged
         /\ Remaining \in Seq(Nat)
         /\ Pending = Remaining \o Pending'
<1> DEFINE n == Min2(Capacity, Len(events))
<1>1. /\ events \in Seq(1 .. emitted) /\ Len(events) \in Nat /\ Capacity \in Nat /\ staged \in Nat
      /\ events \in Seq(Nat) /\ Len(events) <= Capacity + staged
  BY Types, CapacityAssumption DEF TypeOK
<1>2. n \in 0 .. Len(events) /\ (n = Capacity \/ n = Len(events))
  BY <1>1 DEF Min2
<1>3. Remaining = SubSeq(events, 1, n) /\ events' = SubSeq(events, Len(Remaining) + 1, Len(events)) /\ batch' = batch
  BY DEF Remaining, DrainBuffer
<1> HIDE DEF n
<1>4. Remaining \in Seq(Nat) /\ Len(Remaining) = n
  BY <1>1, <1>2, <1>3, Cut
<1>5. /\ events' \in Seq(1 .. emitted) /\ Len(events') = Len(events) - n
      /\ Remaining \o events' = events
  <2>1. events' = SubSeq(events, n + 1, Len(events))
    BY <1>3, <1>4
  <2>2. /\ SubSeq(events, n + 1, Len(events)) \in Seq(1 .. emitted)
        /\ Len(SubSeq(events, n + 1, Len(events))) = Len(events) - n
        /\ SubSeq(events, 1, n) \o SubSeq(events, n + 1, Len(events)) = events
    <3>1. events \in Seq(1 .. emitted) /\ n \in 0 .. Len(events)
      BY <1>1, <1>2
    <3> QED
      BY ONLY <3>1, Cut
  <2>3. Remaining = SubSeq(events, 1, n)
    BY <1>3
  <2> DEFINE front == SubSeq(events, 1, n)
             rest == SubSeq(events, n + 1, Len(events))
  <2>4. /\ rest \in Seq(1 .. emitted) /\ Len(rest) = Len(events) - n /\ front \o rest = events
        /\ Remaining = front /\ events' = rest
    BY <2>1, <2>2, <2>3
  <2> HIDE DEF front, rest
  <2> QED
    BY <2>4
<1>6. Pending = events /\ Pending' = events'
  <2>1. events' \in Seq(1 .. emitted)
    BY <1>5
  <2> QED
    BY <1>1, <1>3, <2>1, ConcatEmptySeq DEF Pending
<1>7. Len(events') <= Len(events) /\ Len(events') <= staged
  BY <1>1, <1>2, <1>5
<1>8. Pending = Remaining \o Pending'
  BY <1>5, <1>6
<1> QED
  BY <1>4, <1>5, <1>7, <1>8

(* What the steps do to the stream: a burst is put behind it, or the       *)
(* server takes the first frame that it has not seen.                      *)
LEMMA Appended ==
  ASSUME TypeOK, NEW x \in Seq(Frame), sendq' = sendq \o x, received' = received
  PROVE  Sent' = Sent \o x
<1>1. received \in Seq(Frame) /\ sendq \in Seq(Frame)
  BY Types
<1>2. (received \o sendq) \o x = received \o (sendq \o x)
  BY <1>1, ConcatAssociative
<1> QED
  BY <1>2 DEF Sent

LEMMA Bursts ==
  ASSUME TypeOK, Framing, ~HasGoodbye(Sent),
         NEW ids \in Seq(Nat), NEW rest \in Seq(Frame),
         \A k \in DOMAIN rest : rest[k].kind \notin {"hello", "span"},
         \A k \in DOMAIN rest : rest[k].kind \in NeedsHello => hello_sent \/ ids # <<>>,
         Ends(rest), SendBurst(ids, rest), received' = received
  PROVE  /\ Framing' /\ Ends(Sent')
         /\ SpanIds(Sent') = SpanIds(Sent) \cup Ids(ids)
         /\ SpansInOrder(Sent) /\ Rising(ids) /\ (\A i \in SpanIds(Sent), j \in Ids(ids) : i < j)
              => SpansInOrder(Sent')
         /\ HasGoodbye(Sent') <=> HasGoodbye(rest)
<1> DEFINE x == Burst(ids, rest)
<1>1. hello_sent \in BOOLEAN /\ Sent \in Seq(Frame)
  BY Types
<1>2. /\ x \in Seq(Frame)
      /\ MayFollow(x, hello_sent)
      /\ hello_sent \/ HasHello(x) <=> hello_sent \/ ids # <<>>
      /\ SpanIds(x) = Ids(ids)
      /\ Rising(ids) => SpansInOrder(x)
      /\ Ends(rest) => Ends(x)
      /\ HasGoodbye(x) <=> HasGoodbye(rest)
  BY <1>1, BurstFrames
<1>3. sendq' = sendq \o x /\ hello_sent' = (hello_sent \/ ids # <<>>)
  BY DEF SendBurst
<1> HIDE DEF x
<1>4. Sent' = Sent \o x
  BY <1>2, <1>3, Appended
<1>5. Framed(Sent) /\ (hello_sent <=> HasHello(Sent))
  BY DEF Framing, LazyHello, Framed, NeedsHello
<1>6. hello_sent = HasHello(Sent)
  BY <1>1, <1>5 DEF HasHello
<1>7. Framed(Sent \o x)
  <2>1. MayFollow(x, HasHello(Sent))
    BY <1>2, <1>6
  <2> QED
    BY <1>1, <1>2, <1>5, <2>1, FramedConcat
<1>8. /\ SpanIds(Sent \o x) = SpanIds(Sent) \cup SpanIds(x)
      /\ HasHello(Sent \o x) <=> HasHello(Sent) \/ HasHello(x)
      /\ HasGoodbye(Sent \o x) <=> HasGoodbye(Sent) \/ HasGoodbye(x)
      /\ SpansInOrder(Sent) /\ SpansInOrder(x) /\ (\A i \in SpanIds(Sent), j \in SpanIds(x) : i < j)
           => SpansInOrder(Sent \o x)
      /\ ~HasGoodbye(Sent) /\ Ends(x) => Ends(Sent \o x)
  BY <1>1, <1>2, StreamConcat
<1>9. Framing'
  <2>1. Framed(Sent') /\ (hello_sent' <=> HasHello(Sent'))
    BY <1>2, <1>3, <1>4, <1>5, <1>7, <1>8
  <2> QED
    BY <2>1 DEF Framing, LazyHello, Framed, NeedsHello, HasHello
<1> QED
  BY <1>2, <1>4, <1>8, <1>9

LEMMA FirstAndRest ==
  ASSUME NEW S, NEW s \in Seq(S), s # <<>>
  PROVE  s = <<Head(s)>> \o Tail(s)
<1>1. Len(s) \in Nat /\ Len(s) > 0 /\ Head(s) = s[1]
  BY SeqBasics
<1>2. SubSeq(s, 1, Len(s)) = <<s[1]>> \o SubSeq(s, 1 + 1, Len(s))
  <2>1. 1 \in 1 .. Len(s) /\ Len(s) \in 1 .. Len(s)
    BY <1>1
  <2> QED
    BY <2>1, SubSeqRecursiveFirst
<1>3. SubSeq(s, 1, Len(s)) = s
  BY SubSeqFull
<1>4. Tail(s) = SubSeq(s, 2, Len(s))
  BY TailIsSubSeq
<1> QED
  BY <1>1, <1>2, <1>3, <1>4

LEMMA Delivered ==
  ASSUME TypeOK, ServerReceives
  PROVE  \/ /\ received' = Append(received, Head(sendq)) /\ rpc' = "open" /\ Sent' = Sent
            /\ HasGoodbye(received') => HasGoodbye(received) \/ HasGoodbye(Sent)
         \/ /\ received' = received /\ rpc' \in {"failed", "closed"}
            /\ HasHello(Sent') <=> HasHello(Sent)
            /\ Framed(Sent) => Framed(Sent')
            /\ Ends(Sent) => Ends(Sent')
            /\ HasGoodbye(Sent') => HasGoodbye(Sent)
            /\ SpansInOrder(Sent) => SpansInOrder(Sent')
            /\ rpc' = "closed" => SpanIds(Sent') = SpanIds(Sent)
<1> DEFINE h == Head(sendq)
           t == Tail(sendq)
           a == received
<1>1. /\ a \in Seq(Frame) /\ sendq \in Seq(Frame) /\ Sent \in Seq(Frame) /\ sendq # <<>>
      /\ sendq' = t /\ Sent = a \o sendq /\ Sent' = received' \o t
  BY Types DEF ServerReceives, Sent
<1>2. h \in Frame /\ t \in Seq(Frame) /\ sendq = <<h>> \o t
  BY <1>1, HeadTailProperties, FirstAndRest
<1>3. \/ received' = Append(a, h) /\ rpc' = "open"
      \/ received' = a /\ rpc' = "failed" /\ a = <<>> /\ h.kind # "hello"
      \/ received' = a /\ rpc' = "closed" /\ h.kind = "eof"
  BY DEF ServerReceives
<1> HIDE DEF h, t, a
<1>4. <<h>> \in Seq(Frame)
  BY <1>2
<1>5. CASE received' = Append(a, h) /\ rpc' = "open"
  <2>1. Append(a, h) = a \o <<h>>
    BY <1>1, <1>2, AppendIsConcat
  <2>2. (a \o <<h>>) \o t = a \o (<<h>> \o t)
    BY <1>1, <1>2, <1>4, ConcatAssociative
  <2>3. Sent' = Sent
    BY <1>1, <1>2, <1>5, <2>1, <2>2
  <2>4. HasGoodbye(received') => HasGoodbye(Sent)
    <3>1. received' \in Seq(Frame)
      BY <1>1, <1>4, <1>5, <2>1, ConcatProperties
    <3>2. HasGoodbye(received' \o t) <=> HasGoodbye(received') \/ HasGoodbye(t)
      BY <1>2, <3>1, StreamConcat
    <3> QED
      BY <1>1, <2>3, <3>2
  <2> QED
    BY <1>5, <2>3, <2>4 DEF h, a
<1>6. CASE /\ received' = a /\ h.kind # "hello"
           /\ (rpc' = "failed" /\ a = <<>>) \/ (rpc' = "closed" /\ h.kind = "eof")
  <2> DEFINE p == Len(a) + 1
             fs == Sent
             gs == Sent'
  <2>1. Sent' = a \o t
    BY <1>1, <1>6
  <2>2. /\ Len(a) \in Nat /\ DOMAIN a = 1 .. Len(a)
        /\ Len(t) \in Nat /\ DOMAIN t = 1 .. Len(t)
    BY <1>1, <1>2, SeqBasics
  <2>3. /\ fs \in Seq(Frame) /\ Len(fs) = Len(a) + Len(sendq) /\ DOMAIN fs = 1 .. Len(fs)
        /\ \A k \in DOMAIN a : fs[k] = a[k]
        /\ \A k \in DOMAIN sendq : fs[Len(a) + k] = sendq[k]
    BY <1>1, ConcatParts
  <2>4. /\ gs \in Seq(Frame) /\ Len(gs) = Len(a) + Len(t)
        /\ \A k \in DOMAIN a : gs[k] = a[k]
        /\ \A k \in DOMAIN t : gs[Len(a) + k] = t[k]
    BY <1>1, <1>2, <2>1, ConcatParts
  <2>5. /\ Len(sendq) = 1 + Len(t) /\ DOMAIN sendq = 1 .. 1 + Len(t)
        /\ sendq[1] = h /\ \A k \in DOMAIN t : sendq[1 + k] = t[k]
    <3>1. /\ Len(<<h>> \o t) = Len(<<h>>) + Len(t) /\ DOMAIN (<<h>> \o t) = 1 .. Len(<<h>>) + Len(t)
          /\ \A k \in DOMAIN <<h>> : (<<h>> \o t)[k] = <<h>>[k]
          /\ \A k \in DOMAIN t : (<<h>> \o t)[Len(<<h>>) + k] = t[k]
      BY <1>2, <1>4, ConcatParts
    <3>2. Len(<<h>>) = 1 /\ 1 \in DOMAIN <<h>> /\ <<h>>[1] = h
      OBVIOUS
    <3> QED
      BY <1>2, <3>1, <3>2
  <2> HIDE DEF fs, gs
  <2>6. p \in DOMAIN fs /\ fs[p] = h
    <3>1. 1 \in DOMAIN sendq
      BY <2>2, <2>5
    <3>2. fs[Len(a) + 1] = h
      BY <2>3, <2>5, <3>1
    <3>3. p \in 1 .. Len(fs)
      BY <2>2, <2>3, <2>5
    <3> QED
      BY <2>3, <3>2, <3>3
  <2>7. Len(gs) = Len(fs) - 1
    BY <2>2, <2>3, <2>4, <2>5
  <2>8. ASSUME NEW k \in 1 .. Len(fs) - 1
        PROVE  gs[k] = IF k < p THEN fs[k] ELSE fs[k + 1]
    <3>1. CASE k < p
      <4>1. k \in DOMAIN a
        BY <2>2, <3>1
      <4> QED
        BY <2>3, <2>4, <3>1, <4>1
    <3>2. CASE ~(k < p)
      <4>1. /\ k - Len(a) \in DOMAIN t /\ Len(a) + (k - Len(a)) = k
            /\ 1 + (k - Len(a)) \in DOMAIN sendq /\ Len(a) + (1 + (k - Len(a))) = k + 1
        BY <2>2, <2>3, <2>5, <3>2
      <4>2. gs[k] = t[k - Len(a)]
        BY <2>4, <4>1
      <4>3. fs[k + 1] = sendq[1 + (k - Len(a))]
        BY <2>3, <4>1
      <4>4. sendq[1 + (k - Len(a))] = t[k - Len(a)]
        BY <2>5, <4>1
      <4> QED
        BY <3>2, <4>2, <4>3, <4>4
    <3> QED
      BY <3>1, <3>2
  <2>9. fs[p].kind # "hello" /\ (fs[p].kind = "span" => p = 1)
    BY <1>6, <2>6
  <2> HIDE DEF p
  <2>10. /\ HasHello(gs) <=> HasHello(fs)
         /\ Framed(fs) => Framed(gs)
         /\ Ends(fs) => Ends(gs)
         /\ HasGoodbye(gs) => HasGoodbye(fs)
         /\ SpansInOrder(fs) => SpansInOrder(gs)
         /\ fs[p].kind # "span" => SpanIds(gs) = SpanIds(fs)
    BY <2>3, <2>4, <2>6, <2>7, <2>8, <2>9, FrameLeaves
  <2>11. rpc' = "closed" => SpanIds(gs) = SpanIds(fs)
    BY <1>6, <2>6, <2>10
  <2>12. received' = received /\ rpc' \in {"failed", "closed"}
    BY <1>6 DEF a
  <2> QED
    BY <2>10, <2>11, <2>12 DEF fs, gs
<1>7. \/ received' = Append(a, h) /\ rpc' = "open"
      \/ /\ received' = a /\ h.kind # "hello"
         /\ (rpc' = "failed" /\ a = <<>>) \/ (rpc' = "closed" /\ h.kind = "eof")
  BY <1>3
<1> QED
  BY <1>5, <1>6, <1>7
-----------------------------------------------------------------------------
(* The buffer outgrows its capacity by no more than the payloads staged.   *)
LEMMA Cards ==
  ASSUME NEW R, IsFiniteSet(R), NEW x
  PROVE  /\ Cardinality(R) \in Nat
         /\ Cardinality(R \cup {x}) \in Nat /\ Cardinality(R \cup {x}) <= Cardinality(R) + 1
         /\ IsFiniteSet(R \ {x}) /\ Cardinality(R \ {x}) \in Nat
         /\ x \in R => Cardinality(R \ {x}) = Cardinality(R) - 1
<1>1. Cardinality(R) \in Nat
  BY FS_CardinalityType
<1>2. Cardinality(R \cup {x}) = IF x \in R THEN Cardinality(R) ELSE Cardinality(R) + 1
  BY FS_AddElement
<1>3. IsFiniteSet(R \ {x}) /\ Cardinality(R \ {x}) = IF x \in R THEN Cardinality(R) - 1 ELSE Cardinality(R)
  BY FS_RemoveElement
<1>4. Cardinality(R \ {x}) \in Nat
  BY <1>3, FS_CardinalityType
<1> QED
  BY <1>1, <1>2, <1>3, <1>4

LEMMA OutgrownStep ==
  ASSUME TypeOK, Outgrown, Phases, [Next]_vars
  PROVE  Outgrown'
<1> DEFINE flag == IF staging THEN 1 ELSE 0
<1>1. /\ Len(events) \in Nat /\ Capacity \in Nat /\ staged \in Nat /\ staging \in BOOLEAN
      /\ IsFiniteSet(refs) /\ Cardinality(refs) \in Nat
  BY Types, CapacityAssumption DEF TypeOK
<1>2. Excess \in Nat /\ Excess + Cardinality(refs) + flag <= staged
  BY <1>1 DEF Excess, Outgrown
<1>3. CASE StagePayload
  <2>1. UNCHANGED <<events, refs>> /\ staged' = staged + 1 /\ ~staging /\ staging' = TRUE
    BY <1>3 DEF StagePayload
  <2> QED
    BY <1>1, <1>2, <2>1 DEF Outgrown, Excess
<1>4. CASE PushEnvelope
  <2> DEFINE c == Cardinality(refs)
             c2 == Cardinality(refs')
  <2>1. \A R : IsFiniteSet(R) => Cardinality(R \cup Flagged) \in Nat /\ Cardinality(R \cup Flagged) <= Cardinality(R) + flag
    <3> SUFFICES ASSUME NEW R, IsFiniteSet(R)
                 PROVE  Cardinality(R \cup Flagged) \in Nat /\ Cardinality(R \cup Flagged) <= Cardinality(R) + flag
      OBVIOUS
    <3>1. CASE staging
      BY <3>1, Cards DEF Flagged
    <3>2. CASE ~staging
      <4>1. R \cup Flagged = R
        BY <3>2 DEF Flagged
      <4>2. Cardinality(R) \in Nat
        BY FS_CardinalityType
      <4> QED
        BY <3>2, <4>1, <4>2
    <3> QED
      BY <3>1, <3>2
  <2>2. /\ staging' = FALSE /\ staged' = staged
        /\ \/ /\ Len(events') = Len(events) + 1
              /\ \/ Len(events) < Capacity /\ refs' = refs \cup Flagged
                 \/ \E i \in refs : refs' = (refs \ {i}) \cup Flagged
           \/ Len(events') = Len(events) /\ refs' = refs \cup Flagged
    BY <1>4, Pushed DEF PushEnvelope
  <2>3. c2 \in Nat
    <3>1. IsFiniteSet(refs) /\ \A i : IsFiniteSet(refs \ {i})
      BY <1>1, Cards
    <3> QED
      BY <2>1, <2>2, <3>1
  <2>4. CASE Len(events') = Len(events) + 1 /\ Len(events) < Capacity /\ refs' = refs \cup Flagged
    <3>1. c2 <= c + flag
      BY <1>1, <2>1, <2>4
    <3>2. Excess = 0 /\ Excess' = 0
      BY <1>1, <2>4 DEF Excess
    <3> HIDE DEF c, c2
    <3>3. c2 <= staged
      BY <1>1, <1>2, <2>3, <3>1, <3>2 DEF c
    <3> QED
      BY <1>1, <2>2, <2>3, <3>2, <3>3 DEF Outgrown, c2
  <2>5. CASE Len(events') = Len(events) + 1 /\ \E i \in refs : refs' = (refs \ {i}) \cup Flagged
    <3>1. PICK i \in refs : refs' = (refs \ {i}) \cup Flagged
      BY <2>5
    <3>2. IsFiniteSet(refs \ {i}) /\ Cardinality(refs \ {i}) = c - 1
      BY <1>1, Cards
    <3>3. c2 <= (c - 1) + flag
      BY <2>1, <3>1, <3>2
    <3>4. Excess' \in Nat /\ Excess' <= Excess + 1
      BY <1>1, <2>5 DEF Excess
    <3>a. c \in Nat /\ flag \in Nat /\ staged \in Nat /\ Excess \in Nat /\ Excess + c + flag <= staged
      BY <1>1, <1>2
    <3>b. \A x, y, z, u, v, w \in Nat :
            x <= y + 1 /\ z <= (u - 1) + v /\ y + u + v <= w => x + z <= w
      OBVIOUS
    <3> HIDE DEF c, c2, flag
    <3>5. Excess' + c2 <= staged
      BY ONLY <2>3, <3>3, <3>4, <3>a, <3>b
    <3> QED
      BY <2>2, <2>3, <3>4, <3>5 DEF Outgrown, c2
  <2>6. CASE Len(events') = Len(events) /\ refs' = refs \cup Flagged
    <3>1. c2 <= c + flag
      BY <1>1, <2>1, <2>6
    <3>2. Excess' = Excess
      BY <2>6 DEF Excess
    <3> HIDE DEF c, c2
    <3>3. Excess' + c2 <= staged
      BY <1>1, <1>2, <2>3, <3>1, <3>2 DEF c
    <3> QED
      BY <1>2, <2>2, <2>3, <3>2, <3>3 DEF Outgrown, c2
  <2> QED
    BY <2>2, <2>4, <2>5, <2>6
<1>5. CASE PopBatch \/ Drain \/ TearDown
  <2>1. UNCHANGED <<refs, staging, staged>> /\ Len(events') \in Nat /\ Len(events') <= Len(events)
    <3>1. UNCHANGED <<refs, staging, staged>> /\ batch = <<>>
      BY <1>5 DEF PopBatch, Drain, TearDown, DrainBuffer, Phases
    <3>2. events' \in Seq(1 .. emitted) /\ Len(events') <= Len(events)
      BY <1>5, <3>1, Popped, Drained DEF Drain, TearDown
    <3> QED
      BY <3>1, <3>2, SeqBasics
  <2>2. Excess' \in Nat /\ Excess' <= Excess
    BY <1>1, <2>1 DEF Excess
  <2> QED
    BY <1>1, <1>2, <2>1, <2>2 DEF Outgrown
<1>6. ASSUME UNCHANGED <<events, refs, staging, staged>> PROVE Outgrown'
  BY <1>6 DEF Outgrown, Excess
<1>7. CASE \/ OpenSessionSubscription \/ Shutdown \/ Attempt \/ RunStops \/ ConnectFails \/ Connect
           \/ SendEnvelope \/ FlushChunk \/ EndIteration \/ CloseEnds \/ DrainTimesOut
           \/ SendControlAck \/ WelcomeArrives \/ ServerReceives \/ LinkFails \/ UNCHANGED vars
  <2>1. UNCHANGED <<events, refs, staging, staged>>
    BY <1>7 DEF OpenSessionSubscription, Shutdown, Attempt, RunStops, ConnectFails, Connect,
                SendEnvelope, FlushChunk, EndIteration, CloseEnds, DrainTimesOut,
                SendControlAck, WelcomeArrives, ServerReceives, LinkFails, vars, agent
  <2> QED
    BY <1>6, <2>1
<1> QED
  BY <1>3, <1>4, <1>5, <1>7 DEF Next, Worker
-----------------------------------------------------------------------------
LEMMA BreakerStep ==
  ASSUME TypeOK, Breaker, [Next]_vars
  PROVE  Breaker'
<1> USE DEF Breaker, BreakerCountsFailures
<1>1. /\ healthy \in BOOLEAN /\ breaker \in {"closed", "open", "half_open"} /\ failures \in Nat
      /\ BreakerThreshold \in Nat \ {0}
  BY BreakerAssumption, BoundsAssumption DEF TypeOK
<1>2. CASE Attempt
  BY <1>1, <1>2 DEF Attempt
<1>3. CASE ConnectFails
  <2>1. /\ pc' = "idle" /\ healthy' = healthy /\ failures' = failures + 1 /\ pc = "connecting"
        /\ breaker' = IF failures + 1 >= BreakerThreshold \/ breaker = "half_open" THEN "open" ELSE breaker
    BY <1>3 DEF ConnectFails
  <2> QED
    BY <1>1, <2>1
<1>4. CASE Connect \/ PopBatch \/ Drain
  BY <1>1, <1>4 DEF Connect, PopBatch, Drain, DrainBuffer, link
<1>5. CASE SendEnvelope
  BY <1>1, <1>5 DEF SendEnvelope, MarkHealthy
<1>6. CASE EndIteration
  BY <1>1, <1>6 DEF EndIteration, MarkHealthy, link
<1>7. CASE RunStops \/ CloseEnds \/ DrainTimesOut \/ TearDown
  BY <1>1, <1>7 DEF RunStops, CloseEnds, DrainTimesOut, TearDown, DrainBuffer, link
<1>8. CASE \/ StagePayload \/ PushEnvelope \/ OpenSessionSubscription \/ Shutdown \/ FlushChunk
           \/ SendControlAck \/ WelcomeArrives \/ ServerReceives \/ LinkFails \/ UNCHANGED vars
  <2>1. UNCHANGED <<pc, link>>
    BY <1>8 DEF StagePayload, PushEnvelope, OpenSessionSubscription, Shutdown, FlushChunk,
                SendControlAck, WelcomeArrives, ServerReceives, LinkFails, vars
  <2> QED
    BY <2>1 DEF link
<1> QED
  BY <1>2, <1>3, <1>4, <1>5, <1>6, <1>7, <1>8 DEF Next, Worker

LEMMA PhasesStep ==
  ASSUME TypeOK, Phases, [Next]_vars
  PROVE  Phases'
<1> USE DEF Phases
<1>1. CASE \/ StagePayload \/ PushEnvelope \/ OpenSessionSubscription \/ UNCHANGED vars
  BY <1>1 DEF StagePayload, PushEnvelope, OpenSessionSubscription, sending, stream, vars, agent
<1>2. CASE Shutdown
  BY <1>2 DEF Shutdown, sending, stream
<1>3. CASE Attempt \/ RunStops \/ ConnectFails
  BY <1>3 DEF Attempt, RunStops, ConnectFails, agent, sending, stream
<1>4. CASE Connect
  BY <1>4 DEF Connect, agent
<1>5. CASE PopBatch
  BY <1>5 DEF PopBatch, stream
<1>6. CASE SendEnvelope \/ FlushChunk
  <2>1. pc = "sending" /\ UNCHANGED <<pc, rpc>>
    BY <1>6 DEF SendEnvelope, FlushChunk
  <2> QED
    BY <2>1
<1>7. CASE EndIteration
  <2>1. /\ pc = "sending" /\ batch = <<>> /\ UNCHANGED <<batch, rpc, stop>>
        /\ pc' = IF stop THEN "draining" ELSE "waiting"
    BY <1>7 DEF EndIteration, agent
  <2> QED
    BY <2>1
<1>8. CASE Drain
  <2>1. pc = "draining" /\ pc' = "closing" /\ UNCHANGED <<rpc, batch, stop>>
    BY <1>8 DEF Drain, DrainBuffer
  <2> QED
    BY <2>1
<1>9. CASE CloseEnds \/ DrainTimesOut
  BY <1>9 DEF CloseEnds, DrainTimesOut, agent, sending, stream
<1>10. CASE TearDown
  <2>1. pc = "waiting" /\ pc' = "ended" /\ rpc' = "failed" /\ UNCHANGED <<batch, stop>>
    BY <1>10 DEF TearDown, DrainBuffer
  <2> QED
    BY <2>1
<1>11. CASE SendControlAck \/ WelcomeArrives
  <2>1. rpc = "open" /\ UNCHANGED <<pc, rpc, batch, stop>>
    BY <1>11 DEF SendControlAck, WelcomeArrives, agent, sending
  <2> QED
    BY <2>1
<1>12. CASE ServerReceives \/ LinkFails
  <2>1. rpc = "open" /\ rpc' \in {"open", "failed", "closed"} /\ UNCHANGED <<pc, batch, stop>>
    BY <1>12 DEF ServerReceives, LinkFails, agent, sending
  <2> QED
    BY <2>1
<1> QED
  BY <1>1, <1>2, <1>3, <1>4, <1>5, <1>6, <1>7, <1>8, <1>9, <1>10, <1>11, <1>12 DEF Next, Worker

(* The parts of TypeOK: the agent's variables, the thread's, the stream's. *)
AgentOK ==
  /\ emitted \in 0 .. MaxEmits /\ accepted \in 0 .. emitted
  /\ events \in Seq(1 .. emitted) /\ refs \subseteq 1 .. emitted /\ dropped \subseteq 1 .. emitted
  /\ staging \in BOOLEAN /\ session_sub \in BOOLEAN /\ stop \in BOOLEAN
  /\ staged \in 0 .. MaxPayloads /\ chunks \in 0 .. staged
  /\ batch \in Seq(1 .. emitted) /\ Len(batch) <= BatchMax

ThreadOK ==
  /\ pc \in {"idle", "connecting", "waiting", "sending", "draining", "closing", "ended"}
  /\ since_chunk \in 0 .. ChunkInterleave
  /\ hello_sent \in BOOLEAN /\ healthy \in BOOLEAN /\ welcome \in BOOLEAN
  /\ acks \in 0 .. MaxAcks /\ heartbeats \in 0 .. MaxHeartbeats
  /\ breaker \in {"closed", "open", "half_open"} /\ failures \in 0 .. MaxFailures
  /\ rpc \in {"none", "open", "failed", "closed"}

StreamOK == sendq \in Seq(Frame) /\ received \in Seq(Frame)

LEMMA AgentOKStep ==
  ASSUME TypeOK, Phases, [Next]_vars
  PROVE  AgentOK'
<1>1. /\ AgentOK /\ emitted \in Nat /\ accepted \in Nat /\ staged \in Nat /\ chunks \in Nat
      /\ MaxEmits \in Nat /\ MaxPayloads \in Nat /\ BatchMax \in Nat /\ accepted <= emitted
  BY BoundsAssumption, BatchAssumption DEF TypeOK, AgentOK
<1>2. CASE StagePayload
  <2>1. /\ staged < MaxPayloads /\ staging' = TRUE /\ chunks' = chunks + 1 /\ staged' = staged + 1
        /\ UNCHANGED <<emitted, accepted, events, refs, dropped, session_sub, stop, batch>>
    BY <1>2 DEF StagePayload, sending
  <2> QED
    BY <1>1, <2>1 DEF AgentOK
<1>3. CASE PushEnvelope
  <2>1. /\ emitted < MaxEmits /\ emitted' = emitted + 1 /\ staging' = FALSE
        /\ UNCHANGED <<accepted, session_sub, stop, staged, chunks, batch>>
    BY <1>3 DEF PushEnvelope, sending
  <2>2. events' \in Seq(1 .. emitted')
    BY <1>3, <2>1, Pushed
  <2>3. 1 .. emitted \subseteq 1 .. emitted' /\ emitted + 1 \in 1 .. emitted'
    BY <1>1, <2>1
  <2>4. batch \in Seq(1 .. emitted')
    BY <1>1, <2>3, SeqMonotonic DEF AgentOK
  <2>5. refs' \subseteq 1 .. emitted'
    <3>1. Flagged \subseteq 1 .. emitted'
      BY <2>3 DEF Flagged
    <3>2. refs' \subseteq refs \cup Flagged
      BY <1>3, Pushed
    <3> QED
      BY <1>1, <2>3, <3>1, <3>2 DEF AgentOK
  <2>6. dropped' \subseteq 1 .. emitted'
    <3>1. dropped' \subseteq dropped \cup Ids(events)
      BY <1>3, Pushed
    <3>2. Ids(events) \subseteq 1 .. emitted
      BY Types
    <3> QED
      BY <1>1, <2>3, <3>1, <3>2 DEF AgentOK
  <2>7. emitted' \in 0 .. MaxEmits /\ accepted' \in 0 .. emitted'
    BY <1>1, <2>1
  <2> QED
    BY <1>1, <2>1, <2>2, <2>4, <2>5, <2>6, <2>7 DEF AgentOK
<1>4. CASE OpenSessionSubscription \/ Shutdown
  <2>1. /\ session_sub' \in BOOLEAN /\ stop' \in BOOLEAN /\ accepted' \in {accepted, emitted}
        /\ UNCHANGED <<emitted, events, refs, dropped, staging, staged, chunks, batch>>
    BY <1>1, <1>4 DEF OpenSessionSubscription, Shutdown, sending, AgentOK
  <2> QED
    BY <1>1, <2>1 DEF AgentOK
<1>5. CASE PopBatch \/ Drain \/ TearDown
  <2>1. /\ UNCHANGED <<emitted, accepted, refs, dropped, staging, session_sub, stop, staged, chunks>>
        /\ batch = <<>>
    BY <1>5 DEF PopBatch, Drain, TearDown, DrainBuffer, Phases
  <2>2. events' \in Seq(1 .. emitted) /\ batch' \in Seq(1 .. emitted) /\ Len(batch') <= BatchMax
    <3>1. CASE PopBatch
      BY <2>1, <3>1, Popped
    <3>2. CASE Drain \/ TearDown
      <4>1. DrainBuffer /\ batch' = batch
        BY <3>2 DEF Drain, TearDown, DrainBuffer
      <4> QED
        BY <1>1, <2>1, <4>1, Drained DEF AgentOK
    <3> QED
      BY <1>5, <3>1, <3>2
  <2> QED
    BY <1>1, <2>1, <2>2 DEF AgentOK
<1>6. CASE SendEnvelope
  <2> DEFINE due == since_chunk + 1 >= ChunkInterleave
             chunk == IF due /\ chunks > 0 THEN <<FrameOf("chunk")>> ELSE <<>>
  <2>1. /\ batch # <<>> /\ batch' = Tail(batch) /\ chunks' = chunks - Len(chunk)
        /\ UNCHANGED <<emitted, accepted, events, refs, dropped, staging, session_sub, stop, staged>>
    BY <1>6 DEF SendEnvelope
  <2>2. batch' \in Seq(1 .. emitted) /\ Len(batch') = Len(batch) - 1 /\ Len(batch) \in Nat
    BY <1>1, <2>1, HeadTailProperties, LenProperties DEF AgentOK
  <2>3. Len(batch') <= BatchMax
    BY <1>1, <2>2 DEF AgentOK
  <2>4. chunks' \in 0 .. staged
    <3>1. CASE due /\ chunks > 0
      <4>1. Len(chunk) = 1
        BY <3>1
      <4> QED
        BY <1>1, <2>1, <3>1, <4>1 DEF AgentOK
    <3>2. CASE ~(due /\ chunks > 0)
      <4>1. Len(chunk) = 0
        BY <3>2
      <4> HIDE DEF chunk
      <4> QED
        BY <1>1, <2>1, <4>1 DEF AgentOK
    <3> QED
      BY <3>1, <3>2
  <2> QED
    BY <1>1, <2>1, <2>2, <2>3, <2>4 DEF AgentOK
<1>7. CASE FlushChunk
  <2>1. /\ chunks > 0 /\ chunks' = chunks - 1
        /\ UNCHANGED <<emitted, accepted, events, refs, dropped, staging, session_sub, stop, staged, batch>>
    BY <1>7 DEF FlushChunk, sending
  <2> QED
    BY <1>1, <2>1 DEF AgentOK
<1>8. CASE \/ Attempt \/ RunStops \/ ConnectFails \/ Connect \/ EndIteration \/ CloseEnds \/ DrainTimesOut
           \/ SendControlAck \/ WelcomeArrives \/ ServerReceives \/ LinkFails \/ UNCHANGED vars
  <2>1. UNCHANGED <<agent, batch>>
    BY <1>8 DEF Attempt, RunStops, ConnectFails, Connect, EndIteration, CloseEnds, DrainTimesOut,
                SendControlAck, WelcomeArrives, ServerReceives, LinkFails, vars, sending
  <2> QED
    BY <1>1, <2>1 DEF AgentOK, agent
<1> QED
  BY <1>2, <1>3, <1>4, <1>5, <1>6, <1>7, <1>8 DEF Next, Worker

LEMMA ThreadOKStep ==
  ASSUME TypeOK, [Next]_vars
  PROVE  ThreadOK'
<1>1. /\ ThreadOK /\ since_chunk \in Nat /\ ChunkInterleave \in Nat \ {0} /\ since_chunk <= ChunkInterleave
      /\ acks \in Nat /\ heartbeats \in Nat /\ failures \in Nat /\ stop \in BOOLEAN
      /\ MaxAcks \in Nat /\ MaxHeartbeats \in Nat /\ MaxFailures \in Nat
  BY BoundsAssumption, BatchAssumption DEF TypeOK, ThreadOK
<1> USE DEF ThreadOK
<1>2. CASE StagePayload \/ PushEnvelope \/ OpenSessionSubscription \/ Shutdown \/ UNCHANGED vars
  BY <1>1, <1>2 DEF StagePayload, PushEnvelope, OpenSessionSubscription, Shutdown, sending, link, stream, vars
<1>3. CASE Attempt \/ RunStops
  BY <1>1, <1>3 DEF Attempt, RunStops, sending, link, stream
<1>4. CASE ConnectFails
  BY <1>1, <1>4 DEF ConnectFails, sending, stream
<1>5. CASE Connect
  BY <1>1, <1>5 DEF Connect, link
<1>6. CASE PopBatch
  BY <1>1, <1>6 DEF PopBatch, link, stream
<1>7. CASE SendEnvelope
  <2>1. /\ UNCHANGED <<pc, acks, heartbeats, welcome, rpc>> /\ MarkHealthy
        /\ since_chunk' = IF since_chunk + 1 >= ChunkInterleave THEN 0 ELSE since_chunk + 1
        /\ hello_sent' \in BOOLEAN
    BY <1>7 DEF SendEnvelope, SendBurst
  <2>2. since_chunk' \in 0 .. ChunkInterleave
    BY <1>1, <2>1
  <2>3. healthy' \in BOOLEAN /\ breaker' \in {"closed", "open", "half_open"} /\ failures' \in 0 .. MaxFailures
    BY <1>1, <2>1 DEF MarkHealthy
  <2> QED
    BY <1>1, <2>1, <2>2, <2>3
<1>8. CASE FlushChunk
  BY <1>1, <1>8 DEF FlushChunk, sending, link
<1>9. CASE EndIteration
  <2>1. /\ pc' \in {"draining", "waiting"} /\ UNCHANGED <<since_chunk, hello_sent, acks, welcome, rpc>>
        /\ \/ UNCHANGED <<heartbeats, healthy, breaker, failures>>
           \/ heartbeats < MaxHeartbeats /\ heartbeats' = heartbeats + 1 /\ MarkHealthy
    BY <1>9 DEF EndIteration, link
  <2>2. heartbeats' \in 0 .. MaxHeartbeats
    BY <1>1, <2>1
  <2>3. healthy' \in BOOLEAN /\ breaker' \in {"closed", "open", "half_open"} /\ failures' \in 0 .. MaxFailures
    <3>1. CASE MarkHealthy
      BY <1>1, <3>1 DEF MarkHealthy
    <3>2. CASE UNCHANGED <<healthy, breaker, failures>>
      BY <1>1, <3>2
    <3> QED
      BY <2>1, <3>1, <3>2
  <2> QED
    BY <1>1, <2>1, <2>2, <2>3
<1>10. CASE Drain \/ TearDown
  <2>1. /\ pc' \in {"closing", "ended"} /\ rpc' \in {rpc, "failed"} /\ hello_sent' \in BOOLEAN
        /\ UNCHANGED <<since_chunk, acks, heartbeats, link, welcome>>
    BY <1>10 DEF Drain, TearDown, DrainBuffer, SendBurst
  <2> QED
    BY <1>1, <2>1 DEF link
<1>11. CASE CloseEnds \/ DrainTimesOut
  BY <1>1, <1>11 DEF CloseEnds, DrainTimesOut, sending, link, stream
<1>12. CASE SendControlAck
  BY <1>1, <1>12 DEF SendControlAck, link
<1>13. CASE WelcomeArrives \/ LinkFails
  BY <1>1, <1>13 DEF WelcomeArrives, LinkFails, sending, link
<1>14. CASE ServerReceives
  <2>1. rpc' \in {rpc, "failed", "closed"} /\ UNCHANGED <<pc, sending, link, welcome>>
    BY <1>14 DEF ServerReceives
  <2> QED
    BY <1>1, <2>1 DEF sending, link
<1> QED
  BY <1>2, <1>3, <1>4, <1>5, <1>6, <1>7, <1>8, <1>9, <1>10, <1>11, <1>12, <1>13, <1>14 DEF Next, Worker
-----------------------------------------------------------------------------
(* Every step leaves the stream alone, opens it, delivers a frame of it or *)
(* puts a burst behind it; a burst takes its envelopes off the client's    *)
(* front, and none follows Goodbye.                                        *)
PlainFrames(rest, ids) ==
  /\ \A k \in DOMAIN rest : rest[k].kind \notin {"hello", "span"}
  /\ \A k \in DOMAIN rest : rest[k].kind \in NeedsHello => hello_sent \/ ids # <<>>
  /\ Ends(rest)

IsBurst ==
  \E ids \in Seq(Nat), rest \in Seq(Frame) :
    /\ PlainFrames(rest, ids) /\ SendBurst(ids, rest)
    /\ HasGoodbye(rest) => pc' \in {"closing", "ended"}
    /\ Pending = ids \o Pending'

BurstKeeps ==
  /\ UNCHANGED <<received, emitted, dropped, stop, accepted, staged>>
  /\ pc \notin {"closing", "ended"}
  /\ pc' = "closing" => Len(events') <= staged
  /\ events' \in Seq(1 .. emitted) /\ Pending' \in Seq(Nat)
  /\ rpc' \in {rpc, "failed"}

LEMMA PendingTyped ==
  ASSUME TypeOK
  PROVE  /\ Pending \in Seq(Nat)
         /\ Ids(Pending) = Ids(batch) \cup Ids(events)
         /\ Rising(Pending) => Rising(events)
         /\ batch = <<>> => Pending = events
<1>1. batch \in Seq(Nat) /\ events \in Seq(Nat)
  BY Types
<1>2. batch \o events \in Seq(Nat)
  BY <1>1, ConcatProperties
<1>3. /\ Ids(batch \o events) = Ids(batch) \cup Ids(events)
      /\ Rising(batch \o events) <=>
           Rising(batch) /\ Rising(events) /\ \A i \in Ids(batch), j \in Ids(events) : i < j
  BY <1>1, RisingConcat
<1>4. batch = <<>> => batch \o events = events
  BY <1>1, ConcatEmptySeq
<1> QED
  BY <1>2, <1>3, <1>4 DEF Pending

LEMMA PendingMoved ==
  ASSUME TypeOK, NEW ids \in Seq(Nat), batch' \in Seq(Nat), events' \in Seq(Nat), batch = ids \o batch', events' = events
  PROVE  Pending' \in Seq(Nat) /\ Pending = ids \o Pending'
<1>1. Pending' \in Seq(Nat)
  BY ConcatProperties DEF Pending
<1>2. (ids \o batch') \o events' = ids \o (batch' \o events')
  BY ConcatAssociative
<1> QED
  BY <1>1, <1>2 DEF Pending

LEMMA OneBurst ==
  ASSUME TypeOK, NEW kind \in {"chunk", "control_ack", "heartbeat"}, kind = "heartbeat" => hello_sent,
         sendq' = Append(sendq, FrameOf(kind)), UNCHANGED <<hello_sent, batch, events>>
  PROVE  IsBurst /\ Pending' \in Seq(Nat)
<1> DEFINE rest == <<FrameOf(kind)>>
           none == <<>>
<1>1. FrameOf(kind) \in Frame /\ FrameOf(kind).kind = kind
  BY FrameTyped DEF Kind
<1>2. sendq \in Seq(Frame) /\ hello_sent \in BOOLEAN /\ batch \in Seq(Nat) /\ events \in Seq(Nat)
  BY Types
<1>3. rest \in Seq(Frame) /\ none \in Seq(Nat) /\ sendq' = sendq \o Burst(none, rest)
  BY <1>1, <1>2, OneFrame, EmptySeq
<1>4. SendBurst(none, rest)
  BY <1>2, <1>3 DEF SendBurst
<1>5. PlainFrames(rest, none) /\ ~HasGoodbye(rest)
  BY <1>1 DEF PlainFrames, Ends, HasGoodbye, NeedsHello
<1>6. batch = none \o batch'
  BY <1>2, ConcatEmptySeq
<1>7. Pending' \in Seq(Nat) /\ Pending = none \o Pending'
  BY <1>2, <1>3, <1>6, PendingMoved
<1> HIDE DEF rest, none
<1> QED
  BY <1>3, <1>4, <1>5, <1>7 DEF IsBurst

LEMMA LastBurst ==
  ASSUME TypeOK, DrainBuffer, batch = <<>>, pc' \in {"closing", "ended"}
  PROVE  IsBurst /\ Pending' \in Seq(Nat)
<1> DEFINE bye == FrameOf("goodbye")
           end == FrameOf("eof")
           goodbye == IF hello_sent \/ Remaining # <<>> THEN <<bye>> ELSE <<>>
           rest == goodbye \o <<end>>
<1>1. bye \in Frame /\ bye.kind = "goodbye" /\ end \in Frame /\ end.kind = "eof"
  BY FrameTyped DEF Kind
<1>2. SendBurst(Remaining, rest) /\ batch' = batch
  BY DEF DrainBuffer
<1>3. Remaining \in Seq(Nat) /\ Pending = Remaining \o Pending'
  BY Drained
<1>4. Pending' \in Seq(Nat)
  <2>1. 1 .. emitted \subseteq Nat
    OBVIOUS
  <2>2. batch' \in Seq(1 .. emitted) /\ events' \in Seq(1 .. emitted)
    BY <1>2, Types, Drained
  <2>3. batch' \o events' \in Seq(1 .. emitted)
    BY <2>2, ConcatProperties
  <2> QED
    BY <2>1, <2>3, SeqMonotonic DEF Pending
<1> HIDE DEF bye, end
<1>5. rest \in Seq(Frame) /\ PlainFrames(rest, Remaining)
  <2>1. CASE hello_sent \/ Remaining # <<>>
    <3>1. rest = <<bye>> \o <<end>>
      BY <2>1
    <3>2. /\ <<bye>> \in Seq(Frame) /\ DOMAIN <<bye>> = {1} /\ Len(<<bye>>) = 1 /\ <<bye>>[1] = bye
          /\ <<end>> \in Seq(Frame) /\ DOMAIN <<end>> = {1} /\ Len(<<end>>) = 1 /\ <<end>>[1] = end
      BY <1>1
    <3> HIDE DEF rest
    <3>3. /\ rest \in Seq(Frame) /\ DOMAIN rest = 1 .. Len(<<bye>>) + Len(<<end>>)
          /\ \A k \in DOMAIN <<bye>> : rest[k] = <<bye>>[k]
          /\ \A k \in DOMAIN <<end>> : rest[Len(<<bye>>) + k] = <<end>>[k]
      BY <3>1, <3>2, ConcatParts
    <3> DEFINE a == <<bye>>
               b == <<end>>
    <3>4. /\ DOMAIN a = {1} /\ Len(a) = 1 /\ a[1] = bye /\ DOMAIN b = {1} /\ Len(b) = 1 /\ b[1] = end
          /\ DOMAIN rest = 1 .. Len(a) + Len(b)
          /\ \A k \in DOMAIN a : rest[k] = a[k]
          /\ \A k \in DOMAIN b : rest[Len(a) + k] = b[k]
      BY <3>2, <3>3
    <3> HIDE DEF a, b
    <3>5. DOMAIN rest = {1, 2} /\ rest[1].kind = "goodbye" /\ rest[2].kind = "eof"
      BY <1>1, <3>4
    <3>6. Ends(rest)
      BY <3>5 DEF Ends
    <3> QED
      BY <2>1, <3>3, <3>5, <3>6 DEF PlainFrames
  <2>2. CASE ~(hello_sent \/ Remaining # <<>>)
    <3>1. rest = <<>> \o <<end>>
      BY <2>2
    <3>2. <<end>> \in Seq(Frame)
      BY <1>1
    <3>3. rest = <<end>>
      BY <3>1, <3>2, ConcatEmptySeq
    <3> HIDE DEF rest
    <3>4. DOMAIN rest = {1} /\ rest[1].kind = "eof"
      BY <1>1, <3>3
    <3> QED
      BY <3>2, <3>3, <3>4 DEF PlainFrames, NeedsHello, Ends
  <2> QED
    BY <2>1, <2>2
<1> HIDE DEF rest
<1> QED
  BY <1>2, <1>3, <1>4, <1>5 DEF IsBurst

LEMMA StreamCases ==
  ASSUME TypeOK, Phases, [Next]_vars
  PROVE  \/ /\ UNCHANGED <<received, sendq, hello_sent>> /\ rpc' \in {rpc, "failed"}
            /\ PushEnvelope \/ PopBatch \/ UNCHANGED <<batch, events, emitted, dropped>>
         \/ Connect
         \/ ServerReceives
         \/ IsBurst /\ BurstKeeps
<1>0. batch \in Seq(Nat) /\ events \in Seq(Nat) /\ events \in Seq(1 .. emitted)
  BY Types
<1>1. CASE SendEnvelope
  <2> DEFINE chunk == IF since_chunk + 1 >= ChunkInterleave /\ chunks > 0 THEN <<FrameOf("chunk")>> ELSE <<>>
             ids == <<Head(batch)>>
  <2>1. /\ pc = "sending" /\ batch # <<>> /\ SendBurst(ids, chunk) /\ batch' = Tail(batch)
        /\ UNCHANGED <<emitted, events, dropped, staged, stop, accepted, pc, rpc, received>>
    BY <1>1 DEF SendEnvelope
  <2>2. Head(batch) \in Nat /\ batch' \in Seq(Nat) /\ batch = ids \o batch'
    BY <1>0, <2>1, HeadTailProperties, FirstAndRest
  <2>3. ids \in Seq(Nat) /\ ids # <<>>
    BY <2>2
  <2>4. Pending' \in Seq(Nat) /\ Pending = ids \o Pending'
    BY <1>0, <2>1, <2>2, <2>3, PendingMoved
  <2>5. chunk \in Seq(Frame) /\ PlainFrames(chunk, ids) /\ ~HasGoodbye(chunk)
    <3>1. FrameOf("chunk") \in Frame /\ FrameOf("chunk").kind = "chunk"
      BY FrameTyped DEF Kind
    <3>2. CASE chunk = <<FrameOf("chunk")>>
      <4>1. <<FrameOf("chunk")>> \in Seq(Frame)
        BY <3>1
      <4> HIDE DEF chunk, ids
      <4>2. DOMAIN chunk = {1} /\ chunk[1].kind = "chunk"
        BY <3>1, <3>2
      <4> QED
        BY <3>2, <4>1, <4>2 DEF PlainFrames, NeedsHello, Ends, HasGoodbye
    <3>3. CASE chunk = <<>>
      <4>1. <<>> \in Seq(Frame) /\ DOMAIN <<>> = {}
        BY EmptySeq
      <4> HIDE DEF chunk, ids
      <4> QED
        BY <3>3, <4>1 DEF PlainFrames, NeedsHello, Ends, HasGoodbye
    <3> QED
      BY <3>2, <3>3
  <2> HIDE DEF chunk, ids
  <2>6. IsBurst
    BY <2>1, <2>3, <2>4, <2>5 DEF IsBurst
  <2> QED
    BY <1>0, <2>1, <2>4, <2>6 DEF BurstKeeps
<1>2. CASE FlushChunk
  <2>1. /\ pc = "sending" /\ sendq' = Append(sendq, FrameOf("chunk"))
        /\ UNCHANGED <<hello_sent, batch, events, emitted, dropped, staged, stop, accepted, pc, rpc, received>>
    BY <1>2 DEF FlushChunk, sending
  <2>2. IsBurst /\ Pending' \in Seq(Nat)
    BY <2>1, OneBurst
  <2> QED
    BY <1>0, <2>1, <2>2 DEF BurstKeeps
<1>3. CASE EndIteration
  <2>1. CASE UNCHANGED sendq
    BY <1>3, <2>1 DEF EndIteration, agent
  <2>2. CASE hello_sent /\ sendq' = Append(sendq, FrameOf("heartbeat"))
    <3>1. /\ pc = "sending" /\ pc' \in {"draining", "waiting"}
          /\ UNCHANGED <<hello_sent, batch, events, emitted, dropped, staged, stop, accepted, rpc, received>>
      BY <1>3 DEF EndIteration, agent
    <3>2. IsBurst /\ Pending' \in Seq(Nat)
      BY <2>2, <3>1, OneBurst
    <3> QED
      BY <1>0, <3>1, <3>2 DEF BurstKeeps
  <2> QED
    BY <1>3, <2>1, <2>2 DEF EndIteration
<1>4. CASE SendControlAck
  <2>1. /\ pc = "waiting" /\ sendq' = Append(sendq, FrameOf("control_ack"))
        /\ UNCHANGED <<hello_sent, batch, events, emitted, dropped, staged, stop, accepted, pc, rpc, received>>
    BY <1>4 DEF SendControlAck, agent
  <2>2. IsBurst /\ Pending' \in Seq(Nat)
    BY <2>1, OneBurst
  <2> QED
    BY <1>0, <2>1, <2>2 DEF BurstKeeps
<1>5. CASE Drain \/ TearDown
  <2>1. /\ pc \in {"draining", "waiting"} /\ pc' \in {"closing", "ended"} /\ DrainBuffer /\ rpc' \in {rpc, "failed"}
        /\ UNCHANGED <<emitted, dropped, staged, stop, accepted, received>>
        /\ batch = <<>>
    BY <1>5 DEF Drain, TearDown, DrainBuffer, Phases
  <2>2. IsBurst /\ Pending' \in Seq(Nat)
    BY <2>1, LastBurst
  <2>3. events' \in Seq(1 .. emitted) /\ Len(events') <= staged
    BY <2>1, Drained
  <2> QED
    BY <2>1, <2>2, <2>3 DEF BurstKeeps
<1>6. CASE PushEnvelope \/ PopBatch
  BY <1>6 DEF PushEnvelope, PopBatch, sending, stream
<1>7. CASE \/ StagePayload \/ OpenSessionSubscription \/ Shutdown
           \/ Attempt \/ RunStops \/ ConnectFails \/ CloseEnds \/ DrainTimesOut
           \/ WelcomeArrives \/ LinkFails \/ UNCHANGED vars
  BY <1>7 DEF StagePayload, OpenSessionSubscription, Shutdown, Attempt, RunStops,
              ConnectFails, CloseEnds, DrainTimesOut, WelcomeArrives, LinkFails,
              vars, agent, sending, stream
<1> QED
  BY <1>1, <1>2, <1>3, <1>4, <1>5, <1>6, <1>7 DEF Next, Worker

(* Once the thread closes it only ends; shutdown() counts once; payloads   *)
(* are staged and never unstaged.                                          *)
LEMMA Closing ==
  ASSUME TypeOK, Phases, [Next]_vars
  PROVE  /\ stop => stop' /\ accepted' = accepted
         /\ staged' \in Nat /\ staged' >= staged
         /\ pc \in {"closing", "ended"} =>
              /\ pc' \in {"closing", "ended"}
              /\ PushEnvelope \/ UNCHANGED <<events, dropped>>
         /\ pc' = "closing" => pc = "closing" \/ (IsBurst /\ BurstKeeps)
<1>0. staged \in Nat
  BY Types
<1>1. CASE StagePayload
  BY <1>0, <1>1 DEF StagePayload
<1>2. CASE PushEnvelope \/ OpenSessionSubscription \/ Shutdown
  BY <1>0, <1>2 DEF PushEnvelope, OpenSessionSubscription, Shutdown
<1>3. CASE Attempt \/ RunStops \/ ConnectFails \/ Connect
  BY <1>0, <1>3 DEF Attempt, RunStops, ConnectFails, Connect, agent
<1>4. CASE PopBatch \/ SendEnvelope \/ FlushChunk \/ EndIteration
  BY <1>0, <1>4 DEF PopBatch, SendEnvelope, FlushChunk, EndIteration, agent
<1>5. CASE Drain
  <2>1. pc = "draining" /\ pc' = "closing" /\ UNCHANGED <<staged, stop, accepted, rpc>> /\ DrainBuffer /\ batch = <<>>
    BY <1>5 DEF Drain, DrainBuffer, Phases
  <2>2. IsBurst /\ BurstKeeps
    <3>1. IsBurst /\ Pending' \in Seq(Nat)
      BY <2>1, LastBurst
    <3>2. events' \in Seq(1 .. emitted) /\ Len(events') <= staged
      BY <2>1, Drained
    <3>3. UNCHANGED <<received, emitted, dropped>>
      BY <2>1 DEF DrainBuffer
    <3> QED
      BY <2>1, <3>1, <3>2, <3>3 DEF BurstKeeps
  <2> QED
    BY <1>0, <2>1, <2>2
<1>6. CASE CloseEnds \/ DrainTimesOut \/ TearDown
  BY <1>0, <1>6 DEF CloseEnds, DrainTimesOut, TearDown, DrainBuffer, agent
<1>7. CASE SendControlAck \/ WelcomeArrives \/ ServerReceives \/ LinkFails \/ UNCHANGED vars
  BY <1>0, <1>7 DEF SendControlAck, WelcomeArrives, ServerReceives, LinkFails, vars, agent
<1> QED
  BY <1>1, <1>2, <1>3, <1>4, <1>5, <1>6, <1>7 DEF Next, Worker

LEMMA StreamOKStep ==
  ASSUME TypeOK, Phases, [Next]_vars
  PROVE  StreamOK'
<1>1. sendq \in Seq(Frame) /\ received \in Seq(Frame) /\ hello_sent \in BOOLEAN
  BY Types
<1>2. CASE UNCHANGED <<received, sendq>>
  BY <1>1, <1>2 DEF StreamOK
<1>3. CASE Connect
  BY <1>3, EmptySeq DEF Connect, StreamOK
<1>4. CASE ServerReceives
  <2>1. sendq # <<>> /\ sendq' = Tail(sendq) /\ received' \in {received, Append(received, Head(sendq))}
    BY <1>4 DEF ServerReceives
  <2>2. Head(sendq) \in Frame /\ sendq' \in Seq(Frame)
    BY <1>1, <2>1, HeadTailProperties
  <2>3. Append(received, Head(sendq)) \in Seq(Frame)
    BY <1>1, <2>2, AppendProperties
  <2> QED
    BY <1>1, <2>1, <2>2, <2>3 DEF StreamOK
<1>5. CASE IsBurst /\ BurstKeeps
  <2>1. PICK ids \in Seq(Nat), rest \in Seq(Frame) : PlainFrames(rest, ids) /\ SendBurst(ids, rest)
    BY <1>5 DEF IsBurst
  <2>2. Burst(ids, rest) \in Seq(Frame)
    BY <1>1, <2>1, BurstFrames DEF PlainFrames
  <2>3. sendq' = sendq \o Burst(ids, rest) /\ received' = received
    BY <1>5, <2>1 DEF SendBurst, BurstKeeps
  <2> QED
    BY <1>1, <2>2, <2>3, ConcatProperties DEF StreamOK
<1> QED
  BY <1>2, <1>3, <1>4, <1>5, StreamCases

LEMMA TypeOKStep ==
  ASSUME TypeOK, Phases, Outgrown, [Next]_vars
  PROVE  TypeOK'
<1>1. AgentOK' /\ ThreadOK' /\ StreamOK' /\ Outgrown'
  BY AgentOKStep, ThreadOKStep, StreamOKStep, OutgrownStep
<1>2. Len(events') <= Capacity + staged'
  <2>1. /\ Len(events') \in Nat /\ Capacity \in Nat
        /\ staged' \in Nat /\ staging' \in BOOLEAN
    BY <1>1, CapacityAssumption, BoundsAssumption, LenProperties DEF AgentOK
  <2>2. Cardinality(refs') \in Nat
    <3>1. emitted' \in Nat /\ refs' \subseteq 1 .. emitted'
      BY <1>1, BoundsAssumption DEF AgentOK
    <3>a. IsFiniteSet(1 .. emitted')
      BY <3>1, FS_Interval
    <3>2. IsFiniteSet(refs')
      BY <3>1, <3>a, FS_Subset
    <3> QED
      BY <3>2, FS_CardinalityType
  <2>3. Excess' + Cardinality(refs') + (IF staging' THEN 1 ELSE 0) <= staged'
    BY <1>1 DEF Outgrown
  <2>4. Excess' \in Nat /\ (Len(events') > Capacity => Excess' = Len(events') - Capacity)
    BY <2>1 DEF Excess
  <2>5. Excess' <= staged'
    BY <2>1, <2>2, <2>3, <2>4
  <2> QED
    BY <2>1, <2>4, <2>5
<1> QED
  BY <1>1, <1>2 DEF TypeOK, AgentOK, ThreadOK, StreamOK
-----------------------------------------------------------------------------
LEMMA FramingStep ==
  ASSUME TypeOK, Phases, Framing, Farewell, [Next]_vars
  PROVE  Framing' /\ Ends(Sent') /\ (HasGoodbye(Sent') => pc' \in {"closing", "ended"})
<1>0. pc \in {"closing", "ended"} => pc' \in {"closing", "ended"}
  BY Closing
<1>1. Ends(Sent) /\ (HasGoodbye(Sent) => pc \in {"closing", "ended"})
  BY DEF Farewell
<1>2. CASE UNCHANGED <<received, sendq, hello_sent>>
  <2>1. Sent' = Sent /\ hello_sent' = hello_sent
    BY <1>2 DEF Sent
  <2> QED
    BY <1>0, <1>1, <2>1 DEF Framing, LazyHello, HasHello
<1>3. CASE Connect
  <2>1. Sent' = <<>> /\ ~hello_sent'
    <3>1. sendq' = <<>> /\ received' = <<>> /\ hello_sent' = FALSE
      BY <1>3 DEF Connect
    <3> QED
      BY <3>1, EmptySeq, ConcatEmptySeq DEF Sent
  <2> QED
    BY <2>1 DEF Framing, LazyHello, HasHello, HasGoodbye, Ends
<1>4. CASE ServerReceives
  <2>1. /\ HasHello(Sent') <=> HasHello(Sent)
        /\ Framed(Sent) => Framed(Sent')
        /\ Ends(Sent) => Ends(Sent')
        /\ HasGoodbye(Sent') => HasGoodbye(Sent)
    BY <1>4, Delivered
  <2>2. hello_sent' = hello_sent
    BY <1>4 DEF ServerReceives, sending
  <2>3. Framed(Sent) /\ (hello_sent <=> HasHello(Sent))
    BY DEF Framing, LazyHello, Framed, NeedsHello
  <2>4. Framed(Sent') /\ (hello_sent' <=> HasHello(Sent'))
    BY <2>1, <2>2, <2>3
  <2>5. Framing'
    BY <2>4 DEF Framing, LazyHello, Framed, NeedsHello, HasHello
  <2> QED
    BY <1>0, <1>1, <2>1, <2>5
<1>5. CASE IsBurst /\ BurstKeeps
  <2>1. PICK ids \in Seq(Nat), rest \in Seq(Frame) :
          /\ PlainFrames(rest, ids) /\ SendBurst(ids, rest)
          /\ HasGoodbye(rest) => pc' \in {"closing", "ended"}
    BY <1>5 DEF IsBurst
  <2>2. ~HasGoodbye(Sent) /\ received' = received
    BY <1>1, <1>5 DEF BurstKeeps
  <2>3. /\ Framing' /\ Ends(Sent')
        /\ HasGoodbye(Sent') <=> HasGoodbye(rest)
    BY <2>1, <2>2, Bursts DEF PlainFrames
  <2> QED
    BY <2>1, <2>3
<1> QED
  BY <1>2, <1>3, <1>4, <1>5, StreamCases

(* Every envelope in one place.                                            *)
Accounted ==
  /\ SpansInOrder(Sent) /\ Rising(Pending)
  /\ \A i \in SpanIds(Sent), j \in Ids(Pending) : i < j
  /\ SpanIds(Sent) \cup Ids(Pending) \cup dropped = 1 .. emitted
  /\ (SpanIds(Sent) \cup Ids(Pending)) \cap dropped = {}

LEMMA AccountedIs == EnvelopesAccounted <=> (rpc # "failed" => Accounted)
  BY DEF EnvelopesAccounted, PipelineInOrder, Pipeline, Accounted, SpansInOrder, Rising

LEMMA AccountedPush ==
  ASSUME TypeOK, Accounted, PushEnvelope, Sent' = Sent, batch' = batch
  PROVE  Accounted'
<1> DEFINE e == emitted + 1
           S == SpanIds(Sent)
           B == Ids(batch)
           E == Ids(events)
           F == Ids(events')
<1>1. /\ batch \in Seq(Nat) /\ events \in Seq(Nat) /\ emitted \in Nat
      /\ B \subseteq 1 .. emitted /\ E \subseteq 1 .. emitted
  BY Types
<1>2. /\ Ids(Pending) = B \cup E
      /\ Rising(Pending) <=> Rising(batch) /\ Rising(events) /\ \A i \in B, j \in E : i < j
  BY <1>1, RisingConcat DEF Pending
<1>3. /\ Rising(batch) /\ Rising(events) /\ \A i \in B, j \in E : i < j
      /\ SpansInOrder(Sent) /\ \A i \in S, j \in B \cup E : i < j
      /\ S \cup B \cup E \cup dropped = 1 .. emitted
      /\ (S \cup B \cup E) \cap dropped = {}
  BY <1>2 DEF Accounted
<1>4. /\ emitted' = e /\ events' \in Seq(1 .. e)
      /\ F \subseteq E \cup {e} /\ e \in F /\ E \subseteq F \cup dropped'
      /\ Rising(events')
      /\ \/ dropped' = dropped
         \/ \E i \in E : dropped' = dropped \cup {i} /\ i \notin F
  BY <1>3, Pushed
<1>5. events' \in Seq(Nat)
  <2>1. 1 .. e \subseteq Nat
    OBVIOUS
  <2> QED
    BY <1>4, <2>1, SeqMonotonic
<1>6. /\ Ids(Pending') = B \cup F
      /\ Rising(Pending') <=> Rising(batch) /\ Rising(events') /\ \A i \in B, j \in F : i < j
  <2>1. Pending' = batch \o events'
    BY DEF Pending
  <2> QED
    BY <1>1, <1>5, <2>1, RisingConcat
<1>7. \A i \in S \cup B \cup E : i \in Nat /\ i < e
  BY <1>1, <1>3
<1> HIDE DEF e, S, B, E, F
<1>8. \A i \in B, j \in F : i < j
  BY <1>3, <1>4, <1>7
<1>9. \A i \in S, j \in B \cup F : i < j
  BY <1>3, <1>4, <1>7
<1>10. S \cup B \cup F \cup dropped' = 1 .. e
  <2>1. 1 .. e = 1 .. emitted \cup {e}
    BY <1>1 DEF e
  <2>2. dropped' \subseteq dropped \cup E /\ dropped \subseteq dropped'
    BY <1>4
  <2>3. E \subseteq F \cup dropped' /\ F \subseteq E \cup {e} /\ e \in F
    BY <1>4
  <2> QED
    BY <1>3, <2>1, <2>2, <2>3
<1>11. (S \cup B \cup F) \cap dropped' = {}
  <2>1. e \notin dropped /\ e \notin E
    <3>1. e \notin 1 .. emitted
      BY <1>1 DEF e
    <3> QED
      BY <1>3, <3>1
  <2>2. CASE dropped' = dropped
    BY <1>3, <1>4, <2>1, <2>2
  <2>3. CASE \E i \in E : dropped' = dropped \cup {i} /\ i \notin F
    <3>1. PICK i \in E : dropped' = dropped \cup {i} /\ i \notin F
      BY <2>3
    <3>2. i \notin S /\ i \notin B
      <4>1. i \in Nat /\ ~(i < i)
        BY <1>7
      <4> QED
        BY <1>3, <4>1
    <3> QED
      BY <1>3, <1>4, <2>1, <3>1, <3>2
  <2> QED
    BY <1>4, <2>2, <2>3
<1>12. Rising(Pending')
  BY <1>3, <1>4, <1>6, <1>8
<1> QED
  BY <1>3, <1>4, <1>6, <1>9, <1>10, <1>11, <1>12 DEF Accounted, S

LEMMA AccountedBurst ==
  ASSUME TypeOK, Framing, Farewell, Accounted, IsBurst, BurstKeeps
  PROVE  Accounted'
<1>1. PICK ids \in Seq(Nat), rest \in Seq(Frame) :
        /\ PlainFrames(rest, ids) /\ SendBurst(ids, rest)
        /\ Pending = ids \o Pending'
  BY DEF IsBurst
<1>2. UNCHANGED <<received, emitted, dropped>> /\ Pending' \in Seq(Nat) /\ ~HasGoodbye(Sent)
  BY DEF BurstKeeps, Farewell
<1>3. /\ Ids(Pending) = Ids(ids) \cup Ids(Pending')
      /\ Rising(ids) /\ Rising(Pending') /\ \A i \in Ids(ids), j \in Ids(Pending') : i < j
  <2> DEFINE p == Pending'
  <2>1. Pending = ids \o p /\ p \in Seq(Nat)
    BY <1>1, <1>2
  <2> HIDE DEF p
  <2>2. /\ Ids(ids \o p) = Ids(ids) \cup Ids(p)
        /\ Rising(ids \o p) <=> Rising(ids) /\ Rising(p) /\ \A i \in Ids(ids), j \in Ids(p) : i < j
    BY <2>1, RisingConcat
  <2>3. /\ Ids(Pending) = Ids(ids) \cup Ids(p)
        /\ Rising(ids) /\ Rising(p) /\ \A i \in Ids(ids), j \in Ids(p) : i < j
    BY <2>1, <2>2 DEF Accounted
  <2> QED
    BY <2>3 DEF p
<1>4. /\ SpanIds(Sent') = SpanIds(Sent) \cup Ids(ids)
      /\ SpansInOrder(Sent) /\ Rising(ids) /\ (\A i \in SpanIds(Sent), j \in Ids(ids) : i < j)
           => SpansInOrder(Sent')
  BY <1>1, <1>2, Bursts DEF PlainFrames
<1>5. /\ SpansInOrder(Sent) /\ \A i \in SpanIds(Sent), j \in Ids(ids) \cup Ids(Pending') : i < j
      /\ SpanIds(Sent) \cup (Ids(ids) \cup Ids(Pending')) \cup dropped = 1 .. emitted
      /\ (SpanIds(Sent) \cup (Ids(ids) \cup Ids(Pending'))) \cap dropped = {}
  BY <1>3 DEF Accounted
<1>6. SpansInOrder(Sent')
  BY <1>3, <1>4, <1>5
<1>7. \A i \in SpanIds(Sent'), j \in Ids(Pending') : i < j
  BY <1>3, <1>4, <1>5
<1>8. /\ SpanIds(Sent') \cup Ids(Pending') \cup dropped' = 1 .. emitted'
      /\ (SpanIds(Sent') \cup Ids(Pending')) \cap dropped' = {}
  <2>1. SpanIds(Sent') \cup Ids(Pending') = SpanIds(Sent) \cup (Ids(ids) \cup Ids(Pending'))
    BY <1>4
  <2> QED
    BY <1>2, <1>5, <2>1
<1> QED
  BY <1>3, <1>6, <1>7, <1>8 DEF Accounted

LEMMA AccountedStep ==
  ASSUME TypeOK, Phases, Framing, Farewell, EnvelopesAccounted, [Next]_vars
  PROVE  EnvelopesAccounted'
<1> SUFFICES ASSUME rpc' # "failed" PROVE Accounted'
  BY DEF EnvelopesAccounted, PipelineInOrder, Pipeline, Accounted, SpansInOrder, Rising
<1>1. rpc # "failed" => Accounted
  BY AccountedIs
<1>2. ASSUME SpanIds(Sent') = SpanIds(Sent), SpansInOrder(Sent) => SpansInOrder(Sent'),
             Pending' = Pending, UNCHANGED <<emitted, dropped>>, rpc # "failed"
      PROVE  Accounted'
  BY <1>1, <1>2 DEF Accounted
<1>3. CASE UNCHANGED <<received, sendq>> /\ rpc' \in {rpc, "failed"} /\ PushEnvelope
  <2>1. Sent' = Sent /\ batch' = batch /\ rpc # "failed"
    BY <1>3 DEF Sent, PushEnvelope, sending
  <2> QED
    BY <1>1, <1>3, <2>1, AccountedPush
<1>4. CASE UNCHANGED <<received, sendq>> /\ rpc' \in {rpc, "failed"} /\ PopBatch
  <2>1. batch = <<>> /\ UNCHANGED <<emitted, dropped>> /\ Sent' = Sent /\ rpc # "failed"
    BY <1>4 DEF PopBatch, Phases, Sent
  <2>2. Pending' = Pending
    BY <1>4, <2>1, Popped
  <2> QED
    BY <1>2, <2>1, <2>2
<1>5. CASE UNCHANGED <<received, sendq, batch, events, emitted, dropped>> /\ rpc' \in {rpc, "failed"}
  <2>1. Sent' = Sent /\ Pending' = Pending /\ rpc # "failed"
    BY <1>5 DEF Sent, Pending
  <2> QED
    BY <1>2, <1>5, <2>1
<1>6. CASE Connect
  <2>1. /\ rpc = "none" /\ received = <<>> /\ sendq = <<>> /\ received' = <<>> /\ sendq' = <<>>
        /\ UNCHANGED <<emitted, dropped, batch, events>>
    BY <1>6 DEF Connect, Phases, agent
  <2>2. Sent' = Sent /\ Pending' = Pending
    BY <2>1 DEF Sent, Pending
  <2> QED
    BY <1>2, <2>1, <2>2
<1>7. CASE ServerReceives
  <2>1. rpc = "open" /\ UNCHANGED <<emitted, dropped, batch, events>>
    BY <1>7 DEF ServerReceives, agent, sending
  <2>2. Pending' = Pending
    BY <2>1 DEF Pending
  <2>3. SpanIds(Sent') = SpanIds(Sent) /\ (SpansInOrder(Sent) => SpansInOrder(Sent'))
    BY <1>7, Delivered
  <2> QED
    BY <1>2, <2>1, <2>2, <2>3
<1>8. CASE IsBurst /\ BurstKeeps
  <2>1. rpc # "failed"
    BY <1>8 DEF BurstKeeps
  <2> QED
    BY <1>1, <1>8, <2>1, AccountedBurst
<1> QED
  BY <1>3, <1>4, <1>5, <1>6, <1>7, <1>8, StreamCases
-----------------------------------------------------------------------------
(* No envelope stands behind Goodbye.                                      *)
LEMMA NothingAfter ==
  ASSUME NEW p \in Seq(Frame), NEW q \in Seq(Frame), Ends(p \o q), HasGoodbye(p)
  PROVE  SpanIds(p \o q) = SpanIds(p)
<1> DEFINE c == p \o q
<1>1. /\ Len(p) \in Nat /\ DOMAIN p = 1 .. Len(p)
      /\ Len(q) \in Nat /\ DOMAIN q = 1 .. Len(q)
  BY SeqBasics
<1>2. /\ \A k \in DOMAIN p : k \in DOMAIN c /\ c[k] = p[k]
      /\ \A k \in DOMAIN q : Len(p) + k \in DOMAIN c /\ c[Len(p) + k] = q[k]
  BY ConcatParts
<1>3. SpanIds(c) = SpanIds(p) \cup SpanIds(q)
  BY StreamConcat
<1>4. Ends(c)
  OBVIOUS
<1> HIDE DEF c
<1>5. PICK k \in DOMAIN p : p[k].kind = "goodbye"
  BY DEF HasGoodbye
<1>6. ASSUME NEW j \in SpanAt(q) PROVE FALSE
  <2>1. j \in DOMAIN q /\ q[j].kind = "span"
    BY <1>6 DEF SpanAt
  <2>2. Len(p) + j > k
    BY <1>1, <2>1
  <2>3. c[Len(p) + j].kind = "eof"
    BY <1>2, <1>4, <1>5, <2>1, <2>2 DEF Ends
  <2> QED
    BY <1>2, <2>1, <2>3
<1>7. SpanIds(q) = {}
  BY <1>6 DEF SpanIds
<1> QED
  BY <1>3, <1>7 DEF c

LEMMA Smaller ==
  ASSUME NEW T, IsFiniteSet(T), NEW S \in SUBSET T, NEW n \in Nat, Cardinality(T) <= n
  PROVE  Cardinality(S) <= n
<1>1. IsFiniteSet(S) /\ Cardinality(S) <= Cardinality(T)
  BY FS_Subset
<1>2. Cardinality(S) \in Nat /\ Cardinality(T) \in Nat
  BY <1>1, FS_CardinalityType
<1> DEFINE a == Cardinality(S)
           b == Cardinality(T)
<1>3. a \in Nat /\ b \in Nat /\ a <= b /\ b <= n
  BY <1>1, <1>2
<1> HIDE DEF a, b
<1>4. a <= n
  BY <1>3
<1> QED
  BY <1>4 DEF a

(* A sequence has no more elements than places.                            *)
LEMMA FewIds ==
  ASSUME NEW s \in Seq(Nat)
  PROVE  IsFiniteSet(Ids(s)) /\ Cardinality(Ids(s)) <= Len(s)
<1>1. Len(s) \in Nat /\ DOMAIN s = 1 .. Len(s)
  BY SeqBasics
<1>2. IsFiniteSet(1 .. Len(s)) /\ Cardinality(1 .. Len(s)) = Len(s)
  <2> DEFINE n == Len(s)
             c == Cardinality(1 .. n)
  <2>1. n \in Nat
    BY <1>1
  <2> HIDE DEF n
  <2>2. IsFiniteSet(1 .. n) /\ c = IF 1 > n THEN 0 ELSE n - 1 + 1
    BY <2>1, FS_Interval
  <2> HIDE DEF c
  <2>3. c = n
    BY <2>1, <2>2
  <2> QED
    BY <2>2, <2>3 DEF c, n
<1>3. s \in Surjection(1 .. Len(s), Ids(s))
  <2>1. s \in [1 .. Len(s) -> Ids(s)]
    BY <1>1, LenProperties DEF Ids
  <2>2. \A x \in Ids(s) : \E k \in 1 .. Len(s) : s[k] = x
    BY <1>1 DEF Ids
  <2> QED
    BY <2>1, <2>2 DEF Surjection
<1>4. Cardinality(Ids(s)) <= Cardinality(1 .. Len(s)) /\ IsFiniteSet(Ids(s))
  BY <1>2, <1>3, FS_Surjection
<1> QED
  BY <1>2, <1>4

LEMMA LateStep ==
  ASSUME TypeOK, TypeOK', Phases, Farewell, [Next]_vars, pc' = "closing"
  PROVE  Cardinality(Late') <= staged'
<1>1. /\ stop => stop' /\ accepted' = accepted
      /\ staged' \in Nat /\ staged' >= staged
      /\ pc = "closing" \/ (IsBurst /\ BurstKeeps)
      /\ pc = "closing" => PushEnvelope \/ UNCHANGED <<events, dropped>>
  BY Closing
<1>2. /\ staged \in Nat /\ emitted \in Nat /\ accepted \in Nat /\ accepted <= emitted
      /\ events \in Seq(Nat) /\ Ids(events) \subseteq 1 .. emitted
  BY Types
<1>3. CASE pc = "closing"
  <2>1. accepted' = accepted /\ Cardinality(Late) <= staged
    BY <1>1, <1>3 DEF Phases, Farewell
  <2>2. Ids(events') \subseteq Ids(events) \cup {emitted + 1}
    <3>1. CASE PushEnvelope
      BY <3>1, Pushed
    <3>2. CASE UNCHANGED events
      BY <3>2 DEF Ids
    <3> QED
      BY <1>1, <1>3, <3>1, <3>2
  <2>3. ~(emitted + 1 <= accepted)
    BY <1>2
  <2>4. Late' \subseteq Late
    BY <2>1, <2>2, <2>3 DEF Late
  <2>5. IsFiniteSet(Late)
    <3>1. IsFiniteSet(Ids(events)) /\ Late \subseteq Ids(events)
      BY <1>2, FewIds DEF Late
    <3> QED
      BY <3>1, FS_Subset
  <2>6. Cardinality(Late) <= staged'
    <3>1. Cardinality(Late) \in Nat
      BY <2>5, FS_CardinalityType
    <3> QED
      BY <1>1, <1>2, <2>1, <3>1
  <2> QED
    BY <1>1, <2>4, <2>5, <2>6, Smaller
<1>4. CASE IsBurst /\ BurstKeeps
  <2>1. Len(events') <= staged /\ events' \in Seq(Nat)
    <3>1. events' \in Seq(1 .. emitted) /\ Len(events') <= staged
      BY <1>4 DEF BurstKeeps
    <3>2. 1 .. emitted \subseteq Nat
      OBVIOUS
    <3> QED
      BY <3>1, <3>2, SeqMonotonic
  <2> DEFINE s == events'
  <2>2. s \in Seq(Nat) /\ Len(s) <= staged
    BY <2>1
  <2> HIDE DEF s
  <2>3. IsFiniteSet(Ids(s)) /\ Cardinality(Ids(s)) <= Len(s)
    BY <2>2, FewIds
  <2>4. Cardinality(Ids(s)) <= staged'
    <3>1. Cardinality(Ids(s)) \in Nat /\ Len(s) \in Nat
      BY <2>2, <2>3, FS_CardinalityType, LenProperties
    <3> QED
      BY <1>1, <1>2, <2>2, <2>3, <3>1
  <2>5. Late' \subseteq Ids(s)
    BY DEF Late, s, Ids
  <2> QED
    BY <1>1, <2>3, <2>4, <2>5, Smaller
<1> QED
  BY <1>1, <1>3, <1>4

LEMMA MissingKept ==
  ASSUME TypeOK, Phases, Farewell, [Next]_vars, HasGoodbye(received),
         HasGoodbye(Sent), SpanIds(received) \subseteq SpanIds(received')
  PROVE  stop' /\ Missing' \subseteq Ids(events') /\ Cardinality(Missing') <= staged'
<1>1. pc \in {"closing", "ended"}
  BY DEF Farewell
<1>2. /\ stop => stop' /\ accepted' = accepted
      /\ staged' \in Nat /\ staged' >= staged
      /\ PushEnvelope \/ UNCHANGED <<events, dropped>>
  BY <1>1, Closing
<1>3. stop /\ Missing \subseteq Ids(events) /\ Cardinality(Missing) <= staged
  BY DEF Farewell
<1>4. dropped \subseteq dropped' /\ Ids(events) \subseteq Ids(events') \cup dropped'
  <2>1. CASE PushEnvelope
    BY <2>1, Pushed
  <2>2. CASE UNCHANGED <<events, dropped>>
    BY <2>2 DEF Ids
  <2> QED
    BY <1>2, <2>1, <2>2
<1>5. Missing' = (1 .. accepted) \ (SpanIds(received') \cup dropped')
  BY <1>2, <1>3 DEF Missing
<1>6. Missing' \subseteq Missing
  BY <1>4, <1>5 DEF Missing
<1>7. Missing' \subseteq Ids(events')
  BY <1>3, <1>4, <1>5, <1>6
<1>8. IsFiniteSet(Missing) /\ staged \in Nat
  <2>1. accepted \in Nat /\ staged \in Nat
    BY Types
  <2>2. IsFiniteSet(1 .. accepted) /\ Missing \subseteq 1 .. accepted
    BY <2>1, FS_Interval DEF Missing
  <2> QED
    BY <2>1, <2>2, FS_Subset
<1>9. Cardinality(Missing) <= staged'
  <2>1. Cardinality(Missing) \in Nat
    BY <1>8, FS_CardinalityType
  <2> QED
    BY <1>2, <1>3, <1>8, <2>1
<1>10. Cardinality(Missing') <= staged'
  BY <1>2, <1>6, <1>8, <1>9, Smaller
<1> QED
  BY <1>2, <1>3, <1>7, <1>10

(* Goodbye reaches the server: what it has not got is left in the buffer.  *)
LEMMA MissingAtGoodbye ==
  ASSUME TypeOK, TypeOK', Phases, Farewell, EnvelopesAccounted, ServerReceives,
         Sent' = Sent, HasGoodbye(Sent), HasGoodbye(received')
  PROVE  stop' /\ Missing' \subseteq Ids(events') /\ Cardinality(Missing') <= staged'
<1>1. /\ pc = "closing" /\ stop /\ batch = <<>> /\ rpc # "failed" /\ Cardinality(Late) <= staged
      /\ UNCHANGED <<stop, accepted, dropped, events, staged>>
  BY DEF ServerReceives, Farewell, Phases, agent
<1>2. /\ SpanIds(Sent) \cup Ids(Pending) \cup dropped = 1 .. emitted
      /\ Ids(Pending) = Ids(events)
  <2>1. Pending = events
    BY <1>1, PendingTyped
  <2> QED
    BY <1>1, <2>1, AccountedIs DEF Accounted
<1>3. SpanIds(Sent) = SpanIds(received')
  <2> DEFINE p == received'
             q == sendq'
  <2>1. p \in Seq(Frame) /\ q \in Seq(Frame) /\ Sent = p \o q /\ HasGoodbye(p) /\ Ends(p \o q)
    BY DEF TypeOK, Sent, Farewell
  <2> HIDE DEF p, q
  <2>2. SpanIds(p \o q) = SpanIds(p)
    BY <2>1, NothingAfter
  <2> QED
    BY <2>1, <2>2 DEF p
<1>4. accepted \in Nat /\ emitted \in Nat /\ accepted <= emitted /\ staged \in Nat /\ events \in Seq(Nat)
  BY Types
<1>5. Missing' = (1 .. accepted) \ (SpanIds(Sent) \cup dropped)
  BY <1>1, <1>3 DEF Missing
<1>6. Missing' \subseteq Ids(events) /\ \A i \in Missing' : i <= accepted
  <2>1. 1 .. accepted \subseteq 1 .. emitted
    BY <1>4
  <2> QED
    BY <1>2, <1>4, <1>5, <2>1
<1>7. Missing' \subseteq Late
  BY <1>6 DEF Late
<1>8. IsFiniteSet(Late)
  <2>1. IsFiniteSet(Ids(events)) /\ Late \subseteq Ids(events)
    BY <1>4, FewIds DEF Late
  <2> QED
    BY <2>1, FS_Subset
<1>9. Cardinality(Missing') <= staged
  BY <1>1, <1>4, <1>7, <1>8, Smaller
<1>10. Ids(events') = Ids(events)
  BY <1>1 DEF Ids
<1> QED
  BY <1>1, <1>6, <1>9, <1>10

LEMMA FarewellStep ==
  ASSUME TypeOK, TypeOK', Phases, Framing, EnvelopesAccounted, Farewell, [Next]_vars
  PROVE  Farewell'
<1>1. Ends(Sent') /\ (HasGoodbye(Sent') => pc' \in {"closing", "ended"})
  BY FramingStep
<1>2. pc' = "closing" => Cardinality(Late') <= staged'
  BY LateStep
<1>3. received \in Seq(Frame) /\ sendq \in Seq(Frame) /\ (HasGoodbye(received) => HasGoodbye(Sent))
  <2>1. received \in Seq(Frame) /\ sendq \in Seq(Frame)
    BY Types
  <2> QED
    BY <2>1, StreamConcat DEF Sent
<1>4. ASSUME HasGoodbye(received')
      PROVE  stop' /\ Missing' \subseteq Ids(events') /\ Cardinality(Missing') <= staged'
  <2>1. CASE received' = received
    BY <1>3, <1>4, <2>1, MissingKept
  <2>2. CASE Connect
    BY <1>4, <2>2 DEF Connect, HasGoodbye
  <2>3. CASE ServerReceives /\ received' # received
    <3>1. Sent' = Sent /\ HasGoodbye(Sent)
      BY <1>3, <1>4, <2>3, Delivered
    <3> QED
      BY <1>4, <2>3, <3>1, MissingAtGoodbye
  <2> QED
    BY <2>1, <2>2, <2>3, StreamCases DEF BurstKeeps
<1> QED
  BY <1>1, <1>2, <1>4 DEF Farewell
-----------------------------------------------------------------------------
LEMMA InitIInv == Init => IInv
<1> SUFFICES ASSUME Init PROVE IInv
  OBVIOUS
<1> USE DEF Init
<1>1. TypeOK
  <2>0. \A n \in {MaxEmits, MaxPayloads, MaxAcks, MaxHeartbeats, MaxFailures, ChunkInterleave, emitted, staged} :
           0 \in 0 .. n
    BY BoundsAssumption, BatchAssumption
  <2>1. AgentOK
    <3>1. <<>> \in Seq(1 .. emitted) /\ Len(<<>>) = 0 /\ 0 <= BatchMax
      BY EmptySeq, BatchAssumption
    <3> QED
      BY <2>0, <3>1 DEF AgentOK
  <2>2. ThreadOK
    BY <2>0 DEF ThreadOK
  <2>3. StreamOK
    BY EmptySeq DEF StreamOK
  <2>4. Len(events) <= Capacity + staged
    BY CapacityAssumption
  <2> QED
    BY <2>1, <2>2, <2>3, <2>4 DEF TypeOK, AgentOK, ThreadOK, StreamOK
<1>2. Breaker /\ Phases
  BY BreakerAssumption DEF Breaker, BreakerCountsFailures, Phases
<1>3. Sent = <<>> /\ Pending = <<>>
  BY EmptySeq, ConcatEmptySeq DEF Sent, Pending
<1>4. Outgrown
  <2>1. Cardinality(refs) = 0
    BY FS_EmptySet
  <2>2. Excess = 0
    BY CapacityAssumption DEF Excess
  <2> QED
    BY <2>1, <2>2 DEF Outgrown
<1>5. Framing
  BY <1>3 DEF Framing, LazyHello, HasHello
<1>6. EnvelopesAccounted
  <2>1. SpanIds(Sent) = {} /\ Ids(Pending) = {} /\ SpansInOrder(Sent) /\ Rising(Pending)
    BY <1>3 DEF SpanIds, SpanAt, Ids, SpansInOrder, Rising
  <2>2. Accounted
    BY <2>1 DEF Accounted
  <2> QED
    BY <2>2, AccountedIs
<1>7. Farewell
  BY <1>3 DEF Farewell, HasGoodbye, Ends
<1> QED
  BY <1>1, <1>2, <1>4, <1>5, <1>6, <1>7 DEF IInv

LEMMA NextIInv == IInv /\ [Next]_vars => IInv'
<1> SUFFICES ASSUME IInv, [Next]_vars PROVE IInv'
  OBVIOUS
<1>1. TypeOK'
  BY TypeOKStep DEF IInv
<1>2. Breaker' /\ Phases' /\ Outgrown'
  BY BreakerStep, PhasesStep, OutgrownStep DEF IInv
<1>3. Framing' /\ EnvelopesAccounted'
  BY FramingStep, AccountedStep DEF IInv
<1>4. Farewell'
  BY <1>1, FarewellStep DEF IInv
<1> QED
  BY <1>1, <1>2, <1>3, <1>4 DEF IInv

LEMMA InvariantHolds == Spec => []IInv
<1> QED
  BY InitIInv, NextIInv, PTL DEF Spec

(* Every variable has its type, the buffer never outgrows its capacity by  *)
(* more than the payloads staged, and the breaker is open exactly when the *)
(* threshold of failures is reached, for every capacity and threshold      *)
(* (transport.py, _run, _on_failed_attempt; buffer.py, push).              *)
THEOREM ThreadIsConsistent == Spec => []ThreadConsistent
<1>1. IInv => ThreadConsistent
  BY DEF IInv, Breaker, ThreadConsistent
<1> QED
  BY <1>1, InvariantHolds, PTL

(* While the connection stands, every envelope ever emitted is in exactly  *)
(* one place, in the order of emission: with the server, on the wire, in   *)
(* the batch, in the buffer, or among the buffer's losses (_send_loop).    *)
THEOREM NoEnvelopeLost == Spec => []EnvelopesAccounted
<1>1. IInv => EnvelopesAccounted
  BY DEF IInv
<1> QED
  BY <1>1, InvariantHolds, PTL

(* A stream's spans, heartbeats and Goodbye stand behind its one Hello,    *)
(* which a span follows at once; and a server that reads Goodbye has every *)
(* envelope accepted before shutdown() that was not dropped, but as many   *)
(* as payloads were staged (_maybe_send_hello, _send_loop's finally).      *)
THEOREM StreamIsFramed == Spec => []StreamFramed
<1>1. IInv => StreamFramed
  <2> SUFFICES ASSUME IInv PROVE StreamFramed
    OBVIOUS
  <2>1. LazyHello
    BY DEF IInv, Framing
  <2>2. HasGoodbye(received) => Missing \subseteq Ids(events) /\ Cardinality(Missing) <= staged
    BY DEF IInv, Farewell
  <2>3. GoodbyeComesLast
    BY <2>2 DEF GoodbyeComesLast, HasGoodbye, Missing
  <2> QED
    BY <2>1, <2>3 DEF StreamFramed
<1> QED
  BY <1>1, InvariantHolds, PTL
=============================================================================
