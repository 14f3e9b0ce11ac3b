------------------------ MODULE EventRingBufferProofs ------------------------
(* Proofs about EventRingBuffer, for every capacity, set of kinds, batch   *)
(* size and number of emits, and about the queue it implements.            *)
EXTENDS EventRingBuffer, Integers, SequenceTheorems, TLAPS

(* A part of a sequence: its type, its length, its elements.               *)
LEMMA SubSeqPart ==
  ASSUME NEW S, NEW s \in Seq(S), NEW m \in 1 .. Len(s) + 1, NEW n \in 0 .. Len(s)
  PROVE  /\ SubSeq(s, m, n) \in Seq(S)
         /\ Len(SubSeq(s, m, n)) = IF m <= n THEN n - m + 1 ELSE 0
         /\ \A j \in 1 .. n - m + 1 : SubSeq(s, m, n)[j] = s[m + j - 1]
<1>1. \A j \in m .. n : s[j] \in S
  BY ElementOfSeq
<1> QED
  BY <1>1, SubSeqProperties

(* What RemoveAt leaves: one element fewer, those before i unmoved, those  *)
(* after it one place earlier.                                             *)
LEMMA RemoveAtProperties ==
  ASSUME NEW S, NEW s \in Seq(S), NEW i \in 1 .. Len(s)
  PROVE  /\ RemoveAt(s, i) \in Seq(S)
         /\ Len(RemoveAt(s, i)) = Len(s) - 1
         /\ \A j \in 1 .. Len(s) - 1 :
              RemoveAt(s, i)[j] = IF j < i THEN s[j] ELSE s[j + 1]
<1> DEFINE a == SubSeq(s, 1, i - 1)
           b == SubSeq(s, i + 1, Len(s))
<1>1. a \in Seq(S) /\ Len(a) = i - 1 /\ \A j \in 1 .. i - 1 : a[j] = s[j]
  BY SubSeqPart, LenProperties
<1>2. b \in Seq(S) /\ Len(b) = Len(s) - i /\ \A j \in 1 .. Len(s) - i : b[j] = s[i + j]
  <2>1. i + 1 \in 1 .. Len(s) + 1 /\ Len(s) \in 0 .. Len(s)
    BY LenProperties
  <2>2. /\ b \in Seq(S)
        /\ Len(b) = IF i + 1 <= Len(s) THEN Len(s) - (i + 1) + 1 ELSE 0
        /\ \A j \in 1 .. Len(s) - (i + 1) + 1 : b[j] = s[i + 1 + j - 1]
    BY <2>1, SubSeqPart
  <2> QED
    BY <2>2, LenProperties
<1>3. RemoveAt(s, i) = a \o b
  BY DEF RemoveAt
<1> HIDE DEF a, b
<1>4. /\ a \o b \in Seq(S)
      /\ Len(a \o b) = Len(a) + Len(b)
      /\ \A j \in 1 .. Len(a) + Len(b) :
           (a \o b)[j] = IF j <= Len(a) THEN a[j] ELSE b[j - Len(a)]
  BY <1>1, <1>2, ConcatProperties
<1> QED
  BY <1>1, <1>2, <1>3, <1>4, LenProperties

Regroups(r, a, b) == (r \o a) \o b = r \o (a \o b)
LEMMA Regroup ==
  ASSUME NEW S, NEW r \in Seq(S), NEW a \in Seq(S), NEW b \in Seq(S)
  PROVE  Regroups(r, a, b)
BY ConcatAssociative DEF Regroups

(* Cutting a sequence in two and putting the parts together again.         *)
LEMMA SplitConcat ==
  ASSUME NEW S, NEW r \in Seq(S), NEW s \in Seq(S), NEW n \in 1 .. Len(s)
  PROVE  (r \o SubSeq(s, 1, n)) \o SubSeq(s, n + 1, Len(s)) = r \o s
<1> DEFINE a == SubSeq(s, 1, n)
           b == SubSeq(s, n + 1, Len(s))
<1>1. /\ 1 \in 1 .. Len(s) + 1 /\ n \in 1 - 1 .. Len(s) /\ Len(s) \in n .. Len(s)
      /\ n + 1 \in 1 .. Len(s) + 1 /\ n \in 0 .. Len(s) /\ Len(s) \in 0 .. Len(s)
  BY LenProperties
<1>2. a \in Seq(S) /\ b \in Seq(S)
  BY <1>1, SubSeqPart
<1>3. a \o b = s
  BY <1>1, ConcatAdjacentSubSeq, SubSeqFull
<1> HIDE DEF a, b
<1>4. Regroups(r, a, b)
  BY <1>2, Regroup
<1> QED
  BY <1>3, <1>4 DEF Regroups, a, b

(* Appending to, and removing from, the second of two sequences.           *)
LEMMA ConcatAppend ==
  ASSUME NEW S, NEW r \in Seq(S), NEW q \in Seq(S), NEW e \in S
  PROVE  r \o Append(q, e) = Append(r \o q, e)
<1>1. r \o q \in Seq(S) /\ <<e>> \in Seq(S)
  BY ConcatProperties
<1>2. Append(q, e) = q \o <<e>> /\ Append(r \o q, e) = (r \o q) \o <<e>>
  BY <1>1, AppendIsConcat
<1>3. (r \o q) \o <<e>> = r \o (q \o <<e>>)
  BY <1>1, ConcatAssociative
<1> QED
  BY <1>2, <1>3

LEMMA ConcatRemoveAt ==
  ASSUME NEW S, NEW r \in Seq(S), NEW q \in Seq(S), NEW i \in 1 .. Len(q)
  PROVE  /\ Len(r) + i \in 1 .. Len(r \o q)
         /\ r \o RemoveAt(q, i) = RemoveAt(r \o q, Len(r) + i)
<1> DEFINE a == RemoveAt(q, i)
           c == r \o q
           left == r \o a
           right == RemoveAt(c, Len(r) + i)
<1>1. /\ a \in Seq(S) /\ Len(a) = Len(q) - 1
      /\ \A j \in 1 .. Len(q) - 1 : a[j] = IF j < i THEN q[j] ELSE q[j + 1]
  BY RemoveAtProperties
<1>2. /\ c \in Seq(S) /\ Len(c) = Len(r) + Len(q)
      /\ \A j \in 1 .. Len(r) + Len(q) : c[j] = IF j <= Len(r) THEN r[j] ELSE q[j - Len(r)]
  BY ConcatProperties
<1>3. Len(r) \in Nat /\ Len(q) \in Nat
  BY LenProperties
<1> HIDE DEF a, c
<1>4. Len(r) + i \in 1 .. Len(c)
  BY <1>2, <1>3
<1>5. /\ left \in Seq(S) /\ Len(left) = Len(r) + Len(a)
      /\ \A j \in 1 .. Len(r) + Len(a) : left[j] = IF j <= Len(r) THEN r[j] ELSE a[j - Len(r)]
  BY <1>1, ConcatProperties
<1>6. /\ right \in Seq(S) /\ Len(right) = Len(c) - 1
      /\ \A j \in 1 .. Len(c) - 1 : right[j] = IF j < Len(r) + i THEN c[j] ELSE c[j + 1]
  BY <1>2, <1>4, RemoveAtProperties
<1> HIDE DEF left, right
<1>7. Len(left) = Len(right)
  BY <1>1, <1>2, <1>3, <1>5, <1>6
<1>8. ASSUME NEW j \in 1 .. Len(left) PROVE left[j] = right[j]
  <2>0. j \in 1 .. Len(r) + Len(a) /\ j \in 1 .. Len(c) - 1
    BY <1>1, <1>2, <1>3, <1>5
  <2>1. CASE j <= Len(r)
    <3>1. j \in 1 .. Len(r) + Len(q) /\ j < Len(r) + i
      BY <1>3, <2>1
    <3> QED
      BY <1>2, <1>5, <1>6, <2>0, <2>1, <3>1
  <2>2. CASE j > Len(r) /\ j < Len(r) + i
    <3>1. /\ j \in 1 .. Len(r) + Len(q) /\ ~(j <= Len(r))
          /\ j - Len(r) \in 1 .. Len(q) - 1 /\ j - Len(r) < i
      BY <1>1, <1>3, <2>0, <2>2
    <3>2. /\ left[j] = a[j - Len(r)] /\ right[j] = c[j] /\ c[j] = q[j - Len(r)]
      BY <1>2, <1>5, <1>6, <2>0, <2>2, <3>1
    <3> QED
      BY <1>1, <3>1, <3>2
  <2>3. CASE j >= Len(r) + i
    <3>1. /\ j + 1 \in 1 .. Len(r) + Len(q) /\ ~(j <= Len(r)) /\ ~(j + 1 <= Len(r))
          /\ ~(j < Len(r) + i) /\ j - Len(r) \in 1 .. Len(q) - 1 /\ ~(j - Len(r) < i)
          /\ (j + 1) - Len(r) = (j - Len(r)) + 1
      BY <1>1, <1>3, <2>0, <2>3
    <3>2. left[j] = a[j - Len(r)] /\ right[j] = c[j + 1] /\ c[j + 1] = q[(j + 1) - Len(r)]
      BY <1>2, <1>5, <1>6, <2>0, <3>1
    <3>3. a[j - Len(r)] = q[(j - Len(r)) + 1]
      BY <1>1, <3>1
    <3> QED
      BY <3>1, <3>2, <3>3
  <2> QED
    BY <1>3, <2>1, <2>2, <2>3
<1>9. left = right
  BY <1>5, <1>6, <1>7, <1>8, SeqEqual
<1> QED
  BY <1>4, <1>9 DEF left, right, a, c
-----------------------------------------------------------------------------

(* The numbers of a sequence of envelopes, and how they follow what is     *)
(* done to it.                                                             *)
LEMMA IdsProperties ==
  ASSUME NEW s \in Seq(SpanEnvelope)
  PROVE  /\ Ids(s) \in Seq(Nat)
         /\ Len(Ids(s)) = Len(s)
         /\ \A i \in 1 .. Len(s) : Ids(s)[i] = s[i].id
<1>1. Len(s) \in Nat /\ DOMAIN s = 1 .. Len(s) /\ \A i \in 1 .. Len(s) : s[i] \in SpanEnvelope
  BY LenProperties, ElementOfSeq
<1>2. \A i \in 1 .. Len(s) : s[i].id \in Nat
  BY <1>1 DEF SpanEnvelope
<1>3. Ids(s) \in [1 .. Len(s) -> Nat]
  BY <1>1, <1>2 DEF Ids
<1>4. Ids(s) \in Seq(Nat)
  BY <1>1, <1>3, SeqDef
<1>5. Len(Ids(s)) = Len(s)
  <2>1. DOMAIN Ids(s) = 1 .. Len(s) /\ DOMAIN Ids(s) = 1 .. Len(Ids(s)) /\ Len(Ids(s)) \in Nat
    BY <1>3, <1>4, LenProperties
  <2> QED
    BY <1>1, <2>1
<1> QED
  BY <1>1, <1>4, <1>5 DEF Ids

LEMMA IdsAppend ==
  ASSUME NEW s \in Seq(SpanEnvelope), NEW env \in SpanEnvelope
  PROVE  Ids(Append(s, env)) = Append(Ids(s), env.id)
<1> DEFINE a == Append(s, env)
           left == Ids(a)
           right == Append(Ids(s), env.id)
<1>1. /\ a \in Seq(SpanEnvelope) /\ Len(a) = Len(s) + 1
      /\ \A i \in 1 .. Len(s) : a[i] = s[i]
      /\ a[Len(s) + 1] = env
  BY AppendProperties
<1>2. Len(s) \in Nat /\ env.id \in Nat
  BY LenProperties DEF SpanEnvelope
<1> HIDE DEF a
<1>3. /\ left \in Seq(Nat) /\ Len(left) = Len(a)
      /\ \A i \in 1 .. Len(a) : left[i] = a[i].id
  BY <1>1, IdsProperties
<1>4. /\ right \in Seq(Nat) /\ Len(right) = Len(s) + 1
      /\ \A i \in 1 .. Len(s) : right[i] = s[i].id
      /\ right[Len(s) + 1] = env.id
  BY <1>2, IdsProperties, AppendProperties
<1> HIDE DEF left, right
<1>5. \A i \in 1 .. Len(left) : left[i] = right[i]
  <2> TAKE i \in 1 .. Len(left)
  <2>1. i \in 1 .. Len(a) /\ (i \in 1 .. Len(s) \/ i = Len(s) + 1)
    BY <1>1, <1>2, <1>3
  <2>2. CASE i \in 1 .. Len(s)
    BY <1>1, <1>3, <1>4, <2>1, <2>2
  <2>3. CASE i = Len(s) + 1
    BY <1>1, <1>3, <1>4, <2>1, <2>3
  <2> QED
    BY <2>1, <2>2, <2>3
<1>6. left = right
  BY <1>1, <1>3, <1>4, <1>5, SeqEqual
<1> QED
  BY <1>6 DEF left, right, a

LEMMA IdsRemoveAt ==
  ASSUME NEW s \in Seq(SpanEnvelope), NEW k \in 1 .. Len(s)
  PROVE  Ids(RemoveAt(s, k)) = RemoveAt(Ids(s), k)
<1> DEFINE a == RemoveAt(s, k)
           n == Ids(s)
           left == Ids(a)
           right == RemoveAt(n, k)
<1>1. /\ a \in Seq(SpanEnvelope) /\ Len(a) = Len(s) - 1
      /\ \A i \in 1 .. Len(s) - 1 : a[i] = IF i < k THEN s[i] ELSE s[i + 1]
  BY RemoveAtProperties
<1>2. n \in Seq(Nat) /\ Len(n) = Len(s) /\ \A i \in 1 .. Len(s) : n[i] = s[i].id
  BY IdsProperties
<1>3. Len(s) \in Nat
  BY LenProperties
<1> HIDE DEF a, n
<1>4. /\ left \in Seq(Nat) /\ Len(left) = Len(a)
      /\ \A i \in 1 .. Len(a) : left[i] = a[i].id
  BY <1>1, IdsProperties
<1>5. /\ right \in Seq(Nat) /\ Len(right) = Len(n) - 1
      /\ \A i \in 1 .. Len(n) - 1 : right[i] = IF i < k THEN n[i] ELSE n[i + 1]
  BY <1>2, RemoveAtProperties
<1> HIDE DEF left, right
<1>6. \A i \in 1 .. Len(left) : left[i] = right[i]
  <2> TAKE i \in 1 .. Len(left)
  <2>1. /\ i \in 1 .. Len(a) /\ i \in 1 .. Len(s) - 1 /\ i \in 1 .. Len(n) - 1
        /\ i \in 1 .. Len(s) /\ i + 1 \in 1 .. Len(s)
    BY <1>1, <1>2, <1>3, <1>4
  <2>2. CASE i < k
    BY <1>1, <1>2, <1>4, <1>5, <2>1, <2>2
  <2>3. CASE ~(i < k)
    BY <1>1, <1>2, <1>4, <1>5, <2>1, <2>3
  <2> QED
    BY <2>2, <2>3
<1>7. left = right
  BY <1>1, <1>2, <1>4, <1>5, <1>6, SeqEqual
<1> QED
  BY <1>7 DEF left, right, a, n

LEMMA IdsSubSeq ==
  ASSUME NEW s \in Seq(SpanEnvelope), NEW m \in 1 .. Len(s) + 1, NEW n \in 0 .. Len(s)
  PROVE  Ids(SubSeq(s, m, n)) = SubSeq(Ids(s), m, n)
<1> DEFINE a == SubSeq(s, m, n)
           c == Ids(s)
           left == Ids(a)
           right == SubSeq(c, m, n)
<1>1. /\ a \in Seq(SpanEnvelope) /\ Len(a) = IF m <= n THEN n - m + 1 ELSE 0
      /\ \A i \in 1 .. n - m + 1 : a[i] = s[m + i - 1]
  BY SubSeqPart
<1>2. c \in Seq(Nat) /\ Len(c) = Len(s) /\ \A i \in 1 .. Len(s) : c[i] = s[i].id
  BY IdsProperties
<1>3. Len(s) \in Nat
  BY LenProperties
<1> HIDE DEF a, c
<1>4. /\ left \in Seq(Nat) /\ Len(left) = Len(a)
      /\ \A i \in 1 .. Len(a) : left[i] = a[i].id
  BY <1>1, IdsProperties
<1>5. /\ right \in Seq(Nat) /\ Len(right) = IF m <= n THEN n - m + 1 ELSE 0
      /\ \A i \in 1 .. n - m + 1 : right[i] = c[m + i - 1]
  BY <1>2, SubSeqPart
<1> HIDE DEF left, right
<1>6. \A i \in 1 .. Len(left) : left[i] = right[i]
  <2> TAKE i \in 1 .. Len(left)
  <2>1. m <= n /\ i \in 1 .. n - m + 1 /\ i \in 1 .. Len(a) /\ m + i - 1 \in 1 .. Len(s)
    BY <1>1, <1>3, <1>4
  <2> QED
    BY <1>1, <1>2, <1>4, <1>5, <2>1
<1>7. left = right
  BY <1>1, <1>4, <1>5, <1>6, SeqEqual
<1> QED
  BY <1>7 DEF left, right, a, c

LEMMA IdsConcat ==
  ASSUME NEW r \in Seq(SpanEnvelope), NEW s \in Seq(SpanEnvelope)
  PROVE  Ids(r \o s) = Ids(r) \o Ids(s)
<1> DEFINE a == r \o s
           p == Ids(r)
           q == Ids(s)
           left == Ids(a)
           right == p \o q
<1>1. /\ a \in Seq(SpanEnvelope) /\ Len(a) = Len(r) + Len(s)
      /\ \A i \in 1 .. Len(r) + Len(s) : a[i] = IF i <= Len(r) THEN r[i] ELSE s[i - Len(r)]
  BY ConcatProperties
<1>2. /\ p \in Seq(Nat) /\ Len(p) = Len(r) /\ \A i \in 1 .. Len(r) : p[i] = r[i].id
      /\ q \in Seq(Nat) /\ Len(q) = Len(s) /\ \A i \in 1 .. Len(s) : q[i] = s[i].id
  BY IdsProperties
<1>3. Len(r) \in Nat /\ Len(s) \in Nat
  BY LenProperties
<1> HIDE DEF a, p, q
<1>4. /\ left \in Seq(Nat) /\ Len(left) = Len(a)
      /\ \A i \in 1 .. Len(a) : left[i] = a[i].id
  BY <1>1, IdsProperties
<1>5. /\ right \in Seq(Nat) /\ Len(right) = Len(r) + Len(s)
      /\ \A i \in 1 .. Len(r) + Len(s) : right[i] = IF i <= Len(r) THEN p[i] ELSE q[i - Len(r)]
  BY <1>2, ConcatProperties
<1> HIDE DEF left, right
<1>6. \A i \in 1 .. Len(left) : left[i] = right[i]
  <2> TAKE i \in 1 .. Len(left)
  <2>1. i \in 1 .. Len(r) + Len(s)
    BY <1>1, <1>4
  <2>2. CASE i <= Len(r)
    <3>1. i \in 1 .. Len(r)
      BY <1>3, <2>1, <2>2
    <3> QED
      BY <1>1, <1>2, <1>4, <1>5, <2>1, <2>2, <3>1
  <2>3. CASE ~(i <= Len(r))
    <3>1. i - Len(r) \in 1 .. Len(s)
      BY <1>3, <2>1, <2>3
    <3> QED
      BY <1>1, <1>2, <1>4, <1>5, <2>1, <2>3, <3>1
  <2> QED
    BY <2>2, <2>3
<1>7. left = right
  BY <1>1, <1>4, <1>5, <1>6, SeqEqual
<1> QED
  BY <1>7 DEF left, right, a, p, q
-----------------------------------------------------------------------------
(* The inductive invariant.  The length bound needs no strengthening but   *)
(* the types: a push that finds no room drops an envelope or counts a      *)
(* stripped reference.                                                     *)
IInv == TypeOK /\ OvershootBounded

LEMMA InitIInv == Init => IInv
<1> SUFFICES ASSUME Init PROVE IInv
  OBVIOUS
<1>1. <<>> \in Seq(SpanEnvelope) /\ Len(<<>>) = 0
  BY EmptySeq
<1> QED
  BY <1>1, CapacityAssumption DEF Init, IInv, TypeOK, OvershootBounded

(* The deque before and after the four ways a push can end.                *)
LEMMA PushDeque ==
  ASSUME IInv, NEW env \in SpanEnvelope,
         \/ PushFits(env) \/ PushDropsUpdate(env)
         \/ PushStripsPayloadRef(env) \/ PushDropsSpan(env)
  PROVE  /\ dq' \in Seq(SpanEnvelope)
         /\ \/ /\ Ids(dq') = Append(Ids(dq), env.id)
               /\ Len(dq') = Len(dq) + 1
               /\ UNCHANGED <<dropped_updates, dropped_spans>>
               /\ \/ Len(dq) < Capacity /\ UNCHANGED dropped_payload_refs
                  \/ dropped_payload_refs' = dropped_payload_refs + 1
            \/ /\ \E i \in 1 .. Len(dq) : Ids(dq') = Append(RemoveAt(Ids(dq), i), env.id)
               /\ Len(dq') = Len(dq)
               /\ UNCHANGED dropped_payload_refs
               /\ \/ dropped_updates' = dropped_updates + 1 /\ UNCHANGED dropped_spans
                  \/ dropped_spans' = dropped_spans + 1 /\ UNCHANGED dropped_updates
<1>0. /\ dq \in Seq(SpanEnvelope) /\ Len(dq) \in Nat /\ DOMAIN dq = 1 .. Len(dq)
      /\ \A i \in 1 .. Len(dq) : dq[i] \in SpanEnvelope
  BY LenProperties, ElementOfSeq DEF IInv, TypeOK
<1>1. CASE PushFits(env)
  <2>1. dq' = Append(dq, env) /\ Len(dq) < Capacity /\ UNCHANGED stats
    BY <1>1 DEF PushFits
  <2>2. Len(dq') = Len(dq) + 1 /\ dq' \in Seq(SpanEnvelope)
    BY <1>0, <2>1, AppendProperties
  <2>3. Ids(dq') = Append(Ids(dq), env.id)
    BY <1>0, <2>1, IdsAppend
  <2> QED
    BY <2>1, <2>2, <2>3 DEF stats
<1>2. CASE PushDropsUpdate(env)
  <2>1. PICK i \in 1 .. Len(dq) : dq' = Append(RemoveAt(dq, i), env)
    BY <1>0, <1>2 DEF PushDropsUpdate
  <2>2. RemoveAt(dq, i) \in Seq(SpanEnvelope) /\ Len(RemoveAt(dq, i)) = Len(dq) - 1
    BY <1>0, RemoveAtProperties
  <2>3. dq' \in Seq(SpanEnvelope) /\ Len(dq') = (Len(dq) - 1) + 1
    BY <2>1, <2>2, AppendProperties
  <2>4. Ids(dq') = Append(RemoveAt(Ids(dq), i), env.id)
    BY <1>0, <2>1, <2>2, IdsAppend, IdsRemoveAt
  <2>5. Len(dq') = Len(dq)
    BY <1>0, <2>3
  <2> QED
    BY <1>2, <2>3, <2>4, <2>5 DEF PushDropsUpdate
<1>3. CASE PushStripsPayloadRef(env)
  <2>1. PICK i \in 1 .. Len(dq) :
           dq' = Append([dq EXCEPT ![i].has_payload_ref = FALSE], env)
    BY <1>0, <1>3 DEF PushStripsPayloadRef
  <2> DEFINE e == [dq[i] EXCEPT !.has_payload_ref = FALSE]
             d == [dq EXCEPT ![i] = e]
  <2>2. e \in SpanEnvelope /\ e.id = dq[i].id
    BY <1>0 DEF SpanEnvelope
  <2>3. dq' = Append(d, env)
    BY <2>1
  <2> HIDE DEF e
  <2>4. /\ d \in Seq(SpanEnvelope) /\ Len(d) = Len(dq)
        /\ \A j \in 1 .. Len(dq) : d[j] = IF j = i THEN e ELSE dq[j]
    BY <1>0, <2>2, ExceptSeq
  <2> HIDE DEF d
  <2>5. Ids(d) = Ids(dq)
    <3>1. Ids(d) \in Seq(Nat) /\ Len(Ids(d)) = Len(dq) /\ \A j \in 1 .. Len(dq) : Ids(d)[j] = d[j].id
      BY <2>4, IdsProperties
    <3>2. Ids(dq) \in Seq(Nat) /\ Len(Ids(dq)) = Len(dq) /\ \A j \in 1 .. Len(dq) : Ids(dq)[j] = dq[j].id
      BY <1>0, IdsProperties
    <3>3. \A j \in 1 .. Len(Ids(d)) : Ids(d)[j] = Ids(dq)[j]
      BY <2>2, <2>4, <3>1, <3>2
    <3> QED
      BY <3>1, <3>2, <3>3, SeqEqual
  <2>6. dq' \in Seq(SpanEnvelope) /\ Len(dq') = Len(dq) + 1 /\ Ids(dq') = Append(Ids(dq), env.id)
    BY <2>3, <2>4, <2>5, AppendProperties, IdsAppend
  <2> QED
    BY <1>3, <2>6 DEF PushStripsPayloadRef
<1>4. CASE PushDropsSpan(env)
  <2>1. 1 \in 1 .. Len(dq) /\ dq # <<>>
    BY <1>0, <1>4, CapacityAssumption, EmptySeq DEF PushDropsSpan
  <2>2. /\ RemoveAt(dq, 1) \in Seq(SpanEnvelope) /\ Len(RemoveAt(dq, 1)) = Len(dq) - 1
        /\ \A j \in 1 .. Len(dq) - 1 : RemoveAt(dq, 1)[j] = IF j < 1 THEN dq[j] ELSE dq[j + 1]
    BY <1>0, <2>1, RemoveAtProperties
  <2>3. /\ Tail(dq) \in Seq(SpanEnvelope) /\ Len(Tail(dq)) = Len(dq) - 1
        /\ \A j \in 1 .. Len(Tail(dq)) : Tail(dq)[j] = dq[j + 1]
    BY <1>0, <2>1, HeadTailProperties
  <2>4. Tail(dq) = RemoveAt(dq, 1)
    <3> DEFINE t == Tail(dq)
               r == RemoveAt(dq, 1)
    <3> HIDE DEF t, r
    <3>1. \A j \in 1 .. Len(t) : t[j] = r[j]
      BY <1>0, <2>2, <2>3 DEF t, r
    <3>2. t = r
      BY <2>2, <2>3, <3>1, SeqEqual DEF t, r
    <3> QED
      BY <3>2 DEF t, r
  <2>5. dq' = Append(RemoveAt(dq, 1), env)
    BY <1>4, <2>4 DEF PushDropsSpan
  <2>6. dq' \in Seq(SpanEnvelope) /\ Len(dq') = (Len(dq) - 1) + 1
    BY <2>2, <2>5, AppendProperties
  <2>7. Ids(dq') = Append(RemoveAt(Ids(dq), 1), env.id)
    BY <1>0, <2>1, <2>2, <2>5, IdsAppend, IdsRemoveAt
  <2>8. Len(dq') = Len(dq)
    BY <1>0, <2>6
  <2> QED
    BY <1>4, <2>1, <2>6, <2>7, <2>8 DEF PushDropsSpan
<1> QED
  BY <1>1, <1>2, <1>3, <1>4

(* The batch popped and what it leaves.                                    *)
LEMMA PopDeque ==
  ASSUME IInv, PopBatch
  PROVE  \E n \in 1 .. Len(dq) :
           /\ popped' = popped \o SubSeq(dq, 1, n)
           /\ dq' = SubSeq(dq, n + 1, Len(dq))
           /\ UNCHANGED <<stats, emitted>>
           /\ SubSeq(dq, 1, n) \in Seq(SpanEnvelope)
           /\ dq' \in Seq(SpanEnvelope) /\ Len(dq') <= Len(dq) /\ Len(dq') \in Nat
           /\ popped' \in Seq(SpanEnvelope)
<1>0. dq \in Seq(SpanEnvelope) /\ popped \in Seq(SpanEnvelope)
  BY DEF IInv, TypeOK
<1>1. PICK max_items \in 1 .. BatchMax :
         LET n == IF max_items <= Len(dq) THEN max_items ELSE Len(dq)
         IN  /\ dq # <<>>
             /\ popped' = popped \o SubSeq(dq, 1, n)
             /\ dq' = SubSeq(dq, n + 1, Len(dq))
             /\ UNCHANGED <<stats, emitted>>
  BY DEF PopBatch
<1> DEFINE n == IF max_items <= Len(dq) THEN max_items ELSE Len(dq)
<1>2. Len(dq) \in Nat \ {0}
  BY <1>0, <1>1, EmptySeq
<1>3. max_items \in Nat /\ max_items >= 1
  BY BatchAssumption
<1>4. n \in 1 .. Len(dq) /\ n \in 0 .. Len(dq) /\ n + 1 \in 1 .. Len(dq) + 1
  BY <1>2, <1>3
<1>5. /\ popped' = popped \o SubSeq(dq, 1, n)
      /\ dq' = SubSeq(dq, n + 1, Len(dq))
      /\ UNCHANGED <<stats, emitted>>
  BY <1>1
<1> HIDE DEF n
<1>6. 1 \in 1 .. Len(dq) + 1 /\ Len(dq) \in 0 .. Len(dq)
  BY <1>2
<1>7. SubSeq(dq, 1, n) \in Seq(SpanEnvelope)
  BY <1>0, <1>4, <1>6, SubSeqPart
<1>8. /\ dq' \in Seq(SpanEnvelope)
      /\ Len(dq') = IF n + 1 <= Len(dq) THEN Len(dq) - (n + 1) + 1 ELSE 0
  BY <1>0, <1>4, <1>5, <1>6, SubSeqPart
<1>9. Len(dq') <= Len(dq) /\ Len(dq') \in Nat
  BY <1>2, <1>4, <1>8
<1>10. popped' \in Seq(SpanEnvelope)
  BY <1>0, <1>5, <1>7, ConcatProperties
<1> QED
  BY <1>4, <1>5, <1>7, <1>8, <1>9, <1>10

LEMMA PushEnvelope ==
  ASSUME IInv, Push
  PROVE  /\ emitted' = emitted + 1 /\ popped' = popped
         /\ \E env \in SpanEnvelope :
              /\ env.id = emitted + 1
              /\ \/ PushFits(env) \/ PushDropsUpdate(env)
                 \/ PushStripsPayloadRef(env) \/ PushDropsSpan(env)
<1>1. \A env \in [id : {emitted + 1}, kind : EnvelopeKind, has_payload_ref : BOOLEAN] :
        env \in SpanEnvelope /\ env.id = emitted + 1
  BY DEF IInv, TypeOK, SpanEnvelope
<1> QED
  BY <1>1 DEF Push

LEMMA NextIInv == IInv /\ [Next]_vars => IInv'
<1> SUFFICES ASSUME IInv, [Next]_vars PROVE IInv'
  OBVIOUS
<1>0. /\ dq \in Seq(SpanEnvelope) /\ popped \in Seq(SpanEnvelope) /\ emitted \in Nat
      /\ dropped_updates \in Nat /\ dropped_payload_refs \in Nat /\ dropped_spans \in Nat
      /\ Len(dq) \in Nat /\ Len(dq) <= Capacity + dropped_payload_refs /\ Capacity \in Nat
  BY LenProperties, CapacityAssumption DEF IInv, TypeOK, OvershootBounded
<1>1. CASE Push
  <2>1. emitted' = emitted + 1 /\ popped' = popped
    BY <1>1, PushEnvelope
  <2>2. PICK env \in SpanEnvelope :
          /\ env.id = emitted + 1
          /\ \/ PushFits(env) \/ PushDropsUpdate(env)
             \/ PushStripsPayloadRef(env) \/ PushDropsSpan(env)
    BY <1>1, PushEnvelope
  <2>3. dq' \in Seq(SpanEnvelope)
    BY <2>2, PushDeque
  <2>4. /\ dropped_updates' \in Nat /\ dropped_payload_refs' \in Nat /\ dropped_spans' \in Nat
        /\ Len(dq') <= Capacity + dropped_payload_refs'
    <3>1. \/ /\ Len(dq') = Len(dq) + 1
             /\ UNCHANGED <<dropped_updates, dropped_spans>>
             /\ \/ Len(dq) < Capacity /\ UNCHANGED dropped_payload_refs
                \/ dropped_payload_refs' = dropped_payload_refs + 1
          \/ /\ Len(dq') = Len(dq)
             /\ UNCHANGED dropped_payload_refs
             /\ \/ dropped_updates' = dropped_updates + 1 /\ UNCHANGED dropped_spans
                \/ dropped_spans' = dropped_spans + 1 /\ UNCHANGED dropped_updates
      BY <2>2, PushDeque
    <3> QED
      BY <1>0, <3>1
  <2> QED
    BY <1>0, <2>1, <2>3, <2>4 DEF IInv, TypeOK, OvershootBounded
<1>2. CASE PopBatch
  <2>1. /\ dq' \in Seq(SpanEnvelope) /\ Len(dq') <= Len(dq) /\ Len(dq') \in Nat
        /\ popped' \in Seq(SpanEnvelope)
        /\ UNCHANGED <<stats, emitted>>
    BY <1>2, PopDeque
  <2>2. Len(dq') <= Capacity + dropped_payload_refs
    BY <1>0, <2>1
  <2> QED
    BY <1>0, <2>1, <2>2 DEF IInv, TypeOK, OvershootBounded, stats
<1>3. CASE UNCHANGED vars
  BY <1>3 DEF IInv, vars, stats, TypeOK, OvershootBounded
<1> QED
  BY <1>1, <1>2, <1>3 DEF Next

(* The deque's type, and how far it outgrows its capacity: by as many      *)
(* envelopes as push() has stripped of their payload reference.            *)
THEOREM BufferBounded == Spec => []Bounded
<1>1. IInv => Bounded
  BY DEF IInv, Bounded
<1> QED
  BY InitIInv, NextIInv, <1>1, PTL DEF Spec
-----------------------------------------------------------------------------
LEMMA QueueInit == Init => Queue!Init
<1>1. \A s : Len(s) = 0 /\ s \in Seq(Nat) => s = <<>>
  BY EmptySeq
<1>2. <<>> \in Seq(SpanEnvelope) /\ Len(<<>>) = 0
  BY EmptySeq
<1>3. Ids(<<>>) = <<>>
  BY <1>1, <1>2, IdsProperties
<1> QED
  BY <1>3 DEF Init, Queue!Init, dropped_total

LEMMA QueueNext == IInv /\ [Next]_vars => [Queue!Next]_Queue!vars
<1> SUFFICES ASSUME IInv, [Next]_vars PROVE [Queue!Next]_Queue!vars
  OBVIOUS
<1>0. /\ dq \in Seq(SpanEnvelope) /\ popped \in Seq(SpanEnvelope) /\ emitted \in Nat
      /\ dropped_updates \in Nat /\ dropped_spans \in Nat
      /\ Len(dq) \in Nat /\ Len(Ids(dq)) = Len(dq)
  BY LenProperties, IdsProperties DEF IInv, TypeOK
<1>1. CASE Push
  <2>1. emitted' = emitted + 1 /\ popped' = popped
    BY <1>1, PushEnvelope
  <2>2. PICK env \in SpanEnvelope :
          /\ env.id = emitted + 1
          /\ \/ PushFits(env) \/ PushDropsUpdate(env)
             \/ PushStripsPayloadRef(env) \/ PushDropsSpan(env)
    BY <1>1, PushEnvelope
  <2>3. \/ /\ Ids(dq') = Append(Ids(dq), env.id)
           /\ UNCHANGED <<dropped_updates, dropped_spans>>
        \/ /\ \E i \in 1 .. Len(dq) : Ids(dq') = Append(RemoveAt(Ids(dq), i), env.id)
           /\ \/ dropped_updates' = dropped_updates + 1 /\ UNCHANGED dropped_spans
              \/ dropped_spans' = dropped_spans + 1 /\ UNCHANGED dropped_updates
    BY <2>2, PushDeque
  <2>4. CASE /\ Ids(dq') = Append(Ids(dq), env.id)
             /\ UNCHANGED <<dropped_updates, dropped_spans>>
    <3>1. Queue!Send
      BY <2>1, <2>2, <2>4 DEF Queue!Send, dropped_total, Ids
    <3> QED
      BY <3>1 DEF Queue!Next
  <2>5. CASE /\ \E i \in 1 .. Len(dq) : Ids(dq') = Append(RemoveAt(Ids(dq), i), env.id)
             /\ \/ dropped_updates' = dropped_updates + 1 /\ UNCHANGED dropped_spans
                \/ dropped_spans' = dropped_spans + 1 /\ UNCHANGED dropped_updates
    <3>1. dropped_total' = dropped_total + 1
      BY <1>0, <2>5 DEF dropped_total
    <3>2. PICK i \in 1 .. Len(Ids(dq)) : Ids(dq') = Append(RemoveAt(Ids(dq), i), env.id)
      BY <1>0, <2>5
    <3>3. Ids(popped') = Ids(popped)
      BY <2>1
    <3>4. Queue!SendLosing
      BY <2>1, <2>2, <3>1, <3>2, <3>3 DEF Queue!SendLosing, Queue!RemoveAt, RemoveAt
    <3> QED
      BY <3>4 DEF Queue!Next
  <2> QED
    BY <2>3, <2>4, <2>5
<1>2. CASE PopBatch
  <2>1. PICK n \in 1 .. Len(dq) :
           /\ popped' = popped \o SubSeq(dq, 1, n)
           /\ dq' = SubSeq(dq, n + 1, Len(dq))
           /\ UNCHANGED <<stats, emitted>>
           /\ SubSeq(dq, 1, n) \in Seq(SpanEnvelope)
    BY <1>2, PopDeque
  <2>2. Ids(popped') = Ids(popped) \o SubSeq(Ids(dq), 1, n)
    <3>1. Ids(popped \o SubSeq(dq, 1, n)) = Ids(popped) \o Ids(SubSeq(dq, 1, n))
      BY <1>0, <2>1, IdsConcat
    <3>2. 1 \in 1 .. Len(dq) + 1 /\ n \in 0 .. Len(dq)
      BY <1>0
    <3>3. Ids(SubSeq(dq, 1, n)) = SubSeq(Ids(dq), 1, n)
      BY <1>0, <3>2, IdsSubSeq
    <3> QED
      BY <2>1, <3>1, <3>3
  <2>3. Ids(dq') = SubSeq(Ids(dq), n + 1, Len(Ids(dq)))
    <3>1. n + 1 \in 1 .. Len(dq) + 1 /\ Len(dq) \in 0 .. Len(dq)
      BY <1>0
    <3> QED
      BY <1>0, <2>1, <3>1, IdsSubSeq
  <2>4. dropped_total' = dropped_total /\ emitted' = emitted
    BY <2>1 DEF dropped_total, stats
  <2>5. Queue!Receive
    BY <1>0, <2>2, <2>3, <2>4 DEF Queue!Receive
  <2> QED
    BY <2>5 DEF Queue!Next
<1>3. CASE UNCHANGED vars
  BY <1>3 DEF vars, stats, Queue!vars, Ids, dropped_total
<1> QED
  BY <1>1, <1>2, <1>3 DEF Next

(* The buffer is a queue that counts its losses.                           *)
THEOREM BufferImplementsQueue == Spec => ImplementsCountedLossQueue
<1>1. IInv /\ [Next]_vars => [Queue!Next]_Queue!vars
  BY QueueNext
<1> QED
  BY InitIInv, NextIInv, QueueInit, <1>1, PTL DEF Spec, ImplementsCountedLossQueue, Queue!Spec

-----------------------------------------------------------------------------
(* The queue the buffer implements.  Its invariant is inductive as it      *)
(* stands: a message accepted has a larger number than all before it, and  *)
(* taking one out of an increasing sequence leaves it increasing.          *)
LEMMA IncreasingAppend ==
  ASSUME NEW n \in Nat, NEW s \in Seq(1 .. n), Queue!Increasing(s)
  PROVE  Queue!Increasing(Append(s, n + 1))
<1>1. s \in Seq(1 .. (n + 1)) /\ n + 1 \in 1 .. (n + 1)
  <2>1. 1 .. n \subseteq 1 .. (n + 1)
    OBVIOUS
  <2> QED
    BY <2>1, SeqMonotonic
<1>2. /\ Len(Append(s, n + 1)) = Len(s) + 1
      /\ \A i \in 1 .. Len(s) : Append(s, n + 1)[i] = s[i]
      /\ Append(s, n + 1)[Len(s) + 1] = n + 1
  BY <1>1, AppendProperties
<1>3. Len(s) \in Nat /\ \A i \in 1 .. Len(s) : s[i] \in 1 .. n
  BY LenProperties, ElementOfSeq
<1> QED
  BY <1>2, <1>3 DEF Queue!Increasing

LEMMA IncreasingRemoveAt ==
  ASSUME NEW s \in Seq(Nat), NEW i \in 1 .. Len(s), Queue!Increasing(s)
  PROVE  Queue!Increasing(RemoveAt(s, i))
<1> DEFINE t == RemoveAt(s, i)
<1>1. /\ Len(t) = Len(s) - 1
      /\ \A j \in 1 .. Len(s) - 1 : t[j] = IF j < i THEN s[j] ELSE s[j + 1]
  BY RemoveAtProperties
<1>2. Len(s) \in Nat /\ \A j \in 1 .. Len(s) : s[j] \in Nat
  BY LenProperties, ElementOfSeq
<1> HIDE DEF t
<1>3. ASSUME NEW j \in 1 .. Len(t), NEW k \in 1 .. Len(t), j < k
      PROVE  t[j] < t[k]
  <2> DEFINE J == IF j < i THEN j ELSE j + 1
             K == IF k < i THEN k ELSE k + 1
  <2>1. J \in 1 .. Len(s) /\ K \in 1 .. Len(s) /\ J < K
    BY <1>1, <1>2, <1>3
  <2>2. t[j] = s[J] /\ t[k] = s[K]
    BY <1>1, <1>2, <1>3
  <2> QED
    BY <2>1, <2>2 DEF Queue!Increasing
<1> QED
  BY <1>3 DEF t, Queue!Increasing

(* The same, for the second of two sequences.                              *)
LEMMA OrderAfterAppend ==
  ASSUME NEW n \in Nat, NEW r \in Seq(1 .. n), NEW q \in Seq(1 .. n),
         Queue!Increasing(r \o q)
  PROVE  Queue!Increasing(r \o Append(q, n + 1))
<1>1. r \o q \in Seq(1 .. n)
  BY ConcatProperties
<1>2. Queue!Increasing(Append(r \o q, n + 1))
  BY <1>1, IncreasingAppend
<1>3. r \in Seq(Nat) /\ q \in Seq(Nat)
  BY SeqMonotonic
<1>4. r \o Append(q, n + 1) = Append(r \o q, n + 1)
  BY <1>3, ConcatAppend
<1> QED
  BY <1>2, <1>4

LEMMA OrderAfterRemove ==
  ASSUME NEW r \in Seq(Nat), NEW q \in Seq(Nat), NEW i \in 1 .. Len(q),
         Queue!Increasing(r \o q)
  PROVE  Queue!Increasing(r \o RemoveAt(q, i))
<1>1. r \o q \in Seq(Nat)
  BY ConcatProperties
<1>2. Len(r) + i \in 1 .. Len(r \o q) /\ r \o RemoveAt(q, i) = RemoveAt(r \o q, Len(r) + i)
  BY ConcatRemoveAt
<1> QED
  BY <1>1, <1>2, IncreasingRemoveAt

QueueInv == Queue!TypeOK /\ Queue!Accounted /\ Queue!InOrder

LEMMA QueueInitInv == Queue!Init => QueueInv
<1> SUFFICES ASSUME Queue!Init PROVE QueueInv
  OBVIOUS
<1>1. <<>> \in Seq(1 .. emitted) /\ Len(<<>>) = 0
  BY EmptySeq
<1>2. Len(<<>> \o <<>>) = 0
  BY <1>1, ConcatProperties
<1> QED
  BY <1>1, <1>2 DEF Queue!Init, QueueInv, Queue!TypeOK, Queue!Accounted, Queue!InOrder, Queue!Increasing

LEMMA QueueNextInv == QueueInv /\ [Queue!Next]_Queue!vars => QueueInv'
<1> SUFFICES ASSUME QueueInv, [Queue!Next]_Queue!vars PROVE QueueInv'
  OBVIOUS
<1>0. /\ emitted \in Nat /\ dropped_total \in Nat
      /\ Ids(dq) \in Seq(1 .. emitted) /\ Ids(popped) \in Seq(1 .. emitted)
      /\ Len(Ids(dq)) \in Nat /\ Len(Ids(popped)) \in Nat
      /\ Ids(dq) \in Seq(Nat) /\ Ids(popped) \in Seq(Nat)
      /\ Queue!Accounted /\ Queue!InOrder
  BY SeqMonotonic, LenProperties, ElementOfSeq DEF QueueInv, Queue!TypeOK
<1>a. 1 .. emitted \subseteq 1 .. (emitted + 1)
  BY <1>0
<1>b. /\ Ids(dq) \in Seq(1 .. (emitted + 1)) /\ Ids(popped) \in Seq(1 .. (emitted + 1))
      /\ emitted + 1 \in 1 .. (emitted + 1)
  BY <1>0, <1>a, SeqMonotonic
<1>1. CASE Queue!Send
  <2>1. Queue!TypeOK'
    BY <1>0, <1>1, <1>b, AppendProperties DEF Queue!Send, Queue!TypeOK
  <2>2. Queue!Accounted'
    BY <1>0, <1>1, <1>b, AppendProperties DEF Queue!Send, Queue!Accounted
  <2>3. Queue!InOrder'
    BY <1>0, <1>1, OrderAfterAppend DEF Queue!Send, Queue!InOrder
  <2> QED
    BY <2>1, <2>2, <2>3 DEF QueueInv
<1>2. CASE Queue!SendLosing
  <2> PICK i \in 1 .. Len(Ids(dq)) :
         /\ emitted' = emitted + 1
         /\ Ids(dq)' = Append(RemoveAt(Ids(dq), i), emitted + 1)
         /\ dropped_total' = dropped_total + 1
         /\ Ids(popped)' = Ids(popped)
    BY <1>2 DEF Queue!SendLosing, Queue!RemoveAt, RemoveAt
  <2> DEFINE rest == RemoveAt(Ids(dq), i)
  <2>1. /\ rest \in Seq(1 .. emitted)
        /\ Len(rest) = Len(Ids(dq)) - 1
        /\ \A j \in 1 .. Len(Ids(dq)) - 1 :
             rest[j] = IF j < i THEN Ids(dq)[j] ELSE Ids(dq)[j + 1]
    BY <1>0, RemoveAtProperties
  <2>2. Queue!Increasing(Ids(popped) \o rest)
    BY <1>0, OrderAfterRemove DEF Queue!InOrder
  <2> HIDE DEF rest
  <2>3. rest \in Seq(1 .. (emitted + 1))
    BY <1>a, <2>1, SeqMonotonic
  <2>4. Ids(dq)' \in Seq(1 .. (emitted + 1)) /\ Len(Ids(dq)') = Len(rest) + 1
    BY <1>b, <2>3, AppendProperties DEF rest
  <2>5. Queue!TypeOK'
    BY <1>0, <1>b, <2>4 DEF Queue!TypeOK
  <2>6. Queue!Accounted'
    <3>1. Len(Ids(dq)') = Len(Ids(dq))
      BY <1>0, <2>1, <2>4
    <3>2. emitted = Len(Ids(popped)) + Len(Ids(dq)) + dropped_total
      BY <1>0 DEF Queue!Accounted
    <3>3. emitted' = Len(Ids(popped)) + Len(Ids(dq)) + dropped_total'
      BY <1>0, <3>2
    <3> QED
      BY <3>1, <3>3 DEF Queue!Accounted
  <2>7. Queue!InOrder'
    <3>1. Queue!Increasing(Ids(popped) \o Append(rest, emitted + 1))
      BY <1>0, <2>1, <2>2, OrderAfterAppend
    <3>2. Ids(popped)' \o Ids(dq)' = Ids(popped) \o Append(rest, emitted + 1)
      BY DEF rest
    <3> QED
      BY <3>1, <3>2 DEF Queue!InOrder
  <2> QED
    BY <2>5, <2>6, <2>7 DEF QueueInv
<1>3. CASE Queue!Receive
  <2>0. PICK n \in 1 .. Len(Ids(dq)) :
         /\ Ids(popped)' = Ids(popped) \o SubSeq(Ids(dq), 1, n)
         /\ Ids(dq)' = SubSeq(Ids(dq), n + 1, Len(Ids(dq)))
         /\ emitted' = emitted
         /\ dropped_total' = dropped_total
    BY <1>3 DEF Queue!Receive
  <2>1. SubSeq(Ids(dq), 1, n) \in Seq(1 .. emitted) /\ Len(SubSeq(Ids(dq), 1, n)) = n
    BY <1>0, SubSeqPart
  <2>2. Ids(dq)' \in Seq(1 .. emitted) /\ Len(Ids(dq)') = Len(Ids(dq)) - n
    <3>1. n + 1 \in 1 .. Len(Ids(dq)) + 1 /\ Len(Ids(dq)) \in 0 .. Len(Ids(dq))
      BY <1>0
    <3>2. /\ SubSeq(Ids(dq), n + 1, Len(Ids(dq))) \in Seq(1 .. emitted)
          /\ Len(SubSeq(Ids(dq), n + 1, Len(Ids(dq))))
               = IF n + 1 <= Len(Ids(dq)) THEN Len(Ids(dq)) - (n + 1) + 1 ELSE 0
      BY <1>0, <3>1, SubSeqPart
    <3> QED
      BY <1>0, <2>0, <3>2
  <2>3. Ids(popped)' \in Seq(1 .. emitted) /\ Len(Ids(popped)') = Len(Ids(popped)) + n
    BY <1>0, <2>0, <2>1, ConcatProperties
  <2>4. Ids(popped)' \o Ids(dq)' = Ids(popped) \o Ids(dq)
    BY <1>0, <2>0, SplitConcat
  <2>5. Queue!TypeOK'
    BY <1>0, <2>0, <2>2, <2>3 DEF Queue!TypeOK
  <2>6. Queue!Accounted'
    <3>1. Len(Ids(popped)') + Len(Ids(dq)') = Len(Ids(popped)) + Len(Ids(dq))
      BY <1>0, <2>2, <2>3
    <3> QED
      BY <1>0, <2>0, <3>1 DEF Queue!Accounted
  <2>7. Queue!InOrder'
    BY <1>0, <2>4, Zenon DEF Queue!InOrder
  <2> QED
    BY <2>5, <2>6, <2>7 DEF QueueInv
<1>4. CASE UNCHANGED Queue!vars
  BY <1>4 DEF QueueInv, Queue!vars, Queue!TypeOK, Queue!Accounted, Queue!InOrder
<1> QED
  BY <1>1, <1>2, <1>3, <1>4 DEF Queue!Next

(* A queue that counts its losses keeps order and accounts for everything, *)
(* whatever implements it.                                                 *)
THEOREM QueueCorrect == Queue!Spec => [](Queue!TypeOK /\ Queue!Accounted /\ Queue!InOrder)
<1>1. QueueInv => Queue!TypeOK /\ Queue!Accounted /\ Queue!InOrder
  BY DEF QueueInv
<1> QED
  BY QueueInitInv, QueueNextInv, <1>1, PTL DEF Queue!Spec

LEMMA QueueFacts ==
  TypeOK /\ Queue!Accounted /\ Queue!InOrder
    => HeartbeatAccountsForEmits /\ EmissionOrder
<1> SUFFICES ASSUME TypeOK, Queue!Accounted, Queue!InOrder
             PROVE  HeartbeatAccountsForEmits /\ EmissionOrder
  OBVIOUS
<1>1. dq \in Seq(SpanEnvelope) /\ popped \in Seq(SpanEnvelope)
  BY DEF TypeOK
<1>2. Len(Ids(dq)) = Len(dq) /\ Len(Ids(popped)) = Len(popped)
  BY <1>1, IdsProperties
<1>3. HeartbeatAccountsForEmits
  BY <1>2 DEF Queue!Accounted, HeartbeatAccountsForEmits
<1>4. EmissionOrder
  <2> DEFINE s == popped \o dq
             t == Ids(popped) \o Ids(dq)
  <2>1. s \in Seq(SpanEnvelope)
    BY <1>1, ConcatProperties
  <2>2. Ids(s) = t
    BY <1>1, IdsConcat
  <2>3. \A i, j \in 1 .. Len(t) : i < j => t[i] < t[j]
    BY DEF Queue!InOrder, Queue!Increasing
  <2>4. EmissionOrder <=> \A i, j \in 1 .. Len(s) : i < j => s[i].id < s[j].id
    BY DEF EmissionOrder
  <2> HIDE DEF s, t
  <2>5. Len(t) = Len(s) /\ \A i \in 1 .. Len(s) : t[i] = s[i].id
    BY <2>1, <2>2, IdsProperties
  <2> QED
    BY <2>3, <2>4, <2>5
<1> QED
  BY <1>3, <1>4

(* The heartbeat's counters account for every emit, and envelopes leave in *)
(* emission order.                                                         *)
THEOREM BufferCorrect == Spec => [](HeartbeatAccountsForEmits /\ EmissionOrder)
<1>1. Bounded => TypeOK /\ OvershootBounded
  BY DEF Bounded
<1> QED
  BY BufferImplementsQueue, BufferBounded, QueueCorrect, QueueFacts, <1>1, PTL
     DEF ImplementsCountedLossQueue
-----------------------------------------------------------------------------
(* What is lost.                                                           *)
LEMMA SecondPart ==
  ASSUME NEW S, NEW r \in Seq(S), NEW t \in Seq(S), NEW i \in 1 .. Len(t)
  PROVE  \E j \in DOMAIN (r \o t) : (r \o t)[j] = t[i]
<1> DEFINE c == r \o t
<1>1. /\ c \in Seq(S) /\ Len(c) = Len(r) + Len(t)
      /\ \A j \in 1 .. Len(r) + Len(t) : c[j] = IF j <= Len(r) THEN r[j] ELSE t[j - Len(r)]
  BY ConcatProperties
<1> HIDE DEF c
<1>2. Len(r) \in Nat /\ Len(t) \in Nat
  BY LenProperties
<1>3. PICK j \in Int : j = Len(r) + i
  BY <1>2
<1>4. j \in 1 .. Len(r) + Len(t) /\ ~(j <= Len(r)) /\ j - Len(r) = i
  BY <1>2, <1>3
<1>5. c[j] = t[i] /\ j \in DOMAIN c
  BY <1>1, <1>4
<1> QED
  BY <1>5 DEF c

(* A push keeps every envelope but the one its tier takes.                 *)
LEMMA PushKeeps ==
  ASSUME IInv, NEW env \in SpanEnvelope, NEW i \in DOMAIN dq,
         PushFits(env) \/ PushDropsUpdate(env) \/ PushStripsPayloadRef(env),
         dq[i].kind # "span_update"
  PROVE  \E j \in 1 .. Len(dq') : dq'[j].id = dq[i].id
<1>1. dq \in Seq(SpanEnvelope) /\ DOMAIN dq = 1 .. Len(dq) /\ Len(dq) \in Nat
  BY LenProperties DEF IInv, TypeOK
<1>2. ASSUME NEW r \in Seq(SpanEnvelope), dq' = Append(r, env), NEW k \in 1 .. Len(r), r[k].id = dq[i].id
      PROVE  \E j \in 1 .. Len(dq') : dq'[j].id = dq[i].id
  <2>1. Len(dq') = Len(r) + 1 /\ dq'[k] = r[k] /\ Len(r) \in Nat
    BY <1>2, AppendProperties, LenProperties
  <2>2. k \in 1 .. Len(dq')
    BY <2>1
  <2> QED
    BY <1>2, <2>1, <2>2
<1>3. CASE PushFits(env)
  BY <1>1, <1>2, <1>3 DEF PushFits
<1>4. CASE PushDropsUpdate(env)
  <2>1. PICK u \in DOMAIN dq : IsOldest(u, Updates) /\ dq' = Append(RemoveAt(dq, u), env)
    BY <1>4 DEF PushDropsUpdate
  <2>2. u # i
    BY <2>1 DEF IsOldest, Updates
  <2> DEFINE r == RemoveAt(dq, u)
  <2>3. /\ r \in Seq(SpanEnvelope) /\ Len(r) = Len(dq) - 1
        /\ \A j \in 1 .. Len(dq) - 1 : r[j] = IF j < u THEN dq[j] ELSE dq[j + 1]
    BY <1>1, RemoveAtProperties
  <2>4. \E k \in 1 .. Len(r) : r[k] = dq[i]
    <3> HIDE DEF r
    <3>1. CASE i < u
      <4>1. i \in 1 .. Len(dq) - 1
        BY <1>1, <3>1
      <4> QED
        BY <2>3, <3>1, <4>1
    <3>2. CASE ~(i < u)
      <4>1. PICK k \in Int : k = i - 1
        BY <1>1
      <4>2. k \in 1 .. Len(dq) - 1 /\ ~(k < u) /\ k + 1 = i
        BY <1>1, <2>2, <3>2, <4>1
      <4> QED
        BY <2>3, <4>2
    <3> QED
      BY <3>1, <3>2
  <2> HIDE DEF r
  <2> QED
    BY <1>2, <2>1, <2>3, <2>4 DEF r
<1>5. CASE PushStripsPayloadRef(env)
  <2>1. PICK u \in DOMAIN dq : dq' = Append([dq EXCEPT ![u].has_payload_ref = FALSE], env)
    BY <1>5 DEF PushStripsPayloadRef
  <2> DEFINE r == [dq EXCEPT ![u].has_payload_ref = FALSE]
  <2>2. \A j \in 1 .. Len(dq) : r[j] \in SpanEnvelope /\ r[j].id = dq[j].id
    <3> TAKE j \in 1 .. Len(dq)
    <3>1. dq[j] \in SpanEnvelope
      BY <1>1, ElementOfSeq
    <3>2. CASE j = u
      <4>1. r[j] = [dq[j] EXCEPT !.has_payload_ref = FALSE]
        BY <1>1, <3>2
      <4> QED
        BY <3>1, <4>1 DEF SpanEnvelope
    <3>3. CASE j # u
      BY <1>1, <3>1, <3>3
    <3> QED
      BY <3>2, <3>3
  <2>3. r \in Seq(SpanEnvelope) /\ Len(r) = Len(dq)
    <3>1. r \in [1 .. Len(dq) -> SpanEnvelope]
      BY <1>1, <2>2
    <3> QED
      BY <1>1, <3>1, SeqDef, LenProperties
  <2> HIDE DEF r
  <2> QED
    BY <1>1, <1>2, <2>1, <2>2, <2>3 DEF r
<1> QED
  BY <1>3, <1>4, <1>5

LEMMA BoundariesStep ==
  ASSUME IInv, [Next]_vars, NEW i \in DOMAIN dq, dq[i].kind # "span_update",
         \A j \in DOMAIN (popped' \o dq') : (popped' \o dq')[j].id # dq[i].id
  PROVE  Updates = {} /\ WithPayloadRef = {}
<1>1. dq \in Seq(SpanEnvelope) /\ popped \in Seq(SpanEnvelope) /\ i \in 1 .. Len(dq)
  BY LenProperties DEF IInv, TypeOK
<1>2. \E k \in DOMAIN (popped \o dq) : (popped \o dq)[k] = dq[i]
  BY <1>1, SecondPart
<1>3. CASE Push
  <2>1. PICK env \in SpanEnvelope : \/ PushFits(env) \/ PushDropsUpdate(env)
                                    \/ PushStripsPayloadRef(env) \/ PushDropsSpan(env)
    BY <1>3, PushEnvelope
  <2>2. popped' \in Seq(SpanEnvelope) /\ dq' \in Seq(SpanEnvelope)
    BY <1>1, <1>3, <2>1, PushEnvelope, PushDeque
  <2>3. ~\E j \in 1 .. Len(dq') : dq'[j].id = dq[i].id
    <3> SUFFICES ASSUME NEW j \in 1 .. Len(dq'), dq'[j].id = dq[i].id PROVE FALSE
      OBVIOUS
    <3>1. PICK k \in DOMAIN (popped' \o dq') : (popped' \o dq')[k] = dq'[j]
      BY <2>2, SecondPart
    <3> QED
      BY <3>1
  <2>4. PushDropsSpan(env)
    BY <2>1, <2>3, PushKeeps
  <2> QED
    BY <2>4 DEF PushDropsSpan
<1>4. CASE PopBatch
  <2>1. PICK n \in 1 .. Len(dq) : popped' = popped \o SubSeq(dq, 1, n) /\ dq' = SubSeq(dq, n + 1, Len(dq))
    BY <1>4, PopDeque
  <2>2. popped' \o dq' = popped \o dq
    BY <1>1, <2>1, SplitConcat
  <2> QED
    BY <1>2, <2>2
<1>5. CASE UNCHANGED vars
  <2>1. popped' \o dq' = popped \o dq
    BY <1>5 DEF vars
  <2> QED
    BY <1>2, <2>1
<1> QED
  BY <1>3, <1>4, <1>5 DEF Next

(* A push that loses a span's start or end found neither an update to drop *)
(* nor a payload reference to strip (_evict_one_locked).                   *)
THEOREM BoundariesLast == Spec => BoundariesDroppedLast
<1>1. IInv /\ [Next]_vars =>
        [\A i \in DOMAIN dq :
           (/\ dq[i].kind # "span_update"
            /\ \A j \in DOMAIN (popped' \o dq') : (popped' \o dq')[j].id # dq[i].id)
           => Updates = {} /\ WithPayloadRef = {}]_vars
  BY BoundariesStep
<1> QED
  BY <1>1, InitIInv, NextIInv, PTL DEF Spec, BoundariesDroppedLast
=============================================================================
