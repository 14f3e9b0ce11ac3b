--------------------------- MODULE PayloadsProofs ---------------------------
(***************************************************************************)
(* Proofs about Payloads, for any spans, sessions, payloads and bounds:    *)
(* what a deletion and a sweep may take, and what becomes of the payloads. *)
(*                                                                         *)
(* That a referenced payload is kept needs no invariant: it is decided by  *)
(* the rows that the deletion's own transaction reads.  A sweep works from *)
(* a list it has read before, so the state has to say of the sessions on   *)
(* it why one of them may be live (ListedReborn).                          *)
(*                                                                         *)
(* The buffer's count is a sum over a set, which the prover cannot unfold: *)
(* SizeOf's laws are proved first, by induction over sets of numbers.  The *)
(* chunks are followed through one sequence, Pipe, of what the server has  *)
(* still to handle: each payload's chunks flow through it in order (Flow), *)
(* without a gap where none is evicted (Unbroken).                         *)
(***************************************************************************)
EXTENDS Payloads, Integers, FiniteSetTheorems, SequenceTheorems, WellFoundedInduction, TLAPS

-----------------------------------------------------------------------------
(* Induction over a set of numbers, through the least that is not in it.   *)
LEMMA LeastNumber ==
  ASSUME NEW T \in SUBSET Nat, T # {}
  PROVE  \E x \in T : \A y \in T : x <= y
<1> DEFINE R == OpToRel(<, Nat)
<1>1. \E x \in T : \A y \in T : ~(<<y, x>> \in R)
  <2>1. IsWellFoundedOn(R, Nat)
    BY NatLessThanWellFounded
  <2> HIDE DEF R
  <2> QED
    BY <2>1, WFMin, Zenon
<1>2. \A x, y \in Nat : <<y, x>> \in R <=> y < x
  BY DEF OpToRel
<1> HIDE DEF R
<1>3. PICK x \in T : \A y \in T : ~(<<y, x>> \in R)
  BY <1>1
<1>4. \A y \in T : ~(y < x)
  BY <1>2, <1>3
<1>5. \A y \in T : x <= y
  BY <1>4
<1> QED
  BY <1>5

LEMMA SetInduction ==
  ASSUME NEW G \in SUBSET Nat, 0 \in G, \A n \in G : n + 1 \in G
  PROVE  G = Nat
<1> SUFFICES ASSUME G # Nat PROVE FALSE
  OBVIOUS
<1>1. PICK x \in Nat \ G : \A y \in Nat \ G : x <= y
  BY LeastNumber
<1>2. x # 0 /\ x - 1 \in Nat /\ ~(x <= x - 1) /\ x - 1 + 1 = x
  BY <1>1
<1> QED
  BY <1>1, <1>2

-----------------------------------------------------------------------------
(* The sum of sizes, SizeOf.  The library's fold is a function defined by  *)
(* recursion on an element it chooses; that there is one, and that which   *)
(* element comes first makes no difference, is by induction on Cardinality.*)

Some(s) == CHOOSE x \in s : TRUE
SumBy(f, s) == IF s = {} THEN 0 ELSE Parts[Some(s)] + f[s \ {Some(s)}]
IsSum(f, S) == f = [s \in SUBSET S |-> SumBy(f, s)]
Sum(S) == CHOOSE f : IsSum(f, S)

LEMMA SizeIsSum == \A S : SizeOf(S) = Sum(S)[S]
<1> SUFFICES ASSUME NEW S PROVE SizeOf(S) = Sum(S)[S]
  OBVIOUS
<1> QED
  BY DEF SizeOf, MapThenSumSet, MapThenFoldSet, Sum, IsSum, SumBy, Some

Lots == {S \in SUBSET Digests : IsFiniteSet(S)}

LEMMA LotsProperties ==
  ASSUME NEW S \in Lots
  PROVE  /\ Cardinality(S) \in Nat /\ (Cardinality(S) = 0 <=> S = {})
         /\ \A T \in SUBSET S : T \in Lots /\ Cardinality(T) <= Cardinality(S)
         /\ \A x \in S : Cardinality(S \ {x}) = Cardinality(S) - 1
         /\ \A x \in Digests : S \cup {x} \in Lots
         /\ S # {} => Some(S) \in S /\ Parts[Some(S)] \in Nat
         /\ \A x \in S : Parts[x] \in Nat
<1>1. IsFiniteSet(S) /\ S \subseteq Digests
  BY DEF Lots
<1>2. \A T \in SUBSET S : IsFiniteSet(T) /\ Cardinality(T) <= Cardinality(S)
  BY <1>1, FS_Subset
<1>3. Cardinality(S) \in Nat /\ (Cardinality(S) = 0 <=> S = {})
  BY <1>1, FS_CardinalityType, FS_EmptySet
<1>4. \A x \in S : Cardinality(S \ {x}) = Cardinality(S) - 1
  BY <1>1, FS_RemoveElement
<1>5. \A x \in Digests : IsFiniteSet(S \cup {x})
  BY <1>1, FS_AddElement
<1>6. S # {} => Some(S) \in S
  BY DEF Some
<1>7. \A x \in S : Parts[x] \in Nat
  BY <1>1, PartsAssumption
<1> QED
  BY <1>1, <1>2, <1>3, <1>4, <1>5, <1>6, <1>7 DEF Lots

LEMMA SumExists ==
  ASSUME NEW S \in Lots
  PROVE  \E f \in [SUBSET S -> Nat] : IsSum(f, S)
<1> DEFINE Good(f, n) == \A s \in SUBSET S : Cardinality(s) <= n => f[s] = SumBy(f, s)
           G == {n \in Nat : \E f \in [SUBSET S -> Nat] : Good(f, n)}
<1>0. \A s \in SUBSET S : s \in Lots /\ Cardinality(s) \in Nat
  BY LotsProperties
<1>1. 0 \in G
  <2> DEFINE f == [s \in SUBSET S |-> 0]
  <2>1. \A s \in SUBSET S : Cardinality(s) <= 0 => s = {}
    BY <1>0, LotsProperties
  <2>2. f \in [SUBSET S -> Nat] /\ Good(f, 0)
    BY <2>1 DEF SumBy
  <2> QED
    BY <2>2
<1>2. ASSUME NEW n \in G PROVE n + 1 \in G
  <2>1. PICK f \in [SUBSET S -> Nat] : Good(f, n)
    OBVIOUS
  <2> DEFINE g == [s \in SUBSET S |-> SumBy(f, s)]
  <2>2. \A s \in SUBSET S : s # {} => s \ {Some(s)} \in SUBSET S
                                     /\ Cardinality(s \ {Some(s)}) = Cardinality(s) - 1
                                     /\ Parts[Some(s)] \in Nat
    BY <1>0, LotsProperties
  <2>3. g \in [SUBSET S -> Nat]
    <3>1. \A s \in SUBSET S : SumBy(f, s) \in Nat
      BY <2>2 DEF SumBy
    <3> QED
      BY <3>1
  <2>4. ASSUME NEW s \in SUBSET S, Cardinality(s) <= n + 1
        PROVE  g[s] = SumBy(g, s)
    <3>1. g[s] = SumBy(f, s)
      OBVIOUS
    <3>2. CASE s = {}
      BY <3>1, <3>2 DEF SumBy
    <3>3. CASE s # {}
      <4> DEFINE r == s \ {Some(s)}
      <4>1. r \in SUBSET S /\ Cardinality(r) <= n
        BY <1>0, <2>2, <2>4, <3>3
      <4>2. f[r] = SumBy(f, r) /\ g[r] = SumBy(f, r)
        BY <2>1, <4>1
      <4> QED
        BY <3>1, <3>3, <4>2 DEF SumBy
    <3> QED
      BY <3>2, <3>3
  <2> HIDE DEF g
  <2>5. Good(g, n + 1)
    BY <2>4
  <2> QED
    BY <2>3, <2>5
<1>3. Cardinality(S) \in G
  <2> HIDE DEF G
  <2>1. G \in SUBSET Nat
    BY DEF G
  <2>2. G = Nat
    BY <1>1, <1>2, <2>1, SetInduction
  <2> QED
    BY <2>2, LotsProperties
<1>4. PICK f \in [SUBSET S -> Nat] : Good(f, Cardinality(S))
  BY <1>3
<1>5. \A s \in SUBSET S : f[s] = SumBy(f, s)
  BY <1>4, LotsProperties
<1> QED
  BY <1>5 DEF IsSum

LEMMA SumUnique ==
  ASSUME NEW S \in Lots, NEW T \in SUBSET S, NEW f, NEW g, IsSum(f, S), IsSum(g, T)
  PROVE  f[T] = g[T]
<1> DEFINE G == {n \in Nat : \A s \in SUBSET T : Cardinality(s) <= n => f[s] = g[s]}
<1>0. \A s \in SUBSET T : s \in Lots /\ s \in SUBSET S /\ Cardinality(s) \in Nat /\ f[s] = SumBy(f, s) /\ g[s] = SumBy(g, s)
  <2>1. \A s \in SUBSET S : f[s] = SumBy(f, s)
    BY DEF IsSum
  <2>2. \A s \in SUBSET T : g[s] = SumBy(g, s)
    BY DEF IsSum
  <2> QED
    BY <2>1, <2>2, LotsProperties
<1>1. 0 \in G
  <2>1. \A s \in SUBSET T : Cardinality(s) <= 0 => s = {}
    BY <1>0, LotsProperties
  <2> QED
    BY <1>0, <2>1 DEF SumBy
<1>2. ASSUME NEW n \in G PROVE n + 1 \in G
  <2>1. ASSUME NEW s \in SUBSET T, Cardinality(s) <= n + 1
        PROVE  f[s] = g[s]
    <3>1. CASE s = {}
      BY <1>0, <3>1 DEF SumBy
    <3>2. CASE s # {}
      <4> DEFINE r == s \ {Some(s)}
      <4>1. r \in SUBSET T /\ Cardinality(r) <= n
        BY <1>0, <2>1, <3>2, LotsProperties
      <4>2. f[r] = g[r]
        BY <4>1
      <4> QED
        BY <1>0, <3>2, <4>2 DEF SumBy
    <3> QED
      BY <3>1, <3>2
  <2> QED
    BY <2>1
<1>3. G = Nat
  <2> HIDE DEF G
  <2>1. G \in SUBSET Nat
    BY DEF G
  <2> QED
    BY <1>1, <1>2, <2>1, SetInduction
<1> QED
  BY <1>0, <1>3

LEMMA SizeChosen ==
  /\ SizeOf({}) = 0
  /\ \A S \in Lots : S # {} => SizeOf(S) = Parts[Some(S)] + SizeOf(S \ {Some(S)})
<1>1. ASSUME NEW S \in Lots PROVE IsSum(Sum(S), S)
  BY SumExists DEF Sum
<1>2. {} \in Lots
  BY FS_EmptySet DEF Lots
<1>3. SizeOf({}) = 0
  BY <1>1, <1>2, SizeIsSum DEF IsSum, SumBy
<1>4. ASSUME NEW S \in Lots, S # {}
      PROVE  SizeOf(S) = Parts[Some(S)] + SizeOf(S \ {Some(S)})
  <2> DEFINE T == S \ {Some(S)}
             f == Sum(S)
             g == Sum(T)
  <2>1. T \in SUBSET S /\ T \in Lots
    BY LotsProperties
  <2>2. IsSum(f, S) /\ IsSum(g, T)
    BY <1>1, <2>1
  <2>3. SizeOf(S) = f[S] /\ SizeOf(T) = g[T]
    BY SizeIsSum
  <2> HIDE DEF T, f, g
  <2>4. f[T] = g[T]
    BY <2>1, <2>2, SumUnique
  <2>5. f[S] = Parts[Some(S)] + f[S \ {Some(S)}]
    BY <1>4, <2>2 DEF IsSum, SumBy
  <2> QED
    BY <2>3, <2>4, <2>5 DEF T
<1> QED
  BY <1>3, <1>4

(* Each element counts once, whichever is taken out first.                 *)
LEMMA SizeRemove ==
  \A S \in Lots : SizeOf(S) \in Nat /\ \A x \in S : SizeOf(S) = Parts[x] + SizeOf(S \ {x})
<1> DEFINE Fair(S) == SizeOf(S) \in Nat /\ \A x \in S : SizeOf(S) = Parts[x] + SizeOf(S \ {x})
           G == {n \in Nat : \A S \in Lots : Cardinality(S) <= n => Fair(S)}
<1>1. 0 \in G
  <2>1. \A S \in Lots : Cardinality(S) <= 0 => S = {}
    BY LotsProperties
  <2>2. Fair({})
    BY SizeChosen
  <2> HIDE DEF Fair
  <2>3. \A S \in Lots : Cardinality(S) <= 0 => Fair(S)
    BY <2>1, <2>2
  <2> QED
    BY <2>3
<1>2. ASSUME NEW n \in G PROVE n + 1 \in G
  <2>1. ASSUME NEW S \in Lots, Cardinality(S) <= n + 1, S # {}
        PROVE  Fair(S)
    <3> DEFINE c == Some(S)
               C == S \ {c}
    <3>1. c \in S /\ Parts[c] \in Nat /\ C \in Lots /\ Cardinality(C) <= n
      BY <2>1, LotsProperties
    <3>2. SizeOf(S) = Parts[c] + SizeOf(C)
      BY <2>1, SizeChosen
    <3>3. Fair(C)
      BY <3>1
    <3>4. SizeOf(S) \in Nat
      BY <3>1, <3>2, <3>3
    <3>5. ASSUME NEW x \in S, x # c
          PROVE  SizeOf(S) = Parts[x] + SizeOf(S \ {x})
      <4> DEFINE X == S \ {x}
                 B == C \ {x}
      <4>1. X \in Lots /\ Cardinality(X) <= n /\ Parts[x] \in Nat /\ B \in Lots /\ Cardinality(B) <= n
        <5>1. X \in Lots /\ Cardinality(X) = Cardinality(S) - 1 /\ Parts[x] \in Nat
          BY LotsProperties
        <5>2. B \in Lots /\ Cardinality(B) <= Cardinality(C)
          BY <3>1, LotsProperties
        <5>3. Cardinality(S) \in Nat /\ Cardinality(C) \in Nat /\ Cardinality(B) \in Nat
          BY <3>1, <5>2, LotsProperties
        <5> QED
          BY <2>1, <3>1, <5>1, <5>2, <5>3
      <4>2. c \in X /\ x \in C /\ X \ {c} = B
        BY <3>1, <3>5
      <4>3. Fair(X) /\ Fair(B)
        BY <4>1
      <4>4. SizeOf(X) = Parts[c] + SizeOf(B) /\ SizeOf(C) = Parts[x] + SizeOf(B) /\ SizeOf(B) \in Nat
        BY <3>3, <4>2, <4>3
      <4> HIDE DEF X, B, C, c
      <4> QED
        BY <3>1, <3>2, <4>1, <4>4 DEF X
    <3> QED
      BY <3>2, <3>4, <3>5
  <2>2. Fair({})
    BY SizeChosen
  <2> QED
    BY <2>1, <2>2
<1>3. G = Nat
  <2> HIDE DEF G
  <2>1. G \in SUBSET Nat
    BY DEF G
  <2> QED
    BY <1>1, <1>2, <2>1, SetInduction
<1>4. ASSUME NEW S \in Lots PROVE Fair(S)
  BY <1>3, LotsProperties
<1> QED
  BY <1>4

LEMMA SizeSplit ==
  ASSUME NEW S \in Lots, NEW V \in SUBSET S
  PROVE  SizeOf(S) = SizeOf(V) + SizeOf(S \ V)
<1> DEFINE G == {n \in Nat : \A T \in SUBSET S : Cardinality(T) <= n => SizeOf(S) = SizeOf(T) + SizeOf(S \ T)}
<1>0. \A T \in SUBSET S : T \in Lots /\ S \ T \in Lots /\ Cardinality(T) \in Nat /\ SizeOf(T) \in Nat /\ SizeOf(S \ T) \in Nat
  BY LotsProperties, SizeRemove
<1>1. 0 \in G
  <2>1. \A T \in SUBSET S : Cardinality(T) <= 0 => T = {}
    BY <1>0, LotsProperties
  <2>2. SizeOf(S) = SizeOf({}) + SizeOf(S \ {})
    <3>1. S \ {} = S /\ SizeOf(S) \in Nat /\ SizeOf({}) = 0
      BY SizeChosen, SizeRemove
    <3> QED
      BY <3>1
  <2> QED
    BY <2>1, <2>2
<1>2. ASSUME NEW n \in G PROVE n + 1 \in G
  <2>1. ASSUME NEW T \in SUBSET S, Cardinality(T) <= n + 1, T # {}
        PROVE  SizeOf(S) = SizeOf(T) + SizeOf(S \ T)
    <3>1. PICK x \in T : TRUE
      BY <2>1
    <3> DEFINE U == T \ {x}
    <3>2. U \in SUBSET S /\ Cardinality(U) <= n /\ x \in S \ U /\ (S \ U) \ {x} = S \ T /\ Parts[x] \in Nat
      BY <1>0, <2>1, <3>1, LotsProperties
    <3>3. SizeOf(S) = SizeOf(U) + SizeOf(S \ U)
      BY <3>2
    <3>4. SizeOf(T) = Parts[x] + SizeOf(U) /\ SizeOf(S \ U) = Parts[x] + SizeOf(S \ T)
      <4>1. T \in Lots /\ S \ U \in Lots
        BY <1>0, <3>2
      <4>2. SizeOf(T) = Parts[x] + SizeOf(U)
        BY <3>1, <4>1, SizeRemove
      <4>3. SizeOf(S \ U) = Parts[x] + SizeOf((S \ U) \ {x})
        BY <3>2, <4>1, SizeRemove
      <4> QED
        BY <3>2, <4>2, <4>3
    <3> HIDE DEF U
    <3> QED
      BY <1>0, <3>2, <3>3, <3>4
  <2>2. SizeOf(S) = SizeOf({}) + SizeOf(S \ {})
    <3>1. S \ {} = S /\ SizeOf(S) \in Nat /\ SizeOf({}) = 0
      BY SizeChosen, SizeRemove
    <3> QED
      BY <3>1
  <2> QED
    BY <2>1, <2>2
<1>3. G = Nat
  <2> HIDE DEF G
  <2>1. G \in SUBSET Nat
    BY DEF G
  <2> QED
    BY <1>1, <1>2, <2>1, SetInduction
<1> QED
  BY <1>0, <1>3

-----------------------------------------------------------------------------
(* The client's buffer.                                                    *)
BInv == BufferAccounts /\ order \in Seq(Digests) /\ blobs \in Lots

LEMMA BInvProperties ==
  ASSUME BInv
  PROVE  /\ bytes = SizeOf(blobs) /\ bytes \in Nat /\ bytes <= Capacity /\ Capacity \in Nat
         /\ blobs \subseteq Digests /\ Len(order) \in Nat /\ DOMAIN order = 1 .. Len(order)
         /\ \A i \in 1 .. Len(order) : order[i] \in blobs
         /\ \A d \in blobs : \E i \in 1 .. Len(order) : order[i] = d
         /\ \A i, j \in 1 .. Len(order) : order[i] = order[j] => i = j
<1>1. bytes = SizeOf(blobs) /\ bytes \in Nat /\ blobs \subseteq Digests
  BY SizeRemove DEF BInv, BufferAccounts, Lots
<1>2. Len(order) \in Nat /\ DOMAIN order = 1 .. Len(order)
  BY DEF BInv
<1> QED
  BY <1>1, <1>2, PartsAssumption DEF BInv, BufferAccounts, Range, IsInjective

(* The loop of put stops at the first position that makes room, and there  *)
(* is one, since an empty buffer has room for what is not too big.         *)
LEMMA RoomIsMade ==
  ASSUME BInv, NEW d \in Digests, ~TooBig(d)
  PROVE  FewestThatFit(d) \in 0 .. Len(order) /\ Fits(d, FewestThatFit(d))
<1> DEFINE I == {n \in 0 .. Len(order) : Fits(d, n) \/ n = Len(order)}
<1>1. Fits(d, Len(order))
  <2>1. FirstOf(Len(order)) \cap blobs = blobs
    BY BInvProperties DEF FirstOf
  <2>2. bytes - bytes + Parts[d] <= Capacity
    BY BInvProperties, PartsAssumption DEF TooBig
  <2> QED
    BY <2>1, <2>2, BInvProperties DEF Fits
<1>2. PICK n \in I : \A k \in I : n <= k
  <2>1. I \in SUBSET Nat /\ Len(order) \in I
    BY BInvProperties
  <2> HIDE DEF I
  <2> QED
    BY <2>1, LeastNumber
<1>3. \A k \in 0 .. (n - 1) : ~Fits(d, k)
  <2> SUFFICES ASSUME NEW k \in 0 .. (n - 1), Fits(d, k) PROVE FALSE
    OBVIOUS
  <2>1. n \in 0 .. Len(order) /\ Len(order) \in Nat
    BY BInvProperties
  <2>2. k \in 0 .. Len(order) /\ ~(n <= k)
    BY <2>1
  <2> QED
    BY <1>2, <2>2
<1>4. \E m \in 0 .. Len(order) : (Fits(d, m) \/ m = Len(order)) /\ \A k \in 0 .. (m - 1) : ~Fits(d, k)
  BY <1>2, <1>3
<1>5. /\ FewestThatFit(d) \in 0 .. Len(order)
      /\ Fits(d, FewestThatFit(d)) \/ FewestThatFit(d) = Len(order)
  <2> HIDE DEF I
  <2> QED
    BY <1>4 DEF FewestThatFit
<1> QED
  BY <1>1, <1>5

LEMMA PutKeeps ==
  ASSUME BInv, NEW d \in Digests, PutBlob(d)
  PROVE  BInv'
<1>1. CASE TooBig(d) \/ d \in blobs
  BY <1>1 DEF PutBlob, bufferVars, BInv, BufferAccounts
<1>2. CASE ~TooBig(d) /\ d \notin blobs
  <2> DEFINE n == FewestThatFit(d)
             F == FirstOf(n)
             rest == SubSeq(order, n + 1, Len(order))
  <2>1. n \in 0 .. Len(order) /\ Fits(d, n)
    BY <1>2, RoomIsMade
  <2>2. /\ blobs' = (blobs \ F) \cup {d} /\ order' = Append(rest, d)
        /\ bytes' = bytes - SizeOf(F \cap blobs) + Parts[d]
    BY <1>2 DEF PutBlob, Victims
  <2>3. /\ rest \in Seq(Digests) /\ Len(rest) = Len(order) - n
        /\ \A i \in 1 .. Len(order) - n : rest[i] = order[n + i] /\ n + i \in 1 .. Len(order)
    <3>1. order \in Seq(Digests) /\ n \in Nat /\ n <= Len(order)
      BY <2>1 DEF BInv
    <3> HIDE DEF n
    <3>2. rest \in Seq(Digests) /\ Len(rest) = Len(order) - n
      BY <3>1
    <3>3. \A i \in 1 .. Len(order) - n : rest[i] = order[n + i]
      BY <3>1
    <3>4. \A i \in 1 .. Len(order) - n : n + i \in 1 .. Len(order)
      BY <3>1
    <3> QED
      BY <3>2, <3>3, <3>4
  <2>4. /\ order' \in Seq(Digests) /\ Len(order') = Len(order) - n + 1
        /\ order'[Len(order) - n + 1] = d /\ \A i \in 1 .. Len(order) - n : order'[i] = order[n + i]
    BY <2>2, <2>3
  <2>5. F = {order[i] : i \in 1 .. n}
    BY DEF FirstOf
  <2>6. bytes - SizeOf(F \cap blobs) + Parts[d] <= Capacity
    BY <2>1 DEF Fits
  <2> HIDE DEF n, F, rest
  <2>7. Len(order) \in Nat /\ n \in Nat /\ n <= Len(order)
    BY <2>1, BInvProperties
  <2>8. Range(order') = blobs'
    <3>1. DOMAIN order' = 1 .. Len(order) - n + 1
      BY <2>4
    <3>2. ASSUME NEW x \in Range(order') PROVE x \in blobs'
      <4>1. PICK i \in 1 .. Len(order) - n + 1 : x = order'[i]
        BY <3>1 DEF Range
      <4>2. CASE i = Len(order) - n + 1
        BY <2>2, <2>4, <4>1, <4>2
      <4>3. CASE i # Len(order) - n + 1
        <5>1. i \in 1 .. Len(order) - n /\ n + i \in 1 .. Len(order) /\ x = order[n + i] /\ n + i > n
          BY <2>3, <2>4, <2>7, <4>1, <4>3, SMTT(30)
        <5>2. \A j \in 1 .. n : j \in 1 .. Len(order) /\ j # n + i
          BY <2>7, <5>1
        <5>3. x \in blobs /\ x \notin F
          BY <2>5, <5>1, <5>2, BInvProperties
        <5> QED
          BY <2>2, <5>3
      <4> QED
        BY <4>2, <4>3
    <3>3. ASSUME NEW x \in blobs' PROVE x \in Range(order')
      <4>1. CASE x = d
        <5>1. Len(order) - n + 1 \in DOMAIN order'
          BY <2>7, <3>1
        <5> QED
          BY <2>4, <4>1, <5>1 DEF Range
      <4>2. CASE x # d
        <5>1. x \in blobs /\ x \notin F
          BY <2>2, <4>2
        <5>2. PICK i \in 1 .. Len(order) : x = order[i]
          BY <5>1, BInvProperties
        <5>3. ~(i <= n)
          BY <2>5, <5>1, <5>2
        <5>4. i - n \in 1 .. Len(order) - n /\ n + (i - n) = i /\ i - n \in DOMAIN order'
          BY <2>7, <3>1, <5>3
        <5>5. order'[i - n] = x
          BY <2>4, <5>2, <5>4
        <5> QED
          BY <5>4, <5>5 DEF Range
      <4> QED
        BY <4>1, <4>2
    <3> QED
      BY <3>2, <3>3
  <2>9. IsInjective(order')
    <3> SUFFICES ASSUME NEW i \in DOMAIN order', NEW j \in DOMAIN order', order'[i] = order'[j]
                 PROVE  i = j
      BY DEF IsInjective
    <3>1. i \in 1 .. Len(order) - n + 1 /\ j \in 1 .. Len(order) - n + 1
      BY <2>4
    <3>2. \A k \in 1 .. Len(order) - n : order'[k] \in blobs /\ order'[k] # d
      BY <1>2, <2>3, <2>4, BInvProperties
    <3>3. CASE i \in 1 .. Len(order) - n /\ j \in 1 .. Len(order) - n
      <4>1. order[n + i] = order[n + j] /\ n + i \in 1 .. Len(order) /\ n + j \in 1 .. Len(order)
        BY <2>3, <2>4, <3>3
      <4>2. n + i = n + j
        BY <4>1, BInvProperties
      <4> QED
        BY <2>7, <3>3, <4>2
    <3>4. CASE i = Len(order) - n + 1 \/ j = Len(order) - n + 1
      <4>1. \A k \in 1 .. Len(order) - n + 1 : k \in 1 .. Len(order) - n \/ k = Len(order) - n + 1
        BY <2>7
      <4> QED
        BY <2>4, <3>1, <3>2, <3>4, <4>1
    <3> QED
      BY <2>7, <3>1, <3>3, <3>4
  <2>10. blobs' \in Lots
    <3>1. blobs \ F \in Lots
      BY LotsProperties DEF BInv
    <3> QED
      BY <2>2, <3>1, LotsProperties
  <2>11. bytes' = SizeOf(blobs') /\ bytes' <= Capacity
    <3> DEFINE V == F \cap blobs
               W == blobs \ F
    <3>1. V \in SUBSET blobs /\ blobs \ V = W /\ V \in Lots /\ W \in Lots
      BY LotsProperties DEF BInv
    <3>2. SizeOf(blobs) = SizeOf(V) + SizeOf(W)
      BY <3>1, SizeSplit DEF BInv
    <3>3. blobs' \ {d} = W /\ d \in blobs'
      BY <1>2, <2>2
    <3>4. SizeOf(blobs') = Parts[d] + SizeOf(W)
      BY <2>10, <3>3, SizeRemove
    <3>5. SizeOf(V) \in Nat /\ SizeOf(W) \in Nat /\ Parts[d] \in Nat
      BY <3>1, SizeRemove, PartsAssumption
    <3>6. bytes = SizeOf(blobs) /\ bytes' = bytes - SizeOf(V) + Parts[d] /\ bytes' <= Capacity
      BY <2>2, <2>6, BInvProperties
    <3> HIDE DEF V, W
    <3> QED
      BY <3>2, <3>4, <3>5, <3>6
  <2> QED
    BY <2>4, <2>8, <2>9, <2>10, <2>11 DEF BInv, BufferAccounts
<1> QED
  BY <1>1, <1>2

LEMMA TakeKeeps ==
  ASSUME BInv, NEW d \in Digests, TakeBlob(d)
  PROVE  BInv'
<1>1. CASE d \notin blobs
  <2>1. ~\E i \in 1 .. Len(order) : order[i] = d
    BY <1>1, BInvProperties
  <2>2. order' = order /\ blobs' = blobs /\ {d} \cap blobs = {}
    BY <1>1, <2>1 DEF TakeBlob
  <2>3. bytes' = bytes
    <3>1. bytes' = bytes - SizeOf({d} \cap blobs) /\ SizeOf({d} \cap blobs) = 0 /\ bytes \in Nat
      BY <2>2, BInvProperties, SizeChosen DEF TakeBlob
    <3> QED
      BY <3>1
  <2> QED
    BY <2>2, <2>3 DEF BInv, BufferAccounts
<1>2. CASE d \in blobs
  <2> DEFINE I == {i \in 1 .. Len(order) : order[i] = d}
             k == Min(I)
  <2>1. k \in 1 .. Len(order) /\ order[k] = d
    <3>1. I \in SUBSET Nat /\ I # {}
      BY <1>2, BInvProperties
    <3>2. \E x \in I : \A y \in I : x <= y
      <4> HIDE DEF I
      <4> QED
        BY <3>1, LeastNumber
    <3>3. k \in I
      <4> HIDE DEF I
      <4> QED
        BY <3>2 DEF Min
    <3> QED
      BY <3>3
  <2>2. order' = RemoveAt(order, k)
    <3>1. I # {} /\ \E i \in 1 .. Len(order) : order[i] = d
      BY <2>1
    <3> QED
      BY <1>2, <3>1 DEF TakeBlob, RemoveFirst, SelectInSeq
  <2>3. blobs' = blobs \ {d} /\ bytes' = bytes - SizeOf({d})
    <3>1. {d} \cap blobs = {d}
      BY <1>2
    <3> QED
      BY <3>1 DEF TakeBlob
  <2> HIDE DEF I, k
  <2>4. /\ order' \in Seq(Digests) /\ Len(order') = Len(order) - 1
        /\ \A i \in 1 .. Len(order) - 1 : order'[i] = order[IF i < k THEN i ELSE i + 1]
    <3> DEFINE p == SubSeq(order, 1, k - 1)
               s == SubSeq(order, k + 1, Len(order))
    <3>1. /\ p \in Seq(Digests) /\ s \in Seq(Digests)
          /\ Len(p) = k - 1 /\ \A i \in 1 .. k - 1 : p[i] = order[i]
          /\ Len(s) = Len(order) - k /\ \A i \in 1 .. Len(order) - k : s[i] = order[k + i]
      BY <2>1 DEF BInv
    <3>2. order' = p \o s
      BY <2>2 DEF RemoveAt
    <3> HIDE DEF p, s
    <3>0. p \o s \in Seq(Digests) /\ Len(p \o s) = Len(p) + Len(s)
          /\ \A i \in 1 .. Len(p) + Len(s) : (p \o s)[i] = IF i <= Len(p) THEN p[i] ELSE s[i - Len(p)]
      BY <3>1, ConcatProperties
    <3>3. /\ order' \in Seq(Digests) /\ Len(order') = Len(p) + Len(s)
          /\ \A i \in 1 .. Len(p) + Len(s) : order'[i] = IF i <= Len(p) THEN p[i] ELSE s[i - Len(p)]
      BY <3>0, <3>2
    <3>4. Len(p) + Len(s) = Len(order) - 1 /\ Len(order) \in Nat
      BY <2>1, <3>1, BInvProperties
    <3>5. ASSUME NEW i \in 1 .. Len(order) - 1
          PROVE  order'[i] = order[IF i < k THEN i ELSE i + 1]
      <4>1. CASE i < k
        <5>1. i \in 1 .. k - 1 /\ i <= Len(p)
          BY <2>1, <3>1, <4>1
        <5> QED
          BY <3>1, <3>3, <3>4, <4>1, <5>1
      <4>2. CASE ~(i < k)
        <5>1. ~(i <= Len(p)) /\ i - (k - 1) \in 1 .. Len(order) - k /\ k + (i - (k - 1)) = i + 1
          BY <2>1, <3>1, <3>4, <4>2
        <5>2. order'[i] = s[i - (k - 1)]
          BY <3>1, <3>3, <3>4, <5>1
        <5> QED
          BY <3>1, <4>2, <5>1, <5>2
      <4> QED
        BY <4>1, <4>2
    <3> QED
      BY <3>3, <3>4, <3>5
  <2>5. /\ Len(order) \in Nat /\ DOMAIN order' = 1 .. Len(order) - 1
        /\ \A i \in 1 .. Len(order) - 1 : (IF i < k THEN i ELSE i + 1) \in 1 .. Len(order)
                                          /\ (IF i < k THEN i ELSE i + 1) # k
        /\ \A i, j \in 1 .. Len(order) - 1 :
             (IF i < k THEN i ELSE i + 1) = (IF j < k THEN j ELSE j + 1) => i = j
        /\ \A j \in 1 .. Len(order) : j # k =>
             \E i \in 1 .. Len(order) - 1 : j = IF i < k THEN i ELSE i + 1
    <3>1. Len(order) \in Nat /\ k \in 1 .. Len(order) /\ DOMAIN order' = 1 .. Len(order) - 1
      BY <2>1, <2>4, BInvProperties
    <3>2. ASSUME NEW j \in 1 .. Len(order), j # k
          PROVE  \E i \in 1 .. Len(order) - 1 : j = IF i < k THEN i ELSE i + 1
      <4>1. CASE j < k
        <5>1. j \in 1 .. Len(order) - 1
          BY <3>1, <4>1
        <5> QED
          BY <4>1, <5>1
      <4>2. CASE ~(j < k)
        <5>1. j - 1 \in 1 .. Len(order) - 1 /\ ~(j - 1 < k) /\ j = j - 1 + 1
          BY <3>1, <3>2, <4>2
        <5> QED
          BY <5>1
      <4> QED
        BY <4>1, <4>2
    <3> QED
      BY <3>1, <3>2
  <2>51. PICK was \in [1 .. Len(order) - 1 -> Int] :
           /\ \A i \in 1 .. Len(order) - 1 : was[i] \in 1 .. Len(order) /\ was[i] # k /\ order'[i] = order[was[i]]
           /\ \A i, j \in 1 .. Len(order) - 1 : was[i] = was[j] => i = j
           /\ \A j \in 1 .. Len(order) : j # k => \E i \in 1 .. Len(order) - 1 : j = was[i]
    <3> DEFINE was == [i \in 1 .. Len(order) - 1 |-> IF i < k THEN i ELSE i + 1]
    <3>1. /\ \A i \in 1 .. Len(order) - 1 : was[i] \in 1 .. Len(order) /\ was[i] # k /\ order'[i] = order[was[i]]
          /\ \A i, j \in 1 .. Len(order) - 1 : was[i] = was[j] => i = j
      BY <2>4, <2>5
    <3>2. \A j \in 1 .. Len(order) : j # k => \E i \in 1 .. Len(order) - 1 : j = was[i]
      BY <2>5
    <3>3. was \in [1 .. Len(order) - 1 -> Int]
      BY <2>5
    <3> HIDE DEF was
    <3> QED
      BY <3>1, <3>2, <3>3
  <2>52. DOMAIN order' = 1 .. Len(order) - 1
    BY <2>5
  <2>53. /\ \A i \in 1 .. Len(order) : order[i] \in blobs /\ (order[i] = d => i = k)
         /\ \A x \in blobs : \E i \in 1 .. Len(order) : order[i] = x
         /\ \A i, j \in 1 .. Len(order) : order[i] = order[j] => i = j
    BY <2>1, BInvProperties
  <2>6. Range(order') = blobs'
    <3>1. \A x : x \in Range(order') <=> \E i \in 1 .. Len(order) - 1 : x = order[was[i]]
      <4>1. \A x : x \in Range(order') <=> \E i \in 1 .. Len(order) - 1 : x = order'[i]
        BY <2>52 DEF Range
      <4>2. \A i \in 1 .. Len(order) - 1 : order'[i] = order[was[i]]
        BY <2>51
      <4> QED
        BY <4>1, <4>2, ZenonT(60)
    <3>2. \A x : x \in blobs' <=> \E j \in 1 .. Len(order) : j # k /\ x = order[j]
      BY <2>1, <2>3, <2>53
    <3>3. \A x : x \in Range(order') <=> x \in blobs'
      BY <2>51, <3>1, <3>2
    <3> QED
      BY <3>3
  <2>7. IsInjective(order')
    <3> SUFFICES ASSUME NEW i \in DOMAIN order', NEW j \in DOMAIN order', order'[i] = order'[j]
                 PROVE  i = j
      BY DEF IsInjective
    <3>1. i \in 1 .. Len(order) - 1 /\ j \in 1 .. Len(order) - 1
      BY <2>52
    <3>2. order[was[i]] = order[was[j]] /\ was[i] \in 1 .. Len(order) /\ was[j] \in 1 .. Len(order)
      BY <2>51, <3>1
    <3>3. was[i] = was[j]
      BY <2>53, <3>2
    <3> QED
      BY <2>51, <3>1, <3>3
  <2>8. blobs' \in Lots
    BY <2>3, LotsProperties DEF BInv
  <2>9. bytes' = SizeOf(blobs') /\ bytes' <= Capacity
    <3>1. SizeOf(blobs) = SizeOf({d}) + SizeOf(blobs \ {d}) /\ {d} \in Lots
      BY <1>2, SizeSplit, LotsProperties DEF BInv
    <3>2. SizeOf({d}) \in Nat /\ SizeOf(blobs \ {d}) \in Nat
      BY <2>3, <2>8, <3>1, SizeRemove
    <3> QED
      BY <2>3, <3>1, <3>2, BInvProperties
  <2> QED
    BY <2>4, <2>6, <2>7, <2>8, <2>9 DEF BInv, BufferAccounts
<1> QED
  BY <1>1, <1>2

-----------------------------------------------------------------------------
(* Deletions and sweeps.                                                   *)
ListedReborn == \A s \in sweep : rows[s] = "live" => s \in reborn

IInv == rows \in [Sessions -> {"none", "live", "over"}] /\ sweep \subseteq Sessions /\ ListedReborn

-----------------------------------------------------------------------------
(* The payloads a deletion takes are not those of the spans that stay.     *)
LEMMA DeletionSpares ==
  ASSUME NEW s, DeleteSession(s), NEW x \in DOMAIN refs \cap DOMAIN refs', refs[x] \in stored
  PROVE  refs[x] \in stored'
<1>1. CASE rows[s] = "none"
  BY <1>1 DEF DeleteSession, store
<1>2. CASE rows[s] # "none"
  <2>1. DOMAIN refs' = DOMAIN refs \ SpansOf(s) /\ stored' = stored \ Orphans(DigestsOf(SpansOf(s)), s)
    BY <1>2 DEF DeleteSession
  <2>2. refs[x] \in DigestsOf(DOMAIN refs \ SpansOf(s))
    BY <2>1 DEF DigestsOf
  <2> QED
    BY <2>1, <2>2 DEF Orphans
<1> QED
  BY <1>1, <1>2

(* What a span refers to stays as long as the span does and refers to it.  *)
LEMMA StepKeeps ==
  ASSUME [Next]_vars, NEW x \in DOMAIN refs \cap DOMAIN refs', refs'[x] = refs[x], refs[x] \in stored
  PROVE  refs[x] \in stored'
<1>1. CASE stored \subseteq stored'
  BY <1>1
<1>2. ASSUME NEW s, DeleteSession(s)
      PROVE  refs[x] \in stored'
  BY <1>2, DeletionSpares
<1>3. CASE DeleteRuns
  BY <1>2, <1>3 DEF DeleteRuns
<1>4. CASE GcPayloads
  BY <1>4 DEF GcPayloads, DigestsOf
<1>5. ASSUME NEW s \in Sessions, SweepDeletes(s)
      PROVE  refs[x] \in stored'
  BY <1>2, <1>5 DEF SweepDeletes
<1>6. CASE UNCHANGED vars
  BY <1>6 DEF vars, store
<1>7. CASE \E y \in Spans : \E d \in Digests : EmitSpan(y, d)
  BY <1>7 DEF EmitSpan, store
<1>8. CASE SendSpan \/ SendPeeked \/ Stop \/ Disconnect
  BY <1>8 DEF SendSpan, SendPeeked, Stop, Disconnect, StreamEnds, store
<1>9. CASE \E c \in Range(chunks) : SendChunk(c)
  BY <1>9 DEF SendChunk, SendEvicted, SendLast, Peek, NextChunk, store
<1>10. CASE Handle
  BY <1>10, <1>1 DEF Handle, SpanStart, AppendSpan, SpanEnd, PayloadEvicted, PayloadChunk, PayloadLast,
                PayloadMismatch, StreamEnds, store
<1>11. CASE \E s \in Sessions : SessionOver(s) \/ \E force \in BOOLEAN : DeleteRequested(s, force)
  BY <1>11 DEF SessionOver, DeleteRequested, Begin, store
<1>12. CASE \E ss \in SUBSET Sessions : SweepLists(ss)
  BY <1>12 DEF SweepLists, Begin, store
<1> QED
  BY <1>3, <1>4, <1>5, <1>6, <1>7, <1>8, <1>9, <1>10, <1>11, <1>12 DEF Next

(* No deletion, sweep or collection takes a payload that a stored span     *)
(* refers to (delete_session, gc_payloads).                                *)
THEOREM PayloadsKept == Spec => ReferencedKept
<1>1. [Next]_vars =>
        [\A x \in DOMAIN refs \cap DOMAIN refs' :
           refs'[x] = refs[x] /\ refs[x] \in stored => refs[x] \in stored']_vars
  BY StepKeeps
<1> QED
  BY <1>1, PTL DEF Spec, ReferencedKept

-----------------------------------------------------------------------------
LEMMA InitIInv == Init => IInv
  BY DEF Init, IInv, ListedReborn

(* A deletion leaves the session it is about, and no other, without a row. *)
LEMMA DeletionRows ==
  ASSUME IInv, NEW s, DeleteSession(s)
  PROVE  /\ rows' \in [Sessions -> {"none", "live", "over"}]
         /\ \A r \in Sessions : rows'[r] = rows[r] \/ (r = s /\ rows'[r] = "none")
<1>1. CASE rows[s] = "none"
  BY <1>1 DEF DeleteSession, IInv, store
<1>2. CASE rows[s] # "none"
  BY <1>2 DEF DeleteSession, IInv
<1> QED
  BY <1>1, <1>2

LEMMA NextIInv == IInv /\ [Next]_vars => IInv'
<1> SUFFICES ASSUME IInv, [Next]_vars PROVE IInv'
  OBVIOUS
<1> USE DEF IInv, ListedReborn
<1>1. CASE UNCHANGED <<rows, sweep, reborn>>
  BY <1>1
<1>2. CASE SpanStart
  <2> DEFINE s == SessionOf[Head(wire).envelope.span]
             new == s \notin seen /\ rows[s] = "none"
  <2>1. /\ rows' = IF new THEN [rows EXCEPT ![s] = "live"] ELSE rows
        /\ reborn' = IF new THEN reborn \cup ({s} \cap sweep) ELSE reborn
        /\ sweep' = sweep
    BY <1>2 DEF SpanStart
  <2> QED
    BY <2>1
<1>3. ASSUME NEW s \in Sessions, SessionOver(s)
      PROVE  IInv'
  BY <1>3 DEF SessionOver, cleaning
<1>4. CASE \E ss \in SUBSET Sessions : SweepLists(ss)
  BY <1>4 DEF SweepLists, Begin, store
<1>5. CASE DeleteRuns
  <2>1. DeleteSession(deletion.session) /\ sweep' = sweep /\ reborn' = reborn
    BY <1>5 DEF DeleteRuns
  <2> QED
    BY <2>1, DeletionRows
<1>6. ASSUME NEW s \in Sessions, SweepDeletes(s)
      PROVE  IInv'
  <2>1. DeleteSession(s) /\ sweep' = sweep \ {s} /\ reborn' = reborn \ {s}
    BY <1>6 DEF SweepDeletes
  <2> QED
    BY <2>1, DeletionRows
<1>7. ASSUME NEW s \in Sessions, NEW force \in BOOLEAN, DeleteRequested(s, force)
      PROVE  IInv'
  BY <1>7 DEF DeleteRequested, Begin, store
<1>8. CASE UNCHANGED vars
  BY <1>1, <1>8 DEF vars, store, cleaning
<1>9. CASE \E y \in Spans : \E d \in Digests : EmitSpan(y, d)
  BY <1>1, <1>9 DEF EmitSpan, store, cleaning
<1>10. CASE SendSpan \/ SendPeeked \/ Stop \/ Disconnect
  BY <1>1, <1>10 DEF SendSpan, SendPeeked, Stop, Disconnect, StreamEnds, store, cleaning
<1>11. CASE \E c \in Range(chunks) : SendChunk(c)
  BY <1>1, <1>11 DEF SendChunk, SendEvicted, SendLast, Peek, NextChunk, store, cleaning
<1>12. CASE AppendSpan \/ SpanEnd \/ PayloadEvicted \/ PayloadChunk \/ PayloadLast \/ PayloadMismatch
  BY <1>1, <1>12 DEF AppendSpan, SpanEnd, PayloadEvicted, PayloadChunk, PayloadLast, PayloadMismatch,
                     StreamEnds, store, cleaning
<1>13. CASE GcPayloads
  BY <1>1, <1>13 DEF GcPayloads
<1> QED
  BY <1>2, <1>3, <1>4, <1>5, <1>6, <1>7, <1>8, <1>9, <1>10, <1>11, <1>12, <1>13 DEF Next, Handle

(* Only the sweep takes a session off its list, and it deletes only that.  *)
LEMMA StepSpares ==
  ASSUME IInv, [Next]_vars, NEW s \in Sessions, rows[s] = "live", rows'[s] = "none", s \in sweep \ sweep'
  PROVE  s \in reborn
  BY DEF IInv, ListedReborn

(* Of the sessions it has listed, the sweep deletes a live one only if it  *)
(* was deleted and created again in the meantime (sweep_once).             *)
THEOREM SweepSpares == Spec => SweepSparesLive
<1>1. IInv /\ [Next]_vars =>
        [\A s \in Sessions :
           rows[s] = "live" /\ rows'[s] = "none" /\ s \in sweep \ sweep' => s \in reborn]_vars
  BY StepSpares
<1> QED
  BY <1>1, InitIInv, NextIInv, PTL DEF Spec, SweepSparesLive

-----------------------------------------------------------------------------
(* Types.  A chunk in a queue is one of its payload's, and the last chunk  *)
(* is so marked.                                                           *)
Env == [span : Spans, starts : BOOLEAN, digest : Digests, evicted : BOOLEAN]
Chunk == {c \in [digest : Digests, part : Nat \ {0}, last : BOOLEAN] :
            c.part <= Parts[c.digest] /\ (c.last <=> c.part = Parts[c.digest])}
Message == {ChunkMessage(c) : c \in Chunk} \cup {SpanMessage(e) : e \in Env}
             \cup {EvictedMessage(d) : d \in Digests}

ClientTypes ==
  /\ emitted \in [Spans -> {"new", "started", "ended"}]
  /\ events \in Seq(Env)
  /\ chunks \in Seq(Chunk)
  /\ peeked = None \/ (peeked \in Chunk /\ ~peeked.last)
  /\ link \in {"up", "stopped", "down"}
  /\ wire \in Seq(Message)

ServerTypes ==
  /\ parts \in [Digests -> Seq(Nat)]
  /\ handler = Idle \/ (handler.at = "append" /\ handler.envelope \in Env)
  /\ seen \subseteq Sessions
  /\ gaps \subseteq Digests

StoreTypes ==
  /\ DOMAIN refs \subseteq Spans /\ \A x \in DOMAIN refs : refs[x] \in Digests
  /\ stored \subseteq Digests
  /\ deletion = Idle \/ deletion.at \in {"delete", "gc"}
  /\ reborn \subseteq sweep
  /\ cleanups \in Nat

Types == ClientTypes /\ ServerTypes /\ StoreTypes /\ BInv

LEMMA NoneIsNone == None \notin Chunk /\ None.part = 0
<1>1. None.part = 0
  BY DEF None
<1> QED
  BY <1>1 DEF Chunk

LEMMA MessageKinds ==
  ASSUME NEW m \in Message
  PROVE  /\ m.kind = "chunk" => m.chunk \in Chunk /\ m = ChunkMessage(m.chunk)
         /\ m.kind = "span" => m.envelope \in Env
         /\ m.kind = "evicted" => m.digest \in Digests
         /\ m.kind \in {"chunk", "span", "evicted"}
BY DEF Message, ChunkMessage, SpanMessage, EvictedMessage

LEMMA MessagesTyped ==
  /\ \A c \in Chunk : ChunkMessage(c) \in Message
  /\ \A e \in Env : SpanMessage(e) \in Message
  /\ \A d \in Digests : EvictedMessage(d) \in Message
BY DEF Message

LEMMA ChunksOfTyped ==
  ASSUME NEW d \in Digests
  PROVE  /\ ChunksOf(d) \in Seq(Chunk) /\ Len(ChunksOf(d)) = Parts[d] /\ Parts[d] \in Nat \ {0}
         /\ \A i \in 1 .. Parts[d] : ChunksOf(d)[i] = [digest |-> d, part |-> i, last |-> i = Parts[d]]
<1>1. Parts[d] \in Nat \ {0}
  BY PartsAssumption
<1>2. \A i \in 1 .. Parts[d] : [digest |-> d, part |-> i, last |-> i = Parts[d]] \in Chunk
  <2> TAKE i \in 1 .. Parts[d]
  <2> DEFINE c == [digest |-> d, part |-> i, last |-> i = Parts[d]]
  <2>1. c \in [digest : Digests, part : Nat \ {0}, last : BOOLEAN] /\ i <= Parts[d]
    BY <1>1
  <2> QED
    BY <2>1 DEF Chunk
<1>3. ChunksOf(d) \in [1 .. Parts[d] -> Chunk]
  BY <1>2 DEF ChunksOf
<1> QED
  BY <1>1, <1>3 DEF ChunksOf

LEMMA InitTypes == Init => Types
<1> SUFFICES ASSUME Init PROVE Types
  OBVIOUS
<1>1. ClientTypes /\ ServerTypes
  BY DEF Init, ClientTypes, ServerTypes
<1>2. StoreTypes
  BY DEF Init, StoreTypes
<1>3. BInv
  <2>1. {} \in Lots
    BY FS_EmptySet DEF Lots
  <2>2. SizeOf({}) = 0 /\ Capacity \in Nat
    BY SizeChosen, PartsAssumption
  <2>3. blobs = {} /\ order = <<>> /\ bytes = 0
    BY DEF Init, BufferInit
  <2>4. Range(order) = blobs /\ IsInjective(order) /\ order \in Seq(Digests)
    BY <2>3 DEF Range, IsInjective
  <2> QED
    BY <2>1, <2>2, <2>3, <2>4 DEF BInv, BufferAccounts
<1> QED
  BY <1>1, <1>2, <1>3 DEF Types

(* The client.                                                             *)
LEMMA EmitTypes ==
  ASSUME Types, NEW x \in Spans, NEW d \in Digests, EmitSpan(x, d)
  PROVE  Types'
<1>1. Envelope(x, emitted[x] = "new", d) \in Env
  BY DEF Envelope, Env, TooBig
<1>2. events' \in Seq(Env)
  BY <1>1 DEF EmitSpan, Types, ClientTypes
<1>3. chunks' \in Seq(Chunk)
  <2>1. chunks \in Seq(Chunk) /\ ChunksOf(d) \in Seq(Chunk)
    BY ChunksOfTyped DEF Types, ClientTypes
  <2>2. chunks \o ChunksOf(d) \in Seq(Chunk)
    BY <2>1, ConcatProperties
  <2> QED
    BY <2>1, <2>2 DEF EmitSpan
<1>4. emitted' \in [Spans -> {"new", "started", "ended"}]
  BY DEF EmitSpan, Types, ClientTypes
<1>5. BInv'
  BY PutKeeps DEF EmitSpan, Types
<1>6. UNCHANGED <<peeked, link, wire, parts, handler, seen, gaps, refs, stored, deletion, reborn, sweep, cleanups>>
  BY DEF EmitSpan, store, cleaning
<1> QED
  BY <1>2, <1>3, <1>4, <1>5, <1>6 DEF Types, ClientTypes, ServerTypes, StoreTypes

LEMMA SendTypes ==
  ASSUME Types, SendSpan \/ SendPeeked \/ \E c \in Range(chunks) : SendChunk(c)
  PROVE  Types'
<1>1. CASE SendSpan
  <2>1. events # <<>> /\ events \in Seq(Env) /\ wire' = Append(wire, SpanMessage(Head(events))) /\ events' = Tail(events)
    BY <1>1 DEF SendSpan, Send, Types, ClientTypes
  <2>2. Head(events) \in Env /\ events' \in Seq(Env)
    BY <2>1
  <2>3. wire' \in Seq(Message)
    BY <2>1, <2>2, MessagesTyped DEF Types, ClientTypes
  <2>4. UNCHANGED <<blobs, order, bytes, emitted, chunks, peeked, link, parts, handler, seen, gaps, refs, stored, deletion, reborn, sweep, cleanups>>
    BY <1>1 DEF SendSpan, bufferVars, store, cleaning
  <2> QED
    BY <2>2, <2>3, <2>4 DEF Types, ClientTypes, ServerTypes, StoreTypes, BInv, BufferAccounts
<1>2. CASE SendPeeked
  <2>1. peeked \in Chunk /\ peeked.digest \in Digests /\ wire' = Append(wire, ChunkMessage(peeked)) /\ peeked' = None
    BY <1>2 DEF SendPeeked, Send, Types, ClientTypes, Chunk
  <2>2. wire' \in Seq(Message)
    BY <2>1, MessagesTyped DEF Types, ClientTypes
  <2>3. BInv'
    BY <1>2, <2>1, PutKeeps DEF SendPeeked, Types
  <2>4. UNCHANGED <<events, emitted, chunks, link, parts, handler, seen, gaps, refs, stored, deletion, reborn, sweep, cleanups>>
    BY <1>2 DEF SendPeeked, store, cleaning
  <2> QED
    BY <2>1, <2>2, <2>3, <2>4 DEF Types, ClientTypes, ServerTypes, StoreTypes
<1>3. ASSUME NEW c, SendChunk(c)
      PROVE  Types'
  <2>1. NextChunk(c)
    BY <1>3 DEF SendChunk, SendEvicted, SendLast, Peek
  <2>2. /\ chunks \in Seq(Chunk) /\ chunks # <<>> /\ c = Head(chunks) /\ chunks' = Tail(chunks)
        /\ UNCHANGED <<events, emitted, link, parts, handler, seen, refs, stored, deletion, reborn, sweep, cleanups>>
    BY <2>1 DEF NextChunk, Types, ClientTypes, store, cleaning
  <2>3. c \in Chunk /\ c.digest \in Digests /\ chunks' \in Seq(Chunk)
    BY <2>2 DEF Chunk
  <2>4. BInv'
    <3>1. CASE SendEvicted(c)
      BY <3>1 DEF SendEvicted, bufferVars, Types, BInv, BufferAccounts
    <3>2. CASE SendLast(c) \/ Peek(c)
      BY <2>3, <3>2, TakeKeeps DEF SendLast, Peek, Types
    <3> QED
      BY <1>3, <3>1, <3>2 DEF SendChunk
  <2>5. wire' \in Seq(Message) /\ gaps' \subseteq Digests
    <3>1. ChunkMessage(c) \in Message /\ EvictedMessage(c.digest) \in Message
      BY <2>3, MessagesTyped
    <3>2. /\ wire' = wire \/ wire' = Append(wire, ChunkMessage(c)) \/ wire' = Append(wire, EvictedMessage(c.digest))
          /\ gaps' \subseteq gaps \cup {c.digest}
      BY <1>3 DEF SendChunk, SendEvicted, SendLast, Peek, Send
    <3>3. wire \in Seq(Message) /\ gaps \subseteq Digests
      BY DEF Types, ClientTypes, ServerTypes
    <3> QED
      BY <2>3, <3>1, <3>2, <3>3, SMTT(30)
  <2>6. peeked' = None \/ (peeked' \in Chunk /\ ~peeked'.last)
    BY <1>3, <2>3 DEF SendChunk, SendEvicted, SendLast, Peek, Types, ClientTypes
  <2> QED
    BY <2>2, <2>3, <2>4, <2>5, <2>6 DEF Types, ClientTypes, ServerTypes, StoreTypes
<1> QED
  BY <1>1, <1>2, <1>3

LEMMA EndTypes ==
  ASSUME Types, Stop \/ Disconnect \/ PayloadMismatch
  PROVE  Types'
<1>1. CASE Stop
  <2> DEFINE ms == [i \in DOMAIN events |-> SpanMessage(events[i])]
  <2>1. events \in Seq(Env) /\ wire \in Seq(Message)
    BY DEF Types, ClientTypes
  <2>2. ms \in [1 .. Len(events) -> Message] /\ Len(events) \in Nat
    BY <2>1, MessagesTyped
  <2>3. ms \in Seq(Message)
    BY <2>2
  <2>4. wire' = wire \o ms /\ events' = <<>> /\ link' = "stopped"
    BY <1>1 DEF Stop
  <2> HIDE DEF ms
  <2>5. wire' \in Seq(Message)
    BY <2>1, <2>3, <2>4, ConcatProperties
  <2>6. UNCHANGED <<blobs, order, bytes, emitted, chunks, peeked, parts, handler, seen, gaps, refs, stored, deletion, reborn, sweep, cleanups>>
    BY <1>1 DEF Stop, bufferVars, store, cleaning
  <2> QED
    BY <2>4, <2>5, <2>6 DEF Types, ClientTypes, ServerTypes, StoreTypes, BInv, BufferAccounts
<1>2. CASE Disconnect \/ PayloadMismatch
  <2>1. StreamEnds
    BY <1>2 DEF Disconnect, PayloadMismatch
  <2>2. /\ UNCHANGED <<blobs, order, bytes, emitted, chunks, peeked, events, gaps, refs, stored, deletion, reborn, sweep, cleanups>>
        /\ wire' = <<>> /\ link' = "down" /\ handler' = Idle /\ seen' = {} /\ parts' = [d \in Digests |-> <<>>]
    BY <2>1 DEF StreamEnds, client, bufferVars, store, cleaning
  <2>3. ClientTypes' /\ ServerTypes' /\ StoreTypes'
    BY <2>2 DEF Types, ClientTypes, ServerTypes, StoreTypes
  <2>4. BInv'
    BY <2>2 DEF Types, BInv, BufferAccounts
  <2> QED
    BY <2>3, <2>4 DEF Types
<1> QED
  BY <1>1, <1>2

(* The server.                                                             *)
LEMMA SpanTypes ==
  ASSUME Types, SpanStart \/ AppendSpan \/ SpanEnd
  PROVE  Types'
<1>1. UNCHANGED <<blobs, order, bytes, emitted, chunks, peeked, events, link, parts, gaps, stored, deletion, sweep, cleanups>>
  BY DEF SpanStart, AppendSpan, SpanEnd, client, bufferVars, cleaning
<1>2. BInv'
  BY <1>1 DEF Types, BInv, BufferAccounts
<1>3. ASSUME NEW kind, Receive(kind)
      PROVE  Head(wire) \in Message /\ Head(wire).kind = kind /\ wire' \in Seq(Message)
  BY <1>3 DEF Receive, Types, ClientTypes
<1>4. CASE SpanStart
  <2> DEFINE e == Head(wire).envelope
             s == SessionOf[e.span]
             new == s \notin seen /\ rows[s] = "none"
  <2>1. e \in Env /\ wire' \in Seq(Message)
    BY <1>3, <1>4, MessageKinds DEF SpanStart
  <2>2. /\ reborn' = IF new THEN reborn \cup ({s} \cap sweep) ELSE reborn
        /\ seen' = seen \cup {s} /\ handler' = [at |-> "append", envelope |-> e] /\ refs' = refs
    BY <1>4 DEF SpanStart
  <2>3. s \in Sessions
    BY <2>1 DEF Sessions, Env
  <2> HIDE DEF e, s, new
  <2> QED
    BY <1>1, <1>2, <2>1, <2>2, <2>3 DEF Types, ClientTypes, ServerTypes, StoreTypes
<1>5. CASE AppendSpan
  <2>1. handler.envelope \in Env /\ handler' = Idle /\ UNCHANGED <<wire, seen, reborn>>
        /\ refs' = [x \in DOMAIN refs \cup {handler.envelope.span} |->
                      IF x \in DOMAIN refs THEN refs[x] ELSE handler.envelope.digest]
    BY <1>5 DEF AppendSpan, Types, ServerTypes, Idle, cleaning
  <2>2. DOMAIN refs' = DOMAIN refs \cup {handler.envelope.span}
        /\ \A x \in DOMAIN refs' : refs'[x] = IF x \in DOMAIN refs THEN refs[x] ELSE handler.envelope.digest
    BY <2>1
  <2> QED
    BY <1>1, <1>2, <2>1, <2>2 DEF Types, ClientTypes, ServerTypes, StoreTypes, Env
<1>6. CASE SpanEnd
  <2>1. Head(wire).envelope \in Env /\ wire' \in Seq(Message)
    BY <1>3, <1>6, MessageKinds DEF SpanEnd
  <2>2. UNCHANGED <<handler, seen, reborn>>
    BY <1>6 DEF SpanEnd, cleaning
  <2>3. refs' = IF Head(wire).envelope.span \in DOMAIN refs
                  THEN [refs EXCEPT ![Head(wire).envelope.span] = Head(wire).envelope.digest] ELSE refs
    BY <1>6 DEF SpanEnd
  <2>4. DOMAIN refs' = DOMAIN refs /\ \A x \in DOMAIN refs : refs'[x] \in {refs[x], Head(wire).envelope.digest}
    BY <2>3
  <2> QED
    BY <1>1, <1>2, <2>1, <2>2, <2>4 DEF Types, ClientTypes, ServerTypes, StoreTypes, Env
<1> QED
  BY <1>4, <1>5, <1>6

LEMMA PayloadTypes ==
  ASSUME Types, PayloadEvicted \/ PayloadChunk \/ PayloadLast
  PROVE  Types'
<1>1. UNCHANGED <<blobs, order, bytes, emitted, chunks, peeked, events, link, handler, seen, gaps, refs, deletion,
                  sweep, reborn, cleanups>>
  BY DEF PayloadEvicted, PayloadChunk, PayloadLast, client, bufferVars, store, cleaning
<1>2. BInv'
  BY <1>1 DEF Types, BInv, BufferAccounts
<1>3. /\ Head(wire) \in Message /\ wire' \in Seq(Message)
      /\ PayloadEvicted => Head(wire).kind = "evicted"
      /\ PayloadChunk \/ PayloadLast => Head(wire).kind = "chunk"
  <2>1. wire \in Seq(Message) /\ wire # <<>> /\ wire' = Tail(wire)
    BY DEF PayloadEvicted, PayloadChunk, PayloadLast, Receive, Types, ClientTypes
  <2>2. Head(wire) \in Message /\ Tail(wire) \in Seq(Message)
    BY <2>1
  <2> QED
    BY <2>1, <2>2 DEF PayloadEvicted, PayloadChunk, PayloadLast, Receive
<1>4. parts' \in [Digests -> Seq(Nat)]
  <2>1. parts \in [Digests -> Seq(Nat)]
    BY DEF Types, ServerTypes
  <2>2. CASE PayloadChunk
    <3> DEFINE c == Head(wire).chunk
    <3>1. c \in Chunk
      BY <1>3, <2>2, MessageKinds
    <3>2. parts' = [parts EXCEPT ![c.digest] = Append(@, c.part)]
      BY <2>2 DEF PayloadChunk
    <3> HIDE DEF c
    <3>3. c.digest \in Digests /\ Append(parts[c.digest], c.part) \in Seq(Nat)
      BY <2>1, <3>1 DEF Chunk
    <3> QED
      BY <2>1, <3>2, <3>3
  <2>3. CASE PayloadEvicted \/ PayloadLast
    <3>1. PICK d : parts' = [parts EXCEPT ![d] = <<>>]
      BY <2>3 DEF PayloadEvicted, PayloadLast
    <3>2. <<>> \in Seq(Nat)
      OBVIOUS
    <3> QED
      BY <2>1, <3>1, <3>2
  <2> QED
    BY <2>2, <2>3
<1>5. stored' \subseteq Digests
  <2>1. CASE PayloadLast
    <3>1. Head(wire).chunk \in Chunk
      BY <1>3, <2>1, MessageKinds
    <3> QED
      BY <2>1, <3>1 DEF PayloadLast, Types, StoreTypes, Chunk
  <2>2. CASE PayloadEvicted \/ PayloadChunk
    BY <2>2 DEF PayloadEvicted, PayloadChunk, store, Types, StoreTypes
  <2> QED
    BY <2>1, <2>2
<1> QED
  BY <1>1, <1>2, <1>3, <1>4, <1>5 DEF Types, ClientTypes, ServerTypes, StoreTypes

LEMMA DeletionTypes ==
  ASSUME Types, NEW s, DeleteSession(s)
  PROVE  /\ ClientTypes' /\ ServerTypes' /\ BInv' /\ cleanups' = cleanups
         /\ DOMAIN refs' \subseteq Spans /\ \A x \in DOMAIN refs' : refs'[x] \in Digests
         /\ stored' \subseteq Digests
<1>1. UNCHANGED <<blobs, order, bytes, emitted, chunks, peeked, events, link, wire, parts, handler, seen, gaps, cleanups>>
  BY DEF DeleteSession, client, bufferVars
<1>2. /\ DOMAIN refs' \subseteq DOMAIN refs /\ \A x \in DOMAIN refs' : refs'[x] = refs[x]
      /\ stored' \subseteq stored
  <2>1. CASE rows[s] = "none"
    BY <2>1 DEF DeleteSession, store
  <2>2. CASE rows[s] # "none"
    BY <2>2 DEF DeleteSession
  <2> QED
    BY <2>1, <2>2
<1> QED
  BY <1>1, <1>2 DEF Types, ClientTypes, ServerTypes, StoreTypes, BInv, BufferAccounts

LEMMA CleaningTypes ==
  ASSUME IInv, Types,
         \/ DeleteRuns \/ GcPayloads \/ UNCHANGED vars
         \/ \E s \in Sessions : \/ SessionOver(s) \/ SweepDeletes(s)
                                \/ \E force \in BOOLEAN : DeleteRequested(s, force)
         \/ \E ss \in SUBSET Sessions : SweepLists(ss)
  PROVE  Types'
<1>1. CASE DeleteRuns
  <2>1. DeleteSession(deletion.session) /\ deletion' \in {Idle, [at |-> "gc"]} /\ UNCHANGED <<sweep, reborn>>
    BY <1>1 DEF DeleteRuns
  <2> QED
    BY <2>1, DeletionTypes DEF Types, StoreTypes
<1>2. ASSUME NEW s \in Sessions, SweepDeletes(s)
      PROVE  Types'
  <2>1. DeleteSession(s) /\ deletion' = deletion /\ sweep' = sweep \ {s} /\ reborn' = reborn \ {s}
    BY <1>2 DEF SweepDeletes
  <2> QED
    BY <2>1, DeletionTypes DEF Types, StoreTypes
<1>3. ASSUME UNCHANGED <<blobs, order, bytes, emitted, chunks, peeked, events, link, wire, parts, handler, seen, gaps, refs>>,
             StoreTypes'
      PROVE  Types'
  BY <1>3 DEF Types, ClientTypes, ServerTypes, BInv, BufferAccounts
<1>4. CASE GcPayloads
  BY <1>3, <1>4 DEF GcPayloads, client, bufferVars, Types, StoreTypes
<1>5. CASE UNCHANGED vars
  BY <1>3, <1>5 DEF vars, client, bufferVars, store, cleaning, Types, StoreTypes
<1>6. ASSUME NEW s \in Sessions, SessionOver(s)
      PROVE  Types'
  BY <1>3, <1>6 DEF SessionOver, client, bufferVars, cleaning, Types, StoreTypes
<1>7. ASSUME NEW s \in Sessions, NEW force \in BOOLEAN, DeleteRequested(s, force)
      PROVE  Types'
  BY <1>3, <1>7 DEF DeleteRequested, Begin, client, bufferVars, store, Types, StoreTypes
<1>8. ASSUME NEW ss \in SUBSET Sessions, SweepLists(ss)
      PROVE  Types'
  BY <1>3, <1>8 DEF SweepLists, Begin, client, bufferVars, store, Types, StoreTypes
<1> QED
  BY <1>1, <1>2, <1>4, <1>5, <1>6, <1>7, <1>8

LEMMA NextTypes == IInv /\ Types /\ [Next]_vars => Types'
<1> SUFFICES ASSUME IInv, Types, [Next]_vars PROVE Types'
  OBVIOUS
<1>1. CASE UNCHANGED vars
  BY <1>1, CleaningTypes
<1>2. CASE Next
  <2>1. CASE Handle
    BY <2>1, SpanTypes, PayloadTypes, EndTypes DEF Handle
  <2> QED
    BY <1>2, <2>1, EmitTypes, SendTypes, EndTypes, CleaningTypes DEF Next
<1> QED
  BY <1>1, <1>2

LEMMA TypesImply == IInv /\ Types => BufferConsistent
<1> SUFFICES ASSUME IInv, Types PROVE BufferConsistent
  OBVIOUS
<1>1. BufferAccounts /\ blobs \subseteq Digests /\ bytes \in 0 .. Capacity
  BY BInvProperties DEF Types, BInv
<1>2. \A i \in DOMAIN chunks : chunks[i].part \in 1 .. Parts[chunks[i].digest]
  <2>1. \A i \in DOMAIN chunks : chunks[i] \in Chunk
    BY DEF Types, ClientTypes
  <2>2. \A c \in Chunk : c.part \in 1 .. Parts[c.digest]
    BY PartsAssumption DEF Chunk
  <2> QED
    BY <2>1, <2>2
<1>3. handler.at \in {"idle", "append"} /\ deletion.at \in {"idle", "delete", "gc"}
  BY DEF Types, ServerTypes, StoreTypes, Idle
<1>4. Range(refs) \subseteq Digests
  BY DEF Range, Types, StoreTypes
<1>5. TypeOK
  BY <1>1, <1>2, <1>3, <1>4 DEF TypeOK, Types, ClientTypes, ServerTypes, StoreTypes, IInv
<1> QED
  BY <1>1, <1>5 DEF BufferConsistent

(* The bytes the buffer counts are those it holds, and they fit, after any *)
(* stagings, evictions and takings (PayloadBuffer.put and take).           *)
THEOREM BufferIsConsistent == Spec => []BufferConsistent
<1> QED
  BY InitIInv, NextIInv, InitTypes, NextTypes, TypesImply, PTL DEF Spec

-----------------------------------------------------------------------------
(* The way of a payload's chunks.  What the server has still to handle is  *)
(* on the wire, in the send loop's hand, and in the queue, in this order.  *)
(* Sending moves the boundaries and leaves the sequence as it is, but that *)
(* a chunk may become a notice of its eviction.                            *)
Messages(q) == [i \in DOMAIN q |-> ChunkMessage(q[i])]
WaitingOf(p, q) == IF p = None THEN q ELSE <<p>> \o q
PipeOf(w, q) == w \o Messages(q)
Waiting == WaitingOf(peeked, chunks)
Pipe == PipeOf(wire, Waiting)

About(m, d) == (m.kind = "chunk" /\ m.chunk.digest = d) \/ (m.kind = "evicted" /\ m.digest = d)

First(q, d, i) ==
  /\ i \in DOMAIN q /\ About(q[i], d)
  /\ \A k \in DOMAIN q : About(q[k], d) => i <= k
Final(q, d, i) ==
  /\ i \in DOMAIN q /\ About(q[i], d)
  /\ \A k \in DOMAIN q : About(q[k], d) => k <= i
Adjacent(q, d, i, j) ==
  /\ i \in DOMAIN q /\ j \in DOMAIN q /\ i < j /\ About(q[i], d) /\ About(q[j], d)
  /\ \A k \in DOMAIN q : About(q[k], d) => k <= i \/ j <= k

(* The chunks of d in q are whole payloads one after the other, but that   *)
(* of the first the assembler may have n parts.                            *)
Flow(q, d, n) ==
  /\ \A i \in DOMAIN q : First(q, d, i) /\ q[i].kind = "chunk" => n < q[i].chunk.part
  /\ \A i, j \in DOMAIN q : Adjacent(q, d, i, j) /\ q[i].kind = "chunk" /\ q[j].kind = "chunk" =>
       q[j].chunk.part = IF q[i].chunk.last THEN 1 ELSE q[i].chunk.part + 1
  /\ \A i \in DOMAIN q : Final(q, d, i) /\ q[i].kind = "chunk" => q[i].chunk.last
  /\ (\A i \in DOMAIN q : ~About(q[i], d)) => n = 0

(* None of them is missing.                                                *)
Unbroken(q, d, n) ==
  \A i \in DOMAIN q : About(q[i], d) =>
    q[i].kind = "chunk" /\ (First(q, d, i) => q[i].chunk.part = n + 1)

LEMMA WaitingTyped ==
  ASSUME NEW q \in Seq(Chunk), NEW p, p = None \/ p \in Chunk
  PROVE  WaitingOf(p, q) \in Seq(Chunk)
<1>1. CASE p = None
  BY <1>1 DEF WaitingOf
<1>2. CASE p # None
  <2>1. <<p>> \in Seq(Chunk)
    BY <1>2
  <2>2. <<p>> \o q \in Seq(Chunk)
    BY <2>1, ConcatProperties
  <2> QED
    BY <1>2, <2>2 DEF WaitingOf
<1> QED
  BY <1>1, <1>2

LEMMA MessagesOf ==
  ASSUME NEW q \in Seq(Chunk)
  PROVE  /\ Messages(q) \in Seq(Message) /\ Len(Messages(q)) = Len(q)
         /\ \A i \in 1 .. Len(q) : Messages(q)[i] = ChunkMessage(q[i])
<1>1. DOMAIN q = 1 .. Len(q) /\ Len(q) \in Nat /\ \A i \in 1 .. Len(q) : q[i] \in Chunk
  OBVIOUS
<1>2. Messages(q) \in [1 .. Len(q) -> Message]
  BY <1>1, MessagesTyped DEF Messages
<1> QED
  BY <1>1, <1>2 DEF Messages

LEMMA MessagesConcat ==
  ASSUME NEW q \in Seq(Chunk), NEW x \in Seq(Chunk)
  PROVE  Messages(q \o x) = Messages(q) \o Messages(x)
<1>1. /\ q \o x \in Seq(Chunk) /\ Len(q \o x) = Len(q) + Len(x)
      /\ \A i \in 1 .. Len(q) + Len(x) : (q \o x)[i] = IF i <= Len(q) THEN q[i] ELSE x[i - Len(q)]
  BY ConcatProperties
<1> DEFINE y == q \o x
           a == Messages(q)
           b == Messages(x)
           c == Messages(y)
<1>2. /\ c \in Seq(Message) /\ Len(c) = Len(q) + Len(x)
      /\ \A i \in 1 .. Len(q) + Len(x) : c[i] = ChunkMessage(y[i])
  BY <1>1, MessagesOf
<1>3. /\ a \in Seq(Message) /\ Len(a) = Len(q) /\ \A i \in 1 .. Len(q) : a[i] = ChunkMessage(q[i])
      /\ b \in Seq(Message) /\ Len(b) = Len(x) /\ \A i \in 1 .. Len(x) : b[i] = ChunkMessage(x[i])
  BY MessagesOf
<1> HIDE DEF a, b, c
<1>4. /\ a \o b \in Seq(Message) /\ Len(a \o b) = Len(a) + Len(b)
      /\ \A i \in 1 .. Len(a) + Len(b) : (a \o b)[i] = IF i <= Len(a) THEN a[i] ELSE b[i - Len(a)]
  <2>1. a \in Seq(Message) /\ b \in Seq(Message)
    BY <1>3
  <2> QED
    BY <2>1, ConcatProperties
<1>5. ASSUME NEW i \in 1 .. Len(c)
      PROVE  c[i] = (a \o b)[i]
  <2>1. Len(q) \in Nat /\ Len(x) \in Nat
    OBVIOUS
  <2>2. CASE i <= Len(q)
    <3>1. i \in 1 .. Len(q) /\ i \in 1 .. Len(q) + Len(x)
      BY <1>2, <2>1, <2>2
    <3> QED
      BY <1>1, <1>2, <1>3, <1>4, <2>2, <3>1
  <2>3. CASE ~(i <= Len(q))
    <3>1. i - Len(q) \in 1 .. Len(x) /\ i \in 1 .. Len(q) + Len(x)
      BY <1>2, <2>1, <2>3
    <3>2. y[i] = x[i - Len(q)] /\ (a \o b)[i] = b[i - Len(q)]
      BY <1>1, <1>3, <1>4, <2>3, <3>1
    <3> QED
      BY <1>2, <1>3, <3>1, <3>2
  <2> QED
    BY <2>2, <2>3
<1>6. c = a \o b
  BY <1>2, <1>3, <1>4, <1>5, SeqEqual
<1> QED
  BY <1>6 DEF a, b, c

LEMMA ConsHead ==
  ASSUME NEW S, NEW q \in Seq(S), q # <<>>
  PROVE  q = <<Head(q)>> \o Tail(q) /\ Head(q) \in S /\ Tail(q) \in Seq(S)
<1>1. Head(q) \in S /\ Tail(q) \in Seq(S) /\ Len(Tail(q)) = Len(q) - 1 /\ Len(q) \in Nat \ {0}
      /\ Head(q) = q[1] /\ \A i \in 1 .. Len(Tail(q)) : Tail(q)[i] = q[i + 1]
  BY HeadTailProperties
<1> DEFINE h == <<Head(q)>>
           t == Tail(q)
<1>2. h \in Seq(S) /\ Len(h) = 1 /\ h[1] = q[1]
  BY <1>1
<1>3. t \in Seq(S) /\ Len(t) = Len(q) - 1 /\ \A i \in 1 .. Len(q) - 1 : t[i] = q[i + 1]
  BY <1>1
<1> HIDE DEF h, t
<1>4. /\ h \o t \in Seq(S) /\ Len(h \o t) = 1 + (Len(q) - 1)
      /\ \A i \in 1 .. 1 + (Len(q) - 1) : (h \o t)[i] = IF i <= 1 THEN h[i] ELSE t[i - 1]
  <2>1. h \in Seq(S) /\ t \in Seq(S)
    BY <1>2, <1>3
  <2>2. /\ h \o t \in Seq(S) /\ Len(h \o t) = Len(h) + Len(t)
        /\ \A i \in 1 .. Len(h) + Len(t) : (h \o t)[i] = IF i <= Len(h) THEN h[i] ELSE t[i - Len(h)]
    BY <2>1, ConcatProperties
  <2>3. Len(h) = 1 /\ Len(t) = Len(q) - 1
    BY <1>2, <1>3
  <2> QED
    BY <2>2, <2>3
<1>5. ASSUME NEW i \in 1 .. Len(q)
      PROVE  q[i] = (h \o t)[i]
  <2>1. CASE i = 1
    BY <1>1, <1>2, <1>4, <2>1
  <2>2. CASE i # 1
    <3>1. i - 1 \in 1 .. Len(q) - 1 /\ ~(i <= 1) /\ i - 1 + 1 = i
      BY <1>1, <2>2
    <3>2. t[i - 1] = q[i]
      BY <1>3, <3>1
    <3> QED
      BY <1>1, <1>4, <3>1, <3>2
  <2> QED
    BY <2>1, <2>2
<1>6. q = h \o t
  <2>1. h \o t \in Seq(S)
    BY <1>4
  <2>2. Len(q) = Len(h \o t)
    BY <1>1, <1>4
  <2> QED
    BY <1>5, <2>1, <2>2, SeqEqual
<1> QED
  BY <1>1, <1>6 DEF h, t

LEMMA ConsParts ==
  ASSUME NEW S, NEW t \in Seq(S), NEW h \in S
  PROVE  /\ <<h>> \o t \in Seq(S) /\ <<h>> \o t # <<>>
         /\ Head(<<h>> \o t) = h /\ Tail(<<h>> \o t) = t
<1> DEFINE p == <<h>>
           q == p \o t
<1>1. p \in Seq(S) /\ Len(p) = 1 /\ p[1] = h
  OBVIOUS
<1> HIDE DEF p
<1>2. p \in Seq(S)
  BY <1>1
<1>3. /\ p \o t \in Seq(S) /\ Len(p \o t) = Len(p) + Len(t)
      /\ \A i \in 1 .. Len(p) + Len(t) : (p \o t)[i] = IF i <= Len(p) THEN p[i] ELSE t[i - Len(p)]
  BY <1>2, ConcatProperties
<1>4. /\ q \in Seq(S) /\ Len(q) = 1 + Len(t)
      /\ \A i \in 1 .. 1 + Len(t) : q[i] = IF i <= 1 THEN h ELSE t[i - 1]
  BY <1>1, <1>3
<1> HIDE DEF q
<1>5. q # <<>> /\ Head(q) = q[1] /\ q[1] = h
  BY <1>4
<1>6. Tail(q) \in Seq(S) /\ Len(Tail(q)) = Len(t) /\ \A i \in 1 .. Len(t) : Tail(q)[i] = q[i + 1]
  BY <1>4, <1>5, HeadTailProperties
<1>7. ASSUME NEW i \in 1 .. Len(t)
      PROVE  Tail(q)[i] = t[i]
  <2>1. Len(t) \in Nat
    OBVIOUS
  <2>2. PICK k \in Int : k = i + 1
    BY <2>1
  <2>3. k \in 1 .. 1 + Len(t) /\ ~(k <= 1) /\ k - 1 = i
    BY <2>1, <2>2
  <2> QED
    BY <1>4, <1>6, <2>2, <2>3
<1>8. Tail(q) = t
  BY <1>6, <1>7, SeqEqual
<1> QED
  BY <1>4, <1>5, <1>8 DEF p, q

LEMMA OneReplaced ==
  ASSUME NEW S, NEW w \in Seq(S), NEW m \in S, NEW o \in S, NEW t \in Seq(S)
  PROVE  /\ (w \o <<m>>) \o t \in Seq(S) /\ (w \o <<o>>) \o t \in Seq(S)
         /\ Len((w \o <<o>>) \o t) = Len((w \o <<m>>) \o t)
         /\ \A i \in 1 .. Len((w \o <<m>>) \o t) :
              \/ ((w \o <<o>>) \o t)[i] = ((w \o <<m>>) \o t)[i]
              \/ ((w \o <<m>>) \o t)[i] = m /\ ((w \o <<o>>) \o t)[i] = o
<1>1. ASSUME NEW e \in S
      PROVE  /\ (w \o <<e>>) \o t \in Seq(S) /\ Len((w \o <<e>>) \o t) = Len(w) + 1 + Len(t)
             /\ \A i \in 1 .. Len(w) + 1 + Len(t) :
                  ((w \o <<e>>) \o t)[i] = IF i <= Len(w) THEN w[i] ELSE IF i = Len(w) + 1 THEN e ELSE t[i - (Len(w) + 1)]
  <2> DEFINE a == Append(w, e)
             b == a \o t
  <2>1. /\ a \in Seq(S) /\ Len(a) = Len(w) + 1 /\ a[Len(w) + 1] = e
        /\ \A i \in 1 .. Len(w) : a[i] = w[i]
    BY AppendProperties
  <2>2. a = w \o <<e>>
    BY AppendIsConcat
  <2> HIDE DEF a
  <2>3. a \in Seq(S)
    BY <2>1
  <2>4. /\ a \o t \in Seq(S) /\ Len(a \o t) = Len(a) + Len(t)
        /\ \A i \in 1 .. Len(a) + Len(t) : (a \o t)[i] = IF i <= Len(a) THEN a[i] ELSE t[i - Len(a)]
    BY <2>3, ConcatProperties
  <2>5. b \in Seq(S) /\ Len(b) = Len(w) + 1 + Len(t)
        /\ \A i \in 1 .. Len(w) + 1 + Len(t) : b[i] = IF i <= Len(w) + 1 THEN a[i] ELSE t[i - (Len(w) + 1)]
    BY <2>1, <2>4
  <2> HIDE DEF b
  <2>6. ASSUME NEW i \in 1 .. Len(w) + 1 + Len(t)
        PROVE  b[i] = IF i <= Len(w) THEN w[i] ELSE IF i = Len(w) + 1 THEN e ELSE t[i - (Len(w) + 1)]
    <3>1. Len(w) \in Nat /\ Len(t) \in Nat
      OBVIOUS
    <3>2. CASE i <= Len(w)
      <4>1. i \in 1 .. Len(w) /\ i <= Len(w) + 1
        BY <3>1, <3>2
      <4> QED
        BY <2>1, <2>5, <3>2, <4>1
    <3>3. CASE i = Len(w) + 1
      <4>1. i <= Len(w) + 1 /\ ~(i <= Len(w))
        BY <3>1, <3>3
      <4> QED
        BY <2>1, <2>5, <3>3, <4>1
    <3>4. CASE ~(i <= Len(w) + 1)
      <4>1. ~(i <= Len(w)) /\ i # Len(w) + 1
        BY <3>1, <3>4
      <4> QED
        BY <2>5, <3>4, <4>1
    <3> QED
      BY <3>1, <3>2, <3>3, <3>4
  <2> QED
    BY <2>2, <2>5, <2>6 DEF b
<1> DEFINE x == (w \o <<m>>) \o t
           y == (w \o <<o>>) \o t
<1>2. /\ x \in Seq(S) /\ Len(x) = Len(w) + 1 + Len(t)
      /\ \A i \in 1 .. Len(w) + 1 + Len(t) :
           x[i] = IF i <= Len(w) THEN w[i] ELSE IF i = Len(w) + 1 THEN m ELSE t[i - (Len(w) + 1)]
  BY <1>1
<1>3. /\ y \in Seq(S) /\ Len(y) = Len(w) + 1 + Len(t)
      /\ \A i \in 1 .. Len(w) + 1 + Len(t) :
           y[i] = IF i <= Len(w) THEN w[i] ELSE IF i = Len(w) + 1 THEN o ELSE t[i - (Len(w) + 1)]
  BY <1>1
<1> HIDE DEF x, y
<1>4. \A i \in 1 .. Len(x) : y[i] = x[i] \/ (x[i] = m /\ y[i] = o)
  BY <1>2, <1>3
<1> QED
  BY <1>2, <1>3, <1>4 DEF x, y

(* Sending moves the boundary: u is what becomes of the first chunk.       *)
LEMMA PipeSend ==
  ASSUME NEW w \in Seq(Message), NEW q \in Seq(Chunk), q # <<>>, NEW m \in Message
  PROVE  /\ PipeOf(w, q) = (w \o <<ChunkMessage(Head(q))>>) \o Messages(Tail(q))
         /\ PipeOf(Append(w, m), Tail(q)) = (w \o <<m>>) \o Messages(Tail(q))
<1>1. q = <<Head(q)>> \o Tail(q) /\ Head(q) \in Chunk /\ Tail(q) \in Seq(Chunk) /\ <<Head(q)>> \in Seq(Chunk)
  BY ConsHead
<1>2. Messages(q) = Messages(<<Head(q)>>) \o Messages(Tail(q))
  BY <1>1, MessagesConcat
<1>3. Messages(<<Head(q)>>) = <<ChunkMessage(Head(q))>>
  BY DEF Messages
<1>4. <<ChunkMessage(Head(q))>> \in Seq(Message) /\ Messages(Tail(q)) \in Seq(Message)
  <2>1. Head(q) \in Chunk /\ Tail(q) \in Seq(Chunk)
    BY <1>1
  <2>2. ChunkMessage(Head(q)) \in Message
    BY <2>1, MessagesTyped
  <2>3. Messages(Tail(q)) \in Seq(Message)
    BY <2>1, MessagesOf
  <2> QED
    BY <2>2, <2>3
<1>5. PipeOf(w, q) = (w \o <<ChunkMessage(Head(q))>>) \o Messages(Tail(q))
  <2> DEFINE a == <<ChunkMessage(Head(q))>>
             b == Messages(Tail(q))
  <2>1. a \in Seq(Message) /\ b \in Seq(Message)
    BY <1>4
  <2>2. PipeOf(w, q) = w \o (a \o b)
    BY <1>2, <1>3 DEF PipeOf
  <2> HIDE DEF a, b
  <2>3. w \o (a \o b) = (w \o a) \o b
    BY <2>1, ConcatAssociative, SMTT(30)
  <2> QED
    BY <2>2, <2>3 DEF a, b
<1>6. Append(w, m) = w \o <<m>>
  BY AppendIsConcat
<1> QED
  BY <1>5, <1>6 DEF PipeOf

LEMMA PipeReceive ==
  ASSUME NEW w \in Seq(Message), w # <<>>, NEW q \in Seq(Chunk)
  PROVE  /\ PipeOf(w, q) # <<>> /\ PipeOf(w, q) \in Seq(Message)
         /\ Head(PipeOf(w, q)) = Head(w) /\ Tail(PipeOf(w, q)) = PipeOf(Tail(w), q)
<1> DEFINE ms == Messages(q)
           h == <<Head(w)>>
           t == Tail(w)
<1>1. ms \in Seq(Message)
  BY MessagesOf
<1>2. w = h \o t /\ t \in Seq(Message) /\ Head(w) \in Message
  BY ConsHead
<1>3. h \in Seq(Message) /\ Len(h) = 1 /\ h[1] = Head(w)
  BY <1>2
<1> HIDE DEF ms, h, t
<1>4. (h \o t) \o ms = h \o (t \o ms) /\ t \o ms \in Seq(Message)
  <2>1. h \in Seq(Message) /\ t \in Seq(Message) /\ ms \in Seq(Message)
    BY <1>1, <1>2, <1>3
  <2>2. (h \o t) \o ms = h \o (t \o ms)
    BY <2>1, ConcatAssociative
  <2>3. t \o ms \in Seq(Message)
    BY <2>1, ConcatProperties
  <2> QED
    BY <2>2, <2>3
<1> DEFINE y == t \o ms
           x == h \o y
<1>5. y \in Seq(Message)
  BY <1>4
<1> HIDE DEF y
<1>6. /\ x \in Seq(Message) /\ Len(x) = 1 + Len(y)
      /\ \A i \in 1 .. 1 + Len(y) : x[i] = IF i <= 1 THEN h[i] ELSE y[i - 1]
  <2>1. h \in Seq(Message) /\ y \in Seq(Message)
    BY <1>3, <1>5
  <2>2. /\ h \o y \in Seq(Message) /\ Len(h \o y) = Len(h) + Len(y)
        /\ \A i \in 1 .. Len(h) + Len(y) : (h \o y)[i] = IF i <= Len(h) THEN h[i] ELSE y[i - Len(h)]
    BY <2>1, ConcatProperties
  <2> QED
    BY <1>3, <2>2
<1> HIDE DEF x
<1>7. x # <<>> /\ Head(x) = x[1] /\ Tail(x) \in Seq(Message) /\ Len(Tail(x)) = Len(y)
      /\ \A i \in 1 .. Len(y) : Tail(x)[i] = x[i + 1]
  BY <1>5, <1>6, HeadTailProperties
<1>8. ASSUME NEW i \in 1 .. Len(y)
      PROVE  Tail(x)[i] = y[i]
  <2>1. Len(y) \in Nat
    BY <1>5
  <2>2. PICK k \in Int : k = i + 1
    BY <2>1
  <2>3. k \in 1 .. 1 + Len(y) /\ ~(k <= 1) /\ k - 1 = i
    BY <2>1, <2>2
  <2> QED
    BY <1>6, <1>7, <2>2, <2>3
<1>9. Tail(x) = y
  BY <1>5, <1>7, <1>8, SeqEqual
<1>10. x[1] = Head(w)
  BY <1>3, <1>5, <1>6
<1>11. w \o ms = x
  BY <1>2, <1>4 DEF x, y
<1> QED
  BY <1>6, <1>7, <1>9, <1>10, <1>11 DEF PipeOf, ms, y, t

(* Two sequences that agree in the messages about d, in their order, but   *)
(* for evictions: g says where those of r are in q.                        *)
Agree(q, r, d, g) ==
  /\ \A i \in DOMAIN r : About(r[i], d) =>
       g[i] \in DOMAIN q /\ About(q[g[i]], d) /\ (r[i] = q[g[i]] \/ r[i].kind = "evicted")
  /\ \A i, j \in DOMAIN r : About(r[i], d) /\ About(r[j], d) => (i <= j <=> g[i] <= g[j])
  /\ \A k \in DOMAIN q : About(q[k], d) => \E i \in DOMAIN r : About(r[i], d) /\ g[i] = k
Same(q, r, d, g) == \A i \in DOMAIN r : About(r[i], d) => r[i] = q[g[i]]

LEMMA Remap ==
  ASSUME NEW q \in Seq(Message), NEW r \in Seq(Message), NEW d, NEW n, NEW g \in [DOMAIN r -> Int],
         Agree(q, r, d, g), Flow(q, d, n)
  PROVE  Flow(r, d, n) /\ (Unbroken(q, d, n) /\ Same(q, r, d, g) => Unbroken(r, d, n))
<1> USE DEF Agree, Same
<1>0. DOMAIN q \subseteq Int /\ DOMAIN r \subseteq Int
  OBVIOUS
<1>1. \A i \in DOMAIN r : First(r, d, i) => First(q, d, g[i])
  BY DEF First
<1>2. \A i \in DOMAIN r : Final(r, d, i) => Final(q, d, g[i])
  BY DEF Final
<1>3. ASSUME NEW i \in DOMAIN r, NEW j \in DOMAIN r, Adjacent(r, d, i, j)
      PROVE  Adjacent(q, d, g[i], g[j])
  <2>1. /\ g[i] \in DOMAIN q /\ g[j] \in DOMAIN q /\ About(q[g[i]], d) /\ About(q[g[j]], d)
        /\ About(r[i], d) /\ About(r[j], d) /\ i < j
    BY <1>3 DEF Adjacent
  <2>2. ~(g[j] <= g[i])
    <3>1. ~(j <= i)
      BY <1>0, <2>1
    <3> QED
      BY <2>1, <3>1
  <2>3. g[i] < g[j]
    BY <2>2
  <2>4. ASSUME NEW k \in DOMAIN q, About(q[k], d)
        PROVE  k <= g[i] \/ g[j] <= k
    <3>1. PICK m \in DOMAIN r : About(r[m], d) /\ g[m] = k
      BY <2>4
    <3>2. m <= i \/ j <= m
      BY <1>3, <3>1 DEF Adjacent
    <3> QED
      BY <2>1, <3>1, <3>2
  <2> QED
    BY <2>1, <2>3, <2>4 DEF Adjacent
<1>4. (\A i \in DOMAIN r : ~About(r[i], d)) => n = 0
  BY DEF Flow
<1>5. \A i \in DOMAIN r : About(r[i], d) /\ r[i].kind = "chunk" => r[i] = q[g[i]]
  OBVIOUS
<1>6. Flow(r, d, n)
  <2>1. ASSUME NEW i \in DOMAIN r, First(r, d, i), r[i].kind = "chunk"
        PROVE  n < r[i].chunk.part
    <3>1. First(q, d, g[i]) /\ r[i] = q[g[i]] /\ g[i] \in DOMAIN q
      BY <1>1, <1>5, <2>1 DEF First
    <3> QED
      BY <2>1, <3>1 DEF Flow
  <2>2. ASSUME NEW i \in DOMAIN r, Final(r, d, i), r[i].kind = "chunk"
        PROVE  r[i].chunk.last
    <3>1. Final(q, d, g[i]) /\ r[i] = q[g[i]] /\ g[i] \in DOMAIN q
      BY <1>2, <1>5, <2>2 DEF Final
    <3> QED
      BY <2>2, <3>1 DEF Flow
  <2>3. ASSUME NEW i \in DOMAIN r, NEW j \in DOMAIN r, Adjacent(r, d, i, j), r[i].kind = "chunk", r[j].kind = "chunk"
        PROVE  r[j].chunk.part = IF r[i].chunk.last THEN 1 ELSE r[i].chunk.part + 1
    <3>1. Adjacent(q, d, g[i], g[j]) /\ r[i] = q[g[i]] /\ r[j] = q[g[j]] /\ g[i] \in DOMAIN q /\ g[j] \in DOMAIN q
      BY <1>3, <1>5, <2>3 DEF Adjacent
    <3> QED
      BY <2>3, <3>1 DEF Flow
  <2> QED
    BY <1>4, <2>1, <2>2, <2>3 DEF Flow
<1>7. ASSUME Unbroken(q, d, n), \A i \in DOMAIN r : About(r[i], d) => r[i] = q[g[i]]
      PROVE  Unbroken(r, d, n)
  <2> SUFFICES ASSUME NEW i \in DOMAIN r, About(r[i], d)
               PROVE  r[i].kind = "chunk" /\ (First(r, d, i) => r[i].chunk.part = n + 1)
    BY DEF Unbroken
  <2>1. g[i] \in DOMAIN q /\ About(q[g[i]], d) /\ r[i] = q[g[i]]
    BY <1>7
  <2> QED
    BY <1>1, <1>7, <2>1 DEF Unbroken
<1> QED
  BY <1>6, <1>7

(* A message about another payload, or about none, at the head.            *)
LEMMA FlowTail ==
  ASSUME NEW q \in Seq(Message), q # <<>>, NEW d, NEW n, Flow(q, d, n), ~About(Head(q), d)
  PROVE  Flow(Tail(q), d, n) /\ (Unbroken(q, d, n) => Unbroken(Tail(q), d, n))
<1> DEFINE r == Tail(q)
           g == [i \in DOMAIN r |-> i + 1]
<1>1. /\ r \in Seq(Message) /\ DOMAIN r = 1 .. Len(q) - 1 /\ DOMAIN q = 1 .. Len(q) /\ Len(q) \in Nat \ {0}
      /\ \A i \in DOMAIN r : r[i] = q[i + 1] /\ i + 1 \in DOMAIN q
      /\ Head(q) = q[1]
  OBVIOUS
<1> HIDE DEF r
<1>2. g \in [DOMAIN r -> Int] /\ \A i \in DOMAIN r : g[i] \in DOMAIN q /\ r[i] = q[g[i]]
  BY <1>1
<1>3. \A i, j \in DOMAIN r : i <= j <=> g[i] <= g[j]
  BY <1>1
<1>4. ASSUME NEW k \in DOMAIN q, About(q[k], d)
      PROVE  \E i \in DOMAIN r : About(r[i], d) /\ g[i] = k
  <2>1. k # 1
    BY <1>1, <1>4
  <2>2. k - 1 \in DOMAIN r /\ k - 1 + 1 = k
    BY <1>1, <2>1
  <2>3. g[k - 1] = k /\ r[k - 1] = q[k]
    BY <1>1, <2>2
  <2> QED
    BY <1>4, <2>2, <2>3
<1> HIDE DEF g
<1>5. Agree(q, r, d, g) /\ Same(q, r, d, g)
  <2>1. Same(q, r, d, g)
    BY <1>2 DEF Same
  <2>2. Agree(q, r, d, g)
    BY <1>2, <1>3, <1>4 DEF Agree
  <2> QED
    BY <2>1, <2>2
<1>6. g \in [DOMAIN r -> Int] /\ r \in Seq(Message)
  BY <1>1, <1>2
<1>7. Flow(r, d, n) /\ (Unbroken(q, d, n) => Unbroken(r, d, n))
  BY <1>5, <1>6, Remap
<1> QED
  BY <1>7 DEF r

(* Messages about others between two parts.                                *)
LEMMA FlowInsert ==
  ASSUME NEW u \in Seq(Message), NEW x \in Seq(Message), NEW w \in Seq(Message), NEW d, NEW n,
         Flow(u \o w, d, n), \A i \in DOMAIN x : ~About(x[i], d)
  PROVE  Flow((u \o x) \o w, d, n) /\ (Unbroken(u \o w, d, n) => Unbroken((u \o x) \o w, d, n))
<1> DEFINE q == u \o w
           p == u \o x
           r == p \o w
           g == [i \in DOMAIN r |-> IF i <= Len(u) THEN i ELSE i - Len(x)]
<1>1. /\ q \in Seq(Message) /\ Len(q) = Len(u) + Len(w)
      /\ \A i \in 1 .. Len(u) + Len(w) : q[i] = IF i <= Len(u) THEN u[i] ELSE w[i - Len(u)]
  BY ConcatProperties
<1>2. /\ p \in Seq(Message) /\ Len(p) = Len(u) + Len(x)
      /\ \A i \in 1 .. Len(u) + Len(x) : p[i] = IF i <= Len(u) THEN u[i] ELSE x[i - Len(u)]
  BY ConcatProperties
<1> HIDE DEF p
<1>3. /\ r \in Seq(Message) /\ Len(r) = Len(p) + Len(w)
      /\ \A i \in 1 .. Len(p) + Len(w) : r[i] = IF i <= Len(p) THEN p[i] ELSE w[i - Len(p)]
  <2>1. p \in Seq(Message)
    BY <1>2
  <2>2. /\ p \o w \in Seq(Message) /\ Len(p \o w) = Len(p) + Len(w)
        /\ \A i \in 1 .. Len(p) + Len(w) : (p \o w)[i] = IF i <= Len(p) THEN p[i] ELSE w[i - Len(p)]
    BY <2>1, ConcatProperties
  <2> QED
    BY <2>2
<1>4. Len(u) \in Nat /\ Len(x) \in Nat /\ Len(w) \in Nat /\ DOMAIN x = 1 .. Len(x)
  OBVIOUS
<1> HIDE DEF q, r
<1>5. DOMAIN q = 1 .. Len(u) + Len(w) /\ DOMAIN r = 1 .. Len(u) + Len(x) + Len(w)
  BY <1>1, <1>2, <1>3, <1>4
<1>6. ASSUME NEW i \in DOMAIN r, ~(i <= Len(u)), i <= Len(u) + Len(x)
      PROVE  ~About(r[i], d)
  <2>1. r[i] = x[i - Len(u)] /\ i - Len(u) \in 1 .. Len(x)
    BY <1>2, <1>3, <1>4, <1>5, <1>6
  <2> QED
    BY <1>4, <2>1
<1>7. g \in [DOMAIN r -> Int]
  BY <1>4, <1>5
<1>8. ASSUME NEW i \in DOMAIN r, i <= Len(u) \/ ~(i <= Len(u) + Len(x))
      PROVE  g[i] \in DOMAIN q /\ r[i] = q[g[i]]
  <2>1. CASE i <= Len(u)
    <3>1. g[i] = i /\ i \in 1 .. Len(u)
      BY <1>5, <2>1
    <3> QED
      BY <1>1, <1>2, <1>3, <1>4, <1>5, <2>1, <3>1
  <2>2. CASE ~(i <= Len(u) + Len(x))
    <3>1. g[i] = i - Len(x) /\ ~(i <= Len(p)) /\ ~(i - Len(x) <= Len(u)) /\ i - Len(x) \in 1 .. Len(u) + Len(w)
      BY <1>2, <1>4, <1>5, <2>2
    <3>2. r[i] = w[i - Len(p)] /\ i - Len(p) = i - Len(x) - Len(u)
      BY <1>2, <1>3, <1>4, <1>5, <3>1
    <3> QED
      BY <1>1, <1>5, <3>1, <3>2
  <2> QED
    BY <1>8, <2>1, <2>2
<1>9. \A i, j \in DOMAIN r : About(r[i], d) /\ About(r[j], d) => (i <= j <=> g[i] <= g[j])
  <2> TAKE i, j \in DOMAIN r
  <2> HAVE About(r[i], d) /\ About(r[j], d)
  <2>1. (i <= Len(u) \/ ~(i <= Len(u) + Len(x))) /\ (j <= Len(u) \/ ~(j <= Len(u) + Len(x)))
    BY <1>6
  <2>2. i \in Int /\ j \in Int /\ g[i] = (IF i <= Len(u) THEN i ELSE i - Len(x)) /\ g[j] = (IF j <= Len(u) THEN j ELSE j - Len(x))
    BY <1>5
  <2> QED
    BY <1>4, <2>1, <2>2
<1>10. ASSUME NEW k \in DOMAIN q, About(q[k], d)
       PROVE  \E i \in DOMAIN r : About(r[i], d) /\ g[i] = k
  <2>1. CASE k <= Len(u)
    <3>1. k \in DOMAIN r /\ g[k] = k
      BY <1>4, <1>5, <2>1
    <3>2. r[k] = q[k]
      BY <1>8, <2>1, <3>1
    <3> QED
      BY <1>10, <3>1, <3>2
  <2>2. CASE ~(k <= Len(u))
    <3>1. \A i \in DOMAIN r : ~(i <= Len(u)) => g[i] = i - Len(x)
      OBVIOUS
    <3>2. PICK m \in Int : m = k + Len(x)
      BY <1>4, <1>5
    <3>3. m \in DOMAIN r /\ ~(m <= Len(u)) /\ ~(m <= Len(u) + Len(x)) /\ m - Len(x) = k
      BY <1>4, <1>5, <2>2, <3>2
    <3> HIDE DEF g
    <3>4. g[m] = k
      BY <3>1, <3>3
    <3>5. r[m] = q[k]
      BY <1>8, <3>3, <3>4
    <3> QED
      BY <1>10, <3>3, <3>4, <3>5
  <2> QED
    BY <2>1, <2>2
<1> HIDE DEF g
<1>11. \A i \in DOMAIN r : About(r[i], d) => g[i] \in DOMAIN q /\ r[i] = q[g[i]]
  BY <1>6, <1>8
<1>12. Flow(q, d, n)
  BY DEF q
<1>13. \A i \in DOMAIN r : About(r[i], d) =>
         g[i] \in DOMAIN q /\ About(q[g[i]], d) /\ (r[i] = q[g[i]] \/ r[i].kind = "evicted")
  BY <1>11
<1>14. q \in Seq(Message) /\ r \in Seq(Message)
  BY <1>1, <1>3
<1>15. Agree(q, r, d, g) /\ Same(q, r, d, g)
  <2>1. Same(q, r, d, g)
    BY <1>11 DEF Same
  <2>2. Agree(q, r, d, g)
    BY <1>9, <1>10, <1>13 DEF Agree
  <2> QED
    BY <2>1, <2>2
<1>16. Flow(r, d, n) /\ (Unbroken(q, d, n) => Unbroken(r, d, n))
  BY <1>7, <1>12, <1>14, <1>15, Remap
<1> QED
  BY <1>16 DEF p, q, r

(* A chunk that has become the notice of its eviction.                     *)
LEMMA FlowReplace ==
  ASSUME NEW q \in Seq(Message), NEW r \in Seq(Message), Len(q) = Len(r), NEW d, NEW n, Flow(q, d, n),
         \A i \in 1 .. Len(q) : r[i] = q[i] \/ (q[i].kind = "chunk" /\ r[i] = EvictedMessage(q[i].chunk.digest))
  PROVE  /\ Flow(r, d, n)
         /\ Unbroken(q, d, n) /\ (\A i \in 1 .. Len(q) : About(r[i], d) => r[i] = q[i]) => Unbroken(r, d, n)
<1> DEFINE g == [i \in DOMAIN r |-> i]
<1>1. DOMAIN q = 1 .. Len(q) /\ DOMAIN r = 1 .. Len(q) /\ Len(q) \in Nat
  OBVIOUS
<1>2. g \in [DOMAIN r -> Int] /\ \A i \in DOMAIN r : g[i] = i
  BY <1>1
<1> HIDE DEF g
<1>3. ASSUME NEW i \in 1 .. Len(q)
      PROVE  /\ About(r[i], d) <=> About(q[i], d)
             /\ r[i] = q[i] \/ r[i].kind = "evicted"
  <2>1. CASE r[i] = q[i]
    BY <2>1
  <2>2. CASE q[i].kind = "chunk" /\ r[i] = EvictedMessage(q[i].chunk.digest)
    <3>1. r[i].kind = "evicted" /\ r[i].digest = q[i].chunk.digest
      BY <2>2 DEF EvictedMessage
    <3> QED
      BY <2>2, <3>1 DEF About
  <2> QED
    BY <2>1, <2>2
<1>4. \A i \in DOMAIN r : About(r[i], d) =>
        g[i] \in DOMAIN q /\ About(q[g[i]], d) /\ (r[i] = q[g[i]] \/ r[i].kind = "evicted")
  BY <1>1, <1>2, <1>3
<1>5. \A i, j \in DOMAIN r : About(r[i], d) /\ About(r[j], d) => (i <= j <=> g[i] <= g[j])
  BY <1>2
<1>6. \A k \in DOMAIN q : About(q[k], d) => \E i \in DOMAIN r : About(r[i], d) /\ g[i] = k
  BY <1>1, <1>2, <1>3
<1>7. Agree(q, r, d, g)
  BY <1>4, <1>5, <1>6 DEF Agree
<1>8. (\A i \in 1 .. Len(q) : About(r[i], d) => r[i] = q[i]) => Same(q, r, d, g)
  BY <1>1, <1>2 DEF Same
<1>9. Flow(r, d, n) /\ (Unbroken(q, d, n) /\ Same(q, r, d, g) => Unbroken(r, d, n))
  BY <1>2, <1>7, Remap
<1> QED
  BY <1>8, <1>9

(* The server takes a message about the payload.                           *)
Taken(m, n) == IF m.kind = "chunk" /\ ~m.chunk.last THEN n + 1 ELSE 0

LEMMA FlowHead ==
  ASSUME NEW q \in Seq(Message), q # <<>>, NEW d, NEW n \in Nat, Flow(q, d, n), About(Head(q), d)
  PROVE  /\ Head(q).kind = "chunk" => n < Head(q).chunk.part
         /\ Flow(Tail(q), d, Taken(Head(q), n))
         /\ Unbroken(q, d, n) => /\ Head(q).kind = "chunk" /\ Head(q).chunk.part = n + 1
                                 /\ Unbroken(Tail(q), d, Taken(Head(q), n))
<1> DEFINE t == Tail(q)
           m == Head(q)
           n2 == Taken(m, n)
<1>1. /\ t \in Seq(Message) /\ DOMAIN t = 1 .. Len(q) - 1 /\ DOMAIN q = 1 .. Len(q) /\ Len(q) \in Nat \ {0}
      /\ \A i \in DOMAIN t : t[i] = q[i + 1] /\ i + 1 \in DOMAIN q
      /\ m = q[1] /\ 1 \in DOMAIN q
  BY HeadTailProperties
<1>2. About(m, d) /\ m \in Message
  BY HeadTailProperties
<1> HIDE DEF t, m
<1>3. First(q, d, 1)
  BY <1>1, <1>2 DEF First
<1>4. m.kind = "chunk" => n < m.chunk.part
  BY <1>1, <1>3 DEF Flow
<1>5. ASSUME NEW k \in DOMAIN q, About(q[k], d), k # 1
      PROVE  \E i \in DOMAIN t : i = k - 1 /\ About(t[i], d) /\ t[i] = q[k]
  <2>1. k - 1 \in DOMAIN t /\ k - 1 + 1 = k
    BY <1>1, <1>5
  <2>2. t[k - 1] = q[k]
    BY <1>1, <2>1
  <2> QED
    BY <1>5, <2>1, <2>2
<1>6. ASSUME NEW i \in DOMAIN t, First(t, d, i)
      PROVE  Adjacent(q, d, 1, i + 1)
  <2>1. i \in Int /\ 1 < i + 1 /\ i + 1 \in DOMAIN q /\ About(q[i + 1], d) /\ About(q[1], d)
    BY <1>1, <1>2, <1>6 DEF First
  <2>2. ASSUME NEW k \in DOMAIN q, About(q[k], d)
        PROVE  k <= 1 \/ i + 1 <= k
    <3>1. CASE k = 1
      BY <3>1
    <3>2. CASE k # 1
      <4>1. PICK j \in DOMAIN t : j = k - 1 /\ About(t[j], d)
        BY <1>5, <2>2, <3>2
      <4>2. i <= k - 1
        BY <1>6, <4>1 DEF First
      <4> QED
        BY <1>1, <2>1, <4>2
    <3> QED
      BY <3>1, <3>2
  <2> QED
    BY <1>1, <2>1, <2>2 DEF Adjacent
<1>7. ASSUME NEW i \in DOMAIN t, First(t, d, i), m.kind = "chunk", t[i].kind = "chunk"
      PROVE  t[i].chunk.part = n2 + 1 \/ (~m.chunk.last /\ t[i].chunk.part = m.chunk.part + 1)
  <2>1. Adjacent(q, d, 1, i + 1) /\ q[i + 1] = t[i] /\ i + 1 \in DOMAIN q
    BY <1>1, <1>6, <1>7
  <2>2. t[i].chunk.part = IF m.chunk.last THEN 1 ELSE m.chunk.part + 1
    BY <1>1, <1>7, <2>1 DEF Flow
  <2> QED
    BY <1>7, <2>2 DEF Taken
<1>8. n2 \in Nat
  BY DEF Taken
<1>9. \A x \in Message : x.kind = "chunk" => x.chunk.part \in Nat /\ 0 < x.chunk.part
  BY MessageKinds DEF Chunk
<1>10. \A i \in DOMAIN t : t[i] \in Message
  BY <1>1
<1>11. ASSUME NEW i \in DOMAIN t, First(t, d, i), t[i].kind = "chunk"
       PROVE  n2 < t[i].chunk.part
  <2>1. CASE m.kind = "chunk" /\ ~m.chunk.last
    <3>1. n2 = n + 1
      BY <2>1 DEF Taken
    <3>2. m.chunk.part \in Nat /\ n < m.chunk.part
      BY <1>2, <1>4, <1>9, <2>1
    <3>3. t[i].chunk.part = n2 + 1 \/ t[i].chunk.part = m.chunk.part + 1
      BY <1>7, <1>11, <2>1
    <3> QED
      BY <1>8, <3>1, <3>2, <3>3
  <2>2. CASE ~(m.kind = "chunk" /\ ~m.chunk.last)
    <3>1. n2 = 0
      BY <2>2 DEF Taken
    <3> QED
      BY <1>9, <1>10, <1>11, <3>1
  <2> QED
    BY <2>1, <2>2
<1>12. ASSUME NEW i \in DOMAIN t, NEW j \in DOMAIN t, Adjacent(t, d, i, j)
       PROVE  Adjacent(q, d, i + 1, j + 1) /\ q[i + 1] = t[i] /\ q[j + 1] = t[j]
  <2>1. /\ i \in Int /\ j \in Int /\ i + 1 < j + 1 /\ i + 1 \in DOMAIN q /\ j + 1 \in DOMAIN q
        /\ About(q[i + 1], d) /\ About(q[j + 1], d) /\ q[i + 1] = t[i] /\ q[j + 1] = t[j]
    BY <1>1, <1>12 DEF Adjacent
  <2>2. ASSUME NEW k \in DOMAIN q, About(q[k], d)
        PROVE  k <= i + 1 \/ j + 1 <= k
    <3>1. CASE k = 1
      BY <1>1, <2>1, <3>1
    <3>2. CASE k # 1
      <4>1. PICK l \in DOMAIN t : l = k - 1 /\ About(t[l], d)
        BY <1>5, <2>2, <3>2
      <4>2. k - 1 <= i \/ j <= k - 1
        BY <1>12, <4>1 DEF Adjacent
      <4> QED
        BY <1>1, <2>1, <4>2
    <3> QED
      BY <3>1, <3>2
  <2> QED
    BY <2>1, <2>2 DEF Adjacent
<1>13. ASSUME NEW i \in DOMAIN t, NEW j \in DOMAIN t, Adjacent(t, d, i, j), t[i].kind = "chunk", t[j].kind = "chunk"
       PROVE  t[j].chunk.part = IF t[i].chunk.last THEN 1 ELSE t[i].chunk.part + 1
  <2>1. Adjacent(q, d, i + 1, j + 1) /\ q[i + 1] = t[i] /\ q[j + 1] = t[j] /\ i + 1 \in DOMAIN q /\ j + 1 \in DOMAIN q
    BY <1>1, <1>12, <1>13
  <2> QED
    BY <1>13, <2>1 DEF Flow
<1>14. ASSUME NEW i \in DOMAIN t, Final(t, d, i), t[i].kind = "chunk"
       PROVE  t[i].chunk.last
  <2>1. i + 1 \in DOMAIN q /\ q[i + 1] = t[i] /\ About(t[i], d) /\ i \in 1 .. Len(q) - 1
    BY <1>1, <1>14 DEF Final
  <2>2. ASSUME NEW k \in DOMAIN q, About(q[k], d)
        PROVE  k <= i + 1
    <3>1. CASE k = 1
      BY <1>1, <2>1, <3>1
    <3>2. CASE k # 1
      <4>1. PICK l \in DOMAIN t : l = k - 1 /\ About(t[l], d)
        BY <1>5, <2>2, <3>2
      <4>2. k - 1 <= i
        BY <1>14, <4>1 DEF Final
      <4> QED
        BY <1>1, <2>1, <4>2
    <3> QED
      BY <3>1, <3>2
  <2>3. Final(q, d, i + 1)
    BY <2>1, <2>2 DEF Final
  <2> QED
    BY <1>14, <2>1, <2>3 DEF Flow
<1>15. ASSUME \A i \in DOMAIN t : ~About(t[i], d)
       PROVE  n2 = 0
  <2>1. \A k \in DOMAIN q : About(q[k], d) => k <= 1
    BY <1>1, <1>5, <1>15
  <2>2. Final(q, d, 1)
    BY <1>1, <1>2, <2>1 DEF Final
  <2>3. m.kind = "chunk" => m.chunk.last
    BY <1>1, <2>2 DEF Flow
  <2> QED
    BY <2>3 DEF Taken
<1> HIDE DEF n2
<1>16. Flow(t, d, n2)
  BY <1>11, <1>13, <1>14, <1>15 DEF Flow
<1>17. ASSUME Unbroken(q, d, n)
       PROVE  m.kind = "chunk" /\ m.chunk.part = n + 1 /\ Unbroken(t, d, n2)
  <2>1. m.kind = "chunk" /\ m.chunk.part = n + 1
    BY <1>1, <1>2, <1>3, <1>17 DEF Unbroken
  <2>2. ASSUME NEW i \in DOMAIN t, About(t[i], d)
        PROVE  t[i].kind = "chunk" /\ (First(t, d, i) => t[i].chunk.part = n2 + 1)
    <3>1. t[i].kind = "chunk"
      BY <1>1, <1>17, <2>2 DEF Unbroken
    <3>2. ~m.chunk.last => n2 = n + 1
      BY <2>1 DEF n2, Taken
    <3> QED
      BY <1>7, <2>1, <3>1, <3>2
  <2> QED
    BY <2>1, <2>2 DEF Unbroken
<1> QED
  BY <1>4, <1>16, <1>17 DEF t, m, n2

(* A whole payload is queued behind the others.                            *)
LEMMA FlowAppend ==
  ASSUME NEW q \in Seq(Message), NEW x \in Seq(Message), NEW d, NEW n, Flow(q, d, n), x # <<>>,
         \A i \in 1 .. Len(x) : /\ About(x[i], d) /\ x[i].kind = "chunk" /\ x[i].chunk.part = i
                                /\ (x[i].chunk.last <=> i = Len(x))
  PROVE  Flow(q \o x, d, n) /\ (Unbroken(q, d, n) => Unbroken(q \o x, d, n))
<1> DEFINE r == q \o x
           lq == Len(q)
           lx == Len(x)
<1>1. lq \in Nat /\ lx \in Nat \ {0} /\ DOMAIN q = 1 .. lq /\ DOMAIN x = 1 .. lx
  OBVIOUS
<1>2. /\ r \in Seq(Message) /\ Len(r) = lq + lx
      /\ \A i \in 1 .. lq + lx : r[i] = IF i <= lq THEN q[i] ELSE x[i - lq]
  BY ConcatProperties
<1> HIDE DEF r, lq, lx
<1>3. DOMAIN r = 1 .. lq + lx
  BY <1>2
<1>4. ASSUME NEW i \in DOMAIN r, i <= lq
      PROVE  i \in DOMAIN q /\ r[i] = q[i]
  BY <1>1, <1>2, <1>3, <1>4
<1>5. ASSUME NEW i \in DOMAIN r, ~(i <= lq)
      PROVE  /\ About(r[i], d) /\ r[i].kind = "chunk" /\ r[i].chunk.part = i - lq
             /\ (r[i].chunk.last <=> i = lq + lx)
  <2>1. i - lq \in 1 .. lx /\ r[i] = x[i - lq]
    BY <1>1, <1>2, <1>3, <1>5
  <2>2. i - lq = lx <=> i = lq + lx
    BY <1>1, <1>3
  <2> QED
    BY <2>1, <2>2 DEF lx
<1>6. ASSUME NEW k \in DOMAIN q
      PROVE  k \in DOMAIN r /\ k <= lq /\ r[k] = q[k]
  BY <1>1, <1>2, <1>3
<1>7. lq + 1 \in DOMAIN r /\ ~(lq + 1 <= lq) /\ About(r[lq + 1], d)
  BY <1>1, <1>3, <1>5
<1>8. ASSUME NEW i \in DOMAIN r, First(r, d, i)
      PROVE  /\ i <= lq => First(q, d, i)
             /\ ~(i <= lq) => i = lq + 1 /\ \A k \in DOMAIN q : ~About(q[k], d)
  <2>1. CASE i <= lq
    BY <1>4, <1>6, <1>8, <2>1 DEF First
  <2>2. CASE ~(i <= lq)
    <3>1. i <= lq + 1
      BY <1>7, <1>8 DEF First
    <3>2. i = lq + 1
      BY <1>1, <1>3, <2>2, <3>1
    <3>3. ASSUME NEW k \in DOMAIN q, About(q[k], d)
          PROVE  FALSE
      <4>1. i <= k /\ k <= lq
        BY <1>6, <1>8, <3>3 DEF First
      <4> QED
        BY <1>1, <1>3, <2>2, <3>3, <4>1
    <3> QED
      BY <2>2, <3>2, <3>3
  <2> QED
    BY <2>1, <2>2
<1>9. ASSUME NEW i \in DOMAIN r, First(r, d, i), r[i].kind = "chunk"
      PROVE  n < r[i].chunk.part
  <2>1. CASE i <= lq
    BY <1>4, <1>8, <1>9, <2>1 DEF Flow
  <2>2. CASE ~(i <= lq)
    <3>1. i = lq + 1 /\ n = 0
      BY <1>8, <1>9, <2>2 DEF Flow
    <3>2. r[i].chunk.part = 1
      BY <1>1, <1>5, <2>2, <3>1
    <3> QED
      BY <3>1, <3>2
  <2> QED
    BY <2>1, <2>2
<1>10. ASSUME NEW i \in DOMAIN r, NEW j \in DOMAIN r, Adjacent(r, d, i, j), r[i].kind = "chunk", r[j].kind = "chunk"
       PROVE  r[j].chunk.part = IF r[i].chunk.last THEN 1 ELSE r[i].chunk.part + 1
  <2>1. i < j /\ About(r[i], d) /\ About(r[j], d) /\ i \in Int /\ j \in Int
    BY <1>3, <1>10 DEF Adjacent
  <2>2. CASE j <= lq
    <3>1. i <= lq
      BY <1>1, <2>1, <2>2
    <3>2. Adjacent(q, d, i, j)
      BY <1>4, <1>6, <1>10, <2>1, <2>2, <3>1 DEF Adjacent
    <3> QED
      BY <1>4, <1>10, <2>2, <3>1, <3>2 DEF Flow
  <2>3. CASE i <= lq /\ ~(j <= lq)
    <3>1. lq + 1 <= i \/ j <= lq + 1
      BY <1>7, <1>10 DEF Adjacent
    <3>2. j = lq + 1
      BY <1>1, <2>1, <2>3, <3>1
    <3>3. r[j].chunk.part = 1
      BY <1>1, <1>5, <2>3, <3>2
    <3>4. ASSUME NEW k \in DOMAIN q, About(q[k], d)
          PROVE  k <= i
      <4>1. k \in DOMAIN r /\ k <= lq /\ About(r[k], d)
        BY <1>6, <3>4
      <4>2. k <= i \/ j <= k
        BY <1>10, <4>1 DEF Adjacent
      <4> QED
        BY <1>1, <1>3, <3>2, <4>1, <4>2
    <3>5. Final(q, d, i) /\ r[i] = q[i] /\ i \in DOMAIN q
      BY <1>4, <2>1, <2>3, <3>4 DEF Final
    <3>6. r[i].chunk.last
      BY <1>10, <3>5 DEF Flow
    <3> QED
      BY <3>3, <3>6
  <2>4. CASE ~(i <= lq)
    <3>1. i + 1 \in DOMAIN r /\ ~(i + 1 <= lq) /\ ~(j <= lq) /\ i + 1 <= j
      BY <1>1, <1>3, <2>1, <2>4
    <3>2. i + 1 <= i \/ j <= i + 1
      BY <1>5, <1>10, <3>1 DEF Adjacent
    <3>3. j = i + 1 /\ i # lq + lx
      BY <1>1, <1>3, <2>1, <3>1, <3>2
    <3>4. r[i].chunk.part = i - lq /\ ~r[i].chunk.last /\ r[j].chunk.part = j - lq
      BY <1>5, <2>4, <3>1, <3>3
    <3> QED
      BY <1>1, <2>1, <3>3, <3>4
  <2> QED
    BY <2>2, <2>3, <2>4
<1>11. ASSUME NEW i \in DOMAIN r, Final(r, d, i), r[i].kind = "chunk"
       PROVE  r[i].chunk.last
  <2>1. lq + lx \in DOMAIN r /\ ~(lq + lx <= lq)
    BY <1>1, <1>3
  <2>2. lq + lx <= i
    BY <1>5, <1>11, <2>1 DEF Final
  <2>3. i = lq + lx /\ ~(i <= lq)
    BY <1>1, <1>3, <2>1, <2>2
  <2> QED
    BY <1>5, <2>3
<1>12. Flow(r, d, n)
  BY <1>7, <1>9, <1>10, <1>11 DEF Flow
<1>13. ASSUME Unbroken(q, d, n)
       PROVE  Unbroken(r, d, n)
  <2> SUFFICES ASSUME NEW i \in DOMAIN r, About(r[i], d)
               PROVE  r[i].kind = "chunk" /\ (First(r, d, i) => r[i].chunk.part = n + 1)
    BY DEF Unbroken
  <2>1. CASE i <= lq
    BY <1>4, <1>8, <1>13, <2>1 DEF Unbroken
  <2>2. CASE ~(i <= lq)
    <3>1. First(r, d, i) => i = lq + 1 /\ n = 0
      BY <1>8, <2>2 DEF Flow
    <3>2. r[i].kind = "chunk" /\ r[i].chunk.part = i - lq
      BY <1>5, <2>2
    <3> QED
      BY <1>1, <3>1, <3>2
  <2> QED
    BY <2>1, <2>2
<1> QED
  BY <1>12, <1>13 DEF r

(* What the steps do to the pipe and to the assemblers.                    *)
Counts == [d \in Digests |-> Len(parts[d])]
Flows(q, ns, ds) ==
  \A d \in Digests : Flow(q, d, ns[d]) /\ (d \notin ds => Unbroken(q, d, ns[d]))
Assembled(ps, ds) ==
  \A d \in Digests : /\ Len(ps[d]) < Parts[d]
                     /\ d \notin ds => \A i \in 1 .. Len(ps[d]) : ps[d][i] = i

PipeInv ==
  /\ link = "down" => wire = <<>>
  /\ Assembled(parts, gaps)
  /\ link # "down" => Flows(Pipe, Counts, gaps)

LEMMA InitPipe == Init => PipeInv
<1> SUFFICES ASSUME Init PROVE PipeInv
  OBVIOUS
<1>1. wire = <<>> /\ chunks = <<>> /\ peeked = None /\ gaps = {} /\ link = "up" /\ parts = [d \in Digests |-> <<>>]
  BY DEF Init
<1>2. <<>> \in Seq(Chunk) /\ <<>> \in Seq(Message)
  OBVIOUS
<1>3. Waiting = <<>>
  BY <1>1 DEF Waiting, WaitingOf
<1>4. Messages(<<>>) = <<>>
  <2> DEFINE e == <<>>
             y == Messages(e)
  <2>1. e \in Seq(Chunk) /\ Len(e) = 0
    OBVIOUS
  <2> HIDE DEF e
  <2>2. y \in Seq(Message) /\ Len(y) = 0
    BY <2>1, MessagesOf
  <2> HIDE DEF y
  <2>3. y = <<>>
    BY <2>2, EmptySeq
  <2> QED
    BY <2>3 DEF y, e
<1>5. Pipe = <<>>
  BY <1>1, <1>2, <1>3, <1>4, ConcatEmptySeq DEF Pipe, PipeOf
<1>6. ASSUME NEW d \in Digests
      PROVE  Counts[d] = 0 /\ Parts[d] \in Nat \ {0} /\ Len(parts[d]) = 0
  BY <1>1, PartsAssumption DEF Counts
<1>7. \A d : Flow(<<>>, d, 0) /\ Unbroken(<<>>, d, 0)
  BY DEF Flow, Unbroken, Adjacent
<1>8. Flows(Pipe, Counts, gaps)
  BY <1>5, <1>6, <1>7 DEF Flows
<1>9. Assembled(parts, gaps)
  BY <1>6 DEF Assembled
<1> QED
  BY <1>1, <1>8, <1>9 DEF PipeInv

LEMMA PipeTyped ==
  ASSUME Types
  PROVE  Waiting \in Seq(Chunk) /\ Pipe \in Seq(Message) /\ Messages(Waiting) \in Seq(Message) /\ wire \in Seq(Message)
<1>1. chunks \in Seq(Chunk) /\ wire \in Seq(Message) /\ (peeked = None \/ peeked \in Chunk)
  BY DEF Types, ClientTypes
<1>2. Waiting \in Seq(Chunk)
  BY <1>1, WaitingTyped DEF Waiting
<1>3. Messages(Waiting) \in Seq(Message)
  BY <1>2, MessagesOf
<1> DEFINE ms == Messages(Waiting)
<1>4. ms \in Seq(Message) /\ Pipe = wire \o ms
  BY <1>3 DEF Pipe, PipeOf
<1> HIDE DEF ms
<1>5. wire \o ms \in Seq(Message)
  BY <1>1, <1>4, ConcatProperties
<1> QED
  BY <1>1, <1>2, <1>3, <1>4, <1>5

(* Messages that are about no payload go before the queue.                 *)
LEMMA PipeSpans ==
  ASSUME Types, NEW x \in Seq(Message), \A i \in DOMAIN x : x[i].kind = "span",
         wire' = wire \o x, UNCHANGED <<chunks, peeked, parts, gaps>>, Flows(Pipe, Counts, gaps)
  PROVE  Flows(Pipe, Counts, gaps)'
<1> DEFINE ms == Messages(Waiting)
<1>1. Waiting' = Waiting /\ Counts' = Counts /\ gaps' = gaps
  BY DEF Waiting, Counts
<1>2. Pipe = wire \o ms /\ Pipe' = (wire \o x) \o ms
  BY <1>1 DEF Pipe, PipeOf
<1>3. ms \in Seq(Message) /\ wire \in Seq(Message)
  BY PipeTyped
<1> HIDE DEF ms
<1>4. ASSUME NEW d \in Digests
      PROVE  Flow(Pipe', d, Counts[d]) /\ (d \notin gaps => Unbroken(Pipe', d, Counts[d]))
  <2> DEFINE n == Counts[d]
  <2> HIDE DEF n
  <2>1. \A i \in DOMAIN x : ~About(x[i], d)
    BY DEF About
  <2>2. Flow(wire \o ms, d, n) /\ (d \notin gaps => Unbroken(wire \o ms, d, n))
    BY <1>2 DEF Flows, n
  <2>3. Flow((wire \o x) \o ms, d, n) /\ (Unbroken(wire \o ms, d, n) => Unbroken((wire \o x) \o ms, d, n))
    BY <1>3, <2>1, <2>2, FlowInsert
  <2> QED
    BY <1>2, <2>2, <2>3 DEF n
<1>5. Flows(Pipe', Counts, gaps)
  BY <1>4 DEF Flows
<1> QED
  BY <1>1, <1>5

(* The pipe stays as it is.                                                *)
LEMMA PipeSame ==
  ASSUME PipeInv, Pipe' = Pipe, UNCHANGED <<parts, gaps>>, link' = "down" => wire' = <<>>,
         link' # "down" => link # "down"
  PROVE  PipeInv'
<1>1. Counts' = Counts /\ gaps' = gaps /\ parts' = parts
  BY DEF Counts
<1>2. Assembled(parts', gaps')
  BY <1>1 DEF PipeInv
<1>3. link' # "down" => Flows(Pipe', Counts', gaps')
  BY <1>1 DEF PipeInv
<1> QED
  BY <1>2, <1>3 DEF PipeInv

LEMMA EmitPipe ==
  ASSUME Types, PipeInv, NEW x \in Spans, NEW d \in Digests, EmitSpan(x, d)
  PROVE  PipeInv'
<1>1. UNCHANGED <<peeked, link, wire, parts, gaps>> /\ link = "up"
  BY DEF EmitSpan
<1>2. CASE TooBig(d)
  <2>1. chunks' = chunks
    BY <1>2 DEF EmitSpan
  <2>2. Pipe' = Pipe
    BY <1>1, <2>1 DEF Pipe, Waiting
  <2> QED
    BY <1>1, <2>2, PipeSame
<1>3. CASE ~TooBig(d)
  <2> DEFINE cs == ChunksOf(d)
             y == Messages(cs)
  <2>1. chunks' = chunks \o cs
    BY <1>3 DEF EmitSpan
  <2>2. /\ cs \in Seq(Chunk) /\ Len(cs) = Parts[d] /\ Parts[d] \in Nat \ {0}
        /\ \A i \in 1 .. Parts[d] : cs[i] = [digest |-> d, part |-> i, last |-> i = Parts[d]]
    BY ChunksOfTyped
  <2> HIDE DEF cs
  <2>3. Waiting' = Waiting \o cs /\ Waiting \in Seq(Chunk)
    <3>1. chunks \in Seq(Chunk) /\ (peeked = None \/ peeked \in Chunk) /\ cs \in Seq(Chunk)
      BY <2>2 DEF Types, ClientTypes
    <3>2. CASE peeked = None
      BY <1>1, <2>1, <3>1, <3>2 DEF Waiting, WaitingOf
    <3>3. CASE peeked # None
      <4>1. <<peeked>> \in Seq(Chunk)
        BY <3>1, <3>3
      <4>2. (<<peeked>> \o chunks) \o cs = <<peeked>> \o (chunks \o cs)
        BY <3>1, <4>1, ConcatAssociative
      <4>3. Waiting = <<peeked>> \o chunks /\ Waiting' = <<peeked>> \o (chunks \o cs)
        BY <1>1, <2>1, <3>3 DEF Waiting, WaitingOf
      <4> QED
        BY <4>2, <4>3, PipeTyped
    <3> QED
      BY <3>2, <3>3, PipeTyped
  <2>4. /\ y \in Seq(Message) /\ Len(y) = Parts[d]
        /\ \A i \in 1 .. Parts[d] : y[i] = ChunkMessage(cs[i])
    BY <2>2, MessagesOf
  <2> DEFINE ms == Messages(Waiting)
  <2>5. Messages(Waiting \o cs) = ms \o y
    BY <2>2, <2>3, MessagesConcat
  <2> HIDE DEF y
  <2>6. Pipe' = wire \o (ms \o y) /\ Pipe = wire \o ms
    BY <1>1, <2>3, <2>5 DEF Pipe, PipeOf
  <2>7. ms \in Seq(Message) /\ wire \in Seq(Message) /\ y \in Seq(Message)
    BY <2>4, PipeTyped
  <2> HIDE DEF ms
  <2>8. Pipe' = Pipe \o y /\ Pipe \in Seq(Message)
    <3>1. (wire \o ms) \o y = wire \o (ms \o y)
      BY <2>7, ConcatAssociative
    <3> QED
      BY <2>6, <3>1, PipeTyped
  <2>9. \A i \in 1 .. Len(y) : /\ About(y[i], d) /\ y[i].kind = "chunk" /\ y[i].chunk.part = i
                               /\ (y[i].chunk.last <=> i = Len(y)) /\ y[i].chunk.digest = d
    <3> TAKE i \in 1 .. Len(y)
    <3> DEFINE c == [digest |-> d, part |-> i, last |-> i = Parts[d]]
    <3>3. c.digest = d /\ c.part = i
      OBVIOUS
    <3>4. c.last <=> i = Parts[d]
      OBVIOUS
    <3>5. cs[i] = c /\ y[i] = ChunkMessage(cs[i])
      BY <2>2, <2>4
    <3> HIDE DEF c
    <3>1. y[i].kind = "chunk" /\ y[i].chunk = c
      BY <3>5 DEF ChunkMessage
    <3>2. /\ y[i].kind = "chunk" /\ y[i].chunk.digest = d /\ y[i].chunk.part = i
          /\ (y[i].chunk.last <=> i = Parts[d])
      BY <3>1, <3>3, <3>4
    <3> QED
      BY <2>4, <3>2 DEF About
  <2>10. y # <<>> /\ DOMAIN y = 1 .. Len(y)
    BY <2>2, <2>4, <2>7
  <2>11. Flows(Pipe, Counts, gaps)
    BY <1>1 DEF PipeInv
  <2>12. ASSUME NEW e \in Digests
         PROVE  Flow(Pipe', e, Counts[e]) /\ (e \notin gaps => Unbroken(Pipe', e, Counts[e]))
    <3> DEFINE n == Counts[e]
               q == Pipe
    <3> HIDE DEF n, q
    <3>1. Flow(q, e, n) /\ (e \notin gaps => Unbroken(q, e, n)) /\ q \in Seq(Message)
      BY <2>8, <2>11 DEF Flows, n, q
    <3>2. CASE e = d
      <4>1. Flow(q \o y, e, n) /\ (Unbroken(q, e, n) => Unbroken(q \o y, e, n))
        BY <2>7, <2>9, <2>10, <3>1, <3>2, FlowAppend
      <4> QED
        BY <2>8, <3>1, <4>1 DEF n, q
    <3>3. CASE e # d
      <4>1. \A i \in DOMAIN y : ~About(y[i], e)
        <5>1. \A i \in DOMAIN y : y[i].kind = "chunk" /\ y[i].chunk.digest = d
          BY <2>9, <2>10
        <5> QED
          BY <3>3, <5>1 DEF About
      <4>2. <<>> \in Seq(Message) /\ q \o <<>> = q
        BY <3>1, ConcatEmptySeq
      <4>3. Flow(q \o <<>>, e, n)
        BY <3>1, <4>2
      <4>4. Flow((q \o y) \o <<>>, e, n) /\ (Unbroken(q \o <<>>, e, n) => Unbroken((q \o y) \o <<>>, e, n))
        BY <2>7, <3>1, <4>1, <4>2, <4>3, FlowInsert
      <4>5. (q \o y) \o <<>> = q \o y
        <5>1. q \o y \in Seq(Message)
          BY <2>7, <3>1, ConcatProperties
        <5> QED
          BY <5>1, ConcatEmptySeq
      <4> QED
        BY <2>8, <3>1, <4>2, <4>4, <4>5 DEF n, q
    <3> QED
      BY <3>2, <3>3
  <2>13. Flows(Pipe', Counts, gaps)
    BY <2>12 DEF Flows
  <2>14. Counts' = Counts /\ gaps' = gaps /\ parts' = parts /\ link' = "up"
    BY <1>1 DEF Counts
  <2> QED
    BY <2>13, <2>14 DEF PipeInv
<1> QED
  BY <1>2, <1>3

LEMMA SendPipe ==
  ASSUME Types, PipeInv, SendSpan \/ SendPeeked \/ Stop \/ \E c \in Range(chunks) : SendChunk(c)
  PROVE  PipeInv'
<1>1. link = "up" /\ UNCHANGED parts
  BY DEF SendSpan, SendPeeked, Stop, SendChunk, SendEvicted, SendLast, Peek, NextChunk, Sending
<1>2. chunks \in Seq(Chunk) /\ wire \in Seq(Message) /\ (peeked = None \/ peeked \in Chunk) /\ None \notin Chunk
  BY NoneIsNone DEF Types, ClientTypes
<1>3. Flows(Pipe, Counts, gaps) /\ Assembled(parts, gaps)
  BY <1>1 DEF PipeInv
<1>4. CASE SendSpan
  <2> DEFINE m == SpanMessage(Head(events))
             x == <<m>>
  <2>1. events # <<>> /\ events \in Seq(Env) /\ wire' = Append(wire, m)
        /\ UNCHANGED <<chunks, peeked, link, gaps>>
    BY <1>4 DEF SendSpan, Send, Types, ClientTypes
  <2>2. m \in Message /\ m.kind = "span"
    <3>1. Head(events) \in Env
      BY <2>1
    <3> QED
      BY <3>1, MessagesTyped DEF SpanMessage
  <2> HIDE DEF m
  <2>3. wire' = wire \o x /\ x \in Seq(Message)
    BY <1>2, <2>1, <2>2, AppendIsConcat
  <2>4. \A i \in DOMAIN x : x[i].kind = "span"
    BY <2>2
  <2> HIDE DEF x
  <2>5. Flows(Pipe, Counts, gaps)'
    BY <1>1, <1>3, <2>1, <2>3, <2>4, PipeSpans
  <2> QED
    BY <1>1, <1>3, <2>1, <2>5 DEF PipeInv
<1>5. CASE Stop
  <2> DEFINE x == [i \in DOMAIN events |-> SpanMessage(events[i])]
  <2>1. events \in Seq(Env) /\ wire' = wire \o x /\ UNCHANGED <<chunks, peeked, gaps>> /\ link' = "stopped"
    BY <1>5 DEF Stop, Types, ClientTypes
  <2>2. x \in [1 .. Len(events) -> Message] /\ Len(events) \in Nat
    BY <2>1, MessagesTyped
  <2>3. x \in Seq(Message) /\ \A i \in DOMAIN x : x[i].kind = "span"
    BY <2>2 DEF SpanMessage
  <2> HIDE DEF x
  <2>4. Flows(Pipe, Counts, gaps)'
    BY <1>1, <1>3, <2>1, <2>3, PipeSpans
  <2> QED
    BY <1>1, <1>3, <2>1, <2>4 DEF PipeInv
<1>6. CASE SendPeeked
  <2>1. /\ peeked \in Chunk /\ peeked # None /\ peeked' = None /\ wire' = Append(wire, ChunkMessage(peeked))
        /\ UNCHANGED <<chunks, link, gaps>>
    BY <1>2, <1>6 DEF SendPeeked, Send
  <2> DEFINE p == <<peeked>>
             q == p \o chunks
  <2>2. p \in Seq(Chunk) /\ Len(p) = 1 /\ p[1] = peeked
    BY <2>1
  <2>3. Waiting = q /\ Waiting' = chunks
    BY <2>1 DEF Waiting, WaitingOf
  <2>4. q \in Seq(Chunk) /\ q # <<>> /\ Head(q) = peeked /\ Tail(q) = chunks
    BY <1>2, <2>1, ConsParts
  <2> HIDE DEF p, q
  <2>5. ChunkMessage(peeked) \in Message
    BY <2>1, MessagesTyped
  <2>6. PipeOf(Append(wire, ChunkMessage(peeked)), chunks) = PipeOf(wire, q)
    BY <1>2, <2>4, <2>5, PipeSend
  <2>7. Pipe' = Pipe
    BY <2>1, <2>3, <2>6 DEF Pipe
  <2> QED
    BY <1>1, <2>1, <2>7, PipeSame
<1>7. ASSUME NEW c \in Range(chunks), SendChunk(c)
      PROVE  PipeInv'
  <2>1. /\ NextChunk(c) /\ link' = link /\ peeked = None /\ chunks # <<>> /\ c = Head(chunks) /\ chunks' = Tail(chunks)
    BY <1>7 DEF SendChunk, SendEvicted, SendLast, Peek, NextChunk
  <2>2. /\ c \in Chunk /\ ChunkMessage(c) \in Message /\ EvictedMessage(c.digest) \in Message /\ c.digest \in Digests
        /\ Tail(chunks) \in Seq(Chunk)
    <3>1. c \in Chunk /\ Tail(chunks) \in Seq(Chunk)
      BY <1>2, <2>1
    <3>2. c.digest \in Digests
      BY <3>1 DEF Chunk
    <3> QED
      BY <3>1, <3>2, MessagesTyped
  <2>3. Waiting = chunks /\ Pipe = PipeOf(wire, chunks)
    BY <2>1 DEF Waiting, WaitingOf, Pipe
  <2>4. CASE SendLast(c)
    <3>1. wire' = Append(wire, ChunkMessage(c)) /\ peeked' = None /\ gaps' = gaps
      BY <2>1, <2>4 DEF SendLast, Send
    <3>2. Pipe' = PipeOf(Append(wire, ChunkMessage(c)), Tail(chunks))
      BY <2>1, <3>1 DEF Pipe, Waiting, WaitingOf
    <3>3. Pipe' = Pipe
      BY <1>2, <2>1, <2>2, <2>3, <3>2, PipeSend
    <3> QED
      BY <1>1, <2>1, <3>1, <3>3, PipeSame
  <2>5. CASE Peek(c)
    <3>1. wire' = wire /\ peeked' = c /\ gaps' = gaps /\ c # None
      BY <1>2, <2>2, <2>5 DEF Peek
    <3>2. Waiting' = <<Head(chunks)>> \o Tail(chunks)
      BY <2>1, <3>1 DEF Waiting, WaitingOf
    <3>3. Pipe' = Pipe
      BY <1>2, <2>1, <2>3, <3>1, <3>2, ConsHead DEF Pipe
    <3> QED
      BY <1>1, <2>1, <3>1, <3>3, PipeSame
  <2>6. CASE SendEvicted(c)
    <3> DEFINE d0 == c.digest
               m == ChunkMessage(c)
               o == EvictedMessage(d0)
               t == Messages(Tail(chunks))
    <3>1. wire' = Append(wire, o) /\ peeked' = None /\ gaps' = gaps \cup {d0}
      BY <2>1, <2>6 DEF SendEvicted, Send
    <3>2. Pipe' = PipeOf(Append(wire, o), Tail(chunks))
      BY <2>1, <3>1 DEF Pipe, Waiting, WaitingOf
    <3>3. Pipe = (wire \o <<m>>) \o t /\ Pipe' = (wire \o <<o>>) \o t
      BY <1>2, <2>1, <2>2, <2>3, <3>2, PipeSend
    <3>4. m \in Message /\ o \in Message /\ t \in Seq(Message)
      BY <2>2, MessagesOf
    <3>5. m.kind = "chunk" /\ o = EvictedMessage(m.chunk.digest) /\ m.chunk.digest = d0
      BY DEF ChunkMessage
    <3> HIDE DEF m, o, t
    <3>6. /\ Pipe \in Seq(Message) /\ Pipe' \in Seq(Message) /\ Len(Pipe') = Len(Pipe)
          /\ \A i \in 1 .. Len(Pipe) : Pipe'[i] = Pipe[i] \/ (Pipe[i] = m /\ Pipe'[i] = o)
      BY <1>2, <3>3, <3>4, OneReplaced
    <3> DEFINE q == Pipe
               r == Pipe'
    <3>7. ASSUME NEW e \in Digests
          PROVE  Flow(r, e, Counts[e]) /\ (e \notin gaps' => Unbroken(r, e, Counts[e]))
      <4> DEFINE n == Counts[e]
      <4> HIDE DEF n, q, r
      <4>1. Flow(q, e, n) /\ (e \notin gaps => Unbroken(q, e, n))
        BY <1>3 DEF Flows, n, q
      <4>2. q \in Seq(Message) /\ r \in Seq(Message) /\ Len(q) = Len(r)
        BY <3>6 DEF q, r
      <4>3. \A i \in 1 .. Len(q) : r[i] = q[i] \/ (q[i] = m /\ r[i] = o)
        BY <3>6 DEF q, r
      <4>4. \A i \in 1 .. Len(q) : r[i] = q[i] \/ (q[i].kind = "chunk" /\ r[i] = EvictedMessage(q[i].chunk.digest))
        BY <3>5, <4>3
      <4>5. e # d0 => \A i \in 1 .. Len(q) : About(r[i], e) => r[i] = q[i]
        <5>1. o.kind = "evicted" /\ o.digest = d0
          BY DEF o, EvictedMessage
        <5> QED
          BY <4>3, <5>1 DEF About
      <4>6. /\ Flow(r, e, n)
            /\ Unbroken(q, e, n) /\ (\A i \in 1 .. Len(q) : About(r[i], e) => r[i] = q[i]) => Unbroken(r, e, n)
        BY <4>1, <4>2, <4>4, FlowReplace
      <4>7. e \notin gaps' => e \notin gaps /\ e # d0
        BY <3>1
      <4> QED
        BY <4>1, <4>5, <4>6, <4>7 DEF n, q, r
    <3>8. Counts' = Counts /\ parts' = parts /\ link' = "up"
      BY <1>1, <2>1 DEF Counts
    <3>9. Flows(Pipe', Counts, gaps')
      BY <3>7 DEF Flows
    <3>10. Assembled(parts, gaps')
      BY <1>3, <3>1 DEF Assembled
    <3> QED
      BY <3>8, <3>9, <3>10 DEF PipeInv
  <2> QED
    BY <1>7, <2>4, <2>5, <2>6 DEF SendChunk
<1> QED
  BY <1>4, <1>5, <1>6, <1>7

LEMMA EndPipe == StreamEnds => PipeInv'
<1> SUFFICES ASSUME StreamEnds PROVE PipeInv'
  OBVIOUS
<1>1. wire' = <<>> /\ link' = "down" /\ parts' = [d \in Digests |-> <<>>]
  BY DEF StreamEnds
<1>2. ASSUME NEW d \in Digests
      PROVE  Len(parts'[d]) = 0 /\ Parts[d] \in Nat \ {0}
  BY <1>1, PartsAssumption
<1>3. Assembled(parts', gaps')
  BY <1>2 DEF Assembled
<1> QED
  BY <1>1, <1>3 DEF PipeInv

LEMMA ReceivePipe ==
  ASSUME Types, PipeInv, wire # <<>>, wire' = Tail(wire), UNCHANGED <<chunks, peeked, gaps, link>>,
         \A e \in Digests : Len(parts'[e]) = IF About(Head(wire), e) THEN Taken(Head(wire), Len(parts[e])) ELSE Len(parts[e])
  PROVE  /\ (link' = "down" => wire' = <<>>) /\ (link' # "down" => Flows(Pipe, Counts, gaps)')
         /\ \A e \in Digests : About(Head(wire), e) =>
              /\ Head(wire).kind = "chunk" => Len(parts[e]) < Head(wire).chunk.part
              /\ e \notin gaps => Head(wire).kind = "chunk" /\ Head(wire).chunk.part = Len(parts[e]) + 1
<1> DEFINE m == Head(wire)
           q == Pipe
<1>1. link # "down" /\ Flows(q, Counts, gaps)
  BY DEF PipeInv
<1>2. q # <<>> /\ q \in Seq(Message) /\ Head(q) = m /\ Tail(q) = Pipe'
  <2>1. Waiting' = Waiting
    BY DEF Waiting
  <2>2. Waiting \in Seq(Chunk) /\ wire \in Seq(Message)
    BY PipeTyped
  <2> QED
    BY <2>1, <2>2, PipeReceive DEF Pipe
<1> HIDE DEF m, q
<1>3. ASSUME NEW e \in Digests
      PROVE  /\ Flow(Pipe', e, Counts'[e]) /\ (e \notin gaps => Unbroken(Pipe', e, Counts'[e]))
             /\ About(m, e) => /\ m.kind = "chunk" => Len(parts[e]) < m.chunk.part
                               /\ e \notin gaps => m.kind = "chunk" /\ m.chunk.part = Len(parts[e]) + 1
  <2> DEFINE n == Len(parts[e])
  <2>1. n \in Nat
    BY DEF Types, ServerTypes
  <2>2. Counts[e] = n /\ Counts'[e] = IF About(m, e) THEN Taken(m, n) ELSE n
    BY DEF Counts, m
  <2> HIDE DEF n
  <2>3. Flow(q, e, n) /\ (e \notin gaps => Unbroken(q, e, n))
    BY <1>1, <2>2 DEF Flows
  <2>4. CASE About(m, e)
    <3>1. About(Head(q), e)
      BY <1>2, <2>4
    <3>2. /\ Head(q).kind = "chunk" => n < Head(q).chunk.part
          /\ Flow(Tail(q), e, Taken(Head(q), n))
          /\ Unbroken(q, e, n) => /\ Head(q).kind = "chunk" /\ Head(q).chunk.part = n + 1
                                  /\ Unbroken(Tail(q), e, Taken(Head(q), n))
      BY <1>2, <2>1, <2>3, <3>1, FlowHead
    <3> QED
      BY <1>2, <2>2, <2>3, <2>4, <3>2 DEF n
  <2>5. CASE ~About(m, e)
    <3>1. ~About(Head(q), e)
      BY <1>2, <2>5
    <3>2. Flow(Tail(q), e, n) /\ (Unbroken(q, e, n) => Unbroken(Tail(q), e, n))
      BY <1>2, <2>3, <3>1, FlowTail
    <3> QED
      BY <1>2, <2>2, <2>3, <2>5, <3>2
  <2> QED
    BY <2>4, <2>5
<1>4. Flows(Pipe', Counts', gaps')
  BY <1>3 DEF Flows
<1> QED
  BY <1>1, <1>3, <1>4 DEF m

LEMMA HandlePipe ==
  ASSUME Types, PipeInv, Handle
  PROVE  PipeInv'
<1>1. wire \in Seq(Message) /\ parts \in [Digests -> Seq(Nat)] /\ Assembled(parts, gaps)
  BY DEF Types, ClientTypes, ServerTypes, PipeInv
<1>2. CASE SpanStart \/ SpanEnd
  <2>1. wire # <<>> /\ wire' = Tail(wire) /\ Head(wire).kind = "span"
        /\ UNCHANGED <<chunks, peeked, gaps, link, parts>>
    BY <1>2 DEF SpanStart, SpanEnd, Receive, client
  <2>2. \A e \in Digests : ~About(Head(wire), e)
    BY <2>1 DEF About
  <2>3. (link' = "down" => wire' = <<>>) /\ (link' # "down" => Flows(Pipe, Counts, gaps)')
    BY <2>1, <2>2, ReceivePipe
  <2>4. Assembled(parts', gaps')
    BY <1>1, <2>1
  <2> QED
    BY <2>3, <2>4 DEF PipeInv
<1>3. CASE AppendSpan
  <2>1. UNCHANGED <<chunks, peeked, gaps, link, parts, wire>>
    BY <1>3 DEF AppendSpan, client
  <2>2. Pipe' = Pipe
    BY <2>1 DEF Pipe, Waiting
  <2> QED
    BY <2>1, <2>2, PipeSame DEF PipeInv
<1>4. CASE PayloadEvicted \/ PayloadChunk \/ PayloadLast
  <2> DEFINE m == Head(wire)
             d == IF m.kind = "chunk" THEN m.chunk.digest ELSE m.digest
             n == Len(parts[d])
  <2>1. /\ wire # <<>> /\ wire' = Tail(wire) /\ UNCHANGED <<chunks, peeked, gaps, link>>
        /\ m.kind = IF PayloadEvicted THEN "evicted" ELSE "chunk"
        /\ (PayloadChunk => ~m.chunk.last) /\ (~PayloadEvicted /\ ~PayloadChunk => m.chunk.last)
    BY <1>4 DEF PayloadEvicted, PayloadChunk, PayloadLast, Receive, client
  <2>2. m \in Message /\ (m.kind = "chunk" => m.chunk \in Chunk) /\ d \in Digests
    <3>1. m \in Message
      BY <1>1, <2>1
    <3> QED
      BY <2>1, <3>1, MessageKinds DEF Chunk
  <2>3. parts' = [parts EXCEPT ![d] = IF PayloadChunk THEN Append(parts[d], m.chunk.part) ELSE <<>>]
    <3>1. CASE PayloadEvicted
      <4>1. m.kind = "evicted"
        BY <2>1, <3>1
      <4>2. ~PayloadChunk
        BY <4>1 DEF PayloadChunk, Receive
      <4>3. parts' = [parts EXCEPT ![m.digest] = <<>>]
        BY <3>1 DEF PayloadEvicted
      <4> QED
        BY <4>1, <4>2, <4>3
    <3>2. CASE PayloadChunk
      <4>1. m.kind = "chunk"
        BY <3>2 DEF PayloadChunk, Receive
      <4>2. parts' = [parts EXCEPT ![m.chunk.digest] = Append(@, m.chunk.part)]
        BY <3>2 DEF PayloadChunk
      <4> QED
        BY <3>2, <4>1, <4>2
    <3>3. CASE PayloadLast
      <4>1. m.kind = "chunk" /\ m.chunk.last
        BY <3>3 DEF PayloadLast, Receive
      <4>2. ~PayloadChunk
        BY <4>1 DEF PayloadChunk
      <4>3. parts' = [parts EXCEPT ![m.chunk.digest] = <<>>]
        BY <3>3 DEF PayloadLast
      <4> QED
        BY <4>1, <4>2, <4>3
    <3> QED
      BY <1>4, <3>1, <3>2, <3>3
  <2>4. \A e : About(m, e) <=> e = d
    BY <2>1 DEF About
  <2>5. m.kind = "chunk" => m.chunk.part \in Nat \ {0}
    BY <2>2 DEF Chunk
  <2>6. PayloadChunk => m.kind = "chunk" /\ ~m.chunk.last
    BY DEF PayloadChunk, Receive
  <2>7. ~PayloadChunk => Taken(m, n) = 0
    BY <2>1 DEF Taken
  <2>8. PayloadChunk => Taken(m, n) = n + 1
    BY <2>6 DEF Taken
  <2> HIDE DEF m, d
  <2>9. ASSUME NEW e \in Digests
        PROVE  parts'[e] = IF e = d THEN IF PayloadChunk THEN Append(parts[d], m.chunk.part) ELSE <<>> ELSE parts[e]
    BY <1>1, <2>2, <2>3
  <2>10. parts[d] \in Seq(Nat) /\ n \in Nat
    BY <1>1, <2>2
  <2>11. PayloadChunk => Len(Append(parts[d], m.chunk.part)) = n + 1
    BY <2>5, <2>6, <2>10, AppendProperties
  <2>12. \A e \in Digests : Len(parts'[e]) = IF About(m, e) THEN Taken(m, Len(parts[e])) ELSE Len(parts[e])
    <3> TAKE e \in Digests
    <3>1. CASE e = d /\ PayloadChunk
      BY <2>4, <2>8, <2>9, <2>11, <3>1
    <3>2. CASE e = d /\ ~PayloadChunk
      BY <2>4, <2>7, <2>9, <3>2
    <3>3. CASE e # d
      BY <2>4, <2>9, <3>3
    <3> QED
      BY <3>1, <3>2, <3>3
  <2>13. /\ (link' = "down" => wire' = <<>>) /\ (link' # "down" => Flows(Pipe, Counts, gaps)')
         /\ \A e \in Digests : About(Head(wire), e) =>
              /\ Head(wire).kind = "chunk" => Len(parts[e]) < Head(wire).chunk.part
              /\ e \notin gaps => Head(wire).kind = "chunk" /\ Head(wire).chunk.part = Len(parts[e]) + 1
    BY <2>1, <2>12, ReceivePipe DEF m
  <2>14. /\ m.kind = "chunk" => n < m.chunk.part
         /\ d \notin gaps => m.kind = "chunk" /\ m.chunk.part = n + 1
    BY <2>2, <2>4, <2>13 DEF m
  <2>15. ASSUME NEW e \in Digests
         PROVE  /\ Len(parts'[e]) < Parts[e]
                /\ e \notin gaps' => \A i \in 1 .. Len(parts'[e]) : parts'[e][i] = i
    <3>1. gaps' = gaps /\ Parts[e] \in Nat \ {0}
      BY <2>1, PartsAssumption
    <3>2. CASE e # d
      BY <1>1, <2>9, <3>1, <3>2 DEF Assembled
    <3>3. CASE e = d /\ ~PayloadChunk
      BY <2>9, <3>1, <3>3
    <3>4. CASE e = d /\ PayloadChunk
      <4> DEFINE p == m.chunk.part
                 s == Append(parts[d], p)
      <4>1. p \in Nat \ {0} /\ p <= Parts[d] /\ p # Parts[d] /\ n < p /\ parts'[e] = s
        BY <2>2, <2>6, <2>9, <2>14, <3>4 DEF Chunk, d
      <4>2. Len(s) = n + 1 /\ (\A i \in 1 .. n : s[i] = parts[d][i]) /\ s[n + 1] = p
        BY <2>10, <4>1, AppendProperties
      <4>3. Len(s) < Parts[e]
        BY <2>10, <3>1, <3>4, <4>1, <4>2
      <4>4. ASSUME e \notin gaps, NEW i \in 1 .. n + 1
            PROVE  s[i] = i
        <5>1. CASE i = n + 1
          BY <2>14, <3>4, <4>2, <4>4, <5>1
        <5>2. CASE i # n + 1
          <6>1. i \in 1 .. n
            BY <2>10, <5>2
          <6>2. parts[d][i] = i
            BY <1>1, <2>2, <3>4, <4>4, <6>1 DEF Assembled
          <6> QED
            BY <4>2, <6>1, <6>2
        <5> QED
          BY <5>1, <5>2
      <4> QED
        BY <3>1, <4>1, <4>2, <4>3, <4>4
    <3> QED
      BY <3>2, <3>3, <3>4
  <2>16. Assembled(parts', gaps')
    BY <2>15 DEF Assembled
  <2> QED
    BY <2>13, <2>16 DEF PipeInv
<1>5. CASE PayloadMismatch
  BY <1>5, EndPipe DEF PayloadMismatch
<1> QED
  BY <1>2, <1>3, <1>4, <1>5 DEF Handle

LEMMA NextPipe == Types /\ PipeInv /\ [Next]_vars => PipeInv'
<1> SUFFICES ASSUME Types, PipeInv, [Next]_vars PROVE PipeInv'
  OBVIOUS
<1>1. ASSUME UNCHANGED <<client, link, wire, parts, gaps>>
      PROVE  PipeInv'
  <2>1. Pipe' = Pipe
    BY <1>1 DEF client, Pipe, Waiting
  <2> QED
    BY <1>1, <2>1, PipeSame DEF PipeInv
<1>2. CASE UNCHANGED vars
  BY <1>1, <1>2 DEF vars
<1>3. CASE Next
  <2>1. CASE \E x \in Spans : \E d \in Digests : EmitSpan(x, d)
    BY <2>1, EmitPipe
  <2>2. CASE SendSpan \/ SendPeeked \/ Stop \/ \E c \in Range(chunks) : SendChunk(c)
    BY <2>2, SendPipe
  <2>3. CASE Disconnect
    BY <2>3, EndPipe DEF Disconnect
  <2>4. CASE Handle
    BY <2>4, HandlePipe
  <2>5. CASE \E s \in Sessions : \/ SessionOver(s) \/ SweepDeletes(s)
                                 \/ \E force \in BOOLEAN : DeleteRequested(s, force)
    <3>1. PICK s \in Sessions : \/ SessionOver(s) \/ SweepDeletes(s)
                                \/ \E force \in BOOLEAN : DeleteRequested(s, force)
      BY <2>5
    <3>2. UNCHANGED <<client, link, wire, parts, gaps>>
      BY <3>1 DEF SessionOver, SweepDeletes, DeleteSession, DeleteRequested, Begin
    <3> QED
      BY <1>1, <3>2
  <2>6. CASE (\E ss \in SUBSET Sessions : SweepLists(ss)) \/ DeleteRuns \/ GcPayloads
    <3>1. UNCHANGED <<client, link, wire, parts, gaps>>
      BY <2>6 DEF SweepLists, Begin, DeleteRuns, DeleteSession, GcPayloads
    <3> QED
      BY <1>1, <3>1
  <2> QED
    BY <1>3, <2>1, <2>2, <2>3, <2>4, <2>5, <2>6 DEF Next
<1> QED
  BY <1>2, <1>3

LEMMA PipeImplies == Types /\ PipeInv => PayloadsWhole
<1> SUFFICES ASSUME Types, PipeInv PROVE PayloadsWhole
  OBVIOUS
<1>1. ASSUME NEW d \in Digests
      PROVE  /\ parts[d] \in Seq(Nat) /\ Len(parts[d]) \in Nat /\ Parts[d] \in Nat /\ Len(parts[d]) < Parts[d]
             /\ d \notin gaps => \A i \in 1 .. Len(parts[d]) : parts[d][i] = i
             /\ Whole(d) \in Seq(Nat) /\ Len(Whole(d)) = Parts[d] /\ \A i \in 1 .. Parts[d] : Whole(d)[i] = i
  <2>1. parts[d] \in Seq(Nat) /\ Parts[d] \in Nat
    BY PartsAssumption DEF Types, ServerTypes
  <2>2. /\ Len(parts[d]) < Parts[d]
        /\ d \notin gaps => \A i \in 1 .. Len(parts[d]) : parts[d][i] = i
    BY DEF PipeInv, Assembled
  <2>3. Whole(d) \in [1 .. Parts[d] -> Nat]
    BY DEF Whole
  <2>4. Whole(d) \in Seq(Nat) /\ Len(Whole(d)) = Parts[d] /\ \A i \in 1 .. Parts[d] : Whole(d)[i] = i
    BY <2>1, <2>3 DEF Whole
  <2> QED
    BY <2>1, <2>2, <2>4
<1>2. ASSUME NEW d \in Digests, d \notin gaps
      PROVE  parts[d] = SubSeq(Whole(d), 1, Len(parts[d]))
  <2> DEFINE n == Len(parts[d])
             w == Whole(d)
             s == SubSeq(w, 1, n)
  <2>1. w \in Seq(Nat) /\ n \in Nat /\ n <= Len(w) /\ parts[d] \in Seq(Nat)
        /\ \A i \in 1 .. n : parts[d][i] = i /\ w[i] = i
    BY <1>1, <1>2
  <2> HIDE DEF w
  <2>2. s \in Seq(Nat) /\ Len(s) = n /\ \A i \in 1 .. n : s[i] = w[i]
    BY <2>1
  <2> HIDE DEF s
  <2>3. \A i \in 1 .. Len(parts[d]) : parts[d][i] = s[i]
    BY <2>1, <2>2
  <2>4. parts[d] = s
    BY <2>1, <2>2, <2>3, SeqEqual
  <2> QED
    BY <2>4 DEF s, w
<1>3. AssemblersWhole
  BY <1>1, <1>2 DEF AssemblersWhole
<1>4. ASSUME wire # <<>>, Head(wire).kind = "chunk", Mismatch(Head(wire).chunk), Head(wire).chunk.digest \notin gaps
      PROVE  FALSE
  <2> DEFINE c == Head(wire).chunk
             d == c.digest
             p == parts[d]
             n == Len(p)
             w == Whole(d)
             q == Pipe
  <2>1. wire \in Seq(Message) /\ Waiting \in Seq(Chunk)
    BY PipeTyped
  <2>2. Head(wire) \in Message
    BY <1>4, <2>1
  <2>3. c \in Chunk /\ d \in Digests /\ d \notin gaps
    BY <1>4, <2>2, MessageKinds DEF Chunk
  <2>4. q # <<>> /\ q \in Seq(Message) /\ Head(q) = Head(wire)
    BY <1>4, <2>1, PipeReceive DEF Pipe
  <2>5. About(Head(wire), d)
    BY <1>4 DEF About
  <2>6. Flow(q, d, n) /\ Unbroken(q, d, n) /\ n \in Nat
    <3>1. Flows(q, Counts, gaps) /\ Counts[d] = n
      BY <1>4, <2>3 DEF PipeInv, Counts
    <3> QED
      BY <1>1, <2>3, <3>1 DEF Flows
  <2>7. c.last /\ Append(p, c.part) # w
    BY <1>4 DEF Mismatch
  <2>8. c.part = Parts[d] /\ c.part \in Nat
    BY <2>3, <2>7 DEF Chunk
  <2>9. c.part = n + 1
    <3> HIDE DEF q, n, d
    <3>1. About(Head(q), d)
      BY <2>4, <2>5
    <3>2. Head(q).chunk.part = n + 1
      BY <2>4, <2>6, <3>1, FlowHead
    <3> QED
      BY <2>4, <3>2
  <2>10. /\ p \in Seq(Nat) /\ (\A i \in 1 .. n : p[i] = i)
         /\ w \in Seq(Nat) /\ Len(w) = n + 1 /\ \A i \in 1 .. n + 1 : w[i] = i
    BY <1>1, <2>3, <2>8, <2>9
  <2> DEFINE a == Append(p, c.part)
  <2> HIDE DEF w, p, c
  <2>11. a \in Seq(Nat) /\ Len(a) = n + 1 /\ (\A i \in 1 .. n : a[i] = p[i]) /\ a[n + 1] = n + 1
    BY <2>8, <2>9, <2>10, AppendProperties
  <2> HIDE DEF a
  <2>12. ASSUME NEW i \in 1 .. Len(a)
         PROVE  a[i] = w[i]
    <3>1. CASE i = n + 1
      BY <2>10, <2>11, <3>1
    <3>2. CASE i # n + 1
      <4>1. i \in 1 .. n /\ i \in 1 .. n + 1
        BY <2>6, <2>11, <3>2
      <4>2. a[i] = p[i] /\ p[i] = i
        BY <2>10, <2>11, <4>1
      <4>3. w[i] = i
        BY <2>10, <4>1
      <4> QED
        BY <4>2, <4>3
    <3> QED
      BY <3>1, <3>2
  <2>13. a = w
    BY <2>10, <2>11, <2>12, SeqEqual
  <2> QED
    BY <2>7, <2>13 DEF a
<1>5. RefusedWasEvicted
  BY <1>4 DEF RefusedWasEvicted
<1> QED
  BY <1>3, <1>5 DEF PayloadsWhole

(* The server puts a payload together from its first chunk on, and refuses *)
(* one only after the client has told of its eviction (_handle_payload).   *)
THEOREM PayloadsAreWhole == Spec => []PayloadsWhole
<1> QED
  BY InitIInv, NextIInv, InitTypes, NextTypes, InitPipe, NextPipe, PipeImplies, PTL DEF Spec

-----------------------------------------------------------------------------
(* The payloads of the spans.  As long as the stream is up and nothing is  *)
(* deleted, a payload that something names is stored, or its last chunk is *)
(* still to come, unless it is too big or told of as evicted.              *)
Named(d) ==
  \/ \E e \in Range(events) : e.digest = d
  \/ \E m \in Range(wire) : m.kind = "span" /\ m.envelope.digest = d
  \/ handler.at = "append" /\ handler.envelope.digest = d
  \/ \E x \in DOMAIN refs : refs[x] = d
Coming(d) ==
  \/ \E m \in Range(wire) : m.kind = "chunk" /\ m.chunk.last /\ m.chunk.digest = d
  \/ \E c \in Range(chunks) : c.last /\ c.digest = d
Settled(d) == TooBig(d) \/ d \in stored \cup gaps \/ Coming(d)

FoundInv ==
  cleanups = 0 =>
    /\ deletion = Idle /\ sweep = {}
    /\ link = "up" => \A d \in Digests : Named(d) => Settled(d)

LEMMA RangeAppend ==
  ASSUME NEW S, NEW s \in Seq(S), NEW e \in S
  PROVE  Range(Append(s, e)) = Range(s) \cup {e}
<1> DEFINE a == Append(s, e)
<1>1. /\ DOMAIN s = 1 .. Len(s) /\ Len(s) \in Nat /\ DOMAIN a = 1 .. Len(s) + 1
      /\ a[Len(s) + 1] = e /\ \A i \in 1 .. Len(s) : a[i] = s[i]
  BY AppendProperties
<1> HIDE DEF a
<1>2. \A v : v \in Range(a) <=> \E i \in 1 .. Len(s) + 1 : a[i] = v
  BY <1>1 DEF Range
<1>3. \A v : v \in Range(s) <=> \E i \in 1 .. Len(s) : s[i] = v
  BY <1>1 DEF Range
<1>4. ASSUME NEW v \in Range(a)
      PROVE  v \in Range(s) \cup {e}
  <2>1. PICK i \in 1 .. Len(s) + 1 : a[i] = v
    BY <1>2
  <2>2. i = Len(s) + 1 \/ i \in 1 .. Len(s)
    BY <1>1
  <2> QED
    BY <1>1, <1>3, <2>1, <2>2
<1>5. ASSUME NEW v \in Range(s) \cup {e}
      PROVE  v \in Range(a)
  <2>1. CASE v = e
    <3>1. Len(s) + 1 \in 1 .. Len(s) + 1
      BY <1>1
    <3> QED
      BY <1>1, <1>2, <2>1, <3>1
  <2>2. CASE v \in Range(s)
    <3>1. PICK i \in 1 .. Len(s) : s[i] = v
      BY <1>3, <2>2
    <3>2. i \in 1 .. Len(s) + 1
      BY <1>1
    <3> QED
      BY <1>1, <1>2, <3>1, <3>2
  <2> QED
    BY <2>1, <2>2
<1>6. Range(a) = Range(s) \cup {e}
  BY <1>4, <1>5
<1> QED
  BY <1>6 DEF a

LEMMA RangeTail ==
  ASSUME NEW S, NEW s \in Seq(S), s # <<>>
  PROVE  Range(s) = {Head(s)} \cup Range(Tail(s))
<1> DEFINE t == Tail(s)
<1>1. /\ DOMAIN s = 1 .. Len(s) /\ Len(s) \in Nat \ {0} /\ DOMAIN t = 1 .. Len(s) - 1
      /\ Head(s) = s[1] /\ \A i \in 1 .. Len(s) - 1 : t[i] = s[i + 1]
  BY HeadTailProperties
<1> HIDE DEF t
<1>2. \A v : v \in Range(t) <=> \E i \in 1 .. Len(s) - 1 : t[i] = v
  BY <1>1 DEF Range
<1>3. \A v : v \in Range(s) <=> \E i \in 1 .. Len(s) : s[i] = v
  BY <1>1 DEF Range
<1>4. ASSUME NEW v \in Range(s)
      PROVE  v \in {Head(s)} \cup Range(t)
  <2>1. PICK i \in 1 .. Len(s) : s[i] = v
    BY <1>3
  <2>2. CASE i = 1
    BY <1>1, <2>1, <2>2
  <2>3. CASE i # 1
    <3>1. PICK k \in Int : k = i - 1
      BY <1>1
    <3>2. k \in 1 .. Len(s) - 1 /\ k + 1 = i
      BY <1>1, <2>3, <3>1
    <3> QED
      BY <1>1, <1>2, <2>1, <3>2
  <2> QED
    BY <2>2, <2>3
<1>5. ASSUME NEW v \in {Head(s)} \cup Range(t)
      PROVE  v \in Range(s)
  <2>1. CASE v = Head(s)
    <3>1. 1 \in 1 .. Len(s)
      BY <1>1
    <3> QED
      BY <1>1, <1>3, <2>1, <3>1
  <2>2. CASE v \in Range(t)
    <3>1. PICK i \in 1 .. Len(s) - 1 : t[i] = v
      BY <1>2, <2>2
    <3>2. i + 1 \in 1 .. Len(s)
      BY <1>1
    <3> QED
      BY <1>1, <1>3, <3>1, <3>2
  <2> QED
    BY <2>1, <2>2
<1>6. Range(s) = {Head(s)} \cup Range(t)
  BY <1>4, <1>5
<1> QED
  BY <1>6 DEF t

LEMMA RangeConcat ==
  ASSUME NEW S, NEW s \in Seq(S), NEW t \in Seq(S)
  PROVE  Range(s) \subseteq Range(s \o t) /\ Range(t) \subseteq Range(s \o t)
<1> DEFINE a == s \o t
<1>1. /\ a \in Seq(S) /\ Len(a) = Len(s) + Len(t)
      /\ \A i \in 1 .. Len(s) + Len(t) : a[i] = IF i <= Len(s) THEN s[i] ELSE t[i - Len(s)]
  BY ConcatProperties
<1>2. /\ DOMAIN s = 1 .. Len(s) /\ DOMAIN t = 1 .. Len(t) /\ Len(s) \in Nat /\ Len(t) \in Nat
  OBVIOUS
<1> HIDE DEF a
<1>3. DOMAIN a = 1 .. Len(s) + Len(t)
  BY <1>1
<1>4. ASSUME NEW i \in 1 .. Len(s)
      PROVE  s[i] \in Range(a)
  <2>1. i \in 1 .. Len(s) + Len(t) /\ a[i] = s[i]
    BY <1>1, <1>2
  <2> QED
    BY <1>3, <2>1 DEF Range
<1>5. ASSUME NEW i \in 1 .. Len(t)
      PROVE  t[i] \in Range(a)
  <2>1. PICK k \in Int : k = i + Len(s)
    BY <1>2
  <2>2. k \in 1 .. Len(s) + Len(t) /\ ~(k <= Len(s)) /\ k - Len(s) = i
    BY <1>2, <2>1
  <2>3. a[k] = t[i]
    BY <1>1, <2>2
  <2> QED
    BY <1>3, <2>2, <2>3 DEF Range
<1>6. Range(s) \subseteq Range(a) /\ Range(t) \subseteq Range(a)
  BY <1>2, <1>4, <1>5 DEF Range
<1> QED
  BY <1>6 DEF a

LEMMA InitFound == Init => FoundInv
BY DEF Init, FoundInv, Named, Range, Idle

LEMMA EmitFound ==
  ASSUME Types, FoundInv, NEW x \in Spans, NEW d \in Digests, EmitSpan(x, d)
  PROVE  FoundInv'
<1> SUFFICES ASSUME cleanups' = 0, link' = "up"
             PROVE  /\ deletion' = Idle /\ sweep' = {}
                    /\ \A e \in Digests : Named(e)' => Settled(e)'
  <2>1. UNCHANGED <<cleanups, deletion, sweep>>
    BY DEF EmitSpan, cleaning
  <2> QED
    BY <2>1 DEF FoundInv
<1> DEFINE v == Envelope(x, emitted[x] = "new", d)
<1>1. /\ UNCHANGED <<cleanups, deletion, sweep, link, wire, handler, refs, stored, gaps>>
      /\ events' = Append(events, v) /\ chunks' = IF TooBig(d) THEN chunks ELSE chunks \o ChunksOf(d)
  BY DEF EmitSpan, cleaning, store
<1>2. v \in Env /\ v.digest = d
  BY DEF Envelope, Env, TooBig
<1> HIDE DEF v
<1>3. Range(events') = Range(events) \cup {v}
  BY <1>1, <1>2, RangeAppend DEF Types, ClientTypes
<1>4. Range(chunks) \subseteq Range(chunks') /\ (~TooBig(d) => \E c \in Range(chunks') : c.last /\ c.digest = d)
  <2>1. CASE TooBig(d)
    BY <1>1, <2>1
  <2>2. CASE ~TooBig(d)
    <3> DEFINE cs == ChunksOf(d)
               k == Parts[d]
               l == [digest |-> d, part |-> k, last |-> k = Parts[d]]
    <3>1. cs \in Seq(Chunk) /\ chunks \in Seq(Chunk) /\ chunks' = chunks \o cs
      BY <1>1, <2>2, ChunksOfTyped DEF Types, ClientTypes
    <3>2. k \in DOMAIN cs /\ cs[k] = l
      BY ChunksOfTyped
    <3>3. l.last /\ l.digest = d
      OBVIOUS
    <3> HIDE DEF cs, l, k
    <3>4. Range(chunks) \subseteq Range(chunks') /\ Range(cs) \subseteq Range(chunks')
      BY <3>1, RangeConcat
    <3>5. l \in Range(cs)
      BY <3>2 DEF Range
    <3> QED
      BY <3>3, <3>4, <3>5
  <2> QED
    BY <2>1, <2>2
<1>5. ASSUME NEW e \in Digests, Settled(e)
      PROVE  Settled(e)'
  BY <1>1, <1>4, <1>5 DEF Settled, Coming, TooBig
<1>6. Settled(d)'
  BY <1>4 DEF Settled, Coming, TooBig
<1>7. ASSUME NEW e \in Digests, Named(e)'
      PROVE  Named(e) \/ e = d
  BY <1>1, <1>2, <1>3, <1>7 DEF Named
<1> QED
  BY <1>1, <1>5, <1>6, <1>7 DEF FoundInv

LEMMA OtherFound ==
  ASSUME Types, FoundInv,
         UNCHANGED <<cleanups, deletion, sweep>>, link' = "up" => link = "up",
         link' = "up" /\ cleanups = 0 => \A d \in Digests : (Named(d)' => Named(d)) /\ (Settled(d) => Settled(d)')
  PROVE  FoundInv'
BY DEF FoundInv

LEMMA SendFound ==
  ASSUME Types, FoundInv, SendSpan \/ SendPeeked \/ \E c \in Range(chunks) : SendChunk(c)
  PROVE  FoundInv'
<1>1. wire \in Seq(Message) /\ events \in Seq(Env) /\ chunks \in Seq(Chunk)
      /\ (peeked = None \/ (peeked \in Chunk /\ ~peeked.last))
  BY DEF Types, ClientTypes
<1>2. CASE SendSpan
  <2> DEFINE m == SpanMessage(Head(events))
  <2>1. /\ UNCHANGED <<cleanups, deletion, sweep, link, chunks, handler, refs, stored, gaps>>
        /\ events # <<>> /\ events' = Tail(events) /\ wire' = Append(wire, m)
    BY <1>2 DEF SendSpan, Send, store, cleaning
  <2>2. m \in Message /\ m.kind = "span" /\ m.envelope = Head(events)
    <3>1. Head(events) \in Env
      BY <1>1, <2>1
    <3> QED
      BY <3>1, MessagesTyped DEF SpanMessage
  <2> HIDE DEF m
  <2>3. Range(wire') = Range(wire) \cup {m} /\ Range(events) = {Head(events)} \cup Range(events')
    BY <1>1, <2>1, <2>2, RangeAppend, RangeTail
  <2>4. ASSUME NEW d \in Digests
        PROVE  (Named(d)' => Named(d)) /\ (Settled(d) => Settled(d)')
    BY <2>1, <2>2, <2>3 DEF Named, Settled, Coming, TooBig
  <2> QED
    BY <2>1, <2>4, OtherFound
<1>3. CASE SendPeeked
  <2> DEFINE m == ChunkMessage(peeked)
  <2>1. /\ UNCHANGED <<cleanups, deletion, sweep, link, chunks, events, handler, refs, stored, gaps>>
        /\ peeked # None /\ wire' = Append(wire, m)
    BY <1>3 DEF SendPeeked, Send, store, cleaning
  <2>2. m \in Message /\ m.kind = "chunk"
    BY <1>1, <2>1, MessagesTyped DEF ChunkMessage
  <2> HIDE DEF m
  <2>3. Range(wire') = Range(wire) \cup {m}
    BY <1>1, <2>1, <2>2, RangeAppend
  <2>4. ASSUME NEW d \in Digests
        PROVE  (Named(d)' => Named(d)) /\ (Settled(d) => Settled(d)')
    BY <2>1, <2>2, <2>3 DEF Named, Settled, Coming, TooBig
  <2> QED
    BY <2>1, <2>4, OtherFound
<1>4. ASSUME NEW c \in Range(chunks), SendChunk(c)
      PROVE  FoundInv'
  <2>1. /\ UNCHANGED <<cleanups, deletion, sweep, link, events, handler, refs, stored>>
        /\ chunks # <<>> /\ c = Head(chunks) /\ chunks' = Tail(chunks)
    BY <1>4 DEF SendChunk, SendEvicted, SendLast, Peek, NextChunk, store, cleaning
  <2>2. c \in Chunk /\ c.digest \in Digests
    <3>1. c \in Chunk
      BY <1>1, <2>1
    <3> QED
      BY <3>1 DEF Chunk
  <2>3. Range(chunks) = {c} \cup Range(chunks')
    BY <1>1, <2>1, RangeTail
  <2>4. CASE SendEvicted(c)
    <3> DEFINE m == EvictedMessage(c.digest)
    <3>1. m \in Message /\ m.kind = "evicted" /\ wire' = Append(wire, m) /\ gaps' = gaps \cup {c.digest}
      BY <2>2, <2>4, MessagesTyped DEF SendEvicted, Send, EvictedMessage
    <3> HIDE DEF m
    <3>2. Range(wire') = Range(wire) \cup {m}
      BY <1>1, <3>1, RangeAppend
    <3>3. ASSUME NEW d \in Digests
          PROVE  (Named(d)' => Named(d)) /\ (Settled(d) => Settled(d)')
      BY <2>1, <2>3, <3>1, <3>2 DEF Named, Settled, Coming, TooBig
    <3> QED
      BY <2>1, <3>3, OtherFound
  <2>5. CASE SendLast(c)
    <3> DEFINE m == ChunkMessage(c)
    <3>1. m \in Message /\ m.kind = "chunk" /\ m.chunk = c /\ wire' = Append(wire, m) /\ gaps' = gaps
      BY <2>2, <2>5, MessagesTyped DEF SendLast, Send, ChunkMessage
    <3> HIDE DEF m
    <3>2. Range(wire') = Range(wire) \cup {m}
      BY <1>1, <3>1, RangeAppend
    <3>3. ASSUME NEW d \in Digests
          PROVE  (Named(d)' => Named(d)) /\ (Settled(d) => Settled(d)')
      BY <2>1, <2>3, <3>1, <3>2 DEF Named, Settled, Coming, TooBig
    <3> QED
      BY <2>1, <3>3, OtherFound
  <2>6. CASE Peek(c)
    <3>1. wire' = wire /\ gaps' = gaps /\ ~c.last
      BY <2>6 DEF Peek
    <3>2. ASSUME NEW d \in Digests
          PROVE  (Named(d)' => Named(d)) /\ (Settled(d) => Settled(d)')
      BY <2>1, <2>3, <3>1 DEF Named, Settled, Coming, TooBig
    <3> QED
      BY <2>1, <3>2, OtherFound
  <2> QED
    BY <1>4, <2>4, <2>5, <2>6 DEF SendChunk
<1> QED
  BY <1>2, <1>3, <1>4

LEMMA HandleFound ==
  ASSUME Types, FoundInv, Handle
  PROVE  FoundInv'
<1>1. wire \in Seq(Message) /\ (handler = Idle \/ handler.at = "append")
  BY DEF Types, ClientTypes, ServerTypes
<1>2. ASSUME wire # <<>>, wire' = Tail(wire)
      PROVE  Range(wire) = {Head(wire)} \cup Range(wire')
  BY <1>1, <1>2, RangeTail
<1>3. CASE SpanStart
  <2> DEFINE e == Head(wire).envelope
  <2>1. /\ UNCHANGED <<cleanups, deletion, sweep, link, chunks, events, refs, stored, gaps>>
        /\ wire # <<>> /\ wire' = Tail(wire) /\ Head(wire).kind = "span"
        /\ handler' = [at |-> "append", envelope |-> e]
    BY <1>3 DEF SpanStart, Receive, client
  <2>2. handler'.envelope = e
    BY <2>1
  <2>3. Range(wire) = {Head(wire)} \cup Range(wire')
    BY <1>2, <2>1
  <2>4. ASSUME NEW d \in Digests
        PROVE  (Named(d)' => Named(d)) /\ (Settled(d) => Settled(d)')
    BY <2>1, <2>2, <2>3 DEF Named, Settled, Coming, TooBig
  <2> QED
    BY <2>1, <2>4, OtherFound
<1>4. CASE AppendSpan
  <2>1. /\ UNCHANGED <<cleanups, deletion, sweep, link, chunks, events, wire, stored, gaps>>
        /\ handler.at = "append" /\ handler' = Idle
        /\ refs' = [x \in DOMAIN refs \cup {handler.envelope.span} |->
                      IF x \in DOMAIN refs THEN refs[x] ELSE handler.envelope.digest]
    BY <1>4 DEF AppendSpan, client, cleaning
  <2>2. \A x \in DOMAIN refs' : (x \in DOMAIN refs /\ refs'[x] = refs[x]) \/ refs'[x] = handler.envelope.digest
    BY <2>1
  <2>3. handler'.at # "append"
    BY <2>1 DEF Idle
  <2>4. ASSUME NEW d \in Digests
        PROVE  (Named(d)' => Named(d)) /\ (Settled(d) => Settled(d)')
    BY <2>1, <2>2, <2>3 DEF Named, Settled, Coming, TooBig
  <2> QED
    BY <2>1, <2>4, OtherFound
<1>5. CASE SpanEnd
  <2> DEFINE e == Head(wire).envelope
  <2>1. /\ UNCHANGED <<cleanups, deletion, sweep, link, chunks, events, handler, stored, gaps>>
        /\ wire # <<>> /\ wire' = Tail(wire) /\ Head(wire).kind = "span"
        /\ refs' = IF e.span \in DOMAIN refs THEN [refs EXCEPT ![e.span] = e.digest] ELSE refs
    BY <1>5 DEF SpanEnd, Receive, client, cleaning
  <2>2. DOMAIN refs' = DOMAIN refs /\ \A x \in DOMAIN refs' : refs'[x] = refs[x] \/ refs'[x] = e.digest
    BY <2>1
  <2>3. Range(wire) = {Head(wire)} \cup Range(wire')
    BY <1>2, <2>1
  <2>4. ASSUME NEW d \in Digests
        PROVE  (Named(d)' => Named(d)) /\ (Settled(d) => Settled(d)')
    BY <2>1, <2>2, <2>3 DEF Named, Settled, Coming, TooBig
  <2> QED
    BY <2>1, <2>4, OtherFound
<1>6. CASE PayloadEvicted \/ PayloadChunk \/ PayloadLast
  <2> DEFINE m == Head(wire)
  <2>1. /\ UNCHANGED <<cleanups, deletion, sweep, link, chunks, events, handler, refs, gaps>>
        /\ wire # <<>> /\ wire' = Tail(wire) /\ m.kind # "span" /\ stored \subseteq stored'
        /\ m.kind = "chunk" /\ m.chunk.last => m.chunk.digest \in stored'
    BY <1>6 DEF PayloadEvicted, PayloadChunk, PayloadLast, Receive, client, cleaning, store
  <2>2. Range(wire) = {m} \cup Range(wire')
    BY <1>2, <2>1
  <2> HIDE DEF m
  <2>3. ASSUME NEW d \in Digests
        PROVE  (Named(d)' => Named(d)) /\ (Settled(d) => Settled(d)')
    BY <2>1, <2>2 DEF Named, Settled, Coming, TooBig
  <2> QED
    BY <2>1, <2>3, OtherFound
<1>7. CASE PayloadMismatch
  <2>1. UNCHANGED <<cleanups, deletion, sweep>> /\ link' = "down"
    BY <1>7 DEF PayloadMismatch, StreamEnds, cleaning
  <2> QED
    BY <2>1, OtherFound
<1> QED
  BY <1>3, <1>4, <1>5, <1>6, <1>7 DEF Handle

LEMMA CleaningFound ==
  ASSUME Types, FoundInv,
         \/ DeleteRuns \/ GcPayloads \/ UNCHANGED vars \/ Stop \/ Disconnect
         \/ \E s \in Sessions : \/ SessionOver(s) \/ SweepDeletes(s)
                                \/ \E force \in BOOLEAN : DeleteRequested(s, force)
         \/ \E ss \in SUBSET Sessions : SweepLists(ss)
  PROVE  FoundInv'
<1>1. cleanups \in Nat
  BY DEF Types, StoreTypes
<1>2. CASE \/ \E s \in Sessions, force \in BOOLEAN : DeleteRequested(s, force)
           \/ \E ss \in SUBSET Sessions : SweepLists(ss)
  <2>1. cleanups' = cleanups + 1
    BY <1>2 DEF DeleteRequested, SweepLists, Begin
  <2> QED
    BY <1>1, <2>1 DEF FoundInv
<1>3. CASE DeleteRuns \/ GcPayloads
  <2>1. deletion # Idle /\ cleanups' = cleanups
    BY <1>3 DEF DeleteRuns, GcPayloads, DeleteSession, Idle
  <2> QED
    BY <2>1 DEF FoundInv
<1>4. ASSUME NEW s \in Sessions, SweepDeletes(s)
      PROVE  FoundInv'
  <2>1. sweep # {} /\ cleanups' = cleanups
    BY <1>4 DEF SweepDeletes, DeleteSession
  <2> QED
    BY <2>1 DEF FoundInv
<1>5. CASE Stop \/ Disconnect
  <2>1. UNCHANGED <<cleanups, deletion, sweep>> /\ link' # "up"
    BY <1>5 DEF Stop, Disconnect, StreamEnds, cleaning
  <2> QED
    BY <2>1, OtherFound
<1>6. CASE UNCHANGED vars \/ \E s \in Sessions : SessionOver(s)
  <2>1. UNCHANGED <<cleanups, deletion, sweep, link, chunks, events, wire, handler, refs, stored, gaps>>
    BY <1>6 DEF vars, SessionOver, client, store, cleaning
  <2>2. ASSUME NEW d \in Digests
        PROVE  (Named(d)' => Named(d)) /\ (Settled(d) => Settled(d)')
    BY <2>1 DEF Named, Settled, Coming, TooBig
  <2> QED
    BY <2>1, <2>2, OtherFound
<1> QED
  BY <1>2, <1>3, <1>4, <1>5, <1>6

LEMMA NextFound == Types /\ FoundInv /\ [Next]_vars => FoundInv'
<1> SUFFICES ASSUME Types, FoundInv, [Next]_vars PROVE FoundInv'
  OBVIOUS
<1> QED
  BY EmitFound, SendFound, HandleFound, CleaningFound DEF Next

LEMMA FoundImplies == Types /\ FoundInv => ReferencedFound
<1> SUFFICES ASSUME Types, FoundInv, Quiet, cleanups = 0, NEW x \in DOMAIN refs
             PROVE  refs[x] \in stored \cup gaps \/ TooBig(refs[x])
  BY DEF ReferencedFound
<1>1. refs[x] \in Digests /\ link = "up" /\ wire = <<>> /\ chunks = <<>>
  BY DEF Types, StoreTypes, Quiet
<1>2. Settled(refs[x])
  BY <1>1 DEF FoundInv, Named
<1>3. Range(wire) = {} /\ Range(chunks) = {}
  BY <1>1 DEF Range
<1> QED
  BY <1>2, <1>3 DEF Settled, Coming

(* When all that was sent is handled and nothing was deleted, the payload  *)
(* of each stored span is found, but for those the client could not send.  *)
THEOREM ReferencedIsFound == Spec => []ReferencedFound
<1> QED
  BY InitIInv, NextIInv, InitTypes, NextTypes, InitFound, NextFound, FoundImplies, PTL DEF Spec

=============================================================================
