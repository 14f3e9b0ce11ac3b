--------------------------- MODULE PayloadBuffer ---------------------------
(***************************************************************************)
(* PayloadBuffer (client/harmonograf_client/buffer.py): the client's       *)
(* staging area for payload bytes, keyed by digest, bounded in bytes, the  *)
(* oldest evicted first.  Sizes are in chunks.  Every operation runs under *)
(* the buffer's lock and is one step.  The count of dropped bytes, which    *)
(* only the heartbeats report, is left out.                                *)
(***************************************************************************)
EXTENDS Naturals, Sequences, SequencesExt, FiniteSets, FiniteSetsExt

CONSTANTS
    Digests,   \* content addresses
    Parts,     \* size of each payload, in chunks
    Capacity   \* capacity_bytes, in chunks

ASSUME PartsAssumption ==
    Parts \in [Digests -> Nat \ {0}] /\ Capacity \in Nat \ {0}

VARIABLES
    blobs,     \* _blobs: the digests whose bytes are staged
    order,     \* _order: oldest first
    bytes      \* _bytes

bufferVars == <<blobs, order, bytes>>

SizeOf(ds) == MapThenSumSet(LAMBDA d : Parts[d], ds)

BufferInit == blobs = {} /\ order = <<>> /\ bytes = 0

TooBig(d) == Parts[d] > Capacity

\* What must go, oldest first, for d to fit.
FirstOf(n) == {order[i] : i \in 1..n}
Fits(d, n) == bytes - SizeOf(FirstOf(n) \cap blobs) + Parts[d] <= Capacity
FewestLeakOne(d) ==  \* mutant: one is evicted too few
    LET n == CHOOSE n \in 0..Len(order) :
               /\ Fits(d, n) \/ n = Len(order)
               /\ \A k \in 0..(n - 1) : ~Fits(d, k)
    IN  IF n > 0 THEN n - 1 ELSE n
FewestThatFit(d) ==
    CHOOSE n \in 0..Len(order) :
      /\ Fits(d, n) \/ n = Len(order)
      /\ \A k \in 0..(n - 1) : ~Fits(d, k)
Victims(d) == IF d \in blobs \/ TooBig(d) THEN {}
              ELSE FirstOf(FewestThatFit(d)) \cap blobs

PutBlob(d) ==
    IF TooBig(d) \/ d \in blobs THEN UNCHANGED bufferVars
    ELSE LET n == FewestThatFit(d)
         IN  /\ blobs' = (blobs \ FirstOf(n)) \cup {d}
             /\ order' = Append(SubSeq(order, n + 1, Len(order)), d)
             /\ bytes' = bytes - SizeOf(Victims(d)) + Parts[d]

TakeBlob(d) ==
    /\ blobs' = blobs \ {d}
    /\ order' = IF d \in blobs THEN RemoveFirst(order, d) ELSE order
    /\ bytes' = bytes - SizeOf({d} \cap blobs)

-----------------------------------------------------------------------------
\* The bytes counted are those staged, they fit, and each staged payload is
\* in the order of eviction once.
BufferAccounts ==
    /\ bytes = SizeOf(blobs)
    /\ bytes <= Capacity
    /\ Range(order) = blobs
    /\ IsInjective(order)
=============================================================================
