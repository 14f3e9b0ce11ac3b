------------------------- MODULE AgentStreamsProofs -------------------------
(***************************************************************************)
(* Proofs about AgentStreams, for any streams, sessions and restarts:      *)
(* between handlers, the registry, the rows and the browsers agree         *)
(* (RowsAgree), and an agent without streams is disconnected (AgentEnds).  *)
(*                                                                         *)
(* A heartbeat with a sample writes the row in one store call and tells    *)
(* the browsers after another.  No close can come in between: its stream   *)
(* is in the registry since before the heartbeat (Registered), a close     *)
(* only asks the store when the registry is empty, so all closes are ahead *)
(* of the heartbeat in the store's line (ClosesFirst).                     *)
(*                                                                         *)
(* A stream that ends and leaves others in the registry need not write     *)
(* the row: these are served, and will end in their turn.  So while a row  *)
(* is CONNECTED a stream is served or a close is under way (EndComes).     *)
(***************************************************************************)
EXTENDS AgentStreams, Integers, SequenceTheorems, TLAPS

Caller == Stream \union {Sweeper}

(* Every caller waits, in one place of the line.                           *)
SweepAsks == IF closing = None THEN {} ELSE {Sweeper}
Asking == {st \in Stream : pc[st] \in InStore \union {"closing"}} \union SweepAsks
InLine ==
  /\ \A k \in DOMAIN calls : calls[k] \in Asking
  /\ \A j, k \in DOMAIN calls : calls[j] = calls[k] => j = k
  /\ \A by \in Asking : \E k \in DOMAIN calls : calls[k] = by

(* A stream knows a route from its Hello on.                               *)
PastHello == {"live", "agent", "beat", "sampled_beat", "sample", "goodbye"}
RoutesKnown ==
  \A st \in Stream :
    /\ st \in registry \/ pc[st] \in PastHello => seen[st] # {}
    /\ pc[st] = "new" => seen[st] = {}

(* Neither the sweep nor a cancellation has interfered.                    *)
Unharmed == ~swept /\ ~cancelled

Registered == Unharmed => {st \in Serving : seen[st] # {}} \subseteq registry

(* The calls that close a stream, and the heartbeats.                      *)
Closes == {st \in Stream : pc[st] \in {"goodbye", "closing"}} \union SweepAsks
Beats == {st \in Stream : pc[st] \in {"beat", "sampled_beat"}}
ClosesFirst ==
  Unharmed => \A j, k \in DOMAIN calls : calls[j] \in Beats /\ calls[k] \in Closes => k < j

Sampled == {st \in Stream : pc[st] = "sample"}
SampledLast ==
  Unharmed /\ Sampled # {} =>
    /\ \A st \in Sampled : row[home[st]] = "CONNECTED"
    /\ \A k \in DOMAIN calls : calls[k] \notin Closes
ShownOrSampled ==
  Unharmed => \A s \in Session : shown[s] = row[s] \/ s \in {home[st] : st \in Sampled}

Registry == RegistryServed /\ RoutesKnown /\ Registered
Order == ClosesFirst /\ SampledLast /\ ShownOrSampled
IInv == TypeOK /\ InLine /\ Registry /\ Order

(* What a Hello writes, and what a close will find.                        *)
HomesKnown ==
  \A st \in Stream :
    /\ InHello(st) => target[st] = home[st]
    /\ seen[st] # {} => row[home[st]] # "absent"
    /\ st \in left \/ st = closing => pc[st] # "new"

(* No Hello was cancelled, and all name one session.                       *)
OneHome(s) ==
  /\ restarts = 0
  /\ \A st \in Stream : pc[st] # "new" => home[st] = s /\ (seen[st] # {} \/ InHello(st))

(* A connected row has a stream that is served or a close under way.       *)
EndComes ==
  \A s \in Session : OneHome(s) /\ row[s] = "CONNECTED" => Serving # {} \/ Closes # {}

EInv == IInv /\ HomesKnown /\ EndComes

-----------------------------------------------------------------------------
(* The line of callers.                                                    *)
LEMMA CallersTyped ==
  ASSUME TypeOK
  PROVE  /\ calls \in Seq(Caller) /\ Len(calls) \in Nat /\ DOMAIN calls = 1 .. Len(calls)
         /\ \A k \in DOMAIN calls : calls[k] \in Caller
<1>1. calls \in Seq(Caller)
  BY DEF TypeOK, Caller
<1> QED
  BY <1>1, LenProperties, ElementOfSeq

LEMMA Joins ==
  ASSUME TypeOK, NEW by \in Caller
  PROVE  LET q == Append(calls, by)
         IN  /\ q \in Seq(Caller) /\ DOMAIN q = 1 .. Len(calls) + 1
             /\ q[Len(calls) + 1] = by
             /\ \A k \in 1 .. Len(calls) : q[k] = calls[k]
<1> DEFINE q == Append(calls, by)
<1>1. calls \in Seq(Caller)
  BY CallersTyped
<1>2. q \in Seq(Caller) /\ Len(q) = Len(calls) + 1
      /\ (\A k \in 1 .. Len(calls) : q[k] = calls[k]) /\ q[Len(calls) + 1] = by
  BY <1>1, AppendProperties
<1>3. DOMAIN q = 1 .. Len(q)
  BY <1>2, LenProperties
<1> QED
  BY <1>2, <1>3

LEMMA HeadLeaves ==
  ASSUME TypeOK, calls # <<>>
  PROVE  LET q == Tail(calls)
         IN  /\ q \in Seq(Caller) /\ DOMAIN q = 1 .. Len(calls) - 1
             /\ Len(q) = Len(calls) - 1 /\ Len(calls) \in Nat \ {0}
             /\ \A k \in 1 .. Len(calls) - 1 : q[k] = calls[k + 1]
<1> DEFINE q == Tail(calls)
<1>1. calls \in Seq(Caller)
  BY CallersTyped
<1>2. q \in Seq(Caller) /\ Len(q) = Len(calls) - 1 /\ \A k \in 1 .. Len(q) : q[k] = calls[k + 1]
  BY <1>1, HeadTailProperties
<1>3. DOMAIN q = 1 .. Len(q) /\ Len(calls) \in Nat \ {0}
  BY <1>1, <1>2, LenProperties, EmptySeq
<1> QED
  BY <1>2, <1>3

LEMMA HeadAsksAgain ==
  ASSUME TypeOK, calls # <<>>
  PROVE  LET q == Append(Tail(calls), Head(calls))
         IN  /\ q \in Seq(Caller) /\ DOMAIN q = 1 .. Len(calls)
             /\ q[Len(calls)] = Head(calls)
             /\ \A k \in 1 .. Len(calls) - 1 : q[k] = calls[k + 1]
<1> DEFINE t == Tail(calls)
           q == Append(t, Head(calls))
<1>1. /\ t \in Seq(Caller) /\ Len(t) = Len(calls) - 1 /\ Len(calls) \in Nat \ {0}
      /\ \A k \in 1 .. Len(calls) - 1 : t[k] = calls[k + 1]
  BY HeadLeaves
<1>2. Head(calls) = calls[1] /\ calls[1] \in Caller
  BY <1>1, CallersTyped
<1> HIDE DEF t
<1>3. q \in Seq(Caller) /\ Len(q) = Len(t) + 1
      /\ (\A k \in 1 .. Len(t) : q[k] = t[k]) /\ q[Len(t) + 1] = Head(calls)
  BY <1>1, <1>2, AppendProperties
<1>4. DOMAIN q = 1 .. Len(q)
  BY <1>3, LenProperties
<1>5. Len(t) + 1 = Len(calls)
  BY <1>1
<1> QED
  BY <1>1, <1>3, <1>4, <1>5 DEF t

LEMMA OneLeaves ==
  ASSUME TypeOK, NEW k \in DOMAIN calls
  PROVE  LET q == RemoveAt(calls, k)
         IN  /\ q \in Seq(Caller) /\ DOMAIN q = 1 .. Len(calls) - 1
             /\ \A j \in 1 .. Len(calls) - 1 : q[j] = IF j < k THEN calls[j] ELSE calls[j + 1]
<1> DEFINE q == RemoveAt(calls, k)
           a == SubSeq(calls, 1, k - 1)
           b == SubSeq(calls, k + 1, Len(calls))
<1>1. /\ calls \in Seq(Caller) /\ k \in 1 .. Len(calls) /\ Len(calls) \in Nat
      /\ \A j \in 1 .. Len(calls) : calls[j] \in Caller
  BY CallersTyped
<1>2. /\ q \in Seq(Caller) /\ Len(q) = Len(calls) - 1
      /\ \A j \in 1 .. Len(calls) - 1 : q[j] = IF j < k THEN calls[j] ELSE calls[j + 1]
  <2>1. a \in Seq(Caller) /\ Len(a) = k - 1 /\ \A j \in 1 .. k - 1 : a[j] = calls[j]
    <3>1. 1 \in Int /\ k - 1 \in Int /\ \A j \in 1 .. k - 1 : calls[j] \in Caller
      BY <1>1
    <3>2. /\ a \in Seq(Caller) /\ Len(a) = IF 1 <= k - 1 THEN k - 1 - 1 + 1 ELSE 0
          /\ \A j \in 1 .. k - 1 - 1 + 1 : a[j] = calls[1 + j - 1]
      BY <3>1, SubSeqProperties
    <3> QED
      BY <1>1, <3>2
  <2>2. b \in Seq(Caller) /\ Len(b) = Len(calls) - k /\ \A j \in 1 .. Len(calls) - k : b[j] = calls[k + j]
    <3>1. k + 1 \in Int /\ Len(calls) \in Int /\ \A j \in k + 1 .. Len(calls) : calls[j] \in Caller
      BY <1>1
    <3>2. /\ b \in Seq(Caller)
          /\ Len(b) = IF k + 1 <= Len(calls) THEN Len(calls) - (k + 1) + 1 ELSE 0
          /\ \A j \in 1 .. Len(calls) - (k + 1) + 1 : b[j] = calls[k + 1 + j - 1]
      BY <3>1, SubSeqProperties
    <3> QED
      BY <1>1, <3>2
  <2>3. q = a \o b
    BY DEF RemoveAt
  <2> HIDE DEF q, a, b
  <2>4. /\ a \o b \in Seq(Caller) /\ Len(a \o b) = Len(a) + Len(b)
        /\ \A j \in 1 .. Len(a) + Len(b) : (a \o b)[j] = IF j <= Len(a) THEN a[j] ELSE b[j - Len(a)]
    BY <2>1, <2>2, ConcatProperties
  <2>5. Len(a) + Len(b) = Len(calls) - 1
    BY <1>1, <2>1, <2>2
  <2>6. ASSUME NEW j \in 1 .. Len(calls) - 1
        PROVE  q[j] = IF j < k THEN calls[j] ELSE calls[j + 1]
    <3>1. q[j] = IF j <= Len(a) THEN a[j] ELSE b[j - Len(a)]
      BY <2>3, <2>4, <2>5
    <3>2. CASE j < k
      BY <1>1, <2>1, <3>1, <3>2
    <3>3. CASE ~(j < k)
      <4>1. j - Len(a) \in 1 .. Len(calls) - k /\ k + (j - Len(a)) = j + 1 /\ ~(j <= Len(a))
        BY <1>1, <2>1, <3>3
      <4> QED
        BY <2>2, <3>1, <3>3, <4>1
    <3> QED
      BY <3>2, <3>3
  <2> QED
    BY <2>3, <2>4, <2>5, <2>6
<1>3. DOMAIN q = 1 .. Len(q)
  BY <1>2, LenProperties
<1> QED
  BY <1>2, <1>3

-----------------------------------------------------------------------------
LEMMA Callers ==
  /\ Sweeper \in Caller /\ \A st \in Stream : st \in Caller /\ st # Sweeper /\ st # None
  /\ \A by \in Caller : by = Sweeper \/ by \in Stream
  BY SweeperAssumption, NoneAssumption DEF Caller, None

LEMMA GotoTyped ==
  ASSUME TypeOK, NEW st \in Stream, NEW place \in PC, Goto(st, place)
  PROVE  pc' \in [Stream -> PC] /\ pc'[st] = place
         /\ \A o \in Stream : o # st => pc'[o] = pc[o]
  BY DEF TypeOK, Goto

LEMMA AsksTyped ==
  ASSUME TypeOK, NEW by \in Caller, Asks(by)
  PROVE  calls' \in Seq(Caller)
  BY Joins DEF Asks

LEMMA LeavesTyped ==
  ASSUME TypeOK, NEW by, Served(by), Leaves \/ AsksAgain
  PROVE  calls' \in Seq(Caller)
  BY HeadLeaves, HeadAsksAgain DEF Served, Leaves, AsksAgain

(* close_stream sends the stream to the store or lets it go on.            *)
LEMMA Closing ==
  ASSUME TypeOK, NEW st \in Stream, NEW waiting \in PC, NEW done \in PC, NEW queue,
         CloseStream(st, waiting, done, queue)
  PROVE  /\ registry' = registry \ {st}
         /\ \/ registry' = {} /\ Goto(st, waiting) /\ calls' = Append(queue, st)
            \/ registry' # {} /\ Goto(st, done) /\ calls' = queue
  BY DEF CloseStream

LEMMA CloseTyped ==
  ASSUME TypeOK, NEW st \in Stream, NEW waiting \in PC, NEW done \in PC, NEW queue \in Seq(Caller),
         CloseStream(st, waiting, done, queue)
  PROVE  calls' \in Seq(Caller) /\ pc' \in [Stream -> PC] /\ registry' \subseteq Stream
<1>1. CASE registry' = {} /\ Goto(st, waiting) /\ calls' = Append(queue, st)
  <2>1. Append(queue, st) \in Seq(Caller)
    BY Callers, AppendProperties
  <2> QED
    BY <1>1, <2>1, GotoTyped
<1>2. CASE registry' # {} /\ Goto(st, done) /\ calls' = queue
  <2>1. registry' \subseteq Stream
    BY Closing DEF TypeOK
  <2> QED
    BY <1>2, <2>1, GotoTyped
<1> QED
  BY <1>1, <1>2, Closing

LEMMA Places ==
  /\ {"new", "live", "ending", "closing", "closed"} \subseteq PC
  /\ {"find", "create", "agent", "register", "beat", "sampled_beat", "sample", "goodbye"} \subseteq PC
  /\ {"CONNECTED", "DISCONNECTED"} \subseteq Status
  BY DEF PC, InStore, Status

LEMMA TypesKept ==
  ASSUME TypeOK, [Next]_vars
  PROVE  TypeOK'
<1> USE DEF TypeOK, db, rpc, sweep
<1> USE Callers, Places
<1>0. Seq(Caller) = Seq(Stream \union {Sweeper})
  BY DEF Caller
<1>1. ASSUME NEW st \in Stream, FindSession(st) \/ CreateSession(st) \/ FindAgent(st) PROVE TypeOK'
  <2>1. calls' \in Seq(Caller)
    BY <1>1, LeavesTyped DEF FindSession, CreateSession, FindAgent
  <2>2. pc' \in [Stream -> PC]
    BY <1>1 DEF FindSession, CreateSession, FindAgent, AfterSession, Goto
  <2>3. /\ sessions' \subseteq Session
        /\ UNCHANGED <<row, shown, registry, late, seen, home, target, sweep, cancelled, restarts>>
    BY <1>1 DEF FindSession, CreateSession, FindAgent
  <2> QED
    BY <1>0, <2>1, <2>2, <2>3
<1>2. ASSUME NEW st \in Stream, RegisterAgent(st) PROVE TypeOK'
  <2>1. calls' \in Seq(Caller)
    BY <1>2, LeavesTyped DEF RegisterAgent
  <2> QED
    BY <1>0, <1>2, <2>1 DEF RegisterAgent, SetRow, Show, Goto
<1>3. ASSUME NEW st \in Stream, BeatStored(st) PROVE TypeOK'
  <2>1. calls' \in Seq(Caller)
    BY <1>3, LeavesTyped DEF BeatStored
  <2>2. /\ pc' \in [Stream -> PC] /\ row' \in [Session -> Status] /\ shown' \in [Session -> Status]
        /\ UNCHANGED <<sessions, registry, late, seen, home, target, sweep, cancelled, restarts>>
    BY <1>3 DEF BeatStored, SetRow, Show, Goto
  <2> QED
    BY <1>0, <2>1, <2>2
<1>4. ASSUME NEW st \in Stream, SampleStored(st) \/ CloseStored(st) PROVE TypeOK'
  <2>1. calls' \in Seq(Caller)
    BY <1>4, LeavesTyped DEF SampleStored, CloseStored
  <2>2. /\ pc' \in [Stream -> PC] /\ row' \in [Session -> Status] /\ shown' \in [Session -> Status]
        /\ UNCHANGED <<sessions, registry, late, seen, home, target, sweep, cancelled, restarts>>
    BY <1>4 DEF SampleStored, CloseStored, Disconnect, SetRow, Show, Goto
  <2> QED
    BY <1>0, <2>1, <2>2
<1>5. CASE SweepStored
  <2>1. calls' \in Seq(Caller)
    BY <1>5, LeavesTyped DEF SweepStored
  <2> QED
    BY <1>0, <1>5, <2>1 DEF SweepStored, Disconnect, SetRow, Show
<1>6. ASSUME NEW st \in Stream, FallsSilent(st) PROVE TypeOK'
  BY <1>6 DEF FallsSilent
<1>7. ASSUME NEW st \in Stream, NEW s \in Session, HelloArrives(st, s) \/ RouteArrives(st, s)
      PROVE  TypeOK'
  <2>1. calls' \in Seq(Caller)
    BY <1>7, AsksTyped DEF HelloArrives, RouteArrives
  <2>2. /\ pc' \in [Stream -> PC] /\ seen' \in [Stream -> SUBSET Session]
        /\ home' \in [Stream -> Session] /\ target' \in [Stream -> Session]
        /\ UNCHANGED <<db, shown, registry, late, sweep, cancelled, restarts>>
    BY <1>7 DEF HelloArrives, RouteArrives, Goto
  <2> QED
    BY <1>0, <2>1, <2>2
<1>8. ASSUME NEW st \in Stream, Heartbeat(st) PROVE TypeOK'
  <2>1. calls' \in Seq(Caller)
    BY <1>8, AsksTyped DEF Heartbeat
  <2> QED
    BY <1>0, <1>8, <2>1 DEF Heartbeat, Goto
<1>9. ASSUME NEW st \in Stream, GoodbyeArrives(st) \/ RpcEnds(st) PROVE TypeOK'
  <2>1. PICK waiting \in PC, done \in PC : CloseStream(st, waiting, done, calls)
    BY <1>9 DEF GoodbyeArrives, RpcEnds
  <2>2. calls' \in Seq(Caller) /\ pc' \in [Stream -> PC] /\ registry' \subseteq Stream
    BY <2>1, CallersTyped, CloseTyped
  <2>3. UNCHANGED <<db, shown, late, seen, home, target, sweep, cancelled, restarts>>
    BY <1>9 DEF GoodbyeArrives, RpcEnds
  <2> QED
    BY <1>0, <2>2, <2>3
<1>10. ASSUME NEW st \in Stream, RpcCancelled(st) PROVE TypeOK'
  <2>1. PICK k \in DOMAIN calls :
          /\ \/ UNCHANGED db
             \/ /\ row' = Written(st)
                /\ sessions' = IF pc[st] = "create" THEN sessions \cup {target[st]} ELSE sessions
          /\ \/ Goto(st, "closed") /\ calls' = RemoveAt(calls, k) /\ UNCHANGED registry
             \/ CloseStream(st, "closing", "closed", RemoveAt(calls, k))
          /\ cancelled' = TRUE
          /\ UNCHANGED <<shown, late, seen, home, target, sweep, restarts>>
    BY <1>10 DEF RpcCancelled
  <2>2. RemoveAt(calls, k) \in Seq(Caller)
    BY OneLeaves
  <2>3. ASSUME Goto(st, "closed"), calls' = RemoveAt(calls, k), UNCHANGED registry
        PROVE  calls' \in Seq(Caller) /\ pc' \in [Stream -> PC] /\ registry' \subseteq Stream
    BY <2>2, <2>3, GotoTyped
  <2>4. calls' \in Seq(Caller) /\ pc' \in [Stream -> PC] /\ registry' \subseteq Stream
    BY <2>1, <2>2, <2>3, CloseTyped
  <2>5. Written(st) \in [Session -> Status]
    BY DEF Written
  <2>6. row' \in [Session -> Status] /\ sessions' \subseteq Session
    BY <2>1, <2>5
  <2> QED
    BY <1>0, <2>1, <2>4, <2>6
<1>11. CASE SweepLists
  BY <1>11 DEF SweepLists
<1>12. CASE SweepCloses
  <2>1. PICK closed \in SUBSET left :
          /\ registry' = registry \ closed
          /\ left' = left \ closed
          /\ swept' = (swept \/ closed \cap registry # {})
          /\ \/ UNCHANGED <<calls, closing>>
             \/ \E st \in closed : closing' = st /\ Asks(Sweeper)
    BY <1>12 DEF SweepCloses
  <2>2. calls' \in Seq(Caller)
    BY <1>0, <2>1, AsksTyped
  <2>3. UNCHANGED <<db, shown, late, rpc, cancelled, restarts>>
    BY <1>12 DEF SweepCloses
  <2> QED
    BY <1>0, <2>1, <2>2, <2>3
<1>13. CASE Restart
  <2>1. calls' \in Seq(Caller)
    BY <1>13 DEF Restart
  <2>2. restarts' \in 0 .. MaxRestarts
    BY <1>13, RestartsAssumption DEF Restart
  <2> QED
    BY <1>0, <1>13, <2>1, <2>2 DEF Restart
<1>14. CASE UNCHANGED vars
  BY <1>14 DEF vars
<1> QED
  BY <1>1, <1>2, <1>3, <1>4, <1>5, <1>6, <1>7, <1>8, <1>9, <1>10, <1>11, <1>12, <1>13, <1>14
     DEF Next, Stored

-----------------------------------------------------------------------------
(* Callers wait in one place of the line.                                  *)
LEMMA JoinsLine ==
  ASSUME TypeOK, InLine, NEW by \in Caller, by \notin Asking, calls' = Append(calls, by),
         Asking' = Asking \union {by}
  PROVE  InLine'
<1> DEFINE n == Len(calls)
<1>1. /\ DOMAIN calls = 1 .. n /\ n \in Nat /\ DOMAIN calls' = 1 .. n + 1
      /\ \A k \in 1 .. n : calls[k] \in Caller /\ calls'[k] = calls[k]
      /\ calls'[n + 1] = by
  BY CallersTyped, Joins
<1>2. \A k \in 1 .. n : calls[k] # by
  BY <1>1 DEF InLine
<1> HIDE DEF n
<1>3. \A k \in DOMAIN calls' : calls'[k] \in Asking'
  BY <1>1 DEF InLine
<1>4. \A j, k \in DOMAIN calls' : calls'[j] = calls'[k] => j = k
  BY <1>1, <1>2 DEF InLine
<1>5. \A o \in Asking' : \E k \in DOMAIN calls' : calls'[k] = o
  BY <1>1 DEF InLine
<1> QED
  BY <1>3, <1>4, <1>5 DEF InLine

LEMMA LeavesLine ==
  ASSUME TypeOK, InLine, NEW by, Served(by), Leaves,
         Asking' = Asking \ {by}
  PROVE  InLine'
<1> DEFINE n == Len(calls)
<1>1. calls # <<>> /\ Head(calls) = by /\ calls' = Tail(calls)
  BY DEF Served, Leaves
<1>2. /\ DOMAIN calls = 1 .. n /\ n \in Nat \ {0} /\ DOMAIN calls' = 1 .. n - 1
      /\ \A k \in 1 .. n : calls[k] \in Caller
      /\ \A k \in 1 .. n - 1 : calls'[k] = calls[k + 1]
      /\ calls[1] = by
  BY <1>1, CallersTyped, HeadLeaves
<1> HIDE DEF n
<1>3. \A k \in 1 .. n - 1 : calls[k + 1] # by
  BY <1>2 DEF InLine
<1>4. \A k \in DOMAIN calls' : calls'[k] \in Asking'
  BY <1>2, <1>3 DEF InLine
<1>5. \A j, k \in DOMAIN calls' : calls'[j] = calls'[k] => j = k
  <2>1. \A j, k \in 1 .. n : calls[j] = calls[k] => j = k
    BY <1>2 DEF InLine
  <2> QED
    BY <1>2, <2>1
<1>6. \A o \in Asking' : \E k \in DOMAIN calls' : calls'[k] = o
  <2> SUFFICES ASSUME NEW o \in Asking, o # by PROVE \E k \in 1 .. n - 1 : calls'[k] = o
    BY <1>2
  <2>1. PICK k \in 1 .. n : calls[k] = o
    BY <1>2 DEF InLine
  <2>2. k - 1 \in 1 .. n - 1 /\ calls'[k - 1] = calls[(k - 1) + 1] /\ (k - 1) + 1 = k
    BY <1>2, <2>1
  <2> QED
    BY <2>1, <2>2
<1> QED
  BY <1>4, <1>5, <1>6 DEF InLine

LEMMA AgainInLine ==
  ASSUME TypeOK, InLine, NEW by, Served(by), AsksAgain,
         Asking' = Asking
  PROVE  InLine'
<1> DEFINE n == Len(calls)
<1>1. calls # <<>> /\ Head(calls) = by /\ calls' = Append(Tail(calls), Head(calls))
  BY DEF Served, AsksAgain
<1>2. /\ DOMAIN calls = 1 .. n /\ n \in Nat \ {0} /\ DOMAIN calls' = 1 .. n
      /\ \A k \in 1 .. n : calls[k] \in Caller
      /\ \A k \in 1 .. n - 1 : calls'[k] = calls[k + 1]
      /\ calls[1] = by /\ calls'[n] = by
  BY <1>1, CallersTyped, HeadLeaves, HeadAsksAgain
<1> HIDE DEF n
<1>3. \A k \in DOMAIN calls' : calls'[k] \in Asking'
  BY <1>2 DEF InLine
<1>4. \A j, k \in DOMAIN calls' : calls'[j] = calls'[k] => j = k
  <2> DEFINE from(j) == IF j = n THEN 1 ELSE j + 1
  <2>1. \A j \in 1 .. n : from(j) \in 1 .. n /\ calls'[j] = calls[from(j)]
    BY <1>2
  <2>2. \A i, j \in 1 .. n : from(i) = from(j) => i = j
    BY <1>2
  <2> HIDE DEF from
  <2>3. \A i, j \in 1 .. n : calls[i] = calls[j] => i = j
    BY <1>2 DEF InLine
  <2> QED
    BY <1>2, <2>1, <2>2, <2>3
<1>5. \A o \in Asking' : \E k \in DOMAIN calls' : calls'[k] = o
  <2> SUFFICES ASSUME NEW o \in Asking PROVE \E k \in 1 .. n : calls'[k] = o
    BY <1>2
  <2>1. PICK k \in 1 .. n : calls[k] = o
    BY <1>2 DEF InLine
  <2>2. CASE k = 1
    BY <1>2, <2>1, <2>2
  <2>3. CASE k # 1
    <3>1. k - 1 \in 1 .. n - 1 /\ calls'[k - 1] = calls[(k - 1) + 1] /\ (k - 1) + 1 = k
      BY <1>2, <2>1, <2>3
    <3> QED
      BY <1>2, <2>1, <3>1
  <2> QED
    BY <2>2, <2>3
<1> QED
  BY <1>3, <1>4, <1>5 DEF InLine

LEMMA OneLeavesLine ==
  ASSUME TypeOK, InLine, NEW k \in DOMAIN calls, calls' = RemoveAt(calls, k),
         Asking' = Asking \ {calls[k]}
  PROVE  InLine' /\ \A j \in DOMAIN calls' : calls'[j] # calls[k]
<1> DEFINE n == Len(calls)
<1>1. /\ DOMAIN calls = 1 .. n /\ n \in Nat /\ DOMAIN calls' = 1 .. n - 1
      /\ \A j \in 1 .. n : calls[j] \in Caller
      /\ \A j \in 1 .. n - 1 : calls'[j] = IF j < k THEN calls[j] ELSE calls[j + 1]
  BY CallersTyped, OneLeaves
<1> HIDE DEF n
<1>2. \A j \in DOMAIN calls' : calls'[j] # calls[k]
  <2> SUFFICES ASSUME NEW j \in 1 .. n - 1, calls'[j] = calls[k] PROVE FALSE
    BY <1>1
  <2>1. CASE j < k
    BY <1>1, <2>1 DEF InLine
  <2>2. CASE ~(j < k)
    BY <1>1, <2>2 DEF InLine
  <2> QED
    BY <2>1, <2>2
<1>3. \A j \in DOMAIN calls' : calls'[j] \in Asking'
  BY <1>1, <1>2 DEF InLine
<1>4. \A i, j \in DOMAIN calls' : calls'[i] = calls'[j] => i = j
  <2> DEFINE from(j) == IF j < k THEN j ELSE j + 1
  <2>1. \A j \in 1 .. n - 1 : from(j) \in 1 .. n /\ calls'[j] = calls[from(j)]
    BY <1>1
  <2>2. \A i, j \in 1 .. n - 1 : from(i) = from(j) => i = j
    BY <1>1
  <2> HIDE DEF from
  <2>3. \A i, j \in 1 .. n : calls[i] = calls[j] => i = j
    BY <1>1 DEF InLine
  <2> QED
    BY <1>1, <2>1, <2>2, <2>3
<1>5. \A o \in Asking' : \E j \in DOMAIN calls' : calls'[j] = o
  <2> SUFFICES ASSUME NEW o \in Asking, o # calls[k] PROVE \E j \in 1 .. n - 1 : calls'[j] = o
    BY <1>1
  <2>1. PICK i \in 1 .. n : calls[i] = o /\ i # k
    BY <1>1 DEF InLine
  <2>2. CASE i < k
    BY <1>1, <2>1, <2>2
  <2>3. CASE k < i
    <3>1. i - 1 \in 1 .. n - 1 /\ calls'[i - 1] = calls[(i - 1) + 1] /\ (i - 1) + 1 = i
      BY <1>1, <2>1, <2>3
    <3> QED
      BY <2>1, <3>1
  <2> QED
    BY <1>1, <2>1, <2>2, <2>3
<1> QED
  BY <1>2, <1>3, <1>4, <1>5 DEF InLine

(* One caller gives up its place and joins again at the end.               *)
LEMMA OneMovesInLine ==
  ASSUME TypeOK, InLine, NEW k \in DOMAIN calls, calls' = Append(RemoveAt(calls, k), calls[k]),
         Asking' = Asking
  PROVE  InLine'
<1> DEFINE n == Len(calls)
           q == RemoveAt(calls, k)
<1>1. /\ DOMAIN calls = 1 .. n /\ n \in Nat \ {0}
      /\ \A j \in 1 .. n : calls[j] \in Caller
      /\ q \in Seq(Caller) /\ DOMAIN q = 1 .. n - 1
      /\ \A j \in 1 .. n - 1 : q[j] = IF j < k THEN calls[j] ELSE calls[j + 1]
  BY CallersTyped, OneLeaves
<1>2. k \in 1 .. n /\ calls' = Append(q, calls[k])
  BY <1>1
<1> HIDE DEF n, q
<1>3. Len(q) \in Nat /\ 1 .. Len(q) = 1 .. n - 1
  BY <1>1, LenProperties
<1>4. Len(q) = n - 1
  BY <1>1, <1>3
<1>5. /\ calls' \in Seq(Caller) /\ Len(calls') = n /\ calls'[n] = calls[k]
      /\ \A j \in 1 .. n - 1 : calls'[j] = q[j]
  <2>1. /\ Append(q, calls[k]) \in Seq(Caller) /\ Len(Append(q, calls[k])) = Len(q) + 1
        /\ \A j \in 1 .. Len(q) : Append(q, calls[k])[j] = q[j]
        /\ Append(q, calls[k])[Len(q) + 1] = calls[k]
    BY <1>1, <1>2, AppendProperties
  <2>2. Len(q) + 1 = n
    BY <1>1, <1>4
  <2> QED
    BY <1>2, <1>4, <2>1, <2>2
<1>6. DOMAIN calls' = 1 .. n
  BY <1>5, LenProperties
<1>7. \A j \in DOMAIN calls' : calls'[j] \in Asking'
  <2>1. \A j \in 1 .. n : calls'[j] \in {calls[i] : i \in 1 .. n}
    BY <1>1, <1>2, <1>5
  <2>2. \A i \in 1 .. n : calls[i] \in Asking'
    BY <1>1 DEF InLine
  <2> QED
    BY <1>6, <2>1, <2>2
<1>8. \A i, j \in DOMAIN calls' : calls'[i] = calls'[j] => i = j
  <2> DEFINE from(j) == IF j = n THEN k ELSE IF j < k THEN j ELSE j + 1
  <2>1. \A j \in 1 .. n : from(j) \in 1 .. n /\ calls'[j] = calls[from(j)]
    BY <1>1, <1>2, <1>5, <1>6
  <2>2. \A i, j \in 1 .. n : from(i) = from(j) => i = j
    BY <1>1, <1>2, <1>5, <1>6
  <2> HIDE DEF from
  <2>3. \A i, j \in 1 .. n : calls[i] = calls[j] => i = j
    BY <1>1 DEF InLine
  <2>4. SUFFICES ASSUME NEW i \in 1 .. n, NEW j \in 1 .. n, calls'[i] = calls'[j] PROVE i = j
    BY <1>6
  <2>5. calls[from(i)] = calls[from(j)]
    BY <2>1, <2>4
  <2>6. from(i) = from(j)
    BY <2>1, <2>3, <2>5
  <2> QED
    BY <2>2, <2>6
<1>9. \A o \in Asking' : \E j \in DOMAIN calls' : calls'[j] = o
  <2> SUFFICES ASSUME NEW o \in Asking PROVE \E j \in 1 .. n : calls'[j] = o
    BY <1>6
  <2>1. PICK i \in 1 .. n : calls[i] = o
    BY <1>1 DEF InLine
  <2>2. CASE i = k
    BY <1>1, <1>5, <2>1, <2>2
  <2>3. CASE i < k
    BY <1>1, <1>2, <1>5, <2>1, <2>3
  <2>4. CASE k < i
    <3>1. i - 1 \in 1 .. n - 1 /\ q[i - 1] = calls[(i - 1) + 1] /\ (i - 1) + 1 = i
      BY <1>1, <1>2, <2>1, <2>4
    <3> QED
      BY <1>1, <1>5, <2>1, <3>1
  <2> QED
    BY <1>1, <1>2, <2>1, <2>2, <2>3, <2>4
<1> QED
  BY <1>7, <1>8, <1>9 DEF InLine

(* A stream's RPC goes from one place to another.                          *)
LEMMA PlaceChanges ==
  ASSUME TypeOK, NEW st \in Stream, NEW place \in PC, Goto(st, place), UNCHANGED closing
  PROVE  /\ Asking' = IF place \in InStore \union {"closing"} THEN Asking \union {st} ELSE Asking \ {st}
         /\ Closes' = IF place \in {"goodbye", "closing"} THEN Closes \union {st} ELSE Closes \ {st}
         /\ Beats' = IF place \in {"beat", "sampled_beat"} THEN Beats \union {st} ELSE Beats \ {st}
         /\ Sampled' = IF place = "sample" THEN Sampled \union {st} ELSE Sampled \ {st}
<1>1. /\ pc'[st] = place
      /\ \A o \in Stream : o # st => pc'[o] = pc[o]
  BY GotoTyped
<1>2. SweepAsks' = SweepAsks /\ st \notin SweepAsks
  BY Callers DEF SweepAsks
<1>3. Asking' = IF place \in InStore \union {"closing"} THEN Asking \union {st} ELSE Asking \ {st}
  BY <1>1, <1>2 DEF Asking
<1>4. Closes' = IF place \in {"goodbye", "closing"} THEN Closes \union {st} ELSE Closes \ {st}
  BY <1>1, <1>2 DEF Closes
<1>5. Beats' = IF place \in {"beat", "sampled_beat"} THEN Beats \union {st} ELSE Beats \ {st}
  BY <1>1 DEF Beats
<1>6. Sampled' = IF place = "sample" THEN Sampled \union {st} ELSE Sampled \ {st}
  BY <1>1 DEF Sampled
<1> QED
  BY <1>3, <1>4, <1>5, <1>6

LEMMA NotAsking ==
  ASSUME NEW st \in Stream, pc[st] \in {"new", "live", "ending", "closed"}
  PROVE  st \notin Asking
  BY Callers DEF Asking, SweepAsks, InStore

LEMMA PlacesAsk ==
  /\ {"find", "create", "agent", "register", "beat", "sampled_beat", "sample", "goodbye", "closing"}
       = InStore \union {"closing"}
  /\ {"new", "live", "ending", "closed"} \cap (InStore \union {"closing"}) = {}
  BY DEF InStore

LEMMA LineKept ==
  ASSUME TypeOK, InLine, [Next]_vars
  PROVE  InLine'
<1> USE Callers, Places, PlacesAsk
<1> USE DEF sweep
<1>1. ASSUME NEW st \in Stream, NEW place \in InStore \union {"closing"}, UNCHANGED closing,
             Goto(st, place), Served(st), AsksAgain
      PROVE  InLine'
  <2>1. Asking' = Asking \union {st}
    BY <1>1, PlaceChanges
  <2>2. st \in Asking
    BY <1>1, CallersTyped, HeadLeaves DEF InLine, Served
  <2> QED
    BY <1>1, <2>1, <2>2, AgainInLine
<1>2. ASSUME NEW st \in Stream, NEW place \in {"live", "ending", "closed"}, UNCHANGED closing,
             Goto(st, place), Served(st), Leaves
      PROVE  InLine'
  <2>1. Asking' = Asking \ {st}
    BY <1>2, PlaceChanges
  <2> QED
    BY <1>2, <2>1, LeavesLine
<1>3. ASSUME NEW st \in Stream, NEW place \in InStore \union {"closing"}, UNCHANGED closing,
             pc[st] \in {"new", "live", "ending"}, Goto(st, place), calls' = Append(calls, st)
      PROVE  InLine'
  <2>1. Asking' = Asking \union {st} /\ st \notin Asking
    BY <1>3, PlaceChanges, NotAsking
  <2> QED
    BY <1>3, <2>1, JoinsLine
<1>4. ASSUME NEW st \in Stream, FindSession(st) PROVE InLine'
  <2>1. \E place \in InStore : Goto(st, place)
    BY <1>4 DEF FindSession, AfterSession, InStore
  <2> QED
    BY <1>1, <1>4, <2>1 DEF FindSession
<1>5. ASSUME NEW st \in Stream, CreateSession(st) PROVE InLine'
  <2>1. \E place \in InStore : Goto(st, place)
    BY <1>5 DEF CreateSession, AfterSession, InStore
  <2> QED
    BY <1>1, <1>5, <2>1 DEF CreateSession
<1>6. ASSUME NEW st \in Stream, FindAgent(st) PROVE InLine'
  <2>1. \/ Goto(st, "register") /\ AsksAgain
        \/ Goto(st, "live") /\ Leaves
    BY <1>6 DEF FindAgent
  <2> QED
    BY <1>1, <1>2, <1>6, <2>1 DEF FindAgent
<1>7. ASSUME NEW st \in Stream, RegisterAgent(st) PROVE InLine'
  BY <1>2, <1>7 DEF RegisterAgent
<1>8. ASSUME NEW st \in Stream, BeatStored(st) PROVE InLine'
  <2>1. \/ Goto(st, "sample") /\ AsksAgain
        \/ Goto(st, "live") /\ Leaves
    BY <1>8 DEF BeatStored
  <2> QED
    BY <1>1, <1>2, <1>8, <2>1 DEF BeatStored
<1>9. ASSUME NEW st \in Stream, SampleStored(st) PROVE InLine'
  BY <1>2, <1>9 DEF SampleStored
<1>10. ASSUME NEW st \in Stream, CloseStored(st) PROVE InLine'
  <2>1. \E place \in {"ending", "closed"} : Goto(st, place)
    BY <1>10 DEF CloseStored
  <2> QED
    BY <1>2, <1>10, <2>1 DEF CloseStored
<1>11. CASE SweepStored
  <2>1. Asking' = Asking \ {Sweeper}
    BY <1>11 DEF SweepStored, rpc, Asking, SweepAsks
  <2> QED
    BY <1>11, <2>1, LeavesLine DEF SweepStored
<1>12. ASSUME NEW st \in Stream, NEW s \in Session, HelloArrives(st, s) \/ RouteArrives(st, s)
      PROVE  InLine'
  BY <1>3, <1>12 DEF HelloArrives, RouteArrives, Asks
<1>13. ASSUME NEW st \in Stream, Heartbeat(st) PROVE InLine'
  <2>1. \E place \in InStore : Goto(st, place)
    BY <1>13 DEF Heartbeat
  <2> QED
    BY <1>3, <1>13, <2>1 DEF Heartbeat, Asks
<1>14. ASSUME NEW st \in Stream, GoodbyeArrives(st) \/ RpcEnds(st) PROVE InLine'
  <2>1. PICK waiting \in {"goodbye", "closing"}, done \in {"ending", "closed"} :
          CloseStream(st, waiting, done, calls)
    BY <1>14 DEF GoodbyeArrives, RpcEnds
  <2>2. pc[st] \in {"live", "ending"} /\ UNCHANGED closing
    BY <1>14 DEF GoodbyeArrives, RpcEnds
  <2>3. CASE Goto(st, waiting) /\ calls' = Append(calls, st)
    BY <1>3, <2>2, <2>3
  <2>4. CASE Goto(st, done) /\ calls' = calls
    <3>1. Asking' = Asking \ {st} /\ st \notin Asking
      BY <2>2, <2>4, PlaceChanges, NotAsking
    <3> QED
      BY <2>4, <3>1 DEF InLine
  <2> QED
    BY <2>1, <2>3, <2>4, Closing
<1>15. ASSUME NEW st \in Stream, RpcCancelled(st) PROVE InLine'
  <2>1. PICK k \in DOMAIN calls :
          /\ calls[k] = st /\ UNCHANGED closing
          /\ \/ Goto(st, "closed") /\ calls' = RemoveAt(calls, k)
             \/ CloseStream(st, "closing", "closed", RemoveAt(calls, k))
    BY <1>15 DEF RpcCancelled
  <2>2. CASE Goto(st, "closed") /\ calls' = RemoveAt(calls, k)
    <3>1. Asking' = Asking \ {calls[k]}
      BY <2>1, <2>2, PlaceChanges
    <3> QED
      BY <2>2, <3>1, OneLeavesLine
  <2>3. CASE Goto(st, "closing") /\ calls' = Append(RemoveAt(calls, k), st)
    <3>1. st \in Asking
      BY <2>1 DEF InLine
    <3>2. Asking' = Asking \union {st}
      BY <2>1, <2>3, PlaceChanges
    <3>3. Asking' = Asking
      BY <3>1, <3>2
    <3>4. calls' = Append(RemoveAt(calls, k), calls[k])
      BY <2>1, <2>3
    <3> QED
      BY <3>3, <3>4, OneMovesInLine
  <2> QED
    BY <2>1, <2>2, <2>3, Closing
<1>16. CASE SweepCloses
  <2>1. UNCHANGED pc /\ closing = None
    BY <1>16 DEF SweepCloses, rpc
  <2>2. CASE UNCHANGED <<calls, closing>>
    BY <2>1, <2>2 DEF InLine, Asking, SweepAsks
  <2>3. CASE closing' \in Stream /\ Asks(Sweeper)
    <3>1. Asking' = Asking \union {Sweeper} /\ Sweeper \notin Asking
      BY <2>1, <2>3 DEF Asking, SweepAsks
    <3> QED
      BY <2>3, <3>1, JoinsLine DEF Asks
  <2>4. left \subseteq Stream
    BY DEF TypeOK
  <2> QED
    BY <1>16, <2>2, <2>3, <2>4 DEF SweepCloses
<1>17. CASE Restart
  <2>1. Asking' = {}
    BY <1>17 DEF Restart, Asking, SweepAsks, InStore
  <2> QED
    BY <1>17, <2>1 DEF Restart, InLine
<1>18. ASSUME UNCHANGED <<pc, calls, closing>> PROVE InLine'
  BY <1>18 DEF InLine, Asking, SweepAsks
<1>19. ASSUME NEW st \in Stream, FallsSilent(st) PROVE InLine'
  BY <1>18, <1>19 DEF FallsSilent, rpc
<1>20. CASE SweepLists
  BY <1>18, <1>20 DEF SweepLists, rpc
<1>21. CASE UNCHANGED vars
  BY <1>18, <1>21 DEF vars, rpc
<1> QED
  BY <1>4, <1>5, <1>6, <1>7, <1>8, <1>9, <1>10, <1>11, <1>12, <1>13, <1>14, <1>15, <1>16, <1>17, <1>19,
     <1>20, <1>21 DEF Next, Stored

-----------------------------------------------------------------------------
(* The registry of streams.                                                *)
LEMMA ServingPlaces ==
  \A st \in Stream :
    st \in Serving
      <=> pc[st] \in {"find", "create", "agent", "register", "beat", "sampled_beat", "sample", "live"}
  BY DEF Serving, InStore

LEMMA RegistryKept ==
  ASSUME TypeOK, Registry, [Next]_vars
  PROVE  Registry'
<1> USE Callers, Places
<1> USE DEF sweep, rpc, Registry, RegistryServed, RoutesKnown, Registered, Unharmed, PastHello
<1> DEFINE served == {"find", "create", "agent", "register", "beat", "sampled_beat", "sample", "live"}
<1>0. /\ \A st \in Stream : st \in Serving <=> pc[st] \in served
      /\ Serving' = {st \in Stream : pc'[st] \in served}
      /\ registry \subseteq Stream /\ registry \subseteq Serving
  BY ServingPlaces DEF Serving, InStore
<1>1. ASSUME NEW st \in Stream, NEW place \in served,
             Goto(st, place), place \in PastHello => seen[st] # {},
             pc[st] \in served, UNCHANGED <<registry, seen, swept, cancelled>>
      PROVE  Registry'
  <2>1. pc'[st] = place /\ \A o \in Stream : o # st => pc'[o] = pc[o]
    BY <1>1, GotoTyped
  <2>2. Serving' = Serving
    BY <1>0, <1>1, <2>1 DEF Serving
  <2>3. RoutesKnown'
    BY <1>1, <2>1
  <2> QED
    BY <1>1, <2>2, <2>3
<1>2. ASSUME NEW st \in Stream, NEW place \in PC \ (served \union {"new"}), Goto(st, place),
             place = "goodbye" => seen[st] # {}, registry' = registry \ {st},
             UNCHANGED <<seen, swept>>, UNCHANGED cancelled \/ cancelled'
      PROVE  Registry'
  <2>1. pc'[st] = place /\ \A o \in Stream : o # st => pc'[o] = pc[o]
    BY <1>2, GotoTyped
  <2>2. Serving' = Serving \ {st}
    BY <1>0, <1>2, <2>1 DEF Serving
  <2>3. RoutesKnown'
    BY <1>2, <2>1
  <2> QED
    BY <1>2, <2>2, <2>3
<1>3. ASSUME UNCHANGED <<registry, pc, seen, swept, cancelled>> PROVE Registry'
  BY <1>3 DEF Serving
<1>4. ASSUME NEW st \in Stream, FindSession(st) PROVE Registry'
  <2>1. pc[st] = "find" /\ UNCHANGED <<registry, seen, swept, cancelled>>
    BY <1>4 DEF FindSession
  <2>2. \/ Goto(st, "register") \/ Goto(st, "create")
        \/ Goto(st, "agent") /\ seen[st] # {}
    BY <1>4, <2>1 DEF FindSession, AfterSession, InHello, InStore
  <2> QED
    BY <1>1, <2>1, <2>2
<1>5. ASSUME NEW st \in Stream, CreateSession(st) PROVE Registry'
  <2>1. pc[st] = "create" /\ UNCHANGED <<registry, seen, swept, cancelled>>
    BY <1>5 DEF CreateSession
  <2>2. \/ Goto(st, "register")
        \/ Goto(st, "agent") /\ seen[st] # {}
    BY <1>5, <2>1 DEF CreateSession, AfterSession, InHello, InStore
  <2> QED
    BY <1>1, <2>1, <2>2
<1>6. ASSUME NEW st \in Stream, FindAgent(st) PROVE Registry'
  <2>1. pc[st] = "agent" /\ UNCHANGED <<registry, seen, swept, cancelled>>
    BY <1>6 DEF FindAgent
  <2>2. Goto(st, "register") \/ Goto(st, "live")
    BY <1>6 DEF FindAgent
  <2> QED
    BY <1>1, <2>1, <2>2
<1>7. ASSUME NEW st \in Stream, RegisterAgent(st) PROVE Registry'
  <2>1. /\ pc[st] = "register" /\ Goto(st, "live") /\ UNCHANGED <<swept, cancelled>>
    BY <1>7 DEF RegisterAgent
  <2>2. CASE seen[st] # {} /\ UNCHANGED <<registry, seen>>
    BY <1>1, <2>1, <2>2
  <2>3. CASE registry' = registry \union {st} /\ seen' = [seen EXCEPT ![st] = {target[st]}]
    <3>1. pc'[st] = "live" /\ \A o \in Stream : o # st => pc'[o] = pc[o]
      BY <2>1, GotoTyped
    <3>2. Serving' = Serving /\ st \in Serving
      BY <1>0, <2>1, <3>1 DEF Serving
    <3>3. seen'[st] # {} /\ \A o \in Stream : o # st => seen'[o] = seen[o]
      BY <2>3 DEF TypeOK
    <3>4. RoutesKnown'
      BY <2>3, <3>1, <3>3
    <3> QED
      BY <2>1, <2>3, <3>2, <3>3, <3>4
  <2> QED
    BY <1>7, <2>1, <2>2, <2>3 DEF RegisterAgent, InHello, InStore
<1>8. ASSUME NEW st \in Stream, BeatStored(st) PROVE Registry'
  <2>1. pc[st] \in {"beat", "sampled_beat"} /\ UNCHANGED <<registry, seen, swept, cancelled>>
    BY <1>8 DEF BeatStored
  <2>2. Goto(st, "sample") \/ Goto(st, "live")
    BY <1>8 DEF BeatStored
  <2> QED
    BY <1>1, <2>1, <2>2
<1>9. ASSUME NEW st \in Stream, SampleStored(st) PROVE Registry'
  BY <1>1, <1>9 DEF SampleStored
<1>10. ASSUME NEW st \in Stream, CloseStored(st) PROVE Registry'
  <2>1. st \notin registry
    BY <1>0, <1>10 DEF CloseStored
  <2>2. Goto(st, "ending") \/ Goto(st, "closed")
    BY <1>10 DEF CloseStored
  <2>3. registry' = registry \ {st} /\ UNCHANGED <<seen, swept, cancelled>>
    BY <1>10, <2>1 DEF CloseStored
  <2> QED
    BY <1>2, <2>2, <2>3
<1>11. ASSUME NEW st \in Stream, NEW s \in Session, HelloArrives(st, s) PROVE Registry'
  <2>1. pc[st] = "new" /\ Goto(st, "find") /\ UNCHANGED <<registry, seen, swept, cancelled>>
    BY <1>11 DEF HelloArrives
  <2>2. pc'[st] = "find" /\ \A o \in Stream : o # st => pc'[o] = pc[o]
    BY <2>1, GotoTyped
  <2>3. Serving' = Serving \union {st} /\ seen[st] = {}
    BY <1>0, <2>1, <2>2 DEF Serving
  <2>4. RoutesKnown'
    BY <2>1, <2>2
  <2> QED
    BY <2>1, <2>3, <2>4
<1>12. ASSUME NEW st \in Stream, NEW s \in Session, RouteArrives(st, s) PROVE Registry'
  <2>1. /\ pc[st] = "live" /\ Goto(st, "find") /\ seen' = [seen EXCEPT ![st] = @ \cup {s}]
        /\ UNCHANGED <<registry, swept, cancelled>>
    BY <1>12 DEF RouteArrives
  <2>2. pc'[st] = "find" /\ \A o \in Stream : o # st => pc'[o] = pc[o]
    BY <2>1, GotoTyped
  <2>3. Serving' = Serving
    BY <1>0, <2>1, <2>2 DEF Serving
  <2>4. seen'[st] # {} /\ seen[st] # {} /\ \A o \in Stream : o # st => seen'[o] = seen[o]
    BY <2>1 DEF TypeOK
  <2>5. RoutesKnown'
    BY <2>1, <2>2, <2>4
  <2> QED
    BY <2>1, <2>3, <2>4, <2>5
<1>13. ASSUME NEW st \in Stream, Heartbeat(st) PROVE Registry'
  <2>1. pc[st] = "live" /\ UNCHANGED <<registry, seen, swept, cancelled>>
    BY <1>13 DEF Heartbeat
  <2>2. Goto(st, "beat") \/ Goto(st, "sampled_beat")
    BY <1>13 DEF Heartbeat
  <2> QED
    BY <1>1, <2>1, <2>2
<1>14. ASSUME NEW st \in Stream, GoodbyeArrives(st) PROVE Registry'
  <2>1. pc[st] = "live" /\ UNCHANGED <<seen, swept, cancelled>>
    BY <1>14 DEF GoodbyeArrives
  <2>2. registry' = registry \ {st} /\ (Goto(st, "goodbye") \/ Goto(st, "ending"))
    BY <1>14, Closing DEF GoodbyeArrives
  <2> QED
    BY <1>2, <2>1, <2>2
<1>15. ASSUME NEW st \in Stream, RpcEnds(st) PROVE Registry'
  <2>1. registry' = registry \ {st} /\ (Goto(st, "closing") \/ Goto(st, "closed"))
    BY <1>15, Closing DEF RpcEnds
  <2> QED
    BY <1>2, <1>15, <2>1 DEF RpcEnds
<1>16. ASSUME NEW st \in Stream, RpcCancelled(st) PROVE Registry'
  <2>1. PICK k \in DOMAIN calls :
          /\ cancelled' /\ UNCHANGED <<seen, swept>>
          /\ \/ seen[st] = {} /\ Goto(st, "closed") /\ UNCHANGED registry
             \/ CloseStream(st, "closing", "closed", RemoveAt(calls, k))
    BY <1>16 DEF RpcCancelled, InHello
  <2>2. registry' = registry \ {st} /\ (Goto(st, "closing") \/ Goto(st, "closed"))
    BY <2>1, Closing
  <2> QED
    BY <1>2, <2>1, <2>2
<1>17. CASE SweepCloses
  <2>1. PICK closed \in SUBSET left :
          registry' = registry \ closed /\ swept' = (swept \/ closed \cap registry # {})
    BY <1>17 DEF SweepCloses
  <2>2. UNCHANGED <<pc, seen, cancelled>>
    BY <1>17 DEF SweepCloses
  <2> QED
    BY <2>1, <2>2 DEF Serving
<1>18. CASE Restart
  <2>1. /\ registry' = {} /\ UNCHANGED seen
        /\ \A st \in Stream : pc'[st] = IF pc[st] = "new" THEN "new" ELSE "closed"
    BY <1>18 DEF Restart
  <2>2. Serving' = {}
    BY <1>0, <2>1
  <2> QED
    BY <2>1, <2>2
<1>19. ASSUME NEW st \in Stream, FallsSilent(st) PROVE Registry'
  BY <1>3, <1>19 DEF FallsSilent
<1>20. CASE SweepStored \/ SweepLists \/ UNCHANGED vars
  BY <1>3, <1>20 DEF SweepStored, SweepLists, vars
<1> QED
  BY <1>4, <1>5, <1>6, <1>7, <1>8, <1>9, <1>10, <1>11, <1>12, <1>13, <1>14, <1>15, <1>16, <1>17, <1>18,
     <1>19, <1>20 DEF Next, Stored

-----------------------------------------------------------------------------
(* Closes stay ahead of heartbeats in the line.                            *)
LEMMA JoinsInOrder ==
  ASSUME TypeOK, InLine, ClosesFirst, NEW by \in Caller, by \notin Asking, calls' = Append(calls, by),
         Unharmed' => Unharmed,
         Beats' \ {by} \subseteq Beats, Closes' \ {by} \subseteq Closes,
         Unharmed' => by \notin Closes' \/ Beats' = {}
  PROVE  ClosesFirst'
<1> DEFINE n == Len(calls)
<1>1. /\ DOMAIN calls = 1 .. n /\ n \in Nat /\ DOMAIN calls' = 1 .. n + 1
      /\ \A k \in 1 .. n : calls[k] \in Caller /\ calls'[k] = calls[k]
      /\ calls'[n + 1] = by
  BY CallersTyped, Joins
<1> HIDE DEF n
<1>2. \A k \in 1 .. n : calls[k] # by
  BY <1>1 DEF InLine
<1> SUFFICES ASSUME Unharmed', NEW j \in 1 .. n + 1, NEW k \in 1 .. n + 1,
                    calls'[j] \in Beats', calls'[k] \in Closes'
             PROVE  k < j
  BY <1>1 DEF ClosesFirst
<1>3. k # n + 1
  BY <1>1
<1>4. CASE j = n + 1
  BY <1>1, <1>3, <1>4
<1>5. CASE j # n + 1
  <2>1. j \in 1 .. n /\ k \in 1 .. n
    BY <1>1, <1>3, <1>5
  <2>2. calls[j] \in Beats /\ calls[k] \in Closes
    BY <1>1, <1>2, <2>1
  <2> QED
    BY <1>1, <2>1, <2>2 DEF ClosesFirst
<1> QED
  BY <1>4, <1>5

LEMMA LeavesInOrder ==
  ASSUME TypeOK, ClosesFirst, NEW by, Served(by), Leaves, Unharmed' => Unharmed,
         Beats' \subseteq Beats, Closes' \subseteq Closes
  PROVE  ClosesFirst'
<1> DEFINE n == Len(calls)
<1>1. calls # <<>> /\ calls' = Tail(calls)
  BY DEF Served, Leaves
<1>2. /\ DOMAIN calls = 1 .. n /\ n \in Nat \ {0} /\ DOMAIN calls' = 1 .. n - 1
      /\ \A k \in 1 .. n - 1 : calls'[k] = calls[k + 1]
  BY <1>1, CallersTyped, HeadLeaves
<1> HIDE DEF n
<1> SUFFICES ASSUME Unharmed, NEW j \in 1 .. n - 1, NEW k \in 1 .. n - 1,
                    calls'[j] \in Beats', calls'[k] \in Closes'
             PROVE  k < j
  BY <1>2 DEF ClosesFirst
<1>3. j + 1 \in DOMAIN calls /\ k + 1 \in DOMAIN calls
      /\ calls[j + 1] \in Beats /\ calls[k + 1] \in Closes
  BY <1>2
<1>4. k + 1 < j + 1
  BY <1>3 DEF ClosesFirst
<1> QED
  BY <1>2, <1>4

LEMMA AgainInOrder ==
  ASSUME TypeOK, ClosesFirst, NEW by, Served(by), AsksAgain, Unharmed' => Unharmed,
         Beats' \subseteq Beats \ {by}, Closes' \subseteq Closes \ {by}
  PROVE  ClosesFirst'
<1> DEFINE n == Len(calls)
<1>1. calls # <<>> /\ Head(calls) = by /\ calls' = Append(Tail(calls), Head(calls))
  BY DEF Served, AsksAgain
<1>2. /\ DOMAIN calls = 1 .. n /\ n \in Nat \ {0} /\ DOMAIN calls' = 1 .. n
      /\ \A k \in 1 .. n - 1 : calls'[k] = calls[k + 1]
      /\ calls'[n] = by
  BY <1>1, CallersTyped, HeadLeaves, HeadAsksAgain
<1> HIDE DEF n
<1> SUFFICES ASSUME Unharmed, NEW j \in 1 .. n, NEW k \in 1 .. n,
                    calls'[j] \in Beats', calls'[k] \in Closes'
             PROVE  k < j
  BY <1>2 DEF ClosesFirst
<1>3. j \in 1 .. n - 1 /\ k \in 1 .. n - 1
  BY <1>2
<1>4. j + 1 \in DOMAIN calls /\ k + 1 \in DOMAIN calls
      /\ calls[j + 1] \in Beats /\ calls[k + 1] \in Closes
  BY <1>2, <1>3
<1>5. k + 1 < j + 1
  BY <1>4 DEF ClosesFirst
<1> QED
  BY <1>2, <1>5

(* An agent none of whose streams is registered has no heartbeat under way.*)
LEMMA NoneServed ==
  ASSUME Unharmed', RoutesKnown', Registered', registry' = {}
  PROVE  Beats' = {} /\ Sampled' = {}
<1>1. \A st \in Stream : pc'[st] \notin {"beat", "sampled_beat", "sample"}
  <2> SUFFICES ASSUME NEW st \in Stream, pc'[st] \in {"beat", "sampled_beat", "sample"} PROVE FALSE
    OBVIOUS
  <2>1. seen'[st] # {}
    BY DEF RoutesKnown, PastHello
  <2>2. st \in Serving'
    BY DEF Serving, InStore
  <2> QED
    BY <2>1, <2>2 DEF Registered
<1> QED
  BY <1>1 DEF Beats, Sampled

(* Steps that store no sampled heartbeat and close nothing under a sample. *)
LEMMA SampledStaysLast ==
  ASSUME SampledLast, Unharmed' => Unharmed, Sampled' \subseteq Sampled,
         \A st \in Sampled' : home'[st] = home[st] /\ row'[home[st]] \in {row[home[st]], "CONNECTED"},
         Sampled' # {} /\ Unharmed =>
           \A k \in DOMAIN calls' : calls'[k] \in Closes' =>
             \E j \in DOMAIN calls : calls[j] \in Closes
  PROVE  SampledLast'
<1> SUFFICES ASSUME Unharmed', Sampled' # {}
             PROVE  /\ \A st \in Sampled' : row'[home'[st]] = "CONNECTED"
                    /\ \A k \in DOMAIN calls' : calls'[k] \notin Closes'
  BY DEF SampledLast
<1>1. Unharmed /\ Sampled # {}
  OBVIOUS
<1>2. (\A st \in Sampled : row[home[st]] = "CONNECTED") /\ \A k \in DOMAIN calls : calls[k] \notin Closes
  BY <1>1 DEF SampledLast
<1>3. \A st \in Sampled' : row'[home'[st]] = "CONNECTED"
  BY <1>2
<1> QED
  BY <1>1, <1>2, <1>3

(* Steps that tell the browsers what they store.                           *)
LEMMA ShownWithRow ==
  ASSUME ShownOrSampled, Unharmed' => Unharmed, Sampled \subseteq Sampled',
         \A st \in Sampled : home'[st] = home[st],
         \A s \in Session : shown'[s] = row'[s] \/ (shown'[s] = shown[s] /\ row'[s] = row[s])
  PROVE  ShownOrSampled'
<1> SUFFICES ASSUME Unharmed', NEW s \in Session, shown'[s] # row'[s]
             PROVE  \E st \in Sampled' : s = home'[st]
  BY DEF ShownOrSampled
<1>1. \E st \in Sampled : s = home[st]
  BY DEF ShownOrSampled
<1> QED
  BY <1>1

(* What is in the line after a step was in it before.                      *)
LEMMA SameCallers ==
  ASSUME TypeOK, NEW by, Served(by), AsksAgain \/ Leaves
  PROVE  \A k \in DOMAIN calls' : \E j \in DOMAIN calls : calls'[k] = calls[j]
<1> DEFINE n == Len(calls)
<1>1. calls # <<>> /\ Head(calls) = calls[1]
  BY CallersTyped DEF Served
<1>2. DOMAIN calls = 1 .. n /\ n \in Nat \ {0}
  BY <1>1, CallersTyped, HeadLeaves
<1>3. CASE AsksAgain
  <2>1. /\ DOMAIN calls' = 1 .. n /\ calls'[n] = calls[1]
        /\ \A k \in 1 .. n - 1 : calls'[k] = calls[k + 1]
    BY <1>1, <1>3, HeadAsksAgain DEF AsksAgain
  <2> HIDE DEF n
  <2>2. \A k \in 1 .. n : k = n \/ (k \in 1 .. n - 1 /\ k + 1 \in 1 .. n)
    BY <1>2
  <2> QED
    BY <1>2, <2>1, <2>2
<1>4. CASE Leaves
  <2>1. DOMAIN calls' = 1 .. n - 1 /\ \A k \in 1 .. n - 1 : calls'[k] = calls[k + 1]
    BY <1>1, <1>4, HeadLeaves DEF Leaves
  <2> HIDE DEF n
  <2>2. \A k \in 1 .. n - 1 : k + 1 \in 1 .. n
    BY <1>2
  <2> QED
    BY <1>2, <2>1, <2>2
<1> QED
  BY <1>3, <1>4

(* A step that makes the agent connected, in the row and in the browsers.  *)
TellsConnected ==
  \A s \in Session :
    \/ row'[s] = "CONNECTED" /\ shown'[s] = "CONNECTED"
    \/ row'[s] = row[s] /\ shown'[s] = shown[s]

LEMMA OrderKept ==
  ASSUME TypeOK, InLine, Registry, Order, RoutesKnown', Registered', [Next]_vars
  PROVE  Order'
<1> USE Callers, Places, PlacesAsk
<1> USE DEF sweep, rpc, db, Order, Registry, TellsConnected
(* Served and back in the line; served and gone.                           *)
<1>1. ASSUME NEW st \in Stream, NEW place \in {"create", "agent", "register"},
             Goto(st, place), Served(st), AsksAgain,
             UNCHANGED <<row, shown, home, closing, swept, cancelled>>, pc[st] \in {"find", "create", "agent"}
      PROVE  Order'
  <2>1. Beats' = Beats \ {st} /\ Closes' = Closes \ {st} /\ Sampled' = Sampled
    BY <1>1, PlaceChanges DEF Sampled
  <2>2. Unharmed' => Unharmed
    BY <1>1 DEF Unharmed
  <2>3. ClosesFirst'
    BY <1>1, <2>1, <2>2, AgainInOrder
  <2>4. \A k \in DOMAIN calls' : \E j \in DOMAIN calls : calls'[k] = calls[j]
    BY <1>1, SameCallers
  <2>5. SampledLast'
    BY <1>1, <2>1, <2>2, <2>4, SampledStaysLast
  <2>6. ShownOrSampled'
    BY <1>1, <2>1, <2>2, ShownWithRow
  <2> QED
    BY <2>3, <2>5, <2>6
<1>2. ASSUME UNCHANGED <<row, shown, home, pc, closing, calls, cancelled>>, swept' \/ UNCHANGED swept
      PROVE  Order'
  <2>1. Beats' = Beats /\ Closes' = Closes /\ Sampled' = Sampled
    BY <1>2 DEF Beats, Closes, Sampled, SweepAsks
  <2>2. Unharmed' => Unharmed
    BY <1>2 DEF Unharmed
  <2> QED
    BY <1>2, <2>1, <2>2 DEF ClosesFirst, SampledLast, ShownOrSampled
(* Joining the line.                                                       *)
<1>3. ASSUME NEW st \in Stream, NEW place \in {"find", "beat", "sampled_beat"},
             pc[st] \in {"new", "live"}, Goto(st, place), calls' = Append(calls, st),
             UNCHANGED <<row, shown, closing, swept, cancelled>>,
             \A o \in Stream : o # st => home'[o] = home[o]
      PROVE  Order'
  <2>1. Beats' \ {st} \subseteq Beats /\ Closes' = Closes \ {st} /\ Sampled' = Sampled /\ st \notin Sampled
    BY <1>3, PlaceChanges DEF Sampled
  <2>2. (Unharmed' => Unharmed) /\ st \notin Asking
    BY <1>3, NotAsking DEF Unharmed
  <2>3. ClosesFirst'
    BY <1>3, <2>1, <2>2, JoinsInOrder
  <2>4. \A o \in Sampled : o \in Stream /\ home'[o] = home[o]
    BY <1>3, <2>1 DEF Sampled
  <2>5. \A k \in DOMAIN calls' : calls'[k] \in Closes' => \E j \in DOMAIN calls : calls[j] \in Closes
    <3>1. /\ DOMAIN calls = 1 .. Len(calls) /\ Len(calls) \in Nat /\ DOMAIN calls' = 1 .. Len(calls) + 1
          /\ \A k \in 1 .. Len(calls) : calls'[k] = calls[k]
          /\ calls'[Len(calls) + 1] = st
      BY <1>3, CallersTyped, Joins
    <3> QED
      BY <2>1, <3>1
  <2>6. SampledLast'
    BY <1>3, <2>1, <2>2, <2>4, <2>5, SampledStaysLast
  <2>7. ShownOrSampled'
    BY <1>3, <2>1, <2>2, <2>4, ShownWithRow
  <2> QED
    BY <2>3, <2>6, <2>7
(* A close asks the store when the registry is empty.                      *)
<1>4. ASSUME NEW by \in Caller, by \notin Asking, registry' = {}, calls' = Append(calls, by),
             Beats' \ {by} \subseteq Beats, Closes' \ {by} \subseteq Closes, Sampled' = Sampled,
             UNCHANGED <<row, shown, home, cancelled>>, swept' \/ UNCHANGED swept
      PROVE  Order'
  <2>1. Unharmed' => Unharmed
    BY <1>4 DEF Unharmed
  <2>2. Unharmed' => Beats' = {} /\ Sampled' = {}
    BY <1>4, NoneServed
  <2>3. ClosesFirst'
    BY <1>4, <2>1, <2>2, JoinsInOrder
  <2>4. SampledLast'
    BY <2>2 DEF SampledLast
  <2>5. ShownOrSampled'
    BY <1>4, <2>1, ShownWithRow
  <2> QED
    BY <2>3, <2>4, <2>5
(* Served with the row and the browsers told.                              *)
<1>5. ASSUME NEW st \in Stream, Goto(st, "live"), Served(st), Leaves, pc[st] # "sample",
             UNCHANGED <<home, closing, swept, cancelled>>, TellsConnected
      PROVE  Order'
  <2>1. Beats' = Beats \ {st} /\ Closes' = Closes \ {st} /\ Sampled' = Sampled
    BY <1>5, PlaceChanges DEF Sampled
  <2>2. Unharmed' => Unharmed
    BY <1>5 DEF Unharmed
  <2>3. ClosesFirst'
    BY <1>5, <2>1, <2>2, LeavesInOrder
  <2>4. \A k \in DOMAIN calls' : \E j \in DOMAIN calls : calls'[k] = calls[j]
    BY <1>5, SameCallers
  <2>5. \A o \in Sampled : home[o] \in Session
    BY DEF Sampled, TypeOK
  <2>6. SampledLast'
    BY <1>5, <2>1, <2>2, <2>4, <2>5, SampledStaysLast
  <2>7. ShownOrSampled'
    BY <1>5, <2>1, <2>2, ShownWithRow
  <2> QED
    BY <2>3, <2>6, <2>7
(* A close is stored: no heartbeat is between its calls.                   *)
<1>6. ASSUME NEW by \in Closes, Served(by), Leaves, UNCHANGED <<home, swept, cancelled>>,
             Beats' = Beats, Closes' \subseteq Closes, Sampled' = Sampled,
             \A s \in Session : row'[s] = shown'[s] \/ (row'[s] = row[s] /\ shown'[s] = shown[s])
      PROVE  Order'
  <2>1. Unharmed' => Unharmed
    BY <1>6 DEF Unharmed
  <2>2. ClosesFirst'
    BY <1>6, <2>1, LeavesInOrder
  <2>3. 1 \in DOMAIN calls /\ calls[1] = by
    BY <1>6, CallersTyped, HeadLeaves DEF Served
  <2>4. Unharmed => Sampled = {}
    BY <1>6, <2>3 DEF SampledLast
  <2>5. SampledLast'
    BY <1>6, <2>1, <2>4 DEF SampledLast
  <2>6. ShownOrSampled'
    BY <1>6, <2>1, ShownWithRow
  <2> QED
    BY <2>2, <2>5, <2>6
<1>7. ASSUME NEW st \in Stream, FindSession(st) \/ CreateSession(st) \/ FindAgent(st) PROVE Order'
  <2>1. /\ UNCHANGED <<row, shown, home, closing, swept, cancelled>> /\ Served(st)
        /\ pc[st] \in {"find", "create", "agent"}
    BY <1>7 DEF FindSession, CreateSession, FindAgent
  <2>2. \/ AsksAgain /\ \E place \in {"create", "agent", "register"} : Goto(st, place)
        \/ Leaves /\ Goto(st, "live")
    BY <1>7 DEF FindSession, CreateSession, FindAgent, AfterSession
  <2> QED
    BY <1>1, <1>5, <2>1, <2>2
<1>8. ASSUME NEW st \in Stream, RegisterAgent(st) PROVE Order'
  <2>1. TellsConnected
    BY <1>8 DEF RegisterAgent, SetRow, Show, TypeOK
  <2> QED
    BY <1>5, <1>8, <2>1 DEF RegisterAgent
<1>9. ASSUME NEW st \in Stream, BeatStored(st) PROVE Order'
  <2>1. /\ Served(st) /\ pc[st] \in {"beat", "sampled_beat"}
        /\ row' = [row EXCEPT ![home[st]] = "CONNECTED"]
        /\ UNCHANGED <<home, closing, swept, cancelled>>
    BY <1>9 DEF BeatStored, SetRow
  <2>2. CASE pc[st] = "beat"
    <3>1. shown' = [shown EXCEPT ![home[st]] = "CONNECTED"] /\ Goto(st, "live") /\ Leaves
      BY <1>9, <2>2 DEF BeatStored, Show
    <3>2. TellsConnected
      BY <2>1, <3>1 DEF TypeOK
    <3> QED
      BY <1>5, <2>1, <3>1, <3>2
  <2>3. CASE pc[st] = "sampled_beat"
    <3>1. /\ Goto(st, "sample") /\ AsksAgain
          /\ shown' = shown \/ shown' = [shown EXCEPT ![home[st]] = "CONNECTED"]
      BY <1>9, <2>3 DEF BeatStored, Show
    <3>2. Beats' = Beats \ {st} /\ Closes' = Closes \ {st} /\ Sampled' = Sampled \union {st}
      BY <2>1, <3>1, PlaceChanges
    <3>3. Unharmed' => Unharmed
      BY <2>1 DEF Unharmed
    <3>4. ClosesFirst'
      BY <2>1, <3>1, <3>2, <3>3, AgainInOrder
    <3>5. home[st] \in Session /\ \A s \in Session : row'[s] = IF s = home[st] THEN "CONNECTED" ELSE row[s]
      BY <2>1 DEF TypeOK
    <3>6. SampledLast'
      <4>1. SUFFICES ASSUME Unharmed
                     PROVE  /\ \A o \in Sampled' : row'[home'[o]] = "CONNECTED"
                            /\ \A k \in DOMAIN calls' : calls'[k] \notin Closes'
        BY <3>3 DEF SampledLast
      <4>2. \A o \in Sampled' : row'[home'[o]] = "CONNECTED"
        <5>1. \A o \in Sampled : home[o] \in Session /\ row[home[o]] = "CONNECTED"
          BY <4>1 DEF SampledLast, Sampled, TypeOK
        <5> QED
          BY <2>1, <3>2, <3>5, <5>1
      <4>3. 1 \in DOMAIN calls /\ calls[1] = st /\ st \in Beats
        BY <2>1, CallersTyped, HeadLeaves DEF Served, Beats
      <4>4. \A k \in DOMAIN calls : calls[k] \notin Closes
        <5>1. SUFFICES ASSUME NEW k \in DOMAIN calls, calls[k] \in Closes PROVE FALSE
          OBVIOUS
        <5>2. k < 1
          BY <4>1, <4>3, <5>1 DEF ClosesFirst
        <5> QED
          BY <5>2, CallersTyped
      <4>5. \A k \in DOMAIN calls' : calls'[k] \notin Closes'
        BY <2>1, <3>1, <3>2, <4>4, SameCallers
      <4> QED
        BY <4>2, <4>5
    <3>7. ShownOrSampled'
      <4>1. SUFFICES ASSUME Unharmed', NEW s \in Session, shown'[s] # row'[s]
                     PROVE  s \in {home'[o] : o \in Sampled'}
        BY DEF ShownOrSampled
      <4>2. CASE s = home[st]
        BY <2>1, <3>2, <4>2
      <4>3. CASE s # home[st]
        <5>1. shown'[s] = shown[s] /\ row'[s] = row[s]
          BY <3>1, <3>5, <4>3 DEF TypeOK
        <5>2. s \in {home[o] : o \in Sampled}
          BY <3>3, <4>1, <5>1 DEF ShownOrSampled
        <5> QED
          BY <2>1, <3>2, <5>2
      <4> QED
        BY <4>2, <4>3
    <3> QED
      BY <3>4, <3>6, <3>7
  <2> QED
    BY <2>1, <2>2, <2>3
<1>10. ASSUME NEW st \in Stream, SampleStored(st) PROVE Order'
  <2>1. /\ Served(st) /\ Leaves /\ pc[st] = "sample" /\ Goto(st, "live")
        /\ shown' = [shown EXCEPT ![home[st]] = "CONNECTED"]
        /\ UNCHANGED <<row, home, closing, swept, cancelled>>
    BY <1>10 DEF SampleStored, Show
  <2>2. Beats' = Beats \ {st} /\ Closes' = Closes \ {st} /\ Sampled' = Sampled \ {st}
    BY <2>1, PlaceChanges
  <2>3. Unharmed' => Unharmed
    BY <2>1 DEF Unharmed
  <2>4. ClosesFirst'
    BY <2>1, <2>2, <2>3, LeavesInOrder
  <2>5. \A k \in DOMAIN calls' : \E j \in DOMAIN calls : calls'[k] = calls[j]
    BY <2>1, SameCallers
  <2>6. SampledLast'
    BY <2>1, <2>2, <2>3, <2>5, SampledStaysLast
  <2>7. ShownOrSampled'
    <3>1. SUFFICES ASSUME Unharmed', NEW s \in Session, shown'[s] # row'[s]
                   PROVE  s \in {home'[o] : o \in Sampled'}
      BY DEF ShownOrSampled
    <3>2. Unharmed /\ st \in Sampled
      BY <2>1, <2>3, <3>1 DEF Sampled
    <3>3. home[st] \in Session /\ row[home[st]] = "CONNECTED"
      BY <3>2 DEF SampledLast, TypeOK
    <3>4. s # home[st] /\ shown'[s] = shown[s] /\ row'[s] = row[s]
      BY <2>1, <3>1, <3>3 DEF TypeOK
    <3>5. s \in {home[o] : o \in Sampled}
      BY <3>1, <3>2, <3>4 DEF ShownOrSampled
    <3> QED
      BY <2>1, <2>2, <3>4, <3>5
  <2> QED
    BY <2>4, <2>6, <2>7
<1>11. ASSUME NEW st \in Stream, CloseStored(st) PROVE Order'
  <2>1. /\ Served(st) /\ Leaves /\ pc[st] \in {"goodbye", "closing"}
        /\ Goto(st, "ending") \/ Goto(st, "closed")
        /\ UNCHANGED <<home, closing, swept, cancelled>>
    BY <1>11 DEF CloseStored
  <2>2. Beats' = Beats /\ Closes' \subseteq Closes /\ Sampled' = Sampled /\ st \in Closes
    BY <2>1, PlaceChanges DEF Sampled, Beats, Closes
  <2>3. \A s \in Session : row'[s] = shown'[s] \/ (row'[s] = row[s] /\ shown'[s] = shown[s])
    BY <1>11 DEF CloseStored, Disconnect, SetRow, Show, TypeOK
  <2> QED
    BY <1>6, <2>1, <2>2, <2>3
<1>12. CASE SweepStored
  <2>1. Served(Sweeper) /\ Leaves /\ closing' = None /\ UNCHANGED <<pc, home, swept, cancelled>>
    BY <1>12 DEF SweepStored
  <2>2. Sweeper \in Closes
    <3>1. 1 \in DOMAIN calls /\ calls[1] = Sweeper
      BY <2>1, CallersTyped, HeadLeaves DEF Served
    <3>2. Sweeper \in Asking
      BY <3>1 DEF InLine
    <3> QED
      BY <3>2 DEF Asking, Closes
  <2>3. Beats' = Beats /\ Closes' \subseteq Closes /\ Sampled' = Sampled
    BY <2>1 DEF Sampled, Beats, Closes, SweepAsks
  <2>4. \A s \in Session : row'[s] = shown'[s] \/ (row'[s] = row[s] /\ shown'[s] = shown[s])
    BY <1>12 DEF SweepStored, Disconnect, SetRow, Show, TypeOK
  <2> QED
    BY <1>6, <2>1, <2>2, <2>3, <2>4
<1>13. ASSUME NEW st \in Stream, NEW s \in Session, HelloArrives(st, s) \/ RouteArrives(st, s) PROVE Order'
  <2>1. /\ pc[st] \in {"new", "live"} /\ Goto(st, "find") /\ calls' = Append(calls, st)
        /\ UNCHANGED <<row, shown, closing, swept, cancelled>>
    BY <1>13 DEF HelloArrives, RouteArrives, Asks
  <2>2. \A o \in Stream : o # st => home'[o] = home[o]
    BY <1>13 DEF HelloArrives, RouteArrives, TypeOK
  <2> QED
    BY <1>3, <2>1, <2>2
<1>14. ASSUME NEW st \in Stream, Heartbeat(st) PROVE Order'
  <2>1. \E place \in {"beat", "sampled_beat"} : Goto(st, place)
    BY <1>14 DEF Heartbeat
  <2> QED
    BY <1>3, <1>14, <2>1 DEF Heartbeat, Asks
<1>15. ASSUME NEW st \in Stream, GoodbyeArrives(st) \/ RpcEnds(st) PROVE Order'
  <2>1. PICK waiting \in {"goodbye", "closing"}, done \in {"ending", "closed"} :
          CloseStream(st, waiting, done, calls)
    BY <1>15 DEF GoodbyeArrives, RpcEnds
  <2>2. pc[st] \in {"live", "ending"} /\ UNCHANGED <<row, shown, home, closing, swept, cancelled>>
    BY <1>15 DEF GoodbyeArrives, RpcEnds
  <2>3. CASE registry' = {} /\ Goto(st, waiting) /\ calls' = Append(calls, st)
    <3>1. /\ Beats' \ {st} \subseteq Beats /\ Closes' \ {st} \subseteq Closes /\ Sampled' = Sampled
          /\ st \notin Asking
      BY <2>2, <2>3, PlaceChanges, NotAsking DEF Sampled
    <3> QED
      BY <1>4, <2>2, <2>3, <3>1
  <2>4. CASE Goto(st, done) /\ calls' = calls
    <3>1. Beats' = Beats /\ Closes' = Closes /\ Sampled' = Sampled
      BY <2>2, <2>4, PlaceChanges DEF Sampled, Beats, Closes, SweepAsks
    <3> QED
      BY <2>2, <2>4, <3>1 DEF ClosesFirst, SampledLast, ShownOrSampled, Unharmed
  <2> QED
    BY <2>1, <2>3, <2>4, Closing
<1>16. ASSUME NEW st \in Stream, RpcCancelled(st) PROVE Order'
  <2>1. ~Unharmed'
    BY <1>16 DEF RpcCancelled, Unharmed
  <2> QED
    BY <2>1 DEF ClosesFirst, SampledLast, ShownOrSampled
<1>17. CASE SweepCloses
  <2>1. closing = None /\ UNCHANGED <<row, shown, home, pc, cancelled>> /\ (swept' \/ UNCHANGED swept)
    BY <1>17 DEF SweepCloses, TypeOK
  <2>2. CASE UNCHANGED <<calls, closing>>
    BY <1>2, <2>1, <2>2
  <2>3. CASE registry' = {} /\ Asks(Sweeper)
    <3>1. /\ Beats' = Beats /\ Sampled' = Sampled /\ Closes' \ {Sweeper} \subseteq Closes
          /\ Sweeper \notin Asking
      BY <2>1 DEF Beats, Sampled, Closes, Asking, SweepAsks
    <3> QED
      BY <1>4, <2>1, <2>3, <3>1 DEF Asks
  <2> QED
    BY <1>17, <2>2, <2>3 DEF SweepCloses
<1>18. CASE Restart
  <2>1. Sampled' = {} /\ DOMAIN calls' = {} /\ shown' = row'
    BY <1>18 DEF Restart, Sampled
  <2> QED
    BY <2>1 DEF ClosesFirst, SampledLast, ShownOrSampled
<1>19. ASSUME NEW st \in Stream, FallsSilent(st) PROVE Order'
  BY <1>2, <1>19 DEF FallsSilent
<1>20. CASE SweepLists \/ UNCHANGED vars
  BY <1>2, <1>20 DEF SweepLists, vars
<1> QED
  BY <1>7, <1>8, <1>9, <1>10, <1>11, <1>12, <1>13, <1>14, <1>15, <1>16, <1>17, <1>18, <1>19, <1>20
     DEF Next, Stored

-----------------------------------------------------------------------------
LEMMA InitIInv == Init => IInv
<1> SUFFICES ASSUME Init PROVE IInv
  OBVIOUS
<1> USE DEF Init
<1>1. TypeOK
  <2>1. (CHOOSE s \in Session : TRUE) \in Session
    BY SessionAssumption
  <2>2. calls \in Seq(Stream \union {Sweeper})
    BY EmptySeq
  <2>3. row \in [Session -> Status] /\ shown \in [Session -> Status]
    BY DEF Status
  <2>4. home \in [Stream -> Session] /\ target \in [Stream -> Session]
    BY <2>1
  <2>5. pc \in [Stream -> PC] /\ seen \in [Stream -> SUBSET Session]
    BY Places
  <2>6. restarts \in 0 .. MaxRestarts
    BY RestartsAssumption
  <2>7. sessions \subseteq Session /\ registry \subseteq Stream /\ late \subseteq Stream /\ left \subseteq Stream
    OBVIOUS
  <2>8. closing \in Stream \union {None} /\ swept \in BOOLEAN /\ cancelled \in BOOLEAN
    OBVIOUS
  <2> HIDE DEF Init
  <2> QED
    BY <2>2, <2>3, <2>4, <2>5, <2>6, <2>7, <2>8 DEF TypeOK
<1>2. InLine
  BY DEF InLine, Asking, SweepAsks, InStore
<1>3. Registry
  <2>1. \A st \in Stream : pc[st] = "new" /\ seen[st] = {} /\ st \notin registry
    OBVIOUS
  <2>2. RegistryServed
    BY DEF RegistryServed
  <2>3. RoutesKnown
    BY <2>1 DEF RoutesKnown, PastHello
  <2>4. {st \in Serving : seen[st] # {}} = {}
    BY <2>1 DEF Serving
  <2> QED
    BY <2>2, <2>3, <2>4 DEF Registry, Registered
<1>4. Order
  BY DEF Order, ClosesFirst, SampledLast, ShownOrSampled, Sampled
<1> QED
  BY <1>1, <1>2, <1>3, <1>4 DEF IInv

LEMMA NextIInv == IInv /\ [Next]_vars => IInv'
<1> SUFFICES ASSUME IInv, [Next]_vars PROVE IInv'
  OBVIOUS
<1>1. TypeOK' /\ InLine' /\ Registry'
  BY TypesKept, LineKept, RegistryKept DEF IInv
<1>2. Order'
  BY <1>1, OrderKept DEF IInv, Registry
<1> QED
  BY <1>1, <1>2 DEF IInv

LEMMA IInvImplies == IInv => RowsAndRegistryAgree
<1> SUFFICES ASSUME IInv PROVE RowsAndRegistryAgree
  OBVIOUS
<1>1. ASSUME Quiet, ~swept, ~cancelled, NEW s \in Session PROVE shown[s] = row[s]
  <2>1. Sampled = {}
    BY <1>1 DEF Quiet, Sampled
  <2> QED
    BY <1>1, <2>1 DEF IInv, Order, ShownOrSampled, Unharmed
<1> QED
  BY <1>1 DEF IInv, Registry, RowsAndRegistryAgree, ShownIsStored

(* Between handlers, the registry of streams, the agents' rows and what    *)
(* the browsers show of them agree (handle_hello, _ensure_route,           *)
(* _handle_heartbeat, close_stream, sweep_heartbeats).                     *)
THEOREM RowsAgree == Spec => []RowsAndRegistryAgree
<1> QED
  BY InitIInv, NextIInv, IInvImplies, PTL DEF Spec

-----------------------------------------------------------------------------
(* How an agent ends.                                                      *)
LEMMA HomesKept ==
  ASSUME TypeOK, Registry, HomesKnown, [Next]_vars
  PROVE  HomesKnown'
<1> USE Callers, Places
<1> USE DEF sweep, rpc, db
<1> DEFINE Keeps == \A s \in Session : row[s] # "absent" => row'[s] # "absent"
<1>0. /\ \A st \in Stream : st \in registry \/ pc[st] \in PastHello => seen[st] # {}
      /\ \A st \in Stream : pc[st] = "new" => seen[st] = {}
      /\ \A st \in registry : st \in Stream /\ pc[st] # "new"
  BY ServingPlaces DEF Registry, RoutesKnown, RegistryServed, TypeOK
<1>1. ASSUME NEW st \in Stream, NEW place \in PC \ {"new"}, Goto(st, place), Keeps,
             place \in InStore => pc[st] \in InStore \/ seen[st] # {},
             UNCHANGED <<home, target, seen, left, closing>>
      PROVE  HomesKnown'
  <2>1. pc'[st] = place /\ \A o \in Stream : o # st => pc'[o] = pc[o]
    BY <1>1, GotoTyped
  <2>2. ASSUME NEW o \in Stream, InHello(o)' PROVE target'[o] = home'[o]
    <3>1. InHello(o)
      BY <1>1, <2>1, <2>2 DEF InHello
    <3> QED
      BY <1>1, <3>1 DEF HomesKnown
  <2>3. ASSUME NEW o \in Stream, seen'[o] # {} PROVE row'[home'[o]] # "absent"
    BY <1>1, <2>3 DEF HomesKnown, TypeOK
  <2>4. ASSUME NEW o \in Stream, o \in left' \/ o = closing' PROVE pc'[o] # "new"
    BY <1>1, <2>1, <2>4 DEF HomesKnown
  <2> QED
    BY <2>2, <2>3, <2>4 DEF HomesKnown
<1>2. ASSUME NEW st \in Stream, FindSession(st) \/ CreateSession(st) \/ FindAgent(st) PROVE HomesKnown'
  <2>1. \E place \in PC \ {"new"} : Goto(st, place)
    BY <1>2 DEF FindSession, CreateSession, FindAgent, AfterSession
  <2>2. pc[st] \in InStore /\ Keeps /\ UNCHANGED <<home, target, seen, left, closing>>
    BY <1>2 DEF FindSession, CreateSession, FindAgent, InStore
  <2> QED
    BY <1>1, <2>1, <2>2
<1>3. ASSUME NEW st \in Stream, RegisterAgent(st) PROVE HomesKnown'
  <2>1. /\ pc[st] = "register" /\ row' = [row EXCEPT ![target[st]] = "CONNECTED"]
        /\ Goto(st, "live") /\ UNCHANGED <<home, target, left, closing>>
        /\ IF InHello(st) THEN seen' = [seen EXCEPT ![st] = {target[st]}] ELSE UNCHANGED seen
    BY <1>3 DEF RegisterAgent, SetRow
  <2>2. Keeps /\ row'[target[st]] # "absent"
    BY <2>1 DEF TypeOK
  <2>3. pc'[st] = "live" /\ \A o \in Stream : o # st => pc'[o] = pc[o] /\ seen'[o] = seen[o]
    BY <2>1, GotoTyped DEF TypeOK
  <2>4. ASSUME NEW o \in Stream, InHello(o)' PROVE target'[o] = home'[o]
    <3>1. InHello(o)
      BY <2>3, <2>4 DEF InHello, InStore
    <3> QED
      BY <2>1, <3>1 DEF HomesKnown
  <2>5. ASSUME NEW o \in Stream, seen'[o] # {} PROVE row'[home'[o]] # "absent"
    <3>1. CASE o # st \/ ~InHello(st)
      <4>1. seen[o] # {} /\ home[o] \in Session
        BY <2>1, <2>3, <2>5, <3>1 DEF TypeOK
      <4> QED
        BY <2>1, <2>2, <4>1 DEF HomesKnown
    <3>2. CASE o = st /\ InHello(st)
      BY <2>1, <2>2, <3>2 DEF HomesKnown
    <3> QED
      BY <3>1, <3>2
  <2>6. ASSUME NEW o \in Stream, o \in left' \/ o = closing' PROVE pc'[o] # "new"
    BY <2>1, <2>3, <2>6 DEF HomesKnown
  <2> QED
    BY <2>4, <2>5, <2>6 DEF HomesKnown
<1>4. ASSUME NEW st \in Stream, BeatStored(st) PROVE HomesKnown'
  <2>1. \E place \in PC \ {"new"} : Goto(st, place)
    BY <1>4 DEF BeatStored
  <2>2. pc[st] \in InStore /\ Keeps /\ UNCHANGED <<home, target, seen, left, closing>>
    BY <1>4 DEF BeatStored, InStore, SetRow, TypeOK
  <2> QED
    BY <1>1, <2>1, <2>2
<1>5. ASSUME NEW st \in Stream, SampleStored(st) PROVE HomesKnown'
  BY <1>1, <1>5 DEF SampleStored, InStore
<1>6. ASSUME NEW st \in Stream, CloseStored(st) PROVE HomesKnown'
  <2>1. \E place \in {"ending", "closed"} : Goto(st, place)
    BY <1>6 DEF CloseStored
  <2>2. Keeps /\ UNCHANGED <<home, target, seen, left, closing>>
    BY <1>6 DEF CloseStored, Disconnect, SetRow, TypeOK
  <2> QED
    BY <1>1, <2>1, <2>2, PlacesAsk
<1>7. ASSUME NEW st \in Stream, NEW s \in Session, HelloArrives(st, s) PROVE HomesKnown'
  <2>1. /\ pc[st] = "new" /\ home' = [home EXCEPT ![st] = s] /\ target' = [target EXCEPT ![st] = s]
        /\ Goto(st, "find") /\ UNCHANGED <<row, seen, left, closing>>
    BY <1>7 DEF HelloArrives
  <2>2. /\ pc'[st] = "find" /\ home'[st] = s /\ target'[st] = s /\ seen[st] = {}
        /\ \A o \in Stream : o # st => pc'[o] = pc[o] /\ home'[o] = home[o] /\ target'[o] = target[o]
    BY <1>0, <2>1, GotoTyped DEF TypeOK
  <2>3. ASSUME NEW o \in Stream, o # st
        PROVE  /\ InHello(o)' => target'[o] = home'[o]
               /\ seen'[o] # {} => row'[home'[o]] # "absent"
               /\ o \in left' \/ o = closing' => pc'[o] # "new"
    BY <2>1, <2>2, <2>3 DEF HomesKnown, InHello
  <2> QED
    BY <2>1, <2>2, <2>3 DEF HomesKnown
<1>8. ASSUME NEW st \in Stream, NEW s \in Session, RouteArrives(st, s) PROVE HomesKnown'
  <2>1. /\ pc[st] = "live" /\ seen' = [seen EXCEPT ![st] = @ \cup {s}]
        /\ target' = [target EXCEPT ![st] = s]
        /\ Goto(st, "find") /\ UNCHANGED <<row, home, left, closing>>
    BY <1>8 DEF RouteArrives
  <2>2. /\ pc'[st] = "find" /\ seen'[st] # {} /\ seen[st] # {}
        /\ \A o \in Stream : o # st => pc'[o] = pc[o] /\ seen'[o] = seen[o] /\ target'[o] = target[o]
    BY <1>0, <2>1, GotoTyped DEF TypeOK, PastHello
  <2>3. ASSUME NEW o \in Stream, o # st
        PROVE  /\ InHello(o)' => target'[o] = home'[o]
               /\ seen'[o] # {} => row'[home'[o]] # "absent"
               /\ o \in left' \/ o = closing' => pc'[o] # "new"
    BY <2>1, <2>2, <2>3 DEF HomesKnown, InHello
  <2>4. ~InHello(st)' /\ row'[home'[st]] # "absent" /\ pc'[st] # "new"
    BY <2>1, <2>2 DEF HomesKnown, InHello
  <2> QED
    BY <2>3, <2>4 DEF HomesKnown
<1>9. ASSUME NEW st \in Stream, Heartbeat(st) PROVE HomesKnown'
  <2>1. \E place \in PC \ {"new"} : Goto(st, place)
    BY <1>9 DEF Heartbeat
  <2>2. seen[st] # {} /\ Keeps /\ UNCHANGED <<home, target, seen, left, closing>>
    BY <1>0, <1>9 DEF Heartbeat, PastHello
  <2> QED
    BY <1>1, <2>1, <2>2
<1>10. ASSUME NEW st \in Stream, GoodbyeArrives(st) PROVE HomesKnown'
  <2>1. Goto(st, "goodbye") \/ Goto(st, "ending")
    BY <1>10, Closing DEF GoodbyeArrives
  <2>2. seen[st] # {} /\ Keeps /\ UNCHANGED <<home, target, seen, left, closing>>
    BY <1>0, <1>10 DEF GoodbyeArrives, PastHello
  <2> QED
    BY <1>1, <2>1, <2>2
<1>11. ASSUME NEW st \in Stream, RpcEnds(st) PROVE HomesKnown'
  <2>1. Goto(st, "closing") \/ Goto(st, "closed")
    BY <1>11, Closing DEF RpcEnds
  <2>2. Keeps /\ UNCHANGED <<home, target, seen, left, closing>>
    BY <1>11 DEF RpcEnds
  <2> QED
    BY <1>1, <2>1, <2>2 DEF InStore
<1>12. ASSUME NEW st \in Stream, RpcCancelled(st) PROVE HomesKnown'
  <2>1. PICK k \in DOMAIN calls :
          /\ UNCHANGED row \/ row' = Written(st)
          /\ \/ Goto(st, "closed")
             \/ CloseStream(st, "closing", "closed", RemoveAt(calls, k))
    BY <1>12 DEF RpcCancelled
  <2>2. Goto(st, "closing") \/ Goto(st, "closed")
    BY <2>1, Closing
  <2>3. Keeps
    BY <2>1 DEF Written, TypeOK
  <2>4. UNCHANGED <<home, target, seen, left, closing>>
    BY <1>12 DEF RpcCancelled
  <2> QED
    BY <1>1, <2>2, <2>3, <2>4 DEF InStore
<1>13. ASSUME UNCHANGED <<pc, home, target, seen>>, Keeps,
              \A o \in Stream : o \in left' \/ o = closing' => pc[o] # "new"
       PROVE  HomesKnown'
  <2>1. ASSUME NEW o \in Stream
        PROVE  /\ InHello(o)' => target'[o] = home'[o]
               /\ seen'[o] # {} => row'[home'[o]] # "absent"
    BY <1>13 DEF HomesKnown, InHello, TypeOK
  <2> QED
    BY <1>13, <2>1 DEF HomesKnown
<1>14. CASE SweepStored
  <2>1. UNCHANGED rpc /\ Keeps /\ UNCHANGED left /\ closing' = None
    BY <1>14 DEF SweepStored, Disconnect, SetRow, TypeOK
  <2> QED
    BY <1>13, <2>1 DEF HomesKnown
<1>15. CASE SweepLists
  BY <1>0, <1>13, <1>15 DEF SweepLists, HomesKnown
<1>16. CASE SweepCloses
  <2>1. UNCHANGED rpc /\ Keeps /\ left' \subseteq left /\ (closing' = closing \/ closing' \in left)
    BY <1>16 DEF SweepCloses
  <2> QED
    BY <1>13, <2>1 DEF HomesKnown
<1>17. CASE Restart
  <2>1. /\ left' = {} /\ closing' = None /\ UNCHANGED <<row, home, target, seen>>
        /\ \A st \in Stream : pc'[st] \notin InStore
    BY <1>17 DEF Restart, InStore
  <2> QED
    BY <2>1 DEF HomesKnown, InHello
<1>18. ASSUME NEW st \in Stream, FallsSilent(st) PROVE HomesKnown'
  BY <1>13, <1>18 DEF FallsSilent, HomesKnown
<1>19. CASE UNCHANGED vars
  BY <1>13, <1>19 DEF vars, HomesKnown
<1> QED
  BY <1>2, <1>3, <1>4, <1>5, <1>6, <1>7, <1>8, <1>9, <1>10, <1>11, <1>12, <1>14, <1>15, <1>16, <1>17,
     <1>18, <1>19 DEF Next, Stored

LEMMA EndKept ==
  ASSUME TypeOK, InLine, Registry, HomesKnown, EndComes, [Next]_vars, Registry'
  PROVE  EndComes'
<1> USE Callers, Places
<1> USE DEF sweep, rpc, db
<1> SUFFICES ASSUME NEW s \in Session, OneHome(s)', row'[s] = "CONNECTED"
             PROVE  Serving' # {} \/ Closes' # {}
  BY DEF EndComes
<1> DEFINE served == {"find", "create", "agent", "register", "beat", "sampled_beat", "sample", "live"}
<1>1. ASSUME NEW st \in Stream, NEW place \in served, Goto(st, place) PROVE Serving' # {}
  <2>1. pc'[st] = place
    BY <1>1, GotoTyped
  <2> QED
    BY <1>1, <2>1 DEF Serving, InStore
<1>2. ASSUME NEW st \in Stream, NEW waiting \in {"goodbye", "closing"}, NEW done \in PC, NEW queue,
             CloseStream(st, waiting, done, queue)
      PROVE  Serving' # {} \/ Closes' # {}
  <2>1. CASE registry' # {}
    BY <2>1 DEF Registry, RegistryServed
  <2>2. CASE Goto(st, waiting)
    <3>1. pc'[st] = waiting
      BY <2>2, GotoTyped
    <3> QED
      BY <3>1 DEF Closes
  <2> QED
    BY <1>2, <2>1, <2>2, Closing
<1>3. ASSUME UNCHANGED <<pc, home, seen, row, restarts>>, closing # None => closing' # None
      PROVE  Serving' # {} \/ Closes' # {}
  <2>1. OneHome(s) /\ row[s] = "CONNECTED"
    BY <1>3 DEF OneHome, InHello
  <2>2. Serving' = Serving /\ Closes \subseteq Closes'
    BY <1>3 DEF Serving, Closes, SweepAsks
  <2> QED
    BY <2>1, <2>2 DEF EndComes
<1>4. ASSUME NEW st \in Stream, FindSession(st) \/ CreateSession(st) \/ FindAgent(st) PROVE Serving' # {}
  <2>1. \E place \in served : Goto(st, place)
    BY <1>4 DEF FindSession, CreateSession, FindAgent, AfterSession
  <2> QED
    BY <1>1, <2>1
<1>5. ASSUME NEW st \in Stream, RegisterAgent(st) \/ SampleStored(st) PROVE Serving' # {}
  BY <1>1, <1>5 DEF RegisterAgent, SampleStored
<1>6. ASSUME NEW st \in Stream, BeatStored(st) PROVE Serving' # {}
  <2>1. Goto(st, "live") \/ Goto(st, "sample")
    BY <1>6 DEF BeatStored
  <2> QED
    BY <1>1, <2>1
<1>7. ASSUME NEW st \in Stream, CloseStored(st) PROVE FALSE
  <2>1. /\ \E place \in {"ending", "closed"} : Goto(st, place)
        /\ row' = [row EXCEPT ![home[st]] = "DISCONNECTED"] /\ UNCHANGED home
    BY <1>7 DEF CloseStored, Disconnect, SetRow
  <2>2. pc'[st] # "new"
    BY <2>1, GotoTyped
  <2>3. home[st] = s
    BY <2>1, <2>2 DEF OneHome
  <2> QED
    BY <2>1, <2>3 DEF TypeOK
<1>8. CASE SweepStored
  <2>1. Sweeper \in Asking
    BY <1>8, CallersTyped, HeadLeaves DEF SweepStored, Served, InLine
  <2>2. closing \in Stream /\ pc[closing] # "new"
    BY <2>1 DEF Asking, SweepAsks, TypeOK, HomesKnown
  <2>3. row' = [row EXCEPT ![home[closing]] = "DISCONNECTED"] /\ UNCHANGED <<pc, home>>
    BY <1>8 DEF SweepStored, Disconnect, SetRow
  <2>4. home[closing] = s
    BY <2>2, <2>3 DEF OneHome
  <2> QED
    BY <2>3, <2>4 DEF TypeOK
<1>9. ASSUME NEW st \in Stream, NEW r \in Session, HelloArrives(st, r) \/ RouteArrives(st, r)
      PROVE  Serving' # {}
  BY <1>1, <1>9 DEF HelloArrives, RouteArrives
<1>10. ASSUME NEW st \in Stream, Heartbeat(st) PROVE Serving' # {}
  <2>1. Goto(st, "beat") \/ Goto(st, "sampled_beat")
    BY <1>10 DEF Heartbeat
  <2> QED
    BY <1>1, <2>1
<1>11. ASSUME NEW st \in Stream, GoodbyeArrives(st) \/ RpcEnds(st) PROVE Serving' # {} \/ Closes' # {}
  BY <1>2, <1>11 DEF GoodbyeArrives, RpcEnds
<1>12. ASSUME NEW st \in Stream, RpcCancelled(st) PROVE Serving' # {} \/ Closes' # {}
  <2>1. PICK k \in DOMAIN calls :
          \/ seen[st] = {} /\ Goto(st, "closed")
          \/ CloseStream(st, "closing", "closed", RemoveAt(calls, k))
    BY <1>12 DEF RpcCancelled, InHello
  <2>2. CASE seen[st] = {} /\ Goto(st, "closed")
    <3>1. pc'[st] = "closed" /\ UNCHANGED seen
      BY <1>12, <2>2, GotoTyped DEF RpcCancelled
    <3> QED
      BY <2>2, <3>1 DEF OneHome, InHello, InStore
  <2> QED
    BY <1>2, <2>1, <2>2
<1>13. ASSUME NEW st \in Stream, FallsSilent(st) PROVE Serving' # {} \/ Closes' # {}
  BY <1>3, <1>13 DEF FallsSilent
<1>14. CASE SweepLists \/ SweepCloses \/ UNCHANGED vars
  BY <1>3, <1>14 DEF SweepLists, SweepCloses, vars
<1>15. CASE Restart
  <2>1. restarts' = restarts + 1 /\ restarts \in Nat
    BY <1>15, RestartsAssumption DEF Restart, TypeOK
  <2> QED
    BY <2>1 DEF OneHome
<1> QED
  BY <1>4, <1>5, <1>6, <1>7, <1>8, <1>9, <1>10, <1>11, <1>12, <1>13, <1>14, <1>15 DEF Next, Stored

LEMMA InitEInv == Init => EInv
<1> SUFFICES ASSUME Init PROVE EInv
  OBVIOUS
<1>1. IInv
  BY InitIInv
<1>2. HomesKnown
  BY Callers DEF Init, HomesKnown, InHello, InStore
<1>3. EndComes
  BY DEF Init, EndComes
<1> QED
  BY <1>1, <1>2, <1>3 DEF EInv

LEMMA NextEInv == EInv /\ [Next]_vars => EInv'
<1> SUFFICES ASSUME EInv, [Next]_vars PROVE EInv'
  OBVIOUS
<1>1. IInv'
  BY NextIInv DEF EInv
<1>2. HomesKnown'
  BY HomesKept DEF EInv, IInv
<1>3. EndComes'
  BY <1>1, EndKept DEF EInv, IInv
<1> QED
  BY <1>1, <1>2, <1>3 DEF EInv

LEMMA EInvImplies == EInv => AgentEndsDisconnected
<1> SUFFICES ASSUME EInv, NEW s \in Session, calls = <<>>, restarts = 0,
                    \A st \in Stream : pc[st] \in {"new", "closed"},
                    \E st \in Stream : pc[st] = "closed",
                    \A st \in Stream : pc[st] = "closed" => home[st] = s /\ seen[st] # {}
             PROVE  row[s] = "DISCONNECTED"
  BY DEF AgentEndsDisconnected
<1>1. TypeOK /\ InLine /\ HomesKnown /\ EndComes
  BY DEF EInv, IInv
<1>2. OneHome(s)
  BY DEF OneHome
<1>3. Serving = {}
  BY DEF Serving, InStore
<1>4. Closes = {}
  <2>1. closing = None
    BY <1>1 DEF InLine, Asking, SweepAsks
  <2> QED
    BY <2>1 DEF Closes, SweepAsks
<1>5. row[s] # "CONNECTED"
  BY <1>1, <1>2, <1>3, <1>4 DEF EndComes
<1>6. row[s] # "absent"
  BY <1>1 DEF HomesKnown
<1> QED
  BY <1>1, <1>5, <1>6 DEF TypeOK, Status

(* "Last stream closed": when an agent that has used one session has no    *)
(* RPC left, that session's row says so, whatever Hellos, closes, late     *)
(* heartbeats and sweeps were under way at once (close_stream,             *)
(* sweep_heartbeats), unless a Hello was cancelled or the server restarted.*)
THEOREM AgentEnds == Spec => []AgentEndsDisconnected
<1> QED
  BY InitEInv, NextEInv, EInvImplies, PTL DEF Spec
=============================================================================
