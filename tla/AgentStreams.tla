---------------------------- MODULE AgentStreams ----------------------------
(***************************************************************************)
(* One agent of the server: its telemetry streams (rpc/telemetry.py,       *)
(* StreamTelemetry), the registry of streams and the agent's row in each   *)
(* session (ingest.py: handle_hello, _ensure_route, _handle_heartbeat,     *)
(* _handle_goodbye, close_stream), and heartbeat_sweeper.                  *)
(*                                                                         *)
(* The registry's lock is never held across a suspension.  The store's     *)
(* lock is: a store call waits its turn behind those asked for before it,  *)
(* is carried out, and its caller runs on to its next call.  calls holds   *)
(* who waits, the call being carried out first.                            *)
(*                                                                         *)
(* The stuck detector's counters are left out; that its verdict changes is *)
(* a choice of the heartbeat.                                              *)
(***************************************************************************)
EXTENDS Naturals, Sequences, SequencesExt

CONSTANTS
  Stream,       \* StreamTelemetry RPCs of the agent
  Session,      \* the sessions it speaks of
  Sweeper,      \* heartbeat_sweeper, as a caller of the store
  MaxRestarts   \* bound: restarts of the server

ASSUME SessionAssumption == Session # {}
ASSUME SweeperAssumption == Sweeper \notin Stream
ASSUME NoneAssumption == "none" \notin Stream
ASSUME RestartsAssumption == MaxRestarts \in Nat

VARIABLES
  sessions,  \* sessions with a row
  row,       \* the agent's status in each session
  shown,     \* the status a browser that follows the session shows
  registry,  \* _streams_by_agent
  late,      \* streams silent for longer than heartbeat_timeout_s
  seen,      \* seen_routes of each stream
  pc,        \* where each stream's RPC is
  home,      \* the session its Hello names
  target,    \* the session it registers the agent in
  calls,     \* callers of the store, in turn
  left,      \* streams the sweeper has listed and not closed
  closing,   \* the stream whose close it waits for, or none
  swept,     \* the sweeper has taken a stream out of the registry
  cancelled, \* a handler has been cancelled
  restarts   \* number of restarts

db == <<sessions, row>>
rpc == <<seen, pc, home, target>>
sweep == <<left, closing, swept>>
vars == <<db, shown, registry, late, rpc, calls, sweep, cancelled, restarts>>

None == "none"
InStore == {"find", "create", "agent", "register", "beat", "sampled_beat", "sample", "goodbye"}
PC == InStore \cup {"new", "live", "ending", "closing", "closed"}
Status == {"absent", "CONNECTED", "DISCONNECTED"}

Init ==
  /\ sessions = {} /\ row = [s \in Session |-> "absent"]
  /\ shown = row
  /\ registry = {} /\ late = {}
  /\ seen = [st \in Stream |-> {}] /\ pc = [st \in Stream |-> "new"]
  /\ home = [st \in Stream |-> CHOOSE s \in Session : TRUE]  \* until its Hello
  /\ target = home
  /\ calls = <<>>
  /\ left = {} /\ closing = None /\ swept = FALSE
  /\ cancelled = FALSE /\ restarts = 0

Goto(st, place) == pc' = [pc EXCEPT ![st] = place]
SetRow(s, status) == row' = [row EXCEPT ![s] = status]
Show(s, status) == shown' = [shown EXCEPT ![s] = status]

(* A caller asks the store; its call is done; it is done and asks again.   *)
Asks(by) == calls' = Append(calls, by)
Served(by) == calls # <<>> /\ Head(calls) = by
Leaves == calls' = Tail(calls)
AsksAgain == calls' = Append(Tail(calls), Head(calls))

InHello(st) == pc[st] \in InStore /\ seen[st] = {}
-----------------------------------------------------------------------------
(* handle_hello, up to get_session.                                        *)
HelloArrives(st, s) ==
  /\ pc[st] = "new"
  /\ home' = [home EXCEPT ![st] = s]
  /\ target' = [target EXCEPT ![st] = s]
  /\ Goto(st, "find")
  /\ Asks(st)
  /\ UNCHANGED <<db, shown, registry, late, seen, sweep, cancelled, restarts>>

(* _ensure_route, up to get_session: a span or event names a session new   *)
(* to the stream.                                                          *)
RouteArrives(st, s) ==
  /\ pc[st] = "live" /\ s \notin seen[st]
  /\ seen' = [seen EXCEPT ![st] = @ \cup {s}]
  /\ target' = [target EXCEPT ![st] = s]
  /\ Goto(st, "find")
  /\ Asks(st)
  /\ UNCHANGED <<db, shown, registry, late, home, sweep, cancelled, restarts>>

(* Hello writes the agent's row unseen, a route only where there is none.  *)
AfterSession(st) == IF InHello(st) THEN "register" ELSE "agent"

FindSession(st) ==
  /\ Served(st) /\ pc[st] = "find"
  /\ Goto(st, IF target[st] \in sessions THEN AfterSession(st) ELSE "create")
  /\ AsksAgain
  /\ UNCHANGED <<db, shown, registry, late, seen, home, target, sweep, cancelled, restarts>>

(* create_session leaves a session that exists as it is.                   *)
CreateSession(st) ==
  /\ Served(st) /\ pc[st] = "create"
  /\ sessions' = sessions \cup {target[st]}
  /\ Goto(st, AfterSession(st))
  /\ AsksAgain
  /\ UNCHANGED <<row, shown, registry, late, seen, home, target, sweep, cancelled, restarts>>

FindAgent(st) ==
  /\ Served(st) /\ pc[st] = "agent"
  /\ IF row[target[st]] = "absent"
       THEN Goto(st, "register") /\ AsksAgain
       ELSE Goto(st, "live") /\ Leaves
  /\ UNCHANGED <<db, shown, registry, late, seen, home, target, sweep, cancelled, restarts>>

(* register_agent and its upsert delta.  A Hello's stream then enters the  *)
(* registry.                                                               *)
RegisterAgent(st) ==
  /\ Served(st) /\ pc[st] = "register"
  /\ SetRow(target[st], "CONNECTED") /\ Show(target[st], "CONNECTED")
  /\ IF InHello(st)
       THEN /\ registry' = registry \cup {st}
            /\ seen' = [seen EXCEPT ![st] = {target[st]}]
       ELSE UNCHANGED <<registry, seen>>
  /\ Goto(st, "live")
  /\ Leaves
  /\ UNCHANGED <<sessions, late, home, target, sweep, cancelled, restarts>>
-----------------------------------------------------------------------------
FallsSilent(st) ==
  /\ st \in registry \ late
  /\ late' = late \cup {st}
  /\ UNCHANGED <<db, shown, registry, rpc, calls, sweep, cancelled, restarts>>

(* _handle_heartbeat: update_agent_status, with a context window sample    *)
(* append_context_window_sample, and the heartbeat delta, which a browser  *)
(* reads as CONNECTED.                                                     *)
Heartbeat(st) ==
  /\ pc[st] = "live"
  /\ late' = late \ {st}
  /\ \E place \in {"beat", "sampled_beat"} : Goto(st, place)
  /\ Asks(st)
  /\ UNCHANGED <<db, shown, registry, seen, home, target, sweep, cancelled, restarts>>

(* Mutant: a stream that is not in the registry leaves the row alone.      *)
BeatStored_OnlyIfRegistered(st) ==
  /\ Served(st) /\ pc[st] \in {"beat", "sampled_beat"}
  /\ IF st \in registry THEN SetRow(home[st], "CONNECTED") ELSE UNCHANGED row
  /\ IF pc[st] = "beat"
       THEN /\ Show(home[st], "CONNECTED")
            /\ Goto(st, "live") /\ Leaves
       ELSE /\ UNCHANGED shown \/ Show(home[st], "CONNECTED")
            /\ Goto(st, "sample") /\ AsksAgain
  /\ UNCHANGED <<sessions, registry, late, seen, home, target, sweep, cancelled, restarts>>

(* A change of the stuck detector's verdict is published before the        *)
(* sample is stored.                                                       *)
BeatStored(st) ==
  /\ Served(st) /\ pc[st] \in {"beat", "sampled_beat"}
  /\ SetRow(home[st], "CONNECTED")
  /\ IF pc[st] = "beat"
       THEN /\ Show(home[st], "CONNECTED")
            /\ Goto(st, "live") /\ Leaves
       ELSE /\ UNCHANGED shown \/ Show(home[st], "CONNECTED")
            /\ Goto(st, "sample") /\ AsksAgain
  /\ UNCHANGED <<sessions, registry, late, seen, home, target, sweep, cancelled, restarts>>

SampleStored(st) ==
  /\ Served(st) /\ pc[st] = "sample"
  /\ Show(home[st], "CONNECTED")
  /\ Goto(st, "live")
  /\ Leaves
  /\ UNCHANGED <<db, registry, late, seen, home, target, sweep, cancelled, restarts>>
-----------------------------------------------------------------------------
(* close_stream: the stream leaves the registry.  If that is empty then,   *)
(* or was before, the agent's row is written.                              *)
CloseStream(st, waiting, done, queue) ==
  /\ registry' = registry \ {st}
  /\ IF registry' = {}
       THEN Goto(st, waiting) /\ calls' = Append(queue, st)
       ELSE Goto(st, done) /\ calls' = queue

Disconnect(s) == SetRow(s, "DISCONNECTED") /\ Show(s, "DISCONNECTED")

GoodbyeArrives(st) ==
  /\ pc[st] = "live"
  /\ CloseStream(st, "goodbye", "ending", calls)
  /\ UNCHANGED <<db, shown, late, seen, home, target, sweep, cancelled, restarts>>

(* Mutant: a stream that is not in the registry leaves the row alone.      *)
RpcEnds_OnlyIfRegistered(st) ==
  /\ pc[st] \in {"live", "ending"}
  /\ IF st \in registry
       THEN CloseStream(st, "closing", "closed", calls)
       ELSE Goto(st, "closed") /\ UNCHANGED <<registry, calls>>
  /\ UNCHANGED <<db, shown, late, seen, home, target, sweep, cancelled, restarts>>

(* The RPC ends while it waits for a message: the finally.                 *)
RpcEnds(st) ==
  /\ pc[st] \in {"live", "ending"}
  /\ CloseStream(st, "closing", "closed", calls)
  /\ UNCHANGED <<db, shown, late, seen, home, target, sweep, cancelled, restarts>>

CloseStored(st) ==
  /\ Served(st) /\ pc[st] \in {"goodbye", "closing"}
  /\ Disconnect(home[st])
  /\ Goto(st, IF pc[st] = "goodbye" THEN "ending" ELSE "closed")
  /\ Leaves
  /\ UNCHANGED <<sessions, registry, late, seen, home, target, sweep, cancelled, restarts>>

(* The row as the call that is being carried out leaves it.                *)
Written(st) ==
  CASE pc[st] = "register" -> [row EXCEPT ![target[st]] = "CONNECTED"]
    [] pc[st] \in {"beat", "sampled_beat"} -> [row EXCEPT ![home[st]] = "CONNECTED"]
    [] pc[st] = "goodbye" -> [row EXCEPT ![home[st]] = "DISCONNECTED"]
    [] OTHER -> row

(* Mutant: a cancelled handler takes the stream out of nothing.            *)
RpcCancelled_NoFinally(st) ==
  \E k \in DOMAIN calls :
    /\ pc[st] \in InStore /\ calls[k] = st
    /\ \/ UNCHANGED db
       \/ /\ k = 1
          /\ row' = Written(st)
          /\ sessions' = IF pc[st] = "create" THEN sessions \cup {target[st]} ELSE sessions
    /\ Goto(st, "closed") /\ calls' = RemoveAt(calls, k)
    /\ cancelled' = TRUE
    /\ UNCHANGED <<shown, registry, late, seen, home, target, sweep, restarts>>

(* The client goes away while a handler waits for the store: it is         *)
(* cancelled, its call takes effect only if it was its turn, and then      *)
(* perhaps, and the finally runs.  A Hello has no context to close.        *)
RpcCancelled(st) ==
  \E k \in DOMAIN calls :
    /\ pc[st] \in InStore /\ calls[k] = st
    /\ \/ UNCHANGED db
       \/ /\ k = 1
          /\ row' = Written(st)
          /\ sessions' = IF pc[st] = "create" THEN sessions \cup {target[st]} ELSE sessions
    /\ IF InHello(st)
         THEN /\ Goto(st, "closed") /\ calls' = RemoveAt(calls, k)
              /\ UNCHANGED registry
         ELSE CloseStream(st, "closing", "closed", RemoveAt(calls, k))
    /\ cancelled' = TRUE
    /\ UNCHANGED <<shown, late, seen, home, target, sweep, restarts>>
-----------------------------------------------------------------------------
(* heartbeat_sweeper: sweep_heartbeats.  Closing other agents' streams     *)
(* comes between this and the next action.                                 *)
SweepLists ==
  /\ left = {} /\ closing = None /\ late \cap registry # {}
  /\ left' = late \cap registry
  /\ UNCHANGED <<db, shown, registry, late, rpc, calls, closing, swept, cancelled, restarts>>

(* Listed streams are closed, one after the other, until the registry is   *)
(* empty and one of them has to wait for the store.                        *)
SweepCloses ==
  /\ left # {} /\ closing = None
  /\ \E closed \in SUBSET left :
       /\ registry' = registry \ closed
       /\ left' = left \ closed
       /\ swept' = (swept \/ closed \cap registry # {})
       /\ \/ /\ left' = {} /\ registry' # {}
             /\ UNCHANGED <<calls, closing>>
          \/ \E st \in closed :
               /\ closed = {st} \/ registry \ (closed \ {st}) # {}
               /\ registry' = {}
               /\ closing' = st
               /\ Asks(Sweeper)
  /\ UNCHANGED <<db, shown, late, rpc, cancelled, restarts>>

SweepStored ==
  /\ Served(Sweeper)
  /\ Disconnect(home[closing])
  /\ closing' = None
  /\ Leaves
  /\ UNCHANGED <<sessions, registry, late, rpc, left, swept, cancelled, restarts>>

(* The server restarts: the rows stay, browsers read them again.           *)
Restart ==
  /\ restarts < MaxRestarts
  /\ restarts' = restarts + 1
  /\ shown' = row
  /\ registry' = {} /\ late' = {}
  /\ pc' = [st \in Stream |-> IF pc[st] = "new" THEN "new" ELSE "closed"]
  /\ calls' = <<>> /\ left' = {} /\ closing' = None
  /\ UNCHANGED <<db, seen, home, target, swept, cancelled>>
-----------------------------------------------------------------------------
(* The store carries out the call whose turn it is.                        *)
Stored ==
  \/ \E st \in Stream :
       \/ FindSession(st) \/ CreateSession(st) \/ FindAgent(st) \/ RegisterAgent(st)
       \/ BeatStored(st) \/ SampleStored(st) \/ CloseStored(st)
  \/ SweepStored

Next ==
  \/ Stored
  \/ \E st \in Stream :
       \/ FallsSilent(st) \/ Heartbeat(st)
       \/ GoodbyeArrives(st) \/ RpcEnds(st) \/ RpcCancelled(st)
       \/ \E s \in Session : HelloArrives(st, s) \/ RouteArrives(st, s)
  \/ SweepLists \/ SweepCloses
  \/ Restart

Spec == Init /\ [][Next]_vars

(* The store answers.                                                      *)
FairSpec == Spec /\ WF_vars(Stored)
-----------------------------------------------------------------------------
TypeOK ==
  /\ sessions \subseteq Session
  /\ row \in [Session -> Status] /\ shown \in [Session -> Status]
  /\ registry \subseteq Stream /\ late \subseteq Stream
  /\ seen \in [Stream -> SUBSET Session]
  /\ pc \in [Stream -> PC]
  /\ home \in [Stream -> Session] /\ target \in [Stream -> Session]
  /\ calls \in Seq(Stream \cup {Sweeper})
  /\ left \subseteq Stream /\ closing \in Stream \cup {None}
  /\ swept \in BOOLEAN /\ cancelled \in BOOLEAN
  /\ restarts \in 0 .. MaxRestarts

(* The registry leaks nothing: a stream in it has an RPC that serves it,   *)
(* so no stream that is gone keeps its agent connected.                    *)
Serving == {st \in Stream : pc[st] \in (InStore \ {"goodbye"}) \cup {"live"}}
RegistryServed == registry \subseteq Serving

Quiet == calls = <<>> /\ \A st \in Stream : pc[st] \in {"new", "live", "ending", "closed"}

(* Between handlers, a browser that follows a session shows the status     *)
(* that is stored, but for what can follow the cancellation of a handler   *)
(* between its write and its delta, or the sweep of a stream that goes on  *)
(* sending heartbeats.                                                     *)
ShownIsStored ==
  Quiet /\ ~swept /\ ~cancelled => \A s \in Session : shown[s] = row[s]

(* With nothing under way, the server's registry of streams, the agents'   *)
(* rows and what the browser shows of them say the same (handle_hello,     *)
(* close_stream, the sweep).                                               *)
RowsAndRegistryAgree == TypeOK /\ RegistryServed /\ ShownIsStored

(* "Last stream closed (Goodbye or heartbeat timeout)": when an agent that *)
(* has used one session has no RPC left, that session's row says so,       *)
(* whatever Hellos, closes, late heartbeats and sweeps were under way at   *)
(* once; unless a Hello was cancelled after it wrote the row, or the       *)
(* server was restarted.                                                   *)
AgentEndsDisconnected ==
  \A s \in Session :
    /\ calls = <<>> /\ restarts = 0
    /\ \A st \in Stream : pc[st] \in {"new", "closed"}
    /\ \E st \in Stream : pc[st] = "closed"
    /\ \A st \in Stream : pc[st] = "closed" => home[st] = s /\ seen[st] # {}
    => row[s] = "DISCONNECTED"

(* A stream that is served and sends heartbeats makes its agent connected  *)
(* for good, in the row and in the browsers, also after another stream's   *)
(* close or the sweeper overtook its Hello.                                *)
HeartbeatsConnect ==
  \A st \in Stream :
    <>[](st \in Serving) /\ WF_vars(Heartbeat(st))
      => <>[](row[home[st]] = "CONNECTED" /\ shown[home[st]] = "CONNECTED")
=============================================================================
