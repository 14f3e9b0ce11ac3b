----------------------------- MODULE WatchHooks -----------------------------
(***************************************************************************)
(* useSessionWatch (rpc/hooks.ts): the components of a tab that watch one  *)
(* session share one stream.  The first to mount opens it, the last to     *)
(* leave closes it, and they meet only in module-level caches: the         *)
(* reference count, the controller of the stream, the last status.         *)
(*                                                                         *)
(* A stream is known by the component that opened it and by its turn: the  *)
(* loop that reads it writes to that component's state and to no other,    *)
(* also when the component has left while others stay.  All components     *)
(* show the tab's current session, so one session is enough: React cleans  *)
(* up the effects of the old one before it starts those of the new one.    *)
(*                                                                         *)
(* The specification's names say whose they are, so that a module about    *)
(* the tab may extend this one and Annotations.                            *)
(***************************************************************************)
EXTENDS Naturals, Sequences, FiniteSets, SequencesExt

CONSTANTS
  Component,
  MaxStreams,  \* bound: streams the tab opens
  MaxNews      \* bound: frames of the live tail that are not about the status

ASSUME BoundAssumption == MaxStreams \in Nat \ {0} /\ MaxNews \in Nat

VARIABLES
  session,     \* the server's status of the session
  refs,        \* refCounts, 0 when the key is absent
  controller,  \* the stream abortControllers holds, 0 when none
  statusCache,
  lastEvent,   \* lastEventCache has an entry
  view,        \* stateRef of each component, Unmounted when it is not there
  stream,      \* what is left of each stream, in the order they were opened
  news

caches == <<refs, controller, statusCache, lastEvent>>
hookVars == <<session, caches, view, stream, news>>

Final == {"COMPLETED", "ABORTED"}
Unmounted == [mounted |-> FALSE]
Mounted(c) == view[c].mounted

(* A stream's frames are the session's row with its status, the end of the *)
(* burst, the session's end, and other updates.                            *)
SessionRow(status) == [kind |-> "session", status |-> status]
BurstComplete == [kind |-> "burst"]
SessionEnded(status) == [kind |-> "ended", status |-> status]
Update == [kind |-> "update"]

HooksInit ==
  /\ session = "LIVE" /\ news = 0
  /\ refs = 0 /\ controller = 0 /\ statusCache = "UNKNOWN" /\ lastEvent = FALSE
  /\ view = [c \in Component |-> Unmounted]
  /\ stream = <<>>

IsOpen(s) == stream[s].state = "open"

-----------------------------------------------------------------------------
(* The effect, and its cleanup                                             *)

Seeded_Blank(n) ==
  [mounted |-> TRUE, stream |-> n, connected |-> refs > 0 \/ n # 0, burst |-> FALSE, error |-> FALSE,
   status |-> "UNKNOWN", heard |-> lastEvent]

(* What a component starts with.  One that opens the stream is connected   *)
(* at once; one that joins takes it that the stream is there.              *)
Seeded(n) ==
  [mounted |-> TRUE, stream |-> n, connected |-> refs > 0 \/ n # 0, burst |-> FALSE, error |-> FALSE,
   status |-> statusCache, heard |-> lastEvent]

OpenStream(c) ==
  /\ ~Mounted(c) /\ refs = 0 /\ Len(stream) < MaxStreams
  /\ refs' = 1 /\ controller' = Len(stream) + 1
  /\ stream' = Append(stream, [state |-> "open", frames |-> <<SessionRow(session), BurstComplete>>])
  /\ view' = [view EXCEPT ![c] = Seeded(Len(stream) + 1)]
  /\ UNCHANGED <<session, statusCache, lastEvent, news>>

Join(c) ==
  /\ ~Mounted(c) /\ refs > 0
  /\ refs' = refs + 1
  /\ view' = [view EXCEPT ![c] = Seeded(0)]
  /\ UNCHANGED <<session, controller, statusCache, lastEvent, stream, news>>

Abort(s) ==
  IF s = 0 \/ stream[s].state # "open" THEN stream
  ELSE [stream EXCEPT ![s] = [state |-> "aborted", frames |-> <<>>]]

(* The opener's cleanup holds its own controller, that of a component      *)
(* that joined asks the cache for it.                                      *)
Cleanup_OwnOnly(c) ==
  /\ refs' = refs - 1
  /\ controller' = IF refs = 1 THEN 0 ELSE controller
  /\ stream' = IF refs = 1 THEN Abort(view[c].stream) ELSE stream
Cleanup(c) ==
  /\ refs' = refs - 1
  /\ controller' = IF refs = 1 THEN 0 ELSE controller
  /\ stream' = IF refs = 1 THEN Abort(IF view[c].stream # 0 THEN view[c].stream ELSE controller) ELSE stream

Unmount(c) ==
  /\ Mounted(c)
  /\ Cleanup(c)
  /\ view' = [view EXCEPT ![c] = Unmounted]
  /\ UNCHANGED <<session, statusCache, lastEvent, news>>

-----------------------------------------------------------------------------
(* The loop that reads the stream                                          *)

(* Only the component that opened the stream, and while it is mounted.     *)
Told(s) == {c \in Component : Mounted(c) /\ view[c].stream = s}

Take(s) == stream' = [stream EXCEPT ![s].frames = Tail(@)]
Hear(v) == [v EXCEPT !.heard = TRUE]

(* The state follows when the cache has changed. *)
SetStatus(s, status) ==
  /\ statusCache' = status
  /\ view' = [c \in Component |->
       IF c \notin Told(s) THEN view[c]
       ELSE Hear(IF statusCache = status THEN view[c] ELSE [view[c] EXCEPT !.status = status])]

Comes(s, kinds) == IsOpen(s) /\ stream[s].frames # <<>> /\ Head(stream[s].frames).kind \in kinds

ReadStatus(s) ==
  /\ Comes(s, {"session", "ended"})
  /\ SetStatus(s, Head(stream[s].frames).status)
  /\ lastEvent' = TRUE /\ Take(s)
  /\ UNCHANGED <<session, refs, controller, news>>

(* Live from here on for all that look at the burst. *)
BurstRead_Unset(s) == view' = [c \in Component |-> IF c \in Told(s) THEN Hear(view[c]) ELSE view[c]]
BurstRead(s) ==
  view' = [c \in Component |->
    IF c \in Told(s) THEN Hear([view[c] EXCEPT !.burst = TRUE]) ELSE view[c]]
ReadBurst(s) ==
  /\ Comes(s, {"burst"})
  /\ BurstRead(s)
  /\ lastEvent' = TRUE /\ Take(s)
  /\ UNCHANGED <<session, refs, controller, statusCache, news>>

ReadUpdate(s) ==
  /\ Comes(s, {"update"})
  /\ view' = [c \in Component |-> IF c \in Told(s) THEN Hear(view[c]) ELSE view[c]]
  /\ lastEvent' = TRUE /\ Take(s)
  /\ UNCHANGED <<session, refs, controller, statusCache, news>>

(* The connection breaks, after some of what was sent has been read. *)
Fail(s) ==
  /\ IsOpen(s)
  /\ stream' = [stream EXCEPT ![s] = [state |-> "failed", frames |-> <<>>]]
  /\ view' = [c \in Component |->
       IF c \in Told(s) THEN [view[c] EXCEPT !.error = TRUE, !.connected = FALSE] ELSE view[c]]
  /\ UNCHANGED <<session, caches, news>>

(* The server is done with the stream: the loop ends, and tells nobody. *)
Close(s) ==
  /\ IsOpen(s) /\ stream[s].frames = <<>>
  /\ stream' = [stream EXCEPT ![s].state = "closed"]
  /\ UNCHANGED <<session, caches, view, news>>

-----------------------------------------------------------------------------
(* The server                                                              *)

PublishFrame(f) == [s \in DOMAIN stream |-> IF IsOpen(s) THEN [stream[s] EXCEPT !.frames = Append(@, f)] ELSE stream[s]]

EndSession ==
  /\ session = "LIVE"
  /\ session' \in Final
  /\ stream' = PublishFrame(SessionEnded(session'))
  /\ UNCHANGED <<caches, view, news>>

SayMore ==
  /\ news < MaxNews /\ news' = news + 1
  /\ stream' = PublishFrame(Update)
  /\ UNCHANGED <<session, caches, view>>

Read == \E s \in DOMAIN stream : ReadStatus(s) \/ ReadBurst(s) \/ ReadUpdate(s)

HooksNext ==
  \/ \E c \in Component : OpenStream(c) \/ Join(c) \/ Unmount(c)
  \/ Read
  \/ \E s \in DOMAIN stream : Fail(s) \/ Close(s)
  \/ EndSession \/ SayMore

HooksSpec == HooksInit /\ [][HooksNext]_hookVars
(* The event loop of the tab reads what has been sent. *)
FairSpec == HooksSpec /\ WF_hookVars(Read)

-----------------------------------------------------------------------------
(* Properties                                                              *)

(* sessionIsInactive, once the quiet has lasted INACTIVITY_COMPLETED_MS.   *)
Inactive(c) ==
  /\ Mounted(c) /\ view[c].burst
  /\ view[c].status \in Final \/ (~view[c].connected /\ view[c].heard)

(* The reference count is the number of components that are mounted.       *)
HooksTypeOK ==
  /\ session \in {"LIVE"} \union Final
  /\ statusCache \in {"UNKNOWN", "LIVE"} \union Final
  /\ refs = Cardinality({c \in Component : Mounted(c)})
  /\ controller \in 0..Len(stream) /\ (controller = 0 <=> refs = 0)
  /\ \A s \in DOMAIN stream : stream[s].state \in {"open", "failed", "closed", "aborted"}

(* useSessionWatch: a tab that nobody watches from holds no stream, and    *)
(* one that is watched at most one, the one its next cleanup would abort:  *)
(* in whichever order the opener and those that joined leave.              *)
NoStreamLeaks == \A s \in DOMAIN stream : IsOpen(s) => s = controller

(* While a component is mounted, the stream it found or opened is not      *)
(* taken away from it: it ends by itself only.                             *)
StreamStays == refs > 0 => stream[controller].state # "aborted"

(* However components mount, unmount and change sessions, a stream that    *)
(* somebody needs is open and one that nobody needs is not (hooks.ts).     *)
StreamShared == HooksTypeOK /\ NoStreamLeaks /\ StreamStays

(* Whoever opened the stream shows the status the stream told last, though *)
(* its state only follows when the cache changes, and the cache outlives   *)
(* both the stream and the state.                                          *)
OpenerShowsStatus ==
  \A c \in Component : Mounted(c) /\ view[c].stream # 0 => view[c].status = statusCache

(* sessionIsInactive: a view that takes the session for over is right, or  *)
(* has lost the stream.                                                    *)
InactiveIsTrue ==
  \A c \in Component : Inactive(c) => session \in Final \/ stream[controller].state = "failed"

(* What a component shows of the session's status and activity is what     *)
(* the shared stream has told (useSessionWatch, sessionIsInactive).        *)
ViewsTrue == OpenerShowsStatus /\ InactiveIsTrue

(* A session that ends is seen to have ended by the component that opened  *)
(* the stream, unless it leaves, or the stream fails.                      *)
EndIsSeen ==
  \A c \in Component :
    (Mounted(c) /\ session \in Final)
      ~> (~Mounted(c) \/ view[c].stream = 0 \/ Inactive(c) \/ stream[view[c].stream].state # "open")
=============================================================================
