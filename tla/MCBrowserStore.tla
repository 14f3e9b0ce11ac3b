--------------------------- MODULE MCBrowserStore ---------------------------
(* A worker with two spans, the second of which starts as the first ends,  *)
(* and the orchestrator, whose own row may come after the first marker     *)
(* that is put on it.                                                      *)
EXTENDS BrowserStore

F(kind, id, agent, at) == [kind |-> kind, id |-> id, agent |-> agent, at |-> at]

MCFrame == {
  F("agent", "worker", "worker", 3), F("agent", "goldfive", "goldfive", 2),
  F("start", "first", "worker", 2), F("end", "first", "worker", 4),
  F("start", "second", "worker", 4),
  F("start", "judge", "goldfive", 4),
  F("plan", "plan", "worker", 1), F("drift", "drift", "__goldfive__", 3),
  F("cancel", "cancel", "worker", 3), F("delegation", "edge", "worker", 4)}
=============================================================================
