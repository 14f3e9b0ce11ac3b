-------------------------- MODULE MCControlRouter --------------------------
(* TLC instances of ControlRouter.                                         *)
EXTENDS ControlRouter

CONSTANTS agent, sub_agent, home, outer, other, t1, t2, outer_sub, c1

(* Two processes of one agent.  Each opens its home subscription, under    *)
(* its telemetry stream's id, and one for the outer session.  A session    *)
(* subscription opened before Welcome is named without the stream id       *)
(* (transport.py, open_session_subscription), so the two share an id.  No  *)
(* subscription is for the session `other`.                                *)
HomeOf(t) == [agent |-> agent, session |-> home, stream |-> t, telemetry |-> t]
OuterOf(t) == [agent |-> agent, session |-> outer, stream |-> outer_sub, telemetry |-> t]

MCAgent == {agent, sub_agent}
MCSession == {home, outer, other}
MCStream == {t1, t2, outer_sub}
MCControl == {c1}

MCRequest == {HomeOf(t1), OuterOf(t1), OuterOf(t2)}
=============================================================================
