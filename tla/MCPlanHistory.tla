--------------------------- MODULE MCPlanHistory ---------------------------
(* TLC instances of PlanHistory: three revisions of up to three tasks.     *)
(* They keep, drop, replace by claim or not, and take back tasks.          *)
EXTENDS PlanHistory

CONSTANTS a, b, c, d, e

TaskOf(t, old) == [id |-> t, supersedes |-> old]
MCShape ==
    [r \in 0..2 |->
        CASE r = 0 -> {<<TaskOf(a, NoTask), TaskOf(b, NoTask), TaskOf(e, NoTask)>>}
          [] r = 1 -> {<<TaskOf(c, NoTask), TaskOf(a, NoTask)>>}
          [] r = 2 -> {<<TaskOf(c, NoTask), TaskOf(b, NoTask), TaskOf(d, a)>>}]
=============================================================================
