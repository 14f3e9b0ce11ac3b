--------------------------- MODULE MCSessionWatch ---------------------------
(* TLC instances of SessionWatch: an agent's invocation, which began       *)
(* before the watch window, and a tool call of another agent.              *)
EXTENDS SessionWatch, TLC

CONSTANTS s1, s2, invocation, tool

MCOwner == (invocation :> s1) @@ (tool :> s2)
=============================================================================
