----------------------------- MODULE MCPayloads -----------------------------
EXTENDS Payloads
CONSTANTS d1, d2, d3, x1, x2, s1, s2
\* A payload of two chunks, one of one chunk, and one too big to stage.
MCParts == d1 :> 2 @@ d2 :> 1 @@ d3 :> 3
MCCarries == x1 :> [new |-> {d1}, started |-> {d1, d2}]
             @@ x2 :> [new |-> {d1, d3}, started |-> {d1}]
MCSessionOf == x1 :> s1 @@ x2 :> s2
=============================================================================
