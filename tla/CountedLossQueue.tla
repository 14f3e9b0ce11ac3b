-------------------------- MODULE CountedLossQueue --------------------------
(***************************************************************************)
(* What the client's event buffer promises to the two parties around it,   *)
(* the agent threads that emit and the transport thread that sends: a      *)
(* queue that may lose messages, never reorders, duplicates or invents     *)
(* one, and counts each message it loses.  The count is what the agent's   *)
(* Heartbeat reports as dropped_events.                                    *)
(*                                                                         *)
(* Messages are numbered in the order they are sent.                       *)
(***************************************************************************)
EXTENDS Naturals, Sequences, SequencesExt

VARIABLES
  sent,       \* number of messages sent so far
  queue,      \* messages accepted and neither received nor lost, oldest first
  received,   \* messages received, in order
  lost        \* number of messages lost

vars == <<sent, queue, received, lost>>

Init ==
  /\ sent = 0
  /\ queue = <<>>
  /\ received = <<>>
  /\ lost = 0

(* A message is accepted, and nothing is lost.                             *)
Send ==
  /\ sent' = sent + 1
  /\ queue' = Append(queue, sent + 1)
  /\ UNCHANGED <<received, lost>>

(* A message is accepted, and one that was waiting, any one, makes room.   *)
SendLosing ==
  \E i \in 1 .. Len(queue) :
    /\ sent' = sent + 1
    /\ queue' = Append(RemoveAt(queue, i), sent + 1)
    /\ lost' = lost + 1
    /\ UNCHANGED received

(* The oldest n messages are received.                                     *)
Receive ==
  \E n \in 1 .. Len(queue) :
    /\ received' = received \o SubSeq(queue, 1, n)
    /\ queue' = SubSeq(queue, n + 1, Len(queue))
    /\ UNCHANGED <<sent, lost>>

Next == Send \/ SendLosing \/ Receive

Spec == Init /\ [][Next]_vars
-----------------------------------------------------------------------------
TypeOK ==
  /\ sent \in Nat
  /\ queue \in Seq(1 .. sent)
  /\ received \in Seq(1 .. sent)
  /\ lost \in Nat

(* Every message sent was received, is waiting, or was counted as lost.    *)
Accounted == sent = Len(received) + Len(queue) + lost

Increasing(s) == \A i, j \in 1 .. Len(s) : i < j => s[i] < s[j]

(* Messages are received in the order they were sent, none of them twice,  *)
(* and those that wait come after those received.                          *)
InOrder == Increasing(received \o queue)
=============================================================================
