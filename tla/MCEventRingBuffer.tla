-------------------------- MODULE MCEventRingBuffer --------------------------
(* TLC instances of EventRingBuffer.  No bound but MaxEmits is needed: it  *)
(* bounds the deque, the popped sequence and every counter.                *)
EXTENDS EventRingBuffer

(* One kind stands for every kind but span_update: the buffer treats span  *)
(* starts, span ends and goldfive events alike.                            *)
MCKinds == {"span_start", "span_update"}
=============================================================================
