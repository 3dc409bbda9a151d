---------------------------- MODULE BoundedFifo ----------------------------
(***************************************************************************)
(* What a RINGBUF promises its two users: a first-in first-out queue of at *)
(* most Capacity bytes whose RINGBUF_Put answers 0 exactly when the byte   *)
(* was kept, and -1 exactly when the queue was full.                       *)
(***************************************************************************)
EXTENDS Integers, Sequences

CONSTANTS
  Byte,       \* the bytes that travel through the queue
  Capacity    \* the number of bytes it can hold

VARIABLES
  q,          \* the bytes put and not yet got, oldest first
  putRes      \* the result of the last RINGBUF_Put

vars == <<q, putRes>>

Init ==
  /\ q = <<>>
  /\ putRes = 0

\* RINGBUF_Put answers 0: the byte is the youngest of the queue.
Keep(b) ==
  /\ Len(q) < Capacity
  /\ q' = Append(q, b)
  /\ putRes' = 0

\* RINGBUF_Put answers -1: the queue is full and stays as it is.
Refuse ==
  /\ Len(q) >= Capacity
  /\ putRes' = -1
  /\ UNCHANGED q

\* RINGBUF_Get takes the oldest byte.
Take ==
  /\ q # <<>>
  /\ q' = Tail(q)
  /\ UNCHANGED putRes

Next ==
  \/ \E b \in Byte : Keep(b)
  \/ Refuse
  \/ Take

Spec == Init /\ [][Next]_vars
=============================================================================
