------------------------------ MODULE RingBuf ------------------------------
(***************************************************************************)
(* lib/ringbuf.c: the byte ring between an interrupt handler, which puts   *)
(* (gsmPort_RxIrq, Ampm_SMS_Process), and one task, which gets             *)
(* (COMM_Getc, Ampm_GsmSmsRecv0).                                          *)
(*                                                                         *)
(* The processor has one core and the interrupt is never preempted by the  *)
(* task, so RINGBUF_Put is one step.  RINGBUF_Get and RINGBUF_GetFill run  *)
(* in the task and are interrupted between any two accesses to the volatile*)
(* fields: each access that the interrupt can observe is a step of its own.*)
(* "tail++" and the wrap "tail = 0" are two stores: between them the tail  *)
(* equals the size.                                                        *)
(***************************************************************************)
EXTENDS Integers, Sequences

CONSTANTS
  Size,           \* RINGBUF.size
  Byte,           \* the bytes the interrupt receives
  MaxPutsInWrap   \* bound: puts that may fall between "tail++" and "tail = 0"

ASSUME SizeAssumption == Size \in Nat /\ Size >= 2     \* RINGBUF_Init refuses less
ASSUME WrapAssumption == MaxPutsInWrap \in Nat

VARIABLES
  head, tail, pt,   \* the fields of RINGBUF
  putRes,           \* the result of the last RINGBUF_Put
  pc,               \* where the task is, in RINGBUF_Get or RINGBUF_GetFill
  c,                \* the byte RINGBUF_Get has read
  fill,             \* what RINGBUF_GetFill returned
  burst             \* puts since "tail++", while the tail is out of range

vars == <<head, tail, pt, putRes, pc, c, fill, burst>>

Index == 0 .. Size - 1
PC    == {"out", "read", "inc", "wrap", "above", "below"}

TypeOK ==
  /\ head \in Index
  /\ tail \in 0 .. Size
  /\ pt \in [Index -> Byte]
  /\ putRes \in {0, -1}
  /\ pc \in PC
  /\ c \in Byte
  /\ fill \in Int
  /\ burst \in 0 .. MaxPutsInWrap

\* RINGBUF_Init on a buffer whose bytes are all the same (static storage).
Init ==
  /\ head = 0
  /\ tail = 0
  /\ \E b \in Byte : pt = [i \in Index |-> b] /\ c = b
  /\ putRes = 0
  /\ pc = "out"
  /\ fill = 0
  /\ burst = 0

-----------------------------------------------------------------------------
(* RINGBUF_Put, in the interrupt.                                          *)

\* A faulty wrap, one slot late.
SuccessorLate(i) == IF i + 1 > Size THEN 0 ELSE i + 1

Successor(i) == IF i + 1 >= Size THEN 0 ELSE i + 1

InWrap == pc = "wrap" /\ tail = Size

\* A faulty put that overwrites the oldest byte of a full ring.
PutOverwrites(b) ==
  /\ InWrap => burst < MaxPutsInWrap
  /\ burst' = IF InWrap THEN burst + 1 ELSE 0
  /\ pt' = [pt EXCEPT ![head] = b]
  /\ head' = Successor(head)
  /\ putRes' = 0
  /\ UNCHANGED <<tail, pc, c, fill>>

Put(b) ==
  /\ InWrap => burst < MaxPutsInWrap
  /\ burst' = IF InWrap THEN burst + 1 ELSE 0
  /\ IF Successor(head) = tail
       THEN putRes' = -1 /\ UNCHANGED <<head, pt>>
       ELSE /\ pt' = [pt EXCEPT ![head] = b]
            /\ head' = Successor(head)
            /\ putRes' = 0
  /\ UNCHANGED <<tail, pc, c, fill>>

-----------------------------------------------------------------------------
(* RINGBUF_Get, in the task.                                               *)

\* "if(r->tail == r->head) return -1"
GetTest ==
  /\ pc = "out"
  /\ pc' = IF tail = head THEN "out" ELSE "read"
  /\ UNCHANGED <<head, tail, pt, putRes, c, fill, burst>>

\* A faulty get that reads the slot the next put will use.
GetReadsNewest ==
  /\ pc = "read"
  /\ c' = pt[head]
  /\ pc' = "inc"
  /\ UNCHANGED <<head, tail, pt, putRes, fill, burst>>

\* "*c = r->pt[r->tail]"
GetRead ==
  /\ pc = "read"
  /\ c' = pt[tail]
  /\ pc' = "inc"
  /\ UNCHANGED <<head, tail, pt, putRes, fill, burst>>

\* "r->tail++"
GetInc ==
  /\ pc = "inc"
  /\ tail' = tail + 1
  /\ pc' = "wrap"
  /\ burst' = 0
  /\ UNCHANGED <<head, pt, putRes, c, fill>>

\* "if(r->tail >= r->size) r->tail = 0"
GetWrap ==
  /\ pc = "wrap"
  /\ tail' = IF tail >= Size THEN 0 ELSE tail
  /\ pc' = "out"
  /\ UNCHANGED <<head, pt, putRes, c, fill, burst>>

-----------------------------------------------------------------------------
(* RINGBUF_GetFill, in the task: the comparison, then the subtraction on a *)
(* head that is read again.                                                *)

FillTest ==
  /\ pc = "out"
  /\ pc' = IF head >= tail THEN "above" ELSE "below"
  /\ UNCHANGED <<head, tail, pt, putRes, c, fill, burst>>

FillAbove ==
  /\ pc = "above"
  /\ fill' = head - tail
  /\ pc' = "out"
  /\ UNCHANGED <<head, tail, pt, putRes, c, burst>>

\* A faulty fill that counts the slot that is never used.
FillCountsFree ==
  /\ pc = "below"
  /\ fill' = Size - tail + head + 1
  /\ pc' = "out"
  /\ UNCHANGED <<head, tail, pt, putRes, c, burst>>

FillBelow ==
  /\ pc = "below"
  /\ fill' = Size - tail + head
  /\ pc' = "out"
  /\ UNCHANGED <<head, tail, pt, putRes, c, burst>>

Task ==
  \/ GetTest \/ GetRead \/ GetInc \/ GetWrap
  \/ FillTest \/ FillAbove \/ FillBelow

Next == (\E b \in Byte : Put(b)) \/ Task

Spec == Init /\ [][Next]_vars

-----------------------------------------------------------------------------
(* The queue the ring stands for.                                          *)

\* The tail without the passing value Size: where the oldest byte is.
Oldest == IF tail = Size THEN 0 ELSE tail

Used == IF head >= Oldest THEN head - Oldest ELSE Size - Oldest + head

\* The slot of the k-th oldest byte.
Slot(k) == IF Oldest + k - 1 >= Size THEN Oldest + k - 1 - Size ELSE Oldest + k - 1

Contents == [k \in 1 .. Used |-> pt[Slot(k)]]

Fifo == INSTANCE BoundedFifo WITH q <- Contents, Capacity <- Size - 1

(* The ring is a first-in first-out queue of Size - 1 bytes and the result *)
(* of RINGBUF_Put says whether the byte was kept: no interleaving of the   *)
(* interrupt with the seven steps of the task loses, repeats or reorders a *)
(* byte that RINGBUF_Put accepted.                                         *)
IsFifo == Fifo!Spec

(* The byte that RINGBUF_Get has copied out is still the oldest one at the *)
(* moment the tail moves over it: the interrupt never writes the slot the  *)
(* task is reading.                                                        *)
ReadIsOldest == pc = "inc" => /\ Used > 0
                              /\ c = Contents[1]

(* RINGBUF_GetFill may be out of date, but never promises more bytes than  *)
(* there are: after "GetFill >= 2" Ampm_GsmSmsRecv0 calls RINGBUF_Get twice*)
(* without looking at its result.                                          *)
FillNeverOverstates ==
  [][FillAbove \/ FillBelow => fill' <= Used]_vars

(* "return 0 if successfull, otherwise failed" (the comment on RINGBUF_Put):*)
(* a put that advances the head leaves one more byte in the ring.  It fails*)
(* when two puts fall between "tail++" and "tail = 0" of a nearly full     *)
(* ring: the ring then looks empty and Size bytes are lost.                *)
AcceptedIsKept ==
  [][head' # head => Used' = Used + 1]_vars
=============================================================================
