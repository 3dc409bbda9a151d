--------------------------- MODULE RingBufProofs ---------------------------
(***************************************************************************)
(* Proofs about RingBuf for every Size, every set of bytes and at most one *)
(* put inside the wrap window (MaxPutsInWrap <= 1): the strengthening      *)
(* RingInv is inductive, the ring implements BoundedFifo, and GetFill      *)
(* never overstates.                                                       *)
(***************************************************************************)
EXTENDS RingBuf, SequenceTheorems, TLAPS

(* The window in which the tail is out of range opens on a ring that has a *)
(* free slot besides the one Put never fills, and every put takes one.     *)
WindowHasRoom == InWrap => head <= Size - 2 + burst

RingInv ==
  /\ TypeOK
  /\ tail = Size => pc = "wrap"
  /\ pc \in {"read", "inc"} => head # tail
  /\ pc = "inc" => c = pt[tail]
  /\ pc = "below" => head < tail
  /\ WindowHasRoom

-----------------------------------------------------------------------------

LEMMA InitInv == Init => RingInv
  BY SizeAssumption, WrapAssumption
  DEF Init, RingInv, TypeOK, WindowHasRoom, InWrap, Index, PC

LEMMA PutInv ==
  ASSUME MaxPutsInWrap <= 1, RingInv, NEW b \in Byte, Put(b)
  PROVE  RingInv'
<1> USE SizeAssumption, WrapAssumption DEF Index, PC, InWrap
<1>1. TypeOK'
  BY DEF Put, Successor, RingInv, TypeOK
<1>2. (tail = Size => pc = "wrap")'
  BY DEF Put, RingInv
<1>3. (pc \in {"read", "inc"} => head # tail)'
  BY DEF Put, Successor, RingInv, TypeOK
<1>4. (pc = "inc" => c = pt[tail])'
  <2>. SUFFICES ASSUME pc = "inc" PROVE c = pt'[tail]
    BY DEF Put
  <2>1. head # tail /\ c = pt[tail] /\ tail \in Index
    BY DEF RingInv, TypeOK
  <2>. QED BY <2>1 DEF Put, RingInv, TypeOK
<1>5. (pc = "below" => head < tail)'
  BY DEF Put, Successor, RingInv, TypeOK
<1>6. WindowHasRoom'
  BY DEF Put, Successor, RingInv, TypeOK, WindowHasRoom
<1>. QED BY <1>1, <1>2, <1>3, <1>4, <1>5, <1>6 DEF RingInv

LEMMA TaskInv ==
  ASSUME RingInv, Task
  PROVE  RingInv'
<1> USE SizeAssumption, WrapAssumption
    DEF Index, PC, InWrap, RingInv, TypeOK, WindowHasRoom
<1>1. CASE GetTest BY <1>1 DEF GetTest
<1>2. CASE GetRead BY <1>2 DEF GetRead
<1>3. CASE GetInc BY <1>3 DEF GetInc
<1>4. CASE GetWrap BY <1>4 DEF GetWrap
<1>5. CASE FillTest BY <1>5 DEF FillTest
<1>6. CASE FillAbove BY <1>6 DEF FillAbove
<1>7. CASE FillBelow BY <1>7 DEF FillBelow
<1>. QED BY <1>1, <1>2, <1>3, <1>4, <1>5, <1>6, <1>7 DEF Task

(* TypeOK, and everything the refinement needs to know of a state.         *)
THEOREM Invariance ==
  ASSUME MaxPutsInWrap <= 1
  PROVE  Spec => []RingInv
<1>1. RingInv /\ [Next]_vars => RingInv'
  <2>. SUFFICES ASSUME RingInv, [Next]_vars PROVE RingInv'
    OBVIOUS
  <2>1. CASE \E b \in Byte : Put(b) BY <2>1, PutInv
  <2>2. CASE Task BY <2>2, TaskInv
  <2>3. CASE UNCHANGED vars
    BY <2>3 DEF vars, RingInv, TypeOK, WindowHasRoom, InWrap
  <2>. QED BY <2>1, <2>2, <2>3 DEF Next
<1>. QED BY InitInv, <1>1, PTL DEF Spec
-----------------------------------------------------------------------------
(* The refinement: every step of the ring is a step of the queue, or none. *)

LEMMA UsedRange ==
  ASSUME RingInv
  PROVE  /\ Oldest \in Index
         /\ Used \in 0 .. Size - 1
         /\ \A k \in 1 .. Used : Slot(k) \in Index
  BY SizeAssumption DEF RingInv, TypeOK, Oldest, Used, Slot, Index

LEMMA ContentsIsSeq ==
  ASSUME RingInv
  PROVE  /\ Contents \in Seq(Byte)
         /\ Len(Contents) = Used
<1>1. Used \in Nat /\ \A k \in 1 .. Used : pt[Slot(k)] \in Byte
  BY UsedRange, SizeAssumption DEF RingInv, TypeOK
<1>2. Contents \in [1 .. Used -> Byte]
  BY <1>1 DEF Contents
<1>. QED BY <1>1, <1>2

LEMMA PutRefines ==
  ASSUME MaxPutsInWrap <= 1, RingInv, NEW b \in Byte, Put(b)
  PROVE  [Fifo!Next]_(Fifo!vars)
<1> USE SizeAssumption
<1>0. RingInv' BY PutInv
<1>1. Oldest' = Oldest BY DEF Put, Oldest
<1>2. CASE Successor(head) = tail
  <2>1. head' = head /\ pt' = pt /\ putRes' = -1 BY <1>2 DEF Put
  <2>2. Used = Size - 1
    BY <1>2 DEF Used, Oldest, Successor, RingInv, TypeOK, Index
  <2>3. Contents' = Contents BY <1>1, <2>1 DEF Contents, Used, Slot
  <2>. QED BY <2>1, <2>2, <2>3, ContentsIsSeq DEF Fifo!Next, Fifo!Refuse
<1>3. CASE Successor(head) # tail
  <2>1. /\ pt' = [pt EXCEPT ![head] = b]
        /\ head' = Successor(head)
        /\ putRes' = 0
    BY <1>3 DEF Put
  <2>2. /\ Used' = Used + 1
        /\ Slot(Used + 1) = head
        /\ Used < Size - 1
    <3>1. CASE tail = Size
      <4>1. head <= Size - 2 + burst /\ burst < 1 /\ burst \in Nat /\ head \in Index
        BY <3>1, WrapAssumption DEF Put, RingInv, TypeOK, WindowHasRoom, InWrap
      <4>2. Oldest = 0 /\ Oldest' = 0 /\ head' = head + 1
        BY <1>1, <2>1, <3>1, <4>1 DEF Oldest, Successor, Index
      <4>. QED BY <4>1, <4>2 DEF Used, Slot, Index
    <3>2. CASE tail # Size
      <4>1. Oldest = tail /\ Oldest' = tail /\ tail \in Index /\ head \in Index
        BY <1>1, <3>2 DEF Oldest, RingInv, TypeOK, Index
      <4>2. CASE head + 1 >= Size
        BY <4>1, <4>2, <1>3, <2>1 DEF Used, Slot, Successor, Index
      <4>3. CASE head + 1 < Size
        BY <4>1, <4>3, <1>3, <2>1 DEF Used, Slot, Successor, Index
      <4>. QED BY <4>1, <4>2, <4>3 DEF Index
    <3>. QED BY <3>1, <3>2
  <2>4. \A k \in 1 .. Used : Slot(k) # head
    BY <2>2, UsedRange DEF Slot, Used, Oldest, RingInv, TypeOK, Index
  <2>5. \A k \in 1 .. Used + 1 :
          Contents'[k] = IF k = Used + 1 THEN b ELSE Contents[k]
    <3>. SUFFICES ASSUME NEW k \in 1 .. Used + 1
                  PROVE  Contents'[k] = IF k = Used + 1 THEN b ELSE Contents[k]
      OBVIOUS
    <3>1. Contents'[k] = pt'[Slot(k)] BY <1>1, <2>2 DEF Contents, Slot
    <3>2. CASE k = Used + 1
      BY <3>1, <3>2, <2>1, <2>2 DEF RingInv, TypeOK
    <3>3. CASE k # Used + 1
      <4>1. k \in 1 .. Used BY <3>3, UsedRange
      <4>2. Slot(k) \in Index /\ Slot(k) # head BY <4>1, <2>4, UsedRange
      <4>3. pt'[Slot(k)] = pt[Slot(k)] BY <4>2, <2>1 DEF RingInv, TypeOK
      <4>. QED BY <3>1, <3>3, <4>1, <4>3 DEF Contents
    <3>. QED BY <3>2, <3>3
  <2>6. Contents' = Append(Contents, b)
    <3>1. Contents \in Seq(Byte) /\ Len(Contents) = Used /\ Used \in Nat
      BY ContentsIsSeq, UsedRange
    <3>2. \A k \in 1 .. Used + 1 : Contents'[k] \in Byte
      BY <2>5, <3>1
    <3>3. Contents' \in [1 .. Used + 1 -> Byte]
      BY <2>2, <3>2 DEF Contents
    <3>4. Contents' \in Seq(Byte) /\ Len(Contents') = Used + 1
      BY <3>1, <3>3
    <3>5. /\ Append(Contents, b) \in Seq(Byte)
          /\ Len(Append(Contents, b)) = Used + 1
          /\ \A k \in 1 .. Used : Append(Contents, b)[k] = Contents[k]
          /\ Append(Contents, b)[Used + 1] = b
      BY <3>1, AppendProperties
    <3>6. \A k \in 1 .. Used + 1 : Contents'[k] = Append(Contents, b)[k]
      BY <2>5, <3>1, <3>5
    <3>. QED BY <3>4, <3>5, <3>6, SeqEqual
  <2>. QED BY <2>1, <2>2, <2>6, ContentsIsSeq DEF Fifo!Next, Fifo!Keep
<1>. QED BY <1>2, <1>3

LEMMA TaskRefines ==
  ASSUME RingInv, Task
  PROVE  [Fifo!Next]_(Fifo!vars)
<1> USE SizeAssumption
<1>1. CASE GetInc
  <2>1. /\ head' = head /\ pt' = pt /\ putRes' = putRes
        /\ tail' = tail + 1 /\ tail # head /\ tail \in Index
    BY <1>1 DEF GetInc, RingInv, TypeOK, Index
  <2>2. Used > 0 /\ Used' = Used - 1
    BY <2>1 DEF Used, Oldest, RingInv, TypeOK, Index
  <2>3. \A k \in 1 .. Used - 1 : Slot(k)' = Slot(k + 1)
    BY <2>1, UsedRange DEF Slot, Oldest, Index
  <2>4. Contents \in Seq(Byte) /\ Len(Contents) = Used /\ Used \in Nat
    BY ContentsIsSeq, UsedRange
  <2>5. /\ Tail(Contents) \in Seq(Byte)
        /\ Len(Tail(Contents)) = Used - 1
        /\ \A k \in 1 .. Used - 1 : Tail(Contents)[k] = Contents[k + 1]
    BY <2>2, <2>4, HeadTailProperties
  <2>6. \A k \in 1 .. Used - 1 : Contents'[k] = Contents[k + 1]
    BY <2>1, <2>2, <2>3, <2>4 DEF Contents
  <2>7. Contents' \in Seq(Byte) /\ Len(Contents') = Used - 1
    <3>1. \A k \in 1 .. Used - 1 : Contents'[k] \in Byte
      BY <2>4, <2>6
    <3>2. Contents' \in [1 .. Used - 1 -> Byte]
      BY <2>2, <3>1 DEF Contents
    <3>. QED BY <2>2, <2>4, <3>2
  <2>8. Contents' = Tail(Contents) BY <2>5, <2>6, <2>7, SeqEqual
  <2>. QED BY <2>1, <2>2, <2>4, <2>8 DEF Fifo!Next, Fifo!Take
<1>2. CASE GetWrap
  <2>1. Oldest' = Oldest BY <1>2 DEF GetWrap, Oldest, RingInv, TypeOK
  <2>. QED BY <1>2, <2>1 DEF GetWrap, Contents, Used, Slot, Fifo!vars
<1>3. CASE \/ GetTest \/ GetRead \/ FillTest \/ FillAbove \/ FillBelow
  BY <1>3 DEF GetTest, GetRead, FillTest, FillAbove, FillBelow,
              Contents, Used, Slot, Oldest, Fifo!vars
<1>. QED BY <1>1, <1>2, <1>3 DEF Task

(* The ring implements the bounded queue: with at most one put in the wrap *)
(* window RINGBUF_Put and RINGBUF_Get lose, repeat and reorder nothing.    *)
THEOREM Refinement ==
  ASSUME MaxPutsInWrap <= 1
  PROVE  Spec => IsFifo
<1>1. Init => Fifo!Init
  <2>. SUFFICES ASSUME Init PROVE Fifo!Init OBVIOUS
  <2>1. Used = 0 BY SizeAssumption DEF Init, Used, Oldest
  <2>2. Contents = <<>> BY <2>1 DEF Contents
  <2>. QED BY <2>2 DEF Init, Fifo!Init
<1>2. RingInv /\ [Next]_vars => [Fifo!Next]_(Fifo!vars)
  <2>. SUFFICES ASSUME RingInv, [Next]_vars PROVE [Fifo!Next]_(Fifo!vars)
    OBVIOUS
  <2>1. CASE \E b \in Byte : Put(b) BY <2>1, PutRefines
  <2>2. CASE Task BY <2>2, TaskRefines
  <2>3. CASE UNCHANGED vars
    BY <2>3 DEF vars, Contents, Used, Slot, Oldest, Fifo!vars
  <2>. QED BY <2>1, <2>2, <2>3 DEF Next
<1>. QED BY <1>1, <1>2, Invariance, PTL DEF Spec, IsFifo, Fifo!Spec

-----------------------------------------------------------------------------
(* Every field has its type; the tail leaves the buffer only in the window *)
(* between "tail++" and "tail = 0" (RINGBUF_Get).                          *)
THEOREM TypeCorrect ==
  ASSUME MaxPutsInWrap <= 1
  PROVE  Spec => []TypeOK
<1>1. RingInv => TypeOK
  BY DEF RingInv
<1>. QED BY <1>1, Invariance, PTL

(* The slot that is being read is the oldest one and keeps its byte.       *)
THEOREM ReadIsOldestHolds ==
  ASSUME MaxPutsInWrap <= 1
  PROVE  Spec => []ReadIsOldest
<1>1. RingInv => ReadIsOldest
  <2>. SUFFICES ASSUME RingInv, pc = "inc" PROVE Used > 0 /\ c = Contents[1]
    BY DEF ReadIsOldest
  <2>1. tail \in Index /\ tail # head /\ c = pt[tail]
    BY SizeAssumption DEF RingInv, TypeOK, Index
  <2>2. Used > 0 /\ Slot(1) = tail /\ Used \in Nat
    BY <2>1, SizeAssumption DEF Used, Slot, Oldest, RingInv, TypeOK, Index
  <2>. QED BY <2>1, <2>2 DEF Contents
<1>. QED BY <1>1, Invariance, PTL

(* RINGBUF_GetFill never promises a byte that is not there.                *)
THEOREM FillSound ==
  ASSUME MaxPutsInWrap <= 1
  PROVE  Spec => FillNeverOverstates
<1>1. RingInv /\ [Next]_vars => [FillAbove \/ FillBelow => fill' <= Used]_vars
  BY SizeAssumption
  DEF FillAbove, FillBelow, Used, Oldest, RingInv, TypeOK, Index
<1>. QED BY <1>1, Invariance, PTL DEF Spec, FillNeverOverstates

(* A put that advances the head leaves one more byte in the ring, as long  *)
(* as no more than one falls between "tail++" and "tail = 0": the second   *)
(* one that the run of AcceptedIsKept needs is what makes it fail, for     *)
(* every size.                                                             *)
THEOREM AcceptedIsKeptHolds ==
  ASSUME MaxPutsInWrap <= 1
  PROVE  Spec => AcceptedIsKept
<1>1. RingInv /\ [Next]_vars => [head' # head => Used' = Used + 1]_vars
  <2> SUFFICES ASSUME RingInv, Next, head' # head PROVE Used' = Used + 1
    OBVIOUS
  <2>1. PICK b \in Byte : Put(b)
    BY DEF Next, Task, GetTest, GetRead, GetInc, GetWrap, FillTest, FillAbove, FillBelow
  <2>2. /\ head' = Successor(head) /\ Successor(head) # tail /\ tail' = tail
        /\ InWrap => burst < MaxPutsInWrap
    BY <2>1 DEF Put
  <2>3. head \in 0 .. Size - 1 /\ tail \in 0 .. Size
    BY DEF RingInv, TypeOK, Index
  \* The put does not fill the slot before the oldest byte, in the window too.
  <2>4. tail = Size => head <= Size - 2
    BY <2>2, SizeAssumption, WrapAssumption DEF RingInv, TypeOK, WindowHasRoom, InWrap
  <2> QED  BY <2>2, <2>3, <2>4, SizeAssumption DEF Successor, Used, Oldest
<1> QED  BY <1>1, Invariance, PTL DEF Spec, AcceptedIsKept
=============================================================================
