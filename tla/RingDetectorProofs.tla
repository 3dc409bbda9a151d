-------------------------- MODULE RingDetectorProofs --------------------------
(***************************************************************************)
(* One message alone is never taken for a call, for every choice of the    *)
(* times and every number of resets.                                       *)
(*                                                                         *)
(* The property is not inductive: what makes the detector report a call is *)
(* a pulse counted, or a text seen, some steps earlier.  Unheard says what *)
(* is known of them while no call has rung: there is no text, a pulse was  *)
(* the message's only one, and the count was cleared after it.             *)
(***************************************************************************)
EXTENDS RingDetector, TLAPS

\* The phase belongs to the place where the task is.
PhaseAt ==
  /\ pc = "start" => ringPhase = "IDLE"
  /\ pc \in {"call", "sms", "time"} => ringPhase = "IS_DETECTING"
  /\ pc = "miss" => ringPhase = "IS_A_CALL"

Unheard ==
  /\ flag \cap {"CLIP", "RING"} = {}
  /\ "RI" \in flag \/ pc = "start" \/ ringPhase # "IDLE" => "pulse" \notin msg
  /\ ringPhase = "IS_DETECTING" => ~times /\ pc # "call"
  /\ ringPhase # "IS_A_CALL"

Inv == TypeOK /\ PhaseAt /\ (~rung => Unheard)

-----------------------------------------------------------------------------
\* The type invariant in two parts: what is counted and the rest.
Numbers ==
  /\ time \in 0 .. Silence
  /\ pause \in 0 .. DisableTime
  /\ old \in 0 .. Silence
  /\ ops \in 0 .. MaxOps
  /\ gap \in 0 .. RingGap

Control ==
  /\ ringPhase \in {"IDLE", "IS_DETECTING", "IS_A_SMS", "IS_A_CALL"}
  /\ flag \subseteq Bits
  /\ pc \in {"loop", "start", "call", "sms", "time", "miss", "tick", "reset"}
  /\ msg \subseteq {"pulse", "CMTI"}
  /\ times \in BOOLEAN /\ newSms \in BOOLEAN /\ missCall \in BOOLEAN
  /\ ringing \in BOOLEAN /\ rung \in BOOLEAN

LEMMA TypeParts == TypeOK <=> Numbers /\ Control
  BY DEF TypeOK, Numbers, Control

LEMMA InitInv == Init => Inv
<1> SUFFICES ASSUME Init PROVE Inv
  OBVIOUS
<1>1. Numbers
  BY RingAssumption DEF Init, Numbers
<1>2. Control
  BY DEF Init, Control, Bits
<1>3. PhaseAt /\ Unheard
  BY DEF Init, PhaseAt, Unheard
<1> QED BY <1>1, <1>2, <1>3, TypeParts DEF Inv

LEMMA NumbersStep ==
  ASSUME Numbers, [Next]_vars
  PROVE  Numbers'
<1> USE RingAssumption DEF Numbers
<1>1. CASE Ring
  BY <1>1 DEF Ring, SetRinging, taskVars
<1>2. CASE RingText
  BY <1>2 DEF RingText, SetAt, taskVars
<1>3. CASE Pulse
  BY <1>3 DEF Pulse, SetRinging, taskVars
<1>4. CASE Cmti
  BY <1>4 DEF Cmti, taskVars
<1>5. CASE Caller
  BY <1>5 DEF Caller, taskVars, isrVars
<1>6. CASE RingingProcess
  BY <1>6 DEF RingingProcess, IdleTest, IdleStart, DetectTest, DetectCall,
              DetectSms, DetectTime, IsSms, CallTest, CallMiss, Step, ToIdle,
              isrVars
<1>7. CASE RingingTimer
  BY <1>7 DEF RingingTimer, TimerRead, TimerWrite, isrVars, envVars
<1>8. CASE Main
  BY <1>8 DEF Main, ResetFlag, ResetPause, Disable, Enable, ReadSms, Op, ToIdle,
              isrVars, taskVars, envVars
<1>9. CASE UNCHANGED vars
  BY <1>9 DEF vars, isrVars, taskVars, envVars
<1> QED BY <1>1, <1>2, <1>3, <1>4, <1>5, <1>6, <1>7, <1>8, <1>9 DEF Next

LEMMA ControlStep ==
  ASSUME Control, [Next]_vars
  PROVE  Control'
<1> USE DEF Control, Bits
<1>1. CASE Ring
  BY <1>1 DEF Ring, SetRinging, taskVars
<1>2. CASE RingText
  BY <1>2 DEF RingText, SetAt, taskVars
<1>3. CASE Pulse
  BY <1>3 DEF Pulse, SetRinging, taskVars
<1>4. CASE Cmti
  BY <1>4 DEF Cmti, taskVars
<1>5. CASE Caller
  BY <1>5 DEF Caller, taskVars, isrVars
<1>6. CASE RingingProcess
  BY <1>6 DEF RingingProcess, IdleTest, IdleStart, DetectTest, DetectCall,
              DetectSms, DetectTime, IsSms, CallTest, CallMiss, Step, ToIdle,
              isrVars
<1>7. CASE RingingTimer
  BY <1>7 DEF RingingTimer, TimerRead, TimerWrite, isrVars, envVars
<1>8. CASE Main
  BY <1>8 DEF Main, ResetFlag, ResetPause, Disable, Enable, ReadSms, Op, ToIdle,
              isrVars, taskVars, envVars
<1>9. CASE UNCHANGED vars
  BY <1>9 DEF vars, isrVars, taskVars, envVars
<1> QED BY <1>1, <1>2, <1>3, <1>4, <1>5, <1>6, <1>7, <1>8, <1>9 DEF Next

LEMMA NextInv ==
  ASSUME Inv, [Next]_vars
  PROVE  Inv'
<1>0. TypeOK'
  <2>1. Numbers' /\ Control'
    BY NumbersStep, ControlStep, TypeParts DEF Inv
  <2> QED BY <2>1 DEF TypeOK, Numbers, Control
<1> SUFFICES PhaseAt' /\ (~rung' => Unheard')
  BY <1>0 DEF Inv
<1> USE TypeParts DEF Inv, Control, PhaseAt, Unheard, Bits
<1>1. CASE Ring
  BY <1>1 DEF Ring, taskVars
<1>2. CASE RingText
  BY <1>2 DEF RingText, taskVars
\* If no call has rung, this pulse is the first and the detector is in IDLE.
<1>3. CASE Pulse
  BY <1>3 DEF Pulse, SetRinging, taskVars
<1>4. CASE Cmti
  BY <1>4 DEF Cmti, taskVars
<1>5. CASE Caller
  BY <1>5 DEF Caller, taskVars, isrVars
<1>6. CASE IdleTest
  BY <1>6 DEF IdleTest, Step
<1>7. CASE IdleStart
  BY <1>7 DEF IdleStart, Step
\* Without a ring there is nothing that makes this a call.
<1>8. CASE DetectTest
  BY <1>8 DEF DetectTest, IsCall, Step, isrVars
<1>9. CASE DetectCall
  BY <1>9 DEF DetectCall, Step
<1>10. CASE DetectSms
  BY <1>10 DEF DetectSms, Step
<1>11. CASE DetectTime
  BY <1>11 DEF DetectTime, Step, isrVars
\* The flag is cleared in the step that enters IDLE.
<1>12. CASE IsSms \/ CallMiss
  BY <1>12 DEF IsSms, CallMiss, ToIdle, Step
<1>13. CASE CallTest
  BY <1>13 DEF CallTest, Step, isrVars
<1>14. CASE RingingTimer
  BY <1>14 DEF RingingTimer, TimerRead, TimerWrite, isrVars, envVars
<1>15. CASE ResetFlag \/ Disable
  BY <1>15 DEF ResetFlag, Disable, Op, ToIdle
<1>16. CASE ResetPause \/ Enable \/ ReadSms
  BY <1>16 DEF ResetPause, Enable, ReadSms, Op, isrVars, taskVars, envVars
<1>17. CASE UNCHANGED vars
  BY <1>17 DEF vars, isrVars, taskVars, envVars
<1> QED BY <1>1, <1>2, <1>3, <1>4, <1>5, <1>6, <1>7, <1>8, <1>9, <1>10, <1>11,
           <1>12, <1>13, <1>14, <1>15, <1>16, <1>17
        DEF Next, RingingProcess, Main

-----------------------------------------------------------------------------
(* The types, and what is known while no call has rung.                    *)
THEOREM Invariance == Spec => []Inv
  BY InitInv, NextInv, PTL DEF Spec

(* Every variable has its type; both timers stay in range                  *)
(* wherever the interrupts fall (Ampm_RingingTimer).                       *)
THEOREM TypeCorrect == Spec => []TypeOK
<1>1. Inv => TypeOK
  BY DEF Inv
<1> QED BY <1>1, Invariance, PTL

(* A call is only reported after a call has rung (ampm_gsm_ring.c:98-104). *)
THEOREM NoCallWithoutRingHolds == Spec => []NoCallWithoutRing
<1>1. Inv => NoCallWithoutRing
  BY DEF Inv, Unheard, NoCallWithoutRing
<1> QED BY <1>1, Invariance, PTL

(* The main task sees the detector go from phase to phase as GsmMainTask   *)
(* assumes, and a message that was noted stays noted until it is read: the *)
(* interrupts that fall into Ampm_RingingProcess do not show.              *)
THEOREM DetectorIsRingPhases == Spec => IsRingPhases
<1>1. Init => Seen!Init
  BY DEF Init, Seen!Init
<1>2. Inv /\ [Next]_vars => [Seen!Next]_(Seen!vars)
  <2> SUFFICES ASSUME Inv, [Next]_vars PROVE [Seen!Next]_(Seen!vars)
    OBVIOUS
  <2> USE DEF Seen!Next, Seen!vars
  <2>1. CASE Ring \/ RingText \/ Pulse \/ Caller
    BY <2>1 DEF Ring, RingText, Pulse, Caller, taskVars, isrVars
  <2>2. CASE Cmti
    BY <2>2 DEF Cmti, taskVars, Seen!Announce
  <2>3. CASE IdleTest \/ DetectTest \/ CallTest
    BY <2>3 DEF IdleTest, DetectTest, CallTest, Step, isrVars
  \* What the process does in a phase it does while that phase lasts.
  <2>4. CASE IdleStart \/ DetectCall \/ DetectSms \/ DetectTime
    <3>1. /\ IdleStart => ringPhase = "IDLE" /\ ringPhase' = "IS_DETECTING"
          /\ DetectCall => ringPhase = "IS_DETECTING" /\ ringPhase' = "IS_A_CALL"
          /\ DetectSms => ringPhase = "IS_DETECTING" /\ ringPhase' = "IS_A_SMS"
          /\ DetectTime => /\ ringPhase = "IS_DETECTING"
                           /\ ringPhase' \in {"IS_DETECTING", "IS_A_SMS"}
      BY DEF IdleStart, DetectCall, DetectSms, DetectTime, Step, Inv, PhaseAt
    <3>2. UNCHANGED <<newSms, ops>>
      BY <2>4 DEF IdleStart, DetectCall, DetectSms, DetectTime, Step, isrVars
    <3> QED  BY <2>4, <3>1, <3>2 DEF Inv, TypeOK, Seen!Process, Seen!After
  <2>5. CASE IsSms
    <3>1. /\ ringPhase = "IS_A_SMS" /\ ringPhase' = "IDLE"
          /\ newSms' = TRUE /\ UNCHANGED ops
      BY <2>5 DEF IsSms, Step, ToIdle
    <3> QED  BY <3>1 DEF Seen!Process, Seen!After
  <2>6. CASE CallMiss
    <3>1. /\ ringPhase = "IS_A_CALL" /\ ringPhase' = "IDLE"
          /\ UNCHANGED <<newSms, ops>>
      BY <2>6 DEF CallMiss, Step, ToIdle, Inv, PhaseAt
    <3> QED  BY <3>1 DEF Inv, TypeOK, Seen!Process, Seen!After
  <2>7. CASE RingingTimer \/ ResetPause
    BY <2>7 DEF RingingTimer, TimerRead, TimerWrite, ResetPause, isrVars, envVars
  <2>8. CASE ResetFlag \/ Disable \/ Enable
    BY <2>8 DEF ResetFlag, Disable, Enable, Op, ToIdle, Seen!Called
  <2>9. CASE ReadSms
    BY <2>9 DEF ReadSms, taskVars, Seen!Read
  <2>10. CASE UNCHANGED vars
    BY <2>10 DEF vars, isrVars, taskVars
  <2> QED
    BY <2>1, <2>2, <2>3, <2>4, <2>5, <2>6, <2>7, <2>8, <2>9, <2>10
    DEF Next, RingingProcess, Main
<1> QED  BY <1>1, <1>2, Invariance, PTL DEF Spec, IsRingPhases, Seen!Spec
=============================================================================
