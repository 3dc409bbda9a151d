----------------------------- MODULE RingDetector -----------------------------
(***************************************************************************)
(* ampm_gsm/ampm_gsm_ring.c: is it a call or a message that the modem       *)
(* announces?  In data mode the text of the announcement cannot be read and *)
(* only the pulses of the ring line are there: one for a message, one every *)
(* few seconds for a call.                                                 *)
(*                                                                         *)
(* The interrupts (pin and UART, of one priority) are never preempted by   *)
(* the task; the task's functions run in the main loop and are interrupted *)
(* between the steps given here.  Two accesses are one step where an       *)
(* interrupt between them comes to the same as one before or after both.   *)
(***************************************************************************)
EXTENDS Integers

CONSTANTS
  Silence,       \* seconds after which a ring is over: 6
  RingGap,       \* seconds between two rings of a call (external)
  DisableTime,   \* seconds the pin is ignored after Ampm_RingingDisable: 15
  MaxOps         \* bound: calls of Reset, Enable and Disable

ASSUME RingAssumption ==
  /\ Silence \in Nat /\ RingGap \in 1 .. Silence - 1
  /\ DisableTime \in Nat \ {0} /\ MaxOps \in Nat

VARIABLES
  ringPhase,     \* ampm_RingingPhase
  flag,          \* ampm_RingingFlag, as the set of its bits
  times,         \* ampm_RingingFlagTimes # 0
  time,          \* ampm_RingingTime, counted no further than Silence
  pause,         \* ampm_RingingPauseTime
  newSms,        \* ampm_NewSmsFlag
  missCall,      \* ampm_MissCall
  pc,            \* where the task is
  old,           \* what "ampm_RingingTime++" has read
  ops,           \* bound: the calls made so far
  ringing,       \* external: a call is coming in
  gap,           \* external: seconds since its last ring
  msg,           \* external: what a message still has to announce itself with
  rung           \* history: a call has rung since ringPhase became IDLE

taskVars == <<pc, old, ops>>
isrVars  == <<flag, times, time, newSms>>
envVars  == <<ringing, gap, msg, rung>>
vars == <<ringPhase, isrVars, pause, missCall, taskVars, envVars>>

Bits == {"RI", "CLIP", "RING", "CMTI"}

TypeOK ==
  /\ ringPhase \in {"IDLE", "IS_DETECTING", "IS_A_SMS", "IS_A_CALL"}
  /\ flag \subseteq Bits
  /\ time \in 0 .. Silence
  /\ pause \in 0 .. DisableTime
  /\ pc \in {"loop", "start", "call", "sms", "time", "miss", "tick", "reset"}
  /\ old \in 0 .. Silence
  /\ ops \in 0 .. MaxOps
  /\ gap \in 0 .. RingGap
  /\ msg \subseteq {"pulse", "CMTI"}
  /\ times \in BOOLEAN /\ newSms \in BOOLEAN /\ missCall \in BOOLEAN
  /\ ringing \in BOOLEAN /\ rung \in BOOLEAN

Init ==
  /\ ringPhase = "IDLE" /\ flag = {} /\ times = FALSE /\ time = 0 /\ pause = 0
  /\ newSms = FALSE /\ missCall = FALSE
  /\ pc = "loop" /\ old = 0 /\ ops = 0
  /\ ringing = FALSE /\ gap = 0 /\ msg = {"pulse", "CMTI"} /\ rung = FALSE

-----------------------------------------------------------------------------
(* The interrupts.                                                         *)

\* Ampm_SetRinging, on a rising edge of the ring line.
SetRinging ==
  IF pause = 0
    THEN flag' = flag \cup {"RI"} /\ times' = TRUE /\ time' = 0
    ELSE UNCHANGED <<flag, times, time>>

\* Ampm_SetAtRing and Ampm_SetAtClip.
SetAt(bit) ==
  /\ flag' = flag \cup {bit}
  /\ time' = 0
  /\ UNCHANGED times

\* A call pulses the line.
Ring ==
  /\ ringing
  /\ SetRinging
  /\ gap' = 0
  /\ rung' = TRUE
  /\ UNCHANGED <<ringPhase, pause, newSms, missCall, taskVars, ringing, msg>>

\* In command mode the modem also says so.
RingText ==
  /\ ringing
  /\ \E bit \in {"RING", "CLIP"} : SetAt(bit)
  /\ rung' = TRUE
  /\ UNCHANGED <<ringPhase, newSms, pause, missCall, taskVars, ringing, gap, msg>>

\* A message pulses the line, once.
Pulse ==
  /\ "pulse" \in msg
  /\ SetRinging
  /\ msg' = msg \ {"pulse"}
  /\ UNCHANGED <<ringPhase, pause, newSms, missCall, taskVars, ringing, gap, rung>>

\* Ampm_SetAtCmti.
Cmti ==
  /\ "CMTI" \in msg
  /\ newSms' = TRUE
  /\ flag' = flag \cup {"CMTI"}
  /\ msg' = msg \ {"CMTI"}
  /\ UNCHANGED <<ringPhase, times, time, pause, missCall, taskVars, ringing, gap,
                 rung>>

\* The caller calls, or gives up.
Caller ==
  /\ ringing' = ~ringing
  /\ gap' = 0
  /\ UNCHANGED <<ringPhase, isrVars, pause, missCall, taskVars, msg, rung>>

-----------------------------------------------------------------------------
(* Ampm_RingingProcess, in the task.                                       *)

\* The phase becomes IDLE.
ToIdle == ringPhase' = "IDLE" /\ rung' = FALSE

Step(from, to) ==
  /\ pc = from
  /\ pc' = to
  /\ UNCHANGED <<pause, old, ops, ringing, gap, msg>>

IdleTest ==
  /\ ringPhase = "IDLE"
  /\ "RI" \in flag
  /\ Step("loop", "start")
  /\ flag' = {}
  /\ UNCHANGED <<ringPhase, times, time, newSms, missCall, rung>>

\* A faulty start that does not forget the pulses of the last call.
StartKeepsTimes ==
  /\ Step("start", "loop")
  /\ time' = 0
  /\ ringPhase' = "IS_DETECTING"
  /\ UNCHANGED <<flag, times, newSms, missCall, rung>>

IdleStart ==
  /\ Step("start", "loop")
  /\ times' = FALSE
  /\ time' = 0
  /\ ringPhase' = "IS_DETECTING"
  /\ UNCHANGED <<flag, newSms, missCall, rung>>

IsCall == times \/ flag \cap {"CLIP", "RING"} # {}

DetectTest ==
  /\ ringPhase = "IS_DETECTING"
  /\ Step("loop", IF IsCall THEN "call" ELSE IF "CMTI" \in flag THEN "sms" ELSE "time")
  /\ UNCHANGED <<ringPhase, isrVars, missCall, rung>>

DetectCall ==
  /\ Step("call", "loop")
  /\ flag' = {}
  /\ ringPhase' = "IS_A_CALL"
  /\ UNCHANGED <<times, time, newSms, missCall, rung>>

DetectSms ==
  /\ Step("sms", "loop")
  /\ flag' = {}
  /\ ringPhase' = "IS_A_SMS"
  /\ UNCHANGED <<times, time, newSms, missCall, rung>>

\* A faulty test of the time that gives the pulse up.
TimeGivesUp ==
  /\ Step("time", "loop")
  /\ ringPhase' = IF time >= Silence THEN "IDLE" ELSE ringPhase
  /\ UNCHANGED <<isrVars, missCall, rung>>

DetectTime ==
  /\ Step("time", "loop")
  /\ ringPhase' = IF time >= Silence THEN "IS_A_SMS" ELSE ringPhase
  /\ UNCHANGED <<isrVars, missCall, rung>>

IsSms ==
  /\ ringPhase = "IS_A_SMS"
  /\ Step("loop", "loop")
  /\ newSms' = TRUE /\ flag' = {} /\ time' = 0
  /\ ToIdle
  /\ UNCHANGED <<times, missCall>>

CallTest ==
  /\ ringPhase = "IS_A_CALL"
  /\ time >= Silence
  /\ Step("loop", "miss")
  /\ UNCHANGED <<ringPhase, isrVars, missCall, rung>>

CallMiss ==
  /\ Step("miss", "loop")
  /\ missCall' = TRUE
  /\ flag' = {}
  /\ ToIdle
  /\ UNCHANGED <<times, time, newSms>>

RingingProcess ==
  \/ IdleTest \/ IdleStart
  \/ DetectTest \/ DetectCall \/ DetectSms \/ DetectTime
  \/ IsSms \/ CallTest \/ CallMiss

-----------------------------------------------------------------------------
(* Ampm_RingingTimer, once a second: "ampm_RingingTime++" is a read and a  *)
(* write.  A call in progress rings within RingGap seconds.                *)

TimerRead ==
  /\ pc = "loop"
  /\ ringing => gap < RingGap
  /\ pc' = "tick"
  /\ old' = time
  /\ gap' = IF ringing THEN gap + 1 ELSE 0
  /\ UNCHANGED <<ringPhase, isrVars, pause, missCall, ops, ringing, msg, rung>>

\* A faulty timer that leaves the pin ignored.
TimerKeepsPause ==
  /\ pc = "tick"
  /\ pc' = "loop"
  /\ time' = IF old < Silence THEN old + 1 ELSE Silence
  /\ UNCHANGED <<ringPhase, flag, times, newSms, pause, missCall, old, ops, envVars>>

TimerWrite ==
  /\ pc = "tick"
  /\ pc' = "loop"
  /\ time' = IF old < Silence THEN old + 1 ELSE Silence
  /\ pause' = IF pause > 0 THEN pause - 1 ELSE 0
  /\ UNCHANGED <<ringPhase, flag, times, newSms, missCall, old, ops, envVars>>

RingingTimer == TimerRead \/ TimerWrite

-----------------------------------------------------------------------------
(* What the main task calls: Reset when it takes the call or starts the    *)
(* modem over, Disable when it has dialled, Enable in data mode and before *)
(* it leaves it.                                                           *)

Op ==
  /\ pc = "loop"
  /\ ops < MaxOps
  /\ ops' = ops + 1
  /\ UNCHANGED <<times, time, newSms, missCall, old, ringing, gap, msg>>

\* A faulty reset that forgets a message with the ring.
ResetForgetsSms ==
  /\ pc = "loop" /\ ops < MaxOps /\ ops' = ops + 1
  /\ flag' = {} /\ newSms' = FALSE
  /\ ToIdle
  /\ pc' = "reset"
  /\ UNCHANGED <<times, time, pause, missCall, old, ringing, gap, msg>>

\* Ampm_RingingReset: a pulse before its last line is not ignored.
ResetFlag ==
  /\ Op
  /\ flag' = {}
  /\ ToIdle
  /\ pc' = "reset"
  /\ UNCHANGED pause

ResetPause ==
  /\ pc = "reset"
  /\ pc' = "loop"
  /\ pause' = 1
  /\ UNCHANGED <<ringPhase, isrVars, missCall, old, ops, envVars>>

Disable ==
  /\ Op
  /\ pause' = DisableTime
  /\ flag' = {}
  /\ ToIdle
  /\ UNCHANGED pc

Enable ==
  /\ Op
  /\ pause' = 0
  /\ UNCHANGED <<ringPhase, flag, rung, pc>>

\* IDLE has started to read the messages.
ReadSms ==
  /\ pc = "loop"
  /\ newSms' = FALSE
  /\ UNCHANGED <<ringPhase, flag, times, time, pause, missCall, taskVars, envVars>>

Main == ResetFlag \/ ResetPause \/ Disable \/ Enable \/ ReadSms

-----------------------------------------------------------------------------
Next == Ring \/ RingText \/ Pulse \/ Cmti \/ Caller \/ RingingProcess \/ RingingTimer \/ Main

Spec == Init /\ [][Next]_vars

(* Every iteration of the main loop calls the process, so it is not only   *)
(* the timer that runs; a call rings while it is there.  Nothing makes a   *)
(* caller call or the main task reset.                                     *)
FairSpec ==
  /\ Spec
  /\ SF_vars(RingingProcess)
  /\ WF_vars(RingingTimer) /\ SF_vars(TimerRead)
  /\ WF_vars(ResetPause)
  /\ WF_vars(gap = RingGap /\ Ring)

-----------------------------------------------------------------------------
(* One message alone is never taken for a call, whatever pulses a call     *)
(* before it left behind and wherever the interrupts fall.                 *)
NoCallWithoutRing == ringPhase = "IS_A_CALL" => rung

Seen == INSTANCE RingPhases WITH calls <- ops

(* The main task may take the detector for its phases and the note of a    *)
(* message alone, as GsmMainTask does: they follow each other as it assumes*)
(* and no message that was noted is forgotten.                             *)
IsRingPhases == Seen!Spec

(* A call that keeps ringing is reported, again and again until it is      *)
(* taken, although every interrupt may fall between a test and the clearing*)
(* of what it tests.                                                       *)
RingIsSeen == <>[]ringing => []<>(ringPhase = "IS_A_CALL")

(* A pulse that was accepted ends in a message to be read, or a call, or is*)
(* forgotten by the main task: the text of the announcement is not needed. *)
PulseIsSeen ==
  "RI" \in flag /\ ringPhase = "IDLE" ~>
    newSms \/ ringPhase = "IS_A_CALL" \/ pc = "reset" \/ pause = DisableTime
=============================================================================
