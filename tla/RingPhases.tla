------------------------------ MODULE RingPhases ------------------------------
(***************************************************************************)
(* What the ring detector promises the main task, wherever its interrupts  *)
(* fall: its phases follow each other, a message it has recognised is      *)
(* noted before the phase is left, and a note stays until it is read.      *)
(***************************************************************************)
EXTENDS Integers

VARIABLES
  ringPhase,   \* ampm_RingingPhase
  newSms,      \* ampm_NewSmsFlag
  calls        \* the calls of Reset, Enable and Disable

vars == <<ringPhase, newSms, calls>>

Init == ringPhase = "IDLE" /\ newSms = FALSE /\ calls = 0

\* The phases that one call of Ampm_RingingProcess may leave.
After(p) ==
  CASE p = "IDLE"         -> {"IDLE", "IS_DETECTING"}
    [] p = "IS_DETECTING" -> {"IS_DETECTING", "IS_A_CALL", "IS_A_SMS"}
    [] p = "IS_A_CALL"    -> {"IS_A_CALL", "IDLE"}
    [] p = "IS_A_SMS"     -> {"IDLE"}

Process ==
  /\ ringPhase' \in After(ringPhase)
  /\ newSms' = (newSms \/ ringPhase = "IS_A_SMS")

\* The text of an announcement, in the interrupt.
Announce == newSms' = TRUE /\ UNCHANGED ringPhase

\* The main task reads the messages.
Read == newSms' = FALSE /\ UNCHANGED ringPhase

\* The main task takes a call, changes the mode or starts the modem over.
Called == ringPhase' \in {ringPhase, "IDLE"} /\ UNCHANGED newSms

Next ==
  \/ (Process \/ Announce \/ Read) /\ UNCHANGED calls
  \/ Called /\ calls' = calls + 1

Spec == Init /\ [][Next]_vars
=============================================================================
