---------------------------- MODULE AtCmdEngine ----------------------------
(***************************************************************************)
(* lib/sparser.c, Ampm_SendCmd and Ampm_Cmd_Task: the engine that sends AT *)
(* commands to the modem, waits for their answers, resends, and runs the   *)
(* chains that the commands form.                                          *)
(*                                                                         *)
(* A command is an AMPM_CMD_PROCESS_TYPE constant of the program.  What    *)
(* tells two of them apart here: the command it is chained to, how often   *)
(* it is resent, and what its end callback does with each outcome.  Every  *)
(* command of the program has a send and a receive callback, and no code   *)
(* fills the command list, so those NULL and list branches of the source   *)
(* are unreachable.  The modem (external) answers anything at any time.    *)
(***************************************************************************)
EXTENDS Integers, FiniteSets

CONSTANTS
  Cmd,        \* the commands
  None,       \* the NULL pointer
  nextCmd,    \* nextCmd[c]: the member "next" of command c, or None
  retryNum,   \* retryNum[c]: how many times c is resent
  sendCb,     \* sendCb[c]: what the send callback of c may do
  endCb       \* endCb[c][o]: what the end callback of c may do with outcome o

(* A send callback transmits the command, "send", or finds nothing to send *)
(* and calls Ampm_SendAtCmdNow for another command: that command.          *)
(*                                                                         *)
(* An end callback returns 1 (or is NULL): "done"; returns 0 to be called  *)
(* again: "wait"; is Ampm_SetCmdOK: "setok"; or it calls Ampm_SendAtCmdNow *)
(* for a command: that command.                                            *)
Outcome   == {"OK", "ERROR"}
EndResult == {"done", "wait", "setok"} \cup Cmd

ASSUME CmdAssumption ==
  /\ None \notin Cmd
  /\ Cmd \cap {"send", "done", "wait", "setok"} = {}
  /\ nextCmd \in [Cmd -> Cmd \cup {None}]
  /\ retryNum \in [Cmd -> Nat]
  /\ sendCb \in [Cmd -> SUBSET ({"send"} \cup Cmd)]
  /\ endCb \in [Cmd -> [Outcome -> SUBSET EndResult]]

VARIABLES
  CmdPhase,   \* ampm_GSM_CmdPhase
  cmdSend,    \* ampmGSM_CmdSend: the command it is a copy of, or None
  retry,      \* ampmGSM_CmdSend.retryNum, counted down
  timer,      \* ampm_GSM_TaskTimeout: "running" or "expired"
  sent,       \* history: transmissions since cmdSend was loaded
  skipped,    \* history: it was put in WAIT by another's send callback
  answered,   \* history: the modem accepted one of them
  told        \* history: the outcomes its end callback was called with

engineVars == <<CmdPhase, cmdSend, retry, timer, sent, skipped, answered, told>>

IdlePhase == {"ERROR", "OK"}
CmdPhases == {"SEND", "RESEND", "WAIT", "DELAY", "GOTO_ERROR"} \cup IdlePhase

TypeOK ==
  /\ CmdPhase \in CmdPhases
  /\ cmdSend \in Cmd \cup {None}
  /\ retry \in Nat
  /\ timer \in {"running", "expired"}
  /\ sent \in Nat
  /\ skipped \in BOOLEAN
  /\ answered \in BOOLEAN
  /\ told \in SUBSET Outcome

\* The state AMPM_GSM_MainTask's INIT phase leaves before the first command.
Init ==
  /\ CmdPhase = "OK"
  /\ cmdSend = None
  /\ retry = 0
  /\ timer = "expired"
  /\ sent = 0
  /\ skipped = FALSE
  /\ answered = FALSE
  /\ told = {}

-----------------------------------------------------------------------------
\* Ampm_CmdTask_IsIdle
IsIdle == CmdPhase \in IdlePhase

\* cmdSend->next
Next_(c) == IF c = None THEN None ELSE nextCmd[c]

\* Ampm_CmdCheck_IsEmpty
IsEmpty == Next_(cmdSend) = None

\* "*cmdSend = *cmd; InitTimeout(delay); phase = SEND": Ampm_SendCmdNow.
Load(c) ==
  /\ cmdSend' = c
  /\ retry' = retryNum[c]
  /\ timer' = "running"
  /\ CmdPhase' = "SEND"
  /\ sent' = 0
  /\ skipped' = FALSE
  /\ answered' = FALSE
  /\ told' = {}

\* Ampm_SendCmd, for a caller that finds the engine idle.
SendCmd(c) == IsIdle /\ Load(c)

\* The INIT phase of the main task and TURN_ON1 of the startup force the
\* phase to OK in the middle of any command; the command stays loaded.
ForceOk ==
  /\ CmdPhase' = "OK"
  /\ UNCHANGED <<cmdSend, retry, timer, sent, skipped, answered, told>>

StepTo(phase, t) ==
  /\ CmdPhase' = phase
  /\ timer' = t

-----------------------------------------------------------------------------
(* Ampm_Cmd_Task: one action per case of its switch.                       *)

\* SEND: once the delay has elapsed the command is transmitted.
SendTransmits ==
  /\ CmdPhase = "SEND"
  /\ timer = "expired"
  /\ "send" \in sendCb[cmdSend]
  /\ StepTo("WAIT", "running")
  /\ sent' = sent + 1
  /\ UNCHANGED <<cmdSend, retry, skipped, answered, told>>

\* SEND, when the send callback loads d: Ampm_Cmd_Task does not notice and
\* waits for an answer to d, which was not transmitted.
SendLoads(d) ==
  /\ CmdPhase = "SEND"
  /\ timer = "expired"
  /\ d \in sendCb[cmdSend]
  /\ cmdSend' = d
  /\ retry' = retryNum[d]
  /\ StepTo("WAIT", "running")
  /\ sent' = 0
  /\ skipped' = TRUE
  /\ answered' = FALSE
  /\ told' = {}

\* A faulty RESEND that does not count.
ResendForEver ==
  /\ CmdPhase = "RESEND"
  /\ StepTo("SEND", "running")
  /\ UNCHANGED <<cmdSend, retry, sent, skipped, answered, told>>

\* A faulty RESEND that gives up without a call of the end callback.
ResendGivesUp ==
  /\ CmdPhase = "RESEND"
  /\ IF retry > 0
       THEN retry' = retry - 1 /\ StepTo("SEND", "running")
       ELSE StepTo("ERROR", timer) /\ UNCHANGED retry
  /\ UNCHANGED <<cmdSend, sent, skipped, answered, told>>

\* RESEND: back to SEND while a resend is left.
CaseResend ==
  /\ CmdPhase = "RESEND"
  /\ IF retry > 0
       THEN retry' = retry - 1 /\ StepTo("SEND", "running")
       ELSE StepTo("GOTO_ERROR", timer) /\ UNCHANGED retry
  /\ UNCHANGED <<cmdSend, sent, skipped, answered, told>>

\* A faulty WAIT that takes the end of the timeout for an answer.
TimeoutIsAnswer ==
  /\ CmdPhase = "WAIT"
  /\ timer = "expired"
  /\ StepTo("DELAY", "running")
  /\ UNCHANGED <<cmdSend, retry, sent, skipped, answered, told>>

\* WAIT: the timeout is looked at before the answer.
WaitTimeout ==
  /\ CmdPhase = "WAIT"
  /\ timer = "expired"
  /\ StepTo("RESEND", timer)
  /\ UNCHANGED <<cmdSend, retry, sent, skipped, answered, told>>

WaitOk ==
  /\ CmdPhase = "WAIT"
  /\ timer = "running"
  /\ StepTo("DELAY", "running")
  /\ answered' = TRUE
  /\ UNCHANGED <<cmdSend, retry, sent, skipped, told>>

\* A faulty WAIT that starts the timeout again after a failure answer.
FailRestartsWait ==
  /\ CmdPhase = "WAIT"
  /\ StepTo("WAIT", "running")
  /\ UNCHANGED <<cmdSend, retry, sent, skipped, answered, told>>

WaitFail ==
  /\ CmdPhase = "WAIT"
  /\ timer = "running"
  /\ StepTo("RESEND", "running")
  /\ UNCHANGED <<cmdSend, retry, sent, skipped, answered, told>>

\* A faulty end: a callback that returns 0 has the command sent again.
FinishByResend(o, r) ==
  \/ /\ r = "done"
     /\ CmdPhase' = o
     /\ told' = told \cup {o}
     /\ UNCHANGED <<cmdSend, retry, timer, sent, skipped, answered>>
  \/ /\ r = "wait"
     /\ CmdPhase' = "RESEND"
     /\ told' = told \cup {o}
     /\ UNCHANGED <<cmdSend, retry, timer, sent, skipped, answered>>

\* The end callback is called with outcome o and does r.
Finish(o, r) ==
  \/ /\ r = "done"
     /\ CmdPhase' = o
     /\ told' = told \cup {o}
     /\ UNCHANGED <<cmdSend, retry, timer, sent, skipped, answered>>
  \/ /\ r = "wait"
     /\ told' = told \cup {o}
     /\ UNCHANGED <<CmdPhase, cmdSend, retry, timer, sent, skipped, answered>>
  \/ /\ r = "setok"
     /\ CmdPhase' = "OK"
     /\ told' = told \cup {o}
     /\ UNCHANGED <<cmdSend, retry, timer, sent, skipped, answered>>
  \/ r \in Cmd /\ Load(r)

\* The phase in which the end callback is called with outcome o.
EndPhase(o) == IF o = "OK" THEN "DELAY" ELSE "GOTO_ERROR"

CaseEnd(o, r) ==
  /\ CmdPhase = EndPhase(o)
  /\ o = "OK" => timer = "expired"
  /\ r \in endCb[cmdSend][o]
  /\ Finish(o, r)

\* ERROR and OK: the chain goes on, whatever the outcome was.
CaseNext ==
  /\ IsIdle
  /\ ~IsEmpty
  /\ Load(Next_(cmdSend))

Cmd_Task ==
  \/ SendTransmits \/ (\E d \in Cmd : SendLoads(d)) \/ CaseResend
  \/ WaitTimeout \/ WaitOk \/ WaitFail
  \/ \E o \in Outcome, r \in EndResult : CaseEnd(o, r)
  \/ CaseNext

\* The system tick reaches the end of the timeout.
Expire ==
  /\ timer = "running"
  /\ timer' = "expired"
  /\ UNCHANGED <<CmdPhase, cmdSend, retry, sent, skipped, answered, told>>

-----------------------------------------------------------------------------
Next == (\E c \in Cmd : SendCmd(c)) \/ ForceOk \/ Cmd_Task \/ Expire

(* Outside data mode the main loop calls Ampm_Cmd_Task for ever, and the   *)
(* tick never stops; an end callback that returns 0 has a timeout of its   *)
(* own (sms.c:339), so it does not do so for ever.  No caller has to send a*)
(* command, and nothing has to force the phase.                            *)
Ends == \E o \in Outcome, r \in EndResult \ {"wait"} : CaseEnd(o, r)

Spec == Init /\ [][Next]_engineVars

FairSpec ==
  /\ Spec
  /\ WF_engineVars(Cmd_Task)
  /\ WF_engineVars(Expire)
  /\ SF_engineVars(Ends)

-----------------------------------------------------------------------------
(* A command is transmitted once and resent at most retryNum times, however*)
(* its timeouts, failures and answers fall.                                *)
BoundedResend == cmdSend # None => sent <= retryNum[cmdSend] + 1

(* The end callback of a command never hears of both outcomes: it counts   *)
(* failures (smsTaskFailCnt) and frees messages on what it is told.        *)
OneOutcome == Cardinality(told) <= 1

\* How often the engine entered WAIT for this command.
Tries == sent + (IF skipped THEN 1 ELSE 0)

(* OK is reported only after an answer was accepted while waiting for this *)
(* very command, which was transmitted unless a send callback skipped that *)
(* (sms.c:246, 254, 265); an error only after the last of its resends.     *)
HonestOutcome ==
  /\ "OK" \in told => answered /\ (sent > 0 \/ skipped)
  /\ "ERROR" \in told => retry = 0 /\ Tries = retryNum[cmdSend] + 1

Seen == INSTANCE Commands WITH
  phase   <- IF IsIdle THEN CmdPhase ELSE IF Tries = 0 THEN "SEND" ELSE "WAIT",
  cmd     <- cmdSend,
  verdict <- CASE CmdPhase = "DELAY"      -> "OK"
               [] CmdPhase = "GOTO_ERROR" -> "ERROR"
               [] OTHER                   -> "none"

(* Seen from outside, a command is transmitted, judged once, reported to   *)
(* its end callback and over, or replaced by what its callbacks load: the  *)
(* resends, timeouts and late answers inside show nowhere, and no command  *)
(* is given up silently.                                                   *)
IsCommands == Seen!Spec

(* Every command ends: however often it is resent and whatever the modem   *)
(* answers, the engine comes back to an idle phase, where the rest of the  *)
(* chain or the next caller is served.                                     *)
CommandEnds == ~IsIdle ~> IsIdle
=============================================================================
