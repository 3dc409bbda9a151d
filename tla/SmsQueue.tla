------------------------------ MODULE SmsQueue ------------------------------
(***************************************************************************)
(* ampm_gsm/ampm_gsm_sms.c and AmpmGsm::SendSmsWait: the list of outgoing  *)
(* messages, shared by the application threads that add to it and the main *)
(* task that sends from it.                                                *)
(*                                                                         *)
(* A message is a block of the heap.  The main task's three users of it are*)
(* Ampm_SmsTask, the periodic of one second, and the callbacks of the      *)
(* command chain, which reach it through the pointer smsMsg.  The command  *)
(* engine is taken at the grain AtCmdEngine justifies: a loaded command    *)
(* ends once, with one outcome, and then its end callback runs.            *)
(*                                                                         *)
(* Reading a freed block may give anything, so a callback that does may    *)
(* take any of its branches; what it writes there is lost, unless the block*)
(* has become another message in the meantime.  The status of SendSmsWait  *)
(* is a byte of the heap too: after 60 seconds it is freed under a message *)
(* that still points to it, and may become the status of another one.      *)
(***************************************************************************)
EXTENDS Integers, Sequences, SequencesExt

CONSTANTS
  Msg,           \* the messages the application sends
  NoMsg,         \* smsMsg before the first one
  mode,          \* mode[m]: "text", "pdu", or "empty" for a text of length 0
  Tries,         \* tryNum: 3
  Reload,        \* timeoutReload: 10 seconds
  Byte,          \* what malloc gives SendSmsWait for a status
  NoByte,        \* the status of a message that nobody waits for: NULL
  SmsMaxRetry,   \* SMS_MAX_RETRY: 10
  WithReset      \* bound: whether the modem is reset while a chain runs

ASSUME SmsAssumption ==
  /\ NoMsg \notin Msg /\ NoByte \notin Byte
  /\ mode \in [Msg -> {"text", "pdu", "empty"}]
  /\ Tries \in Nat \ {0} /\ Reload \in Nat \ {0} /\ SmsMaxRetry \in Nat \ {0}
  /\ WithReset \in BOOLEAN

VARIABLES
  smsList,       \* the list, from its head to its tail
  heap,          \* heap[m]: the block of m
  flag,          \* the members of a message: flag,
  hasPhone,      \*   phone # NULL and len # 0,
  tryNum,        \*   tryNum,
  timeout,       \*   timeout
  statusOf,      \*   status, a pointer
  status,        \* what the bytes hold
  waiter,        \* the thread in SendSmsWait for m
  smsMsg,        \* the message of the command chain
  chain,         \* the command of the chain that the engine works on
  smsTaskFailCnt,
  sending,       \* the main task is in AMPM_GSM_MAIN_SMS_SEND_PHASE
  halted,        \* the main task is in Ampm_Gsm_Error, for ever
  body,          \* history: whose text was transmitted last
  delivered,     \* history: messages the modem confirmed
  shared,        \* history: messages that got a byte others still point to
  full,          \* history: full[m]: attempts on m that ran to their end
  dangled        \* history: smsMsg pointed to a freed block while in use

blockVars == <<flag, hasPhone, tryNum, timeout>>
chainVars == <<smsMsg, chain, smsTaskFailCnt, body, delivered, full>>
waitVars == <<statusOf, waiter, shared>>
mainVars == <<sending, halted>>
vars == <<smsList, heap, blockVars, status, waitVars, chainVars, mainVars, dangled>>

Chains == {"idle", "AT", "CMGF_1", "CMGF_0", "CSCA", "CMGS", "BODY", "ANSWER",
           "end", "CREG"}

TypeOK ==
  /\ smsList \in Seq(Msg)
  /\ heap \in [Msg -> {"unused", "live", "freed"}]
  /\ flag \in [Msg -> {"NEW", "SENT", "FAIL"}]
  /\ hasPhone \in [Msg -> BOOLEAN]
  /\ tryNum \in [Msg -> 0 .. Tries]
  /\ timeout \in [Msg -> 0 .. Reload]
  /\ statusOf \in [Msg -> Byte \cup {NoByte}]
  /\ status \in [Byte -> {"ERROR", "OK"}]
  /\ waiter \in [Msg -> {"none", "waiting", "ok", "failed"}]
  /\ smsMsg \in Msg \cup {NoMsg}
  /\ chain \in Chains
  /\ smsTaskFailCnt \in 0 .. SmsMaxRetry
  /\ sending \in BOOLEAN
  /\ halted \in BOOLEAN
  /\ body \in Msg \cup {NoMsg}
  /\ delivered \in SUBSET Msg
  /\ shared \in SUBSET Msg
  /\ full \in [Msg -> Nat]
  /\ dangled \in BOOLEAN

Init ==
  /\ smsList = <<>>
  /\ heap = [m \in Msg |-> "unused"]
  /\ flag = [m \in Msg |-> "NEW"]
  /\ hasPhone = [m \in Msg |-> FALSE]
  /\ tryNum = [m \in Msg |-> 0]
  /\ timeout = [m \in Msg |-> 0]
  /\ statusOf = [m \in Msg |-> NoByte]
  /\ status = [b \in Byte |-> "ERROR"]
  /\ waiter = [m \in Msg |-> "none"]
  /\ smsMsg = NoMsg
  /\ chain = "idle"
  /\ smsTaskFailCnt = 0
  /\ sending = FALSE
  /\ halted = FALSE
  /\ body = NoMsg
  /\ delivered = {}
  /\ shared = {}
  /\ full = [m \in Msg |-> 0]
  /\ dangled = FALSE

-----------------------------------------------------------------------------
(* The application threads.                                                *)

InUse == chain \in {"AT", "CMGF_1", "CMGF_0", "CSCA", "CMGS", "BODY", "ANSWER"}
IsLive(m) == m # NoMsg /\ heap[m] = "live"

\* A byte that no thread has allocated.
IsFree(b) == \A m \in Msg : waiter[m] = "waiting" => statusOf[m] # b

\* A faulty allocation of a status that is not set to SMS_ERROR.
TakeStatusUnset(m) ==
  \/ UNCHANGED <<statusOf, status, shared, waiter>>
  \/ \E b \in Byte :
       /\ IsFree(b)
       /\ statusOf' = [statusOf EXCEPT ![m] = b]
       /\ UNCHANGED status
       /\ waiter' = [waiter EXCEPT ![m] = "waiting"]
       /\ shared' = IF \E x \in Msg : heap[x] = "live" /\ statusOf[x] = b
                      THEN shared \cup {m} ELSE shared

\* SendSmsWait allocates a status, SendSms does without.  The byte may be one
\* that a message in the list still points to.
TakeStatus(m) ==
  \/ UNCHANGED <<statusOf, status, shared, waiter>>
  \/ \E b \in Byte :
       /\ IsFree(b)
       /\ statusOf' = [statusOf EXCEPT ![m] = b]
       /\ status' = [status EXCEPT ![b] = "ERROR"]
       /\ waiter' = [waiter EXCEPT ![m] = "waiting"]
       /\ shared' = IF \E x \in Msg : heap[x] = "live" /\ statusOf[x] = b
                      THEN shared \cup {m} ELSE shared

\* Ampm_Sms_SendMsg: malloc, and Ampm_SmsAddMsg under the mutex.  The block
\* may be the one that smsMsg still points to.
SendMsg(m) ==
  /\ heap[m] = "unused"
  /\ heap' = [heap EXCEPT ![m] = "live"]
  /\ smsList' = Append(smsList, m)
  /\ flag' = [flag EXCEPT ![m] = "NEW"]
  /\ hasPhone' = [hasPhone EXCEPT ![m] = mode[m] # "empty"]
  /\ tryNum' = [tryNum EXCEPT ![m] = Tries]
  /\ timeout' = [timeout EXCEPT ![m] = 0]
  /\ TakeStatus(m)
  /\ smsMsg' \in {smsMsg} \cup (IF smsMsg # NoMsg /\ ~IsLive(smsMsg) THEN {m} ELSE {})
  /\ UNCHANGED <<chain, smsTaskFailCnt, mainVars, body, delivered, full, dangled>>

\* SendSmsWait finds the status SMS_OK, or its 60 seconds are over; then it
\* frees the status, which the message may still point to.
WaitEnds(m) ==
  /\ waiter[m] = "waiting"
  /\ waiter' = [waiter EXCEPT ![m] = IF status[statusOf[m]] = "OK" THEN "ok"
                                                                   ELSE "failed"]
  /\ UNCHANGED <<smsList, heap, blockVars, statusOf, status, shared, chainVars,
                 mainVars, dangled>>

-----------------------------------------------------------------------------
(* Ampm_SmsTask and Ampm_SmsTaskPeriodic_1Sec, under the mutex.  Both start*)
(* at list_tail, the last message of the list, and list_item_next of that  *)
(* one is NULL: they see no other.                                         *)

Ready(m) == flag[m] = "NEW" /\ hasPhone[m] /\ tryNum[m] > 0

\* Ampm_UpdateStatus, of a message that was sent, whoever has the byte by now.
Report(m) ==
  status' = IF flag[m] = "SENT" /\ statusOf[m] # NoByte
              THEN [status EXCEPT ![statusOf[m]] = "OK"] ELSE status

\* A faulty release that leaves the message in the list.
ReleaseInPlace(m) ==
  /\ UNCHANGED smsList
  /\ heap' = [heap EXCEPT ![m] = "freed"]
  /\ Report(m)
  /\ dangled' = (dangled \/ (smsMsg' = m /\ InUse'))

\* A message that is done with is reported, leaves the list and is freed.
Release(m) ==
  /\ smsList' = Front(smsList)
  /\ heap' = [heap EXCEPT ![m] = "freed"]
  /\ Report(m)
  /\ dangled' = (dangled \/ (smsMsg' = m /\ InUse'))

\* A faulty main loop that does not look at the count before it goes on.
RunsUntilHalted == ~halted

\* The main loop gets past its check of the failures.
TaskRuns == ~halted /\ smsTaskFailCnt < SmsMaxRetry

\* IDLE finds a message in the list.
EnterSend ==
  /\ TaskRuns
  /\ ~sending /\ smsList # <<>>
  /\ sending' = TRUE
  /\ UNCHANGED <<smsList, heap, blockVars, status, waitVars, chainVars, halted,
                 dangled>>

\* Ampm_SmsTask finds none, or none yet in ten calls, or the phase is set from
\* elsewhere: by NO CARRIER, or by a modem reset between two commands.
LeaveSend ==
  /\ sending
  /\ sending' = FALSE
  /\ UNCHANGED <<smsList, heap, blockVars, status, waitVars, chainVars, halted,
                 dangled>>

\* The switch of the main loop calls Ampm_SmsTask, and the engine is at rest.
SmsTaskOn(m) ==
  /\ TaskRuns
  /\ sending
  /\ chain = "idle"
  /\ smsList # <<>> /\ m = Last(smsList)

\* A faulty attempt that does not use up a try.
AttemptNotCounted ==
  \E m \in Msg :
    /\ SmsTaskOn(m)
    /\ Ready(m) /\ timeout[m] = 0
    /\ timeout' = [timeout EXCEPT ![m] = Reload]
    /\ smsMsg' = m
    /\ chain' = "AT"
    /\ UNCHANGED <<smsList, heap, tryNum, status, dangled, flag, hasPhone,
                   waitVars, smsTaskFailCnt, mainVars, body, delivered, full>>

\* An attempt.  The loop does not move on to the next message but looks at
\* this one again, and when that was its last try finds it done with.
SmsTaskAttempt ==
  \E m \in Msg :
    /\ SmsTaskOn(m)
    /\ Ready(m) /\ timeout[m] = 0
    /\ timeout' = [timeout EXCEPT ![m] = Reload]
    /\ tryNum' = [tryNum EXCEPT ![m] = @ - 1]
    /\ smsMsg' = m
    /\ chain' = "AT"
    /\ IF tryNum[m] = 1
         THEN Release(m)
         ELSE UNCHANGED <<smsList, heap, status, dangled>>
    /\ UNCHANGED <<flag, hasPhone, waitVars, smsTaskFailCnt, mainVars, body,
                   delivered, full>>

SmsTaskDrop ==
  \E m \in Msg :
    /\ SmsTaskOn(m)
    /\ ~Ready(m)
    /\ UNCHANGED <<blockVars, waitVars, chainVars, mainVars>>
    /\ Release(m)

\* The periodic counts the interval down, for the last message only.
PeriodicTick ==
  \E m \in Msg :
    /\ ~halted
    /\ smsList # <<>> /\ m = Last(smsList)
    /\ Ready(m) /\ timeout[m] > 0
    /\ timeout' = [timeout EXCEPT ![m] = @ - 1]
    /\ UNCHANGED <<smsList, heap, flag, hasPhone, tryNum, status, waitVars,
                   chainVars, mainVars, dangled>>

\* It releases what is done with even while the chain is running.
PeriodicDrop ==
  \E m \in Msg :
    /\ ~halted
    /\ smsList # <<>> /\ m = Last(smsList)
    /\ ~Ready(m)
    /\ UNCHANGED <<blockVars, waitVars, chainVars, mainVars>>
    /\ Release(m)

-----------------------------------------------------------------------------
(* The command chain: each action is the end of one command, or the send   *)
(* callback of one that has something to decide.                           *)

\* The modes smsMsg->mode may read as.
ModeRead == IF IsLive(smsMsg) THEN {mode[smsMsg]} ELSE {"text", "pdu"}

\* What "phone" and "len" of smsMsg may read as.
PhoneRead == IF IsLive(smsMsg) THEN {hasPhone[smsMsg]} ELSE BOOLEAN

ChainMoves(from, to) ==
  /\ TaskRuns
  /\ chain \in from
  /\ chain' = to
  /\ UNCHANGED <<smsList, heap, tryNum, timeout, status, waitVars, smsMsg, halted,
                 dangled>>

ChainStep(from, to) == ChainMoves(from, to) /\ UNCHANGED sending

\* smsSendCmdProcess_0, any outcome: Ampm_GsmSmsSendCallback_CMGF.
EndAT ==
  \E md \in ModeRead :
    /\ ChainStep({"AT"}, IF md = "pdu" THEN "CMGF_0" ELSE "CMGF_1")
    /\ UNCHANGED <<flag, hasPhone, smsTaskFailCnt, body, delivered, full>>

\* smsSendCmdProcess_1 or _2, any outcome: Ampm_GsmSmsSendCallback_CSCA, and
\* for a text the next command of the chain.
EndCMGF ==
  \E md \in ModeRead, ph \in PhoneRead :
    /\ ChainStep({"CMGF_1", "CMGF_0"},
                 IF ~ph THEN "end"
                 ELSE IF md = "pdu" \/ chain = "CMGF_0" THEN "CSCA" ELSE "CMGS")
    /\ UNCHANGED <<flag, hasPhone, smsTaskFailCnt, body, delivered, full>>

\* smsSendCmdProcess_3, any outcome.
EndCSCA ==
  /\ ChainStep({"CSCA"}, "CMGS")
  /\ UNCHANGED <<flag, hasPhone, smsTaskFailCnt, body, delivered, full>>

\* A write to smsMsg, which is lost when the block was freed.
Store(f, v) == f' = IF IsLive(smsMsg) THEN [f EXCEPT ![smsMsg] = v] ELSE f

\* smsSendCmdProcess_4 is sent and ends, any outcome.
SendCMGS ==
  /\ \E ph \in PhoneRead : ph
  /\ ChainStep({"CMGS"}, "BODY")
  /\ UNCHANGED <<flag, hasPhone, smsTaskFailCnt, body, delivered, full>>

\* Ampm_GsmSmsSendCallback_CMGS without a phone number, or with a PDU that
\* cannot be encoded.
RejectCMGS ==
  \E f \in {"SENT", "FAIL"} :
    /\ f = "SENT" => \E ph \in PhoneRead : ~ph
    /\ f = "FAIL" => "pdu" \in ModeRead
    /\ ChainStep({"CMGS"}, "end")
    /\ Store(flag, f)
    /\ Store(hasPhone, FALSE)
    /\ smsTaskFailCnt' = smsTaskFailCnt + 1
    /\ UNCHANGED <<body, delivered, full>>

\* Ampm_GsmSmsSendCallback_CMGS for a PDU, without a service center number.
RestartCMGS ==
  /\ "pdu" \in ModeRead
  /\ ChainStep({"CMGS"}, "AT")
  /\ UNCHANGED <<flag, hasPhone, smsTaskFailCnt, body, delivered, full>>

\* A faulty transmission that marks the message before it is confirmed.
TransmitAsSent ==
  /\ ChainStep({"BODY", "ANSWER"}, "ANSWER")
  /\ body' = IF IsLive(smsMsg) THEN smsMsg ELSE NoMsg
  /\ Store(flag, "SENT")
  /\ UNCHANGED <<hasPhone, smsTaskFailCnt, delivered, full>>

\* smsSendCmdProcess_5 transmits the text, and again when it is resent.
TransmitBody ==
  /\ ChainStep({"BODY", "ANSWER"}, "ANSWER")
  /\ body' = IF IsLive(smsMsg) THEN smsMsg ELSE NoMsg
  /\ UNCHANGED <<flag, hasPhone, smsTaskFailCnt, delivered, full>>

\* The attempt on smsMsg has run to its end.
CountFull == full' = IF IsLive(smsMsg) THEN [full EXCEPT ![smsMsg] = @ + 1] ELSE full

\* Ampm_GsmSmsSent(AMPM_CMD_OK).
BodyOk ==
  /\ ChainStep({"ANSWER"}, "end")
  /\ Store(flag, "SENT")
  /\ Store(hasPhone, FALSE)
  /\ smsTaskFailCnt' = 0
  /\ delivered' = delivered \cup ({body} \ {NoMsg})
  /\ CountFull
  /\ UNCHANGED body

\* Ampm_GsmSmsSent(AMPM_CMD_ERROR).
BodyFail ==
  /\ ChainStep({"ANSWER"}, "CREG")
  /\ smsTaskFailCnt' = smsTaskFailCnt + 1
  /\ CountFull
  /\ UNCHANGED <<flag, hasPhone, body, delivered>>

\* smsSendCmdProcess_6: Ampm_GsmCREG.
EndCREG ==
  \E failed \in BOOLEAN :
    /\ ChainStep({"CREG"}, "idle")
    /\ smsTaskFailCnt' = IF failed THEN smsTaskFailCnt + 1 ELSE smsTaskFailCnt
    /\ UNCHANGED <<flag, hasPhone, body, delivered, full>>

\* smsSendCmdProcess_end.
EndEnd ==
  /\ ChainStep({"end"}, "idle")
  /\ UNCHANGED <<flag, hasPhone, smsTaskFailCnt, body, delivered, full>>

\* A modem reset puts the engine to OK in the middle of a command: the rest
\* of the chain goes on, or a command of the startup takes its place.
AfterReset(c) ==
  {"idle"} \cup CASE c = "AT" -> {"CMGF_1"}
                  [] c = "CMGF_1" -> {"CMGS"}
                  [] c = "CMGF_0" -> {"CSCA"}
                  [] c = "CSCA" -> {"CMGS"}
                  [] c = "CMGS" -> {"BODY"}
                  [] c \in {"BODY", "ANSWER"} -> {"end"}
                  [] OTHER -> {}

ModemReset ==
  \E to \in AfterReset(chain) :
    /\ WithReset /\ chain # "idle"
    /\ ChainMoves({chain}, to)
    /\ sending' = FALSE
    /\ UNCHANGED <<flag, hasPhone, smsTaskFailCnt, body, delivered, full>>

\* The top of the main loop: Ampm_Gsm_Error does not return.
Halt ==
  /\ ~halted
  /\ smsTaskFailCnt >= SmsMaxRetry
  /\ halted' = TRUE
  /\ UNCHANGED <<smsList, heap, blockVars, status, waitVars, chainVars, sending,
                 dangled>>

-----------------------------------------------------------------------------
SmsTask  == SmsTaskAttempt \/ SmsTaskDrop
Periodic == PeriodicTick \/ PeriodicDrop
Decide   == EndAT \/ EndCMGF \/ EndCSCA \/ SendCMGS \/ RejectCMGS
Answers  == BodyOk \/ BodyFail \/ EndCREG \/ EndEnd

App == \E m \in Msg : WaitEnds(m) \/ SendMsg(m)

MainPhase == EnterSend \/ LeaveSend

Next ==
  \/ App
  \/ MainPhase \/ SmsTask \/ Periodic
  \/ Decide \/ RestartCMGS \/ TransmitBody \/ Answers
  \/ ModemReset
  \/ Halt

Spec == Init /\ [][Next]_vars

(* The loop calls the periodic in every phase, and AtCmdEngine ends every  *)
(* command (DATACALL, where the engine is not run, is entered with none    *)
(* under way: GsmMainTask).  A switch that finds SMS_SEND calls            *)
(* Ampm_SmsTask.  Nothing makes the loop come to SMS_SEND, an application  *)
(* thread send, or the modem be reset.                                     *)
FairSpec ==
  /\ Spec
  /\ SF_vars(SmsTask)
  /\ WF_vars(Periodic)
  /\ WF_vars(Decide)
  /\ WF_vars(chain = "BODY" /\ TransmitBody)
  /\ WF_vars(Answers)
  /\ WF_vars(Halt)

-----------------------------------------------------------------------------
(* The list holds each of its messages once, and holds exactly those that  *)
(* are allocated and not freed: both the task and the periodic free.       *)
ListIsLive ==
  /\ IsInjective(smsList)
  /\ \A m \in Msg : heap[m] = "live" <=> \E i \in DOMAIN smsList : smsList[i] = m

(* A message is freed under the command chain that uses it only by its own *)
(* last attempt (sms.c:481-497 frees it before that attempt is sent); the  *)
(* periodic, which runs at any time, never does.                           *)
FreedInUseOnlyAtLastTry ==
  [][dangled' /\ ~dangled => /\ chain = "idle"
                             /\ tryNum[smsMsg'] = 1]_vars

(* What SendSmsWait may answer SMS_OK for: m was delivered, or another     *)
(* message was that still pointed to the byte when m got it.               *)
Vouched(m) ==
  \/ m \in delivered
  \/ /\ m \in shared
     /\ \E x \in delivered \ {m} : statusOf[x] = statusOf[m]

(* SMS_OK means that the modem confirmed this message, as long as no block *)
(* was freed in use, with one exception: a status that was allocated where *)
(* the one of a message still in the list had been freed (sms.c:429, 510   *)
(* write to it, ampm_gsm.cpp:165 has freed it) may speak of that message.  *)
OkMeansDelivered ==
  ~dangled => \A m \in Msg : waiter[m] = "ok" => Vouched(m)

(* Every message leaves the list, or ten failures in a row have stopped the*)
(* program, if as long as there is one the main task comes to SMS_SEND     *)
(* again and again and finds the engine at rest there.  Neither is sure: it*)
(* may stay in SLEEP or DATACALL, and without a service center number a PDU*)
(* is started over for ever (sms.c:254).  Msg is finite: as long as younger*)
(* messages keep coming an older one is not looked at.                     *)
Served == sending /\ chain = "idle"

EveryMessageLeaves ==
  ([]<>(smsList = <<>> \/ Served)) =>
     \A m \in Msg : heap[m] = "live" ~> (heap[m] = "freed" \/ halted)

(* "3/*resend times*/" (ampm_gsm.cpp:210, 216): a message that is given up *)
(* was attempted that often.  Its last attempt is loaded and its block is  *)
(* freed in one call of Ampm_SmsTask, so that one is not made.             *)
ResentAsAsked ==
  [][\A m \in Msg :
       heap[m] = "live" /\ heap'[m] = "freed" /\ flag[m] = "NEW" /\ hasPhone[m]
         => full[m] >= Tries]_vars
=============================================================================
