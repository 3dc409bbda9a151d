----------------------------- MODULE GsmMainTask -----------------------------
(***************************************************************************)
(* ampm_gsm/ampm_gsm_main_task.c, AMPM_GSM_MainTask: the loop that owns the*)
(* modem and moves it between startup, messages, calls, data mode and      *)
(* sleep.                                                                  *)
(*                                                                         *)
(* One iteration is the switch on the task phase, one action per case, and *)
(* then the rest of the loop body, Tail.  The other threads (application,  *)
(* PPP), the interrupts and the modem run between them.                    *)
(*                                                                         *)
(* The parts that have modules of their own are taken at the grain those   *)
(* justify: the command engine (AtCmdEngine) ends every command and goes on*)
(* with a chain whatever the outcome; the dial-up (DialUp) starts its chain*)
(* over or gives up; the message and call tasks load chains while they have*)
(* work.  What the timers and the ring line decide is an input.            *)
(***************************************************************************)
EXTENDS Integers

CONSTANT Modes    \* bound: the modes the application sets, after "NONE"

ASSUME ModesAssumption == Modes \subseteq {"NONE", "GPRS_ENABLE", "SLEEP_MODE"}

VARIABLES
  turn,            \* what the loop does next
  phase,           \* ampmGSM_TaskPhase
  CmdPhase,        \* ampm_GSM_CmdPhase; "WAIT" until the end of the last resend
  cmd,             \* the command in ampmGSM_CmdSend
  more,            \* while it runs: it is of a chain; after: next # NULL
  startup,         \* ampm_GSM_StartupPhase; "GET_CMD1" after the first command
  startupTry,      \* tryCnt of AMPM_GSM_Startup
  dialupPhase,     \* ampmGsmDialupPhase
  gotoCmdModeFlag,
  gotoDataModeFlag,
  tryCnt,          \* gsmMainTaskTryCnt
  ppp_status,
  ringPhase,       \* ampm_RingingPhase
  newSms,          \* ampm_NewSmsFlag
  smsQueued,       \* the list of outgoing messages is not empty
  callQueued,      \* the list of outgoing calls is not empty
  mode,            \* ampm_GSM_mode
  ModemResetFlag,
  modemData        \* external: the modem is in data mode

engineVars == <<CmdPhase, cmd, more>>
startVars  == <<startup, startupTry>>
flagVars   == <<gotoCmdModeFlag, gotoDataModeFlag, tryCnt>>
workVars   == <<newSms, smsQueued, callQueued>>
vars == <<turn, phase, engineVars, startVars, dialupPhase, flagVars, ppp_status,
          ringPhase, workVars, mode, ModemResetFlag, modemData>>

Phases == {"INIT", "STARTUP", "SMS_RECV", "SMS_SEND", "VOICECALL", "DATACALL",
           "DIAL_UP", "GOTO_CMD", "GOTO_CMD_CHECK", "WAIT_GOTO_CMD", "GOTO_DATA",
           "WAIT_GOTO_DATA", "IDLE", "GO_TO_SLEEP", "SLEEP", "WAKEUP"}

TypeOK ==
  /\ turn \in {"switch", "tail"}
  /\ phase \in Phases
  /\ CmdPhase \in {"SEND", "WAIT", "OK", "ERROR"}
  /\ cmd \in {"AT", "dialAT", "ATD", "ATO", "+++"}
  /\ startup \in {"INIT", "TURN_ON", "GET_CMD", "GET_CMD1", "IDLE"}
  /\ startupTry \in 0 .. 1
  /\ dialupPhase \in {"START", "RUNING", "OK", "FAIL"}
  /\ tryCnt \in 0 .. 4
  /\ ppp_status \in {"CONNECTING", "CONNECTED", "DISCONNECTED"}
  /\ ringPhase \in {"IDLE", "IS_DETECTING", "IS_A_CALL", "IS_A_SMS"}
  /\ mode \in {"NONE", "GPRS_ENABLE", "SLEEP_MODE"}
  /\ {more, gotoCmdModeFlag, gotoDataModeFlag, newSms, smsQueued, callQueued,
      ModemResetFlag, modemData} \subseteq BOOLEAN

\* The state of a cold start: static storage, a modem that was just powered.
Init ==
  /\ turn = "switch"
  /\ phase = "INIT"
  /\ CmdPhase = "OK" /\ cmd = "AT" /\ more = FALSE
  /\ startup = "INIT" /\ startupTry = 0
  /\ dialupPhase = "START"
  /\ gotoCmdModeFlag = FALSE /\ gotoDataModeFlag = FALSE /\ tryCnt = 0
  /\ ppp_status = "DISCONNECTED"
  /\ ringPhase = "IDLE"
  /\ newSms = FALSE /\ smsQueued = FALSE /\ callQueued = FALSE
  /\ mode = "NONE"
  /\ ModemResetFlag = FALSE
  /\ modemData = FALSE

-----------------------------------------------------------------------------
(* The command engine.                                                     *)

IsIdle  == CmdPhase \in {"OK", "ERROR"}
IsEmpty == ~more
Done    == IsIdle /\ IsEmpty

\* Ampm_SendAtCmdNow; chained: the command has a next one.
Load(c, chained) ==
  /\ CmdPhase' = "SEND"
  /\ cmd' = c
  /\ more' = chained

\* Ampm_SendAtCmd and Ampm_CmdTask_SendCmd, which refuse while it is busy.
TrySend(c, chained) ==
  IF IsIdle THEN Load(c, chained) ELSE UNCHANGED engineVars

-----------------------------------------------------------------------------
(* The switch.  A case is entered with the phase, unless a reset is asked  *)
(* for.                                                                    *)

Case(p) ==
  /\ turn = "switch"
  /\ ~ModemResetFlag
  /\ phase = p
  /\ turn' = "tail"
  /\ UNCHANGED <<mode, newSms, smsQueued>>

\* A reset, or the INIT phase.  A chain that was loaded stays loaded.
MainInit ==
  /\ turn = "switch"
  /\ ModemResetFlag \/ phase = "INIT"
  /\ turn' = "tail"
  /\ ModemResetFlag' = FALSE
  /\ gotoDataModeFlag' = FALSE /\ gotoCmdModeFlag' = FALSE
  /\ ringPhase' = "IDLE"
  /\ startup' = "INIT"
  /\ dialupPhase' = "START"
  /\ ppp_status' = "DISCONNECTED"
  /\ callQueued' = FALSE
  /\ CmdPhase' = "OK"
  /\ phase' = "STARTUP"
  /\ UNCHANGED <<cmd, more, startupTry, tryCnt, newSms, smsQueued, mode, modemData>>

StartupCase ==
  /\ Case("STARTUP")
  /\ UNCHANGED <<dialupPhase, flagVars, ppp_status, ringPhase, callQueued,
                 ModemResetFlag>>

\* AMPM_GSM_Startup, INIT: every second time the modem loses its power.
StartupInit ==
  /\ StartupCase
  /\ startup = "INIT"
  /\ startup' = "TURN_ON"
  /\ startupTry' = 1 - startupTry
  /\ modemData' = IF startupTry = 1 THEN FALSE ELSE modemData
  /\ UNCHANGED <<phase, engineVars>>

\* TURN_ON and TURN_ON1, at the end of their delays.
StartupTurnOn ==
  /\ StartupCase
  /\ startup = "TURN_ON"
  /\ startup' = "GET_CMD"
  /\ CmdPhase' = "OK"
  /\ UNCHANGED <<phase, cmd, more, startupTry, modemData>>

\* GET_CMD: the next command of the script; the first one must be answered.
StartupSend ==
  /\ StartupCase
  /\ startup \in {"GET_CMD", "GET_CMD1"}
  /\ CmdPhase = "OK"
  /\ Load("AT", FALSE)
  /\ startup' = "GET_CMD1"
  /\ UNCHANGED <<phase, startupTry, modemData>>

\* GET_CMD: the end of the script, 'S'.
StartupEnds ==
  /\ StartupCase
  /\ startup = "GET_CMD1"
  /\ CmdPhase = "OK"
  /\ startup' = "IDLE"
  /\ startupTry' = 0
  /\ UNCHANGED <<phase, engineVars, modemData>>

\* GET_CMD: a command of the script has failed.
StartupFails ==
  /\ StartupCase
  /\ startup \in {"GET_CMD", "GET_CMD1"}
  /\ CmdPhase = "ERROR"
  /\ startup' = "INIT"
  /\ UNCHANGED <<phase, engineVars, startupTry, modemData>>

\* A delay, or a command on its way.
StartupWaits ==
  /\ StartupCase
  /\ startup \in {"TURN_ON", "GET_CMD", "GET_CMD1"}
  /\ UNCHANGED <<phase, engineVars, startVars, modemData>>

\* IDLE: the startup is done; Ampm_StartRecvSms.
StartupDone ==
  /\ StartupCase
  /\ startup = "IDLE"
  /\ TrySend("AT", TRUE)
  /\ phase' = IF IsIdle THEN "SMS_RECV" ELSE "IDLE"
  /\ UNCHANGED <<startVars, modemData>>

\* Ampm_RecvSms_IsFinished.
MainSmsRecv ==
  /\ Case("SMS_RECV")
  /\ phase' = IF Done THEN "IDLE" ELSE phase
  /\ UNCHANGED <<engineVars, startVars, dialupPhase, flagVars, ppp_status,
                 ringPhase, callQueued, ModemResetFlag, modemData>>

\* Ampm_SmsTask: messages are sent and leave the list, until it is empty, or
\* until checkCnt, which only counts calls that found it empty, is ten.
MainSmsSend ==
  /\ turn = "switch" /\ ~ModemResetFlag /\ phase = "SMS_SEND"
  /\ turn' = "tail"
  /\ \/ ~Done /\ UNCHANGED <<phase, engineVars, smsQueued>>
     \/ Done /\ phase' = "IDLE" /\ UNCHANGED <<engineVars, smsQueued>>
     \/ /\ Done /\ smsQueued
        /\ smsQueued' \in BOOLEAN
        /\ Load("AT", TRUE) \/ UNCHANGED engineVars
        /\ UNCHANGED phase
  /\ UNCHANGED <<startVars, dialupPhase, flagVars, ppp_status, ringPhase, newSms,
                 callQueued, mode, ModemResetFlag, modemData>>

\* Ampm_CallTask: the incoming call and the calls of the list, until that is
\* empty.
MainVoiceCall ==
  /\ Case("VOICECALL")
  /\ \/ UNCHANGED <<phase, engineVars, callQueued>>
     \/ Done /\ Load("AT", TRUE) /\ UNCHANGED <<phase, callQueued>>
     \/ /\ Done /\ callQueued
        /\ callQueued' = FALSE
        /\ UNCHANGED <<phase, engineVars>>
     \/ /\ Done /\ ~callQueued
        /\ phase' = "IDLE"
        /\ UNCHANGED <<engineVars, callQueued>>
  /\ UNCHANGED <<startVars, dialupPhase, flagVars, ppp_status, ringPhase,
                 ModemResetFlag, modemData>>

\* DATACALL.  inputFails: pppInputThread is negative; tcpCloses: the callback
\* of the application asks for the link to be closed.
MainDataCall ==
  \E inputFails, tcpCloses \in BOOLEAN :
    LET leave == gotoCmdModeFlag \/ mode # "GPRS_ENABLE"
        lost  == inputFails \/ ppp_status = "DISCONNECTED"
        close == ~lost /\ ppp_status = "CONNECTED" /\ tcpCloses
    IN /\ Case("DATACALL")
       /\ gotoDataModeFlag' = FALSE
       /\ phase' = IF leave \/ lost \/ close THEN "GOTO_CMD" ELSE phase
       /\ tryCnt' = IF leave THEN 0 ELSE tryCnt
       /\ dialupPhase' = IF lost \/ close THEN "START" ELSE dialupPhase
       /\ ppp_status' = IF close THEN "DISCONNECTED" ELSE ppp_status
       /\ UNCHANGED <<engineVars, startVars, gotoCmdModeFlag, ringPhase,
                      callQueued, ModemResetFlag, modemData>>

DialUpCase ==
  /\ Case("DIAL_UP")
  /\ UNCHANGED <<startVars, gotoDataModeFlag, tryCnt, callQueued, modemData>>

\* DIAL_UP, when Ampm_GSM_DialUp starts the chain or finds the engine busy.
DialStart ==
  /\ DialUpCase
  /\ dialupPhase = "START"
  /\ TrySend("dialAT", TRUE)
  /\ dialupPhase' = IF IsIdle THEN "RUNING" ELSE "START"
  /\ UNCHANGED <<phase, gotoCmdModeFlag, ppp_status, ringPhase, ModemResetFlag>>

\* A faulty test for the end of the chain.
DialConnectsEarly ==
  /\ DialUpCase
  /\ dialupPhase = "RUNING" /\ CmdPhase = "OK"
  /\ dialupPhase' = "OK"
  /\ ringPhase' = "IDLE"
  /\ gotoCmdModeFlag' = FALSE
  /\ ppp_status' = "CONNECTING"
  /\ phase' = "DATACALL"
  /\ UNCHANGED <<engineVars, ModemResetFlag>>

\* DIAL_UP, when the chain has gone through.
DialConnects ==
  /\ DialUpCase
  /\ dialupPhase = "RUNING" /\ IsEmpty /\ CmdPhase = "OK"
  /\ dialupPhase' = "OK"
  /\ ringPhase' = "IDLE"
  /\ gotoCmdModeFlag' = FALSE
  /\ ppp_status' = "CONNECTING"
  /\ phase' = "DATACALL"
  /\ UNCHANGED <<engineVars, ModemResetFlag>>

\* DIAL_UP, after a failure: the chain is started over, or given up.
DialFails ==
  /\ DialUpCase
  /\ dialupPhase = "RUNING" /\ CmdPhase = "ERROR"
  /\ \/ dialupPhase' = "START" /\ UNCHANGED <<phase, ModemResetFlag>>
     \/ dialupPhase' = "FAIL" /\ phase' = "IDLE" /\ ModemResetFlag' = TRUE
  /\ UNCHANGED <<engineVars, gotoCmdModeFlag, ppp_status, ringPhase>>

DialRuns ==
  /\ DialUpCase
  /\ dialupPhase = "RUNING" /\ CmdPhase # "ERROR" /\ ~(IsEmpty /\ CmdPhase = "OK")
  /\ UNCHANGED <<phase, engineVars, dialupPhase, gotoCmdModeFlag, ppp_status,
                 ringPhase, ModemResetFlag>>

\* GOTO_DATA: resume the link with ATO, or dial.
MainGotoData ==
  /\ Case("GOTO_DATA")
  /\ IF dialupPhase = "OK" /\ ppp_status = "CONNECTED"
       THEN /\ TrySend("ATO", FALSE)
            /\ phase' = IF IsIdle THEN "WAIT_GOTO_DATA" ELSE phase
            /\ UNCHANGED <<dialupPhase, gotoCmdModeFlag>>
       ELSE /\ dialupPhase' = "START"
            /\ phase' = "DIAL_UP"
            /\ gotoCmdModeFlag' = FALSE
            /\ UNCHANGED engineVars
  /\ UNCHANGED <<startVars, gotoDataModeFlag, tryCnt, ppp_status, ringPhase,
                 callQueued, ModemResetFlag, modemData>>

\* WAIT_GOTO_DATA: the outcome of ATO.
MainWaitGotoData ==
  /\ Case("WAIT_GOTO_DATA")
  /\ IF ~IsIdle
       THEN UNCHANGED <<phase, dialupPhase, gotoCmdModeFlag, tryCnt>>
     ELSE IF CmdPhase = "OK"
       THEN /\ phase' = "DATACALL"
            /\ tryCnt' = 0 /\ gotoCmdModeFlag' = FALSE
            /\ UNCHANGED dialupPhase
     ELSE /\ phase' = "GOTO_CMD"
          /\ dialupPhase' = "START"
          /\ UNCHANGED <<gotoCmdModeFlag, tryCnt>>
  /\ UNCHANGED <<engineVars, startVars, gotoDataModeFlag, ppp_status, ringPhase,
                 callQueued, ModemResetFlag, modemData>>

\* A faulty GOTO_CMD that keeps the count of the last escape.
GotoCmdKeepsCount ==
  /\ Case("GOTO_CMD")
  /\ phase' = "GOTO_CMD_CHECK"
  /\ UNCHANGED <<engineVars, startVars, dialupPhase, flagVars, ppp_status,
                 ringPhase, callQueued, ModemResetFlag, modemData>>

MainGotoCmd ==
  /\ Case("GOTO_CMD")
  /\ tryCnt' = 0
  /\ phase' = "GOTO_CMD_CHECK"
  /\ UNCHANGED <<engineVars, startVars, dialupPhase, gotoCmdModeFlag,
                 gotoDataModeFlag, ppp_status, ringPhase, callQueued,
                 ModemResetFlag, modemData>>

EscapeCase(p) ==
  /\ Case(p)
  /\ UNCHANGED <<startVars, dialupPhase, gotoDataModeFlag, ppp_status, ringPhase,
                 callQueued, ModemResetFlag, modemData>>

\* GOTO_CMD_CHECK after an AT that was answered: the modem has escaped.
EscapeChecked ==
  /\ EscapeCase("GOTO_CMD_CHECK")
  /\ tryCnt > 0 /\ CmdPhase = "OK"
  /\ tryCnt' = 0
  /\ gotoCmdModeFlag' = FALSE
  /\ phase' = "IDLE"
  /\ UNCHANGED engineVars

\* GOTO_CMD_CHECK: the escape sequence, once the engine takes it.
EscapeSent ==
  /\ EscapeCase("GOTO_CMD_CHECK")
  /\ ~(tryCnt > 0 /\ CmdPhase = "OK")
  /\ TrySend("+++", FALSE)
  /\ phase' = IF IsIdle THEN "WAIT_GOTO_CMD" ELSE phase
  /\ UNCHANGED <<gotoCmdModeFlag, tryCnt>>

\* A faulty wait that starts counting anew with every attempt.
EscapeForEver ==
  /\ EscapeCase("WAIT_GOTO_CMD")
  /\ IsIdle
  /\ IF CmdPhase = "OK"
       THEN /\ phase' = "IDLE" /\ gotoCmdModeFlag' = FALSE
            /\ UNCHANGED <<engineVars, tryCnt>>
       ELSE /\ Load("AT", FALSE)
            /\ tryCnt' = 1
            /\ phase' = "GOTO_CMD_CHECK"
            /\ UNCHANGED gotoCmdModeFlag

\* A faulty wait that gives up one attempt too late.
EscapeGivesUpLate ==
  /\ EscapeCase("WAIT_GOTO_CMD")
  /\ IsIdle
  /\ IF CmdPhase = "OK"
       THEN /\ phase' = "IDLE" /\ gotoCmdModeFlag' = FALSE
            /\ UNCHANGED <<engineVars, tryCnt>>
       ELSE /\ Load("AT", FALSE)
            /\ tryCnt' = tryCnt + 1
            /\ phase' = IF tryCnt <= 3 THEN "GOTO_CMD_CHECK" ELSE "INIT"
            /\ UNCHANGED gotoCmdModeFlag

\* WAIT_GOTO_CMD, when "+++" has ended: AT shows whether the modem listens.
EscapeEnds ==
  /\ EscapeCase("WAIT_GOTO_CMD")
  /\ IsIdle
  /\ IF CmdPhase = "OK"
       THEN /\ phase' = "IDLE" /\ gotoCmdModeFlag' = FALSE
            /\ UNCHANGED <<engineVars, tryCnt>>
       ELSE /\ Load("AT", FALSE)
            /\ tryCnt' = tryCnt + 1
            /\ phase' = IF tryCnt < 3 THEN "GOTO_CMD_CHECK" ELSE "INIT"
            /\ UNCHANGED gotoCmdModeFlag

EscapeWaits ==
  /\ EscapeCase("WAIT_GOTO_CMD")
  /\ ~IsIdle
  /\ UNCHANGED <<phase, engineVars, gotoCmdModeFlag, tryCnt>>

IdleCase ==
  /\ turn = "switch" /\ ~ModemResetFlag /\ phase = "IDLE"
  /\ turn' = "tail"
  /\ UNCHANGED <<startVars, dialupPhase, gotoCmdModeFlag, tryCnt, ppp_status,
                 smsQueued, callQueued, mode, ModemResetFlag, modemData>>

\* The end of the case: a set gotoDataModeFlag overrides the phase chosen.
Choose(p) == phase' = IF gotoDataModeFlag' THEN "GOTO_DATA" ELSE p

\* IDLE with an incoming call.
IdleCall ==
  /\ IdleCase
  /\ ringPhase = "IS_A_CALL"
  /\ ringPhase' = "IDLE"
  /\ UNCHANGED <<engineVars, gotoDataModeFlag, newSms>>
  /\ Choose("VOICECALL")

\* IDLE with a call to make.
IdleCallOut ==
  /\ IdleCase
  /\ ringPhase # "IS_A_CALL" /\ callQueued
  /\ UNCHANGED <<engineVars, ringPhase, gotoDataModeFlag, newSms>>
  /\ Choose("VOICECALL")

\* IDLE with messages to read, or when the interval of a minute is over.
IdleRecv ==
  \E due \in BOOLEAN :
    /\ IdleCase
    /\ ringPhase # "IS_A_CALL" /\ ~callQueued /\ (newSms \/ due)
    /\ TrySend("AT", TRUE)
    /\ newSms' = (newSms /\ ~IsIdle)
    /\ UNCHANGED <<ringPhase, gotoDataModeFlag>>
    /\ Choose(IF IsIdle THEN "SMS_RECV" ELSE phase)

NothingToRead == ringPhase # "IS_A_CALL" /\ ~callQueued /\ ~newSms

\* IDLE with messages to send.
IdleSend ==
  /\ IdleCase
  /\ NothingToRead /\ smsQueued
  /\ UNCHANGED <<engineVars, ringPhase, gotoDataModeFlag, newSms>>
  /\ Choose("SMS_SEND")

\* IDLE while the ring line is watched: the flag is not looked at.
IdleRings ==
  /\ IdleCase
  /\ NothingToRead /\ ~smsQueued /\ ringPhase # "IDLE"
  /\ UNCHANGED <<phase, engineVars, ringPhase, gotoDataModeFlag, newSms>>

\* IDLE without work: the mode decides.
IdleMode ==
  /\ IdleCase
  /\ NothingToRead /\ ~smsQueued /\ ringPhase = "IDLE"
  /\ UNCHANGED <<ringPhase, newSms>>
  /\ gotoDataModeFlag' = (gotoDataModeFlag \/ mode = "GPRS_ENABLE")
  /\ IF mode = "SLEEP_MODE" /\ IsIdle
       THEN Load("AT", TRUE) /\ phase' = "GO_TO_SLEEP"
       ELSE UNCHANGED engineVars /\ Choose(phase)

MainIdle ==
  IdleCall \/ IdleCallOut \/ IdleRecv \/ IdleSend \/ IdleRings \/ IdleMode

MainGoToSleep ==
  /\ Case("GO_TO_SLEEP")
  /\ IF ~Done
       THEN UNCHANGED <<phase, dialupPhase>>
     ELSE IF CmdPhase = "OK"
       THEN phase' = "SLEEP" /\ dialupPhase' = "START"
       ELSE phase' = "INIT" /\ UNCHANGED dialupPhase
  /\ UNCHANGED <<engineVars, startVars, flagVars, ppp_status, ringPhase,
                 callQueued, ModemResetFlag, modemData>>

MainSleep ==
  /\ Case("SLEEP")
  /\ IF mode # "SLEEP_MODE"
       THEN Load("AT", TRUE) /\ phase' = "WAKEUP"
       ELSE UNCHANGED <<engineVars, phase>>
  /\ UNCHANGED <<startVars, dialupPhase, flagVars, ppp_status, ringPhase,
                 callQueued, ModemResetFlag, modemData>>

MainWakeup ==
  /\ Case("WAKEUP")
  /\ phase' = IF ~Done THEN phase ELSE IF CmdPhase = "OK" THEN "IDLE" ELSE "INIT"
  /\ UNCHANGED <<engineVars, startVars, dialupPhase, flagVars, ppp_status,
                 ringPhase, callQueued, ModemResetFlag, modemData>>

Startup == StartupInit \/ StartupTurnOn \/ StartupSend \/ StartupEnds
             \/ StartupFails \/ StartupWaits \/ StartupDone
DialUp_ == DialStart \/ DialConnects \/ DialFails \/ DialRuns
Escape  == MainGotoCmd \/ EscapeChecked \/ EscapeSent \/ EscapeEnds \/ EscapeWaits

Switch ==
  \/ MainInit \/ Startup \/ MainSmsRecv \/ MainSmsSend \/ MainVoiceCall
  \/ MainDataCall \/ DialUp_ \/ MainGotoData \/ MainWaitGotoData \/ Escape
  \/ MainIdle \/ MainGoToSleep \/ MainSleep \/ MainWakeup

-----------------------------------------------------------------------------
(* The rest of the loop body: pending work asks for the command mode, the  *)
(* engine takes a step outside DATACALL, and the ring detector takes one.  *)

\* dataSendingTimeout and the interval of a minute are inputs.
AskForCmdMode ==
  \E sending, due \in BOOLEAN :
    gotoCmdModeFlag' =
      (gotoCmdModeFlag \/ (~sending /\ (smsQueued \/ callQueued \/ newSms \/ due
                                          \/ ringPhase # "IDLE")))

Unmoved == UNCHANGED <<phase, dialupPhase>>

\* Transmitted, or once more.  ATD and ATO may take the modem to data mode,
\* "+++" may take it back.
Transmit ==
  /\ CmdPhase \in {"SEND", "WAIT"}
  /\ CmdPhase' = "WAIT"
  /\ modemData' \in CASE cmd \in {"ATD", "ATO"} -> {modemData, TRUE}
                      [] cmd = "+++"            -> {modemData, FALSE}
                      [] OTHER                  -> {modemData}
  /\ UNCHANGED <<cmd, more>> /\ Unmoved

\* The next command of the chain is there, or this was the last one.
ChainGoesOn == more' \in (IF more /\ cmd = "AT" THEN BOOLEAN ELSE {more})

\* CONNECT answers ATD and ATO, OK the others: in command mode.
EndOk ==
  /\ CmdPhase = "WAIT"
  /\ modemData <=> cmd \in {"ATD", "ATO"}
  /\ CmdPhase' = "OK"
  /\ ChainGoesOn
  /\ UNCHANGED <<cmd, modemData>> /\ Unmoved

EndError ==
  /\ CmdPhase = "WAIT"
  /\ CmdPhase' = "ERROR"
  /\ ChainGoesOn
  /\ UNCHANGED <<cmd, modemData>> /\ Unmoved

\* Ampm_MainSwithToIdle: "NO CARRIER" while ATO is on its way, which stays so.
NoCarrier ==
  /\ CmdPhase = "WAIT" /\ cmd = "ATO" /\ ~modemData
  /\ dialupPhase' = "START"
  /\ phase' = "IDLE"
  /\ UNCHANGED <<engineVars, modemData>>

ChainNext ==
  /\ IsIdle /\ more
  /\ CmdPhase' = "SEND"
  /\ IF cmd = "dialAT"
       THEN \/ cmd' = "ATD" /\ more' = FALSE
            \/ UNCHANGED <<cmd, more>>
       ELSE UNCHANGED <<cmd, more>>
  /\ UNCHANGED modemData /\ Unmoved

EngineRests ==
  /\ ~(IsIdle /\ more)
  /\ UNCHANGED <<engineVars, modemData>> /\ Unmoved

Engine ==
  \/ Transmit \/ EndOk \/ EndError \/ NoCarrier
  \/ ChainNext \/ EngineRests

\* The ring detector as RingDetector implements it; what its interrupts have
\* seen is an input, and its calls are the steps of this module.
Rings == INSTANCE RingPhases WITH calls <- 0

\* Ampm_RingingProcess, which the startup phases do not call.
Ring ==
  IF phase \in {"INIT", "STARTUP"}
    THEN UNCHANGED <<ringPhase, newSms>>
    ELSE Rings!Process

Frozen == UNCHANGED <<engineVars, modemData>> /\ Unmoved

Tail_ ==
  /\ turn = "tail"
  /\ turn' = "switch"
  /\ AskForCmdMode
  /\ IF phase = "DATACALL" THEN Frozen ELSE Engine
  /\ Ring
  /\ UNCHANGED <<startVars, gotoDataModeFlag, tryCnt, ppp_status, smsQueued,
                 callQueued, mode, ModemResetFlag>>

-----------------------------------------------------------------------------
(* The other actors.                                                       *)

loopVars == <<turn, phase, engineVars, startVars, dialupPhase, flagVars, ringPhase,
              ModemResetFlag>>

\* Ampm_GsmSetMode, Ampm_Sms_SendMsg and Ampm_VoiceCallSetup, by any thread.
App ==
  /\ \/ mode' \in Modes
        /\ UNCHANGED <<smsQueued, callQueued>>
     \/ smsQueued' = TRUE /\ UNCHANGED <<mode, callQueued>>
     \/ callQueued' = TRUE /\ UNCHANGED <<mode, smsQueued>>
  /\ UNCHANGED <<loopVars, ppp_status, newSms, modemData>>

\* Ampm_SetAtCmti, in the interrupt.
Cmti ==
  /\ newSms' = TRUE
  /\ UNCHANGED <<loopVars, ppp_status, smsQueued, callQueued, mode, modemData>>

\* status_cb, in the thread of the PPP stack (external).
PppStatus ==
  /\ \/ ppp_status = "CONNECTING" /\ ppp_status' = "CONNECTED"
     \/ ppp_status # "DISCONNECTED" /\ ppp_status' = "DISCONNECTED"
  /\ UNCHANGED <<loopVars, workVars, mode, modemData>>

\* The modem loses the carrier (external).
ModemDrops ==
  /\ modemData
  /\ modemData' = FALSE
  /\ UNCHANGED <<loopVars, ppp_status, workVars, mode>>

Env == App \/ Cmti \/ PppStatus \/ ModemDrops

Next == Switch \/ Tail_ \/ Env

Spec == Init /\ [][Next]_vars

Loop == Switch \/ Tail_

\* A loaded command is transmitted, a transmitted one ends.
Progress ==
  /\ Tail_
  /\ \/ CmdPhase = "SEND" /\ CmdPhase' = "WAIT"
     \/ CmdPhase = "WAIT" /\ CmdPhase' \in {"OK", "ERROR"}

(* The loop never stops.  AtCmdEngine transmits what is loaded and ends    *)
(* what is transmitted; nothing is assumed of the other actors.            *)
FairSpec ==
  /\ Spec
  /\ WF_vars(Loop)
  /\ SF_vars(Progress)

-----------------------------------------------------------------------------
(* Where the parts that talk to the modem in AT commands work, the modem is*)
(* in command mode: every way out of data mode goes through an escape that *)
(* was answered, or through a startup whose first command was.             *)
AtPartsInCommandMode ==
  phase \in {"SMS_RECV", "SMS_SEND", "VOICECALL", "SLEEP", "WAKEUP"} => ~modemData

(* DATACALL is only entered over a dial-up that is still standing, and with*)
(* the engine at rest: the loop does not run the engine in DATACALL, so a  *)
(* command in flight there would be frozen.                                *)
DataCallRests == phase = "DATACALL" => dialupPhase = "OK" /\ Done

(* Leaving data mode ends: after at most four escapes the loop is in IDLE, *)
(* or starts the modem over.                                               *)
EscapeCompletes == phase = "GOTO_CMD" ~> phase \in {"IDLE", "INIT"}

(* "if have incomming call" (main_task.c:707): a call found in IDLE is     *)
(* handed to the call task.  It is not when gotoDataModeFlag was left set  *)
(* by an ATO that failed: the ring state is cleared and the loop dials.    *)
IncomingCallTaken ==
  [][turn = "switch" /\ ~ModemResetFlag /\ phase = "IDLE"
       /\ ringPhase = "IS_A_CALL" /\ turn' = "tail"
     => phase' = "VOICECALL"]_vars
=============================================================================
