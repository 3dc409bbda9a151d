-------------------------- MODULE GsmMainTaskProofs --------------------------
(***************************************************************************)
(* Why the modem is in command mode wherever GsmMainTask uses AT commands, *)
(* for every set of modes the application may ask for.                     *)
(***************************************************************************)
EXTENDS GsmMainTask, TLAPS

(* Only a chain has a next command, and the dial chain ends in ATD.        *)
ChainShape ==
  /\ cmd = "dialAT" => more
  /\ cmd \in {"ATD", "ATO", "+++"} => ~more

(* In command mode, with no command on its way that could end it.          *)
Quiet == ~modemData /\ cmd # "dialAT" /\ (cmd \in {"ATD", "ATO"} => IsIdle)

(* The last AT tells whether the modem listens.                            *)
Listens == CmdPhase = "OK" => ~modemData

AtParts == phase \in {"SMS_RECV", "SMS_SEND", "VOICECALL", "SLEEP", "WAKEUP"} => Quiet

(* Where IDLE is entered with a command under way that may end the command *)
(* mode (an ATO that was told NO CARRIER), it can only lead to GOTO_DATA.  *)
IdleParts ==
  /\ phase = "IDLE" => ModemResetFlag \/ gotoDataModeFlag \/ Quiet
  /\ ModemResetFlag => phase = "IDLE"
  /\ phase \in {"GOTO_DATA", "WAIT_GOTO_DATA", "DIAL_UP"} => gotoDataModeFlag
  /\ cmd = "ATO" /\ ~IsIdle =>
       /\ gotoDataModeFlag
       /\ phase \in {"GOTO_DATA", "WAIT_GOTO_DATA", "DIAL_UP", "IDLE"}

DataParts ==
  /\ phase = "WAIT_GOTO_DATA" => dialupPhase = "OK" /\ cmd = "ATO"
  /\ phase = "DATACALL" => dialupPhase = "OK"
  /\ phase \in {"DATACALL", "GOTO_CMD"} => Done

EscapeParts ==
  /\ phase = "GOTO_CMD_CHECK" =>
       IF tryCnt = 0 THEN Done ELSE cmd = "AT" /\ ~more /\ Listens
  /\ phase = "WAIT_GOTO_CMD" => cmd = "+++" /\ Listens
  /\ phase \in {"GOTO_CMD_CHECK", "WAIT_GOTO_CMD"} => tryCnt <= 3
  /\ phase = "GO_TO_SLEEP" => cmd = "AT" /\ Listens

StartupParts ==
  phase = "STARTUP" =>
    /\ startup \in {"GET_CMD1", "IDLE"} => cmd = "AT" /\ ~more /\ Listens
    /\ startup = "IDLE" => CmdPhase = "OK"

Parts == ChainShape /\ AtParts /\ IdleParts /\ DataParts /\ EscapeParts /\ StartupParts

Inv == TypeOK /\ Parts

\* TypeOK, in two parts.
Fields ==
  /\ turn \in {"switch", "tail"}
  /\ phase \in Phases
  /\ CmdPhase \in {"SEND", "WAIT", "OK", "ERROR"}
  /\ cmd \in {"AT", "dialAT", "ATD", "ATO", "+++"}
  /\ startup \in {"INIT", "TURN_ON", "GET_CMD", "GET_CMD1", "IDLE"}
  /\ startupTry \in 0 .. 1
  /\ dialupPhase \in {"START", "RUNING", "OK", "FAIL"}
  /\ tryCnt \in 0 .. 4
  /\ ppp_status \in {"CONNECTING", "CONNECTED", "DISCONNECTED"}
  /\ ringPhase \in {"IDLE", "IS_DETECTING", "IS_A_CALL", "IS_A_SMS"}
  /\ mode \in {"NONE", "GPRS_ENABLE", "SLEEP_MODE"}
Flags ==
  /\ more \in BOOLEAN /\ gotoCmdModeFlag \in BOOLEAN /\ gotoDataModeFlag \in BOOLEAN
  /\ newSms \in BOOLEAN /\ smsQueued \in BOOLEAN /\ callQueued \in BOOLEAN
  /\ ModemResetFlag \in BOOLEAN /\ modemData \in BOOLEAN

-----------------------------------------------------------------------------
(* The two say what TypeOK says, of the state and of the next one.         *)
LEMMA TypeSplit ==
  /\ TypeOK <=> Fields /\ Flags
  /\ TypeOK' <=> Fields' /\ Flags'
BY DEF TypeOK, Fields, Flags

(* The loop body after the switch (main_task.c, AMPM_GSM_MainTask): the    *)
(* engine and the ring detector keep the invariant.                        *)
LEMMA TailKeeps ==
  ASSUME Inv, Tail_
  PROVE  Inv'
<1> USE DEF Inv, TypeOK, engineVars, startVars, Unmoved
<1>1. TypeOK'
  <2>1. /\ phase' \in Phases
        /\ CmdPhase' \in {"SEND", "WAIT", "OK", "ERROR"}
        /\ cmd' \in {"AT", "dialAT", "ATD", "ATO", "+++"}
        /\ more' \in BOOLEAN /\ modemData' \in BOOLEAN
        /\ dialupPhase' \in {"START", "RUNING", "OK", "FAIL"}
    <3>1. CASE phase = "DATACALL"
      BY <3>1 DEF Tail_, Frozen
    <3>2. CASE Engine
      <4>1. CASE Transmit
        BY <4>1 DEF Transmit
      <4>2. CASE EndOk \/ EndError
        BY <4>2 DEF EndOk, EndError, ChainGoesOn
      <4>3. CASE NoCarrier
        BY <4>3 DEF NoCarrier, Phases
      <4>4. CASE ChainNext \/ EngineRests
        BY <4>4 DEF ChainNext, EngineRests
      <4> QED  BY <3>2, <4>1, <4>2, <4>3, <4>4 DEF Engine
    <3> QED  BY <3>1, <3>2 DEF Tail_
  <2>2. ringPhase' \in {"IDLE", "IS_DETECTING", "IS_A_CALL", "IS_A_SMS"}
    BY DEF Tail_, Ring, Rings!Process, Rings!After
  <2>3. newSms' \in BOOLEAN /\ gotoCmdModeFlag' \in BOOLEAN
    BY DEF Tail_, Ring, Rings!Process, AskForCmdMode
  <2> QED  BY <2>1, <2>2, <2>3 DEF Tail_
<1>2. Parts'
  <2> USE DEF Parts, ChainShape, AtParts, IdleParts, DataParts, EscapeParts,
              StartupParts, Quiet, Listens, IsIdle, IsEmpty, Done
  <2>1. UNCHANGED <<startup, gotoDataModeFlag, tryCnt, ModemResetFlag>>
    BY DEF Tail_
  <2>2. CASE phase = "DATACALL"
    BY <2>1, <2>2 DEF Tail_, Frozen
  <2>3. CASE phase # "DATACALL" /\ Transmit
    BY <2>1, <2>3 DEF Transmit
  <2>4. CASE phase # "DATACALL" /\ EndOk
    BY <2>1, <2>4 DEF EndOk, ChainGoesOn
  <2>5. CASE phase # "DATACALL" /\ EndError
    BY <2>1, <2>5 DEF EndError, ChainGoesOn
  <2>6. CASE phase # "DATACALL" /\ NoCarrier
    BY <2>1, <2>6 DEF NoCarrier
  <2>7. CASE phase # "DATACALL" /\ ChainNext
    BY <2>1, <2>7 DEF ChainNext
  <2>8. CASE phase # "DATACALL" /\ EngineRests
    BY <2>1, <2>8 DEF EngineRests
  <2> QED
    BY <2>2, <2>3, <2>4, <2>5, <2>6, <2>7, <2>8 DEF Tail_, Engine
<1> QED  BY <1>1, <1>2

(* The application, the interrupt of +CMTI, the PPP thread and a modem that*)
(* loses the carrier keep it.                                              *)
LEMMA EnvKeeps ==
  ASSUME Inv, Env
  PROVE  Inv'
<1> USE DEF Inv, loopVars, engineVars, startVars, flagVars, workVars
<1>1. TypeOK'
  <2>1. CASE App
    <3>1. Fields'
      <4>1. mode' \in {"NONE", "GPRS_ENABLE", "SLEEP_MODE"}
        BY <2>1, ModesAssumption, TypeSplit DEF App, Fields
      <4> QED  BY <2>1, <4>1, TypeSplit DEF App, Fields
    <3>2. Flags'
      BY <2>1, ModesAssumption, TypeSplit DEF App, Flags
    <3> QED  BY <3>1, <3>2, TypeSplit
  <2>2. CASE Cmti \/ PppStatus
    BY <2>2 DEF Cmti, PppStatus, TypeOK
  <2>3. CASE ModemDrops
    <3>1. Fields'
      BY <2>3, TypeSplit DEF ModemDrops, Fields
    <3>2. Flags'
      BY <2>3, TypeSplit DEF ModemDrops, Flags
    <3> QED  BY <3>1, <3>2, TypeSplit
  <2> QED  BY <2>1, <2>2, <2>3 DEF Env
<1>2. Parts'
  <2> USE DEF Parts, ChainShape, AtParts, IdleParts, DataParts, EscapeParts,
              StartupParts, Quiet, Listens, IsIdle, IsEmpty, Done
  <2>1. CASE App
    BY <2>1 DEF App
  <2>2. CASE Cmti \/ PppStatus
    BY <2>2 DEF Cmti, PppStatus
  <2>3. CASE ModemDrops
    BY <2>3 DEF ModemDrops
  <2> QED  BY <2>1, <2>2, <2>3 DEF Env
<1> QED  BY <1>1, <1>2

(* The phase STARTUP (ampm_gsm_startup.c) keeps it: a script that has      *)
(* ended has had an answer from the modem.                                 *)
LEMMA StartupKeeps ==
  ASSUME Inv, Startup
  PROVE  Inv'
<1> USE DEF Inv, engineVars, startVars, flagVars, Case, StartupCase
<1>1. TypeOK'
  <2>1. CASE StartupInit
    <3>1. Fields'
      BY <2>1, TypeSplit DEF StartupInit, Fields
    <3>2. Flags'
      BY <2>1, TypeSplit DEF StartupInit, Flags
    <3> QED  BY <3>1, <3>2, TypeSplit
  <2>2. CASE StartupTurnOn
    BY <2>2 DEF StartupTurnOn, TypeOK
  <2>3. CASE StartupSend
    BY <2>3 DEF StartupSend, Load, TypeOK
  <2>4. CASE StartupEnds
    BY <2>4 DEF StartupEnds, TypeOK
  <2>5. CASE StartupFails
    BY <2>5 DEF StartupFails, TypeOK
  <2>6. CASE StartupWaits
    BY <2>6 DEF StartupWaits, TypeOK
  <2>7. CASE StartupDone
    BY <2>7 DEF StartupDone, TrySend, Load, TypeOK, Phases
  <2> QED  BY <2>1, <2>2, <2>3, <2>4, <2>5, <2>6, <2>7 DEF Startup
<1>2. Parts'
  <2> USE DEF Parts, ChainShape, AtParts, IdleParts, DataParts, EscapeParts,
              StartupParts, Quiet, Listens, IsIdle, IsEmpty, Done
  <2>1. CASE StartupInit
    BY <2>1 DEF StartupInit, TypeOK
  <2>2. CASE StartupTurnOn
    BY <2>2 DEF StartupTurnOn, TypeOK
  <2>3. CASE StartupSend
    BY <2>3 DEF StartupSend, Load, TypeOK
  <2>4. CASE StartupEnds
    BY <2>4 DEF StartupEnds, TypeOK
  <2>5. CASE StartupFails
    BY <2>5 DEF StartupFails, TypeOK
  <2>6. CASE StartupWaits
    BY <2>6 DEF StartupWaits, TypeOK
  <2>7. CASE StartupDone
    BY <2>7 DEF StartupDone, TrySend, Load, TypeOK
  <2> QED  BY <2>1, <2>2, <2>3, <2>4, <2>5, <2>6, <2>7 DEF Startup
<1> QED  BY <1>1, <1>2

(* The phase DIAL_UP keeps it: what it leaves in DATACALL is at rest.      *)
LEMMA DialKeeps ==
  ASSUME Inv, DialUp_
  PROVE  Inv'
<1> USE DEF Inv, engineVars, startVars, flagVars, Case, DialUpCase
<1>1. TypeOK'
  <2>1. CASE DialStart
    BY <2>1 DEF DialStart, TrySend, Load, TypeOK
  <2>2. CASE DialConnects
    BY <2>2 DEF DialConnects, TypeOK, Phases
  <2>3. CASE DialFails
    <3>1. Fields'
      BY <2>3, TypeSplit DEF DialFails, Phases, Fields
    <3>2. Flags'
      BY <2>3, TypeSplit DEF DialFails, Flags
    <3> QED  BY <3>1, <3>2, TypeSplit
  <2>4. CASE DialRuns
    BY <2>4 DEF DialRuns, TypeOK
  <2> QED  BY <2>1, <2>2, <2>3, <2>4 DEF DialUp_
<1>2. Parts'
  <2> USE DEF Parts, ChainShape, AtParts, IdleParts, DataParts, EscapeParts,
              StartupParts, Quiet, Listens, IsIdle, IsEmpty, Done
  <2>1. CASE DialStart
    BY <2>1 DEF DialStart, TrySend, Load, TypeOK
  <2>2. CASE DialConnects
    BY <2>2 DEF DialConnects, TypeOK
  <2>3. CASE DialFails
    BY <2>3 DEF DialFails, TypeOK
  <2>4. CASE DialRuns
    BY <2>4 DEF DialRuns, TypeOK
  <2> QED  BY <2>1, <2>2, <2>3, <2>4 DEF DialUp_
<1> QED  BY <1>1, <1>2

(* GOTO_CMD, GOTO_CMD_CHECK and WAIT_GOTO_CMD keep it: IDLE is entered     *)
(* after an answer only.                                                   *)
LEMMA EscapeKeeps ==
  ASSUME Inv, Escape
  PROVE  Inv'
<1> USE DEF Inv, engineVars, startVars, flagVars, Case, EscapeCase
<1>1. TypeOK'
  <2>1. CASE MainGotoCmd
    BY <2>1 DEF MainGotoCmd, TypeOK, Phases
  <2>2. CASE EscapeChecked
    <3>1. Fields'
      BY <2>2, TypeSplit DEF EscapeChecked, Phases, Fields
    <3>2. Flags'
      BY <2>2, TypeSplit DEF EscapeChecked, Phases, Flags
    <3> QED  BY <3>1, <3>2, TypeSplit
  <2>3. CASE EscapeSent
    BY <2>3 DEF EscapeSent, TrySend, Load, TypeOK, Phases
  <2>4. CASE EscapeEnds
    <3>1. Fields'
      BY <2>4, TypeSplit DEF EscapeEnds, Load, Phases, Fields, Parts, EscapeParts
    <3>2. Flags'
      BY <2>4, TypeSplit DEF EscapeEnds, Load, Phases, Flags
    <3> QED  BY <3>1, <3>2, TypeSplit
  <2>5. CASE EscapeWaits
    BY <2>5 DEF EscapeWaits, TypeOK
  <2> QED  BY <2>1, <2>2, <2>3, <2>4, <2>5 DEF Escape
<1>2. Parts'
  <2> USE DEF Parts, ChainShape, AtParts, IdleParts, DataParts, EscapeParts,
              StartupParts, Quiet, Listens, IsIdle, IsEmpty, Done
  <2>1. CASE MainGotoCmd
    BY <2>1 DEF MainGotoCmd, TypeOK
  <2>2. CASE EscapeChecked
    BY <2>2 DEF EscapeChecked, TypeOK
  <2>3. CASE EscapeSent
    BY <2>3 DEF EscapeSent, TrySend, Load, TypeOK
  <2>4. CASE EscapeEnds
    BY <2>4 DEF EscapeEnds, Load, TypeOK
  <2>5. CASE EscapeWaits
    BY <2>5 DEF EscapeWaits, TypeOK
  <2> QED  BY <2>1, <2>2, <2>3, <2>4, <2>5 DEF Escape
<1> QED  BY <1>1, <1>2

(* The case IDLE keeps it: a set gotoDataModeFlag overrides what it chose. *)
LEMMA IdleKeeps ==
  ASSUME Inv, MainIdle
  PROVE  Inv'
<1> USE DEF Inv, engineVars, startVars, flagVars, Case, IdleCase, Choose
<1>1. TypeOK'
  <2>1. CASE IdleCall
    BY <2>1 DEF IdleCall, TypeOK, Phases
  <2>2. CASE IdleCallOut
    BY <2>2 DEF IdleCallOut, TypeOK, Phases
  <2>3. CASE IdleRecv
    BY <2>3 DEF IdleRecv, TrySend, Load, TypeOK, Phases
  <2>4. CASE IdleSend
    BY <2>4 DEF IdleSend, NothingToRead, TypeOK, Phases
  <2>5. CASE IdleRings
    BY <2>5 DEF IdleRings, NothingToRead, TypeOK
  <2>6. CASE IdleMode
    BY <2>6 DEF IdleMode, Load, NothingToRead, TypeOK, Phases
  <2> QED  BY <2>1, <2>2, <2>3, <2>4, <2>5, <2>6 DEF MainIdle
<1>2. Parts'
  <2> USE DEF Parts, ChainShape, AtParts, IdleParts, DataParts, EscapeParts,
              StartupParts, Quiet, Listens, IsIdle, IsEmpty, Done
  <2>1. CASE IdleCall
    BY <2>1 DEF IdleCall, TypeOK
  <2>2. CASE IdleCallOut
    BY <2>2 DEF IdleCallOut, TypeOK
  <2>3. CASE IdleRecv
    BY <2>3 DEF IdleRecv, TrySend, Load, TypeOK
  <2>4. CASE IdleSend
    BY <2>4 DEF IdleSend, TypeOK
  <2>5. CASE IdleRings
    BY <2>5 DEF IdleRings, TypeOK
  <2>6. CASE IdleMode
    BY <2>6 DEF IdleMode, Load, TypeOK
  <2> QED  BY <2>1, <2>2, <2>3, <2>4, <2>5, <2>6 DEF MainIdle
<1> QED  BY <1>1, <1>2

(* The other phases keep it.                                               *)
LEMMA SwitchKeeps ==
  ASSUME Inv, Switch
  PROVE  Inv'
<1> USE DEF Inv, engineVars, startVars, flagVars, Case
<1> SUFFICES ASSUME ~Startup, ~DialUp_, ~Escape, ~MainIdle PROVE Inv'
  BY StartupKeeps, DialKeeps, EscapeKeeps, IdleKeeps
<1>1. TypeOK'
  <2>1. CASE MainInit
    BY <2>1 DEF MainInit, TypeOK, Phases
  <2>2. CASE MainSmsRecv
    <3>1. Fields'
      BY <2>2, TypeSplit DEF MainSmsRecv, Phases, Fields
    <3>2. Flags'
      BY <2>2, TypeSplit DEF MainSmsRecv, Flags
    <3> QED  BY <3>1, <3>2, TypeSplit
  <2>3. CASE MainSmsSend
    <3>1. Fields'
      BY <2>3, TypeSplit DEF MainSmsSend, Load, Phases, Fields
    <3>2. Flags'
      BY <2>3, TypeSplit DEF MainSmsSend, Load, Flags
    <3> QED  BY <3>1, <3>2, TypeSplit
  <2>4. CASE MainVoiceCall
    <3>1. Fields'
      BY <2>4, TypeSplit DEF MainVoiceCall, Load, Phases, Fields
    <3>2. Flags'
      BY <2>4, TypeSplit DEF MainVoiceCall, Load, Flags
    <3> QED  BY <3>1, <3>2, TypeSplit
  <2>5. CASE MainDataCall
    <3>1. Fields'
      BY <2>5, TypeSplit DEF MainDataCall, Phases, Fields
    <3>2. Flags'
      BY <2>5, TypeSplit DEF MainDataCall, Phases, Flags
    <3> QED  BY <3>1, <3>2, TypeSplit
  <2>6. CASE MainGotoData
    BY <2>6 DEF MainGotoData, TrySend, Load, TypeOK, Phases
  <2>7. CASE MainWaitGotoData
    <3>1. Fields'
      BY <2>7, TypeSplit DEF MainWaitGotoData, Phases, Fields
    <3>2. Flags'
      BY <2>7, TypeSplit DEF MainWaitGotoData, Phases, Flags
    <3> QED  BY <3>1, <3>2, TypeSplit
  <2>8. CASE MainGoToSleep
    BY <2>8 DEF MainGoToSleep, TypeOK, Phases
  <2>9. CASE MainSleep
    <3>1. Fields'
      BY <2>9, TypeSplit DEF MainSleep, Load, Phases, Fields
    <3>2. Flags'
      BY <2>9, TypeSplit DEF MainSleep, Load, Flags
    <3> QED  BY <3>1, <3>2, TypeSplit
  <2>10. CASE MainWakeup
    BY <2>10 DEF MainWakeup, TypeOK, Phases
  <2> QED  BY <2>1, <2>2, <2>3, <2>4, <2>5, <2>6, <2>7, <2>8, <2>9, <2>10 DEF Switch
<1>2. Parts'
  <2> USE DEF Parts, ChainShape, AtParts, IdleParts, DataParts, EscapeParts,
              StartupParts, Quiet, Listens, IsIdle, IsEmpty, Done
  <2>1. CASE MainInit
    BY <2>1 DEF MainInit, TypeOK
  <2>2. CASE MainSmsRecv
    BY <2>2 DEF MainSmsRecv, TypeOK
  <2>3. CASE MainSmsSend
    BY <2>3 DEF MainSmsSend, Load, TypeOK
  <2>4. CASE MainVoiceCall
    BY <2>4 DEF MainVoiceCall, Load, TypeOK
  <2>5. CASE MainDataCall
    BY <2>5 DEF MainDataCall, TypeOK
  <2>6. CASE MainGotoData
    BY <2>6 DEF MainGotoData, TrySend, Load, TypeOK
  <2>7. CASE MainWaitGotoData
    BY <2>7 DEF MainWaitGotoData, TypeOK
  <2>8. CASE MainGoToSleep
    BY <2>8 DEF MainGoToSleep, TypeOK
  <2>9. CASE MainSleep
    BY <2>9 DEF MainSleep, Load, TypeOK
  <2>10. CASE MainWakeup
    BY <2>10 DEF MainWakeup, TypeOK
  <2> QED  BY <2>1, <2>2, <2>3, <2>4, <2>5, <2>6, <2>7, <2>8, <2>9, <2>10 DEF Switch
<1> QED  BY <1>1, <1>2

-----------------------------------------------------------------------------
(* The invariant holds in every state of the program, whatever the modem,  *)
(* the application and the network do.                                     *)
THEOREM Invariance == Spec => []Inv
<1>1. ASSUME Init PROVE Inv
  <2>1. Fields
    BY <1>1 DEF Init, Fields, Phases
  <2>2. Flags
    BY <1>1 DEF Init, Flags
  <2>3. Parts
    BY <1>1 DEF Init, Parts, ChainShape, AtParts, IdleParts, DataParts, EscapeParts,
                StartupParts, Quiet, Listens, IsIdle, IsEmpty, Done
  <2> QED  BY <2>1, <2>2, <2>3, TypeSplit DEF Inv
<1>2. ASSUME Inv, UNCHANGED vars PROVE Inv'
  BY <1>2 DEF vars, engineVars, startVars, flagVars, workVars, Inv, TypeOK, Parts,
              ChainShape, AtParts, IdleParts, DataParts, EscapeParts, StartupParts,
              Quiet, Listens, IsIdle, IsEmpty, Done
<1>3. Inv /\ [Next]_vars => Inv'
  BY <1>2, SwitchKeeps, TailKeeps, EnvKeeps DEF Next
<1> QED  BY <1>1, <1>3, PTL DEF Spec

(* The phases and flags of the main task stay among those that its cases   *)
(* handle.                                                                 *)
THEOREM TypeCorrect == Spec => []TypeOK
<1>1. Inv => TypeOK
  BY DEF Inv
<1> QED  BY Invariance, <1>1, PTL

(* Messages, calls and sleep never talk AT commands into a data link.      *)
THEOREM AtPartsInCommandModeHolds == Spec => []AtPartsInCommandMode
<1>1. Inv => AtPartsInCommandMode
  BY DEF Inv, Parts, AtParts, Quiet, AtPartsInCommandMode
<1> QED  BY Invariance, <1>1, PTL

(* DATACALL, in which the engine does not run, is entered with a dial-up   *)
(* that stands and no command under way.                                   *)
THEOREM DataCallRestsHolds == Spec => []DataCallRests
<1>1. Inv => DataCallRests
  BY DEF Inv, Parts, DataParts, DataCallRests
<1> QED  BY Invariance, <1>1, PTL
=============================================================================
