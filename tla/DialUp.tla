------------------------------- MODULE DialUp -------------------------------
(***************************************************************************)
(* ampm_gsm/ampm_gsm_dial_up.c inside the loop of AMPM_GSM_MainTask: the   *)
(* chain of AT commands that ends in the dial command, composed with the   *)
(* command engine.                                                         *)
(*                                                                         *)
(* One iteration of the loop is the switch on the task phase and then one  *)
(* call of Ampm_Cmd_Task; "turn" says which of the two comes next.  The    *)
(* dial-up only polls the phase of the engine, so what it sees depends on  *)
(* that order.  The phases of the main task other than DIAL_UP are one     *)
(* state here, "else", in which other parts of the program use the engine. *)
(***************************************************************************)
EXTENDS AtCmdEngine, Sequences

CONSTANT DialChain    \* dialupCmdProcess_0 .. dialupCmdProcess_4

ASSUME ChainAssumption ==
  /\ DialChain \in Seq(Cmd) /\ DialChain # <<>>
  /\ \A i \in 1 .. Len(DialChain) :
       /\ nextCmd[DialChain[i]] =
            IF i = Len(DialChain) THEN None ELSE DialChain[i + 1]
       /\ sendCb[DialChain[i]] = {"send"}
       /\ endCb[DialChain[i]] = [o \in Outcome |-> {"done"}]

VARIABLES
  turn,            \* what the main loop does next
  main,            \* ampmGSM_TaskPhase: DIAL_UP, or anything else
  dialupPhase,     \* ampmGsmDialupPhase
  dialupTryCnt,
  ModemResetFlag,  \* ampm_ModemResetFlag
  acked,           \* history: commands answered OK since the chain was loaded
  failed,          \* history: one of its commands has failed
  after            \* history: commands of the chain loaded after that failure

dialVars == <<turn, main, dialupPhase, dialupTryCnt, ModemResetFlag, acked,
              failed, after>>
allVars == <<engineVars, dialVars>>

MaxTry == 5
InChain == {DialChain[i] : i \in 1 .. Len(DialChain)}

DialTypeOK ==
  /\ TypeOK
  /\ turn \in {"switch", "engine"}
  /\ main \in {"else", "dial"}
  /\ dialupPhase \in {"START", "RUNING", "OK", "FAIL"}
  /\ dialupTryCnt \in 0 .. MaxTry
  /\ ModemResetFlag \in BOOLEAN
  /\ acked \in SUBSET InChain
  /\ failed \in BOOLEAN
  /\ after \in Nat

DialInit ==
  /\ Init
  /\ turn = "switch"
  /\ main = "else"
  /\ dialupPhase = "START"
  /\ dialupTryCnt = 0
  /\ ModemResetFlag = FALSE
  /\ acked = {}
  /\ failed = FALSE
  /\ after = 0

-----------------------------------------------------------------------------
(* The switch of the main loop, outside DIAL_UP.                           *)

\* The top of the loop and the INIT phase, when a reset is asked for: in any
\* phase, DIAL_UP too.
MainInit ==
  /\ turn = "switch"
  /\ ModemResetFlag
  /\ ModemResetFlag' = FALSE
  /\ ForceOk
  /\ main' = "else"
  /\ dialupPhase' = "START"
  /\ turn' = "engine"
  /\ UNCHANGED <<dialupTryCnt, acked, failed, after>>

\* GOTO_DATA_MODE without a link: Ampm_GSM_DialUp_Reset, then DIAL_UP.
MainDials ==
  /\ turn = "switch"
  /\ ~ModemResetFlag
  /\ main = "else"
  /\ main' = "dial"
  /\ dialupPhase' = "START"
  /\ failed' = FALSE
  /\ after' = 0
  /\ turn' = "engine"
  /\ UNCHANGED <<engineVars, dialupTryCnt, ModemResetFlag, acked>>

\* Another part of the program sends a command of its own, or nothing; the
\* startup may ask for a modem reset.
MainElse ==
  /\ turn = "switch"
  /\ ~ModemResetFlag
  /\ main = "else"
  /\ (\E c \in Cmd \ InChain : SendCmd(c)) \/ UNCHANGED engineVars
  /\ ModemResetFlag' \in BOOLEAN
  /\ turn' = "engine"
  /\ UNCHANGED <<main, dialupPhase, dialupTryCnt, acked, failed, after>>

-----------------------------------------------------------------------------
(* Ampm_GSM_DialUp and what the DIAL_UP phase makes of it.                 *)

InDialUp(phase) ==
  /\ turn = "switch"
  /\ ~ModemResetFlag
  /\ main = "dial"
  /\ dialupPhase = phase
  /\ turn' = "engine"

\* START, when Ampm_SendAtCmd accepts the first command of the chain.
DialStart ==
  /\ InDialUp("START")
  /\ SendCmd(DialChain[1])
  /\ dialupPhase' = "RUNING"
  /\ acked' = {}
  /\ failed' = FALSE
  /\ after' = 0
  /\ UNCHANGED <<main, dialupTryCnt, ModemResetFlag>>

\* START, when the engine is busy.
DialWaits ==
  /\ InDialUp("START")
  /\ ~IsIdle
  /\ UNCHANGED <<engineVars, main, dialupPhase, dialupTryCnt, ModemResetFlag,
                 acked, failed, after>>

\* A faulty RUNING that takes the first OK for the end of the chain.
ConnectEarly ==
  /\ InDialUp("RUNING")
  /\ CmdPhase = "OK"
  /\ dialupPhase' = "OK"
  /\ dialupTryCnt' = 0
  /\ main' = "else"
  /\ UNCHANGED <<engineVars, ModemResetFlag, acked, failed, after>>

\* RUNING, when the whole chain has gone through: DIAL_UP ends in DATACALL.
DialConnected ==
  /\ InDialUp("RUNING")
  /\ IsEmpty /\ CmdPhase = "OK"
  /\ dialupPhase' = "OK"
  /\ dialupTryCnt' = 0
  /\ main' = "else"
  /\ UNCHANGED <<engineVars, ModemResetFlag, acked, failed, after>>

\* A faulty RUNING that lets the chain run to its end before it counts the
\* failure.
FailAtEnd ==
  /\ InDialUp("RUNING")
  /\ CmdPhase = "ERROR"
  /\ IF IsEmpty
       THEN /\ dialupTryCnt' = (dialupTryCnt + 1) % (MaxTry + 1)
            /\ dialupPhase' = "START"
       ELSE UNCHANGED <<dialupTryCnt, dialupPhase>>
  /\ UNCHANGED <<engineVars, main, ModemResetFlag, acked, failed, after>>

\* A faulty RUNING that never gives up.
FailForEver ==
  /\ InDialUp("RUNING")
  /\ CmdPhase = "ERROR"
  /\ dialupTryCnt' = 0
  /\ dialupPhase' = "START"
  /\ UNCHANGED <<engineVars, main, ModemResetFlag, acked, failed, after>>

\* A faulty RUNING that counts one failure too many.
FailLate ==
  /\ InDialUp("RUNING")
  /\ CmdPhase = "ERROR"
  /\ IF dialupTryCnt > MaxTry
       THEN /\ dialupTryCnt' = 0
            /\ ModemResetFlag' = TRUE
            /\ dialupPhase' = "FAIL"
            /\ main' = "else"
       ELSE /\ dialupTryCnt' = dialupTryCnt + 1
            /\ dialupPhase' = "START"
            /\ UNCHANGED <<main, ModemResetFlag>>
  /\ UNCHANGED <<engineVars, acked, failed, after>>

\* RUNING, when a command of the chain has failed: "dialupTryCnt++ >= 5".
DialFailed ==
  /\ InDialUp("RUNING")
  /\ CmdPhase = "ERROR"
  /\ IF dialupTryCnt >= MaxTry
       THEN /\ dialupTryCnt' = 0
            /\ ModemResetFlag' = TRUE
            /\ dialupPhase' = "FAIL"
            /\ main' = "else"
       ELSE /\ dialupTryCnt' = dialupTryCnt + 1
            /\ dialupPhase' = "START"
            /\ UNCHANGED <<main, ModemResetFlag>>
  /\ UNCHANGED <<engineVars, acked, failed, after>>

\* RUNING, while the chain is on its way.
DialRuns ==
  /\ InDialUp("RUNING")
  /\ CmdPhase # "ERROR"
  /\ ~(IsEmpty /\ CmdPhase = "OK")
  /\ UNCHANGED <<engineVars, main, dialupPhase, dialupTryCnt, ModemResetFlag,
                 acked, failed, after>>

Switch ==
  \/ MainInit \/ MainDials \/ MainElse
  \/ DialStart \/ DialWaits \/ DialConnected \/ DialFailed \/ DialRuns

-----------------------------------------------------------------------------
(* The call of Ampm_Cmd_Task that follows the switch.  Without an answer,  *)
(* before a timeout, or with nothing left to send it changes nothing.      *)

EngineIdles ==
  /\ \/ CmdPhase \in {"SEND", "WAIT", "DELAY"} /\ timer = "running"
     \/ IsIdle /\ IsEmpty
  /\ UNCHANGED engineVars

EngineTurn ==
  /\ turn = "engine"
  /\ turn' = "switch"
  /\ Cmd_Task \/ EngineIdles
  /\ acked' = IF CmdPhase = "DELAY" /\ CmdPhase' = "OK" /\ cmdSend \in InChain
                THEN acked \cup {cmdSend} ELSE acked
  /\ failed' = (failed \/ (CmdPhase = "GOTO_ERROR" /\ cmdSend \in InChain))
  /\ after' = IF failed /\ IsIdle /\ CmdPhase' = "SEND" /\ cmdSend' \in InChain
                THEN after + 1 ELSE after
  /\ UNCHANGED <<main, dialupPhase, dialupTryCnt, ModemResetFlag>>

DialExpire == Expire /\ UNCHANGED dialVars

DialNext == Switch \/ EngineTurn \/ DialExpire

(* The loop runs for ever and so does the system tick: an answer that never*)
(* comes ends in a timeout.                                                *)
DialSpec ==
  /\ DialInit
  /\ [][DialNext]_allVars
  /\ WF_allVars(Switch)
  /\ WF_allVars(EngineTurn)
  /\ WF_allVars(DialExpire)

-----------------------------------------------------------------------------
(* When the dial-up reports OK, every command of the chain was answered OK *)
(* since the chain was last started, although the dial-up only looks at the*)
(* phase of the engine and an error there lasts for one turn of the loop.  *)
ConnectedMeansAllAcked ==
  [][dialupPhase # "OK" /\ dialupPhase' = "OK" => acked = InChain]_allVars

(* The engine goes on with a chain whatever the outcome of its commands.   *)
(* Within a dial-up, at most one more command of a failed chain is sent: in*)
(* the gap behind it the dial-up starts the chain over.  (The dial command *)
(* itself is the last one: a long tail would connect behind the dial-up's  *)
(* back.)                                                                  *)
OneAfterFailure == main = "dial" => after <= 1

(* Every dial-up ends, in a connection or in a request for a modem reset.  *)
DialEnds == main = "dial" ~> main = "else"
=============================================================================
