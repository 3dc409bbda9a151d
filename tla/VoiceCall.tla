------------------------------ MODULE VoiceCall ------------------------------
(***************************************************************************)
(* ampm_gsm/ampm_gsm_call.c: the calls the application sets up, the call    *)
(* that comes in, and the chain of commands that carries either through.   *)
(*                                                                         *)
(* One iteration of the main loop is the switch on its phase, a step of the*)
(* engine, and once a second the periodic, in this order: "turn".  The      *)
(* application calls from threads of its own, between any two of them.     *)
(*                                                                         *)
(* The commands are taken at the grain AtCmdEngine justifies: each ends in *)
(* OK or in ERROR, and the chain goes on.  What +CLCC reports is an input. *)
(***************************************************************************)
EXTENDS Integers, Sequences, SequencesExt

CONSTANTS
  Call,          \* the CALL_LIST_TYPE blocks of the application
  In,            \* incomingCall
  Actions,       \* bound: the actions the application asks for
  Tries,         \* tryNum of a call
  Reload,        \* timeoutReload of a call, and of the incoming one
  MaxIncoming    \* bound: calls that come in

ASSUME CallAssumption ==
  /\ In \notin Call
  /\ Actions \subseteq {"NONE", "WHEN_ALERTING", "WHEN_ACTIVE", "AFTER_ACTIVE", "PICKUP"}
  /\ Tries \in Nat /\ Reload \in Nat \ {0} /\ MaxIncoming \in Nat

AllCalls == Call \cup {In}

VARIABLES
  turn,          \* what the loop does next
  main,          \* ampmGSM_TaskPhase: IDLE, VOICECALL, or anything else
  callList,
  state, response, action, timeout,   \* members of the calls
  tryNum,
  voiceCall,     \* the call the chain works on
  chain,         \* the command of the chain the engine works on
  gotList,       \* gotListOfCurrentCall
  listIsEmpty,   \* callListIsEmpty
  delay,         \* tCallDelayTimeout is running
  running,       \* callTaskIsRunningCnt
  came,          \* bound: calls that came in
  dialled,       \* history: dial commands for the call since it was set up
  released,      \* history: hung up, or seen to be over, since the chain began
  taken,         \* history: the call task has not run since IDLE took the incoming call
  lost           \* history: calls that a start of the modem took off the list

blockVars == <<state, response, action, timeout, tryNum>>
chainVars == <<voiceCall, chain, gotList, listIsEmpty, released>>
loopVars  == <<turn, main, delay, running, came, taken>>
vars == <<callList, blockVars, chainVars, loopVars, dialled, lost>>

Chains == {"idle", "setup", "ATM", "ATD", "CLCC", "ATA", "CHLD_1X", "CHLD",
           "CEER", "end"}

\* The members of CALL_STATE_RESPONSE that +CLCC can report, of a call that is not over.
Reported == {"ACTIVE", "HELD", "DIALING", "ALERTING", "INCOMING", "WAITING"}

TypeOK ==
  /\ turn \in {"switch", "engine", "timer"}
  /\ main \in {"idle", "call", "else"}
  /\ callList \in Seq(Call) /\ IsInjective(callList)
  /\ state \in [AllCalls -> Reported \cup {"START", "ENDED"}]
  /\ response \in [AllCalls -> {"NONE", "FAILED", "SUCCESS"}]
  /\ action \in [AllCalls -> Actions \cup {"NONE", "PICKUP", "NOW"}]
  /\ timeout \in [AllCalls -> 0 .. Reload]
  /\ tryNum \in [Call -> 0 .. Tries]
  /\ voiceCall \in AllCalls
  /\ chain \in Chains
  /\ running \in 0 .. 1
  /\ came \in 0 .. MaxIncoming
  /\ dialled \in [Call -> Nat]
  /\ lost \subseteq Call
  /\ {gotList, listIsEmpty, delay, released, taken} \subseteq BOOLEAN

\* After the startup, in which the periodic has run.
Init ==
  /\ turn = "switch" /\ main = "idle"
  /\ callList = <<>>
  /\ state = [c \in AllCalls |-> "ENDED"]
  /\ response = [c \in AllCalls |-> "NONE"]
  /\ action = [c \in AllCalls |-> "NONE"]
  /\ timeout = [c \in AllCalls |-> 0]
  /\ tryNum = [c \in Call |-> 0]
  /\ voiceCall = In /\ chain = "idle"
  /\ gotList = FALSE /\ listIsEmpty = FALSE
  /\ delay = FALSE /\ running = 0
  /\ came = 0 /\ dialled = [c \in Call |-> 0] /\ released = TRUE
  /\ taken = FALSE /\ lost = {}

InList(c) == \E i \in DOMAIN callList : callList[i] = c

-----------------------------------------------------------------------------
(* The application.                                                        *)

\* Ampm_VoiceCallSetup, of a block that is not in the list: one that was
\* never set up.
Setup(c, a) ==
  /\ tryNum[c] = 0 /\ dialled[c] = 0      \* bound: set up once
  /\ ~InList(c) /\ action[c] # "NOW"
  /\ response' = [response EXCEPT ![c] = "NONE"]
  /\ action' = [action EXCEPT ![c] = a]
  /\ timeout' = [timeout EXCEPT ![c] = 0]
  /\ state' = [state EXCEPT ![c] = "START"]
  /\ tryNum' = [tryNum EXCEPT ![c] = Tries]
  /\ callList' = Append(callList, c)
  /\ UNCHANGED <<chainVars, loopVars, dialled, lost>>

\* Ampm_VoiceCallCancel.
Cancel(c) ==
  /\ action[c] # "NOW"
  /\ c \in Call => state[c] # "ENDED" \/ InList(c)
  /\ action' = [action EXCEPT ![c] = "NOW"]
  /\ \/ ~InList(c) /\ UNCHANGED callList
     \/ \E i \in DOMAIN callList : callList[i] = c /\ callList' = RemoveAt(callList, i)
  /\ UNCHANGED <<state, response, timeout, tryNum, chainVars, loopVars, dialled,
                 lost>>

\* Ampm_VoiceCallSetAction, of the call that comes in.
SetAction ==
  /\ action[In] = "NONE"
  /\ action' = [action EXCEPT ![In] = "PICKUP"]
  /\ UNCHANGED <<callList, state, response, timeout, tryNum, chainVars, loopVars,
                 dialled, lost>>

App ==
  \/ \E c \in Call, a \in Actions : Setup(c, a)
  \/ \E c \in AllCalls : Cancel(c)
  \/ SetAction

-----------------------------------------------------------------------------
(* The switch of the main loop.                                            *)

AtSwitch(p) ==
  /\ turn = "switch" /\ turn' = "engine"
  /\ main = p

\* The end of IDLE, which has asked for phase p: gotoDataModeFlag, left over
\* from a data mode that was not entered, overrides the request.
IdleEnd(p) == main' \in {p, "else"}

\* IDLE with a call that comes in: Ampm_VoiceCallStartRecvCall.
IdleTakes ==
  /\ AtSwitch("idle")
  /\ came < MaxIncoming /\ came' = came + 1
  /\ action' = [action EXCEPT ![In] = "NONE"]
  /\ response' = [response EXCEPT ![In] = "NONE"]
  /\ timeout' = [timeout EXCEPT ![In] = Reload]
  /\ state' = [state EXCEPT ![In] = "START"]
  /\ IdleEnd("call")
  /\ taken' = TRUE
  /\ UNCHANGED <<callList, tryNum, chainVars, delay, running, dialled, lost>>

IdleCallsOut ==
  /\ AtSwitch("idle")
  /\ callList # <<>>
  /\ IdleEnd("call")
  /\ UNCHANGED <<callList, blockVars, chainVars, delay, running, came, taken,
                 dialled, lost>>

\* IDLE goes on to something else, or stays.
IdleLeaves ==
  /\ AtSwitch("idle")
  /\ main' = "else"
  /\ UNCHANGED <<callList, blockVars, chainVars, delay, running, came, taken,
                 dialled, lost>>

\* Any other phase; nothing says that IDLE ever comes back.
ElseCase ==
  /\ AtSwitch("else")
  /\ main' \in {"else", "idle"}
  /\ UNCHANGED <<callList, blockVars, chainVars, delay, running, came, taken,
                 dialled, lost>>

\* INIT, when the modem is started over: Ampm_CallTask_Init empties the list,
\* and tells nobody.
StartOver ==
  /\ AtSwitch("else")
  /\ main' = "else"
  /\ callList' = <<>>
  /\ lost' = lost \cup {c \in Call : InList(c)}
  /\ UNCHANGED <<blockVars, chainVars, delay, running, came, taken, dialled>>

Eligible(c) == response[c] # "SUCCESS" /\ tryNum[c] > 0 /\ action[c] # "NOW"

\* A faulty call task, which does not say that it is running.
CallTaskSilent(ready) ==
  /\ AtSwitch("call")
  /\ taken' = FALSE
  /\ UNCHANGED running
  /\ ready <=> chain = "idle" /\ ~delay

\* Every call of Ampm_CallTask says that it is running.
CallTask(ready) ==
  /\ AtSwitch("call")
  /\ running' = 1 /\ taken' = FALSE
  /\ ready <=> chain = "idle" /\ ~delay

Start(c) ==
  /\ voiceCall' = c
  /\ chain' = "setup"
  /\ released' = (c \in Call)
  /\ UNCHANGED <<gotList, listIsEmpty>>

CallTaskWaits ==
  /\ CallTask(FALSE)
  /\ UNCHANGED <<callList, blockVars, chainVars, main, delay, came, dialled, lost>>

CallTaskIncoming ==
  /\ CallTask(TRUE)
  /\ state[In] = "START"
  /\ Start(In)
  /\ UNCHANGED <<callList, blockVars, main, delay, came, dialled, lost>>

\* A faulty attempt that is not counted.
AttemptNotCounted ==
  /\ CallTask(TRUE)
  /\ state[In] # "START" /\ callList # <<>>
  /\ LET c == Head(callList) IN
       /\ Eligible(c)
       /\ timeout' = [timeout EXCEPT ![c] = Reload]
       /\ state' = [state EXCEPT ![c] = "START"]
       /\ Start(c)
  /\ delay' = TRUE
  /\ UNCHANGED <<callList, response, action, tryNum, main, came, dialled, lost>>

\* An attempt on the first call of the list.
CallTaskAttempt ==
  /\ CallTask(TRUE)
  /\ state[In] # "START" /\ callList # <<>>
  /\ LET c == Head(callList) IN
       /\ Eligible(c)
       /\ timeout' = [timeout EXCEPT ![c] = Reload]
       /\ tryNum' = [tryNum EXCEPT ![c] = @ - 1]
       /\ state' = [state EXCEPT ![c] = "START"]
       /\ Start(c)
  /\ delay' = TRUE
  /\ UNCHANGED <<callList, response, action, main, came, dialled, lost>>

\* A call that is done with leaves the list: one in a call of Ampm_CallTask,
\* since list_remove takes its next one away.
CallTaskRemove ==
  /\ CallTask(TRUE)
  /\ state[In] # "START" /\ callList # <<>>
  /\ ~Eligible(Head(callList))
  /\ state' = [state EXCEPT ![Head(callList)] = "ENDED"]
  /\ callList' = Tail(callList)
  /\ UNCHANGED <<response, action, timeout, tryNum, chainVars, main, delay, came,
                 dialled, lost>>

CallTaskDone ==
  /\ CallTask(TRUE)
  /\ state[In] # "START" /\ callList = <<>>
  /\ main' = "idle"
  /\ UNCHANGED <<callList, blockVars, chainVars, delay, came, dialled, lost>>

Switch ==
  \/ IdleTakes \/ IdleCallsOut \/ IdleLeaves \/ ElseCase \/ StartOver
  \/ CallTaskWaits \/ CallTaskIncoming \/ CallTaskAttempt \/ CallTaskRemove
  \/ CallTaskDone

-----------------------------------------------------------------------------
(* The engine: each action is the end of a command.                        *)

Turn ==
  /\ turn = "engine" /\ turn' = "timer"
  /\ UNCHANGED <<main, running, came, taken, lost>>

At(cmd) == Turn /\ chain = cmd /\ UNCHANGED callList

EndSetup ==
  /\ At("setup")
  /\ chain' = "ATM"
  /\ UNCHANGED <<blockVars, voiceCall, gotList, listIsEmpty, released, delay, dialled>>

\* Ampm_GsmATM1EndCallback: an incoming call is not dialled.  The dial
\* command follows, or an AT when the call was cancelled
\* (Ampm_GsmCallDialStartCallback).
EndATM ==
  /\ At("ATM")
  /\ IF state[In] = "START"
       THEN voiceCall' = In /\ chain' = "CLCC" /\ UNCHANGED dialled
       ELSE /\ chain' = "ATD"
            /\ dialled' = IF voiceCall \in Call /\ action[voiceCall] # "NOW"
                            THEN [dialled EXCEPT ![voiceCall] = @ + 1] ELSE dialled
            /\ UNCHANGED voiceCall
  /\ released' = (released /\ chain' # "ATD")
  /\ UNCHANGED <<blockVars, gotList, listIsEmpty, delay>>

\* A faulty end of the dial command that keeps the flags of the last call.
DialEndKeepsFlags ==
  \E ok \in BOOLEAN :
    /\ At("ATD")
    /\ IF ~ok \/ action[voiceCall] = "NOW"
         THEN /\ response' = [response EXCEPT ![voiceCall] = "FAILED"]
              /\ chain' = "CHLD_1X"
         ELSE chain' = "CLCC" /\ UNCHANGED response
    /\ UNCHANGED <<state, action, timeout, tryNum, voiceCall, released, delay,
                   dialled, gotList, listIsEmpty>>

\* Ampm_GsmCallDialEndCallback.
EndATD ==
  \E ok \in BOOLEAN :
    /\ At("ATD")
    /\ IF ~ok \/ action[voiceCall] = "NOW"
         THEN /\ response' = [response EXCEPT ![voiceCall] = "FAILED"]
              /\ chain' = "CHLD_1X"
         ELSE chain' = "CLCC" /\ UNCHANGED response
    /\ gotList' = FALSE /\ listIsEmpty' = FALSE
    /\ UNCHANGED <<state, action, timeout, tryNum, voiceCall, released, delay,
                   dialled>>

\* While +CLCC runs: a line of the list, or the answer that it is empty.
ClccLine ==
  /\ turn = "engine" /\ chain = "CLCC"
  /\ \/ gotList' = TRUE /\ UNCHANGED <<listIsEmpty, released>>
     \/ listIsEmpty' = TRUE /\ released' = TRUE /\ UNCHANGED gotList
  /\ UNCHANGED <<callList, blockVars, voiceCall, chain, loopVars, dialled, lost>>

\* What the action of the call makes of its state s: the next command, and
\* whether the call has succeeded.  late: callAlertingTimeout, callTimeout.
Decide(s, late) ==
  CASE action[voiceCall] = "WHEN_ALERTING"
         /\ (s \in {"ACTIVE", "INCOMING"} \/ (s = "ALERTING" /\ late))
                                                    -> <<"CHLD_1X", "SUCCESS">>
    [] action[voiceCall] = "WHEN_ACTIVE" /\ s = "ACTIVE"
                                                    -> <<"CHLD_1X", "SUCCESS">>
    [] action[voiceCall] = "AFTER_ACTIVE" /\ s = "ALERTING" /\ late
                                                    -> <<"CHLD_1X", "SUCCESS">>
    [] action[voiceCall] = "PICKUP" /\ s = "INCOMING"
                                                    -> <<"ATA", response[voiceCall]>>
    [] action[voiceCall] = "NOW"
         -> <<IF gotList \/ s = "ACTIVE" THEN "CHLD_1X" ELSE "CHLD", "FAILED">>
    [] OTHER                                        -> <<"CLCC", response[voiceCall]>>

\* Ampm_GsmVoiceCallCheckStateEndCallback, when the time of the call is over.
ClccTimeout ==
  /\ At("CLCC")
  /\ timeout[voiceCall] = 0
  /\ response' = [response EXCEPT ![voiceCall] = "FAILED"]
  /\ chain' = "CHLD"
  /\ UNCHANGED <<state, action, timeout, tryNum, voiceCall, gotList, listIsEmpty,
                 released, delay, dialled>>

\* The same, with a list: the state of the call is what the list says.
ClccState ==
  \E s \in Reported, late \in BOOLEAN :
    /\ At("CLCC")
    /\ timeout[voiceCall] > 0 /\ gotList
    /\ s = "INCOMING" => voiceCall = In
    /\ state' = [state EXCEPT ![voiceCall] = s]
    /\ chain' = Decide(s, late)[1]
    /\ response' = [response EXCEPT ![voiceCall] = Decide(s, late)[2]]
    /\ gotList' = FALSE /\ listIsEmpty' = FALSE
    /\ UNCHANGED <<action, timeout, tryNum, voiceCall, released, delay, dialled>>

\* The same, when the list shows that the call is over: the flag stays.
ClccEnded ==
  /\ At("CLCC")
  /\ timeout[voiceCall] > 0 /\ gotList
  /\ state' = [state EXCEPT ![voiceCall] = "ENDED"]
  /\ chain' = "CHLD_1X"
  /\ listIsEmpty' = FALSE
  /\ UNCHANGED <<response, action, timeout, tryNum, voiceCall, gotList, released,
                 delay, dialled>>

\* The same, when the list shows a call that comes in instead of the one that
\* was dialled: the chain goes over to it, with the members it happens to have.
ClccTakenOver ==
  /\ At("CLCC")
  /\ timeout[voiceCall] > 0 /\ gotList
  /\ voiceCall # In
  /\ state' = [state EXCEPT ![voiceCall] = "ENDED"]
  /\ voiceCall' = In
  /\ chain' = CASE action[In] = "PICKUP" /\ state[In] = "INCOMING" -> "ATA"
                [] action[In] = "NOW"                             -> "CHLD_1X"
                [] OTHER                                          -> "CLCC"
  /\ response' = [response EXCEPT ![voiceCall] = "FAILED",
                    ![In] = IF action[In] = "NOW" THEN "FAILED" ELSE @]
  /\ gotList' = FALSE /\ listIsEmpty' = FALSE
  /\ UNCHANGED <<action, timeout, tryNum, released, delay, dialled>>

\* The same, after ERROR or without a list.
ClccNoState ==
  \E late \in BOOLEAN :
    /\ At("CLCC")
    /\ timeout[voiceCall] > 0
    /\ IF ~gotList /\ listIsEmpty
         THEN chain' = "CEER" /\ UNCHANGED <<response, gotList>>
         ELSE LET d == Decide(state[voiceCall], late) IN
                /\ chain' = d[1]
                /\ response' = [response EXCEPT ![voiceCall] = d[2]]
                /\ gotList' = FALSE
    /\ UNCHANGED <<state, action, timeout, tryNum, voiceCall, listIsEmpty, released,
                   delay, dialled>>

EndATA ==
  /\ At("ATA")
  /\ chain' = "CLCC"
  /\ UNCHANGED <<blockVars, voiceCall, gotList, listIsEmpty, released, delay, dialled>>

\* CHLD_1X, whose send callback ends the call, or CHLD.
EndCHLD ==
  /\ Turn /\ chain \in {"CHLD_1X", "CHLD"} /\ UNCHANGED callList
  /\ state' = IF chain = "CHLD_1X" THEN [state EXCEPT ![voiceCall] = "ENDED"] ELSE state
  /\ chain' = "end"
  /\ released' = TRUE
  /\ UNCHANGED <<response, action, timeout, tryNum, voiceCall, gotList, listIsEmpty,
                 delay, dialled>>

\* Ampm_GsmVoiceCallCheckCeerEndCallback; a cause is reported or not.
EndCEER ==
  /\ At("CEER")
  /\ response' \in {response, [response EXCEPT ![voiceCall] =
                                 IF @ = "NONE" THEN "FAILED" ELSE @]}
  /\ state' = [state EXCEPT ![voiceCall] = "ENDED"]
  /\ chain' = "end"
  /\ UNCHANGED <<action, timeout, tryNum, voiceCall, gotList, listIsEmpty, released,
                 delay, dialled>>

\* Ampm_GsmCallEndCallback.
EndEnd ==
  /\ At("end")
  /\ state' = [state EXCEPT ![voiceCall] = "ENDED"]
  /\ chain' = "idle"
  /\ delay' = TRUE
  /\ UNCHANGED <<response, action, timeout, tryNum, voiceCall, gotList, listIsEmpty,
                 released, dialled>>

Command ==
  \/ EndSetup \/ EndATM \/ EndATD
  \/ ClccTimeout \/ ClccState \/ ClccEnded \/ ClccTakenOver \/ ClccNoState
  \/ EndATA \/ EndCHLD \/ EndCEER \/ EndEnd

EngineWaits ==
  /\ Turn
  /\ UNCHANGED <<callList, blockVars, chainVars, delay, dialled>>

-----------------------------------------------------------------------------
(* Ampm_CallTaskPeriodic_1Sec, when a second is over.                      *)

\* A faulty count that does not stop at 0.
CountsBelowZero(t, c) == IF c = In \/ InList(c) THEN t - 1 ELSE t

Countdown(t, c) ==
  IF c = In \/ InList(c) THEN (IF t > 0 THEN t - 1 ELSE 0) ELSE t

\* A faulty periodic that does not count the time of the calls in the list.
PeriodicInOnly ==
  /\ turn = "timer" /\ turn' = "switch"
  /\ IF running > 0
       THEN running' = running - 1 /\ UNCHANGED state
       ELSE state' = [state EXCEPT ![In] = "ENDED"] /\ UNCHANGED running
  /\ timeout' = [timeout EXCEPT ![In] = IF @ > 0 THEN @ - 1 ELSE 0]
  /\ UNCHANGED <<callList, response, action, tryNum, chainVars, main, delay, came,
                 taken, dialled, lost>>

\* A faulty periodic that counts down before it looks.
PeriodicCountsFirst ==
  /\ turn = "timer" /\ turn' = "switch"
  /\ running' = 0
  /\ state' = [state EXCEPT ![In] = "ENDED"]
  /\ timeout' = [c \in AllCalls |-> Countdown(timeout[c], c)]
  /\ UNCHANGED <<callList, response, action, tryNum, chainVars, main, delay, came,
                 taken, dialled, lost>>

Periodic ==
  /\ turn = "timer" /\ turn' = "switch"
  /\ IF running > 0
       THEN running' = running - 1 /\ UNCHANGED state
       ELSE state' = [state EXCEPT ![In] = "ENDED"] /\ UNCHANGED running
  /\ timeout' = [c \in AllCalls |-> Countdown(timeout[c], c)]
  /\ UNCHANGED <<callList, response, action, tryNum, chainVars, main, delay, came,
                 taken, dialled, lost>>

NoSecond ==
  /\ turn = "timer" /\ turn' = "switch"
  /\ UNCHANGED <<callList, blockVars, chainVars, main, delay, running, came, taken,
                 dialled, lost>>

\* tCallDelayTimeout expires.
DelayOver ==
  /\ delay /\ delay' = FALSE
  /\ UNCHANGED <<callList, blockVars, chainVars, turn, main, running, came, taken,
                 dialled, lost>>

-----------------------------------------------------------------------------
Next ==
  \/ App \/ Switch \/ Command \/ ClccLine \/ EngineWaits
  \/ Periodic \/ NoSecond \/ DelayOver

Spec == Init /\ [][Next]_vars

(* The loop never stops, the seconds pass, and AtCmdEngine ends every      *)
(* command.  Nothing is assumed of IDLE: SLEEP and the data mode need never*)
(* be left, and IDLE may be overridden.                                    *)
FairSpec ==
  /\ Spec
  /\ WF_vars(Switch) /\ WF_vars(EngineWaits \/ Command)
  /\ WF_vars(Periodic \/ NoSecond)
  /\ SF_vars(Command) /\ SF_vars(Periodic) /\ WF_vars(DelayOver)

-----------------------------------------------------------------------------
(* The command that dials is never sent for the incoming call, which has no*)
(* number: the chain that it shares with the calls to make is left before  *)
(* because the call is still in its first state, and the periodic, which   *)
(* ends it when the call task does not run, never does so in between.      *)
DialsANumber == chain = "ATD" => voiceCall # In

(* Each try dials at most once, whatever takes the chain over meanwhile.   *)
OneDialPerTry == \A c \in Call : dialled[c] > 0 => dialled[c] + tryNum[c] <= Tries

(* Once the call task has come to an incoming call in its first state, the *)
(* periodic leaves it alone: the call is ended by the chain that looks     *)
(* after it, by hanging up or because the modem says that it is over.      *)
(* Until then the periodic may end it: at once, in the iteration in which  *)
(* IDLE took it, or when IDLE was overridden and VOICECALL does not come,  *)
(* iterations later.                                                       *)
TakenIsLookedAfter ==
  [][state[In] = "START" /\ state'[In] = "ENDED"
       => \/ chain \in {"CHLD_1X", "CEER", "end"}
          \/ chain = "CLCC" /\ chain' = "CHLD_1X"
          \/ taken]_vars

(* The chain of a call that was dialled comes to rest when it was hung up  *)
(* or the modem has said that there is no call: the flags it decides on are*)
(* those of this call.  (Those of an incoming call may be of the last one.)*)
HungUpAtRest ==
  [][chain = "end" /\ chain' = "idle" /\ voiceCall \in Call => released]_vars

(* A call that was set up leaves the list, and its caller can tell: it is  *)
(* over, or he has cancelled it, or it was lost when the modem was started *)
(* over.  This is if VOICECALL comes again and again while the call waits, *)
(* which the main task does not promise.                                   *)
Told(c) == state[c] = "ENDED" \/ action[c] = "NOW" \/ c \in lost
CallsLeave ==
  \A c \in Call :
    []<>(main = "call" \/ ~InList(c)) => (InList(c) ~> ~InList(c) /\ Told(c))
=============================================================================
