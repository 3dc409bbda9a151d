----------------------------- MODULE DialUpProofs -----------------------------
(***************************************************************************)
(* What the engine of AtCmdEngine promises for every set of commands,      *)
(* chains, numbers of resends and end callbacks; and what the dial-up of   *)
(* DialUp makes of it, for a chain of any length.                          *)
(*                                                                         *)
(* The properties of the engine are not inductive: they speak of the end of*)
(* a command and hold because of how the counters stand in each phase      *)
(* before it.  Inv says how: in SEND each transmission has used one resend;*)
(* in WAIT and RESEND one more transmission has been made; in GOTO_ERROR   *)
(* none is left.  In the idle phases only what was told counts, because the*)
(* main task may have forced the phase there.                              *)
(***************************************************************************)
EXTENDS DialUp, TLAPS, FiniteSetTheorems

Busy == ~IsIdle

Loaded == Busy => cmdSend \in Cmd

Counted ==
  cmdSend \in Cmd =>
    /\ Tries + retry <= retryNum[cmdSend] + 1
    /\ retry <= retryNum[cmdSend]
    /\ CmdPhase = "SEND" => Tries + retry = retryNum[cmdSend]
    /\ CmdPhase \in {"WAIT", "RESEND"} => Tries + retry = retryNum[cmdSend] + 1
    /\ CmdPhase = "GOTO_ERROR" => retry = 0 /\ Tries = retryNum[cmdSend] + 1
    /\ CmdPhase = "DELAY" => answered /\ (sent > 0 \/ skipped)

Told ==
  /\ told \in {{}, {"OK"}, {"ERROR"}}
  /\ told # {} => CmdPhase \in {"DELAY", "GOTO_ERROR"} \cup IdlePhase
  /\ CmdPhase = "DELAY" => told \subseteq {"OK"}
  /\ CmdPhase = "GOTO_ERROR" => told \subseteq {"ERROR"}
  /\ told # {} => cmdSend \in Cmd

Inv == TypeOK /\ Loaded /\ Counted /\ Told /\ HonestOutcome

-----------------------------------------------------------------------------
LEMMA InitInv == Init => Inv
<1> SUFFICES ASSUME Init PROVE Inv
  OBVIOUS
<1>1. TypeOK
  BY DEF Init, TypeOK, CmdPhases, IdlePhase
<1>2. Loaded
  BY DEF Init, Loaded, Busy, IsIdle, IdlePhase
<1>3. cmdSend \notin Cmd
  BY CmdAssumption DEF Init
<1>4. Counted
  BY <1>3 DEF Counted
<1>5. Told /\ HonestOutcome
  BY DEF Init, Told, HonestOutcome
<1> QED BY <1>1, <1>2, <1>4, <1>5 DEF Inv

(* Loading a command starts its counters, whatever was loaded before.      *)
LEMMA LoadInv ==
  ASSUME NEW c \in Cmd, Load(c)
  PROVE  Inv'
<1>0. retryNum[c] \in Nat
  BY CmdAssumption
<1>1. TypeOK'
  BY <1>0 DEF Load, TypeOK, CmdPhases
<1>2. Loaded'
  BY DEF Load, Loaded
<1>3. Counted'
  BY <1>0 DEF Load, Counted, Tries
<1>4. Told' /\ HonestOutcome'
  BY DEF Load, Told, HonestOutcome
<1> QED BY <1>1, <1>2, <1>3, <1>4 DEF Inv

(* An end callback is told one outcome only, in the phase of that outcome. *)
LEMMA EndInv ==
  ASSUME Inv, NEW o \in Outcome, NEW r \in EndResult, CaseEnd(o, r)
  PROVE  Inv'
<1>1. CASE r \in Cmd /\ Load(r)
  BY <1>1, LoadInv
<1>2. CASE r \in {"done", "wait", "setok"}
  <2> USE <1>2, CmdAssumption DEF Outcome, CmdPhases, IdlePhase
  <2>1. /\ o \in {"OK", "ERROR"}
        /\ told' = told \cup {o}
        /\ CmdPhase' \in {o, "OK", CmdPhase}
        /\ UNCHANGED <<cmdSend, retry, timer, sent, skipped, answered>>
    BY DEF CaseEnd, Finish
  <2>2. cmdSend \in Cmd
    BY DEF Inv, Loaded, Busy, IsIdle, CaseEnd, EndPhase
  <2>3. TypeOK'
    BY <2>1 DEF Inv, TypeOK
  <2>4. Loaded' /\ Counted'
    BY <2>1, <2>2 DEF Inv, TypeOK, Loaded, Counted, Tries, CaseEnd, EndPhase
  <2>5. told' = {o}
    BY <2>1 DEF Inv, Told, CaseEnd, EndPhase
  <2>6. Told'
    BY <2>1, <2>2, <2>5 DEF Told, CaseEnd, EndPhase
  <2>7. HonestOutcome'
    BY <2>1, <2>2, <2>5 DEF Inv, Counted, HonestOutcome, Tries, CaseEnd, EndPhase
  <2> QED BY <2>3, <2>4, <2>6, <2>7 DEF Inv
<1> QED BY <1>1, <1>2 DEF CaseEnd, Finish, EndResult

(* Every other step keeps the counters of its phase.                       *)
LEMMA NextInv ==
  ASSUME Inv, [Next]_engineVars
  PROVE  Inv'
<1> USE CmdAssumption DEF Outcome, CmdPhases, IdlePhase
<1>1. ASSUME NEW c \in Cmd, SendCmd(c) PROVE Inv'
  BY <1>1, LoadInv DEF SendCmd
<1>2. CASE ForceOk
  BY <1>2 DEF ForceOk, Inv, TypeOK, Loaded, Busy, IsIdle, Counted, Tries,
     Told, HonestOutcome
<1>3. CASE SendTransmits
  BY <1>3 DEF SendTransmits, StepTo, Inv, TypeOK, Loaded, Busy, IsIdle,
     Counted, Tries, Told, HonestOutcome
<1>3a. ASSUME NEW d \in Cmd, SendLoads(d) PROVE Inv'
  <2>1. retryNum[d] \in Nat
    OBVIOUS
  <2>2. TypeOK' /\ Loaded'
    BY <1>3a, <2>1 DEF SendLoads, StepTo, Inv, TypeOK, Loaded, Busy, IsIdle
  <2>3. Tries' = 1
    BY <1>3a DEF SendLoads, Tries
  <2>4. Counted'
    BY <1>3a, <2>1, <2>3 DEF SendLoads, StepTo, Counted
  <2>5. Told' /\ HonestOutcome'
    BY <1>3a DEF SendLoads, StepTo, Told, HonestOutcome
  <2> QED BY <2>2, <2>4, <2>5 DEF Inv
<1>4. CASE CaseResend
  <2>1. cmdSend \in Cmd /\ retryNum[cmdSend] \in Nat
    BY <1>4 DEF CaseResend, Inv, Loaded, Busy, IsIdle
  <2>2. Tries \in Nat /\ Tries' = Tries /\ cmdSend' = cmdSend
    BY <1>4 DEF CaseResend, Inv, TypeOK, Tries
  <2>3. told = {} /\ told' = {}
    BY <1>4 DEF CaseResend, Inv, Told
  <2>4. TypeOK' /\ Loaded'
    BY <1>4 DEF CaseResend, StepTo, Inv, TypeOK, Loaded, Busy, IsIdle
  <2>5. Counted'
    <3>1. retry \in Nat /\ retry <= retryNum[cmdSend]
          /\ Tries + retry = retryNum[cmdSend] + 1
      BY <1>4, <2>1 DEF CaseResend, Inv, TypeOK, Counted
    <3>2. CASE retry > 0
      <4>1. CmdPhase' = "SEND" /\ retry' = retry - 1
        BY <1>4, <3>2 DEF CaseResend, StepTo
      <4>2. Tries + (retry - 1) = retryNum[cmdSend]
        <5> DEFINE n == retryNum[cmdSend]
                   t == Tries
        <5>1. n \in Nat /\ t \in Nat /\ retry \in Nat /\ t + retry = n + 1
          BY <2>1, <2>2, <3>1
        <5> HIDE DEF n, t
        <5>2. t + (retry - 1) = n
          BY <5>1
        <5> QED BY <5>2 DEF n, t
      <4> QED BY <2>1, <2>2, <3>1, <4>1, <4>2 DEF Counted
    <3>3. CASE ~(retry > 0)
      <4>1. CmdPhase' = "GOTO_ERROR" /\ retry' = retry /\ retry = 0
        BY <1>4, <3>1, <3>3 DEF CaseResend, StepTo
      <4> QED BY <2>1, <2>2, <3>1, <4>1 DEF Counted
    <3> QED BY <3>2, <3>3
  <2>6. Told' /\ HonestOutcome'
    BY <2>3 DEF Told, HonestOutcome
  <2> QED BY <2>4, <2>5, <2>6 DEF Inv
<1>5. CASE WaitTimeout
  BY <1>5 DEF WaitTimeout, StepTo, Inv, TypeOK, Loaded, Busy, IsIdle, Counted,
     Tries, Told, HonestOutcome
<1>6. CASE WaitOk
  <2>1. cmdSend \in Cmd /\ retryNum[cmdSend] \in Nat
    BY <1>6 DEF WaitOk, Inv, Loaded, Busy, IsIdle
  <2>2. sent > 0 \/ skipped
    BY <1>6, <2>1 DEF WaitOk, Inv, TypeOK, Counted, Tries
  <2> QED BY <1>6, <2>1, <2>2 DEF WaitOk, StepTo, Inv, TypeOK, Loaded,
     Counted, Tries, Told, HonestOutcome
<1>7. CASE WaitFail
  BY <1>7 DEF WaitFail, StepTo, Inv, TypeOK, Loaded, Busy, IsIdle, Counted,
     Tries, Told, HonestOutcome
<1>8. ASSUME NEW o \in Outcome, NEW r \in EndResult, CaseEnd(o, r) PROVE Inv'
  BY <1>8, EndInv
<1>9. CASE CaseNext
  <2>1. nextCmd[cmdSend] \in Cmd /\ Load(nextCmd[cmdSend])
    BY <1>9 DEF CaseNext, IsEmpty, Next_, Inv, TypeOK
  <2> QED BY <2>1, LoadInv
<1>10. CASE Expire
  BY <1>10 DEF Expire, Inv, TypeOK, Loaded, Busy, IsIdle, Counted, Tries,
     Told, HonestOutcome
<1>11. CASE UNCHANGED engineVars
  BY <1>11 DEF engineVars, Inv, TypeOK, Loaded, Busy, IsIdle, Counted, Tries,
     Told, HonestOutcome
<1> QED
  BY <1>1, <1>2, <1>3, <1>3a, <1>4, <1>5, <1>6, <1>7, <1>8, <1>9, <1>10, <1>11
  DEF Next, Cmd_Task

-----------------------------------------------------------------------------
(* The inductive invariant, from which the theorems below follow.          *)
THEOREM Invariance == Spec => []Inv
BY InitInv, NextInv, PTL DEF Spec

(* Every variable of the engine has its type (sparser.c, Ampm_Cmd_Task).   *)
THEOREM TypeCorrect == Spec => []TypeOK
<1>1. Inv => TypeOK
  BY DEF Inv
<1> QED BY <1>1, Invariance, PTL

(* No command is transmitted more than retryNum + 1 times, and none of its *)
(* transmissions follows a report to its end callback (sparser.c:101-125). *)
THEOREM BoundedResendHolds == Spec => []BoundedResend
<1>1. Inv => BoundedResend
  <2> SUFFICES ASSUME Inv, cmdSend \in Cmd
               PROVE  sent <= retryNum[cmdSend] + 1
    BY DEF Inv, TypeOK, BoundedResend
  <2>1. retryNum[cmdSend] \in Nat
    BY CmdAssumption
  <2> QED BY <2>1 DEF Inv, TypeOK, Counted, Tries
<1> QED BY <1>1, Invariance, PTL

(* OK is reported only for a command the modem accepted, ERROR only after  *)
(* the last resend.                                                        *)
THEOREM HonestOutcomeHolds == Spec => []HonestOutcome
<1>1. Inv => HonestOutcome
  BY DEF Inv
<1> QED BY <1>1, Invariance, PTL

(* No end callback hears of both outcomes of one command.                  *)
THEOREM OneOutcomeHolds == Spec => []OneOutcome
<1>1. Inv => OneOutcome
  <2>1. Cardinality({}) = 0 /\ Cardinality({"OK"}) = 1 /\ Cardinality({"ERROR"}) = 1
    BY FS_EmptySet, FS_Singleton
  <2>2. ASSUME told \in {{}, {"OK"}, {"ERROR"}} PROVE Cardinality(told) <= 1
    BY <2>1, <2>2
  <2> QED BY <2>2 DEF Inv, Told, OneOutcome
<1> QED BY <1>1, Invariance, PTL

-----------------------------------------------------------------------------
(* The engine as its users see it.                                         *)

SeenPhase == IF IsIdle THEN CmdPhase ELSE IF Tries = 0 THEN "SEND" ELSE "WAIT"
SeenVerdict == CASE CmdPhase = "DELAY"      -> "OK"
                 [] CmdPhase = "GOTO_ERROR" -> "ERROR"
                 [] OTHER                   -> "none"

(* What the users see in each phase: a command that has been in WAIT was   *)
(* transmitted, or a send callback stood in for it.                        *)
SeenIn ==
  /\ IsIdle => SeenPhase = CmdPhase /\ SeenVerdict = "none"
  /\ CmdPhase = "SEND" => SeenPhase \in {"SEND", "WAIT"} /\ SeenVerdict = "none"
  /\ CmdPhase \in {"WAIT", "RESEND"} => SeenPhase = "WAIT" /\ SeenVerdict = "none"
  /\ CmdPhase = "DELAY" => SeenPhase = "WAIT" /\ SeenVerdict = "OK"
  /\ CmdPhase = "GOTO_ERROR" => SeenPhase = "WAIT" /\ SeenVerdict = "ERROR"

LEMMA SeenInPhases == Inv => SeenIn
<1> SUFFICES ASSUME Inv PROVE SeenIn
  OBVIOUS
<1>1. ~IsIdle => cmdSend \in Cmd /\ retryNum[cmdSend] \in Nat
  BY CmdAssumption DEF Inv, Loaded, Busy
<1>2. CmdPhase \in {"WAIT", "RESEND", "DELAY", "GOTO_ERROR"} => Tries # 0
  BY <1>1 DEF Inv, TypeOK, Counted, Tries, IsIdle, IdlePhase
<1> QED  BY <1>2 DEF SeenIn, SeenPhase, SeenVerdict, IsIdle, IdlePhase

(* Loading a command, from wherever it is done.                            *)
LEMMA SeenLoad ==
  ASSUME NEW c \in Cmd, Load(c)
  PROVE  SeenPhase' = "SEND" /\ SeenVerdict' = "none" /\ cmdSend' = c
  BY DEF Load, SeenPhase, SeenVerdict, IsIdle, IdlePhase, Tries

(* Every command is transmitted before it is judged, judged once, and told *)
(* to its end callback before it is over (Ampm_Cmd_Task).                  *)
THEOREM EngineIsCommands == Spec => IsCommands
<1> USE DEF SeenPhase, SeenVerdict
<1>1. Init => Seen!Init
  BY DEF Init, Seen!Init, IsIdle, IdlePhase
<1> HIDE DEF SeenPhase, SeenVerdict
<1>2. Inv /\ SeenIn /\ SeenIn' /\ [Next]_engineVars => [Seen!Next]_(Seen!vars)
  <2> SUFFICES ASSUME Inv, SeenIn, SeenIn', [Next]_engineVars
               PROVE  [Seen!Next]_(Seen!vars)
    OBVIOUS
  <2> DEFINE Same == SeenPhase' = SeenPhase /\ SeenVerdict' = SeenVerdict
                     /\ cmdSend' = cmdSend
  <2>0. Same => UNCHANGED Seen!vars
    BY DEF Seen!vars, SeenPhase, SeenVerdict
  <2>1. ASSUME NEW c \in Cmd, IsIdle, Load(c) PROVE Seen!Begin(c)
    BY <2>1, SeenLoad
       DEF SeenIn, Seen!Begin, Seen!Load, SeenPhase, SeenVerdict, IsIdle, IdlePhase
  <2>2. CASE ForceOk
    <3>1. SeenPhase' = "OK" /\ SeenVerdict' = "none" /\ cmdSend' = cmdSend
      BY <2>2 DEF ForceOk, SeenPhase, SeenVerdict, IsIdle, IdlePhase
    <3> QED  BY <3>1 DEF Seen!Next, Seen!Force, SeenPhase, SeenVerdict
  <2>3. CASE SendTransmits
    <3>1. /\ SeenPhase' = "WAIT" /\ SeenVerdict' = "none" /\ SeenVerdict = "none"
          /\ SeenPhase \in {"SEND", "WAIT"}
          /\ cmdSend' = cmdSend /\ "send" \in sendCb[cmdSend]
      BY <2>3 DEF SeenIn, SendTransmits, StepTo
    <3>2. SeenPhase = "WAIT" => Same
      BY <3>1
    <3>3. SeenPhase = "SEND" => Seen!Transmit
      BY <3>1 DEF Seen!Transmit, SeenPhase, SeenVerdict
    <3> QED  BY <2>0, <3>1, <3>2, <3>3 DEF Seen!Next
  <2>4. ASSUME NEW d \in Cmd, SendLoads(d) PROVE Seen!Skip(d)
    <3>1. /\ SeenPhase' = "WAIT" /\ SeenVerdict' = "none" /\ SeenVerdict = "none"
          /\ SeenPhase \in {"SEND", "WAIT"}
          /\ cmdSend' = d /\ d \in sendCb[cmdSend]
      BY <2>4 DEF SeenIn, SendLoads, StepTo
    <3> QED  BY <3>1 DEF Seen!Skip, Seen!Load, SeenPhase, SeenVerdict
  <2>5. CASE CaseResend
    <3>1. SeenPhase = "WAIT" /\ SeenVerdict = "none" /\ cmdSend' = cmdSend
      BY <2>5 DEF SeenIn, CaseResend
    <3>2. CASE CmdPhase' = "SEND"
      <4>1. Tries' = Tries /\ SeenPhase' = (IF Tries = 0 THEN "SEND" ELSE "WAIT")
        BY <2>5, <3>2 DEF CaseResend, Tries, SeenPhase, IsIdle, IdlePhase
      <4>2. SeenPhase = (IF Tries = 0 THEN "SEND" ELSE "WAIT")
        BY <2>5 DEF CaseResend, SeenPhase, IsIdle, IdlePhase
      <4> QED  BY <2>0, <3>1, <3>2, <4>1, <4>2 DEF SeenIn
    <3>3. CASE CmdPhase' = "GOTO_ERROR"
      <4>1. SeenPhase' = "WAIT" /\ SeenVerdict' = "ERROR"
        BY <3>3 DEF SeenIn
      <4>2. Seen!Judge("ERROR")
        BY <3>1, <4>1 DEF Seen!Judge, SeenPhase, SeenVerdict
      <4> QED  BY <4>2 DEF Seen!Next
    <3> QED  BY <2>5, <3>2, <3>3 DEF CaseResend, StepTo
  <2>6. CASE WaitTimeout \/ WaitFail
    <3>1. Same
      BY <2>6 DEF SeenIn, WaitTimeout, WaitFail, StepTo
    <3> QED  BY <2>0, <3>1
  <2>7. CASE WaitOk
    <3>1. /\ SeenPhase = "WAIT" /\ SeenVerdict = "none" /\ cmdSend' = cmdSend
          /\ SeenPhase' = "WAIT" /\ SeenVerdict' = "OK"
      BY <2>7 DEF SeenIn, WaitOk, StepTo
    <3>2. Seen!Judge("OK")
      BY <3>1 DEF Seen!Judge, SeenPhase, SeenVerdict
    <3> QED  BY <3>2 DEF Seen!Next
  <2>8. ASSUME NEW o \in Outcome, NEW r \in EndResult, CaseEnd(o, r)
        PROVE  [Seen!Next]_(Seen!vars)
    <3>1. SeenPhase = "WAIT" /\ SeenVerdict = o /\ o # "none" /\ r \in endCb[cmdSend][o]
      BY <2>8 DEF SeenIn, CaseEnd, EndPhase, Outcome
    <3>2. CASE r \in Cmd /\ Load(r)
      <4>1. Seen!Replace(r)
        BY <3>1, <3>2, SeenLoad
           DEF Seen!Replace, Seen!Load, SeenPhase, SeenVerdict
      <4> QED  BY <3>2, <4>1 DEF Seen!Next
    <3>3. CASE r = "wait" /\ UNCHANGED <<CmdPhase, cmdSend, sent, skipped>>
      <4>1. Same
        BY <3>3 DEF SeenPhase, SeenVerdict, IsIdle, Tries
      <4> QED  BY <2>0, <4>1
    <3>4. CASE /\ \/ r = "done" /\ CmdPhase' = o
                  \/ r = "setok" /\ CmdPhase' = "OK"
               /\ cmdSend' = cmdSend
      <4>1. SeenPhase' = CmdPhase' /\ SeenVerdict' = "none"
        BY <3>4 DEF SeenIn, Outcome, IsIdle, IdlePhase
      <4>2. Seen!End
        BY <3>1, <3>4, <4>1 DEF Seen!End, SeenPhase, SeenVerdict
      <4> QED  BY <4>2 DEF Seen!Next
    <3> QED  BY <2>8, <3>2, <3>3, <3>4 DEF CaseEnd, Finish
  <2>9. CASE CaseNext
    <3>1. nextCmd[cmdSend] \in Cmd /\ Load(nextCmd[cmdSend]) /\ IsIdle
      BY <2>9, CmdAssumption DEF CaseNext, IsEmpty, Next_, Inv, TypeOK
    <3> QED  BY <2>1, <3>1 DEF Seen!Next
  <2>10. CASE Expire \/ UNCHANGED engineVars
    <3>1. Same
      BY <2>10 DEF Expire, engineVars, SeenPhase, SeenVerdict, IsIdle, Tries
    <3> QED  BY <2>0, <3>1
  <2>11. ASSUME NEW c \in Cmd, SendCmd(c) PROVE Seen!Begin(c)
    BY <2>1, <2>11 DEF SendCmd
  <2> QED
    BY <2>2, <2>3, <2>4, <2>5, <2>6, <2>7, <2>8, <2>9, <2>10, <2>11
    DEF Next, Cmd_Task, Seen!Next
<1> QED  BY <1>1, <1>2, Invariance, SeenInPhases, PTL DEF Spec, IsCommands, Seen!Spec

-----------------------------------------------------------------------------
(* The first k commands of the dial-up chain.                              *)
Prefix(k) == {DialChain[i] : i \in 1 .. k}

(* While the dial-up waits for its chain, the engine works on a command of *)
(* it and those before it were answered OK; a failure is there for the one *)
(* turn of the switch that sees it.                                        *)
RunningOK == dialupPhase = "RUNING" =>
  /\ main = "dial" /\ after = 0
  /\ CmdPhase = "ERROR" => turn = "switch"
  /\ failed => CmdPhase = "ERROR"
  /\ \E k \in 1 .. Len(DialChain) :
       /\ cmdSend = DialChain[k]
       /\ CmdPhase # "ERROR" => acked = Prefix(IF CmdPhase = "OK" THEN k ELSE k - 1)

(* Behind a failure the chain goes on by one command: when the engine rests*)
(* the next turn of the switch starts the chain over.                      *)
StartingOK == main = "dial" =>
  /\ dialupPhase \in {"START", "RUNING"}
  /\ after <= 1
  /\ dialupPhase = "START" /\ IsIdle /\ turn = "engine" => after = 0

DialInv == Inv /\ DialTypeOK /\ RunningOK /\ StartingOK

-----------------------------------------------------------------------------
(* Each step of the loop is a step of the engine or leaves it alone.       *)
LEMMA EngineStep == [DialNext]_allVars => [Next]_engineVars
<1> SUFFICES ASSUME [DialNext]_allVars PROVE [Next]_engineVars
  OBVIOUS
<1>1. CASE Switch
  BY <1>1, ChainAssumption DEF Switch, MainInit, MainDials, MainElse, DialStart, DialWaits,
     DialConnected, DialFailed, DialRuns, Next
<1>2. CASE EngineTurn
  BY <1>2 DEF EngineTurn, EngineIdles, Next
<1>3. CASE DialExpire
  BY <1>3 DEF DialExpire, Next
<1>4. CASE UNCHANGED allVars
  BY <1>4 DEF allVars
<1> QED  BY <1>1, <1>2, <1>3, <1>4 DEF DialNext

(* The engine inside the main loop keeps all of its promises               *)
(* (Ampm_Cmd_Task, called once per iteration of AMPM_GSM_MainTask).        *)
THEOREM DialUsesEngine == DialSpec => Spec
<1>1. DialInit => Init
  BY DEF DialInit
<1> QED  BY <1>1, EngineStep, PTL DEF DialSpec, Spec

-----------------------------------------------------------------------------
(* The commands of the chain, one after the other.                         *)
LEMMA ChainCommands ==
  ASSUME NEW k \in 1 .. Len(DialChain)
  PROVE  /\ DialChain[k] \in Cmd /\ DialChain[k] \in InChain
         /\ nextCmd[DialChain[k]] =
              IF k = Len(DialChain) THEN None ELSE DialChain[k + 1]
         /\ sendCb[DialChain[k]] = {"send"}
         /\ \A o \in Outcome : endCb[DialChain[k]][o] = {"done"}
         /\ Len(DialChain) \in Nat \ {0}
BY ChainAssumption DEF InChain

LEMMA ChainBegins == 1 \in 1 .. Len(DialChain)
BY ChainAssumption

(* One call of Ampm_Cmd_Task with a command of the dial-up chain: it is on *)
(* its way, it ends in OK, it ends in ERROR, the next one is loaded, or    *)
(* nothing happens.                                                        *)
LEMMA ChainTurn ==
  ASSUME NEW k \in 1 .. Len(DialChain), cmdSend = DialChain[k],
         Cmd_Task \/ EngineIdles
  PROVE  \/ /\ cmdSend' = cmdSend
            /\ CmdPhase \in {"SEND", "WAIT", "RESEND"}
            /\ CmdPhase' \notin IdlePhase
         \/ /\ cmdSend' = cmdSend
            /\ CmdPhase = "DELAY" /\ CmdPhase' = "OK"
         \/ /\ cmdSend' = cmdSend
            /\ CmdPhase = "GOTO_ERROR" /\ CmdPhase' = "ERROR"
         \/ /\ k < Len(DialChain) /\ cmdSend' = DialChain[k + 1]
            /\ IsIdle /\ CmdPhase' = "SEND"
         \/ /\ cmdSend' = cmdSend /\ CmdPhase' = CmdPhase
            /\ CmdPhase # "GOTO_ERROR"
<1> USE ChainCommands DEF IdlePhase
<1>1. CASE EngineIdles
  BY <1>1 DEF EngineIdles, engineVars, IsIdle
<1>2. CASE SendTransmits \/ CaseResend \/ WaitTimeout \/ WaitOk \/ WaitFail
  BY <1>2 DEF SendTransmits, CaseResend, WaitTimeout, WaitOk, WaitFail, StepTo
<1>3. ASSUME NEW d \in Cmd PROVE ~SendLoads(d)
  BY CmdAssumption DEF SendLoads
<1>4. ASSUME NEW o \in Outcome, NEW r \in EndResult, CaseEnd(o, r)
      PROVE  /\ cmdSend' = cmdSend
             /\ \/ CmdPhase = "DELAY" /\ CmdPhase' = "OK"
                \/ CmdPhase = "GOTO_ERROR" /\ CmdPhase' = "ERROR"
  <2>1. r = "done"
    BY <1>4 DEF CaseEnd
  <2>2. CmdPhase' = o /\ cmdSend' = cmdSend
    BY <1>4, <2>1, CmdAssumption DEF CaseEnd, Finish
  <2> QED  BY <1>4, <2>2 DEF CaseEnd, EndPhase, Outcome
<1>5. CASE CaseNext
  <2>1. IsIdle /\ ~IsEmpty /\ Load(Next_(cmdSend))
    BY <1>5 DEF CaseNext
  <2>2. Next_(cmdSend) = nextCmd[DialChain[k]]
    BY CmdAssumption DEF Next_
  <2>3. k # Len(DialChain) /\ Next_(cmdSend) = DialChain[k + 1]
    BY <2>1, <2>2 DEF IsEmpty
  <2> QED  BY <2>1, <2>3 DEF Load
<1> QED  BY <1>1, <1>2, <1>3, <1>4, <1>5 DEF Cmd_Task

-----------------------------------------------------------------------------
\* What DialTypeOK says besides the engine.
DialFields ==
  /\ turn \in {"switch", "engine"}
  /\ main \in {"else", "dial"}
  /\ dialupPhase \in {"START", "RUNING", "OK", "FAIL"}
  /\ dialupTryCnt \in 0 .. MaxTry
  /\ acked \in SUBSET InChain
  /\ after \in Nat
DialFlags == ModemResetFlag \in BOOLEAN /\ failed \in BOOLEAN

LEMMA DialTypeSplit ==
  /\ DialTypeOK <=> TypeOK /\ DialFields /\ DialFlags
  /\ DialTypeOK' <=> TypeOK' /\ DialFields' /\ DialFlags'
BY DEF DialTypeOK, DialFields, DialFlags

LEMMA DialInitInv == DialInit => DialInv
<1> SUFFICES ASSUME DialInit PROVE DialInv
  OBVIOUS
<1>1. Inv
  BY InitInv DEF DialInit
<1>2. DialFields /\ DialFlags
  <2>1. DialFields
    BY DEF DialInit, DialFields, MaxTry
  <2>2. DialFlags
    BY DEF DialInit, DialFlags
  <2> QED  BY <2>1, <2>2
<1>3. RunningOK /\ StartingOK
  BY DEF DialInit, RunningOK, StartingOK
<1> QED  BY <1>1, <1>2, <1>3, DialTypeSplit DEF DialInv, Inv

(* The switch of the main loop: only DIAL_UP starts the chain, and it sees *)
(* a failure in the turn in which it is there.                             *)
LEMMA SwitchKeeps ==
  ASSUME DialFields, DialFlags, RunningOK, StartingOK, Switch
  PROVE  DialFields' /\ DialFlags' /\ RunningOK' /\ StartingOK'
<1> USE DEF MaxTry
<1>1. CASE MainInit
  <2>1. /\ ModemResetFlag' = FALSE /\ main' = "else" /\ dialupPhase' = "START"
        /\ turn' = "engine"
        /\ UNCHANGED <<dialupTryCnt, acked, failed, after>>
    BY <1>1 DEF MainInit
  <2>2. DialFields'
    BY <2>1 DEF DialFields
  <2>3. DialFlags'
    BY <2>1 DEF DialFlags
  <2>4. RunningOK' /\ StartingOK'
    BY <2>1 DEF RunningOK, StartingOK
  <2> QED  BY <2>2, <2>3, <2>4
<1>2. CASE MainDials
  <2>1. /\ main' = "dial" /\ dialupPhase' = "START" /\ turn' = "engine"
        /\ failed' = FALSE /\ after' = 0
        /\ UNCHANGED <<dialupTryCnt, ModemResetFlag, acked>>
    BY <1>2 DEF MainDials
  <2>2. DialFields'
    BY <2>1 DEF DialFields
  <2>3. DialFlags'
    BY <2>1 DEF DialFlags
  <2>4. RunningOK' /\ StartingOK'
    BY <2>1 DEF RunningOK, StartingOK
  <2> QED  BY <2>2, <2>3, <2>4
<1>3. CASE MainElse
  <2>1. /\ main = "else" /\ turn' = "engine" /\ ModemResetFlag' \in BOOLEAN
        /\ UNCHANGED <<main, dialupPhase, dialupTryCnt, acked, failed, after>>
    BY <1>3 DEF MainElse
  <2>2. DialFields'
    BY <2>1 DEF DialFields
  <2>3. DialFlags'
    BY <2>1 DEF DialFlags
  <2>4. RunningOK' /\ StartingOK'
    BY <2>1 DEF RunningOK, StartingOK
  <2> QED  BY <2>2, <2>3, <2>4
<1>4. CASE DialStart
  <2>1. /\ main = "dial" /\ turn' = "engine" /\ dialupPhase' = "RUNING"
        /\ acked' = {} /\ failed' = FALSE /\ after' = 0
        /\ cmdSend' = DialChain[1] /\ CmdPhase' = "SEND"
        /\ UNCHANGED <<main, dialupTryCnt, ModemResetFlag>>
    BY <1>4 DEF DialStart, InDialUp, SendCmd, Load
  <2>2. Prefix(1 - 1) = {}
    BY DEF Prefix
  <2>3. DialFields' /\ DialFlags'
    BY <2>1 DEF DialFields, DialFlags
  <2>4. RunningOK'
    BY <2>1, <2>2, ChainBegins DEF RunningOK
  <2>5. StartingOK'
    BY <2>1 DEF StartingOK
  <2> QED  BY <2>3, <2>4, <2>5
<1>5. CASE DialWaits
  <2>1. /\ dialupPhase = "START" /\ ~IsIdle /\ turn' = "engine"
        /\ UNCHANGED <<engineVars, main, dialupPhase, dialupTryCnt,
                       ModemResetFlag, acked, failed, after>>
    BY <1>5 DEF DialWaits, InDialUp
  <2>2. DialFields'
    BY <2>1 DEF DialFields
  <2>3. DialFlags'
    BY <2>1 DEF DialFlags
  <2>4. RunningOK' /\ StartingOK'
    BY <2>1 DEF RunningOK, StartingOK, IsIdle, engineVars
  <2> QED  BY <2>2, <2>3, <2>4
<1>6. CASE DialConnected
  <2>1. /\ turn' = "engine" /\ dialupPhase' = "OK" /\ dialupTryCnt' = 0
        /\ main' = "else" /\ UNCHANGED <<ModemResetFlag, acked, failed, after>>
    BY <1>6 DEF DialConnected, InDialUp
  <2>2. DialFields'
    BY <2>1 DEF DialFields
  <2>3. DialFlags'
    BY <2>1 DEF DialFlags
  <2>4. RunningOK' /\ StartingOK'
    BY <2>1 DEF RunningOK, StartingOK
  <2> QED  BY <2>2, <2>3, <2>4
<1>7. CASE DialFailed
  <2>1. /\ main = "dial" /\ dialupPhase = "RUNING" /\ turn' = "engine"
        /\ UNCHANGED <<acked, failed, after>>
        /\ \/ /\ dialupTryCnt' = 0 /\ ModemResetFlag' = TRUE
              /\ dialupPhase' = "FAIL" /\ main' = "else"
           \/ /\ ~(dialupTryCnt >= 5) /\ dialupTryCnt' = dialupTryCnt + 1
              /\ dialupPhase' = "START"
              /\ UNCHANGED <<main, ModemResetFlag>>
    BY <1>7 DEF DialFailed, InDialUp
  <2>2. DialFields' /\ DialFlags'
    <3>1. dialupTryCnt' \in 0 .. 5
      BY <2>1 DEF DialFields
    <3> QED  BY <2>1, <3>1 DEF DialFields, DialFlags
  <2>3. RunningOK' /\ StartingOK'
    BY <2>1 DEF RunningOK, StartingOK
  <2> QED  BY <2>2, <2>3
<1>8. CASE DialRuns
  <2>1. /\ CmdPhase # "ERROR" /\ dialupPhase = "RUNING" /\ turn' = "engine"
        /\ UNCHANGED <<cmdSend, CmdPhase, main, dialupPhase, dialupTryCnt,
                       ModemResetFlag, acked, failed, after>>
    BY <1>8 DEF DialRuns, InDialUp, engineVars
  <2>2. DialFields' /\ DialFlags'
    BY <2>1 DEF DialFields, DialFlags
  <2>3. RunningOK' /\ StartingOK'
    BY <2>1 DEF RunningOK, StartingOK, Prefix
  <2> QED  BY <2>2, <2>3
<1> QED  BY <1>1, <1>2, <1>3, <1>4, <1>5, <1>6, <1>7, <1>8 DEF Switch

(* The call of Ampm_Cmd_Task: it takes the chain on by one command at most.*)
LEMMA TurnKeeps ==
  ASSUME DialFields, DialFlags, RunningOK, StartingOK, EngineTurn
  PROVE  DialFields' /\ DialFlags' /\ RunningOK' /\ StartingOK'
<1>1. /\ turn = "engine" /\ turn' = "switch"
      /\ Cmd_Task \/ EngineIdles
      /\ acked' = IF CmdPhase = "DELAY" /\ CmdPhase' = "OK" /\ cmdSend \in InChain
                    THEN acked \cup {cmdSend} ELSE acked
      /\ failed' = (failed \/ (CmdPhase = "GOTO_ERROR" /\ cmdSend \in InChain))
      /\ after' \in {after, after + 1}
      /\ after' # after => failed /\ IsIdle
      /\ UNCHANGED <<main, dialupPhase, dialupTryCnt, ModemResetFlag>>
  BY DEF EngineTurn
<1>2. DialFields'
  BY <1>1 DEF DialFields
<1>3. DialFlags'
  BY <1>1, Zenon DEF DialFlags
<1>4. CASE dialupPhase = "RUNING"
  <2>1. CmdPhase # "ERROR" /\ ~failed /\ main = "dial" /\ after = 0
    BY <1>1, <1>4 DEF RunningOK
  <2>2. PICK k \in 1 .. Len(DialChain) :
          /\ cmdSend = DialChain[k]
          /\ acked = Prefix(IF CmdPhase = "OK" THEN k ELSE k - 1)
    BY <1>4, <2>1 DEF RunningOK
  <2>3. after' = 0 /\ dialupPhase' = "RUNING" /\ main' = "dial"
    BY <1>1, <1>4, <2>1
  <2>4. cmdSend \in InChain
    BY <2>2, ChainCommands
  <2>5. \/ /\ cmdSend' = cmdSend
           /\ CmdPhase \in {"SEND", "WAIT", "RESEND"}
           /\ CmdPhase' \notin IdlePhase
        \/ /\ cmdSend' = cmdSend
           /\ CmdPhase = "DELAY" /\ CmdPhase' = "OK"
        \/ /\ cmdSend' = cmdSend
           /\ CmdPhase = "GOTO_ERROR" /\ CmdPhase' = "ERROR"
        \/ /\ k < Len(DialChain) /\ cmdSend' = DialChain[k + 1]
           /\ IsIdle /\ CmdPhase' = "SEND"
        \/ /\ cmdSend' = cmdSend /\ CmdPhase' = CmdPhase
           /\ CmdPhase # "GOTO_ERROR"
    BY <1>1, <2>2, ChainTurn
  <2>6. failed' => CmdPhase' = "ERROR"
    BY <1>1, <2>1, <2>5 DEF IsIdle, IdlePhase
  <2>7. \E j \in 1 .. Len(DialChain) :
          /\ cmdSend' = DialChain[j]
          /\ CmdPhase' # "ERROR" =>
               acked' = Prefix(IF CmdPhase' = "OK" THEN j ELSE j - 1)
    <3>1. CASE CmdPhase = "DELAY" /\ CmdPhase' = "OK" /\ cmdSend' = cmdSend
      <4>1. acked' = Prefix(k - 1) \cup {DialChain[k]}
        BY <1>1, <2>2, <2>4, <3>1
      <4>2. acked' = Prefix(k)
        BY <4>1 DEF Prefix
      <4> QED  BY <2>2, <3>1, <4>2
    <3>2. CASE k < Len(DialChain) /\ cmdSend' = DialChain[k + 1]
               /\ IsIdle /\ CmdPhase' = "SEND"
      <4>1. CmdPhase = "OK"
        BY <2>1, <3>2 DEF IsIdle, IdlePhase
      <4>2. acked' = Prefix(k)
        BY <1>1, <2>2, <4>1
      <4>3. k + 1 \in 1 .. Len(DialChain) /\ (k + 1) - 1 = k
        BY <3>2, ChainAssumption
      <4> QED  BY <3>2, <4>2, <4>3
    <3>3. CASE /\ cmdSend' = cmdSend
               /\ CmdPhase \in {"SEND", "WAIT", "RESEND"}
               /\ CmdPhase' \notin IdlePhase
      <4>1. acked' = Prefix(k - 1)
        BY <1>1, <2>2, <3>3
      <4> QED  BY <2>2, <3>3, <4>1 DEF IdlePhase
    <3>4. CASE CmdPhase' = "ERROR" /\ cmdSend' = cmdSend
      BY <2>2, <3>4
    <3>5. CASE cmdSend' = cmdSend /\ CmdPhase' = CmdPhase
      <4>1. acked' = acked
        BY <1>1, <3>5
      <4> QED  BY <2>2, <3>5, <4>1
    <3> QED  BY <2>5, <3>1, <3>2, <3>3, <3>4, <3>5
  <2>8. RunningOK'
    BY <1>1, <2>3, <2>6, <2>7 DEF RunningOK
  <2>9. StartingOK'
    BY <1>1, <2>3 DEF StartingOK
  <2> QED  BY <1>2, <1>3, <2>8, <2>9
<1>5. CASE dialupPhase # "RUNING"
  <2>1. RunningOK'
    BY <1>1, <1>5 DEF RunningOK
  <2>2. StartingOK'
    <3> SUFFICES ASSUME main = "dial" PROVE dialupPhase = "START" /\ after' <= 1
      BY <1>1 DEF StartingOK
    <3>1. dialupPhase = "START"
      BY <1>5 DEF StartingOK
    <3>2. after \in Nat /\ after <= 1 /\ (IsIdle => after = 0)
      BY <1>1, <3>1 DEF StartingOK, DialFields
    <3> QED  BY <1>1, <3>1, <3>2
  <2> QED  BY <1>2, <1>3, <2>1, <2>2
<1> QED  BY <1>4, <1>5

(* The steps of the loop, the engine and the tick keep the invariant.      *)
LEMMA DialNextInv == DialInv /\ [DialNext]_allVars => DialInv'
<1> SUFFICES ASSUME DialInv, [DialNext]_allVars PROVE DialInv'
  OBVIOUS
<1>1. Inv'
  BY EngineStep, NextInv DEF DialInv
<1>2. DialFields /\ DialFlags /\ RunningOK /\ StartingOK
  BY DialTypeSplit DEF DialInv
<1>3. DialFields' /\ DialFlags' /\ RunningOK' /\ StartingOK'
  <2>1. CASE Switch
    BY <1>2, <2>1, SwitchKeeps
  <2>2. CASE EngineTurn
    BY <1>2, <2>2, TurnKeeps
  <2>3. CASE UNCHANGED <<CmdPhase, cmdSend, dialVars>>
    <3>1. DialFields' /\ DialFlags'
      BY <1>2, <2>3 DEF DialFields, DialFlags, dialVars
    <3>2. RunningOK' /\ StartingOK'
      BY <1>2, <2>3 DEF RunningOK, StartingOK, IsIdle, Prefix, dialVars
    <3> QED  BY <3>1, <3>2
  <2>4. CASE DialExpire \/ UNCHANGED allVars
    BY <2>3, <2>4 DEF DialExpire, Expire, allVars, engineVars
  <2> QED  BY <2>1, <2>2, <2>4 DEF DialNext
<1> QED  BY <1>1, <1>3, DialTypeSplit DEF DialInv, Inv

(* For every chain: the dial-up is one command behind a failure at most.   *)
THEOREM DialInvariance == DialSpec => []DialInv
<1>1. DialInit => DialInv
  BY DialInitInv
<1>2. DialInv /\ [DialNext]_allVars => DialInv'
  BY DialNextInv
<1> QED  BY <1>1, <1>2, PTL DEF DialSpec

(* Every variable of the dial-up has its type; five failures are counted,  *)
(* never a sixth (Ampm_GSM_DialUp).                                        *)
THEOREM DialTypeCorrect == DialSpec => []DialTypeOK
<1>1. DialInv => DialTypeOK
  BY DEF DialInv
<1> QED  BY <1>1, DialInvariance, PTL

(* At most one command of a failed chain is sent before the chain starts   *)
(* over, however long it is and whatever else uses the engine.             *)
THEOREM OneAfterFailureHolds == DialSpec => []OneAfterFailure
<1>1. DialInv => OneAfterFailure
  BY DEF DialInv, StartingOK, OneAfterFailure
<1> QED  BY <1>1, DialInvariance, PTL

(* The dial-up reports OK only when every command of its chain was answered*)
(* OK since it was started (IsEmpty and OK, Ampm_GSM_DialUp).              *)
THEOREM ConnectedMeansAllAckedHolds == DialSpec => ConnectedMeansAllAcked
<1> DEFINE A == dialupPhase # "OK" /\ dialupPhase' = "OK" => acked = InChain
<1>1. DialInv /\ [DialNext]_allVars => [A]_allVars
  <2> SUFFICES ASSUME DialInv, DialNext, dialupPhase # "OK", dialupPhase' = "OK"
               PROVE  acked = InChain
    OBVIOUS
  <2>1. DialConnected
    BY DEF DialNext, Switch, MainInit, MainDials, MainElse, DialStart,
       DialWaits, DialFailed, DialRuns, EngineTurn, DialExpire, dialVars
  <2>2. dialupPhase = "RUNING" /\ IsEmpty /\ CmdPhase = "OK"
    BY <2>1 DEF DialConnected, InDialUp
  <2>3. PICK k \in 1 .. Len(DialChain) : cmdSend = DialChain[k] /\ acked = Prefix(k)
    BY <2>2 DEF DialInv, RunningOK
  <2>4. nextCmd[DialChain[k]] = None
    BY <2>2, <2>3, ChainCommands, CmdAssumption DEF IsEmpty, Next_
  <2>5. k = Len(DialChain)
    <3> SUFFICES ASSUME k # Len(DialChain) PROVE FALSE
      OBVIOUS
    <3>1. k + 1 \in 1 .. Len(DialChain)
      BY ChainAssumption
    <3>2. DialChain[k + 1] \in Cmd /\ DialChain[k + 1] = None
      BY <2>4, <3>1, ChainCommands
    <3> QED  BY <3>2, CmdAssumption
  <2> QED  BY <2>3, <2>5 DEF Prefix, InChain
<1> QED  BY <1>1, DialInvariance, PTL DEF DialSpec, ConnectedMeansAllAcked
=============================================================================
