--------------------------- MODULE VoiceCallProofs ---------------------------
(***************************************************************************)
(* What the call task promises of each call, for any number of calls, of   *)
(* tries and of seconds.                                                   *)
(***************************************************************************)
EXTENDS VoiceCall, SequenceTheorems, TLAPS

\* The chain has begun and has not come to the dial command.
Begun == chain \in {"setup", "ATM"}
Pending(c) == Begun /\ voiceCall = c

(* A chain runs in VOICECALL only, whose every turn says that the call task*)
(* runs; so does a call that comes in, from the turn in which the call task*)
(* comes to it.                                                            *)
ChainRuns == chain # "idle" => main = "call" /\ (turn # "switch" => running = 1)
CallRuns ==
  state[In] = "START" => taken \/ (main = "call" /\ (turn # "switch" => running = 1))

(* The chain of a call that comes in does not come to the dial command.    *)
InIsNotDialled ==
  /\ Pending(In) => state[In] = "START"
  /\ chain = "ATD" => voiceCall # In

(* A try is used up before its dial command; until then its call is in the *)
(* list, or was cancelled and cannot be set up again.                      *)
TriesCounted == \A c \in Call :
  /\ dialled[c] + tryNum[c] + (IF Pending(c) THEN 1 ELSE 0) <= Tries
  /\ Pending(c) => InList(c) \/ action[c] = "NOW"

(* What the flags of +CLCC tell is about the call that was dialled.        *)
FlagsOfCall == voiceCall \in Call =>
  /\ chain \in {"CLCC", "ATA"} /\ listIsEmpty => released
  /\ chain \in {"CEER", "end"} => released

Parts == ChainRuns /\ CallRuns /\ InIsNotDialled /\ TriesCounted /\ FlagsOfCall

Inv == TypeOK /\ Parts

-----------------------------------------------------------------------------
\* TypeOK, in four parts.
ListOK == callList \in Seq(Call) /\ IsInjective(callList)
BlocksOK ==
  /\ state \in [AllCalls -> Reported \cup {"START", "ENDED"}]
  /\ response \in [AllCalls -> {"NONE", "FAILED", "SUCCESS"}]
  /\ action \in [AllCalls -> Actions \cup {"NONE", "PICKUP", "NOW"}]
  /\ timeout \in [AllCalls -> 0 .. Reload]
  /\ tryNum \in [Call -> 0 .. Tries]
  /\ dialled \in [Call -> Nat]
  /\ lost \subseteq Call
ControlOK ==
  /\ turn \in {"switch", "engine", "timer"}
  /\ main \in {"idle", "call", "else"}
  /\ voiceCall \in AllCalls
  /\ chain \in Chains
  /\ running \in 0 .. 1
  /\ came \in 0 .. MaxIncoming
FlagsOK ==
  /\ gotList \in BOOLEAN /\ listIsEmpty \in BOOLEAN
  /\ delay \in BOOLEAN /\ released \in BOOLEAN /\ taken \in BOOLEAN

(* They say what TypeOK says, of the state and of the next one.            *)
LEMMA TypeSplit ==
  /\ TypeOK <=> ListOK /\ BlocksOK /\ ControlOK /\ FlagsOK
  /\ TypeOK' <=> ListOK' /\ BlocksOK' /\ ControlOK' /\ FlagsOK'
BY DEF TypeOK, ListOK, BlocksOK, ControlOK, FlagsOK

(* list_add of a call that is not in the list (Ampm_VoiceCallSetup).       *)
LEMMA ListAdds ==
  ASSUME ListOK, NEW c \in Call, ~InList(c), callList' = Append(callList, c)
  PROVE  /\ ListOK'
         /\ \A d \in Call : InList(d)' <=> InList(d) \/ d = c
<1> DEFINE n == Len(callList)
<1>1. /\ n \in Nat /\ DOMAIN callList = 1 .. n
      /\ callList' \in Seq(Call) /\ DOMAIN callList' = 1 .. n + 1
      /\ callList'[n + 1] = c
      /\ \A i \in 1 .. n : callList'[i] = callList[i]
  BY DEF ListOK
<1> QED  BY <1>1 DEF ListOK, IsInjective, InList

(* list_remove of a call in the list (Ampm_VoiceCallCancel).               *)
LEMMA ListRemoves ==
  ASSUME ListOK, NEW i \in DOMAIN callList, callList' = RemoveAt(callList, i)
  PROVE  /\ ListOK'
         /\ \A d \in Call : d # callList[i] => (InList(d)' <=> InList(d))
<1> DEFINE n == Len(callList)
           a == SubSeq(callList, 1, i - 1)
           b == SubSeq(callList, i + 1, n)
<1>1. /\ n \in Nat \ {0} /\ DOMAIN callList = 1 .. n /\ i \in 1 .. n
      /\ \A k \in 1 .. n : callList[k] \in Call
  BY DEF ListOK
<1>2. /\ a \in Seq(Call) /\ Len(a) = i - 1
      /\ \A k \in 1 .. i - 1 : a[k] = callList[k]
  <2>1. \A k \in 1 .. i - 1 : callList[k] \in Call
    BY <1>1
  <2> QED  BY <1>1, <2>1, SubSeqProperties
<1>3. /\ b \in Seq(Call) /\ Len(b) = n - i
      /\ \A k \in 1 .. n - i : b[k] = callList[i + k]
  <2>1. \A k \in i + 1 .. n : callList[k] \in Call
    BY <1>1
  <2> QED  BY <1>1, <2>1, SubSeqProperties
<1>4. callList' = a \o b
  BY DEF RemoveAt
<1> HIDE DEF a, b
<1>5. /\ callList' \in Seq(Call) /\ Len(callList') = n - 1
      /\ DOMAIN callList' = 1 .. n - 1
  <2>1. a \o b \in Seq(Call) /\ Len(a \o b) = Len(a) + Len(b)
    BY <1>2, <1>3, ConcatProperties
  <2>2. callList' \in Seq(Call) /\ Len(callList') = n - 1
    BY <1>1, <1>2, <1>3, <1>4, <2>1
  <2> HIDE DEF n
  <2> QED  BY <2>2
<1>6. \A k \in 1 .. n - 1 :
         callList'[k] = callList[IF k < i THEN k ELSE k + 1]
  <2> TAKE k \in 1 .. n - 1
  <2>1. CASE k < i
    <3>1. k \in 1 .. Len(a) /\ (a \o b)[k] = a[k]
      BY <1>1, <1>2, <1>3, <2>1
    <3> QED  BY <1>1, <1>2, <1>4, <2>1, <3>1
  <2>2. CASE k >= i
    <3>1. (a \o b)[k] = b[k - (i - 1)]
      BY <1>1, <1>2, <1>3, <2>2
    <3>2. k - (i - 1) \in 1 .. n - i /\ i + (k - (i - 1)) = k + 1
      BY <1>1, <2>2
    <3>3. callList[i + (k - (i - 1))] = b[k - (i - 1)]
      BY <1>3, <3>2
    <3> QED  BY <1>1, <1>4, <2>2, <3>1, <3>2, <3>3
  <2> QED  BY <1>1, <2>1, <2>2
<1>7. IsInjective(callList)'
  <2> SUFFICES ASSUME NEW j \in 1 .. n - 1, NEW k \in 1 .. n - 1,
                      callList'[j] = callList'[k]
               PROVE  j = k
    BY <1>5 DEF IsInjective
  <2> DEFINE J == IF j < i THEN j ELSE j + 1
             K == IF k < i THEN k ELSE k + 1
  <2>1. J \in DOMAIN callList /\ K \in DOMAIN callList /\ callList[J] = callList[K]
    BY <1>1, <1>6
  <2>2. J = K
    <3> HIDE DEF J, K
    <3> QED  BY <2>1 DEF ListOK, IsInjective
  <2> QED  BY <1>1, <2>2
<1>8. ASSUME NEW d \in Call, d # callList[i]
      PROVE  InList(d)' <=> InList(d)
  <2>1. ASSUME NEW k \in 1 .. n, callList[k] = d PROVE InList(d)'
    <3>1. CASE k < i
      BY <1>1, <1>5, <1>6, <2>1, <3>1 DEF InList
    <3>2. CASE k > i
      <4>1. k - 1 \in 1 .. n - 1 /\ callList'[k - 1] = d
        BY <1>1, <1>5, <1>6, <2>1, <3>2
      <4> QED  BY <1>5, <4>1 DEF InList
    <3> QED  BY <1>1, <1>8, <2>1, <3>1, <3>2
  <2>2. ASSUME NEW k \in 1 .. n - 1, callList'[k] = d PROVE InList(d)
    BY <1>1, <1>5, <1>6, <2>2 DEF InList
  <2> QED  BY <1>1, <1>5, <2>1, <2>2 DEF InList
<1> QED  BY <1>5, <1>7, <1>8 DEF ListOK

(* list_remove of the first call (Ampm_CallTask).                          *)
LEMMA ListPops ==
  ASSUME ListOK, callList # <<>>, callList' = Tail(callList)
  PROVE  ListOK'
<1> DEFINE n == Len(callList)
<1>1. /\ n \in Nat \ {0} /\ DOMAIN callList = 1 .. n
      /\ callList' \in Seq(Call) /\ DOMAIN callList' = 1 .. n - 1
      /\ \A k \in 1 .. n - 1 : callList'[k] = callList[k + 1]
  BY HeadTailProperties DEF ListOK
<1> QED  BY <1>1 DEF ListOK, IsInjective


(* What the action makes of the state of a call is one of four commands,   *)
(* and FAILED, SUCCESS or the response the call has.                       *)
LEMMA DecideRange ==
  ASSUME TypeOK, NEW s, NEW late
  PROVE  /\ Decide(s, late)[1] \in {"CHLD_1X", "CHLD", "ATA", "CLCC"}
         /\ Decide(s, late)[2] \in {"NONE", "FAILED", "SUCCESS"}
<1>1. response[voiceCall] \in {"NONE", "FAILED", "SUCCESS"}
  BY DEF TypeOK
<1> DEFINE r == response[voiceCall]
           D == {<<"CHLD_1X", "SUCCESS">>, <<"ATA", r>>, <<"CHLD_1X", "FAILED">>,
                 <<"CHLD", "FAILED">>, <<"CLCC", r>>}
<1>2. Decide(s, late) \in D
  BY DEF Decide
<1> QED  BY <1>1, <1>2

(* The application keeps the invariant: it sets up a call only when it is  *)
(* neither in the list nor cancelled, which is when no try of it is under  *)
(* way.                                                                    *)
LEMMA AppKeeps ==
  ASSUME Inv, App
  PROVE  Inv'
<1> USE CallAssumption, TypeSplit DEF Inv, chainVars, loopVars
<1>1. FlagsOK' /\ ControlOK'
  BY DEF App, Setup, Cancel, SetAction, FlagsOK, ControlOK
<1>2. UNCHANGED <<turn, main, running, taken, voiceCall, chain, listIsEmpty, released>>
  BY DEF App, Setup, Cancel, SetAction
<1>3. ASSUME NEW c \in Call, NEW a \in Actions, Setup(c, a)
      PROVE  Inv'
  <2>1. ListOK' /\ \A d \in Call : InList(d)' <=> InList(d) \/ d = c
    BY <1>3, ListAdds DEF Setup
  <2>2. BlocksOK'
    BY <1>3 DEF Setup, BlocksOK, AllCalls
  <2>3. /\ state'[In] = state[In]
        /\ tryNum' = [tryNum EXCEPT ![c] = Tries] /\ dialled' = dialled
        /\ action' = [action EXCEPT ![c] = a]
        /\ dialled[c] = 0 /\ ~Pending(c)
    BY <1>3 DEF Setup, BlocksOK, AllCalls, Parts, TriesCounted
  <2>4. TriesCounted'
    <3> USE DEF TriesCounted
    <3> TAKE d \in Call
    <3>1. Pending(d)' <=> Pending(d)
      BY <1>2 DEF Pending, Begun
    <3>2. CASE d = c
      BY <2>3, <3>1, <3>2 DEF BlocksOK
    <3>3. CASE d # c
      BY <2>1, <2>3, <3>1, <3>3 DEF BlocksOK, AllCalls, Parts, TriesCounted
    <3> QED  BY <3>2, <3>3
  <2>5. Parts'
    BY <1>2, <2>3, <2>4 DEF Parts, ChainRuns, CallRuns, InIsNotDialled,
       FlagsOfCall,
       Pending, Begun
  <2> QED  BY <1>1, <2>1, <2>2, <2>5
<1>4. ASSUME NEW c \in AllCalls, Cancel(c)
      PROVE  Inv'
  <2>1. ListOK' /\ \A d \in Call : d # c => (InList(d)' <=> InList(d))
    <3>1. CASE UNCHANGED callList
      BY <3>1 DEF ListOK, InList
    <3>2. ASSUME NEW i \in DOMAIN callList, callList[i] = c,
                 callList' = RemoveAt(callList, i)
          PROVE  ListOK' /\ \A d \in Call : d # c => (InList(d)' <=> InList(d))
      BY <3>2, ListRemoves
    <3> QED  BY <1>4, <3>1, <3>2 DEF Cancel
  <2>2. BlocksOK'
    BY <1>4 DEF Cancel, BlocksOK
  <2>3. /\ UNCHANGED <<state, tryNum, dialled>>
        /\ action' = [action EXCEPT ![c] = "NOW"]
    BY <1>4 DEF Cancel
  <2>4. TriesCounted'
    <3> USE DEF TriesCounted
    <3> TAKE d \in Call
    <3>1. Pending(d)' <=> Pending(d)
      BY <1>2 DEF Pending, Begun
    <3>2. action'[d] = IF d = c THEN "NOW" ELSE action[d]
      BY <2>3 DEF BlocksOK, AllCalls
    <3> QED  BY <2>1, <2>3, <3>1, <3>2 DEF Parts, TriesCounted
  <2>5. Parts'
    BY <1>2, <2>3, <2>4 DEF Parts, ChainRuns, CallRuns, InIsNotDialled,
       FlagsOfCall,
       Pending, Begun
  <2> QED  BY <1>1, <2>1, <2>2, <2>5
<1>5. CASE SetAction
  <2>1. ListOK' /\ BlocksOK' /\ \A d \in Call : InList(d)' <=> InList(d)
    BY <1>5 DEF SetAction, ListOK, BlocksOK, InList
  <2>2. /\ UNCHANGED <<state, tryNum, dialled>>
        /\ \A d \in Call : action'[d] = action[d]
    BY <1>5 DEF SetAction, BlocksOK, AllCalls
  <2>3. Parts'
    BY <1>2, <2>1, <2>2 DEF Parts, ChainRuns, CallRuns, InIsNotDialled,
       TriesCounted,
       FlagsOfCall, Pending, Begun
  <2> QED  BY <1>1, <2>1, <2>3
<1> QED  BY <1>3, <1>4, <1>5 DEF App

(* The switch keeps it: a chain begins only when none is under way, with a *)
(* call that comes in and has not begun, or with a try that is counted.    *)
LEMMA SwitchKeeps ==
  ASSUME Inv, Switch
  PROVE  Inv'
<1> USE CallAssumption, TypeSplit DEF Inv, blockVars, chainVars
<1> DEFINE Idles == IdleTakes \/ IdleCallsOut \/ IdleLeaves \/ ElseCase \/ StartOver
           Tasks == CallTaskWaits \/ CallTaskIncoming \/ CallTaskAttempt
                      \/ CallTaskRemove \/ CallTaskDone
<1>1. CASE Idles
  <2>1. /\ UNCHANGED chainVars /\ chain = "idle" /\ turn' = "engine"
        /\ UNCHANGED <<tryNum, dialled>>
    BY <1>1 DEF IdleTakes, IdleCallsOut, IdleLeaves, ElseCase, StartOver,
       IdleEnd, AtSwitch, Parts, ChainRuns
  <2>2. ListOK'
    <3>1. <<>> \in Seq(Call) /\ IsInjective(<<>>)
      BY DEF IsInjective
    <3> QED
      BY <1>1, <3>1 DEF IdleTakes, IdleCallsOut, IdleLeaves, ElseCase,
         StartOver, IdleEnd, ListOK
  <2>3. BlocksOK'
    BY <1>1 DEF IdleTakes, IdleCallsOut, IdleLeaves, ElseCase, StartOver,
       IdleEnd, BlocksOK, AllCalls
  <2>4. ControlOK'
    BY <1>1 DEF IdleTakes, IdleCallsOut, IdleLeaves, ElseCase, StartOver,
       IdleEnd, AtSwitch, ControlOK
  <2>5. FlagsOK'
    BY <1>1 DEF IdleTakes, IdleCallsOut, IdleLeaves, ElseCase, StartOver,
       IdleEnd, FlagsOK
  <2>6. CallRuns'
    BY <1>1 DEF IdleTakes, IdleCallsOut, IdleLeaves, ElseCase, StartOver,
       IdleEnd, AtSwitch, Parts, CallRuns
  <2>7. Parts'
    BY <2>1, <2>6 DEF Parts, ChainRuns, InIsNotDialled, TriesCounted, FlagsOfCall,
       Pending, Begun
  <2> QED  BY <2>2, <2>3, <2>4, <2>5, <2>7
<1>2. CASE Tasks
  <2>1. /\ running' = 1 /\ turn' = "engine" /\ UNCHANGED <<dialled, response, action>>
        /\ main = "call" /\ taken' = FALSE /\ lost' = lost
    BY <1>2 DEF CallTaskWaits, CallTaskIncoming, CallTaskAttempt, CallTaskRemove,
       CallTaskDone, CallTask, AtSwitch
  <2>2. FlagsOK'
    <3>1. released' \in BOOLEAN
      <4>1. ASSUME NEW c, Start(c) PROVE released' \in BOOLEAN
        <5>1. CASE c \in Call
          BY <4>1, <5>1 DEF Start
        <5>2. CASE c \notin Call
          <6>1. (c \in Call) = FALSE
            BY <5>2
          <6> QED  BY <4>1, <6>1 DEF Start
        <5> QED  BY <5>1, <5>2
      <4>2. Start(In) \/ Start(Head(callList)) \/ released' = released
        BY <1>2 DEF CallTaskWaits, CallTaskIncoming, CallTaskAttempt,
           CallTaskRemove,
           CallTaskDone
      <4> QED  BY <4>1, <4>2 DEF FlagsOK
    <3>2. gotList' = gotList /\ listIsEmpty' = listIsEmpty /\ delay' \in BOOLEAN
      BY <1>2 DEF CallTaskWaits, CallTaskIncoming, CallTaskAttempt,
         CallTaskRemove, CallTaskDone, Start, FlagsOK
    <3> QED  BY <2>1, <3>1, <3>2 DEF FlagsOK
  <2>3. CASE CallTaskWaits
    <3>1. ListOK' /\ BlocksOK' /\ ControlOK'
      BY <2>1, <2>3 DEF CallTaskWaits, CallTask, AtSwitch, ListOK, BlocksOK,
         ControlOK
    <3>2. Parts'
      BY <2>1, <2>3 DEF CallTaskWaits, Parts, ChainRuns, CallRuns, InIsNotDialled,
         TriesCounted, FlagsOfCall, Pending, Begun, InList
    <3> QED  BY <2>2, <3>1, <3>2
  <2>4. CASE CallTaskIncoming
    <3>1. ListOK' /\ BlocksOK' /\ ControlOK'
      BY <2>1, <2>4 DEF CallTaskIncoming, Start, ListOK, BlocksOK, ControlOK,
         AllCalls, Chains
    <3>2. Parts'
      BY <2>1, <2>4 DEF CallTaskIncoming, Start, CallTask, Parts, ChainRuns,
         CallRuns,
         InIsNotDialled, TriesCounted, FlagsOfCall, Pending, Begun, InList
    <3> QED  BY <2>2, <3>1, <3>2
  <2>5. CASE CallTaskAttempt
    <3> DEFINE c == Head(callList)
    <3>1. c \in Call /\ InList(c) /\ UNCHANGED callList
      BY <2>5 DEF CallTaskAttempt, ListOK, InList
    <3>2. /\ tryNum[c] > 0 /\ tryNum' = [tryNum EXCEPT ![c] = tryNum[c] - 1]
          /\ state' = [state EXCEPT ![c] = "START"]
          /\ timeout' = [timeout EXCEPT ![c] = Reload]
          /\ voiceCall' = c /\ chain' = "setup" /\ chain = "idle"
          /\ main' = main /\ came' = came
      BY <2>5 DEF CallTaskAttempt, CallTask, Start, Eligible
    <3> HIDE DEF c
    <3>3. ListOK' /\ BlocksOK'
      BY <2>1, <3>1, <3>2 DEF ListOK, BlocksOK, AllCalls
    <3>4. ControlOK'
      BY <2>1, <3>1, <3>2 DEF ControlOK, AllCalls, Chains
    <3>5. TriesCounted'
      <4> USE DEF TriesCounted
      <4> TAKE d \in Call
      <4>1. (Pending(d)' <=> d = c) /\ ~Pending(d) /\ (InList(d)' <=> InList(d))
        BY <3>1, <3>2 DEF Pending, Begun, InList
      <4>2. dialled[d] + tryNum[d] <= Tries /\ dialled[d] \in Nat /\ tryNum[d] \in Nat
        BY <4>1 DEF Parts, TriesCounted, BlocksOK
      <4>3. tryNum'[d] = IF d = c THEN tryNum[d] - 1 ELSE tryNum[d]
        BY <3>1, <3>2 DEF BlocksOK
      <4> QED  BY <2>1, <3>1, <4>1, <4>2, <4>3
    <3>6. Parts'
      BY <2>1, <3>1, <3>2, <3>5 DEF Parts, ChainRuns, CallRuns, InIsNotDialled,
         FlagsOfCall, Pending, Begun
    <3> QED  BY <2>2, <3>3, <3>4, <3>6
  <2>6. CASE CallTaskRemove
    <3>1. ListOK'
      BY <2>6, ListPops DEF CallTaskRemove
    <3>2. BlocksOK' /\ ControlOK'
      <4>1. BlocksOK'
        BY <2>1, <2>6 DEF CallTaskRemove, BlocksOK
      <4>2. ControlOK'
        BY <2>1, <2>6 DEF CallTaskRemove, ControlOK
      <4> QED  BY <4>1, <4>2
    <3>3. Parts'
      <4>1. chain = "idle" /\ state' = [state EXCEPT ![Head(callList)] = "ENDED"]
        BY <2>6 DEF CallTaskRemove, CallTask
      <4> QED
        BY <2>1, <2>6, <4>1 DEF CallTaskRemove, BlocksOK, Parts, ChainRuns,
           CallRuns,
           InIsNotDialled, TriesCounted, FlagsOfCall, Pending, Begun, AllCalls
    <3> QED  BY <2>2, <3>1, <3>2, <3>3
  <2>7. CASE CallTaskDone
    <3>1. ListOK' /\ BlocksOK' /\ ControlOK'
      BY <2>1, <2>7 DEF CallTaskDone, ListOK, BlocksOK, ControlOK
    <3>2. Parts'
      BY <2>1, <2>7 DEF CallTaskDone, CallTask, Parts, ChainRuns, CallRuns,
         InIsNotDialled, TriesCounted, FlagsOfCall, Pending, Begun, InList
    <3> QED  BY <2>2, <3>1, <3>2
  <2> QED  BY <1>2, <2>3, <2>4, <2>5, <2>6, <2>7
<1> QED  BY <1>1, <1>2 DEF Switch

(* The commands keep it: the flags of +CLCC are cleared between the dial   *)
(* command and the first list, and what they say later leads to the end of *)
(* the call or to its being hung up.                                       *)
LEMMA CommandKeeps ==
  ASSUME Inv, Command
  PROVE  Inv'
<1> USE CallAssumption, TypeSplit DEF Inv
<1>1. /\ turn = "engine" /\ turn' = "timer" /\ UNCHANGED <<main, running, came, taken>>
      /\ UNCHANGED <<callList, action, timeout, tryNum, lost>>
  BY DEF Command, EndSetup, EndATM, EndATD, ClccTimeout, ClccState, ClccEnded,
     ClccTakenOver, ClccNoState, EndATA, EndCHLD, EndCEER, EndEnd, At, Turn, blockVars
<1>2. ListOK' /\ \A d \in Call : InList(d)' <=> InList(d)
  BY <1>1 DEF ListOK, InList
<1>3. chain # "idle" /\ main = "call" /\ running = 1
  BY <1>1 DEF Command, EndSetup, EndATM, EndATD, ClccTimeout, ClccState,
     ClccEnded,
     ClccTakenOver, ClccNoState, EndATA, EndCHLD, EndCEER, EndEnd, At, Parts, ChainRuns
<1>4. CASE EndSetup
  <2>1. BlocksOK' /\ ControlOK' /\ FlagsOK'
    BY <1>1, <1>4 DEF EndSetup, blockVars, BlocksOK, ControlOK, FlagsOK, Chains
  <2>2. Parts'
    BY <1>1, <1>2, <1>3, <1>4 DEF EndSetup, At, blockVars, Parts, ChainRuns,
       CallRuns,
       InIsNotDialled, TriesCounted, FlagsOfCall, Pending, Begun
  <2> QED  BY <1>2, <2>1, <2>2
<1>5. CASE EndATM
  <2>1. CASE state[In] = "START"
    <3>1. BlocksOK' /\ ControlOK' /\ FlagsOK'
      BY <1>1, <1>5, <2>1 DEF EndATM, blockVars, BlocksOK, ControlOK,
         FlagsOK, Chains,
         AllCalls
    <3>2. voiceCall' = In /\ chain' = "CLCC" /\ UNCHANGED <<dialled, state>>
      BY <1>5, <2>1 DEF EndATM, blockVars
    <3>3. TriesCounted'
      <4> USE DEF TriesCounted
      <4> TAKE d \in Call
      <4>1. /\ ~Pending(d)' /\ dialled[d] \in Nat /\ tryNum[d] \in Nat
            /\ dialled[d] + tryNum[d] + (IF Pending(d) THEN 1 ELSE 0) <= Tries
        BY <3>2 DEF Parts, BlocksOK, Pending, Begun
      <4> QED  BY <1>1, <3>2, <4>1
    <3>4. Parts'
      BY <1>1, <1>3, <3>2, <3>3 DEF Parts, ChainRuns, CallRuns, InIsNotDialled,
         FlagsOfCall, Pending, Begun
    <3> QED  BY <1>2, <3>1, <3>4
  <2>2. CASE state[In] # "START"
    <3>1. /\ chain = "ATM" /\ chain' = "ATD" /\ voiceCall' = voiceCall
          /\ UNCHANGED <<state, response, gotList, listIsEmpty, delay>>
          /\ released' = FALSE
          /\ voiceCall \in Call
      <4>1. /\ chain = "ATM" /\ chain' = "ATD" /\ voiceCall' = voiceCall
            /\ UNCHANGED <<state, response, gotList, listIsEmpty, delay>>
        BY <1>5, <2>2 DEF EndATM, At, blockVars
      <4>2. released' = FALSE
        BY <1>5, <4>1 DEF EndATM
      <4>3. voiceCall \in Call
        BY <2>2, <4>1 DEF ControlOK, AllCalls, Parts, InIsNotDialled,
           Pending, Begun
      <4> QED  BY <4>1, <4>2, <4>3
    <3>2. dialled' \in [Call -> Nat]
          /\ \A d \in Call : dialled'[d] <= dialled[d] + (IF d = voiceCall THEN 1 ELSE 0)
      BY <1>5, <2>2, <3>1 DEF EndATM, BlocksOK
    <3>3. BlocksOK' /\ ControlOK' /\ FlagsOK'
      BY <1>1, <3>1, <3>2 DEF BlocksOK, ControlOK, FlagsOK, Chains
    <3>4. TriesCounted'
      <4> USE DEF TriesCounted
      <4> TAKE d \in Call
      <4>1. ~Pending(d)' /\ (Pending(d) <=> d = voiceCall)
        BY <3>1 DEF Pending, Begun
      <4>2. /\ dialled[d] + tryNum[d] + (IF Pending(d) THEN 1 ELSE 0) <= Tries
            /\ dialled[d] \in Nat /\ tryNum[d] \in Nat /\ dialled'[d] \in Nat
        BY <3>2 DEF Parts, BlocksOK
      <4> QED  BY <1>1, <3>2, <4>1, <4>2
    <3>5. Parts'
      BY <1>1, <1>3, <2>2, <3>1, <3>4 DEF Parts, ChainRuns, CallRuns,
         InIsNotDialled,
         FlagsOfCall, Pending, Begun
    <3> QED  BY <1>2, <3>3, <3>5
  <2> QED  BY <2>1, <2>2
<1>6. CASE EndATD
  <2>1. BlocksOK' /\ ControlOK' /\ FlagsOK'
    BY <1>1, <1>6 DEF EndATD, BlocksOK, ControlOK, FlagsOK, Chains
  <2>2. Parts'
    BY <1>1, <1>2, <1>3, <1>6 DEF EndATD, At, Parts, ChainRuns, CallRuns,
       InIsNotDialled, TriesCounted, FlagsOfCall, Pending, Begun
  <2> QED  BY <1>2, <2>1, <2>2
<1>7. CASE ClccTimeout
  <2>1. BlocksOK' /\ ControlOK' /\ FlagsOK'
    BY <1>1, <1>7 DEF ClccTimeout, BlocksOK, ControlOK, FlagsOK, Chains
  <2>2. Parts'
    BY <1>1, <1>2, <1>3, <1>7 DEF ClccTimeout, At, Parts, ChainRuns, CallRuns,
       InIsNotDialled, TriesCounted, FlagsOfCall, Pending, Begun
  <2> QED  BY <1>2, <2>1, <2>2
<1>8. CASE ClccState
  <2>1. PICK s \in Reported :
          /\ state' = [state EXCEPT ![voiceCall] = s] /\ chain = "CLCC"
          /\ chain' \in {"CHLD_1X", "CHLD", "ATA", "CLCC"}
          /\ \E r \in {"NONE", "FAILED", "SUCCESS"} :
               response' = [response EXCEPT ![voiceCall] = r]
          /\ gotList' = FALSE /\ listIsEmpty' = FALSE
          /\ UNCHANGED <<voiceCall, released, delay, dialled>>
    BY <1>8, DecideRange DEF ClccState, At
  <2>2. BlocksOK' /\ ControlOK' /\ FlagsOK'
    <3>1. BlocksOK'
      BY <1>1, <2>1 DEF BlocksOK
    <3>2. ControlOK' /\ FlagsOK'
      BY <1>1, <2>1 DEF ControlOK, FlagsOK, Chains
    <3> QED  BY <3>1, <3>2
  <2>3. state'[In] = "START" => state[In] = "START"
    BY <2>1 DEF BlocksOK, AllCalls, Reported
  <2>4. Parts'
    BY <1>1, <1>2, <1>3, <2>1, <2>3 DEF Parts, ChainRuns, CallRuns,
       InIsNotDialled,
       TriesCounted, FlagsOfCall, Pending, Begun
  <2> QED  BY <1>2, <2>2, <2>4
<1>9. CASE ClccEnded
  <2>1. BlocksOK' /\ ControlOK' /\ FlagsOK'
    BY <1>1, <1>9 DEF ClccEnded, BlocksOK, ControlOK, FlagsOK, Chains
  <2>2. state'[In] = "START" => state[In] = "START"
    BY <1>9 DEF ClccEnded, BlocksOK, AllCalls
  <2>3. Parts'
    BY <1>1, <1>2, <1>3, <1>9, <2>2 DEF ClccEnded, At, Parts, ChainRuns, CallRuns,
       InIsNotDialled, TriesCounted, FlagsOfCall, Pending, Begun
  <2> QED  BY <1>2, <2>1, <2>3
<1>10. CASE ClccTakenOver
  <2>1. /\ chain = "CLCC" /\ chain' \in {"ATA", "CHLD_1X", "CLCC"} /\ voiceCall' = In
        /\ state' = [state EXCEPT ![voiceCall] = "ENDED"]
        /\ gotList' = FALSE /\ listIsEmpty' = FALSE
        /\ UNCHANGED <<released, delay, dialled>>
    BY <1>10 DEF ClccTakenOver, At
  <2>2. response' \in [AllCalls -> {"NONE", "FAILED", "SUCCESS"}]
    BY <1>10 DEF ClccTakenOver, BlocksOK, AllCalls
  <2>3. BlocksOK' /\ ControlOK' /\ FlagsOK'
    BY <1>1, <2>1, <2>2 DEF BlocksOK, ControlOK, FlagsOK, Chains, AllCalls
  <2>4. state'[In] = "START" => state[In] = "START"
    BY <2>1 DEF BlocksOK, AllCalls
  <2>5. Parts'
    BY <1>1, <1>2, <1>3, <2>1, <2>4 DEF Parts, ChainRuns, CallRuns,
       InIsNotDialled,
       TriesCounted, FlagsOfCall, Pending, Begun
  <2> QED  BY <1>2, <2>3, <2>5
<1>11. CASE ClccNoState
  <2>1. /\ chain = "CLCC" /\ gotList' \in BOOLEAN
        /\ chain' \in {"CHLD_1X", "CHLD", "ATA", "CLCC", "CEER"}
        /\ chain' = "CEER" => listIsEmpty
        /\ UNCHANGED <<state, voiceCall, listIsEmpty, released, delay, dialled>>
    BY <1>11, DecideRange DEF ClccNoState, At, FlagsOK
  <2>2. response' \in [AllCalls -> {"NONE", "FAILED", "SUCCESS"}]
    BY <1>11, DecideRange DEF ClccNoState, BlocksOK
  <2>3. BlocksOK' /\ ControlOK' /\ FlagsOK'
    BY <1>1, <2>1, <2>2 DEF BlocksOK, ControlOK, FlagsOK, Chains
  <2>4. Parts'
    BY <1>1, <1>2, <1>3, <2>1 DEF Parts, ChainRuns, CallRuns, InIsNotDialled,
       TriesCounted, FlagsOfCall, Pending, Begun
  <2> QED  BY <1>2, <2>3, <2>4
<1>12. CASE EndATA
  <2>1. BlocksOK' /\ ControlOK' /\ FlagsOK'
    BY <1>1, <1>12 DEF EndATA, blockVars, BlocksOK, ControlOK, FlagsOK, Chains
  <2>2. Parts'
    BY <1>1, <1>2, <1>3, <1>12 DEF EndATA, At, blockVars, Parts, ChainRuns,
       CallRuns,
       InIsNotDialled, TriesCounted, FlagsOfCall, Pending, Begun
  <2> QED  BY <1>2, <2>1, <2>2
<1>13. CASE EndCHLD \/ EndCEER \/ EndEnd
  <2>1. /\ chain' \in {"end", "idle"} /\ UNCHANGED <<voiceCall, gotList, listIsEmpty, dialled>>
        /\ chain \in {"CHLD_1X", "CHLD", "CEER", "end"}
        /\ released' = (released \/ chain \in {"CHLD_1X", "CHLD"})
        /\ state' \in {state, [state EXCEPT ![voiceCall] = "ENDED"]}
        /\ delay' \in BOOLEAN
    BY <1>13 DEF EndCHLD, EndCEER, EndEnd, At, FlagsOK
  <2>2. response' \in [AllCalls -> {"NONE", "FAILED", "SUCCESS"}]
    BY <1>13 DEF EndCHLD, EndCEER, EndEnd, BlocksOK
  <2>3. BlocksOK' /\ ControlOK' /\ FlagsOK'
    BY <1>1, <2>1, <2>2 DEF BlocksOK, ControlOK, FlagsOK, Chains
  <2>4. state'[In] = "START" => state[In] = "START"
    BY <2>1 DEF BlocksOK, AllCalls
  <2>5. Parts'
    BY <1>1, <1>2, <1>3, <2>1, <2>4 DEF Parts, ChainRuns, CallRuns,
       InIsNotDialled,
       TriesCounted, FlagsOfCall, Pending, Begun
  <2> QED  BY <1>2, <2>3, <2>5
<1> QED
  BY <1>4, <1>5, <1>6, <1>7, <1>8, <1>9, <1>10, <1>11, <1>12, <1>13 DEF Command

(* So does what is not the end of a command: the lines of +CLCC, an engine *)
(* that waits, and the end of the call delay.                              *)
LEMMA WaitKeeps ==
  ASSUME Inv, ClccLine \/ EngineWaits \/ DelayOver
  PROVE  Inv'
<1> USE CallAssumption, TypeSplit DEF Inv, blockVars, chainVars, loopVars
<1>1. /\ UNCHANGED <<callList, blockVars, main, running, came, taken, dialled, lost,
                     chain, voiceCall>>
      /\ turn' # turn => turn = "engine" /\ turn' = "timer"
  BY DEF ClccLine, EngineWaits, DelayOver, Turn
<1>2. ListOK' /\ BlocksOK' /\ \A d \in Call : InList(d)' <=> InList(d)
  BY <1>1 DEF ListOK, BlocksOK, InList
<1>3. ControlOK'
  BY <1>1 DEF ControlOK
<1>4. FlagsOK'
  BY DEF ClccLine, EngineWaits, DelayOver, Turn, FlagsOK
<1>5. /\ released => released'
      /\ listIsEmpty' => listIsEmpty \/ released'
  BY DEF ClccLine, EngineWaits, DelayOver, FlagsOK
<1>6. Parts'
  BY <1>1, <1>2, <1>5 DEF Parts, ChainRuns, CallRuns, InIsNotDialled,
     TriesCounted, FlagsOfCall, Pending, Begun, ControlOK
<1> QED  BY <1>2, <1>3, <1>4, <1>6

(* The periodic keeps it: it ends the incoming call only when no chain runs.*)
LEMMA TimerKeeps ==
  ASSUME Inv, Periodic \/ NoSecond
  PROVE  Inv'
<1> USE CallAssumption, TypeSplit DEF Inv, blockVars, chainVars
<1>1. /\ UNCHANGED <<callList, response, action, tryNum, voiceCall, chain, gotList,
                     listIsEmpty, released, main, delay, came, taken, dialled,
                     lost>>
      /\ turn = "timer" /\ turn' = "switch"
  BY DEF Periodic, NoSecond
<1>2. ListOK' /\ \A d \in Call : InList(d)' <=> InList(d)
  BY <1>1 DEF ListOK, InList
<1>3. timeout' \in [AllCalls -> 0 .. Reload]
  <2>1. CASE Periodic
    <3>1. \A c \in AllCalls : Countdown(timeout[c], c) \in 0 .. Reload
      BY DEF Countdown, BlocksOK
    <3> QED  BY <2>1, <3>1 DEF Periodic
  <2>2. CASE NoSecond
    BY <2>2 DEF NoSecond, BlocksOK
  <2> QED  BY <2>1, <2>2
<1>4. /\ state' \in {state, [state EXCEPT ![In] = "ENDED"]}
      /\ running = 1 => state' = state
      /\ running' \in 0 .. 1
  BY DEF Periodic, NoSecond, ControlOK
<1>5. BlocksOK' /\ ControlOK' /\ FlagsOK'
  BY <1>1, <1>3, <1>4 DEF BlocksOK, ControlOK, FlagsOK
<1>6. state'[In] = "START" => state[In] = "START"
  BY <1>4 DEF BlocksOK, AllCalls
<1>7. Parts'
  BY <1>1, <1>2, <1>4, <1>6 DEF Parts, ChainRuns, CallRuns, InIsNotDialled,
     TriesCounted, FlagsOfCall, Pending, Begun
<1> QED  BY <1>2, <1>5, <1>7

-----------------------------------------------------------------------------
(* The invariant holds in every state of the call task.                    *)
THEOREM Invariance == Spec => []Inv
<1>1. Init => Inv
  <2> SUFFICES ASSUME Init PROVE Inv
    OBVIOUS
  <2>1. ListOK
    BY DEF Init, ListOK, IsInjective
  <2>2. BlocksOK /\ ControlOK /\ FlagsOK
    <3>1. BlocksOK
      BY CallAssumption DEF Init, BlocksOK
    <3>2. ControlOK
      BY CallAssumption DEF Init, ControlOK, AllCalls, Chains
    <3>3. FlagsOK
      BY DEF Init, FlagsOK
    <3> QED  BY <3>1, <3>2, <3>3
  <2>3. Parts
    BY CallAssumption DEF Init, Parts, ChainRuns, CallRuns, InIsNotDialled,
       TriesCounted, FlagsOfCall, Pending, Begun, AllCalls
  <2> QED  BY <2>1, <2>2, <2>3, TypeSplit DEF Inv
<1>2. Inv /\ [Next]_vars => Inv'
  <2> SUFFICES ASSUME Inv, [Next]_vars PROVE Inv'
    OBVIOUS
  <2>1. CASE UNCHANGED vars
    BY <2>1 DEF vars, blockVars, chainVars, loopVars, Inv, TypeOK, Parts,
       ChainRuns,
       CallRuns, InIsNotDialled, TriesCounted, FlagsOfCall, Pending, Begun, InList
  <2> QED
    BY <2>1, AppKeeps, SwitchKeeps, CommandKeeps, WaitKeeps, TimerKeeps DEF Next
<1> QED  BY <1>1, <1>2, PTL DEF Spec

(* Every variable has its type; no call is in the list twice.              *)
THEOREM TypeCorrect == Spec => []TypeOK
BY Invariance, PTL DEF Inv

(* The dial command is never sent for the incoming call                    *)
(* (Ampm_GsmATM1EndCallback).                                              *)
THEOREM DialsANumberHolds == Spec => []DialsANumber
<1>1. Inv => DialsANumber
  BY DEF Inv, Parts, InIsNotDialled, DialsANumber
<1> QED  BY <1>1, Invariance, PTL

(* Each try dials at most once (Ampm_CallTask).                            *)
THEOREM OneDialPerTryHolds == Spec => []OneDialPerTry
<1>1. Inv => OneDialPerTry
  <2> SUFFICES ASSUME Inv, NEW c \in Call, dialled[c] > 0
               PROVE  dialled[c] + tryNum[c] <= Tries
    BY DEF OneDialPerTry
  <2>1. /\ dialled[c] \in Nat /\ tryNum[c] \in Nat /\ Tries \in Nat
        /\ dialled[c] + tryNum[c] + (IF Pending(c) THEN 1 ELSE 0) <= Tries
    BY CallAssumption DEF Inv, TypeOK, Parts, TriesCounted
  <2> QED  BY <2>1
<1> QED  BY <1>1, Invariance, PTL

(* Once the call task has come to an incoming call, the periodic leaves it *)
(* alone in its first state (Ampm_CallTaskPeriodic_1Sec): the chain that   *)
(* looks after it ends it.                                                 *)
THEOREM TakenIsLookedAfterHolds == Spec => TakenIsLookedAfter
<1> DEFINE Good ==
      \/ chain \in {"CHLD_1X", "CEER", "end"}
      \/ chain = "CLCC" /\ chain' = "CHLD_1X"
      \/ taken
<1>1. Inv /\ [Next]_vars =>
        [state[In] = "START" /\ state'[In] = "ENDED" => Good]_vars
  <2> SUFFICES ASSUME Inv, Next, state[In] = "START", state'[In] = "ENDED"
               PROVE  Good
    BY DEF Good
  <2> USE CallAssumption DEF Inv, blockVars
  <2>1. state[In] # state'[In] /\ state' # state
    OBVIOUS
  <2>2. CASE App
    <3>1. state'[In] = state[In]
      BY <2>2 DEF App, Setup, Cancel, SetAction, TypeOK, AllCalls
    <3> QED  BY <2>1, <3>1
  <2>3. CASE Switch
    <3>1. state'[In] # "ENDED"
      BY <2>3 DEF Switch, IdleTakes, IdleCallsOut, IdleLeaves, ElseCase,
         StartOver, IdleEnd, CallTaskWaits,
         CallTaskIncoming, CallTaskAttempt, CallTaskRemove, CallTaskDone, TypeOK,
         AllCalls
    <3> QED  BY <3>1
  <2>4. CASE Command
    <3>1. CASE ClccState
      <4>1. \A s \in Reported : s # "ENDED"
        BY DEF Reported
      <4>2. state'[In] # "ENDED"
        BY <2>1, <3>1, <4>1 DEF ClccState, TypeOK, AllCalls
      <4> QED  BY <4>2
    <3>2. CASE ClccTakenOver
      BY <2>1, <3>2 DEF ClccTakenOver, TypeOK
    <3>3. CASE ~ClccState /\ ~ClccTakenOver
      BY <2>1, <2>4, <3>3 DEF Command, EndSetup, EndATM, EndATD, ClccTimeout,
         ClccEnded,
         ClccNoState, EndATA, EndCHLD, EndCEER, EndEnd, At
    <3> QED  BY <3>1, <3>2, <3>3
  <2>5. CASE ClccLine \/ EngineWaits \/ NoSecond \/ DelayOver
    BY <2>1, <2>5 DEF ClccLine, EngineWaits, NoSecond, DelayOver
  <2>6. CASE Periodic
    BY <2>1, <2>6 DEF Periodic, TypeOK, Parts, CallRuns
  <2> QED  BY <2>2, <2>3, <2>4, <2>5, <2>6 DEF Next
<1> QED  BY <1>1, Invariance, PTL DEF Spec, TakenIsLookedAfter

(* The chain of a call that was dialled comes to rest when it was hung up  *)
(* or there is no call (Ampm_GsmCallEndCallback).                          *)
THEOREM HungUpAtRestHolds == Spec => HungUpAtRest
<1>1. Inv => [chain = "end" /\ chain' = "idle" /\ voiceCall \in Call => released]_vars
  BY DEF Inv, Parts, FlagsOfCall
<1> QED  BY <1>1, Invariance, PTL DEF Spec, HungUpAtRest

=============================================================================
