----------------------------- MODULE SmsReceive -----------------------------
(***************************************************************************)
(* ampm_gsm/ampm_gsm_sms.c, the messages that come in: the modem announces *)
(* them or lists them, the interrupt puts the number of the place each is  *)
(* stored in into a ring, and the command chain of the main task takes one *)
(* number after the other, has the message read, gives its text to the     *)
(* application and has it deleted.                                         *)
(*                                                                         *)
(* The command engine is taken at the grain AtCmdEngine justifies: each    *)
(* command of the chain ends once, sooner or later than the modem answers, *)
(* and then its end callback runs; none of them looks at the outcome.      *)
(*                                                                         *)
(* The modem is external.  It stores messages, answers one read at a time, *)
(* late or not at all, and may be reset in the middle.                     *)
(***************************************************************************)
EXTENDS Integers, Sequences, SysTick

CONSTANTS
  MaxMsgs,    \* bound: messages that come in, numbered in their order
  Slot,       \* the numbers of the places the modem stores them in
  Cap,        \* bytes smsUnreadRingBuff holds: 31
  Tries,      \* readTryCnt after a number is taken: 3
  ReadTime,   \* SYSTICK_TIME_SEC(3)
  MaxTick,    \* the largest tick
  MaxResets   \* bound: modem resets in a behaviour

ASSUME ReceiveAssumption ==
  /\ Slot \subseteq 0 .. 999
  /\ MaxMsgs \in Nat /\ Cap \in Nat /\ Tries \in Nat /\ MaxResets \in Nat
  /\ MaxTick \in Nat /\ ReadTime \in 1 .. MaxTick - 1

VARIABLES
  slot,        \* the modem: the message in each place, or Empty
  listing,     \*   places that it has still to list
  answering,   \*   the message whose text it is sending, or Empty
  smsUnread,   \* the bytes in smsUnreadRingBuff
  chain,       \* the command of the chain, or its end callback
  smsIndex,
  readTryCnt,
  flagSmsReadFinish,
  smsDataBuf,  \* the message whose text it holds, or Other
  tick,        \* sysTickCounter32
  timer,       \* tSmsTaskTimeOut
  resets,      \* modem resets so far
  arrived,     \* messages that have come in
  handed,      \* history: those in the modem given whole to the application
  fresh,       \* history: the last text that came in is that of smsIndex
  loads,       \* history: reads since smsIndex was taken
  age,         \* history: ticks since timer was started
  excuse,      \* history: why smsIndex is to be deleted unread
  overflowed   \* history: the ring had no room for a number

modemVars == <<slot, listing, answering, arrived>>
timeVars  == <<tick, timer, age>>
readVars  == <<smsIndex, readTryCnt, loads>>
bufVars   == <<flagSmsReadFinish, smsDataBuf, fresh>>
vars == <<modemVars, smsUnread, chain, readVars, bufVars, timeVars, resets,
          handed, excuse, overflowed>>

Byte == 0 .. 255
Word == {n \in Nat : n <= 65535}
Msg == 1 .. MaxMsgs
Empty == 0
Other == -1
Chains == {"idle", "CMGF", "CMGL", "CMGLwait", "CMGR", "CMGRwait",
           "poll", "CMGD", "end"}

\* The messages that are in the modem.
Stored == {slot[i] : i \in Slot} \ {Empty}

ModemOK ==
  /\ slot \in [Slot -> Msg \cup {Empty}]
  /\ listing \subseteq Slot
  /\ answering \in Msg \cup {Empty}
  /\ arrived \in 0 .. MaxMsgs
  /\ resets \in 0 .. MaxResets

RingOK == smsUnread \in Seq(Byte) /\ Len(smsUnread) <= Cap

ReadOK ==
  /\ chain \in Chains
  /\ smsIndex \in Word
  /\ readTryCnt \in 0 .. Tries
  /\ loads \in 0 .. Tries + 1
  /\ excuse \in {"none", "tries", "stale", "reset"}
  /\ smsDataBuf \in Msg \cup {Other}

FlagsOK ==
  /\ flagSmsReadFinish \in BOOLEAN
  /\ fresh \in BOOLEAN /\ overflowed \in BOOLEAN

TimeOK ==
  /\ tick \in 0 .. MaxTick
  /\ timer \in [start_time : 0 .. MaxTick, timeout : {ReadTime},
                crc : 0 .. MaxTick]
  /\ age \in 0 .. ReadTime + 1

HandedOK == handed \subseteq Stored /\ Stored \subseteq 1 .. arrived

TypeOK == ModemOK /\ RingOK /\ ReadOK /\ FlagsOK /\ TimeOK /\ HandedOK

\* Ampm_SmsTask_Init.
Init ==
  /\ slot = [i \in Slot |-> Empty]
  /\ listing = {} /\ answering = Empty
  /\ smsUnread = <<>>
  /\ chain = "idle"
  /\ smsIndex = 0 /\ readTryCnt = 0 /\ loads = 0
  /\ flagSmsReadFinish = FALSE /\ smsDataBuf = Other /\ fresh = FALSE
  /\ tick = 0
  /\ timer = InitTimeout(tick, ReadTime, MaxTick) /\ age = 0
  /\ resets = 0 /\ arrived = 0 /\ handed = {}
  /\ excuse = "none" /\ overflowed = FALSE

-----------------------------------------------------------------------------
(* The modem, and the interrupt that parses what it sends.                 *)

\* RINGBUF_Put, which refuses a byte when the ring is full.
Put(ring, byte) == IF Len(ring) < Cap THEN Append(ring, byte) ELSE ring

\* A faulty pair of puts, the high byte first.
PutHigh(i) ==
  /\ smsUnread' = Put(Put(smsUnread, i \div 256), i % 256)
  /\ overflowed' = (overflowed \/ Len(smsUnread) + 2 > Cap)

\* Ampm_SMS_Process for "+CMTI" and Ampm_SMS_URC_Incomming for "+CMGL": two
\* puts, and no look at their results.
PutIndex(i) ==
  /\ smsUnread' = Put(Put(smsUnread, i % 256), i \div 256)
  /\ overflowed' = (overflowed \/ Len(smsUnread) + 2 > Cap)

\* A message comes in, to the lowest free place.  Its "+CMTI" is parsed, or
\* not seen as one: it is cut short, or falls into a text that
\* Ampm_SMS_ReadMsg is taking in.
Arrive(i) ==
  /\ arrived < MaxMsgs
  /\ arrived' = arrived + 1
  /\ slot[i] = Empty /\ \A j \in Slot : j < i => slot[j] # Empty
  /\ slot' = [slot EXCEPT ![i] = arrived']
  /\ PutIndex(i) \/ UNCHANGED <<smsUnread, overflowed>>
  /\ UNCHANGED <<listing, answering, chain, readVars, bufVars, timeVars,
                 resets, handed, excuse>>

\* One line of the answer to AT+CMGL.
List(i) ==
  /\ i \in listing
  /\ listing' = listing \ {i}
  /\ PutIndex(i)
  /\ UNCHANGED <<arrived, slot, answering, chain, readVars, bufVars, timeVars,
                 resets, handed, excuse>>

\* The answer to AT+CMGR begins before the chain gives up waiting for it, or
\* never: Ampm_SMS_ReadMsg starts to fill smsDataBuf, also for the answer to a
\* repeated command, over a text that is there.  Without a message there is no
\* text in it.
AnswerBegins ==
  /\ chain \in {"CMGRwait", "poll"} /\ answering = Empty
  /\ smsIndex \in Slot /\ slot[smsIndex] # Empty
  /\ answering' = slot[smsIndex]
  /\ smsDataBuf' = Other /\ fresh' = FALSE
  /\ UNCHANGED <<arrived, slot, listing, smsUnread, chain, readVars,
                 flagSmsReadFinish, timeVars, resets, handed, excuse,
                 overflowed>>

\* Its final "OK": flagSmsReadFinish is set, and nothing ever clears it.  The
\* timer is not looked at any more: the model forgets its value.
AnswerEnds ==
  /\ answering # Empty
  /\ answering' = Empty
  /\ smsDataBuf' = answering
  /\ flagSmsReadFinish' = TRUE
  /\ fresh' = (smsIndex \in Slot /\ slot[smsIndex] = answering)
  /\ tick' = 0 /\ age' = 0
  /\ timer' = InitTimeout(0, ReadTime, MaxTick)
  /\ UNCHANGED <<arrived, slot, listing, smsUnread, chain, readVars,
                 resets, handed, excuse, overflowed>>

-----------------------------------------------------------------------------
(* The main task: Ampm_StartRecvSms and the end callbacks of its chain.    *)

Goto(from, to) ==
  /\ chain \in from
  /\ chain' = to

\* Outside the chain the buffer is the sender's: Ampm_GsmSmsSendCallback_CMGS
\* encodes a PDU in it.
EncodePdu ==
  /\ chain = "idle"
  /\ smsDataBuf' = Other /\ fresh' = FALSE
  /\ UNCHANGED <<modemVars, smsUnread, chain, readVars,
                 flagSmsReadFinish, timeVars, resets, handed, excuse,
                 overflowed>>

\* The idle phase of the main task, after a "+CMTI" or a minute; and the
\* commands AT+CSQ and AT+CLIP, whose answers concern nothing here.
StartRecvSms ==
  /\ Goto({"idle"}, "CMGF")
  /\ UNCHANGED <<modemVars, smsUnread, readVars, bufVars, timeVars, resets,
                 handed, excuse, overflowed>>

\* The histories of one number end.
ForgetRead == loads' = 0 /\ fresh' = FALSE /\ excuse' = "none"

\* A faulty take that does not give the new number its tries.
TakeWithoutTries(from, otherwise) ==
  \/ /\ Len(smsUnread) >= 2
     /\ smsUnread' = SubSeq(smsUnread, 3, Len(smsUnread))
     /\ smsIndex' = smsUnread[1] + 256 * smsUnread[2]
     /\ Goto(from, IF smsIndex' >= 1000 THEN "CMGD" ELSE "CMGR")
     /\ UNCHANGED readTryCnt
     /\ ForgetRead
  \/ /\ Len(smsUnread) < 2
     /\ Goto(from, otherwise)
     /\ UNCHANGED <<smsUnread, smsIndex, readTryCnt>>
     /\ ForgetRead

\* Ampm_GsmSmsRecv0 and Ampm_GsmSmsRecv1: the next number, or else another
\* command.  A number no place can have is deleted at once.
Take(from, otherwise) ==
  \/ /\ Len(smsUnread) >= 2
     /\ smsUnread' = SubSeq(smsUnread, 3, Len(smsUnread))
     /\ smsIndex' = smsUnread[1] + 256 * smsUnread[2]
     /\ IF smsIndex' >= 1000
          THEN Goto(from, "CMGD") /\ UNCHANGED readTryCnt
          ELSE Goto(from, "CMGR") /\ readTryCnt' = Tries
     /\ ForgetRead
  \/ /\ Len(smsUnread) < 2
     /\ Goto(from, otherwise)
     /\ UNCHANGED <<smsUnread, smsIndex, readTryCnt>>
     /\ ForgetRead

\* smsRecvCmdProcess_2: Ampm_GsmSmsRecv0.
EndCMGF ==
  /\ Take({"CMGF"}, "CMGL")
  /\ UNCHANGED <<modemVars, flagSmsReadFinish, smsDataBuf, timeVars,
                 resets, handed, overflowed>>

\* smsRecvCmdProcess_3 is sent, and its end: Ampm_GsmSmsRecv1.
SendCMGL ==
  /\ Goto({"CMGL"}, "CMGLwait")
  /\ listing' = {i \in Slot : slot[i] # Empty}
  /\ UNCHANGED <<arrived, slot, answering, smsUnread, readVars, bufVars,
                 timeVars, resets, handed, excuse, overflowed>>

EndCMGL ==
  /\ Take({"CMGLwait"}, "end")
  /\ UNCHANGED <<modemVars, flagSmsReadFinish, smsDataBuf, timeVars,
                 resets, handed, overflowed>>

StartTimer ==
  /\ timer' = InitTimeout(tick, ReadTime, MaxTick)
  /\ age' = 0
  /\ UNCHANGED tick

\* smsRecvCmdProcess_4 is sent, Ampm_GsmSmsRecvCallback_CMGR, for the last
\* time if the engine retries it.
SendCMGR ==
  /\ Goto({"CMGR"}, "CMGRwait")
  /\ loads' = IF loads <= Tries THEN loads + 1 ELSE loads
  /\ StartTimer
  /\ UNCHANGED <<modemVars, smsUnread, smsIndex, readTryCnt, bufVars, resets,
                 handed, excuse, overflowed>>

\* Its end: Ampm_GsmSmsRecv2 is called from now on until it returns 1.
EndCMGR ==
  /\ Goto({"CMGRwait"}, "poll")
  /\ UNCHANGED <<modemVars, smsUnread, readVars, bufVars, timeVars, resets,
                 handed, excuse, overflowed>>

TimedOut == CheckTimeout(timer, tick, MaxTick) = 0

Because(why) == excuse' = IF excuse = "reset" THEN excuse ELSE why

\* A faulty end callback that deletes without giving the text away.
DeleteFinished ==
  /\ flagSmsReadFinish
  /\ Goto({"poll"}, "CMGD")
  /\ Because(IF fresh THEN "none" ELSE "stale")
  /\ UNCHANGED <<modemVars, smsUnread, readVars, bufVars, timeVars, resets,
                 handed, overflowed>>

\* Ampm_GsmSmsRecv2: a text has come in - this one or an earlier one.
ReadFinished ==
  /\ flagSmsReadFinish
  /\ Goto({"poll"}, "CMGD")
  /\ handed' = handed \cup ({smsDataBuf} \cap Stored)
  /\ Because(IF fresh THEN "none" ELSE "stale")
  /\ UNCHANGED <<modemVars, smsUnread, readVars, bufVars, timeVars, resets,
                 overflowed>>

\* It has not, in three seconds: escape, and the same command again.
ReadAgain ==
  /\ ~flagSmsReadFinish /\ TimedOut /\ readTryCnt > 0
  /\ Goto({"poll"}, "CMGR")
  /\ readTryCnt' = readTryCnt - 1
  /\ StartTimer
  /\ UNCHANGED <<modemVars, smsUnread, smsIndex, loads, bufVars,
                 resets, handed, excuse, overflowed>>

\* The message is given up, and deleted.
GiveUp ==
  /\ ~flagSmsReadFinish /\ TimedOut /\ readTryCnt = 0
  /\ Goto({"poll"}, "CMGD")
  /\ Because("tries")
  /\ UNCHANGED <<modemVars, smsUnread, readVars, bufVars, timeVars, resets,
                 handed, overflowed>>

\* smsRecvCmdProcess_5 and its end: Ampm_GsmSmsRecv1.  The modem has deleted
\* what is in the place, or it has failed to.
EndCMGD(deleted) ==
  /\ Take({"CMGD"}, "end")
  /\ slot' = IF deleted /\ smsIndex \in Slot
               THEN [slot EXCEPT ![smsIndex] = Empty]
               ELSE slot
  /\ handed' = handed \cap Stored'
  /\ UNCHANGED <<arrived, listing, answering, flagSmsReadFinish, smsDataBuf,
                 timeVars, resets, overflowed>>

\* smsRecvCmdProcess_end, and Ampm_RecvSms_IsFinished.
EndEnd ==
  /\ Goto({"end"}, "idle")
  /\ UNCHANGED <<modemVars, smsUnread, readVars, bufVars, timeVars, resets,
                 handed, excuse, overflowed>>

-----------------------------------------------------------------------------
\* The tick, as far as the timer is looked at; the main loop looks at it in
\* every tick.
Tick ==
  /\ chain = "poll" /\ ~flagSmsReadFinish
  /\ age <= ReadTime
  /\ tick' = Wrapped(tick + 1, MaxTick)
  /\ age' = age + 1
  /\ UNCHANGED <<modemVars, smsUnread, chain, readVars, bufVars, timer, resets,
                 handed, excuse, overflowed>>

\* A modem reset puts the engine to OK in the middle of a command: the rest
\* of the chain goes on, or a command of the startup takes its place.  The
\* modem forgets what it was asked; the ring and smsIndex stay.
AfterReset(c) ==
  {"idle"} \cup CASE c = "CMGF" -> {"CMGL"}
                  [] c \in {"CMGL", "CMGLwait"} -> {"CMGR"}
                  [] c \in {"CMGR", "CMGRwait", "poll"} -> {"CMGD"}
                  [] OTHER -> {}

ModemReset ==
  /\ resets < MaxResets /\ chain # "idle"
  /\ resets' = resets + 1
  /\ chain' \in AfterReset(chain)
  /\ excuse' = "reset"
  /\ listing' = {} /\ answering' = Empty
  /\ UNCHANGED <<arrived, slot, smsUnread, readVars, bufVars, timeVars, handed,
                 overflowed>>

-----------------------------------------------------------------------------
Modem == (\E i \in Slot : List(i)) \/ AnswerBegins \/ AnswerEnds

Chain == \/ EndCMGF \/ SendCMGL \/ EndCMGL \/ SendCMGR
         \/ EndCMGR \/ ReadFinished \/ ReadAgain \/ GiveUp
         \/ (\E deleted \in BOOLEAN : EndCMGD(deleted)) \/ EndEnd

Next ==
  \/ \E i \in Slot : Arrive(i)
  \/ Modem
  \/ EncodePdu \/ StartRecvSms \/ Chain
  \/ Tick
  \/ ModemReset

Spec == Init /\ [][Next]_vars

(* AtCmdEngine ends every command and the tick never stops.  A modem that  *)
(* is asked to delete a message for ever does so at last, and lists what it*)
(* has begun to list.  Nothing is assumed of the main task: SLEEP and the  *)
(* data mode need never be left, and IDLE starts the chain when it comes.  *)
FairSpec ==
  /\ Spec
  /\ WF_vars(Chain)
  /\ WF_vars(Tick)
  /\ WF_vars(\E i \in Slot : List(i))
  /\ SF_vars(EndCMGD(TRUE))

-----------------------------------------------------------------------------
(* A message is deleted only after its own text was given whole to the     *)
(* application, but for three reasons: all of its reads timed out, the     *)
(* chain was pushed on by a modem reset, or flagSmsReadFinish, which is    *)
(* never cleared, still told of an earlier text (sms.c:341).  No mixture of*)
(* announced, listed and repeated numbers adds a fourth.                   *)
ReadBeforeDeleted ==
  [][\A i \in Slot :
       slot[i] # Empty /\ slot'[i] = Empty
         => slot[i] \in handed \/ excuse # "none"]_vars

(* A message is given up only after it was asked for Tries + 1 times, and  *)
(* three seconds were waited for each, wherever the tick wraps.            *)
GivenUpLate ==
  [][(GiveUp \/ ReadAgain) =>
       /\ age >= ReadTime
       /\ GiveUp /\ excuse # "reset" => loads = Tries + 1]_vars

(* Every message leaves its place in the modem, announced or not, late or  *)
(* not, if three things hold that the code does not promise: the main task *)
(* starts the chain again and again; the ring always had room for a number *)
(* (from then on its bytes are paired wrongly, sms.c:768, 810, and none is *)
(* right any more); and at some time no more messages come (MaxMsgs), since*)
(* AT+CMGL, which finds the unannounced ones, is sent on an empty ring.    *)
Reading == chain # "idle"
EveryMessageLeaves ==
  ([]~overflowed) /\ ([]<>Reading) =>
     \A i \in Slot : slot[i] # Empty ~> slot[i] = Empty
=============================================================================
