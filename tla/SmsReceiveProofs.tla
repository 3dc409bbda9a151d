--------------------------- MODULE SmsReceiveProofs ---------------------------
(***************************************************************************)
(* What a timeout is worth on a tick that wraps, for every width of the    *)
(* tick and every start; and from it, why a message that comes in is read  *)
(* before it is deleted and not given up early, for any number of messages,*)
(* of places in the modem, of tries and of resets.                         *)
(***************************************************************************)
EXTENDS SmsReceive, SequenceTheorems, TLAPS

\* The ticks counted in passed ticks from start, none of them twice.
Later(start, passed, maxTick) == Wrapped(start + passed, maxTick)

(* The remainder of a sum of a tick and less than one round of the word    *)
(* (sysTickCounter32++, sys_tick.c:26).                                    *)
LEMMA WrappedCases ==
  ASSUME NEW maxTick \in Nat,
         NEW start \in 0 .. maxTick, NEW passed \in 0 .. maxTick
  PROVE  Later(start, passed, maxTick) =
           IF start + passed <= maxTick THEN start + passed
                                        ELSE start + passed - (maxTick + 1)
<1> DEFINE m == maxTick + 1
           n == start + passed
<1>1. m \in Nat /\ m > 0 /\ n \in 0 .. 2 * m - 2
  OBVIOUS
<1>2. CASE n <= maxTick
  <2>1. n % m = n
    BY <1>1, <1>2
  <2> QED  BY <1>2, <2>1 DEF Later, Wrapped
<1>3. CASE n > maxTick
  <2>1. n - m \in 0 .. maxTick
    BY <1>1, <1>3
  <2>2. n % m = n - m
    BY <1>1, <2>1
  <2> QED  BY <1>3, <2>2 DEF Later, Wrapped
<1> QED  BY <1>1, <1>2, <1>3

(* The difference that CheckTimeout computes is what has passed, or one    *)
(* less once the tick has wrapped (sys_tick.c:67-70).                      *)
LEMMA ElapsedBounds ==
  ASSUME NEW maxTick \in Nat,
         NEW start \in 0 .. maxTick, NEW passed \in 0 .. maxTick
  PROVE  LET elapsed == Elapsed(Later(start, passed, maxTick), start, maxTick)
         IN  /\ elapsed \in 0 .. passed
             /\ elapsed >= passed - 1
             /\ start + passed <= maxTick => elapsed = passed
<1>1. CASE start + passed <= maxTick
  <2>1. Later(start, passed, maxTick) = start + passed
    BY <1>1, WrappedCases
  <2> QED  BY <1>1, <2>1 DEF Elapsed
<1>2. CASE start + passed > maxTick
  <2>1. Later(start, passed, maxTick) = start + passed - (maxTick + 1)
    BY <1>2, WrappedCases
  <2> QED  BY <1>2, <2>1 DEF Elapsed
<1> QED  BY <1>1, <1>2

(* A timeout that was started with InitTimeout has an intact checksum, so  *)
(* what CheckTimeout answers depends on the elapsed ticks alone.           *)
LEMMA CheckIsElapsed ==
  ASSUME NEW maxTick \in Nat, NEW timeout \in Nat,
         NEW start \in 0 .. maxTick, NEW now
  PROVE  CheckTimeout(InitTimeout(start, timeout, maxTick), now, maxTick) =
           IF Elapsed(now, start, maxTick) >= timeout
             THEN 0 ELSE timeout - Elapsed(now, start, maxTick)
BY DEF CheckTimeout, InitTimeout

(* CheckTimeout answers SYSTICK_TIMEOUT only when the whole timeout has    *)
(* passed, wherever in the word it was started.                            *)
THEOREM NeverEarly ==
  ASSUME NEW maxTick \in Nat, NEW timeout \in 1 .. maxTick,
         NEW start \in 0 .. maxTick, NEW passed \in 0 .. maxTick,
         CheckTimeout(InitTimeout(start, timeout, maxTick),
                      Later(start, passed, maxTick), maxTick) = 0
  PROVE  passed >= timeout
<1> DEFINE elapsed == Elapsed(Later(start, passed, maxTick), start, maxTick)
<1>1. elapsed \in 0 .. passed
  BY ElapsedBounds
<1>2. elapsed >= timeout
  <2> SUFFICES ASSUME elapsed < timeout PROVE FALSE
    BY <1>1
  <2>1. timeout - elapsed = 0
    BY <1>1, CheckIsElapsed
  <2> QED  BY <1>1, <2>1
<1> HIDE DEF elapsed
<1> QED  BY <1>1, <1>2

(* It answers SYSTICK_TIMEOUT one tick after the timeout has passed at the *)
(* latest, and at once when the tick did not wrap in between.              *)
THEOREM AtMostOneTickLate ==
  ASSUME NEW maxTick \in Nat, NEW timeout \in 1 .. maxTick,
         NEW start \in 0 .. maxTick, NEW passed \in 0 .. maxTick,
         \/ passed >= timeout + 1
         \/ passed >= timeout /\ start + passed <= maxTick
  PROVE  CheckTimeout(InitTimeout(start, timeout, maxTick),
                      Later(start, passed, maxTick), maxTick) = 0
<1> DEFINE elapsed == Elapsed(Later(start, passed, maxTick), start, maxTick)
<1>1. /\ elapsed \in 0 .. passed
      /\ elapsed >= passed - 1
      /\ start + passed <= maxTick => elapsed = passed
  BY ElapsedBounds
<1>2. elapsed >= timeout
  BY <1>1
<1> QED  BY <1>2, CheckIsElapsed

-----------------------------------------------------------------------------
(* The timer was made by InitTimeout, and age is what has passed since.    *)
TimerRuns ==
  /\ timer = InitTimeout(timer.start_time, ReadTime, MaxTick)
  /\ tick = Later(timer.start_time, age, MaxTick)

(* Each try that is left and each read that was made is one of Tries + 1.  *)
ReadsCounted == excuse # "reset" =>
  /\ chain = "CMGR" => loads + readTryCnt = Tries
  /\ chain \in {"CMGRwait", "poll"} => loads + readTryCnt = Tries + 1

(* A fresh text is that of the message in the place the chain works on.    *)
FreshIsOwn == fresh =>
  smsIndex \in Slot /\ smsDataBuf = slot[smsIndex] /\ smsDataBuf \in Msg

(* What is to be deleted without an excuse was given away.                 *)
ReadIsHanded ==
  chain = "CMGD" /\ excuse = "none" /\ smsIndex \in Slot => slot[smsIndex] \in handed

Parts == TimerRuns /\ ReadsCounted /\ FreshIsOwn /\ ReadIsHanded

Inv == TypeOK /\ Parts

(* A message is stored when it is in a place.                              *)
LEMMA StoredPlaces ==
  /\ \A x : x \in Stored <=> x # Empty /\ \E i \in Slot : slot[i] = x
  /\ \A x : x \in Stored' <=> x # Empty /\ \E i \in Slot : slot'[i] = x
BY DEF Stored, Empty

-----------------------------------------------------------------------------
(* RINGBUF_Put keeps to the room there is.                                 *)
LEMMA PutFits ==
  ASSUME NEW ring \in Seq(Byte), Len(ring) <= Cap, NEW byte \in Byte
  PROVE  Put(ring, byte) \in Seq(Byte) /\ Len(Put(ring, byte)) <= Cap
<1>1. Append(ring, byte) \in Seq(Byte) /\ Len(Append(ring, byte)) = Len(ring) + 1
  OBVIOUS
<1>2. Len(ring) \in Nat /\ Cap \in Nat
  BY ReceiveAssumption
<1> QED  BY <1>1, <1>2 DEF Put

(* So does the number of a message (Ampm_SMS_Process).                     *)
LEMMA IndexFits ==
  ASSUME RingOK, NEW i \in Slot, PutIndex(i)
  PROVE  RingOK' /\ overflowed' \in BOOLEAN
<1>1. i \in 0 .. 999
  BY ReceiveAssumption
<1>2. i % 256 \in Byte /\ i \div 256 \in Byte
  BY <1>1 DEF Byte
<1> DEFINE first == Put(smsUnread, i % 256)
<1>3. first \in Seq(Byte) /\ Len(first) <= Cap
  BY <1>2, PutFits DEF RingOK
<1>4. Put(first, i \div 256) \in Seq(Byte) /\ Len(Put(first, i \div 256)) <= Cap
  BY <1>2, <1>3, PutFits
<1>5. RingOK'
  BY <1>4 DEF RingOK, PutIndex
<1>6. overflowed' \in BOOLEAN
  BY DEF PutIndex
<1> QED  BY <1>5, <1>6

(* Two bytes make a number of sixteen bits.                                *)
LEMMA NumberOfBytes ==
  ASSUME NEW low \in Byte, NEW high \in Byte
  PROVE  low + 256 * high \in Word
<1>1. \A byte \in Byte : byte \in Nat /\ byte <= 255
  BY DEF Byte
<1>2. low \in Nat /\ low <= 255 /\ high \in Nat /\ high <= 255
  BY <1>1
<1> QED  BY <1>2 DEF Word

(* What is left of the ring without its first two bytes.                   *)
LEMMA RingWithoutTwo ==
  ASSUME NEW ring \in Seq(Byte), Len(ring) >= 2
  PROVE  /\ SubSeq(ring, 3, Len(ring)) \in Seq(Byte)
         /\ Len(SubSeq(ring, 3, Len(ring))) <= Len(ring)
         /\ ring[1] \in Byte /\ ring[2] \in Byte
<1> DEFINE n == Len(ring)
<1>1. n \in Nat /\ \A k \in 1 .. n : ring[k] \in Byte
  OBVIOUS
<1>2. /\ SubSeq(ring, 3, n) \in Seq(Byte)
      /\ Len(SubSeq(ring, 3, n)) = IF 3 <= n THEN n - 3 + 1 ELSE 0
  BY <1>1, SubSeqProperties
<1>3. (IF 3 <= n THEN n - 3 + 1 ELSE 0) <= n
  BY <1>1
<1> QED  BY <1>1, <1>2, <1>3

(* The next number, with all its tries; one that no place has; or none.    *)
LEMMA TakeTakes ==
  ASSUME RingOK, ReadOK, NEW from, NEW otherwise, Take(from, otherwise)
  PROVE  /\ RingOK'
         /\ chain \in from
         /\ loads' = 0 /\ fresh' = FALSE /\ excuse' = "none"
         /\ smsIndex' \in Word /\ readTryCnt' \in 0 .. Tries
         /\ \/ chain' = "CMGR" /\ readTryCnt' = Tries
            \/ chain' = "CMGD" /\ smsIndex' >= 1000
            \/ chain' = otherwise
<1>0. smsUnread \in Seq(Byte) /\ Len(smsUnread) \in Nat /\ Len(smsUnread) <= Cap
  BY DEF RingOK
<1>1. CASE Len(smsUnread) >= 2
  <2>1. /\ smsUnread' = SubSeq(smsUnread, 3, Len(smsUnread))
        /\ smsIndex' = smsUnread[1] + 256 * smsUnread[2]
    BY <1>0, <1>1 DEF Take, ForgetRead, Goto
  <2>2. RingOK'
    BY <1>0, <1>1, <2>1, RingWithoutTwo, ReceiveAssumption DEF RingOK
  <2>3. smsIndex' \in Word
    <3>1. smsUnread[1] \in Byte /\ smsUnread[2] \in Byte
      BY <1>0, <1>1, RingWithoutTwo
    <3>2. smsUnread[1] + 256 * smsUnread[2] \in Word
      BY <3>1, NumberOfBytes, Zenon
    <3> QED  BY <2>1, <3>2, Zenon
  <2>4. /\ chain \in from /\ loads' = 0 /\ fresh' = FALSE /\ excuse' = "none"
        /\ readTryCnt' \in 0 .. Tries
        /\ \/ chain' = "CMGR" /\ readTryCnt' = Tries
           \/ chain' = "CMGD" /\ smsIndex' >= 1000
    BY <1>0, <1>1, <2>3, ReceiveAssumption DEF Take, ReadOK, ForgetRead, Goto
  <2> QED  BY <2>2, <2>3, <2>4
<1>2. CASE Len(smsUnread) < 2
  <2>1. /\ chain \in from /\ chain' = otherwise
        /\ UNCHANGED <<smsUnread, smsIndex, readTryCnt>>
        /\ loads' = 0 /\ fresh' = FALSE /\ excuse' = "none"
    BY <1>0, <1>2 DEF Take, ForgetRead, Goto
  <2> QED  BY <2>1 DEF RingOK, ReadOK
<1>3. Len(smsUnread) >= 2 \/ Len(smsUnread) < 2
  BY <1>0
<1> QED  BY <1>1, <1>2, <1>3, Zenon

(* The tick goes on from where the timer was started (sys_tick.c:26).      *)
LEMMA TickLater ==
  ASSUME NEW maxTick \in Nat, NEW start \in 0 .. maxTick,
         NEW passed \in 0 .. maxTick - 1
  PROVE  Wrapped(Later(start, passed, maxTick) + 1, maxTick)
           = Later(start, passed + 1, maxTick)
<1> DEFINE now == Later(start, passed, maxTick)
<1>1. now = IF start + passed <= maxTick THEN start + passed
                                         ELSE start + passed - (maxTick + 1)
  BY WrappedCases
<1>2. now \in 0 .. maxTick
  BY <1>1
<1>3. Wrapped(now + 1, maxTick) = Later(now, 1, maxTick)
  BY DEF Later
<1>4. Later(now, 1, maxTick) = IF now + 1 <= maxTick THEN now + 1
                                                     ELSE now + 1 - (maxTick + 1)
  BY <1>2, WrappedCases
<1>5. Later(start, passed + 1, maxTick) =
        IF start + (passed + 1) <= maxTick THEN start + (passed + 1)
                                  ELSE start + (passed + 1) - (maxTick + 1)
  BY WrappedCases
<1>6. Later(now, 1, maxTick) = Later(start, passed + 1, maxTick)
  <2> HIDE DEF now
  <2> QED  BY <1>1, <1>4, <1>5
<1> QED  BY <1>3, <1>6

(* A timer that is started now (InitTimeout, sys_tick.c:53).               *)
LEMMA TimerStarts ==
  ASSUME NEW now \in 0 .. MaxTick, tick' = now, age' = 0,
         timer' = InitTimeout(now, ReadTime, MaxTick)
  PROVE  TimeOK' /\ TimerRuns'
<1> USE ReceiveAssumption
<1>1. Later(now, 0, MaxTick) = now
  <2>1. 0 \in 0 .. MaxTick /\ now + 0 = now /\ now + 0 <= MaxTick
    OBVIOUS
  <2> QED  BY <2>1, WrappedCases
<1>2. now + ReadTime \in Nat /\ ReadTime \in 0 .. MaxTick
  OBVIOUS
<1>3. Wrapped(now + ReadTime, MaxTick) \in 0 .. MaxTick
  <2>1. Later(now, ReadTime, MaxTick)
          = IF now + ReadTime <= MaxTick THEN now + ReadTime
                                         ELSE now + ReadTime - (MaxTick + 1)
    BY <1>2, WrappedCases
  <2>2. Later(now, ReadTime, MaxTick) \in 0 .. MaxTick
    BY <1>2, <2>1
  <2> QED  BY <2>2 DEF Later
<1>4. timer'.start_time = now
  BY DEF InitTimeout
<1>5. timer' \in [start_time : 0 .. MaxTick, timeout : {ReadTime}, crc : 0 .. MaxTick]
  BY <1>3 DEF InitTimeout
<1>6. TimeOK'
  BY <1>5 DEF TimeOK
<1> QED  BY <1>1, <1>4, <1>6 DEF TimerRuns

(* What a step leaves alone stays as it was.                               *)
LEMMA Frames ==
  /\ ModemOK /\ UNCHANGED <<modemVars, resets>> => ModemOK'
  /\ RingOK /\ UNCHANGED smsUnread => RingOK'
  /\ TimeOK /\ TimerRuns /\ UNCHANGED timeVars => TimeOK' /\ TimerRuns'
  /\ ReadOK /\ UNCHANGED <<chain, readVars, excuse, smsDataBuf>> => ReadOK'
  /\ FlagsOK /\ UNCHANGED bufVars /\ overflowed' \in BOOLEAN => FlagsOK'
  /\ UNCHANGED slot => Stored' = Stored
  /\ HandedOK /\ UNCHANGED <<slot, arrived, handed>> => HandedOK'
<1>1. ModemOK /\ UNCHANGED <<modemVars, resets>> => ModemOK'
  BY DEF ModemOK, modemVars
<1>2. RingOK /\ UNCHANGED smsUnread => RingOK'
  BY DEF RingOK
<1>3. TimeOK /\ TimerRuns /\ UNCHANGED timeVars => TimeOK' /\ TimerRuns'
  BY DEF TimeOK, TimerRuns, timeVars
<1>4. UNCHANGED slot => Stored' = Stored
  BY DEF Stored
<1>5. HandedOK /\ UNCHANGED <<slot, arrived, handed>> => HandedOK'
  BY <1>4 DEF HandedOK
<1>6. ReadOK /\ UNCHANGED <<chain, readVars, excuse, smsDataBuf>> => ReadOK'
  BY DEF ReadOK, readVars
<1>7. FlagsOK /\ UNCHANGED bufVars /\ overflowed' \in BOOLEAN => FlagsOK'
  BY DEF FlagsOK, bufVars
<1> QED  BY <1>1, <1>2, <1>3, <1>4, <1>5, <1>6, <1>7

-----------------------------------------------------------------------------
(* The modem and the interrupt keep the invariant: a message that comes in *)
(* takes a free place, never that of the message that is worked on.        *)
LEMMA ArriveKeeps ==
  ASSUME Inv, NEW i \in Slot, Arrive(i)
  PROVE  Inv'
<1> USE ReceiveAssumption DEF Inv, Parts, TypeOK
<1>1. /\ arrived < MaxMsgs /\ arrived' = arrived + 1
      /\ slot[i] = Empty /\ slot' = [slot EXCEPT ![i] = arrived']
      /\ UNCHANGED <<listing, answering, chain, readVars, bufVars, timeVars,
                     resets, handed, excuse>>
  BY DEF Arrive
<1>2. arrived' \in Msg /\ arrived' # Empty /\ arrived' \in 0 .. MaxMsgs
  BY <1>1 DEF ModemOK, Msg, Empty
<1>3. ModemOK'
  BY <1>1, <1>2 DEF ModemOK
<1>4. RingOK' /\ overflowed' \in BOOLEAN
  <2>1. CASE PutIndex(i)
    BY <2>1, IndexFits
  <2>2. CASE UNCHANGED <<smsUnread, overflowed>>
    BY <2>2 DEF RingOK, FlagsOK
  <2> QED  BY <2>1, <2>2 DEF Arrive
<1>5. ReadOK' /\ FlagsOK'
  BY <1>1, <1>4, Frames DEF bufVars
<1>6. TimeOK' /\ TimerRuns'
  BY <1>1, Frames
<1>7. \A j \in Slot : slot[j] # Empty => slot'[j] = slot[j]
  BY <1>1 DEF ModemOK
<1>8. Stored \subseteq Stored' /\ Stored' \subseteq Stored \cup {arrived'}
  <2>1. \A j \in Slot : slot'[j] = slot[j] \/ slot'[j] = arrived'
    BY <1>1 DEF ModemOK
  <2>2. ASSUME NEW x \in Stored PROVE x \in Stored'
    BY <1>7, StoredPlaces
  <2>3. ASSUME NEW x \in Stored' PROVE x \in Stored \cup {arrived'}
    BY <2>1, StoredPlaces
  <2> QED  BY <2>2, <2>3
<1>9. HandedOK'
  <2>1. \A x \in 1 .. arrived : x \in 1 .. arrived'
    BY <1>1 DEF ModemOK
  <2>2. arrived' \in 1 .. arrived'
    BY <1>1 DEF ModemOK
  <2> QED  BY <1>1, <1>8, <2>1, <2>2 DEF HandedOK
<1>10. FreshIsOwn'
  <2>1. \A x \in Msg : x # Empty
    BY DEF Msg, Empty
  <2> QED  BY <1>1, <1>7, <2>1 DEF FreshIsOwn, readVars, bufVars
<1>11. ReadIsHanded'
  <2>1. \A x \in handed : x # Empty
    BY StoredPlaces DEF HandedOK
  <2> QED  BY <1>1, <1>7, <2>1 DEF ReadIsHanded, readVars
<1>12. ReadsCounted'
  BY <1>1 DEF ReadsCounted, readVars
<1> QED  BY <1>3, <1>4, <1>5, <1>6, <1>9, <1>10, <1>11, <1>12

LEMMA ListKeeps ==
  ASSUME Inv, NEW i \in Slot, List(i)
  PROVE  Inv'
<1> USE DEF Inv, Parts, TypeOK
<1>1. /\ listing' = listing \ {i} /\ PutIndex(i)
      /\ UNCHANGED <<arrived, slot, answering, chain, readVars, bufVars,
                     timeVars, resets, handed, excuse>>
  BY DEF List
<1>2. RingOK' /\ overflowed' \in BOOLEAN
  BY <1>1, IndexFits
<1>3. ModemOK' /\ HandedOK' /\ TimeOK' /\ TimerRuns'
  <2>1. ModemOK'
    BY <1>1 DEF ModemOK
  <2> QED  BY <1>1, <2>1, Frames
<1>4. ReadOK' /\ FlagsOK'
  BY <1>1, <1>2, Frames DEF bufVars
<1>5. ReadsCounted' /\ FreshIsOwn' /\ ReadIsHanded'
  BY <1>1 DEF ReadsCounted, FreshIsOwn, ReadIsHanded, readVars, bufVars
<1> QED  BY <1>2, <1>3, <1>4, <1>5

LEMMA AnswerBeginsKeeps ==
  ASSUME Inv, AnswerBegins
  PROVE  Inv'
<1> USE DEF Inv, Parts, TypeOK
<1>1. /\ smsIndex \in Slot /\ answering' = slot[smsIndex]
      /\ smsDataBuf' = Other /\ fresh' = FALSE
      /\ UNCHANGED <<arrived, slot, listing, smsUnread, chain, readVars,
                     flagSmsReadFinish, timeVars, resets, handed, excuse,
                     overflowed>>
  BY DEF AnswerBegins
<1>2. ModemOK'
  BY <1>1 DEF ModemOK
<1>3. RingOK' /\ HandedOK' /\ TimeOK' /\ TimerRuns'
  BY <1>1, Frames
<1>4. ReadOK' /\ FlagsOK'
  <2>1. smsDataBuf' \in Msg \cup {Other}
    BY <1>1
  <2>2. ReadOK'
    BY <1>1, <2>1 DEF ReadOK, readVars
  <2>3. FlagsOK'
    BY <1>1 DEF FlagsOK
  <2> QED  BY <2>2, <2>3
<1>5. ReadsCounted' /\ FreshIsOwn' /\ ReadIsHanded'
  BY <1>1 DEF ReadsCounted, FreshIsOwn, ReadIsHanded, readVars
<1> QED  BY <1>2, <1>3, <1>4, <1>5

LEMMA AnswerEndsKeeps ==
  ASSUME Inv, AnswerEnds
  PROVE  Inv'
<1> USE DEF Inv, Parts, TypeOK
<1>1. /\ answering # Empty /\ answering' = Empty /\ smsDataBuf' = answering
      /\ flagSmsReadFinish' = TRUE
      /\ fresh' = (smsIndex \in Slot /\ slot[smsIndex] = answering)
      /\ UNCHANGED <<arrived, slot, listing, smsUnread, chain, readVars,
                     resets, handed, excuse, overflowed>>
  BY DEF AnswerEnds
<1>2. answering \in Msg
  BY <1>1 DEF ModemOK
<1>3. ModemOK'
  BY <1>1 DEF ModemOK
<1>4. RingOK' /\ HandedOK'
  BY <1>1, Frames
<1>5. TimeOK' /\ TimerRuns'
  <2>1. 0 \in 0 .. MaxTick
    BY ReceiveAssumption
  <2> QED  BY <2>1, TimerStarts DEF AnswerEnds
<1>6. ReadOK' /\ FlagsOK'
  <2>1. smsDataBuf' \in Msg \cup {Other}
    BY <1>1, <1>2
  <2>2. ReadOK'
    BY <1>1, <2>1 DEF ReadOK, readVars
  <2>3. FlagsOK'
    BY <1>1, Zenon DEF FlagsOK
  <2> QED  BY <2>2, <2>3
<1>7. ReadsCounted' /\ FreshIsOwn' /\ ReadIsHanded'
  BY <1>1, <1>2 DEF ReadsCounted, FreshIsOwn, ReadIsHanded, readVars
<1> QED  BY <1>3, <1>4, <1>5, <1>6, <1>7

-----------------------------------------------------------------------------
(* Most steps of the task change neither the modem, the ring nor the time. *)
LEMMA TaskFrame ==
  ASSUME Inv, UNCHANGED <<modemVars, smsUnread, resets, handed>>
  PROVE  ModemOK' /\ RingOK' /\ HandedOK' /\ slot' = slot
BY Frames DEF Inv, TypeOK, modemVars

LEMMA EncodePduKeeps ==
  ASSUME Inv, EncodePdu
  PROVE  Inv'
<1> USE DEF Inv, Parts, TypeOK
<1>1. /\ smsDataBuf' = Other /\ fresh' = FALSE
      /\ UNCHANGED <<modemVars, smsUnread, chain, readVars, flagSmsReadFinish,
                     timeVars, resets, handed, excuse, overflowed>>
  BY DEF EncodePdu
<1>2. ModemOK' /\ RingOK' /\ HandedOK' /\ slot' = slot
  BY <1>1, TaskFrame
<1>3. TimeOK' /\ TimerRuns'
  BY <1>1, Frames
<1>4. ReadOK'
  <2>1. smsDataBuf' \in Msg \cup {Other}
    BY <1>1
  <2> QED  BY <1>1, <2>1 DEF ReadOK, readVars
<1>5. FlagsOK'
  BY <1>1 DEF FlagsOK
<1>6. ReadsCounted' /\ FreshIsOwn' /\ ReadIsHanded'
  BY <1>1, <1>2 DEF ReadsCounted, FreshIsOwn, ReadIsHanded, readVars
<1> QED  BY <1>2, <1>3, <1>4, <1>5, <1>6

(* The steps that only go on to a command or a callback which says nothing *)
(* of the message that is worked on (next command of the chain, its end).  *)
LEMMA GoesOn ==
  ASSUME Inv, NEW to \in Chains \ {"CMGR", "CMGD"}, chain' = to,
         to \in {"CMGRwait", "poll"} => chain = "CMGRwait",
         UNCHANGED <<readVars, bufVars, timeVars, excuse, overflowed>>,
         slot' = slot
  PROVE  /\ ReadOK' /\ FlagsOK' /\ TimeOK'
         /\ TimerRuns' /\ ReadsCounted' /\ FreshIsOwn' /\ ReadIsHanded'
<1> USE DEF Inv, Parts, TypeOK
<1>1. TimeOK' /\ TimerRuns'
  BY Frames
<1>2. FlagsOK'
  BY Frames DEF FlagsOK
<1>3. ReadOK'
  BY DEF ReadOK, readVars, bufVars
<1>4. ReadsCounted'
  BY DEF ReadsCounted, readVars
<1>5. FreshIsOwn' /\ ReadIsHanded'
  BY DEF FreshIsOwn, ReadIsHanded, readVars, bufVars
<1> QED  BY <1>1, <1>2, <1>3, <1>4, <1>5

LEMMA GoingOnKeeps ==
  ASSUME Inv, StartRecvSms \/ SendCMGL \/ EndCMGR \/ EndEnd
  PROVE  Inv'
<1> USE DEF Inv, TypeOK
<1>1. CASE StartRecvSms
  <2>1. /\ chain' = "CMGF"
        /\ UNCHANGED <<modemVars, smsUnread, readVars, bufVars, timeVars,
                       resets, handed, excuse, overflowed>>
    BY <1>1 DEF StartRecvSms, Goto
  <2>2. ModemOK' /\ RingOK' /\ HandedOK' /\ slot' = slot
    BY <2>1, TaskFrame
  <2> QED  BY <2>1, <2>2, GoesOn DEF Chains, Parts
<1>2. CASE SendCMGL
  <2>1. /\ chain' = "CMGLwait" /\ listing' = {i \in Slot : slot[i] # Empty}
        /\ UNCHANGED <<arrived, slot, answering, smsUnread, readVars, bufVars,
                       timeVars, resets, handed, excuse, overflowed>>
    BY <1>2 DEF SendCMGL, Goto
  <2>2. ModemOK'
    BY <2>1 DEF ModemOK
  <2>3. RingOK' /\ HandedOK' /\ slot' = slot
    BY <2>1, Frames
  <2> QED  BY <2>1, <2>2, <2>3, GoesOn DEF Chains, Parts
<1>3. CASE EndCMGR
  <2>1. /\ chain = "CMGRwait" /\ chain' = "poll"
        /\ UNCHANGED <<modemVars, smsUnread, readVars, bufVars, timeVars,
                       resets, handed, excuse, overflowed>>
    BY <1>3 DEF EndCMGR, Goto
  <2>2. ModemOK' /\ RingOK' /\ HandedOK' /\ slot' = slot
    BY <2>1, TaskFrame
  <2> QED  BY <2>1, <2>2, GoesOn DEF Chains, Parts
<1>4. CASE EndEnd
  <2>1. /\ chain' = "idle"
        /\ UNCHANGED <<modemVars, smsUnread, readVars, bufVars, timeVars,
                       resets, handed, excuse, overflowed>>
    BY <1>4 DEF EndEnd, Goto
  <2>2. ModemOK' /\ RingOK' /\ HandedOK' /\ slot' = slot
    BY <2>1, TaskFrame
  <2> QED  BY <2>1, <2>2, GoesOn DEF Chains, Parts
<1> QED  BY <1>1, <1>2, <1>3, <1>4

(* After a take there is a number with all its tries and no read, one that *)
(* no place has, or none: whatever becomes of the places, nothing that is  *)
(* in one is to be deleted.                                                *)
LEMMA TakeKeeps ==
  ASSUME Inv, NEW from,
         NEW otherwise \in {"CMGL", "end"}, Take(from, otherwise),
         UNCHANGED <<flagSmsReadFinish, smsDataBuf, timeVars, overflowed>>
  PROVE  /\ RingOK' /\ ReadOK' /\ FlagsOK' /\ TimeOK'
         /\ TimerRuns' /\ ReadsCounted' /\ FreshIsOwn' /\ ReadIsHanded'
<1> USE DEF Inv, Parts, TypeOK
<1>1. /\ RingOK' /\ chain \in from
      /\ loads' = 0 /\ fresh' = FALSE /\ excuse' = "none"
      /\ smsIndex' \in Word /\ readTryCnt' \in 0 .. Tries
      /\ \/ chain' = "CMGR" /\ readTryCnt' = Tries
         \/ chain' = "CMGD" /\ smsIndex' >= 1000
         \/ chain' = otherwise
  BY TakeTakes
<1>2. TimeOK' /\ TimerRuns'
  BY Frames
<1>3. ReadOK'
  <2>1. 0 \in 0 .. Tries + 1
    BY ReceiveAssumption
  <2>2. chain' \in Chains
    BY <1>1 DEF Chains
  <2> QED  BY <1>1, <2>1, <2>2 DEF ReadOK
<1>4. FlagsOK'
  BY <1>1 DEF FlagsOK
<1>5. ReadsCounted'
  <2>1. chain' = "CMGR" => readTryCnt' = Tries
    BY <1>1
  <2>2. chain' \notin {"CMGRwait", "poll"}
    BY <1>1
  <2>3. 0 + Tries = Tries
    BY ReceiveAssumption
  <2> QED  BY <1>1, <2>1, <2>2, <2>3 DEF ReadsCounted
<1>6. FreshIsOwn'
  BY <1>1 DEF FreshIsOwn
<1>7. ReadIsHanded'
  <2>1. \A i \in Slot : ~(i >= 1000)
    BY ReceiveAssumption
  <2> QED  BY <1>1, <2>1 DEF ReadIsHanded
<1> QED  BY <1>1, <1>2, <1>3, <1>4, <1>5, <1>6, <1>7

LEMMA TakingKeeps ==
  ASSUME Inv, EndCMGF \/ EndCMGL
  PROVE  Inv'
<1> DEFINE Frame == UNCHANGED <<modemVars, flagSmsReadFinish, smsDataBuf,
                                timeVars, resets, handed, overflowed>>
<1>1. Frame /\ (Take({"CMGF"}, "CMGL") \/ Take({"CMGLwait"}, "end"))
  BY DEF EndCMGF, EndCMGL
<1>2. ModemOK' /\ HandedOK'
  BY <1>1, Frames DEF Inv, TypeOK, modemVars
<1>3. UNCHANGED <<flagSmsReadFinish, smsDataBuf, timeVars, overflowed>>
  BY <1>1
<1>4. /\ RingOK' /\ ReadOK' /\ FlagsOK' /\ TimeOK'
      /\ TimerRuns' /\ ReadsCounted' /\ FreshIsOwn' /\ ReadIsHanded'
  <2>1. CASE Take({"CMGF"}, "CMGL")
    BY <1>3, <2>1, TakeKeeps
  <2>2. CASE Take({"CMGLwait"}, "end")
    BY <1>3, <2>2, TakeKeeps
  <2> QED  BY <1>1, <2>1, <2>2
<1> QED  BY <1>2, <1>4 DEF Inv, TypeOK, Parts

LEMMA EndCMGDKeeps ==
  ASSUME Inv, NEW deleted, EndCMGD(deleted)
  PROVE  Inv'
<1> USE DEF Inv, TypeOK
<1>1. /\ Take({"CMGD"}, "end")
      /\ handed' = handed \cap Stored'
      /\ UNCHANGED <<arrived, listing, answering, flagSmsReadFinish,
                     smsDataBuf, timeVars, resets, overflowed>>
  BY DEF EndCMGD
<1>2. \/ slot' = slot
      \/ smsIndex \in Slot /\ slot' = [slot EXCEPT ![smsIndex] = Empty]
  BY DEF EndCMGD
<1>3. ModemOK'
  BY <1>1, <1>2 DEF ModemOK
<1>4. Stored' \subseteq Stored
  <2>1. \A i \in Slot : slot'[i] = slot[i] \/ slot'[i] = Empty
    BY <1>2 DEF ModemOK
  <2> QED  BY <2>1, StoredPlaces
<1>5. HandedOK'
  BY <1>1, <1>4 DEF HandedOK
<1>6. /\ RingOK' /\ ReadOK' /\ FlagsOK' /\ TimeOK'
      /\ TimerRuns' /\ ReadsCounted' /\ FreshIsOwn' /\ ReadIsHanded'
  BY <1>1, TakeKeeps
<1> QED  BY <1>3, <1>5, <1>6 DEF Parts

-----------------------------------------------------------------------------
(* A read is asked for and counted; the histories add up.                  *)
LEMMA SendCMGRKeeps ==
  ASSUME Inv, SendCMGR
  PROVE  Inv'
<1> USE DEF Inv, Parts, TypeOK
<1>1. /\ chain = "CMGR" /\ chain' = "CMGRwait"
      /\ loads' = IF loads <= Tries THEN loads + 1 ELSE loads
      /\ timer' = InitTimeout(tick, ReadTime, MaxTick)
      /\ age' = 0 /\ tick' = tick
      /\ UNCHANGED <<modemVars, smsUnread, smsIndex, readTryCnt, bufVars,
                     resets, handed, excuse, overflowed>>
  BY DEF SendCMGR, Goto, StartTimer
<1>2. ModemOK' /\ RingOK' /\ HandedOK' /\ slot' = slot
  BY <1>1, TaskFrame
<1>3. TimeOK' /\ TimerRuns'
  BY <1>1, TimerStarts DEF TimeOK
<1>4. loads \in 0 .. Tries + 1 /\ readTryCnt \in 0 .. Tries /\ Tries \in Nat
  BY ReceiveAssumption DEF ReadOK
<1>5. ReadOK'
  <2>1. loads' \in 0 .. Tries + 1
    BY <1>1, <1>4
  <2>2. chain' \in Chains
    BY <1>1 DEF Chains
  <2> QED  BY <1>1, <2>1, <2>2 DEF ReadOK, bufVars
<1>6. FlagsOK'
  BY <1>1, Frames DEF FlagsOK
<1>7. ReadsCounted'
  <2> SUFFICES ASSUME excuse # "reset"
               PROVE  loads' + readTryCnt' = Tries + 1
    BY <1>1 DEF ReadsCounted
  <2>1. loads + readTryCnt = Tries
    BY <1>1 DEF ReadsCounted
  <2> QED  BY <1>1, <1>4, <2>1
<1>8. FreshIsOwn' /\ ReadIsHanded'
  BY <1>1, <1>2 DEF FreshIsOwn, ReadIsHanded, bufVars
<1> QED  BY <1>2, <1>3, <1>5, <1>6, <1>7, <1>8

LEMMA ReadAgainKeeps ==
  ASSUME Inv, ReadAgain
  PROVE  Inv'
<1> USE DEF Inv, Parts, TypeOK
<1>1. /\ readTryCnt > 0 /\ readTryCnt' = readTryCnt - 1
      /\ chain = "poll" /\ chain' = "CMGR"
      /\ timer' = InitTimeout(tick, ReadTime, MaxTick)
      /\ age' = 0 /\ tick' = tick
      /\ UNCHANGED <<modemVars, smsUnread, smsIndex, loads, bufVars,
                     resets, handed, excuse, overflowed>>
  BY DEF ReadAgain, Goto, StartTimer
<1>2. ModemOK' /\ RingOK' /\ HandedOK' /\ slot' = slot
  BY <1>1, TaskFrame
<1>3. TimeOK' /\ TimerRuns'
  BY <1>1, TimerStarts DEF TimeOK
<1>4. loads \in 0 .. Tries + 1 /\ readTryCnt \in 0 .. Tries /\ Tries \in Nat
  BY ReceiveAssumption DEF ReadOK
<1>5. ReadOK'
  <2>1. readTryCnt' \in 0 .. Tries
    BY <1>1, <1>4
  <2>2. chain' \in Chains
    BY <1>1 DEF Chains
  <2> QED  BY <1>1, <2>1, <2>2 DEF ReadOK, bufVars
<1>6. FlagsOK'
  BY <1>1, Frames DEF FlagsOK
<1>7. ReadsCounted'
  <2> SUFFICES ASSUME excuse # "reset"
               PROVE  loads' + readTryCnt' = Tries
    BY <1>1 DEF ReadsCounted
  <2>1. loads + readTryCnt = Tries + 1
    BY <1>1 DEF ReadsCounted
  <2> QED  BY <1>1, <1>4, <2>1
<1>8. FreshIsOwn' /\ ReadIsHanded'
  BY <1>1, <1>2 DEF FreshIsOwn, ReadIsHanded, bufVars
<1> QED  BY <1>2, <1>3, <1>5, <1>6, <1>7, <1>8

(* What is deleted with the flag set and a fresh text has been given away. *)
LEMMA ReadFinishedKeeps ==
  ASSUME Inv, ReadFinished
  PROVE  Inv'
<1> USE DEF Inv, Parts, TypeOK
<1>1. /\ chain' = "CMGD" /\ handed' = handed \cup ({smsDataBuf} \cap Stored)
      /\ excuse' = IF excuse = "reset" THEN excuse
                   ELSE IF fresh THEN "none" ELSE "stale"
      /\ UNCHANGED <<modemVars, smsUnread, readVars, bufVars, timeVars,
                     resets, overflowed>>
  BY DEF ReadFinished, Goto, Because
<1>2. ModemOK' /\ RingOK' /\ slot' = slot /\ arrived' = arrived
  BY <1>1, Frames DEF modemVars
<1>3. TimeOK' /\ TimerRuns'
  BY <1>1, Frames
<1>4. HandedOK'
  <2>1. Stored' = Stored
    BY <1>2, Frames
  <2> QED  BY <1>1, <1>2, <2>1 DEF HandedOK
<1>5. ReadOK'
  <2>1. excuse' \in {"none", "tries", "stale", "reset"}
    BY <1>1
  <2>2. chain' \in Chains
    BY <1>1 DEF Chains
  <2> QED  BY <1>1, <2>1, <2>2 DEF ReadOK, readVars, bufVars
<1>6. FlagsOK'
  BY <1>1, Frames DEF FlagsOK
<1>7. ReadsCounted'
  BY <1>1 DEF ReadsCounted
<1>8. FreshIsOwn'
  BY <1>1, <1>2 DEF FreshIsOwn, readVars, bufVars
<1>9. ReadIsHanded'
  <2> SUFFICES ASSUME excuse' = "none", smsIndex' \in Slot
               PROVE  slot'[smsIndex'] \in handed'
    BY DEF ReadIsHanded
  <2>1. fresh
    BY <1>1
  <2>2. smsIndex \in Slot /\ smsDataBuf = slot[smsIndex] /\ smsDataBuf \in Msg
    BY <2>1 DEF FreshIsOwn
  <2>3. smsDataBuf # Empty
    BY <2>2 DEF Msg, Empty
  <2>4. smsDataBuf \in Stored
    BY <2>2, <2>3, StoredPlaces
  <2> QED  BY <1>1, <1>2, <2>2, <2>4 DEF readVars
<1> QED  BY <1>2, <1>3, <1>4, <1>5, <1>6, <1>7, <1>8, <1>9

LEMMA GiveUpKeeps ==
  ASSUME Inv, GiveUp
  PROVE  Inv'
<1> USE DEF Inv, Parts, TypeOK
<1>1. /\ chain' = "CMGD"
      /\ excuse' = IF excuse = "reset" THEN excuse ELSE "tries"
      /\ UNCHANGED <<modemVars, smsUnread, readVars, bufVars, timeVars,
                     resets, handed, overflowed>>
  BY DEF GiveUp, Goto, Because
<1>2. ModemOK' /\ RingOK' /\ HandedOK' /\ slot' = slot
  BY <1>1, TaskFrame
<1>3. TimeOK' /\ TimerRuns'
  BY <1>1, Frames
<1>4. ReadOK'
  <2>1. excuse' \in {"none", "tries", "stale", "reset"}
    BY <1>1
  <2>2. chain' \in Chains
    BY <1>1 DEF Chains
  <2> QED  BY <1>1, <2>1, <2>2 DEF ReadOK, readVars, bufVars
<1>5. FlagsOK'
  BY <1>1, Frames DEF FlagsOK
<1>6. ReadsCounted' /\ ReadIsHanded'
  BY <1>1 DEF ReadsCounted, ReadIsHanded
<1>7. FreshIsOwn'
  BY <1>1, <1>2 DEF FreshIsOwn, readVars, bufVars
<1> QED  BY <1>2, <1>3, <1>4, <1>5, <1>6, <1>7

(* The tick and the reset of the modem.                                    *)
LEMMA TickKeeps ==
  ASSUME Inv, Tick
  PROVE  Inv'
<1> USE DEF Inv, Parts, TypeOK
<1>1. /\ age <= ReadTime /\ age' = age + 1
      /\ tick' = Wrapped(tick + 1, MaxTick) /\ timer' = timer
      /\ UNCHANGED <<modemVars, smsUnread, chain, readVars, bufVars,
                     resets, handed, excuse, overflowed>>
  BY DEF Tick
<1>2. ModemOK' /\ RingOK' /\ HandedOK' /\ slot' = slot
  BY <1>1, TaskFrame
<1> DEFINE start == timer.start_time
<1>3. /\ start \in 0 .. MaxTick /\ MaxTick \in Nat
      /\ age \in 0 .. MaxTick - 1 /\ age' \in 0 .. ReadTime + 1
      /\ age' \in 0 .. MaxTick
  BY <1>1, ReceiveAssumption DEF TimeOK
<1>4. tick' = Later(start, age + 1, MaxTick)
  BY <1>1, <1>3, TickLater DEF TimerRuns
<1>5. tick' \in 0 .. MaxTick
  <2>1. age + 1 \in 0 .. MaxTick
    BY <1>3
  <2>2. Later(start, age + 1, MaxTick) =
          IF start + (age + 1) <= MaxTick THEN start + (age + 1)
                                    ELSE start + (age + 1) - (MaxTick + 1)
    BY <1>3, <2>1, WrappedCases
  <2> HIDE DEF start
  <2> QED  BY <1>3, <1>4, <2>1, <2>2
<1>6. TimeOK'
  BY <1>1, <1>3, <1>5 DEF TimeOK
<1>7. TimerRuns'
  BY <1>1, <1>4 DEF TimerRuns
<1>8. ReadOK' /\ FlagsOK'
  BY <1>1, Frames DEF FlagsOK, bufVars
<1>9. ReadsCounted' /\ FreshIsOwn' /\ ReadIsHanded'
  BY <1>1, <1>2 DEF ReadsCounted, FreshIsOwn, ReadIsHanded, readVars, bufVars
<1> QED  BY <1>2, <1>6, <1>7, <1>8, <1>9

LEMMA ModemResetKeeps ==
  ASSUME Inv, ModemReset
  PROVE  Inv'
<1> USE DEF Inv, Parts, TypeOK
<1>1. /\ resets < MaxResets /\ resets' = resets + 1
      /\ chain' \in AfterReset(chain) /\ excuse' = "reset"
      /\ listing' = {} /\ answering' = Empty
      /\ UNCHANGED <<arrived, slot, smsUnread, readVars, bufVars, timeVars,
                     handed, overflowed>>
  BY DEF ModemReset
<1>2. ModemOK'
  BY <1>1, ReceiveAssumption DEF ModemOK
<1>3. RingOK' /\ HandedOK' /\ TimeOK' /\ TimerRuns'
  BY <1>1, Frames
<1>4. ReadOK'
  <2>1. chain' \in Chains
    BY <1>1 DEF AfterReset, Chains
  <2> QED  BY <1>1, <2>1 DEF ReadOK, readVars, bufVars
<1>5. FlagsOK'
  BY <1>1, Frames DEF FlagsOK
<1>6. ReadsCounted' /\ ReadIsHanded'
  BY <1>1 DEF ReadsCounted, ReadIsHanded
<1>7. FreshIsOwn'
  BY <1>1 DEF FreshIsOwn, readVars, bufVars
<1> QED  BY <1>2, <1>3, <1>4, <1>5, <1>6, <1>7

-----------------------------------------------------------------------------
(* Ampm_SmsTask_Init makes it true.                                        *)
LEMMA Initially == Init => Inv
<1> SUFFICES ASSUME Init PROVE Inv
  OBVIOUS
<1> USE ReceiveAssumption DEF Init
<1>1. Stored = {}
  BY DEF Stored
<1>2. ModemOK
  BY DEF ModemOK
<1>3. RingOK
  BY DEF RingOK
<1>4. ReadOK
  <2>1. chain \in Chains /\ smsIndex \in Word
    BY DEF Chains, Word
  <2> QED  BY <2>1 DEF ReadOK
<1>5. FlagsOK
  BY DEF FlagsOK
<1>6. TimeOK /\ TimerRuns
  <2>1. Later(0, 0, MaxTick) = 0 /\ 0 + ReadTime = ReadTime
    BY WrappedCases
  <2>2. Later(0, ReadTime, MaxTick) \in 0 .. MaxTick
    BY WrappedCases
  <2>3. Wrapped(0 + ReadTime, MaxTick) \in 0 .. MaxTick
    BY <2>2 DEF Later
  <2>4. timer = [start_time |-> 0, timeout |-> ReadTime,
                 crc |-> Wrapped(0 + ReadTime, MaxTick)]
    BY DEF InitTimeout
  <2>5. TimeOK
    BY <2>3, <2>4 DEF TimeOK
  <2> QED  BY <2>1, <2>4, <2>5 DEF TimerRuns, InitTimeout
<1>7. HandedOK
  BY <1>1 DEF HandedOK
<1>8. ReadsCounted /\ FreshIsOwn /\ ReadIsHanded
  BY DEF ReadsCounted, FreshIsOwn, ReadIsHanded
<1> QED  BY <1>2, <1>3, <1>4, <1>5, <1>6, <1>7, <1>8 DEF Inv, TypeOK, Parts

LEMMA Stutters ==
  ASSUME Inv, UNCHANGED vars
  PROVE  Inv'
<1> USE DEF Inv, Parts, TypeOK, vars
<1>1. /\ ModemOK' /\ RingOK' /\ HandedOK' /\ TimeOK' /\ TimerRuns'
      /\ slot' = slot
  BY Frames DEF modemVars
<1>2. ReadOK' /\ FlagsOK'
  BY Frames DEF FlagsOK, bufVars
<1>3. ReadsCounted' /\ FreshIsOwn' /\ ReadIsHanded'
  BY <1>1 DEF ReadsCounted, FreshIsOwn, ReadIsHanded, readVars, bufVars
<1> QED  BY <1>1, <1>2, <1>3

(* Every step of the modem, the interrupt and the main task keeps the      *)
(* invariant.                                                              *)
LEMMA Steps == Inv /\ [Next]_vars => Inv'
<1> SUFFICES ASSUME Inv, [Next]_vars PROVE Inv'
  OBVIOUS
<1>1. CASE \E i \in Slot : Arrive(i)
  BY <1>1, ArriveKeeps
<1>2. CASE Modem
  BY <1>2, ListKeeps, AnswerBeginsKeeps, AnswerEndsKeeps DEF Modem
<1>3. CASE EncodePdu
  BY <1>3, EncodePduKeeps
<1>4. CASE StartRecvSms
  BY <1>4, GoingOnKeeps
<1>5. CASE Chain
  BY <1>5, GoingOnKeeps, TakingKeeps, EndCMGDKeeps, SendCMGRKeeps,
     ReadAgainKeeps, ReadFinishedKeeps, GiveUpKeeps DEF Chain
<1>6. CASE Tick
  BY <1>6, TickKeeps
<1>7. CASE ModemReset
  BY <1>7, ModemResetKeeps
<1>8. CASE UNCHANGED vars
  BY <1>8, Stutters
<1> QED  BY <1>1, <1>2, <1>3, <1>4, <1>5, <1>6, <1>7, <1>8 DEF Next

(* Always, whatever the modem does: Ampm_GsmSmsRecv0 to 2 and the interrupt*)
(* keep the ring, the timer and the histories in step.                     *)
THEOREM Invariance == Spec => []Inv
<1>1. Init => Inv
  BY Initially
<1>2. Inv /\ [Next]_vars => Inv'
  BY Steps
<1> QED  BY <1>1, <1>2, PTL DEF Spec

(* Types, and nothing is held as given away that is not in the modem.      *)
THEOREM TypeCorrect == Spec => []TypeOK
<1>1. Inv => TypeOK
  BY DEF Inv
<1> QED  BY <1>1, Invariance, PTL

(* The chain asks again or gives up only after three seconds, and gives up *)
(* only after Tries + 1 reads, for every width of the tick and wherever it *)
(* wraps (Ampm_GsmSmsRecv2).                                               *)
THEOREM GivenUpLateHolds == Spec => GivenUpLate
<1> DEFINE A == (GiveUp \/ ReadAgain) =>
                   /\ age >= ReadTime
                   /\ GiveUp /\ excuse # "reset" => loads = Tries + 1
<1>1. Inv /\ [Next]_vars => [A]_vars
  <2> SUFFICES ASSUME Inv, GiveUp \/ ReadAgain
               PROVE  /\ age >= ReadTime
                      /\ GiveUp /\ excuse # "reset" => loads = Tries + 1
    OBVIOUS
  <2>1. chain = "poll" /\ TimedOut
    BY DEF GiveUp, ReadAgain, Goto
  <2>2. age >= ReadTime
    <3> DEFINE start == timer.start_time
    <3>1. /\ start \in 0 .. MaxTick /\ MaxTick \in Nat
          /\ ReadTime \in 1 .. MaxTick /\ age \in 0 .. MaxTick
      BY ReceiveAssumption DEF Inv, TypeOK, TimeOK
    <3>2. CheckTimeout(InitTimeout(start, ReadTime, MaxTick),
                       Later(start, age, MaxTick), MaxTick) = 0
      BY <2>1 DEF Inv, Parts, TimerRuns, TimedOut
    <3> HIDE DEF start
    <3> QED  BY <3>1, <3>2, NeverEarly
  <2>3. ASSUME GiveUp, excuse # "reset" PROVE loads = Tries + 1
    <3>1. readTryCnt = 0
      BY <2>3 DEF GiveUp
    <3>2. loads + readTryCnt = Tries + 1
      BY <2>1, <2>3 DEF Inv, Parts, ReadsCounted
    <3>3. loads \in Nat
      BY ReceiveAssumption DEF Inv, TypeOK, ReadOK
    <3> QED  BY <3>1, <3>2, <3>3
  <2> QED  BY <2>2, <2>3
<1> QED  BY <1>1, Invariance, PTL DEF Spec, GivenUpLate

(* A message leaves the modem only after its own text was given whole to   *)
(* the application, unless its reads timed out, a reset pushed the chain   *)
(* on, or the flag was of an earlier text (Ampm_GsmSmsRecv2, AT+CMGD).     *)
THEOREM ReadBeforeDeletedHolds == Spec => ReadBeforeDeleted
<1> DEFINE A == \A i \in Slot :
                  slot[i] # Empty /\ slot'[i] = Empty
                    => slot[i] \in handed \/ excuse # "none"
<1>1. Inv /\ [Next]_vars => [A]_vars
  <2> SUFFICES ASSUME Inv, Next, NEW i \in Slot,
                      slot[i] # Empty, slot'[i] = Empty
               PROVE  slot[i] \in handed \/ excuse # "none"
    OBVIOUS
  <2>1. PICK deleted \in BOOLEAN : EndCMGD(deleted)
    <3>1. slot' # slot
      OBVIOUS
    <3>2. ASSUME NEW j \in Slot PROVE ~Arrive(j)
      <4> SUFFICES ASSUME Arrive(j) PROVE FALSE
        OBVIOUS
      <4>1. slot[j] = Empty /\ slot' = [slot EXCEPT ![j] = arrived']
        BY DEF Arrive
      <4>2. slot'[i] = slot[i]
        BY <4>1 DEF Inv, TypeOK, ModemOK
      <4> QED  BY <4>2
    <3>3. ~Modem
      BY <3>1 DEF Modem, List, AnswerBegins, AnswerEnds
    <3>4. ~EncodePdu /\ ~StartRecvSms /\ ~Tick /\ ~ModemReset
      BY <3>1 DEF EncodePdu, StartRecvSms, Tick, ModemReset, modemVars
    <3>5. Chain
      BY <3>2, <3>3, <3>4 DEF Next
    <3>6. ~EndCMGF /\ ~SendCMGL /\ ~EndCMGL /\ ~SendCMGR /\ ~EndCMGR
      BY <3>1 DEF EndCMGF, SendCMGL, EndCMGL, SendCMGR, EndCMGR, modemVars
    <3>7. ~ReadFinished /\ ~ReadAgain /\ ~GiveUp /\ ~EndEnd
      BY <3>1 DEF ReadFinished, ReadAgain, GiveUp, EndEnd, modemVars
    <3> QED  BY <3>5, <3>6, <3>7 DEF Chain
  <2>2. chain = "CMGD"
    BY <2>1 DEF EndCMGD, Take, Goto
  <2>3. smsIndex \in Slot /\ i = smsIndex
    BY <2>1 DEF EndCMGD, Inv, TypeOK, ModemOK
  <2> QED  BY <2>2, <2>3 DEF Inv, Parts, ReadIsHanded
<1> QED  BY <1>1, Invariance, PTL DEF Spec, ReadBeforeDeleted
=============================================================================
