---------------------------- MODULE SmsQueueProofs ----------------------------
(***************************************************************************)
(* Who may free a message and what SMS_OK means, for any number of messages*)
(* and threads, any number of tries and with modem resets.                 *)
(***************************************************************************)
EXTENDS SmsQueue, SequenceTheorems, TLAPS

\* The commands behind an attempt that has not ended.
Working == chain \in {"AT", "CMGF_1", "CMGF_0", "CSCA", "CMGS", "BODY", "ANSWER"}

(* As long as no block was freed in use, the message of the chain is one   *)
(* that neither the task nor the periodic may drop, and what was           *)
(* transmitted last was its text.                                          *)
WorkIsLive == Working => IsLive(smsMsg) /\ Ready(smsMsg)
BodyIsOwn  == chain = "ANSWER" => body = smsMsg

(* Where the statuses are.  A message in the list points to the status of  *)
(* another thread only if it was there when that thread got the byte.      *)
StatusIsShared ==
  /\ \A m \in Msg : heap[m] = "unused" => statusOf[m] = NoByte /\ waiter[m] = "none"
  /\ \A m \in Msg : waiter[m] # "none" => statusOf[m] \in Byte
  /\ \A m, x \in Msg :
       m # x /\ waiter[m] = "waiting" /\ heap[x] = "live" /\ statusOf[x] = statusOf[m]
         => m \in shared

(* What is marked as sent was delivered, and so was what is reported or    *)
(* returned as sent, but for the one that shares its status.               *)
SentIsDelivered ==
  /\ \A m \in Msg : flag[m] = "SENT" => m \in delivered
  /\ \A m \in Msg : waiter[m] = "waiting" /\ status[statusOf[m]] = "OK" => Vouched(m)
  /\ \A m \in Msg : waiter[m] = "ok" => Vouched(m)

Inv ==
  /\ TypeOK
  /\ ListIsLive
  /\ StatusIsShared
  /\ ~dangled => WorkIsLive /\ BodyIsOwn /\ SentIsDelivered

-----------------------------------------------------------------------------
(* The last message of the list is one of the messages, and is live.       *)
LEMMA LastOfList ==
  ASSUME TypeOK, ListIsLive, smsList # <<>>
  PROVE  /\ Last(smsList) \in Msg
         /\ heap[Last(smsList)] = "live"
<1>1. Len(smsList) \in 1 .. Len(smsList)
  BY DEF TypeOK
<1>2. Last(smsList) = smsList[Len(smsList)] /\ Last(smsList) \in Msg
  BY <1>1 DEF TypeOK, Last
<1> QED  BY <1>1, <1>2 DEF ListIsLive

(* Release takes the last message from the list and frees its block, no    *)
(* other.                                                                  *)
LEMMA ReleaseKeepsList ==
  ASSUME TypeOK, ListIsLive, smsList # <<>>, NEW m, m = Last(smsList), Release(m)
  PROVE  /\ smsList' \in Seq(Msg)
         /\ heap' \in [Msg -> {"unused", "live", "freed"}]
         /\ status' \in [Byte -> {"ERROR", "OK"}]
         /\ dangled' \in BOOLEAN
         /\ ListIsLive'
<1>1. m \in Msg /\ heap[m] = "live"
  BY LastOfList
<1> DEFINE n == Len(smsList)
<1>2. n \in Nat \ {0} /\ smsList \in [1 .. n -> Msg] /\ m = smsList[n]
  BY DEF TypeOK, Last
<1>3. smsList' = [i \in 1 .. n - 1 |-> smsList[i]]
  BY DEF Release, Front
<1>4. smsList' \in Seq(Msg) /\ DOMAIN smsList' = 1 .. n - 1
  BY <1>2, <1>3
<1> HIDE DEF n
<1>5. /\ heap' \in [Msg -> {"unused", "live", "freed"}]
      /\ status' \in [Byte -> {"ERROR", "OK"}]
      /\ dangled' \in BOOLEAN
  BY DEF Release, Report, TypeOK
<1>6. IsInjective(smsList)'
  BY <1>2, <1>3, <1>4 DEF ListIsLive, IsInjective
<1>7. ASSUME NEW x \in Msg
      PROVE  heap'[x] = "live" <=> \E i \in DOMAIN smsList' : smsList'[i] = x
  <2>1. heap'[x] = "live" <=> heap[x] = "live" /\ x # m
    BY <1>1 DEF Release, TypeOK
  <2>2. heap[x] = "live" <=> \E i \in 1 .. n : smsList[i] = x
    BY <1>2 DEF ListIsLive
  <2>3. \A i \in 1 .. n : smsList[i] = m <=> i = n
    <3>1. n \in 1 .. n /\ DOMAIN smsList = 1 .. n
      BY <1>2
    <3> QED  BY <1>2, <3>1 DEF ListIsLive, IsInjective
  <2>4. (\E i \in DOMAIN smsList' : smsList'[i] = x) <=> \E i \in 1 .. n - 1 : smsList[i] = x
    BY <1>3, <1>4
  <2>5. n \in Nat => \A i \in 1 .. n : i # n <=> i \in 1 .. n - 1
    OBVIOUS
  <2>6. n \in Nat /\ 1 .. n - 1 \subseteq 1 .. n
    BY <1>2
  <2> QED  BY <2>1, <2>2, <2>3, <2>4, <2>5, <2>6
<1> QED  BY <1>4, <1>5, <1>6, <1>7 DEF ListIsLive

(* A thread that takes a status byte is the only one that has it, and the  *)
(* messages in the list that point to it were there before.                *)
LEMMA TakeStatusKeeps ==
  ASSUME TypeOK, StatusIsShared, NEW m \in Msg, heap[m] = "unused", TakeStatus(m),
         heap' = [heap EXCEPT ![m] = "live"], delivered' = delivered
  PROVE  /\ statusOf' \in [Msg -> Byte \cup {NoByte}]
         /\ status' \in [Byte -> {"ERROR", "OK"}]
         /\ waiter' \in [Msg -> {"none", "waiting", "ok", "failed"}]
         /\ shared' \in SUBSET Msg
         /\ StatusIsShared'
         /\ \A y \in Msg : waiter[y] # "none" /\ Vouched(y) => y # m /\ Vouched(y)'
         /\ \A y \in Msg : waiter'[y] = "ok" => waiter[y] = "ok"
         /\ \A y \in Msg : waiter'[y] = "waiting" /\ status'[statusOf'[y]] = "OK" =>
              waiter[y] = "waiting" /\ status[statusOf[y]] = "OK"
<1>0. statusOf[m] = NoByte /\ waiter[m] = "none"
  BY DEF StatusIsShared
<1>1. CASE UNCHANGED <<statusOf, status, shared, waiter>>
  <2>1. StatusIsShared'
    BY <1>0, <1>1, SmsAssumption DEF TypeOK, StatusIsShared
  <2> QED  BY <1>0, <1>1, <2>1 DEF TypeOK, Vouched
<1>2. ASSUME NEW b \in Byte, IsFree(b),
             statusOf' = [statusOf EXCEPT ![m] = b],
             status' = [status EXCEPT ![b] = "ERROR"],
             waiter' = [waiter EXCEPT ![m] = "waiting"],
             shared' = IF \E x \in Msg : heap[x] = "live" /\ statusOf[x] = b
                         THEN shared \cup {m} ELSE shared
      PROVE  /\ statusOf' \in [Msg -> Byte \cup {NoByte}]
             /\ status' \in [Byte -> {"ERROR", "OK"}]
             /\ waiter' \in [Msg -> {"none", "waiting", "ok", "failed"}]
             /\ shared' \in SUBSET Msg
             /\ StatusIsShared'
             /\ \A y \in Msg : waiter[y] # "none" /\ Vouched(y) => y # m /\ Vouched(y)'
             /\ \A y \in Msg : waiter'[y] = "ok" => waiter[y] = "ok"
             /\ \A y \in Msg : waiter'[y] = "waiting" /\ status'[statusOf'[y]] = "OK" =>
                  waiter[y] = "waiting" /\ status[statusOf[y]] = "OK"
  <2>1. /\ statusOf' \in [Msg -> Byte \cup {NoByte}]
        /\ status' \in [Byte -> {"ERROR", "OK"}]
        /\ waiter' \in [Msg -> {"none", "waiting", "ok", "failed"}]
        /\ shared' \in SUBSET Msg /\ shared \subseteq shared'
    BY <1>2 DEF TypeOK
  <2>2. /\ statusOf'[m] = b /\ waiter'[m] = "waiting" /\ status'[b] = "ERROR"
        /\ heap'[m] = "live" /\ b # NoByte
        /\ \A x \in Msg \ {m} : /\ heap'[x] = heap[x] /\ waiter'[x] = waiter[x]
                                /\ statusOf'[x] = statusOf[x]
        /\ \A c \in Byte \ {b} : status'[c] = status[c]
    BY <1>2, SmsAssumption DEF TypeOK
  <2>3. \A x \in Msg : waiter[x] = "waiting" => statusOf[x] \in Byte \ {b}
    BY <1>2 DEF IsFree, StatusIsShared
  <2>4. ASSUME NEW y \in Msg, NEW x \in Msg, y # x, waiter'[y] = "waiting",
               heap'[x] = "live", statusOf'[x] = statusOf'[y]
        PROVE  y \in shared'
    <3>1. CASE y = m
      BY <1>2, <2>2, <2>4, <3>1
    <3>2. CASE x = m
      BY <2>2, <2>3, <2>4, <3>2
    <3>3. CASE y # m /\ x # m
      BY <2>1, <2>2, <2>4, <3>3 DEF StatusIsShared
    <3> QED  BY <3>1, <3>2, <3>3
  <2>5. StatusIsShared'
    BY <2>2, <2>4 DEF StatusIsShared
  <2>6. ASSUME NEW y \in Msg, waiter[y] # "none", Vouched(y)
        PROVE  y # m /\ Vouched(y)'
    <3>1. y # m /\ statusOf[y] # NoByte
      BY <1>0, <2>6, SmsAssumption DEF StatusIsShared
    <3>2. CASE y \in delivered
      BY <3>1, <3>2 DEF Vouched
    <3>3. CASE y \notin delivered
      <4>1. PICK x \in delivered \ {y} : y \in shared /\ statusOf[x] = statusOf[y]
        BY <2>6, <3>3 DEF Vouched
      <4>2. x \in Msg /\ x # m
        BY <1>0, <3>1, <4>1 DEF TypeOK
      <4> QED  BY <2>1, <2>2, <3>1, <4>1, <4>2 DEF Vouched
    <3> QED  BY <3>2, <3>3
  <2> QED  BY <2>1, <2>2, <2>3, <2>5, <2>6
<1> QED  BY <1>1, <1>2 DEF TakeStatus

(* The application threads: Ampm_Sms_SendMsg adds a block that is not in   *)
(* the list, SendSmsWait reads the status.                                 *)
LEMMA AppKeeps ==
  ASSUME Inv, App
  PROVE  Inv' /\ dangled' = dangled
<1>1. ASSUME NEW m \in Msg, WaitEnds(m) PROVE Inv' /\ dangled' = dangled
  <2> USE DEF blockVars, chainVars, mainVars
  <2>1. TypeOK' /\ ListIsLive'
    BY <1>1 DEF Inv, WaitEnds, TypeOK, ListIsLive
  <2>2. WorkIsLive => WorkIsLive'
    BY <1>1 DEF WaitEnds, WorkIsLive, Working, IsLive, Ready
  <2>3. BodyIsOwn => BodyIsOwn'
    BY <1>1 DEF WaitEnds, BodyIsOwn
  <2>4. StatusIsShared'
    BY <1>1 DEF Inv, TypeOK, WaitEnds, StatusIsShared
  <2>5. SentIsDelivered => SentIsDelivered'
    BY <1>1 DEF Inv, TypeOK, WaitEnds, SentIsDelivered, Vouched
  <2> QED  BY <1>1, <2>1, <2>2, <2>3, <2>4, <2>5 DEF Inv, WaitEnds
<1>2. ASSUME NEW m \in Msg, SendMsg(m)
      PROVE  Inv' /\ dangled' = dangled
  <2>0. /\ heap[m] = "unused" /\ heap' = [heap EXCEPT ![m] = "live"]
        /\ TakeStatus(m) /\ delivered' = delivered
    BY <1>2 DEF SendMsg
  <2>1. TypeOK'
    <3>1. /\ statusOf' \in [Msg -> Byte \cup {NoByte}]
          /\ status' \in [Byte -> {"ERROR", "OK"}]
          /\ waiter' \in [Msg -> {"none", "waiting", "ok", "failed"}]
          /\ shared' \in SUBSET Msg
      BY <2>0, TakeStatusKeeps DEF Inv
    <3>2. Tries \in 0 .. Tries /\ 0 \in 0 .. Reload
      BY SmsAssumption
    <3>3. /\ tryNum' \in [Msg -> 0 .. Tries] /\ timeout' \in [Msg -> 0 .. Reload]
          /\ smsList' \in Seq(Msg)
      BY <1>2, <3>2 DEF Inv, SendMsg, TypeOK
    <3>4. /\ heap' \in [Msg -> {"unused", "live", "freed"}]
          /\ flag' \in [Msg -> {"NEW", "SENT", "FAIL"}]
          /\ hasPhone' \in [Msg -> BOOLEAN]
          /\ smsMsg' \in Msg \cup {NoMsg}
      BY <1>2 DEF Inv, SendMsg, TypeOK
    <3> QED  BY <1>2, <3>1, <3>3, <3>4 DEF Inv, SendMsg, TypeOK, mainVars
  <2>2. ListIsLive'
    <3> DEFINE n == Len(smsList)
    <3>1. /\ smsList \in [1 .. n -> Msg] /\ n \in Nat
          /\ Len(smsList') = n + 1 /\ smsList'[n + 1] = m
          /\ \A i \in 1 .. n : smsList'[i] = smsList[i]
          /\ DOMAIN smsList' = 1 .. n + 1
      BY <1>2 DEF Inv, TypeOK, SendMsg
    <3>2. \A i \in 1 .. n : smsList[i] # m
      BY <1>2, <3>1 DEF Inv, ListIsLive, SendMsg
    <3>3. IsInjective(smsList)'
      BY <3>1, <3>2 DEF Inv, ListIsLive, IsInjective
    <3>4. ASSUME NEW x \in Msg
          PROVE  heap'[x] = "live" <=> \E i \in DOMAIN smsList' : smsList'[i] = x
      <4>1. heap'[x] = "live" <=> heap[x] = "live" \/ x = m
        BY <1>2 DEF SendMsg, Inv, TypeOK
      <4>2. heap[x] = "live" <=> \E i \in 1 .. n : smsList[i] = x
        BY <3>1 DEF Inv, ListIsLive
      <4> QED  BY <3>1, <4>1, <4>2
    <3> QED  BY <3>3, <3>4 DEF ListIsLive
  <2>3. WorkIsLive => WorkIsLive'
    BY <1>2 DEF Inv, TypeOK, SendMsg, WorkIsLive, Working, IsLive, Ready
  <2>4. WorkIsLive /\ BodyIsOwn => BodyIsOwn'
    BY <1>2 DEF Inv, TypeOK, SendMsg, WorkIsLive, Working, BodyIsOwn
  <2>6. StatusIsShared'
    BY <2>0, TakeStatusKeeps DEF Inv
  <2>7. ASSUME SentIsDelivered PROVE SentIsDelivered'
    <3>1. \A x \in Msg : flag'[x] = "SENT" => x \in delivered'
      BY <1>2, <2>0, <2>7 DEF Inv, TypeOK, SendMsg, SentIsDelivered
    <3>2. /\ \A y \in Msg : waiter[y] # "none" /\ Vouched(y) => y # m /\ Vouched(y)'
          /\ \A y \in Msg : waiter'[y] = "ok" => waiter[y] = "ok"
          /\ \A y \in Msg : waiter'[y] = "waiting" /\ status'[statusOf'[y]] = "OK" =>
               waiter[y] = "waiting" /\ status[statusOf[y]] = "OK"
      BY <2>0, TakeStatusKeeps DEF Inv
    <3> QED  BY <2>7, <3>1, <3>2 DEF SentIsDelivered
  <2> QED  BY <1>2, <2>1, <2>2, <2>3, <2>4, <2>6, <2>7 DEF Inv, SendMsg
<1> QED  BY <1>1, <1>2 DEF App

(* A release reports to the byte of its message only, and frees no other   *)
(* message: what was reported stays true, and where the statuses are.      *)
LEMMA ReleaseKeepsReports ==
  ASSUME TypeOK, StatusIsShared, NEW m \in Msg, heap[m] = "live", Release(m),
         UNCHANGED <<flag, statusOf, waiter, shared, delivered>>
  PROVE  /\ StatusIsShared'
         /\ SentIsDelivered => SentIsDelivered'
<1>1. StatusIsShared'
  BY DEF TypeOK, StatusIsShared, Release
<1>2. \A x \in Msg : Vouched(x)' = Vouched(x)
  BY DEF Vouched
<1>3. ASSUME SentIsDelivered, NEW y \in Msg, waiter[y] = "waiting",
             status'[statusOf[y]] = "OK", status[statusOf[y]] # "OK"
      PROVE  Vouched(y)
  <2>1. flag[m] = "SENT" /\ statusOf[m] = statusOf[y]
    BY <1>3 DEF TypeOK, StatusIsShared, Release, Report
  <2>2. m \in delivered /\ (y # m => y \in shared)
    BY <1>3, <2>1 DEF SentIsDelivered, StatusIsShared
  <2> QED  BY <2>1, <2>2 DEF Vouched
<1>4. SentIsDelivered => SentIsDelivered'
  BY <1>2, <1>3 DEF SentIsDelivered
<1> QED  BY <1>1, <1>4

(* Ampm_SmsTask: it frees a message whose chain it starts only with the    *)
(* last try.                                                               *)
LEMMA SmsTaskKeeps ==
  ASSUME Inv, SmsTask
  PROVE  /\ Inv'
         /\ dangled' /\ ~dangled => chain = "idle" /\ tryNum[smsMsg'] = 1
<1>1. ASSUME SmsTaskAttempt
      PROVE  /\ Inv'
             /\ dangled' /\ ~dangled => chain = "idle" /\ tryNum[smsMsg'] = 1
  <2>1. PICK m \in Msg :
          /\ SmsTaskOn(m) /\ Ready(m)
          /\ timeout' = [timeout EXCEPT ![m] = Reload]
          /\ tryNum' = [tryNum EXCEPT ![m] = @ - 1]
          /\ smsMsg' = m
          /\ chain' = "AT"
          /\ IF tryNum[m] = 1
               THEN Release(m)
               ELSE UNCHANGED <<smsList, heap, status, dangled>>
          /\ UNCHANGED <<flag, hasPhone, waitVars, smsTaskFailCnt, mainVars, body,
                         delivered, full>>
    BY <1>1 DEF SmsTaskAttempt
  <2>2. /\ smsList # <<>> /\ m = Last(smsList) /\ chain = "idle"
        /\ tryNum[m] \in 1 .. Tries
    BY <2>1 DEF SmsTaskOn, Ready, Inv, TypeOK
  <2>3. heap[m] = "live"
    BY <2>2, LastOfList DEF Inv
  <2>4. /\ timeout' \in [Msg -> 0 .. Reload] /\ tryNum' \in [Msg -> 0 .. Tries]
    BY <2>1, <2>2, SmsAssumption DEF Inv, TypeOK
  <2>5. CASE tryNum[m] = 1
    <3>1. Release(m)
      BY <2>1, <2>5
    <3>2. /\ smsList' \in Seq(Msg)
          /\ heap' \in [Msg -> {"unused", "live", "freed"}]
          /\ status' \in [Byte -> {"ERROR", "OK"}]
          /\ dangled' \in BOOLEAN
          /\ ListIsLive'
      BY <2>2, <3>1, ReleaseKeepsList DEF Inv
    <3>3. TypeOK'
      BY <2>1, <2>4, <3>2 DEF Inv, TypeOK, Chains, waitVars, mainVars
    <3>4. dangled'
      BY <2>1, <3>1 DEF Release, InUse
    <3>5. StatusIsShared'
      BY <2>1, <2>3, <3>1, ReleaseKeepsReports DEF Inv, waitVars
    <3> QED  BY <2>1, <2>2, <2>5, <3>2, <3>3, <3>4, <3>5 DEF Inv
  <2>6. CASE tryNum[m] # 1
    <3>1. UNCHANGED <<smsList, heap, status, dangled>>
      BY <2>1, <2>6
    <3>2. TypeOK' /\ ListIsLive' /\ StatusIsShared'
      BY <2>1, <2>4, <3>1 DEF Inv, TypeOK, ListIsLive, StatusIsShared, Chains, waitVars,
                              mainVars
    <3>3. tryNum'[m] > 0
      BY <2>1, <2>2, <2>6 DEF Inv, TypeOK
    <3>4. m # NoMsg
      BY SmsAssumption
    <3>5. WorkIsLive' /\ BodyIsOwn'
      BY <2>1, <2>3, <3>1, <3>3, <3>4 DEF WorkIsLive, IsLive, Ready, BodyIsOwn
    <3>6. SentIsDelivered => SentIsDelivered'
      BY <2>1, <3>1 DEF SentIsDelivered, Vouched, waitVars
    <3> QED  BY <3>1, <3>2, <3>5, <3>6 DEF Inv
  <2> QED  BY <2>5, <2>6
<1>2. ASSUME SmsTaskDrop PROVE Inv' /\ (dangled' => dangled)
  <2>1. PICK m \in Msg : /\ SmsTaskOn(m) /\ Release(m)
                         /\ UNCHANGED <<blockVars, waitVars, chainVars, mainVars>>
    BY <1>2 DEF SmsTaskDrop
  <2>2. smsList # <<>> /\ m = Last(smsList) /\ chain = "idle"
    BY <2>1 DEF SmsTaskOn
  <2>3. TypeOK' /\ ListIsLive'
    BY <2>1, <2>2, ReleaseKeepsList DEF Inv, TypeOK, blockVars, waitVars, chainVars,
                                        mainVars
  <2>4. dangled' = dangled /\ WorkIsLive' /\ BodyIsOwn'
    BY <2>1, <2>2 DEF Release, InUse, WorkIsLive, Working, BodyIsOwn, chainVars, Inv, TypeOK
  <2>5. StatusIsShared' /\ (SentIsDelivered => SentIsDelivered')
    BY <2>1, <2>2, LastOfList, ReleaseKeepsReports DEF Inv, blockVars, waitVars, chainVars
  <2> QED  BY <2>3, <2>4, <2>5 DEF Inv
<1> QED  BY <1>1, <1>2 DEF SmsTask

(* Ampm_SmsTaskPeriodic_1Sec, which runs at any time, drops no message that*)
(* the chain works on.                                                     *)
LEMMA PeriodicKeeps ==
  ASSUME Inv, Periodic
  PROVE  Inv' /\ (dangled' => dangled)
<1>1. CASE PeriodicTick
  <2>1. TypeOK'
    <3>1. PICK m \in Msg : timeout[m] > 0 /\ timeout' = [timeout EXCEPT ![m] = @ - 1]
      BY <1>1 DEF PeriodicTick
    <3>2. timeout[m] - 1 \in 0 .. Reload
      BY <3>1, SmsAssumption DEF Inv, TypeOK
    <3>3. timeout' \in [Msg -> 0 .. Reload]
      BY <3>1, <3>2 DEF Inv, TypeOK
    <3> QED
      BY <1>1, <3>3 DEF Inv, PeriodicTick, TypeOK, waitVars, chainVars, mainVars
  <2>2. ListIsLive' /\ StatusIsShared'
    BY <1>1 DEF Inv, PeriodicTick, ListIsLive, StatusIsShared, waitVars
  <2>3. /\ WorkIsLive => WorkIsLive'
        /\ BodyIsOwn => BodyIsOwn'
        /\ SentIsDelivered => SentIsDelivered'
    BY <1>1 DEF PeriodicTick, WorkIsLive, Working, IsLive, Ready, BodyIsOwn,
                SentIsDelivered, Vouched, waitVars, chainVars
  <2> QED  BY <1>1, <2>1, <2>2, <2>3 DEF Inv, PeriodicTick
<1>2. CASE PeriodicDrop
  <2>1. PICK m \in Msg : /\ smsList # <<>> /\ m = Last(smsList) /\ ~Ready(m)
                         /\ UNCHANGED <<blockVars, waitVars, chainVars, mainVars>>
                         /\ Release(m)
    BY <1>2 DEF PeriodicDrop
  <2>2. TypeOK' /\ ListIsLive'
    BY <2>1, ReleaseKeepsList DEF Inv, TypeOK, blockVars, waitVars, chainVars, mainVars
  <2>5. StatusIsShared' /\ (SentIsDelivered => SentIsDelivered')
    BY <2>1, LastOfList, ReleaseKeepsReports DEF Inv, blockVars, waitVars, chainVars
  <2>3. ASSUME ~dangled
        PROVE  ~dangled' /\ WorkIsLive' /\ BodyIsOwn' /\ SentIsDelivered'
    <3>1. WorkIsLive /\ BodyIsOwn /\ SentIsDelivered
      BY <2>3 DEF Inv
    <3>2. Working => smsMsg # m
      BY <2>1, <3>1 DEF WorkIsLive
    <3>3. ~dangled'
      BY <2>1, <2>3, <3>2 DEF Release, InUse, Working, chainVars
    <3>4. WorkIsLive' /\ BodyIsOwn'
      BY <2>1, <3>1, <3>2 DEF Release, WorkIsLive, Working, IsLive, Ready, BodyIsOwn,
                              blockVars, chainVars, Inv, TypeOK
    <3> QED  BY <2>5, <3>1, <3>3, <3>4
  <2>4. dangled => dangled'
    BY <2>1 DEF Release
  <2> QED  BY <2>2, <2>3, <2>4, <2>5 DEF Inv
<1> QED  BY <1>1, <1>2 DEF Periodic

(* The callbacks of the chain free nothing, and mark a message as sent only*)
(* when the modem has confirmed its text (sms.c, Ampm_GsmSmsSent).         *)
LEMMA ChainStepKeeps ==
  ASSUME Inv, NEW from, NEW to, to \in Chains, ChainMoves(from, to),
         sending' \in BOOLEAN,
         flag' \in [Msg -> {"NEW", "SENT", "FAIL"}],
         hasPhone' \in [Msg -> BOOLEAN],
         smsTaskFailCnt' \in 0 .. SmsMaxRetry,
         body' \in Msg \cup {NoMsg},
         delivered' \in SUBSET Msg,
         full' \in [Msg -> Nat],
         Working' => Working /\ UNCHANGED <<flag, hasPhone>>,
         chain' = "ANSWER" /\ WorkIsLive => body' = smsMsg,
         delivered \subseteq delivered',
         WorkIsLive /\ BodyIsOwn => \A m \in Msg :
           flag'[m] = "SENT" => flag[m] = "SENT" \/ m \in delivered'
  PROVE  Inv' /\ dangled' = dangled
<1>1. /\ UNCHANGED <<smsList, heap, tryNum, timeout, status, waitVars, smsMsg, halted,
                     dangled>>
      /\ chain' = to
  BY DEF ChainMoves
<1>2. TypeOK' /\ ListIsLive' /\ StatusIsShared'
  BY <1>1 DEF Inv, TypeOK, ListIsLive, StatusIsShared, waitVars
<1>3. WorkIsLive => WorkIsLive'
  BY <1>1 DEF WorkIsLive, IsLive, Ready
<1>4. WorkIsLive => BodyIsOwn'
  BY <1>1 DEF BodyIsOwn
<1>5. WorkIsLive /\ BodyIsOwn /\ SentIsDelivered => SentIsDelivered'
  BY <1>1 DEF SentIsDelivered, Vouched, waitVars
<1> QED  BY <1>1, <1>2, <1>3, <1>4, <1>5 DEF Inv

(* So does each command of the chain, and a reset in its middle.           *)
LEMMA ChainKeeps ==
  ASSUME Inv, Decide \/ RestartCMGS \/ TransmitBody \/ Answers \/ ModemReset
  PROVE  Inv' /\ dangled' = dangled
<1> USE DEF Chains, Working, ChainStep
<1>0. /\ TypeOK /\ (TaskRuns => smsTaskFailCnt + 1 \in 0 .. SmsMaxRetry)
      /\ smsTaskFailCnt \in 0 .. SmsMaxRetry /\ 0 \in 0 .. SmsMaxRetry
  BY SmsAssumption DEF Inv, TypeOK, TaskRuns
<1>1. ASSUME EndAT PROVE Inv' /\ dangled' = dangled
  <2>1. PICK to \in {"CMGF_0", "CMGF_1"} : ChainStep({"AT"}, to)
    BY <1>1 DEF EndAT
  <2> QED  BY <1>0, <1>1, <2>1, ChainStepKeeps DEF EndAT, TypeOK, ChainMoves
<1>2. ASSUME EndCMGF PROVE Inv' /\ dangled' = dangled
  <2>1. PICK to \in {"end", "CSCA", "CMGS"} : ChainStep({"CMGF_1", "CMGF_0"}, to)
    BY <1>2 DEF EndCMGF
  <2> QED  BY <1>0, <1>2, <2>1, ChainStepKeeps DEF EndCMGF, TypeOK, ChainMoves
<1>3. ASSUME EndCSCA PROVE Inv' /\ dangled' = dangled
  BY <1>0, <1>3, ChainStepKeeps DEF EndCSCA, TypeOK, ChainMoves
<1>4. ASSUME SendCMGS PROVE Inv' /\ dangled' = dangled
  BY <1>0, <1>4, ChainStepKeeps DEF SendCMGS, TypeOK, ChainMoves
<1>5. ASSUME RejectCMGS PROVE Inv' /\ dangled' = dangled
  <2>1. PICK f \in {"SENT", "FAIL"} :
          /\ f = "SENT" => \E ph \in PhoneRead : ~ph
          /\ ChainStep({"CMGS"}, "end")
          /\ Store(flag, f)
          /\ Store(hasPhone, FALSE)
          /\ smsTaskFailCnt' = smsTaskFailCnt + 1
          /\ UNCHANGED <<body, delivered, full>>
    BY <1>5 DEF RejectCMGS
  <2>2. /\ flag' \in [Msg -> {"NEW", "SENT", "FAIL"}]
        /\ hasPhone' \in [Msg -> BOOLEAN]
    BY <1>0, <2>1 DEF TypeOK, Store
  <2>3. ASSUME WorkIsLive, NEW m \in Msg, flag'[m] = "SENT"
        PROVE  flag[m] = "SENT"
    <3>1. IsLive(smsMsg) /\ hasPhone[smsMsg]
      BY <2>1, <2>3 DEF ChainMoves, WorkIsLive, Ready
    <3>2. f # "SENT"
      BY <2>1, <3>1 DEF PhoneRead
    <3> QED  BY <1>0, <2>1, <2>3, <3>2 DEF TypeOK, Store
  <2> QED  BY <1>0, <2>1, <2>2, <2>3, ChainStepKeeps DEF TypeOK, ChainMoves
<1>6. ASSUME RestartCMGS PROVE Inv' /\ dangled' = dangled
  BY <1>0, <1>6, ChainStepKeeps DEF RestartCMGS, TypeOK, ChainMoves
<1>7. ASSUME TransmitBody PROVE Inv' /\ dangled' = dangled
  <2>1. body' \in Msg \cup {NoMsg} /\ (WorkIsLive => body' = smsMsg)
    BY <1>0, <1>7 DEF TransmitBody, TypeOK, WorkIsLive, ChainMoves
  <2> QED  BY <1>0, <1>7, <2>1, ChainStepKeeps DEF TransmitBody, TypeOK, ChainMoves
<1>8. ASSUME BodyOk PROVE Inv' /\ dangled' = dangled
  <2>1. /\ flag' \in [Msg -> {"NEW", "SENT", "FAIL"}]
        /\ hasPhone' \in [Msg -> BOOLEAN]
    BY <1>0, <1>8 DEF BodyOk, TypeOK, Store
  <2>2. full' \in [Msg -> Nat]
    BY <1>0, <1>8 DEF BodyOk, CountFull, IsLive, TypeOK
  <2>3. ASSUME WorkIsLive, BodyIsOwn, NEW m \in Msg, flag'[m] = "SENT"
        PROVE  flag[m] = "SENT" \/ m \in delivered'
    <3>1. body = smsMsg /\ smsMsg # NoMsg
      BY <1>8, <2>3 DEF BodyOk, ChainMoves, BodyIsOwn, WorkIsLive, IsLive
    <3> QED  BY <1>0, <1>8, <2>3, <3>1 DEF BodyOk, Store, TypeOK
  <2>4. delivered' \in SUBSET Msg /\ delivered \subseteq delivered'
    BY <1>0, <1>8 DEF BodyOk, TypeOK
  <2> QED  BY <1>0, <1>8, <2>1, <2>2, <2>3, <2>4, ChainStepKeeps
    DEF BodyOk, TypeOK, ChainMoves
<1>9. ASSUME BodyFail PROVE Inv' /\ dangled' = dangled
  <2>1. full' \in [Msg -> Nat]
    BY <1>0, <1>9 DEF BodyFail, CountFull, IsLive, TypeOK
  <2> QED  BY <1>0, <1>9, <2>1, ChainStepKeeps DEF BodyFail, TypeOK, ChainMoves
<1>10. ASSUME EndCREG PROVE Inv' /\ dangled' = dangled
  BY <1>0, <1>10, ChainStepKeeps DEF EndCREG, TypeOK, ChainMoves
<1>11. ASSUME EndEnd PROVE Inv' /\ dangled' = dangled
  BY <1>0, <1>11, ChainStepKeeps DEF EndEnd, TypeOK, ChainMoves
<1>12. ASSUME ModemReset PROVE Inv' /\ dangled' = dangled
  <2>1. PICK to \in AfterReset(chain) :
          /\ chain # "idle" /\ ChainMoves({chain}, to) /\ sending' = FALSE
          /\ UNCHANGED <<flag, hasPhone, smsTaskFailCnt, body, delivered, full>>
    BY <1>12 DEF ModemReset
  <2>2. to \in Chains /\ to # "ANSWER" /\ (to \in {"AT", "CMGF_1", "CMGF_0", "CSCA",
          "CMGS", "BODY"} => Working)
    BY <1>0, <2>1 DEF AfterReset, TypeOK
  <2> QED  BY <1>0, <2>1, <2>2, ChainStepKeeps DEF TypeOK, ChainMoves
<1> QED
  BY <1>1, <1>2, <1>3, <1>4, <1>5, <1>6, <1>7, <1>8, <1>9, <1>10, <1>11, <1>12
  DEF Decide, Answers

-----------------------------------------------------------------------------
(* Every step keeps the invariant, and frees a block in use only with the  *)
(* last try of its message.                                                *)
LEMMA NextKeeps ==
  ASSUME Inv, [Next]_vars
  PROVE  /\ Inv'
         /\ dangled' /\ ~dangled => chain = "idle" /\ tryNum[smsMsg'] = 1
<1>1. ASSUME halted' \in BOOLEAN, sending' \in BOOLEAN,
             UNCHANGED <<smsList, heap, blockVars, status, waitVars, chainVars, dangled>>
      PROVE  Inv' /\ dangled' = dangled
  <2> USE DEF blockVars, waitVars, chainVars
  <2>1. TypeOK' /\ ListIsLive' /\ StatusIsShared'
    BY <1>1 DEF Inv, TypeOK, ListIsLive, StatusIsShared
  <2>2. /\ WorkIsLive => WorkIsLive'
        /\ BodyIsOwn => BodyIsOwn'
        /\ SentIsDelivered => SentIsDelivered'
    BY <1>1 DEF WorkIsLive, Working, IsLive, Ready, BodyIsOwn, SentIsDelivered, Vouched
  <2> QED  BY <1>1, <2>1, <2>2 DEF Inv
<1>2. ASSUME Halt \/ MainPhase PROVE Inv' /\ dangled' = dangled
  BY <1>1, <1>2 DEF Halt, MainPhase, EnterSend, LeaveSend, Inv, TypeOK
<1>3. ASSUME UNCHANGED vars PROVE Inv' /\ dangled' = dangled
  BY <1>1, <1>3 DEF vars, mainVars, Inv, TypeOK
<1> QED
  BY <1>2, <1>3, AppKeeps, SmsTaskKeeps, PeriodicKeeps, ChainKeeps DEF Next

(* The invariant holds in every state of the program.                      *)
THEOREM Invariance == Spec => []Inv
<1>1. ASSUME Init PROVE Inv
  <2>1. TypeOK
    <3>1. 0 \in 0 .. Tries /\ 0 \in 0 .. Reload /\ 0 \in 0 .. SmsMaxRetry /\ 0 \in Nat
      BY SmsAssumption
    <3>2. smsList \in Seq(Msg)
      BY <1>1 DEF Init
    <3>3. /\ tryNum \in [Msg -> 0 .. Tries] /\ timeout \in [Msg -> 0 .. Reload]
          /\ full \in [Msg -> Nat]
      BY <1>1, <3>1 DEF Init
    <3> QED  BY <1>1, <3>1, <3>2, <3>3 DEF Init, TypeOK, Chains
  <2>2. ListIsLive
    BY <1>1 DEF Init, ListIsLive, IsInjective
  <2>3. WorkIsLive /\ BodyIsOwn /\ StatusIsShared /\ SentIsDelivered
    BY <1>1 DEF Init, WorkIsLive, Working, BodyIsOwn, StatusIsShared, SentIsDelivered
  <2> QED  BY <2>1, <2>2, <2>3 DEF Inv
<1> QED  BY <1>1, NextKeeps, PTL DEF Spec

(* The list is a list of messages, and the counters of a message and of the*)
(* failures in a row stay in their ranges.                                 *)
THEOREM TypeCorrect == Spec => []TypeOK
<1>1. Inv => TypeOK
  BY DEF Inv
<1> QED  BY Invariance, <1>1, PTL

(* The list holds the blocks that are allocated and not freed, each once:  *)
(* neither Ampm_SmsTask nor the periodic frees a message twice or forgets  *)
(* one.                                                                    *)
THEOREM ListIsLiveHolds == Spec => []ListIsLive
<1>1. Inv => ListIsLive
  BY DEF Inv
<1> QED  BY Invariance, <1>1, PTL

(* As long as no block was freed in use, SendSmsWait returns SMS_OK only   *)
(* for a message that the modem confirmed, or for one whose status byte a  *)
(* message in the list still pointed to when it was allocated, and which   *)
(* the modem confirmed instead (sms.c:429, 510).                           *)
THEOREM OkMeansDeliveredHolds == Spec => []OkMeansDelivered
<1>1. Inv => OkMeansDelivered
  BY DEF Inv, SentIsDelivered, OkMeansDelivered
<1> QED  BY Invariance, <1>1, PTL

(* A block is freed under its own chain only by Ampm_SmsTask, with the last*)
(* try of the message.                                                     *)
THEOREM FreedInUseOnlyAtLastTryHolds == Spec => FreedInUseOnlyAtLastTry
<1>1. Inv /\ [Next]_vars =>
        [dangled' /\ ~dangled => /\ chain = "idle"
                                 /\ tryNum[smsMsg'] = 1]_vars
  BY NextKeeps
<1> QED  BY Invariance, <1>1, PTL DEF Spec, FreedInUseOnlyAtLastTry

-----------------------------------------------------------------------------
(* How often a message that is given up was tried, when the modem is not   *)
(* reset: once less than asked.                                            *)

UnderWay(m) == IF Working /\ smsMsg = m THEN 1 ELSE 0

(* Each try that Ampm_SmsTask has counted is an attempt that ran to its    *)
(* end, or the one under way.  A block allocated where a freed one was     *)
(* still in use may be given an attempt it did not ask for.                *)
AttemptsMade ==
  /\ \A m \in Msg : heap[m] = "unused" => full[m] = 0
  /\ \A m \in Msg : heap[m] = "live" /\ flag[m] = "NEW" /\ hasPhone[m] =>
       /\ tryNum[m] > 0
       /\ full[m] + UnderWay(m) >= Tries - tryNum[m]
       /\ ~dangled => full[m] + UnderWay(m) = Tries - tryNum[m]

(* An attempt goes on until it has run to its end, and then counts.        *)
LEMMA ChainStepCounts ==
  ASSUME Inv, AttemptsMade, NEW from, NEW to, ChainStep(from, to),
         full' \in [Msg -> Nat],
         \A m \in Msg : heap[m] = "unused" => full'[m] = full[m],
         \A m \in Msg : heap[m] = "live" /\ flag'[m] = "NEW" /\ hasPhone'[m] =>
           /\ flag[m] = "NEW" /\ hasPhone[m]
           /\ full'[m] + UnderWay(m)' = full[m] + UnderWay(m)
  PROVE  AttemptsMade'
BY DEF ChainStep, ChainMoves, AttemptsMade

(* The chain without a reset: a message with a number is not passed over.  *)
LEMMA ChainCounts ==
  ASSUME Inv, AttemptsMade, Decide \/ RestartCMGS \/ TransmitBody \/ Answers
  PROVE  AttemptsMade'
<1> USE DEF Working, UnderWay, ChainStep, ChainMoves
<1>0. TypeOK
  BY DEF Inv
<1>1. ASSUME EndAT PROVE AttemptsMade'
  <2>1. PICK to \in {"CMGF_0", "CMGF_1"} : ChainStep({"AT"}, to)
    BY <1>1 DEF EndAT
  <2> QED  BY <1>0, <1>1, <2>1, ChainStepCounts DEF EndAT, TypeOK, ChainStep
<1>2. ASSUME EndCMGF PROVE AttemptsMade'
  <2>1. PICK to \in {"end", "CSCA", "CMGS"} :
          /\ ChainStep({"CMGF_1", "CMGF_0"}, to)
          /\ to = "end" => FALSE \in PhoneRead
          /\ UNCHANGED <<flag, hasPhone, smsTaskFailCnt, body, delivered, full>>
    <3>1. PICK md \in ModeRead, ph \in PhoneRead :
            /\ ChainStep({"CMGF_1", "CMGF_0"},
                         IF ~ph THEN "end"
                         ELSE IF md = "pdu" \/ chain = "CMGF_0" THEN "CSCA" ELSE "CMGS")
            /\ UNCHANGED <<flag, hasPhone, smsTaskFailCnt, body, delivered, full>>
      BY <1>2 DEF EndCMGF
    <3>2. PhoneRead \subseteq BOOLEAN
      BY <1>0, SmsAssumption DEF PhoneRead, TypeOK, IsLive
    <3> QED  BY <3>1, <3>2
  <2>2. ASSUME NEW m \in Msg, heap[m] = "live", hasPhone[m]
        PROVE  UnderWay(m)' = UnderWay(m)
    BY <2>1, <2>2, SmsAssumption DEF ChainStep, PhoneRead, IsLive
  <2> QED  BY <1>0, <2>1, <2>2, ChainStepCounts DEF TypeOK
<1>3. ASSUME EndCSCA PROVE AttemptsMade'
  BY <1>0, <1>3, ChainStepCounts DEF EndCSCA, TypeOK, ChainStep
<1>4. ASSUME SendCMGS PROVE AttemptsMade'
  BY <1>0, <1>4, ChainStepCounts DEF SendCMGS, TypeOK, ChainStep
<1>5. ASSUME RejectCMGS PROVE AttemptsMade'
  <2>1. /\ ChainStep({"CMGS"}, "end")
        /\ full' = full
        /\ Store(hasPhone, FALSE)
        /\ \E f \in {"SENT", "FAIL"} : Store(flag, f)
    BY <1>5 DEF RejectCMGS
  <2>2. ASSUME NEW m \in Msg, heap[m] = "live", hasPhone'[m]
        PROVE  m # smsMsg /\ flag'[m] = flag[m] /\ hasPhone[m]
    BY <1>0, <2>1, <2>2, SmsAssumption DEF Store, IsLive, TypeOK
  <2> QED  BY <1>0, <2>1, <2>2, ChainStepCounts DEF TypeOK, ChainStep
<1>6. ASSUME RestartCMGS PROVE AttemptsMade'
  BY <1>0, <1>6, ChainStepCounts DEF RestartCMGS, TypeOK, ChainStep
<1>7. ASSUME TransmitBody PROVE AttemptsMade'
  BY <1>0, <1>7, ChainStepCounts DEF TransmitBody, TypeOK, ChainStep
<1>8. ASSUME BodyOk PROVE AttemptsMade'
  <2>1. /\ full' \in [Msg -> Nat]
        /\ \A m \in Msg : m # smsMsg \/ heap[m] # "live" => full'[m] = full[m]
    BY <1>0, <1>8 DEF BodyOk, CountFull, IsLive, TypeOK
  <2>2. ASSUME NEW m \in Msg, heap[m] = "live", hasPhone'[m]
        PROVE  m # smsMsg /\ flag'[m] = flag[m] /\ hasPhone[m]
    BY <1>0, <1>8, <2>2, SmsAssumption DEF BodyOk, Store, IsLive, TypeOK
  <2> QED  BY <1>0, <1>8, <2>1, <2>2, ChainStepCounts DEF BodyOk, TypeOK, ChainStep
<1>9. ASSUME BodyFail PROVE AttemptsMade'
  <2>1. /\ full' \in [Msg -> Nat]
        /\ \A m \in Msg : full'[m] =
              IF m = smsMsg /\ heap[m] = "live" THEN full[m] + 1 ELSE full[m]
    BY <1>0, <1>9, SmsAssumption DEF BodyFail, CountFull, IsLive, TypeOK
  <2>2. \A m \in Msg : heap[m] = "live" =>
          full'[m] + UnderWay(m)' = full[m] + UnderWay(m)
    BY <1>0, <1>9, <2>1 DEF BodyFail, ChainStep, TypeOK
  <2> QED  BY <1>0, <1>9, <2>1, <2>2, ChainStepCounts DEF BodyFail, TypeOK, ChainStep
<1>10. ASSUME EndCREG PROVE AttemptsMade'
  BY <1>0, <1>10, ChainStepCounts DEF EndCREG, TypeOK, ChainStep
<1>11. ASSUME EndEnd PROVE AttemptsMade'
  BY <1>0, <1>11, ChainStepCounts DEF EndEnd, TypeOK, ChainStep
<1> QED
  BY <1>1, <1>2, <1>3, <1>4, <1>5, <1>6, <1>7, <1>8, <1>9, <1>10, <1>11
  DEF Decide, Answers

(* A message is given up only by Ampm_SmsTask when it loads its last       *)
(* attempt.                                                                *)
LEMMA NextCounts ==
  ASSUME Inv, AttemptsMade, ~WithReset, [Next]_vars
  PROVE  /\ AttemptsMade'
         /\ \A m \in Msg :
              heap[m] = "live" /\ heap'[m] = "freed" /\ flag[m] = "NEW" /\ hasPhone[m]
                => chain = "idle" /\ tryNum[m] = 1
<1> USE DEF UnderWay
<1>0. TypeOK
  BY DEF Inv
<1>1. ASSUME NEW m \in Msg, SendMsg(m)
      PROVE  AttemptsMade' /\ \A x \in Msg : heap[x] = "live" => heap'[x] = "live"
  <2>1. /\ heap[m] = "unused" /\ heap' = [heap EXCEPT ![m] = "live"]
        /\ flag' = [flag EXCEPT ![m] = "NEW"]
        /\ hasPhone' = [hasPhone EXCEPT ![m] = mode[m] # "empty"]
        /\ tryNum' = [tryNum EXCEPT ![m] = Tries]
        /\ smsMsg' \in {smsMsg, m}
        /\ smsMsg' = m /\ smsMsg # m => ~IsLive(smsMsg)
        /\ UNCHANGED <<chain, full, dangled>>
    BY <1>1 DEF SendMsg
  <2>2. ~dangled /\ Working => smsMsg' = smsMsg /\ smsMsg # m
    BY <2>1 DEF Inv, WorkIsLive, IsLive
  <2>3. full[m] = 0
    BY <2>1 DEF AttemptsMade
  <2>4. ASSUME NEW x \in Msg, x # m, heap'[x] = "live", flag'[x] = "NEW", hasPhone'[x]
        PROVE  /\ tryNum'[x] > 0
               /\ full'[x] + UnderWay(x)' >= Tries - tryNum'[x]
               /\ ~dangled' => full'[x] + UnderWay(x)' = Tries - tryNum'[x]
    <3>1. /\ heap[x] = "live" /\ flag[x] = "NEW" /\ hasPhone[x]
          /\ tryNum'[x] = tryNum[x] /\ full'[x] = full[x]
      BY <1>0, <2>1, <2>4 DEF TypeOK
    <3>2. UnderWay(x)' = UnderWay(x)
      BY <2>1, <2>4, <3>1, SmsAssumption DEF Working, IsLive
    <3> QED  BY <2>1, <3>1, <3>2 DEF AttemptsMade
  <2>5. /\ tryNum'[m] = Tries /\ Tries > 0 /\ full'[m] = 0
        /\ ~dangled' => UnderWay(m)' = 0
    BY <1>0, <2>1, <2>2, <2>3, SmsAssumption DEF TypeOK, Working
  <2>6. \A x \in Msg : heap'[x] = "unused" => full'[x] = 0
    BY <1>0, <2>1 DEF TypeOK, AttemptsMade
  <2>7. UnderWay(m)' \in {0, 1}
    OBVIOUS
  <2>8. /\ full'[m] + UnderWay(m)' >= Tries - tryNum'[m]
        /\ ~dangled' => full'[m] + UnderWay(m)' = Tries - tryNum'[m]
    BY <2>5, <2>7, SmsAssumption
  <2> QED  BY <1>0, <2>1, <2>4, <2>5, <2>6, <2>8 DEF AttemptsMade, TypeOK
<1>2. ASSUME NEW m \in Msg, SmsTaskOn(m), Ready(m),
             tryNum' = [tryNum EXCEPT ![m] = @ - 1],
             smsMsg' = m, chain' = "AT",
             IF tryNum[m] = 1 THEN Release(m)
                              ELSE UNCHANGED <<smsList, heap, status, dangled>>,
             UNCHANGED <<flag, hasPhone, full>>
      PROVE  /\ AttemptsMade'
             /\ \A x \in Msg :
                  heap[x] = "live" /\ heap'[x] = "freed" /\ flag[x] = "NEW" /\ hasPhone[x]
                    => chain = "idle" /\ tryNum[x] = 1
  <2>1. /\ chain = "idle" /\ ~Working /\ Working' /\ tryNum[m] \in 1 .. Tries
        /\ heap[m] = "live"
    <3>1. chain = "idle" /\ smsList # <<>> /\ m = Last(smsList) /\ tryNum[m] > 0
      BY <1>2 DEF SmsTaskOn, Ready
    <3>2. heap[m] = "live"
      BY <3>1, LastOfList DEF Inv
    <3>3. tryNum[m] \in 0 .. Tries
      BY <1>0 DEF TypeOK
    <3> QED  BY <1>2, <3>1, <3>2, <3>3 DEF Working
  <2>2. /\ dangled => dangled'
        /\ \A x \in Msg \ {m} : heap'[x] = heap[x] /\ tryNum'[x] = tryNum[x]
        /\ heap'[m] = IF tryNum[m] = 1 THEN "freed" ELSE "live"
        /\ tryNum'[m] = tryNum[m] - 1
    BY <1>0, <1>2, <2>1 DEF Release, TypeOK
  <2>3. \A x \in Msg : UnderWay(x) = 0 /\ UnderWay(x)' = IF x = m THEN 1 ELSE 0
    BY <1>2, <2>1
  <2>4. ASSUME NEW x \in Msg, x # m, heap'[x] = "live", flag'[x] = "NEW", hasPhone'[x]
        PROVE  /\ tryNum'[x] > 0
               /\ full'[x] + UnderWay(x)' >= Tries - tryNum'[x]
               /\ ~dangled' => full'[x] + UnderWay(x)' = Tries - tryNum'[x]
    BY <1>2, <2>2, <2>3, <2>4 DEF AttemptsMade
  <2>5. ASSUME heap'[m] = "live", flag'[m] = "NEW", hasPhone'[m]
        PROVE  /\ tryNum'[m] > 0
               /\ full'[m] + UnderWay(m)' >= Tries - tryNum'[m]
               /\ ~dangled' => full'[m] + UnderWay(m)' = Tries - tryNum'[m]
    <3>1. /\ full[m] + 0 >= Tries - tryNum[m]
          /\ ~dangled => full[m] + 0 = Tries - tryNum[m]
      BY <1>2, <2>1, <2>3, <2>5 DEF AttemptsMade
    <3>2. full[m] \in Nat /\ full'[m] = full[m] /\ UnderWay(m)' = 1
      BY <1>0, <1>2, <2>3 DEF TypeOK
    <3>3. tryNum[m] # 1
      BY <2>2, <2>5
    <3> QED  BY <2>1, <2>2, <3>1, <3>2, <3>3, SmsAssumption
  <2>6. \A x \in Msg : heap'[x] = "unused" => full'[x] = 0
    BY <1>2, <2>1, <2>2 DEF AttemptsMade
  <2> QED  BY <1>2, <2>1, <2>2, <2>4, <2>5, <2>6 DEF AttemptsMade
<1>3. ASSUME NEW m \in Msg, smsList # <<>>, m = Last(smsList), ~Ready(m), Release(m),
             UNCHANGED <<flag, hasPhone, tryNum, smsMsg, chain, full>>
      PROVE  /\ AttemptsMade'
             /\ \A x \in Msg :
                  heap[x] = "live" /\ heap'[x] = "freed" => ~(flag[x] = "NEW" /\ hasPhone[x])
  <2>1. heap[m] = "live" /\ ~(flag[m] = "NEW" /\ hasPhone[m])
    BY <1>3, LastOfList DEF Inv, AttemptsMade, Ready
  <2>2. /\ heap' = [heap EXCEPT ![m] = "freed"]
        /\ dangled => dangled'
        /\ \A x \in Msg : UnderWay(x)' = UnderWay(x)
    BY <1>3 DEF Release, Working
  <2> QED  BY <1>0, <1>3, <2>1, <2>2 DEF AttemptsMade, TypeOK
<1>4. ASSUME UNCHANGED <<heap, flag, hasPhone, tryNum, smsMsg, chain, full, dangled>>
      PROVE  AttemptsMade'
  BY <1>4 DEF AttemptsMade, Working
<1>5. CASE App
  <2>1. ASSUME NEW m \in Msg, WaitEnds(m)
        PROVE  UNCHANGED <<heap, flag, hasPhone, tryNum, smsMsg, chain, full, dangled>>
    BY <2>1 DEF WaitEnds, blockVars, chainVars
  <2> QED  BY <1>0, <1>1, <1>4, <1>5, <2>1 DEF App, TypeOK
<1>6. CASE SmsTask
  <2>1. CASE SmsTaskAttempt
    BY <1>2, <2>1 DEF SmsTaskAttempt
  <2>2. CASE SmsTaskDrop
    BY <1>3, <2>2 DEF SmsTaskDrop, SmsTaskOn, blockVars, chainVars
  <2> QED  BY <1>6, <2>1, <2>2 DEF SmsTask
<1>7. CASE Periodic
  <2>1. CASE PeriodicTick
    BY <1>4, <2>1 DEF PeriodicTick, chainVars
  <2>2. CASE PeriodicDrop
    BY <1>3, <2>2 DEF PeriodicDrop, blockVars, chainVars
  <2> QED  BY <1>7, <2>1, <2>2 DEF Periodic
<1>8. CASE Decide \/ RestartCMGS \/ TransmitBody \/ Answers
  <2>1. heap' = heap
    BY <1>8 DEF Decide, EndAT, EndCMGF, EndCSCA, SendCMGS, RejectCMGS, RestartCMGS,
                TransmitBody, Answers, BodyOk, BodyFail, EndCREG, EndEnd, ChainStep,
                ChainMoves
  <2> QED  BY <1>8, <2>1, ChainCounts
<1>9. CASE Halt \/ MainPhase \/ UNCHANGED vars
  BY <1>4, <1>9 DEF Halt, MainPhase, EnterSend, LeaveSend, vars, blockVars, chainVars
<1> QED
  BY <1>5, <1>6, <1>7, <1>8, <1>9 DEF Next, ModemReset

(* Finding 2, exactly: when the modem is not reset a message that is given *)
(* up was attempted Tries - 1 times, neither less often nor, as long as no *)
(* block was freed in use, more often.  So no choice of tryNum gives the   *)
(* application as many attempts as it asks for (sms.c:481-497).            *)
GivenUpOneShort ==
  [][\A m \in Msg :
       heap[m] = "live" /\ heap'[m] = "freed" /\ flag[m] = "NEW" /\ hasPhone[m]
         => /\ full[m] >= Tries - 1
            /\ ~dangled => full[m] = Tries - 1]_vars

(* It follows from AttemptsMade: a message is given up when its chain is   *)
(* idle and one try is left, so the others ran to their ends.              *)
THEOREM GivenUpOneShortHolds ==
  ASSUME ~WithReset
  PROVE  Spec => GivenUpOneShort
<1>1. Init => AttemptsMade
  BY DEF Init, AttemptsMade
<1>2. Inv /\ AttemptsMade /\ [Next]_vars => AttemptsMade'
  BY NextCounts
<1>3. Inv /\ AttemptsMade /\ [Next]_vars =>
        [\A m \in Msg :
           heap[m] = "live" /\ heap'[m] = "freed" /\ flag[m] = "NEW" /\ hasPhone[m]
             => /\ full[m] >= Tries - 1
                /\ ~dangled => full[m] = Tries - 1]_vars
  <2> SUFFICES ASSUME Inv, AttemptsMade, [Next]_vars, NEW m \in Msg,
                      heap[m] = "live", heap'[m] = "freed", flag[m] = "NEW", hasPhone[m]
               PROVE  /\ full[m] >= Tries - 1
                      /\ ~dangled => full[m] = Tries - 1
    OBVIOUS
  <2>1. chain = "idle" /\ tryNum[m] = 1
    BY NextCounts
  <2>2. UnderWay(m) = 0 /\ full[m] \in Nat
    BY <2>1 DEF UnderWay, Working, Inv, TypeOK
  <2> QED  BY <2>1, <2>2, SmsAssumption DEF AttemptsMade
<1> QED  BY Invariance, <1>1, <1>2, <1>3, PTL DEF Spec, GivenUpOneShort
=============================================================================
