# The GSM library of mbed_ampm_gsm_uip_lwip, in TLA+

The repository is the firmware of a GSM/GPRS node (STM32F105, CMSIS-RTX, lwIP
over PPP).  Its own code is `src/firmware/main.cpp` and
`src/firmware/ampm_lib/**`, about nine thousand lines of C; the rest of `src/` is
vendored (mbed OS, RTX, the EthernetInterface with lwIP, FatFs, the STM32 HAL).
There is no README, no design document and no test in the repository: the
comments and the code are what is modelled and what is quoted.

Paths below are relative to `src/firmware/ampm_lib/` unless they say otherwise.

## 1. The system

One thread, the main task, owns the modem.  Everything else talks to it through
shared memory: application threads fill lists, interrupts fill rings and set
flags, the PPP thread sets a status.  Hardly anything is locked: the message list
has a mutex, nothing else has.

```
 application threads                     main task (one loop)
 SendMsg, SendSmsWait ---- list+mutex --> +--------------------------+
 VoiceCallSetup ---------- list --------> | switch(phase)            |
 GsmSetMode -------------- mode --------> |   startup, messages,     |
                                          |   calls, dial-up, data,  |
 PPP thread                               |   escape, sleep          |
 status_cb --------------- ppp_status --> | pending work -> flags    |
                                          | Ampm_Cmd_Task (engine)   | --> UART --> modem
 interrupts                               | Ampm_RingingProcess      |
 UART rx ----------------- byte ring ---> +--------------------------+
 ring pin, +CMTI, RING --- flags, index ring
 SysTick ----------------- counter
```

### Components

| component | state | operations | what makes it correct |
|---|---|---|---|
| byte ring, `lib/ringbuf.c` | `head`, `tail`, the bytes; written by an interrupt and a task without a lock | Put, Get, GetFill, Init | first in, first out; an accepted byte is not lost; the task never reads a slot the interrupt writes; the fill is never overstated |
| AT command engine, `lib/sparser.c` (`Ampm_SendCmd`, `Ampm_Cmd_Task`), `ampm_gsm/ampm_gsm_io.c` | phase, a copy of the command, its resend counter, a timeout | load, send, wait, resend, end, go on with the chain | every command ends; bounded resends; one outcome, and a true one |
| dial-up, `ampm_gsm/ampm_gsm_dial_up.c` | phase, try counter | start the chain, poll the engine, start over, give up | reports success only if every command was answered; ends |
| outgoing messages, `ampm_gsm/ampm_gsm_sms.c`, `ampm_gsm.cpp`, `lib/ampm_list.c` | a list of heap blocks with try and interval counters, `smsMsg` (what the chain works on), a failure counter, the statuses of waiting threads | SendMsg, SendSmsWait, Ampm_SmsTask, its periodic, the callbacks of the chain | no message is freed in use, lost, reported falsely or kept for ever |
| main task, `ampm_gsm/ampm_gsm_main_task.c` | the phase and the flags that move it | one case per phase, pending work, engine, ring | AT parts only run in command mode; data mode rests on a connection; leaving it ends; a call is taken |
| modem startup, `ampm_gsm/ampm_gsm_startup.c` | phase, try counter, a script | power up, run the script, start over | ends in IDLE or starts over; the engine is at rest when it ends |
| ring detector, `ampm_gsm/ampm_gsm_ring.c` | phase, a time of silence, the flags and the pulse count of the interrupts | SetRinging, SetAtRing/Clip/Cmti, Process | a call is seen as a call, a message as a message, neither is dropped |
| voice calls, `ampm_gsm/ampm_gsm_call.c` | a list of outgoing calls, the states of the incoming and the outgoing call | Setup, Cancel, StartRecvCall, CallTask, Periodic, the callbacks | the right call is dialled, as often as asked; a call is hung up before it rests, and leaves the list |
| incoming messages, `ampm_gsm/ampm_gsm_sms.c` | a ring of message numbers, two bytes each; a reading chain with a try counter and a timeout; one text buffer and one flag for it | URC, Recv0..2, ReadMsg | a message is given to the application before it is deleted, is not given up early, and leaves the modem in the end |
| system tick, `lib/sys_tick.c` | counters and timeouts on them | InitTimeout, CheckTimeout | a timeout expires, and not early, also over the wrap |
| flash file system, `ampm_ff/*`, `flash_mem/*` | a header, a link and a close record in the sectors, no table; nothing in the firmware calls it, it is modelled as the library it is | open, create, write, close, unlink, cleanup | a loss of power leaves every file readable or absent |
| packet queue, protocol framing, `lib/packet_queue.c`, `lib/protocol.c` | a queue in a byte array, a parser | push, pop, parse | as the byte ring; `main.cpp` does not use them |
| GPS, DTMF, encodings, time, `sprintf` | buffers | parse, convert | pure conversions |
| application, `src/firmware/main.cpp` | none of its own | calls the library | a demonstration; it is the actor `App` here |

### Which behaviours are hard

* interrupts between any two instructions of the task, on rings and flags that no
  lock protects (the byte ring; the ring detector's flags; the index pairs);
* threads that append to a list the main task frees from, and one that frees the
  status word the main task reports through;
* answers, timeouts and resends of the modem in every order; a loss of carrier,
  an escape that is not answered, a modem that is started over in the middle of
  a chain of commands, which goes on afterwards;
* flags that are set in one phase of the main task and looked at in another;
* counters at their limits (five dial-ups, four escapes, ten failures).

`PROJECT.json` lists these hazards one by one, at the line where they bite, with
the properties that would catch them.

## 2. Modules

| module | models | checked as |
|---|---|---|
| `BoundedFifo` | the abstract queue an interrupt fills and a task empties | the property `IsFifo` of `RingBuf` |
| `RingBuf` | `lib/ringbuf.c` at the grain of its memory accesses | `RingBufOneBurst.cfg`, `RingBufTwoBurst.cfg` |
| `Commands` | the abstract engine: a command is transmitted, judged once, told and over, or replaced | the property `IsCommands` of `AtCmdEngine` |
| `AtCmdEngine` | `Ampm_SendCmd`, `Ampm_Cmd_Task` for any commands and callbacks | `MCAtCmdEngine` |
| `DialUp` | the dial-up over `AtCmdEngine`, in the order of the main loop | `MCDialUp` |
| `SmsQueue` | outgoing messages, from `SendSmsWait` to the modem's confirmation | `MCSmsQueue`, `MCSmsAttempts` |
| `SmsReceive` | incoming messages, from the modem's announcement to their deletion | `SmsReceive.cfg` |
| `SysTick` | `InitTimeout`, `CheckTimeout` on a tick of any width | in `SmsReceive`, which uses it |
| `RingPhases` | the ring state as the main task sees it: what may follow what, and why | used by `GsmMainTask`; the property `IsRingPhases` of `RingDetector` |
| `GsmMainTask` | the whole loop of `AMPM_GSM_MainTask` with its environment | `GsmMainTask.cfg`, `GsmMainTaskCall.cfg` |
| `RingDetector` | `ampm_gsm_ring.c` against its interrupts | `RingDetector.cfg` |
| `VoiceCall` | `ampm_gsm_call.c`: outgoing calls, the incoming one, and the chain they share | `VoiceCall.cfg` |
| `FileStore` | the abstract store: files that are published, removed and lost as a whole | the property `IsFileStore` of `FlashFs` |
| `FlashFs` | `ampm_ff.c`, one write or erase of the flash at a time | `FlashFs.cfg` |
| `RingBufProofs`, `DialUpProofs` (with those of `AtCmdEngine`), `SmsQueueProofs`, `SmsReceiveProofs` (with those of `SysTick`), `GsmMainTaskProofs`, `RingDetectorProofs`, `VoiceCallProofs`, `FlashFsProofs` | | proofs |

**RingBuf.** There is one core and the interrupt is not preempted by the task, so
`RINGBUF_Put` is one action.  The task's side is cut at every access the interrupt
can see: `GetTest` (the comparison), `GetRead`, `GetInc` (`tail++`), `GetWrap`
(`tail = 0`), and for the fill `FillTest`, `FillAbove`, `FillBelow`, where the
head is read a second time.  Between the two stores of the wrap the tail is
`Size`, out of range: the refinement mapping (`Oldest`, `Contents`) reads it as 0.

**AtCmdEngine.** One action per case of `Ampm_Cmd_Task`.  A command is its four
relevant members (`nextCmd`, `retryNum`, and what its send and end callback may
do), which are constants of the module: the proofs hold for any set of commands.
The modem may answer anything at any time; the tick may end any timeout.
`SendLoads` is the send callback that, finding nothing to send, loads another
command: the engine then waits for an answer to a command it has not sent.
`ForceOk` is the INIT phase of the main task and TURN_ON1 of the startup, which
put the phase to OK and leave the command loaded.

**Commands** is the engine as the other parts take it (`SmsQueue`, `SmsReceive`,
`VoiceCall`, `GsmMainTask`): four phases, the command, and a verdict that is given once
after a transmission (or a `SendLoads` in its place), told to the end callback, and then over or replaced.  Resends,
timeouts and late answers are gone.  In `AtCmdEngine` the mapping `Seen` reads the phases
in between as SEND before the first transmission and as WAIT after it; DELAY and
GOTO_ERROR are WAIT with a verdict.

**DialUp** `EXTENDS AtCmdEngine`.  `turn` alternates between the switch of the main
loop and the engine, because the dial-up only polls the engine's phase: an error
of a command in the middle of the chain lasts for one turn, after which the engine
goes on with the chain.  `MainElse` is everything else that uses the engine.

**SmsQueue.** `smsList` is the list, `heap[m]` the malloc'ed block, `smsMsg` the
pointer the command chain works on.  A use of a freed block reads either value and
loses what it writes; a new block may get the address of a freed one
(`SendMsg`).  The status of `SendSmsWait` is a byte of the heap too: `WaitEnds` frees it
after 60 seconds (`ampm_gsm.cpp:165`) though the message still points to it, `Release` writes to
it all the same (`Report`, `ampm_gsm_sms.c:429`, `:510`), and `TakeStatus` may give it to the next
`SendSmsWait`; `shared` remembers the messages that got such a byte.  `sending` says whether the
main task is in SMS_SEND, the only phase in which `Ampm_SmsTask` is called.  The actions follow the chain command by command; the engine is taken
at the grain `AtCmdEngine` justifies (a command ends in OK or in ERROR, and the
chain goes on).  `ModemReset` is the effect of `ForceOk` on the chain.

**GsmMainTask.** One action per case of the switch and way through it, then
`Tail_`, the part of the loop every iteration runs: pending work sets
`gotoCmdModeFlag`, the engine takes one step unless the phase is DATACALL, the
ring detector takes one step.  The case bodies that have modules of their own are
represented by what they do to the state the loop shares with them.  `modemData`
says whether the modem is in data mode; `App`, `Cmti`, `PppStatus` and `ModemDrops`
are the other actors.

**RingDetector.** `SetRinging` and `SetAt` are the interrupt's functions and one step
each; the task's functions are cut wherever an interrupt in between makes a
difference: between the test of the flags and their clearing (`DetectTest`,
`DetectCall`), between the two accesses of `ampm_RingingTime++` (`TimerRead`,
`TimerWrite`), before the last line of `Ampm_RingingReset` (`ResetPause`).  Outside
stand a caller, who rings once in `RingGap` seconds, and one message, which pulses
the line once and says +CMTI, in either order, or not at all while the modem is in
data mode.  `rung` remembers whether a call has rung since the phase was IDLE.

**RingPhases** is what the main loop sees of it: the phase, the note of a message, and
how they may change (`Process`, `Announce`, `Read`, `Called`).  `GsmMainTask` takes
`Process` for its `Ring` by INSTANCE, and `RingDetector` implements the whole, so what the
main task assumes of the detector is shown of the detector.

**VoiceCall.** One iteration is the switch, the engine, and the periodic once a second
(`turn`); the application calls in between.  `chain` is the command the engine works
on; one action per end callback, and `ClccTimeout`, `ClccState`, `ClccEnded`,
`ClccTakenOver` and `ClccNoState` for the ways through
`Ampm_GsmVoiceCallCheckStateEndCallback`.  `Decide` is its second switch.  What +CLCC
says is an input.  `IdleEnd` is the end of IDLE, where a `gotoDataModeFlag` left over may
override VOICECALL (`ampm_gsm_main_task.c:750`) after the incoming call was started; nothing
makes the main task come back to it.  `StartOver` is `Ampm_CallTask_Init`, which empties
the list.  `dialled`, `released`, `taken` (the call task has not run since IDLE took the
incoming call) and `lost` are histories.

**SmsReceive.** The interrupt puts the number of a message's place as two bytes
(`PutIndex`); a put on a full ring is refused and its result ignored, so from then on
the bytes are paired wrongly, which `overflowed` remembers.  `chain` is the command
the engine works on, `poll` the time in which `Ampm_GsmSmsRecv2` is called again and
again.  The text does not come with the outcome of its command but by itself
(`AnswerBegins`, `AnswerEnds`), so it can be late for the number it was asked for.
AT+CSQ and AT+CLIP, whose answers concern nothing here, are part of `StartRecvSms`;
the resends of AT+CMGR by the engine, which start the timer again, are part of
`SendCMGR`.  The modem is external: it stores a message in the lowest free place,
announces it or not, lists what it has, answers one read at a time, late or never, and
may be reset.  The tick advances only where the timer is looked at; `AnswerEnds`, after
which nobody looks at it, forgets it.  `handed`, `fresh`, `loads`, `age` and `excuse`
are histories.

**SysTick** has no state: a timeout as `InitTimeout` makes it and what `CheckTimeout`
says of it, with the largest tick as a parameter.

**FlashFs.** One action per write or erase; `op` says which comes next, and the power
may fail before it.  A sector has a header, a link and a close record; one that is
programmed in part fails its checksum and counts as not written.  Both scans begin at
`rand()`, here any sector.  `InUse`, `Found` and `Accepts` follow the header of a sector
to the header of the first one, as `ampm_f_file_format_check` does, without asking that
this names itself.  `ampm_f_unlink` erases two sectors: the other sectors of the file
are left over and may be found later; `stray` remembers that an unlink has found its
file through one of them.  `Straight(n)` says that no such sector leads to name `n` by way of
another sector.  `MaxBlocks` stands for the 100000 bytes a file may have:
in its last sector a file may be below the limit (`CloseRecord`), at it, or above it
(`CloseAtLimit`), and then has no close record that any check accepts.

**FileStore** is the promise to a user of the files: a file appears by one step, whole, when
it is closed, disappears by one step, and does not come back, whatever the power does in
between.  The mapping `Store` reads the files off the sectors alone (`OnDisk`: from
each first sector with a close record, along the links), not off the histories.  Once
`stray` is set the store promises nothing more.

## 3. Runs

| run | asks | bounds | result |
|---|---|---|---|
| `ring_one_burst` | is the ring a FIFO, and are reads and fills sound, while at most one byte arrives between `tail++` and `tail = 0`? | 4 slots, 2 bytes | holds |
| `ring_two_burst` | is an accepted byte kept when two bytes arrive there? | the same | **violated**, finding 1 |
| `at_cmd_engine` | bounded resends, honest and single outcomes, is the engine `Commands`, every command ends | a message chain in miniature, with every kind of callback the program has | holds |
| `dial_up` | connected means all answered, at most one command behind a failure, the dial-up ends | a chain of 3, one resend, another user of the engine with a chain of 2 | holds |
| `sms_queue` | list and heap agree, no false OK, only the last attempt frees in use, every message leaves to which the task comes | a text and a PDU, 2 tries, 3 failures, 2 status bytes, resets | holds |
| `sms_attempts` | is a message that is given up tried as often as was asked? | one text, 3 tries, 10 failures | **violated**, finding 2 |
| `main_task` | command mode, data mode and escape of the whole loop | the modes the application sets: data and sleep | holds |
| `main_task_call` | is an incoming call found in IDLE taken? | the same | **violated**, finding 3 |
| `ring_detector` | is a message alone ever a call, is a ringing call reported, does a pulse lead to something, is the detector `RingPhases`? | one caller, one message, two calls of Reset, Enable or Disable | holds |
| `voice_call` | is the right call dialled, as often as asked, left alone by the periodic, hung up before it rests, and out of the list in the end if VOICECALL keeps coming? | one outgoing call with two tries, one incoming | holds |
| `sms_receive` | is a message read before it is deleted, given up only after its time, and out of the modem in the end if the chain keeps being started? | two messages, places 1 and 4, a ring of 5 bytes, one retry, one reset, a tick of 0..3 | holds |
| `flash_fs` | does what was closed stay whole and findable, can nothing else be opened, does the cleanup leave nothing unfinished, is the flash a `FileStore`? | 4 sectors, 2 names, 4 files of up to 2 sectors, 1 power failure | holds |

The types of `AtCmdEngine`, `RingDetector`, `SmsReceive` and `FlashFs` are not listed in
their runs: they are theorems (`TypeCorrect`), for every value of the constants.

### Why the bounds are enough

* `Size = 4`: the smallest ring in which the head can be before, at and behind the
  tail with room on both sides of the wrap; two bytes tell a slot that is read too
  late from the right one.  The theorems cover every size and every set of bytes.
* `MaxPutsInWrap`, the number of bytes that arrive between `tail++` and the wrap:
  1 while the task runs, since a byte takes much longer on the line than the two
  stores.  Another thread that preempts the task there makes it 2 and more, which
  is why there is a run for 2.
* `Tries = 2`, `Reload = 1`, `SmsMaxRetry = 3`: a first, a last and no try left; an
  interval that is running and one that is over; a failure count that is cleared in
  time and one that is not.  `sms_attempts` has the source's 3 and 10.
* Two messages: the task and its periodic only ever look at one, the tail of the
  list (`list_item_next` of the tail is NULL), so two show a message that waits
  behind another and a block that is allocated where the other was freed.  Two status
  bytes: one that is reused and one that is not.
* `dialupTryCnt` goes to the source's 5, the escape counter to the source's 4.
* `Modes` leaves out that the application goes back to "NONE" after it has set a
  mode.  To the loop that differs from the mode of sleep only in IDLE.

* The times of the ring detector, 6 seconds of silence, at most 5 between two rings
  and 15 of `Ampm_RingingDisable`, are 3, 2 and 2: only their order decides anything.
  The theorem covers every choice.  One message: two within six seconds look like a
  call, by design of the pulse count.
* One outgoing call: the call task only looks at the head of the list, and the chain
  works on one call at a time; the other one on the chain is the incoming call.  The
  timeout of a call, 60 in the source for an incoming one, is 1: running and over.
  Two actions of the six are asked for; with the two that `SetAction` and `Cancel` set
  and "NONE" they reach every way out of `Decide` but
  "AFTER_ACTIVE", whose condition is a part of that of "WHEN_ALERTING".

* Five bytes of `smsUnreadRingBuff`, 31 in the source: odd as there, so that a full ring
  holds half a number.  `MaxTick = 3` with a timeout of 2 makes the tick wrap while the
  timer runs, in every way it can.  `Tries = 1` gives a first and a last read.  With two
  messages one is in hand while the other waits, or while its late text comes in.
* Four sectors and four files: the disk can be full, sectors are left over by an unlink and
  used again, and it takes four files until a left-over sector leads to a left-over sector
  and from there to a closed file of another name: without `Straight`, `ClosedIsFound`
  fails here, and with three files it does not.  Longer chains, more power failures and a cleanup that is cut
  short itself are covered by the theorems, which are about every number of them; a
  run with 4 sectors, 3 files of up to 3 sectors and 2 power failures passes too (2.6 million
  states).

`sms_queue`, `sms_attempts`, `sms_receive` and `flash_fs` do not check for deadlock: when
their messages or files are used up the model, which bounds them, is at rest.  All other
runs check it.

## 4. Fairness

The main loop is `while(1)` with no blocking call in it, and the tick interrupt
never stops.  So weak fairness on the loop's step (`Cmd_Task`, `Switch`,
`EngineTurn`, `Loop`, the periodics) and on the expiry of a
timeout is what the code gives.  Nothing is assumed of the application, of the
modem's answers, of the PPP thread or of a reset.

Nothing is assumed of the phases either.  SLEEP is left only when the mode changes
(`ampm_gsm_main_task.c:770`), and DATACALL with input that never pauses does not set
`gotoCmdModeFlag` (`:563`, `:793`), so the loop need not come back to IDLE, nor to the
phases in which messages and calls are worked on.  Where a liveness property needs that,
it is a hypothesis of the property:

* `EveryMessageLeaves` of `SmsQueue`: as long as there is a message the main task comes to
  SMS_SEND again and again and finds the engine at rest.  The second part is not sure
  either: a PDU without a service center number starts its chain over
  (`ampm_gsm_sms.c:254`) without counting an attempt.  Given this, an iteration that finds
  both calls `Ampm_SmsTask`, so `SmsTask` is strongly fair.  The messages are finitely many: an older one is
  looked at only when the younger ones have left (`:467`), which need not happen when
  new ones keep coming.
* `CallsLeave`: VOICECALL comes again and again while the call is in the list.
* `EveryMessageLeaves` of `SmsReceive`: the reading chain is started again and again, the
  ring of numbers never overflowed, and at some time no more messages come.

These places assume more, and say why:

* `Ends` in `AtCmdEngine` is strongly fair: an end callback that returns 0 to be
  called again has a timeout of its own (`ampm_gsm_sms.c:339`), so it does not do so
  for ever.
* `Progress` in `GsmMainTask` is strongly fair: a loaded command is transmitted and a
  transmitted one ends.  That is `CommandEnds` of `AtCmdEngine`, here at the coarser
  grain.
* `RingingProcess` of `RingDetector` is strongly fair: every iteration of the loop runs it,
  before it looks at the second.  While a call is there it rings at least once in
  `RingGap` seconds.  Nothing makes a caller call or a message come.
* In `VoiceCall`, `Command` is strongly fair (`CommandEnds`) and seconds pass.
* In `SmsReceive` the chain goes on (`CommandEnds`), the tick runs, and a modem lists what it
  has begun to list.  `EndCMGD(TRUE)` is strongly fair: a modem that is asked to delete a
  message for ever does so at last; without that no code could make room.

## 5. Proofs

**The ring** (`RingBufProofs`), for every `Size >= 2` and every set of bytes, and
for `MaxPutsInWrap <= 1`.  `TypeOK` is not inductive towards FIFO: a put between the
two stores of the wrap compares the head with a tail out of range.  `RingInv` adds
`WindowHasRoom`: in that window there is a slot between the head and the end of the
array for each put that may still come, so the head cannot reach the tail to come.
From it follow `ReadIsOldestHolds`, `FillSound`, and `Refinement`: every step of
the ring is a step of `BoundedFifo` or a stutter.  `ring_two_burst` shows that the
hypothesis on the window is needed, and `AcceptedIsKeptHolds` that it is enough: with at
most one byte in the window every put that advances the head leaves one more byte in
the ring.

**The engine** (`DialUpProofs`, first part), for any commands, chains, resend counts and
callbacks.  The properties speak of the end of a command; `Inv` says how the
counters stand in each phase before it: in SEND each transmission has used up one
resend, in WAIT and RESEND one more was made, in GOTO_ERROR none is left; and it
keeps apart what was told, because the main task may force the phase to OK.
From it follow `BoundedResendHolds`, `HonestOutcomeHolds` and `OneOutcomeHolds`.
`EngineIsCommands` maps each action to a step of `Commands` or a stutter.  The lemmas `SeenIn`
and `SeenInPhases` say what the mapping makes of each phase of the engine, so that each
case of `Ampm_Cmd_Task` is looked at through them and not through the CASE of `Seen`.
It needs `Inv` for one thing: a command that is waited for, resent or judged was
transmitted, or a send callback stood in for it.

**The dial-up** (`DialUpProofs`, second part), for a chain of any length.
`DialUsesEngine` shows that the dial-up with everything else that uses the engine
implements `AtCmdEngine`'s specification, so `Inv` holds for it.  `RunningOK` adds what holds
while the dial-up waits for its chain: the engine is at a command of it, those before
it were answered, and a failure is there for the one turn that sees it.  `StartingOK`
says that behind a failure the chain goes on by one command at most.  From them follow `OneAfterFailureHolds` and
`ConnectedMeansAllAckedHolds`.

**The main task** (`GsmMainTaskProofs`), for any set of modes.  That the AT parts find
command mode is decided several iterations before they run.  `Parts` says, phase by
phase, what is known of the modem and of the command under way: `AtParts` (`Quiet`: command
mode, and nothing sent that could end it), `IdleParts` (an ATO that was told NO CARRIER
leaves its flag set, and so leads nowhere but to GOTO_DATA), `DataParts`, `EscapeParts`
and `StartupParts`; `ChainShape` says which commands have a successor.

**The outgoing messages** (`SmsQueueProofs`), for any number of messages, threads, tries
and resets.  `ListIsLive` is inductive with the types.  For the rest, `WorkIsLive`, `BodyIsOwn`
and `SentIsDelivered` hold until a block was freed in use (`dangled`): the message under the
chain is in the list and ready, what was transmitted is its text, and what anybody
was told was sent was delivered.  `StatusIsShared` follows the status bytes: if a
message in the list points to the byte of a thread that still waits for another message,
that other one is in `shared`.  So `OkMeansDelivered` holds with that one exception,
which `Vouched` names: the byte says OK for another message that was delivered.  That a block is only freed in use at its last try
(finding 2) is `FreedInUseOnlyAtLastTryHolds`.  `AttemptsMade` counts: each try taken
from a message is an attempt that ran to its end, or the one under way.  With it
`GivenUpOneShortHolds` says that, if the modem is not reset, a message that is given up was
attempted `Tries - 1` times, for every `Tries`: finding 2 is not a matter of the number asked
for.  (A block allocated where one freed in use had been may get the rest of that one's
attempt on top; hence "at least" once `dangled` is set.)

**The calls** (`VoiceCallProofs`), for any number of calls, tries and seconds.
`ChainRuns` and `CallRuns`: a chain and an incoming call are only there while the call
task runs, the call from the turn in which the call task first comes to it; `InIsNotDialled`; `TriesCounted`: a try is used
up before its dial command; `FlagsOfCall`: the two flags that end a call are those of
the call that was dialled.

**The incoming messages** (`SmsReceiveProofs`), for any number of messages, places, tries
and resets, and any width of the tick.  `NeverEarly` and `AtMostOneTickLate` are about `SysTick` alone: over a
wrap `CheckTimeout` counts one tick too few, so a timeout is never early and at most one
tick late.  `TimerRuns` ties the timer to the history of its age by them; `ReadsCounted`
ties tries left to reads made; `FreshIsOwn` and `ReadIsHanded` follow the text from the
buffer to the application.  `GivenUpLateHolds` and `ReadBeforeDeletedHolds` follow.

**The file system** (`FlashFsProofs`), for any number of sectors, names, files and power
failures.  `IInv` adds to the types `Shape` (what the place in the code says about the file and
the local variable), `FilOK` (the file being written is whole but for its last
sector), `Clear` (which first sectors may lack a close record, in the middle of
a cleanup too) and `KeptOK` (what is written or erased next is not part of a closed file, and only
closed files have close records).  `ClosedIsFoundHolds`
also needs that a scan has a first sector it accepts (`ScanHasFirst`); what it accepts leads
to a close record, hence to a file that was closed (`Closed`), and, when it leads there
straight, to the header of that file (`AllIntact`), which has the name that was asked for.
`StoreRefinement` shows that the flash implements `FileStore`.  To `IInv` it adds `Numbered` (a file
has a number of its own), `Sized`, and `DiskIsKept`: the files the links make up are
those that were closed, and no others.  `OneChain` is why: links that begin at one sector
make one chain of each length.

**The ring detector** (`RingDetectorProofs`), for every choice of the times and any
number of resets.  `NoCallWithoutRing` is not inductive: a call is reported because
of a pulse counted, or a text seen, steps before.  `Unheard` says what holds while
no call has rung: no text was seen, the message's pulse is spent as soon as the
detector has started, and the count was cleared after it.  From it follows
`NoCallWithoutRingHolds`.  `DetectorIsRingPhases` is the refinement of `RingPhases`; the
steps of the task are cut inside a call of `Ampm_RingingProcess`, and `PhaseAt` says which
phase each of these places belongs to, with an interrupt or a reset in between.
`GsmMainTaskProofs` uses `Process` of `RingPhases` and nothing else of the detector.

Only model-checked: liveness under fairness (`CommandEnds`, `DialEnds`, both
`EveryMessageLeaves`, `EscapeCompletes`, `RingIsSeen`, `PulseIsSeen`, `CallsLeave`), which the
prover cannot reach, as it cannot reach ENABLED.  Every safety property of a passing
run, the four refinements (`IsFifo`, `IsCommands`, `IsRingPhases`, `IsFileStore`) among them, is proved, from nothing but the assumptions on the constants and, for the ring,
`MaxPutsInWrap <= 1`.  No module declares a RECURSIVE operator, and no proof needs an
induction over data.

## 6. Findings

1. **A burst at the wrap empties the ring** (`lib/ringbuf.c:66`).  `RINGBUF_Get`
   moves the tail in two stores.  While it is out of range `RINGBUF_Put` does not see
   a full ring; a second put then makes the head equal to the tail to come, and the
   ring looks empty though each put returned 0, "successfull".
2. **A message is tried once less than asked** (`ampm_gsm/ampm_gsm_sms.c:493`).
   `Ampm_SmsTask` counts the try, loads the chain and looks at the same message
   again; after the last try it frees it at once, under the chain.
3. **An incoming call is dropped** (`ampm_gsm/ampm_gsm_main_task.c:750`).
   `gotoDataModeFlag` is left set by an ATO that failed; the next call found in IDLE
   clears the ring state, chooses VOICECALL, and is overwritten with GOTO_DATA.

Met while modelling, where no comment says otherwise:

* An incoming call that IDLE takes is ended by the periodic if a second is over before the
  call task has run (`ampm_gsm_call.c:186`): in the same iteration, or many iterations
  later when VOICECALL was overridden as in finding 3.  `TakenIsLookedAfter` is about
  calls to which the call task has come.
* The status byte of a `SendSmsWait` that gave up after 60 seconds is written to when its
  message is released (`ampm_gsm_sms.c:429`, `:510`).  If it has become the status of another
  `SendSmsWait` by then, that one returns SMS_OK for a message that may not have been
  sent.  `OkMeansDelivered` names this as its exception.
* `callListIsEmpty` and `gotListOfCurrentCall` are not cleared for an incoming call, so
  what the last call left in them can end it (`ampm_gsm_call.c:395`).  `HungUpAtRest` is
  about calls that were dialled, where they are cleared.
* A call that comes in while another is dialled takes the chain over with a timeout
  that may be 0, and is then hung up at once (`ampm_gsm_call.c:373`, `:311`).
* A start of the modem empties the call list without telling the callers
  (`ampm_gsm_call.c:105`).  `CallsLeave` names these calls (`lost`).
* In SLEEP, and in DATACALL while input keeps coming, messages and calls wait without a
  bound (section 4).
* `flagSmsReadFinish` is set by the first text that comes in and never cleared.  From
  then on the poll of AT+CMGR ends at once, with whatever the buffer holds: a text that was
  given away before is given away again, and the message may be deleted before its own text came
  (`ampm_gsm_sms.c:341`).  `ReadBeforeDeleted` names that as one of its three exceptions.
* A number that finds the ring of numbers nearly full is put in half; all later ones are
  paired wrongly (`ampm_gsm_sms.c:768`).
* A message that was not announced is only found by AT+CMGL, which is sent when the ring
  is empty: it waits as long as announced ones keep coming.
* Over the wrap of the tick a timeout lasts one tick longer (`lib/sys_tick.c:66`).
* `ampm_f_unlink` leaves all sectors of a file but two; one that is left over leads to whatever file
  has its first sector now.  An unlink that comes to it erases that file's first
  sector, and `stray` is set (`ampm_ff.c:325`).  Even without that, a left-over sector that names another
  left-over sector can make `ampm_f_open` return a file of another name, while the closed
  file of that name is not found; `Straight` in `ClosedIsFound` and `OpenIsWhole` excepts
  these names.
* `ampm_f_close` allows 100000 bytes (`ampm_ff.c:356`), the check of a record less (`:86`): a file
  of exactly 100000 bytes is closed with FR_OK, but cannot be opened, and the next
  cleanup erases it.  `ampm_f_write` looks at the size only when it is called, so a file may
  grow beyond; then the close is refused.  (`CloseAtLimit`.)
* The scan of `ampm_f_open` leaves out the sector it starts at, so a file of one sector is
  sometimes not found (`ClosedIsFound` excepts it); `ampm_f_next_sector` follows the first sector's
  link for the third sector too, so a reader gets the second one again (`OpenIsWhole`
  speaks of two); on a full disk a file is allotted the sector after the last.
* `ampm_RingingTime++` in the task can overwrite the 0 of an interrupt: a call that is
  still ringing may then be counted as missed, and is reported again
  (`ampm_gsm_ring.c:26`).  The comment at `ampm_gsm_ring.c:37` says 30 seconds, the
  counter is set to 15.

## 7. Not modelled

* The character parser of the answers (`StrComnandParser`), message and PDU
  payloads, encodings, times, `sprintf`, GPS sentences, DTMF: data that no property
  here tells apart, or pure conversions.
* Delays, baud rates and pins of the startup; the interval timers of the main task
  and `dataSendingTimeout` are inputs of `Tail_`.  The 64 bit tick and the seconds of
  `sys_tick.c`.
* Appending and seeking in a file, a write that starts below the size limit and goes on into
  another sector, more than one open file, and a flash that fails a write without
  losing power.
* `packet_queue.c` and `protocol.c`: `main.cpp` does not use them, and they run in one
  thread.
* The polling variants (`Ampm_SendCommand`, `Ampm_SendSmsPolling`), which the main loop
  does not use.
* The vendored operating system and network stack; their effects are actions of the
  environment.  They are all but about nine thousand lines of `src/`, which is why
  the share of `src/` that is modelled is small.
* `main.cpp`: a demonstration of the library.

## 8. Plan

Done, the most important behaviour first: the byte ring, the engine, the dial-up, the
outgoing messages, the main task, the ring detector, the calls, the incoming messages
with the tick, the flash file system; the abstractions of the queue, the engine, the ring
detector and the file system; and the proofs of all safety properties and refinements.

What could follow:

1. The stores of `ampm_list.c` under two threads, for the list of calls, which has no mutex.
2. An abstract outbox and an abstract mailbox, for `SmsQueue` and `SmsReceive`: a message is
   accepted, tried, and reported at most once.
3. Appending and seeking in `FlashFs`, and reading past the second sector.
4. `packet_queue.c`, if something comes to use it.
