------------------------------- MODULE SysTick -------------------------------
(***************************************************************************)
(* lib/sys_tick.c: timeouts measured on a tick that the interrupt counts in*)
(* a word and that wraps.  The largest value of the word is a parameter.   *)
(***************************************************************************)
EXTENDS Integers

\* sysTickCounter32++ and every other sum in such a word.
Wrapped(n, maxTick) == n % (maxTick + 1)

\* A Timeout_Type: what InitTimeout makes at tick now.
InitTimeout(now, timeout, maxTick) ==
  [start_time |-> now,
   timeout |-> timeout,
   crc |-> Wrapped(now + timeout, maxTick)]

\* A faulty difference that takes a wrapped tick for an early one.
ElapsedUnwrapped(now, start, maxTick) ==
  IF now >= start THEN now - start ELSE maxTick

\* The ticks CheckTimeout takes for elapsed: one less than elapsed really
\* when the tick has wrapped (0xFFFFFFFF - start_time + now).
Elapsed(now, start, maxTick) ==
  IF now >= start THEN now - start ELSE maxTick - start + now

\* CheckTimeout: the ticks left, or SYSTICK_TIMEOUT, which is 0.
CheckTimeout(t, now, maxTick) ==
  LET elapsed == Elapsed(now, t.start_time, maxTick)
  IN  IF \/ t.crc # Wrapped(t.start_time + t.timeout, maxTick)
         \/ elapsed >= t.timeout
        THEN 0
        ELSE t.timeout - elapsed
=============================================================================
