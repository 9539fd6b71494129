------------------------------- MODULE Timer -------------------------------
(***************************************************************************)
(* utils/timer: the stopwatch behind every timed loop of the client.       *)
(* The steady clock is finer than the millisecond the program counts in:   *)
(* a reading is a number of ticks since the timer was constructed, and     *)
(* TicksPerMs of them make a millisecond.                                  *)
(***************************************************************************)
EXTENDS Integers

CONSTANT TicksPerMs

ASSUME TicksAssumption == TicksPerMs \in Nat \ {0}

\* The largest int of the build, which has 32 bits. poll() takes an int: each
\* loop hands it the 64-bit remainingTime.count() narrowed. The remainder never
\* exceeds the caller's timeout, so the value is kept for timeouts up to MaxInt
\* milliseconds; the callers of this repository pass 10 and 60 seconds.
MaxInt == 2147483647

\* Mutant: elapsed time rounded up, as a ceiling cast would do.
CalcElapsedTimeCeil(ticks) == (ticks + TicksPerMs - 1) \div TicksPerMs

\* duration_cast<milliseconds>: the fraction of a millisecond is dropped.
CalcElapsedTime(ticks) == ticks \div TicksPerMs

\* Mutant: the difference is returned as it is.
CalcRemainingTimeUnclamped(timeout, ticks) == timeout - CalcElapsedTime(ticks)

\* What is left of `timeout` milliseconds, never negative.
CalcRemainingTime(timeout, ticks) ==
  LET elapsed == CalcElapsedTime(ticks)
  IN  IF timeout < elapsed THEN 0 ELSE timeout - elapsed

=============================================================================
