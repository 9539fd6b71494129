---------------------------- MODULE Timer_proofs ----------------------------
(***************************************************************************)
(* What the timed loops need to know of the stopwatch, for every clock     *)
(* resolution and timeout.                                                 *)
(***************************************************************************)
EXTENDS Timer, TLAPS

\* Products of naturals are naturals.
LEMMA MulNat == \A a, b \in Nat : a * b \in Nat
  OBVIOUS

\* Rounding down never makes the elapsed time longer than it is.
LEMMA ElapsedRoundsDown ==
  ASSUME NEW t \in Nat
  PROVE  /\ CalcElapsedTime(t) \in Nat
         /\ CalcElapsedTime(t) * TicksPerMs =< t
  BY TicksAssumption DEF CalcElapsedTime

\* Restarting a wait with the remaining time never shortens the whole wait.
LEMMA RemainingCoversTimeout ==
  ASSUME NEW timeout \in Nat, NEW t \in Nat
  PROVE  /\ CalcRemainingTime(timeout, t) \in 0..timeout
         /\ t + CalcRemainingTime(timeout, t) * TicksPerMs >= timeout * TicksPerMs
<1> DEFINE e == CalcElapsedTime(t)
           r == CalcRemainingTime(timeout, t)
<1>1. e \in Nat /\ e * TicksPerMs =< t
  BY ElapsedRoundsDown
<1>2. r = IF timeout < e THEN 0 ELSE timeout - e
  BY DEF CalcRemainingTime
<1>3. CASE timeout < e
  <2>1. r = 0
    BY <1>2, <1>3
  <2>2. timeout * TicksPerMs =< e * TicksPerMs
    BY <1>1, <1>3, TicksAssumption
  <2> QED
    BY <1>1, <2>1, <2>2, TicksAssumption, MulNat
<1>4. CASE ~(timeout < e)
  <2>1. r = timeout - e /\ r \in 0..timeout
    BY <1>1, <1>2, <1>4
  <2>2. r * TicksPerMs = timeout * TicksPerMs - e * TicksPerMs
    BY <1>1, <2>1, TicksAssumption
  <2> QED
    BY <1>1, <2>1, <2>2, TicksAssumption, MulNat
<1> QED
  BY <1>3, <1>4

=============================================================================
