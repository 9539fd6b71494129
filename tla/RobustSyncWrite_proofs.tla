---------------------- MODULE RobustSyncWrite_proofs ----------------------
(***************************************************************************)
(* Proofs about RobustSyncWrite, for every buffer size, timeout, clock     *)
(* resolution, kernel buffer and number of faults.                         *)
(***************************************************************************)
EXTENDS RobustSyncWrite, Timer_proofs

---------------------------------------------------------------------------
(* Type correctness and the bytes on the wire.                             *)

\* Every reachable state of the write has the types TypeOK gives.
THEOREM TypeCorrect == Spec => []TypeOK
<1>1. Init => TypeOK
  BY WriteAssumption DEF Init, TypeOK
<1>2. TypeOK /\ [Next]_vars => TypeOK'
  <2> SUFFICES ASSUME TypeOK, [Next]_vars
               PROVE  TypeOK'
    OBVIOUS
  <2> USE DEF TypeOK
  <2>0. CalcRemainingTime(Timeout, now) \in 0..Timeout
    BY RemainingCoversTimeout, WriteAssumption
  <2>1. CASE LoopTest
    <3>1. now + remaining * TicksPerMs \in Nat
      <4>1. remaining \in Nat
        BY WriteAssumption
      <4> QED
        BY <4>1, MulNat, TicksAssumption
    <3> QED
      BY <2>1, <3>1 DEF LoopTest, Return, env, WriteFailures
  <2>2. CASE PollReady
    <3>1. FdEvents \in SUBSET Events
      BY DEF FdEvents, Events
    <3> QED
      BY <2>2, <3>1 DEF PollReady, env
  <2>3. CASE PollTimesOut
    BY <2>3 DEF PollTimesOut, Return, env, WriteFailures
  <2>4. CASE WriteSome
    <3>1. PICK x \in 1..(Size - nBytesWritten) :
            /\ x =< room
            /\ wire' = wire \o [i \in 1..x |-> nBytesWritten + i]
            /\ nBytesWritten' = nBytesWritten + x
            /\ room' = room - x
      BY <2>4 DEF WriteSome
    <3>2. [i \in 1..x |-> nBytesWritten + i] \in Seq(Nat)
      BY <3>1, WriteAssumption
    <3>3. wire' \in Seq(Nat)
      BY <3>1, <3>2
    <3>4. nBytesWritten' \in 0..Size /\ room' \in 0..Capacity
      BY <3>1, WriteAssumption
    <3> QED
      BY <2>0, <2>4, <3>3, <3>4 DEF WriteSome, Continue, env
  <2>5. CASE WriteAgain
    BY <2>0, <2>5 DEF WriteAgain, Continue, Fault, env
  <2>6. CASE WriteFails
    BY <2>6 DEF WriteFails, Return, writer, env, WriteFailures
  <2>7. CASE Hangup
    BY <2>7 DEF Hangup, Return, env, WriteFailures
  <2>8. CASE PollSpurious
    BY <2>8 DEF PollSpurious, Fault, env, Events
  <2>9. CASE PollInterrupted
    BY <2>0, <2>9 DEF PollInterrupted, Continue, Fault, env
  <2>10. CASE PollFails
    BY <2>10 DEF PollFails, Return, Fault, env, WriteFailures
  <2>11. CASE PeerReads
    BY <2>11, WriteAssumption DEF PeerReads, writer, env
  <2>12. CASE PeerLeaves
    BY <2>12 DEF PeerLeaves, writer
  <2>13. CASE Tick
    BY <2>13 DEF Tick, writer
  <2>14. CASE UNCHANGED vars
    BY <2>14 DEF vars, writer, env
  <2> QED
    BY <2>1, <2>2, <2>3, <2>4, <2>5, <2>6, <2>7, <2>8, <2>9, <2>10, <2>11,
       <2>12, <2>13, <2>14
    DEF Next, WriterStep, KernelFault
<1> QED
  BY <1>1, <1>2, PTL DEF Spec

\* An element of a concatenation that lies in its second part.
LEMMA SecondPart ==
  ASSUME NEW S, NEW s \in Seq(S), NEW t \in Seq(S), NEW j \in 1..Len(t)
  PROVE  (s \o t)[Len(s) + j] = t[j]
  OBVIOUS

\* The kernel has always been given exactly the reported prefix of the buffer.
THEOREM WireCorrect == Spec => []WireExact
<1>1. Init => WireExact
  BY DEF Init, WireExact
<1>2. TypeOK /\ WireExact /\ [Next]_vars => WireExact'
  <2> SUFFICES ASSUME TypeOK, WireExact, [Next]_vars
               PROVE  WireExact'
    OBVIOUS
  <2>1. CASE WriteSome
    <3>1. PICK x \in 1..(Size - nBytesWritten) :
            /\ wire' = wire \o [i \in 1..x |-> nBytesWritten + i]
            /\ nBytesWritten' = nBytesWritten + x
      BY <2>1 DEF WriteSome
    <3> DEFINE piece == [i \in 1..x |-> nBytesWritten + i]
    <3>2. piece \in Seq(Nat) /\ Len(piece) = x /\ wire \in Seq(Nat)
      BY <3>1 DEF TypeOK
    <3>3. Len(wire') = nBytesWritten'
      BY <3>1, <3>2 DEF WireExact, TypeOK
    <3>4. ASSUME NEW i \in 1..nBytesWritten'
          PROVE  wire'[i] = i
      <4>1. nBytesWritten \in Nat /\ x \in Nat /\ i \in 1..(nBytesWritten + x)
        BY <3>1 DEF TypeOK
      <4>2. Len(wire) = nBytesWritten
        BY DEF WireExact
      <4>3. CASE i =< nBytesWritten
        <5>1. wire'[i] = wire[i]
          BY <3>1, <3>2, <4>1, <4>2, <4>3
        <5> QED
          BY <4>1, <4>3, <5>1 DEF WireExact
      <4>4. CASE i > nBytesWritten
        <5>1. i - nBytesWritten \in 1..x
          BY <4>1, <4>4
        <5>2. wire \in Seq(Nat)
          BY <3>2
        <5> HIDE DEF piece
        <5>3. (wire \o piece)[Len(wire) + (i - nBytesWritten)]
                = piece[i - nBytesWritten]
          BY <3>2, <5>1, <5>2, SecondPart
        <5>4. wire'[i] = piece[i - nBytesWritten]
          BY <3>1, <4>1, <4>2, <5>3 DEF piece
        <5> QED
          BY <4>1, <5>1, <5>4 DEF piece
      <4> QED
        BY <4>1, <4>3, <4>4
    <3> QED
      BY <3>3, <3>4 DEF WireExact
  <2>2. CASE UNCHANGED <<nBytesWritten, wire>>
    BY <2>2 DEF WireExact
  <2>3. WriteSome \/ UNCHANGED <<nBytesWritten, wire>>
    BY DEF Next, WriterStep, KernelFault, LoopTest, PollReady, PollTimesOut,
           WriteAgain, WriteFails, Hangup, PollSpurious, PollInterrupted,
           PollFails, PeerReads, PeerLeaves, Tick, Return, vars, writer
  <2> QED
    BY <2>1, <2>2, <2>3
<1> QED
  BY <1>1, <1>2, TypeCorrect, PTL DEF Spec

---------------------------------------------------------------------------
(* Time.                                                                   *)

\* Nothing is returned before the call returns; from the test of the loop on,
\* the wait still to come reaches the deadline.
DeadlineInv ==
  /\ Running => outcome = "none"
  /\ pc = "loop" => now + remaining * TicksPerMs >= Timeout * TicksPerMs
  /\ pc = "polling" => wakeAt >= Timeout * TicksPerMs
  /\ NoEarlyTimeout

\* Going round the loop again waits for the deadline, not less.
LEMMA ContinueKeepsDeadline ==
  ASSUME TypeOK, DeadlineInv, Running, Continue, UNCHANGED now
  PROVE  DeadlineInv'
<1>1. now + remaining' * TicksPerMs >= Timeout * TicksPerMs
  BY RemainingCoversTimeout, WriteAssumption DEF TypeOK, Continue
<1>2. pc' = "loop" /\ outcome' = "none"
  BY DEF Continue, DeadlineInv
<1> QED
  BY <1>1, <1>2 DEF DeadlineInv, NoEarlyTimeout

\* DeadlineInv holds in every reachable state.
LEMMA DeadlineCorrect == Spec => []DeadlineInv
<1>1. Init => DeadlineInv
  <2> SUFFICES ASSUME Init PROVE DeadlineInv
    OBVIOUS
  <2>1. Timeout * TicksPerMs \in Nat
    BY MulNat, WriteAssumption, TicksAssumption
  <2> QED
    BY <2>1 DEF Init, DeadlineInv, NoEarlyTimeout
<1>2. TypeOK /\ DeadlineInv /\ [Next]_vars => DeadlineInv'
  <2> SUFFICES ASSUME TypeOK, DeadlineInv, [Next]_vars
               PROVE  DeadlineInv'
    OBVIOUS
  <2>1. CASE LoopTest
    BY <2>1 DEF LoopTest, Return, DeadlineInv, NoEarlyTimeout, Running, env
  <2>2. CASE PollTimesOut
    <3>1. Timeout * TicksPerMs \in Nat
      BY MulNat, WriteAssumption, TicksAssumption
    <3> QED
      BY <2>2, <3>1 DEF PollTimesOut, Return, DeadlineInv, NoEarlyTimeout,
                        Running, TypeOK, env
  <2>3. CASE Tick
    <3>1. Timeout * TicksPerMs \in Nat /\ remaining * TicksPerMs \in Nat
      BY MulNat, WriteAssumption, TicksAssumption DEF TypeOK
    <3> QED
      BY <2>3, <3>1 DEF Tick, DeadlineInv, NoEarlyTimeout, Running, TypeOK, writer
  <2>4. CASE Continue /\ UNCHANGED now /\ Running
    BY <2>4, ContinueKeepsDeadline
  <2>5. CASE UNCHANGED <<pc, remaining, wakeAt, outcome, now>>
    BY <2>5 DEF DeadlineInv, NoEarlyTimeout, Running
  <2>6. CASE \/ pc' = "polled" /\ outcome' = "none"
             \/ pc' \in {"done", "killed"} /\ outcome' # "OnTimeout"
    BY <2>6 DEF DeadlineInv, NoEarlyTimeout, Running
  <2>7. WriteSome \/ WriteAgain \/ PollInterrupted
        => Continue /\ UNCHANGED now /\ Running
    BY DEF WriteSome, WriteAgain, PollInterrupted, Writable, Running, env
  <2>8. PollReady \/ PollSpurious \/ WriteFails \/ Hangup \/ PollFails
        => \/ pc' = "polled" /\ outcome' = "none"
           \/ pc' \in {"done", "killed"} /\ outcome' # "OnTimeout"
    BY DEF PollReady, PollSpurious, WriteFails, Hangup, PollFails, Return,
           Writable, writer, DeadlineInv, Running
  <2>9. PeerReads \/ PeerLeaves \/ UNCHANGED vars
        => UNCHANGED <<pc, remaining, wakeAt, outcome, now>>
    BY DEF PeerReads, PeerLeaves, vars, writer, env
  <2> QED
    BY <2>1, <2>2, <2>3, <2>4, <2>5, <2>6, <2>7, <2>8, <2>9
    DEF Next, WriterStep, KernelFault
<1> QED
  BY <1>1, <1>2, TypeCorrect, PTL DEF Spec

\* OnTimeout never comes before the whole timeout has passed.
THEOREM TimeoutNotEarly == Spec => []NoEarlyTimeout
<1>1. DeadlineInv => NoEarlyTimeout
  BY DEF DeadlineInv
<1> QED
  BY <1>1, DeadlineCorrect, PTL

---------------------------------------------------------------------------
(* Refinement.                                                             *)

\* Inside the loop body something is left to write.
BodyInv == pc \in {"polling", "polled"} => nBytesWritten < Size

\* BodyInv holds in every reachable state.
LEMMA BodyCorrect == Spec => []BodyInv
<1>1. Init => BodyInv
  BY DEF Init, BodyInv
<1>2. TypeOK /\ BodyInv /\ [Next]_vars => BodyInv'
  BY WriteAssumption
  DEF TypeOK, BodyInv, Next, WriterStep, KernelFault, LoopTest, PollReady,
      PollTimesOut, WriteSome, WriteAgain, WriteFails, Hangup, PollSpurious,
      PollInterrupted, PollFails, PeerReads, PeerLeaves, Tick, Return,
      Continue, Writable, vars, writer, env
<1> QED
  BY <1>1, <1>2, TypeCorrect, PTL DEF Spec

\* The write implements the one-shot transfer of module Transfer.
THEOREM WriteKeepsPromise == Spec => KeepsPromise
<1>1. Init => Promise!Init
  BY DEF Init, Promise!Init
<1>2. TypeOK /\ DeadlineInv /\ BodyInv /\ [Next]_vars
        => [Promise!Next]_Promise!vars
  <2> SUFFICES ASSUME TypeOK, DeadlineInv, BodyInv, [Next]_vars
               PROVE  [Promise!Next]_Promise!vars
    OBVIOUS
  <2> USE DEF Promise!Next, Promise!vars
  <2>1. CASE LoopTest
    <3>1. CASE nBytesWritten = Size
      BY <2>1, <3>1 DEF LoopTest, Return, DeadlineInv, Running, Promise!Succeed
    <3>2. CASE nBytesWritten # Size
      BY <2>1, <3>2 DEF LoopTest
    <3> QED
      BY <3>1, <3>2
  <2>2. CASE WriteSome
    <3>1. PICK x \in 1..(Size - nBytesWritten) : nBytesWritten' = nBytesWritten + x
      BY <2>2 DEF WriteSome
    <3>2. outcome = "none" /\ UNCHANGED outcome
      BY <2>2 DEF WriteSome, Writable, Continue, DeadlineInv, Running
    <3> QED
      BY <3>1, <3>2 DEF Promise!Move
  <2>3. CASE \E result \in WriteFailures :
               Return(result) /\ pc \in {"polling", "polled"}
    <3>1. nBytesWritten < Size /\ outcome = "none"
      BY <2>3 DEF BodyInv, DeadlineInv, Running
    <3> QED
      BY <2>3, <3>1 DEF Return, Promise!Fail
  <2>4. CASE UNCHANGED <<nBytesWritten, outcome>>
    BY <2>4
  <2>5. PollTimesOut \/ Hangup \/ PollFails
        => \E result \in WriteFailures :
             Return(result) /\ pc \in {"polling", "polled"}
    BY DEF PollTimesOut, Hangup, PollFails, WriteFailures
  <2>6. WriteFails
        => \/ \E result \in WriteFailures :
                Return(result) /\ pc \in {"polling", "polled"}
           \/ UNCHANGED <<nBytesWritten, outcome>>
    BY DEF WriteFails, Writable, WriteFailures, writer
  <2>7. \/ PollReady \/ WriteAgain \/ PollSpurious \/ PollInterrupted
        \/ PeerReads \/ PeerLeaves \/ Tick \/ UNCHANGED vars
        => UNCHANGED <<nBytesWritten, outcome>>
    BY DEF PollReady, WriteAgain, PollSpurious, PollInterrupted, PeerReads,
           PeerLeaves, Tick, Continue, vars, writer
  <2> QED
    BY <2>1, <2>2, <2>3, <2>4, <2>5, <2>6, <2>7 DEF Next, WriterStep, KernelFault
<1> QED
  BY <1>1, <1>2, TypeCorrect, DeadlineCorrect, BodyCorrect, PTL
  DEF Spec, KeepsPromise, Promise!Spec

---------------------------------------------------------------------------
(* Progress.                                                               *)

\* poll() reported room that is not there, and EAGAIN will say so.
Misled == pc = "polled" /\ "OUT" \in revents /\ room = 0 /\ ~Gone

\* What is left of this turn of the loop; to find out that poll() reported
\* nothing takes another turn.
StepsOfTurn ==
  CASE pc = "loop"    -> 3
    [] pc = "polling" -> 2
    [] pc = "polled"  -> IF Misled THEN 5 ELSE 1
    [] ~Running       -> 0

\* How many steps the call can still make, at most: four for each byte that is
\* left, eight for each fault to come, and what is left of this turn.
Rank == 4 * (Size - nBytesWritten) + 8 * faults + StepsOfTurn

\* Every step of the call uses up some of it, and nothing that the peer or the
\* clock does gives any back.
TurnsAreBounded ==
  [][Rank' =< Rank /\ (WriterStep \/ KernelFault => Rank' < Rank)]_vars

\* The measure of a turn at each place, before and after a step.
LEMMA TurnAt ==
  /\ pc = "loop" => StepsOfTurn = 3
  /\ pc = "polling" => StepsOfTurn = 2
  /\ pc = "polled" => StepsOfTurn = IF Misled THEN 5 ELSE 1
  /\ pc \in {"done", "killed"} => StepsOfTurn = 0
  /\ pc' = "loop" => StepsOfTurn' = 3
  /\ pc' = "polling" => StepsOfTurn' = 2
  /\ pc' = "polled" => StepsOfTurn' = IF Misled' THEN 5 ELSE 1
  /\ pc' \in {"done", "killed"} => StepsOfTurn' = 0
BY DEF StepsOfTurn, Running

\* It is a number in every state of the call.
LEMMA RankType == TypeOK => StepsOfTurn \in 0..5 /\ Rank \in Nat
<1> SUFFICES ASSUME TypeOK PROVE StepsOfTurn \in 0..5 /\ Rank \in Nat
  OBVIOUS
<1>1. StepsOfTurn \in 0..5
  BY TurnAt DEF TypeOK
<1>2. Size - nBytesWritten \in Nat /\ faults \in Nat
  BY WriteAssumption DEF TypeOK
<1> QED
  BY <1>1, <1>2 DEF Rank

\* Nobody but poll() can mislead a call: room only grows, and who is gone stays away.
LEMMA MisledByPollOnly ==
  ASSUME TypeOK, PeerReads \/ PeerLeaves \/ Tick \/ UNCHANGED vars
  PROVE  Misled' => Misled
BY WriteAssumption DEF TypeOK, PeerReads, PeerLeaves, Tick, vars, writer, env, Misled, Gone

\* What poll() really reports misleads nobody.
LEMMA NotMisled ==
  ASSUME TypeOK, PollReady
  PROVE  ~Misled'
BY WriteAssumption DEF TypeOK, PollReady, FdEvents, Misled, Gone, env

\* Whatever the writer does takes it to another place.
LEMMA StepMoves == WriterStep \/ KernelFault => pc' # pc
BY DEF WriterStep, KernelFault, LoopTest, PollReady, PollTimesOut, WriteSome, WriteAgain, WriteFails,
       Hangup, PollSpurious, PollInterrupted, PollFails, Writable, Return, Continue

\* The loop turns at most once for each piece the kernel took and twice for
\* each fault: the write never spins, neither on a peer that does not read nor
\* on one that is gone.
THEOREM WriteNeverSpins == Spec => TurnsAreBounded /\ [](Rank \in 0..(4 * Size + 8 * MaxFaults + 3))
<1> DEFINE Steady  == Rank' =< Rank /\ (WriterStep \/ KernelFault => Rank' < Rank)
           Bounded == Rank =< 4 * Size + 8 * MaxFaults + 3
           Natural == Rank \in Nat
<1>1. Init => Bounded
  BY WriteAssumption DEF Init, Rank, StepsOfTurn
<1>2. TypeOK /\ BodyInv /\ [Next]_vars => Steady
  <2> SUFFICES ASSUME TypeOK, BodyInv, [Next]_vars PROVE Steady
    OBVIOUS
  <2> USE WriteAssumption, TurnAt
  <2>1. CASE LoopTest
    BY <2>1 DEF LoopTest, Return, Rank, Misled, TypeOK
  <2>2. CASE PollReady
    BY <2>2, NotMisled DEF PollReady, Rank, TypeOK
  <2>3. CASE PollTimesOut \/ WriteFails \/ Hangup
    <3>1. /\ pc \in {"polling", "polled"} /\ pc' \in {"done", "killed"}
          /\ UNCHANGED <<nBytesWritten, faults>>
      BY <2>3 DEF PollTimesOut, WriteFails, Hangup, Writable, Return, writer
    <3> QED
      BY <3>1 DEF Rank, TypeOK
  <2>4. CASE WriteSome
    <3>1. PICK x \in 1..(Size - nBytesWritten) : nBytesWritten' = nBytesWritten + x
      BY <2>4 DEF WriteSome
    <3>2. pc = "polled" /\ pc' = "loop" /\ faults' = faults
      BY <2>4 DEF WriteSome, Writable, Continue
    <3> QED
      BY <3>1, <3>2 DEF Rank, TypeOK
  <2>5. CASE WriteAgain
    <3>1. /\ pc = "polled" /\ pc' = "loop" /\ nBytesWritten' = nBytesWritten
          /\ (Misled /\ faults' = faults) \/ (faults > 0 /\ faults' = faults - 1)
      BY <2>5 DEF WriteAgain, Writable, Continue, Fault, Misled
    <3> QED
      BY <3>1 DEF Rank, TypeOK
  <2>6. CASE KernelFault
    <3>1. /\ pc = "polling" /\ pc' \in {"polled", "loop", "done"}
          /\ nBytesWritten' = nBytesWritten /\ faults' = faults - 1
      BY <2>6 DEF KernelFault, PollSpurious, PollInterrupted, PollFails, Fault, Continue, Return
    <3> QED
      BY <3>1 DEF Rank, TypeOK
  <2>7. CASE PeerReads \/ PeerLeaves \/ Tick \/ UNCHANGED vars
    <3>1. UNCHANGED <<pc, nBytesWritten, faults>>
      BY <2>7 DEF PeerReads, PeerLeaves, Tick, vars, writer
    <3>2. Misled' => Misled
      BY <2>7, MisledByPollOnly
    <3>3. Rank' =< Rank
      BY <3>1, <3>2 DEF Rank, TypeOK
    <3> QED
      BY <3>1, <3>3, StepMoves
  <2> QED
    BY <2>1, <2>2, <2>3, <2>4, <2>5, <2>6, <2>7 DEF Next, WriterStep
<1>3. Natural /\ Natural' /\ Bounded /\ Steady => Bounded'
  <2>1. 4 * Size + 8 * MaxFaults + 3 \in Nat
    BY WriteAssumption
  <2> HIDE DEF Rank
  <2> QED
    BY <2>1
<1>4. TypeOK => Natural
  BY RankType
<1>5. Natural /\ Bounded => Rank \in 0..(4 * Size + 8 * MaxFaults + 3)
  BY WriteAssumption
<1> QED
  BY <1>1, <1>2, <1>3, <1>4, <1>5, TypeCorrect, BodyCorrect, PTL DEF Spec, TurnsAreBounded

---------------------------------------------------------------------------
(* Reasons.                                                                *)

\* What poll() reported stays true until it is acted on, except for the room.
ReportInv ==
  pc = "polled" =>
    /\ revents # {}
    /\ revents \cap {"ERR", "HUP"} # {} => Gone
    /\ "NVAL" \in revents => kind = "notOpen"

\* No alternative of the result is returned, and nobody is killed, without
\* what it reports: a peer that is there is never said to have hung up, also
\* when it has stopped to send or to read, and a system error has a cause.
ReasonOfResult ==
  /\ (outcome = "none") = (pc # "done")
  /\ outcome = "OnSuccess" => nBytesWritten = Size
  /\ outcome = "OnPollerrOrPollhup" => Gone
  /\ outcome = "OnSystemError" => kind = "notOpen" \/ Gone \/ faults < MaxFaults
  /\ pc = "killed" => Gone

\* What poll() reports is true when it returns.
LEMMA ReportIsTrue ==
  ASSUME TypeOK
  PROVE  /\ FdEvents \cap {"ERR", "HUP"} # {} => Gone
         /\ "NVAL" \in FdEvents => kind = "notOpen"
BY DEF TypeOK, FdEvents, Gone

\* The caller may believe the alternative it is given.
THEOREM ResultHasItsReason == Spec => []ReasonOfResult
<1> DEFINE Inv == ReportInv /\ ReasonOfResult /\ faults =< MaxFaults
<1>1. Init => Inv
  BY WriteAssumption DEF Init, ReportInv, ReasonOfResult
<1>2. TypeOK /\ Inv /\ [Next]_vars => Inv'
  <2> SUFFICES ASSUME TypeOK, Inv, [Next]_vars PROVE Inv'
    OBVIOUS
  <2> USE WriteAssumption
  <2>0. Gone /\ [Next]_vars => Gone'
    BY DEF Gone, Next, WriterStep, KernelFault, LoopTest, PollReady, PollTimesOut, WriteSome,
           WriteAgain, WriteFails, Hangup, PollSpurious, PollInterrupted, PollFails, PeerReads,
           PeerLeaves, Tick, vars, env
  <2>1. CASE PollReady
    BY <2>0, <2>1, ReportIsTrue DEF PollReady, ReportInv, ReasonOfResult, TypeOK, env
  <2>2. CASE PollSpurious
    BY <2>0, <2>2 DEF PollSpurious, Fault, ReportInv, ReasonOfResult, TypeOK, env
  <2>3. CASE LoopTest \/ PollTimesOut \/ PollFails
    BY <2>0, <2>3 DEF LoopTest, PollTimesOut, PollFails, Fault, Return, ReportInv, ReasonOfResult,
                      TypeOK, env
  <2>4. CASE WriteFails
    BY <2>0, <2>4 DEF WriteFails, Writable, Return, ReportInv, ReasonOfResult, TypeOK, writer, env
  <2>5. CASE Hangup
    <3>1. revents = {"NVAL"} \/ revents \cap {"ERR", "HUP"} # {}
      BY <2>5 DEF Hangup, ReportInv, TypeOK, Events
    <3> QED
      BY <2>0, <2>5, <3>1 DEF Hangup, Return, ReportInv, ReasonOfResult, TypeOK, env
  <2>6. CASE WriteSome \/ WriteAgain \/ PollInterrupted
    BY <2>0, <2>6 DEF WriteSome, WriteAgain, PollInterrupted, Writable, Fault, Continue, ReportInv,
                      ReasonOfResult, TypeOK, env
  <2>7. CASE PeerReads \/ PeerLeaves \/ Tick \/ UNCHANGED vars
    BY <2>0, <2>7 DEF PeerReads, PeerLeaves, Tick, Running, ReportInv, ReasonOfResult, TypeOK,
                      vars, writer, env
  <2> QED
    BY <2>1, <2>2, <2>3, <2>4, <2>5, <2>6, <2>7 DEF Next, WriterStep, KernelFault
<1> QED
  BY <1>1, <1>2, TypeCorrect, PTL DEF Spec

---------------------------------------------------------------------------
(* What the streams are built on.                                          *)

\* The write as its callers in Stream see it: they only ask whether it failed.
Contract == INSTANCE Transfer
  WITH moved <- nBytesWritten, Failures <- {"Failed"},
       outcome <- IF outcome \in WriteFailures THEN "Failed" ELSE outcome

\* The contract Stream gives each message to write is kept by the real loop.
THEOREM WriteKeepsContract == Spec => Contract!Spec
<1>1. Promise!Init => Contract!Init
  BY DEF Promise!Init, Contract!Init, WriteFailures
<1>2. [Promise!Next]_Promise!vars => [Contract!Next]_Contract!vars
  BY DEF Promise!Next, Promise!Move, Promise!Succeed, Promise!Fail, Promise!vars,
         Contract!Next, Contract!Move, Contract!Succeed, Contract!Fail, Contract!vars, WriteFailures
<1> QED
  BY <1>1, <1>2, WriteKeepsPromise, PTL DEF KeepsPromise, Promise!Spec, Contract!Spec

=============================================================================
