----------------------- MODULE RobustSyncRead_proofs -----------------------
(***************************************************************************)
(* Proofs about RobustSyncRead, for every buffer size, timeout, clock      *)
(* resolution and number of faults.                                        *)
(***************************************************************************)
EXTENDS RobustSyncRead, Timer_proofs

---------------------------------------------------------------------------
(* Type correctness.                                                       *)

\* Every reachable state of the read has the types TypeOK gives.
THEOREM TypeCorrect == Spec => []TypeOK
<1>1. Init => TypeOK
  BY ReadAssumption DEF Init, TypeOK
<1>2. TypeOK /\ [Next]_vars => TypeOK'
  <2> SUFFICES ASSUME TypeOK, [Next]_vars
               PROVE  TypeOK'
    OBVIOUS
  <2> USE DEF TypeOK
  <2>1. CASE LoopTest
    <3>1. now + remaining * TicksPerMs \in Nat
      <4>1. remaining \in Nat /\ now \in Nat
        BY ReadAssumption
      <4> QED
        BY <4>1, MulNat, TicksAssumption
    <3> QED
      BY <2>1, <3>1 DEF LoopTest, Return, env, ReadFailures
  <2>2. CASE PollReady
    <3>1. FdEvents \in SUBSET Events
      BY DEF FdEvents, Events
    <3>2. CancelEvents \in SUBSET Events
      BY DEF CancelEvents, Events
    <3> QED
      BY <2>2, <3>1, <3>2 DEF PollReady, env
  <2>3. CASE PollTimesOut
    BY <2>3 DEF PollTimesOut, Return, env, ReadFailures
  <2>4. CASE ReadSome
    <3>1. PICK x \in 1..(Size - nBytesRead) :
            /\ taken + x =< sent
            /\ to' = [i \in 1..Size |->
                        IF i \in (nBytesRead + 1)..(nBytesRead + x)
                        THEN taken + (i - nBytesRead) ELSE to[i]]
            /\ nBytesRead' = nBytesRead + x
            /\ taken' = taken + x
      BY <2>4 DEF ReadSome
    <3>2. to' \in [1..Size -> Nat]
      BY <3>1, ReadAssumption
    <3>3. nBytesRead' \in 0..Size /\ taken' \in Nat /\ taken' =< sent
      BY <3>1, ReadAssumption
    <3>4. CalcRemainingTime(Timeout, now) \in 0..Timeout
      BY RemainingCoversTimeout, ReadAssumption DEF TypeOK
    <3> QED
      BY <2>4, <3>2, <3>3, <3>4 DEF ReadSome, Continue, env
  <2>5. CASE ReadAgain
    <3>1. CalcRemainingTime(Timeout, now) \in 0..Timeout
      BY RemainingCoversTimeout, ReadAssumption DEF TypeOK
    <3> QED
      BY <2>5, <3>1 DEF ReadAgain, Continue, Fault, env
  <2>6. CASE ReadEof
    BY <2>6 DEF ReadEof, Return, env, ReadFailures
  <2>7. CASE ReadFails
    BY <2>7 DEF ReadFails, Return, env, ReadFailures
  <2>8. CASE Hangup
    BY <2>8 DEF Hangup, Return, env, ReadFailures
  <2>9. CASE Cancelled
    BY <2>9 DEF Cancelled, Return, env, ReadFailures
  <2>10. CASE PollSpurious
    <3>1. CancelEvents \in SUBSET Events
      BY DEF CancelEvents, Events
    <3> QED
      BY <2>10, <3>1 DEF PollSpurious, Fault, env, Events
  <2>11. CASE PollInterrupted
    <3>1. CalcRemainingTime(Timeout, now) \in 0..Timeout
      BY RemainingCoversTimeout, ReadAssumption DEF TypeOK
    <3> QED
      BY <2>11, <3>1 DEF PollInterrupted, Continue, Fault, env
  <2>12. CASE PollFails
    BY <2>12 DEF PollFails, Return, Fault, env, ReadFailures
  <2>13. CASE PeerWrites
    BY <2>13 DEF PeerWrites, reader
  <2>14. CASE PeerLeaves
    BY <2>14 DEF PeerLeaves, reader
  <2>15. CASE Cancel
    BY <2>15 DEF Cancel, reader
  <2>16. CASE Tick
    BY <2>16 DEF Tick, reader
  <2>17. CASE UNCHANGED vars
    BY <2>17 DEF vars, reader, env
  <2> QED
    BY <2>1, <2>2, <2>3, <2>4, <2>5, <2>6, <2>7, <2>8, <2>9, <2>10, <2>11,
       <2>12, <2>13, <2>14, <2>15, <2>16, <2>17
    DEF Next, ReaderStep, KernelFault
<1> QED
  BY <1>1, <1>2, PTL DEF Spec

---------------------------------------------------------------------------
(* Bytes.                                                                  *)

\* The buffer always holds exactly the bytes taken from the descriptor.
THEOREM PrefixCorrect == Spec => []ExactPrefix
<1>1. Init => ExactPrefix
  BY ReadAssumption DEF Init, ExactPrefix
<1>2. TypeOK /\ ExactPrefix /\ [Next]_vars => ExactPrefix'
  <2> SUFFICES ASSUME TypeOK, ExactPrefix, [Next]_vars
               PROVE  ExactPrefix'
    OBVIOUS
  <2>1. CASE ReadSome
    <3>1. PICK x \in 1..(Size - nBytesRead) :
            /\ to' = [i \in 1..Size |->
                        IF i \in (nBytesRead + 1)..(nBytesRead + x)
                        THEN taken + (i - nBytesRead) ELSE to[i]]
            /\ nBytesRead' = nBytesRead + x
            /\ taken' = taken + x
      BY <2>1 DEF ReadSome
    <3>2. ASSUME NEW i \in 1..Size
          PROVE  to'[i] = IF i =< nBytesRead' THEN i ELSE 0
      BY <3>1, ReadAssumption DEF TypeOK, ExactPrefix
    <3> QED
      BY <3>1, <3>2 DEF ExactPrefix
  <2>2. CASE UNCHANGED <<nBytesRead, to, taken>>
    BY <2>2 DEF ExactPrefix
  <2>3. ReadSome \/ UNCHANGED <<nBytesRead, to, taken>>
    BY DEF Next, ReaderStep, KernelFault, LoopTest, PollReady, PollTimesOut,
           ReadAgain, ReadEof, ReadFails, Hangup, Cancelled, PollSpurious,
           PollInterrupted, PollFails, PeerWrites, PeerLeaves, Cancel, Tick,
           Return, vars, reader
  <2> QED
    BY <2>1, <2>2, <2>3
<1> QED
  BY <1>1, <1>2, TypeCorrect, PTL DEF Spec

---------------------------------------------------------------------------
(* Time.                                                                   *)

\* From the test of the loop on, the wait still to come reaches the deadline.
DeadlineInv ==
  /\ pc = "loop" => now + remaining * TicksPerMs >= Timeout * TicksPerMs
  /\ pc = "polling" => wakeAt >= Timeout * TicksPerMs
  /\ NoEarlyTimeout

\* Going round the loop again waits for the deadline, not less.
LEMMA ContinueKeepsDeadline ==
  ASSUME TypeOK, pc # "done" => outcome = "none", pc # "done",
         Continue, UNCHANGED now
  PROVE  DeadlineInv'
<1>1. now + remaining' * TicksPerMs >= Timeout * TicksPerMs
  BY RemainingCoversTimeout, ReadAssumption DEF TypeOK, Continue
<1>2. pc' = "loop" /\ outcome' = "none"
  BY DEF Continue
<1> QED
  BY <1>1, <1>2 DEF DeadlineInv, NoEarlyTimeout

\* Nothing is returned before the call returns.
OutcomeInv == pc # "done" => outcome = "none"

\* OutcomeInv holds in every reachable state.
LEMMA OutcomeCorrect == Spec => []OutcomeInv
<1>1. Init => OutcomeInv
  BY DEF Init, OutcomeInv
<1>2. OutcomeInv /\ [Next]_vars => OutcomeInv'
  BY DEF OutcomeInv, Next, ReaderStep, KernelFault, LoopTest, PollReady,
         PollTimesOut, ReadSome, ReadAgain, ReadEof, ReadFails, Hangup,
         Cancelled, PollSpurious, PollInterrupted, PollFails, PeerWrites,
         PeerLeaves, Cancel, Tick, Return, Continue, Readable, Running,
         vars, reader
<1> QED
  BY <1>1, <1>2, PTL DEF Spec

\* OnTimeout never comes before the whole timeout has passed.
THEOREM TimeoutNotEarly == Spec => []NoEarlyTimeout
<1>1. Init => DeadlineInv
  <2> SUFFICES ASSUME Init PROVE DeadlineInv
    OBVIOUS
  <2>1. Timeout * TicksPerMs \in Nat
    BY MulNat, ReadAssumption, TicksAssumption
  <2> QED
    BY <2>1 DEF Init, DeadlineInv, NoEarlyTimeout
<1>2. TypeOK /\ OutcomeInv /\ DeadlineInv /\ [Next]_vars => DeadlineInv'
  <2> SUFFICES ASSUME TypeOK, OutcomeInv, DeadlineInv, [Next]_vars
               PROVE  DeadlineInv'
    OBVIOUS
  <2>1. CASE LoopTest
    BY <2>1 DEF LoopTest, Return, DeadlineInv, NoEarlyTimeout, OutcomeInv, env
  <2>2. CASE PollTimesOut
    <3>1. Timeout * TicksPerMs \in Nat
      BY MulNat, ReadAssumption, TicksAssumption
    <3> QED
      BY <2>2, <3>1 DEF PollTimesOut, Return, DeadlineInv, NoEarlyTimeout,
                        TypeOK, env
  <2>3. CASE Tick
    <3>1. /\ Timeout * TicksPerMs \in Nat
          /\ remaining * TicksPerMs \in Nat
      BY MulNat, ReadAssumption, TicksAssumption DEF TypeOK
    <3> QED
      BY <2>3, <3>1 DEF Tick, DeadlineInv, NoEarlyTimeout, TypeOK, reader
  <2>4. CASE Continue /\ UNCHANGED now /\ pc # "done"
    BY <2>4, ContinueKeepsDeadline DEF OutcomeInv
  <2>5. CASE UNCHANGED <<pc, remaining, wakeAt, outcome, now>>
    BY <2>5 DEF DeadlineInv, NoEarlyTimeout
  <2>6. CASE pc' \in {"polled", "done"} /\ outcome' # "OnTimeout"
    BY <2>6 DEF DeadlineInv, NoEarlyTimeout
  <2>7. \/ ReadSome \/ ReadAgain \/ PollInterrupted
        => Continue /\ UNCHANGED now /\ pc # "done"
    BY DEF ReadSome, ReadAgain, PollInterrupted, Readable, env
  <2>8. \/ PollReady \/ PollSpurious \/ ReadEof \/ ReadFails \/ Hangup
        \/ Cancelled \/ PollFails
        => pc' \in {"polled", "done"} /\ outcome' # "OnTimeout"
    BY DEF PollReady, PollSpurious, ReadEof, ReadFails, Hangup, Cancelled,
           PollFails, Return, OutcomeInv
  <2>9. \/ PeerWrites \/ PeerLeaves \/ Cancel \/ UNCHANGED vars
        => UNCHANGED <<pc, remaining, wakeAt, outcome, now>>
    BY DEF PeerWrites, PeerLeaves, Cancel, vars, reader, env
  <2> QED
    BY <2>1, <2>2, <2>3, <2>4, <2>5, <2>6, <2>7, <2>8, <2>9
    DEF Next, ReaderStep, KernelFault
<1>3. DeadlineInv => NoEarlyTimeout
  BY DEF DeadlineInv
<1> QED
  BY <1>1, <1>2, <1>3, TypeCorrect, OutcomeCorrect, PTL DEF Spec

---------------------------------------------------------------------------
(* Ends of the stream.                                                     *)

\* A hang-up seen in a snapshot is still true when the reader acts on it:
\* no byte can arrive after it, and none was left when it was taken.
SnapshotInv ==
  pc = "polled" /\ "IN" \notin revents.fd /\ "HUP" \in revents.fd
    => kind = "pipe" /\ peer = "closed" /\ taken = sent

\* Only a pipe reports a hang-up without input, and no reader of a pipe sees
\* another error.
KindInv ==
  /\ kind = "pipe" => peer # "reset"
  /\ pc = "polled" /\ "IN" \notin revents.fd
       => revents.fd \in {{}, {"HUP"}, {"NVAL"}}
  /\ pc = "polled" /\ revents.fd = {"NVAL"} => kind = "notOpen"

DrainInv == SnapshotInv /\ KindInv /\ DrainedBeforeEnd

\* What the events poll() may report say of the stream at that moment.
LEMMA FdEventsOf ==
  ASSUME TypeOK, KindInv
  PROVE  /\ "IN" \notin FdEvents => FdEvents \in {{}, {"HUP"}, {"NVAL"}}
         /\ FdEvents = {"NVAL"} => kind = "notOpen"
         /\ "IN" \notin FdEvents /\ "HUP" \in FdEvents
              => kind = "pipe" /\ peer = "closed" /\ taken = sent
<1>1. CASE kind = "pipe"
  <2>1. FdEvents = (IF taken < sent THEN {"IN"} ELSE {})
                   \cup (IF peer = "closed" THEN {"HUP"} ELSE {})
    BY <1>1 DEF FdEvents
  <2> QED
    BY <2>1, <1>1 DEF TypeOK
<1>2. CASE kind = "socket"
  <2>1. FdEvents = (IF taken < sent \/ peer # "open" THEN {"IN"} ELSE {})
                   \cup (IF peer = "reset" THEN {"ERR", "HUP"} ELSE {})
    BY <1>2 DEF FdEvents
  <2> QED
    BY <2>1, <1>2 DEF TypeOK
<1>3. CASE kind = "notOpen"
  BY <1>3 DEF FdEvents
<1>4. CASE kind = "negative"
  BY <1>4 DEF FdEvents
<1> QED
  BY <1>1, <1>2, <1>3, <1>4 DEF TypeOK

\* Nothing the peer wrote before leaving is dropped when its end is reported.
THEOREM DrainCorrect == Spec => []DrainedBeforeEnd
<1>1. Init => DrainInv
  BY DEF Init, DrainInv, SnapshotInv, KindInv, DrainedBeforeEnd
<1>2. TypeOK /\ ExactPrefix /\ OutcomeInv /\ DrainInv /\ [Next]_vars => DrainInv'
  <2> SUFFICES ASSUME TypeOK, ExactPrefix, OutcomeInv, DrainInv, [Next]_vars
               PROVE  DrainInv'
    OBVIOUS
  <2> USE DEF DrainInv
  <2>1. CASE PollReady
    <3>1. /\ kind' = kind /\ peer' = peer /\ sent' = sent /\ taken' = taken
          /\ revents'.fd = FdEvents /\ outcome' = "none"
      BY <2>1 DEF PollReady, env, OutcomeInv
    <3>2. SnapshotInv' /\ KindInv'
      BY <3>1, FdEventsOf DEF SnapshotInv, KindInv
    <3> QED
      BY <3>1, <3>2 DEF DrainedBeforeEnd
  <2>2. CASE PollSpurious
    <3>1. /\ kind' = kind /\ peer' = peer /\ revents'.fd = {"IN"}
          /\ outcome' = "none"
      BY <2>2 DEF PollSpurious, env, OutcomeInv
    <3> QED
      BY <3>1 DEF SnapshotInv, KindInv, DrainedBeforeEnd
  <2>3. CASE Hangup
    <3>1. /\ pc' = "done" /\ UNCHANGED <<kind, peer, sent, taken, nBytesRead>>
          /\ pc = "polled" /\ "IN" \notin revents.fd /\ revents.fd # {}
          /\ outcome' = IF revents.fd = {"NVAL"} THEN "OnSystemError"
                                               ELSE "OnPollerrOrPollhup"
      BY <2>3 DEF Hangup, Return, env
    <3>2. outcome' = "OnPollerrOrPollhup" => peer = "closed" /\ taken = sent
      BY <3>1 DEF SnapshotInv, KindInv
    <3> QED
      BY <3>1, <3>2 DEF SnapshotInv, KindInv, DrainedBeforeEnd, ExactPrefix
  <2>4. CASE ReadEof
    BY <2>4 DEF ReadEof, Return, env, SnapshotInv, KindInv, DrainedBeforeEnd,
                ExactPrefix
  <2>5. CASE PeerWrites
    BY <2>5 DEF PeerWrites, Running, reader, OutcomeInv, SnapshotInv, KindInv,
                DrainedBeforeEnd
  <2>6. CASE PeerLeaves
    <3>1. kind = "pipe" => peer = "open" /\ peer' = "closed"
      BY <2>6 DEF PeerLeaves
    <3>2. /\ UNCHANGED <<pc, revents, outcome, kind, sent, taken>>
          /\ pc # "done"
      BY <2>6 DEF PeerLeaves, Running, reader
    <3> QED
      BY <3>1, <3>2 DEF OutcomeInv, SnapshotInv, KindInv, DrainedBeforeEnd
  <2>7. CASE pc' # "polled" /\ UNCHANGED <<kind, peer>>
             /\ outcome' \notin {"OnPrematureEof", "OnPollerrOrPollhup"}
    BY <2>7 DEF SnapshotInv, KindInv, DrainedBeforeEnd
  <2>8. CASE UNCHANGED <<pc, revents, outcome, kind, peer, sent, taken, nBytesRead>>
    BY <2>8 DEF SnapshotInv, KindInv, DrainedBeforeEnd
  <2>9. \/ LoopTest \/ PollTimesOut \/ ReadSome \/ ReadAgain \/ ReadFails
        \/ Cancelled \/ PollInterrupted \/ PollFails
        => /\ pc' # "polled" /\ UNCHANGED <<kind, peer>>
           /\ outcome' \notin {"OnPrematureEof", "OnPollerrOrPollhup"}
    BY DEF LoopTest, PollTimesOut, ReadSome, ReadAgain, ReadFails, Cancelled,
           PollInterrupted, PollFails, Return, Continue, Readable, OutcomeInv, env
  <2>10. Cancel \/ Tick \/ UNCHANGED vars
         => UNCHANGED <<pc, revents, outcome, kind, peer, sent, taken, nBytesRead>>
    BY DEF Cancel, Tick, vars, reader, env
  <2> QED
    BY <2>1, <2>2, <2>3, <2>4, <2>5, <2>6, <2>7, <2>8, <2>9, <2>10
    DEF Next, ReaderStep, KernelFault
<1>3. DrainInv => DrainedBeforeEnd
  BY DEF DrainInv
<1> QED
  BY <1>1, <1>2, <1>3, TypeCorrect, PrefixCorrect, OutcomeCorrect, PTL DEF Spec

---------------------------------------------------------------------------
(* Refinement.                                                             *)

\* Inside the loop body the buffer is not full yet.
BodyInv == pc \in {"polling", "polled"} => nBytesRead < Size

\* BodyInv holds in every reachable state.
LEMMA BodyCorrect == Spec => []BodyInv
<1>1. Init => BodyInv
  BY DEF Init, BodyInv
<1>2. TypeOK /\ BodyInv /\ [Next]_vars => BodyInv'
  BY ReadAssumption
  DEF TypeOK, BodyInv, Next, ReaderStep, KernelFault, LoopTest, PollReady,
      PollTimesOut, ReadSome, ReadAgain, ReadEof, ReadFails, Hangup, Cancelled,
      PollSpurious, PollInterrupted, PollFails, PeerWrites, PeerLeaves, Cancel,
      Tick, Return, Continue, Readable, vars, reader, env
<1> QED
  BY <1>1, <1>2, TypeCorrect, PTL DEF Spec

\* The read implements the one-shot transfer of module Transfer.
THEOREM ReadKeepsPromise == Spec => KeepsPromise
<1>1. Init => Promise!Init
  BY DEF Init, Promise!Init
<1>2. TypeOK /\ OutcomeInv /\ BodyInv /\ [Next]_vars
        => [Promise!Next]_Promise!vars
  <2> SUFFICES ASSUME TypeOK, OutcomeInv, BodyInv, [Next]_vars
               PROVE  [Promise!Next]_Promise!vars
    OBVIOUS
  <2> USE DEF Promise!Next, Promise!vars
  <2>1. CASE LoopTest
    <3>1. CASE nBytesRead = Size
      BY <2>1, <3>1 DEF LoopTest, Return, OutcomeInv, Promise!Succeed
    <3>2. CASE nBytesRead # Size
      BY <2>1, <3>2 DEF LoopTest
    <3> QED
      BY <3>1, <3>2
  <2>2. CASE ReadSome
    <3>1. PICK x \in 1..(Size - nBytesRead) : nBytesRead' = nBytesRead + x
      BY <2>2 DEF ReadSome
    <3>2. outcome = "none" /\ UNCHANGED outcome
      BY <2>2 DEF ReadSome, Readable, Continue, OutcomeInv
    <3> QED
      BY <3>1, <3>2 DEF Promise!Move
  <2>3. CASE \E result \in ReadFailures : Return(result) /\ pc \in {"polling", "polled"}
    <3>1. nBytesRead < Size /\ outcome = "none"
      BY <2>3 DEF BodyInv, OutcomeInv
    <3> QED
      BY <2>3, <3>1 DEF Return, Promise!Fail
  <2>4. CASE UNCHANGED <<nBytesRead, outcome>>
    BY <2>4
  <2>5. \/ PollTimesOut \/ ReadEof \/ ReadFails \/ Hangup \/ Cancelled \/ PollFails
        => \E result \in ReadFailures :
             Return(result) /\ pc \in {"polling", "polled"}
    BY DEF PollTimesOut, ReadEof, ReadFails, Hangup, Cancelled, PollFails,
           Readable, ReadFailures
  <2>6. \/ PollReady \/ ReadAgain \/ PollSpurious \/ PollInterrupted
        \/ PeerWrites \/ PeerLeaves \/ Cancel \/ Tick \/ UNCHANGED vars
        => UNCHANGED <<nBytesRead, outcome>>
    BY DEF PollReady, ReadAgain, PollSpurious, PollInterrupted, PeerWrites,
           PeerLeaves, Cancel, Tick, Continue, vars, reader
  <2> QED
    BY <2>1, <2>2, <2>3, <2>4, <2>5, <2>6 DEF Next, ReaderStep, KernelFault
<1> QED
  BY <1>1, <1>2, TypeCorrect, OutcomeCorrect, BodyCorrect, PTL
  DEF Spec, KeepsPromise, Promise!Spec

---------------------------------------------------------------------------
(* Progress.                                                               *)

\* poll() reported input of which nothing is there.
Misled == pc = "polled" /\ "IN" \in revents.fd /\ taken = sent /\ peer = "open"

\* What is left of this turn of the loop; to find out that poll() reported
\* nothing takes another turn.
StepsOfTurn ==
  CASE pc = "loop"    -> 3
    [] pc = "polling" -> 2
    [] pc = "polled"  -> IF Misled THEN 5 ELSE 1
    [] pc = "done"    -> 0

\* How many steps the call can still make, at most: four for each byte that is
\* missing, eight for each fault to come, and what is left of this turn.
Rank == 4 * (Size - nBytesRead) + 8 * faults + StepsOfTurn

\* Every step of the call uses up some of it, and nothing that the peer, the
\* cancelling thread or the clock does gives any back.
TurnsAreBounded ==
  [][Rank' =< Rank /\ (ReaderStep \/ KernelFault => Rank' < Rank)]_vars

\* The measure of a turn at each place, before and after a step.
LEMMA TurnAt ==
  /\ pc = "loop" => StepsOfTurn = 3
  /\ pc = "polling" => StepsOfTurn = 2
  /\ pc = "polled" => StepsOfTurn = IF Misled THEN 5 ELSE 1
  /\ pc = "done" => StepsOfTurn = 0
  /\ pc' = "loop" => StepsOfTurn' = 3
  /\ pc' = "polling" => StepsOfTurn' = 2
  /\ pc' = "polled" => StepsOfTurn' = IF Misled' THEN 5 ELSE 1
  /\ pc' = "done" => StepsOfTurn' = 0
BY DEF StepsOfTurn

\* It is a number in every state of the call.
LEMMA RankType == TypeOK => StepsOfTurn \in 0..5 /\ Rank \in Nat
<1> SUFFICES ASSUME TypeOK PROVE StepsOfTurn \in 0..5 /\ Rank \in Nat
  OBVIOUS
<1>1. StepsOfTurn \in 0..5
  BY DEF StepsOfTurn, TypeOK
<1>2. Size - nBytesRead \in Nat /\ faults \in Nat
  BY ReadAssumption DEF TypeOK
<1> QED
  BY <1>1, <1>2 DEF Rank

\* Nobody but the reader can make a call misled.
LEMMA MisledByPollOnly ==
  ASSUME TypeOK, UNCHANGED <<pc, revents>>,
         peer' = "open" => peer = "open", taken' = taken, sent' \in Nat, sent' >= sent
  PROVE  Misled' => Misled
BY DEF TypeOK, Misled

\* What poll() really reports misleads nobody.
LEMMA NotMisled ==
  ASSUME TypeOK, PollReady
  PROVE  ~Misled'
BY DEF TypeOK, PollReady, FdEvents, Misled, env

\* Whatever the reader does takes it to another place.
LEMMA StepMoves == ReaderStep \/ KernelFault => pc' # pc
BY DEF ReaderStep, KernelFault, LoopTest, PollReady, PollTimesOut, ReadSome, ReadAgain, ReadEof,
       ReadFails, Hangup, Cancelled, PollSpurious, PollInterrupted, PollFails, Readable, Return, Continue

\* The loop turns at most once for each piece that was read and twice for each
\* fault: the read never spins, also on a descriptor that reports what is not there.
THEOREM ReadNeverSpins == Spec => TurnsAreBounded /\ [](Rank \in 0..(4 * Size + 8 * MaxFaults + 3))
<1> DEFINE Steady  == Rank' =< Rank /\ (ReaderStep \/ KernelFault => Rank' < Rank)
           Bounded == Rank =< 4 * Size + 8 * MaxFaults + 3
           Natural == Rank \in Nat
<1>1. Init => Bounded
  BY ReadAssumption DEF Init, Rank, StepsOfTurn
<1>2. TypeOK /\ BodyInv /\ [Next]_vars => Steady
  <2> SUFFICES ASSUME TypeOK, BodyInv, [Next]_vars PROVE Steady
    OBVIOUS
  <2> USE ReadAssumption, TurnAt
  <2>1. CASE LoopTest
    BY <2>1 DEF LoopTest, Return, Rank, Misled, TypeOK
  <2>2. CASE PollReady
    BY <2>2, NotMisled DEF PollReady, Rank, TypeOK
  <2>3. CASE PollTimesOut \/ ReadEof \/ ReadFails \/ Hangup \/ Cancelled
    <3>1. /\ pc \in {"polling", "polled"} /\ pc' = "done"
          /\ UNCHANGED <<nBytesRead, faults>>
      BY <2>3 DEF PollTimesOut, ReadEof, ReadFails, Hangup, Cancelled, Readable, Return
    <3> QED
      BY <3>1 DEF Rank, TypeOK
  <2>4. CASE ReadSome
    <3>1. PICK x \in 1..(Size - nBytesRead) : nBytesRead' = nBytesRead + x
      BY <2>4 DEF ReadSome
    <3> QED
      BY <2>4, <3>1 DEF ReadSome, Readable, Continue, Rank, Misled, TypeOK
  <2>5. CASE ReadAgain
    <3>1. /\ pc = "polled" /\ pc' = "loop" /\ nBytesRead' = nBytesRead
          /\ (Misled /\ faults' = faults) \/ (faults > 0 /\ faults' = faults - 1)
      BY <2>5 DEF ReadAgain, Readable, Continue, Fault, Misled
    <3> QED
      BY <3>1 DEF Rank, TypeOK
  <2>6. CASE KernelFault
    <3>1. /\ pc = "polling" /\ pc' \in {"polled", "loop", "done"}
          /\ nBytesRead' = nBytesRead /\ faults' = faults - 1
      BY <2>6 DEF KernelFault, PollSpurious, PollInterrupted, PollFails, Fault, Continue, Return
    <3> QED
      BY <3>1 DEF Rank, TypeOK
  <2>7. CASE PeerWrites \/ PeerLeaves \/ Cancel \/ Tick \/ UNCHANGED vars
    <3>1. /\ UNCHANGED <<pc, nBytesRead, revents, taken, faults>>
          /\ peer' = "open" => peer = "open"
          /\ sent' \in Nat /\ sent' >= sent
      BY <2>7 DEF PeerWrites, PeerLeaves, Cancel, Tick, vars, reader, env, TypeOK
    <3>2. Misled' => Misled
      BY <3>1, MisledByPollOnly
    <3>3. Rank' =< Rank
      BY <3>1, <3>2 DEF Rank, TypeOK
    <3> QED
      BY <3>1, <3>3, StepMoves
  <2> QED
    BY <2>1, <2>2, <2>3, <2>4, <2>5, <2>6, <2>7 DEF Next, ReaderStep
<1>3. Natural /\ Natural' /\ Bounded /\ Steady => Bounded'
  <2>1. 4 * Size + 8 * MaxFaults + 3 \in Nat
    BY ReadAssumption
  <2> HIDE DEF Rank
  <2> QED
    BY <2>1
<1>4. TypeOK => Natural
  BY RankType
<1>5. Natural /\ Bounded => Rank \in 0..(4 * Size + 8 * MaxFaults + 3)
  BY ReadAssumption
<1> QED
  BY <1>1, <1>2, <1>3, <1>4, <1>5, TypeCorrect, BodyCorrect, PTL DEF Spec, TurnsAreBounded

---------------------------------------------------------------------------
(* Reasons.                                                                *)

\* What poll() reported of the two descriptors stays true until it is acted on.
ReportInv ==
  pc = "polled" =>
    /\ revents.fd \cap {"ERR", "HUP"} # {} => peer # "open"
    /\ "NVAL" \in revents.fd => kind = "notOpen"
    /\ "IN" \in revents.cancel => cancel = "signalled"
    /\ revents.fd = {} /\ "IN" \notin revents.cancel => cancel = "broken"

\* No alternative of the result is returned without what it reports: there is
\* no cancellation nobody asked for, no hang-up of a peer that is there, and
\* no system error while descriptors and kernel behave.
ReasonOfResult ==
  /\ (outcome = "none") = (pc # "done")
  /\ outcome = "OnSuccess" => nBytesRead = Size
  /\ outcome = "OnCancellation" => cancel = "signalled"
  /\ outcome = "OnPollerrOrPollhup" => peer # "open"
  /\ outcome = "OnSystemError" =>
       kind = "notOpen" \/ peer = "reset" \/ cancel = "broken" \/ faults < MaxFaults

\* What poll() reports is true when it returns.
LEMMA ReportIsTrue ==
  ASSUME TypeOK, FdEvents \cup CancelEvents # {}
  PROVE  /\ FdEvents \cap {"ERR", "HUP"} # {} => peer # "open"
         /\ "NVAL" \in FdEvents => kind = "notOpen"
         /\ "IN" \in CancelEvents => cancel = "signalled"
         /\ FdEvents = {} /\ "IN" \notin CancelEvents => cancel = "broken"
BY DEF TypeOK, FdEvents, CancelEvents

\* The caller may believe the alternative it is given.
THEOREM ResultHasItsReason == Spec => []ReasonOfResult
<1> DEFINE Inv == ReportInv /\ ReasonOfResult /\ faults =< MaxFaults
<1>1. Init => Inv
  BY ReadAssumption DEF Init, ReportInv, ReasonOfResult
<1>2. TypeOK /\ Inv /\ [Next]_vars => Inv'
  <2> SUFFICES ASSUME TypeOK, Inv, [Next]_vars PROVE Inv'
    OBVIOUS
  <2> USE ReadAssumption
  <2>1. CASE PollReady
    BY <2>1, ReportIsTrue DEF PollReady, ReportInv, ReasonOfResult, TypeOK, env
  <2>2. CASE PollSpurious
    BY <2>2 DEF PollSpurious, Fault, CancelEvents, ReportInv, ReasonOfResult, TypeOK, env
  <2>3. CASE LoopTest \/ PollTimesOut \/ ReadEof \/ ReadFails \/ Cancelled \/ PollFails
    <3>1. UNCHANGED <<kind, peer, cancel>> /\ faults' =< faults /\ faults \in Nat /\ faults' \in Int
      BY <2>3 DEF LoopTest, PollTimesOut, ReadEof, ReadFails, Cancelled, PollFails, Fault, env, TypeOK
    <3>2. pc' = "done" \/ (pc' = "polling" /\ outcome' = outcome /\ pc # "done")
      BY <2>3 DEF LoopTest, PollTimesOut, ReadEof, ReadFails, Cancelled, PollFails, Return
    <3>3. ReasonOfResult'
      <4>1. CASE LoopTest
        BY <4>1 DEF LoopTest, Return, ReasonOfResult, TypeOK, env
      <4>2. CASE PollTimesOut \/ ReadEof \/ ReadFails \/ PollFails
        BY <4>2 DEF PollTimesOut, ReadEof, ReadFails, PollFails, Fault, Return, ReasonOfResult, TypeOK, env
      <4>3. CASE Cancelled
        BY <4>3 DEF Cancelled, Return, ReportInv, ReasonOfResult, TypeOK, env
      <4> QED
        BY <2>3, <4>1, <4>2, <4>3
    <3> QED
      BY <3>1, <3>2, <3>3 DEF ReportInv
  <2>4. CASE Hangup
    <3>1. /\ pc = "polled" /\ pc' = "done" /\ UNCHANGED <<kind, peer, cancel, faults, nBytesRead>>
          /\ outcome' \in {"OnSystemError", "OnPollerrOrPollhup"}
      BY <2>4 DEF Hangup, Return, env
    <3>2. outcome' = "OnSystemError" => kind = "notOpen"
      <4>1. outcome' = "OnSystemError" => "NVAL" \in revents.fd
        BY <2>4 DEF Hangup, Return
      <4> QED
        BY <3>1, <4>1 DEF ReportInv
    <3>3. outcome' = "OnPollerrOrPollhup" => peer # "open"
      <4>1. outcome' = "OnPollerrOrPollhup" => revents.fd \cap {"ERR", "HUP"} # {}
        <5>1. revents.fd \subseteq {"IN", "ERR", "HUP", "NVAL"}
          BY DEF TypeOK, Events
        <5>2. outcome' = "OnPollerrOrPollhup" =>
                /\ "IN" \notin revents.fd /\ revents.fd # {"NVAL"}
                /\ revents.fd \cap {"ERR", "HUP", "NVAL"} # {}
          BY <2>4 DEF Hangup, Return
        <5> QED
          BY <5>1, <5>2
      <4> QED
        BY <3>1, <4>1 DEF ReportInv
    <3> QED
      BY <3>1, <3>2, <3>3 DEF ReportInv, ReasonOfResult
  <2>5. CASE ReadSome \/ ReadAgain \/ PollInterrupted
    BY <2>5 DEF ReadSome, ReadAgain, PollInterrupted, Readable, Fault, Continue, ReportInv,
                ReasonOfResult, TypeOK, env
  <2>6. CASE PeerWrites \/ PeerLeaves \/ Cancel \/ Tick \/ UNCHANGED vars
    BY <2>6 DEF PeerWrites, PeerLeaves, Cancel, Tick, Running, ReportInv, ReasonOfResult, TypeOK,
                vars, reader, env
  <2> QED
    BY <2>1, <2>2, <2>3, <2>4, <2>5, <2>6 DEF Next, ReaderStep, KernelFault
<1> QED
  BY <1>1, <1>2, TypeCorrect, PTL DEF Spec

---------------------------------------------------------------------------
(* What the streams are built on.                                          *)

\* The read as its callers in Stream see it: they only ask whether it failed.
Contract == INSTANCE Transfer
  WITH moved <- nBytesRead, Failures <- {"Failed"},
       outcome <- IF outcome \in ReadFailures THEN "Failed" ELSE outcome

\* The contract Stream gives each message to read is kept by the real loop.
THEOREM ReadKeepsContract == Spec => Contract!Spec
<1>1. Promise!Init => Contract!Init
  BY DEF Promise!Init, Contract!Init, ReadFailures
<1>2. [Promise!Next]_Promise!vars => [Contract!Next]_Contract!vars
  BY DEF Promise!Next, Promise!Move, Promise!Succeed, Promise!Fail, Promise!vars,
         Contract!Next, Contract!Move, Contract!Succeed, Contract!Fail, Contract!vars, ReadFailures
<1> QED
  BY <1>1, <1>2, ReadKeepsPromise, PTL DEF KeepsPromise, Promise!Spec, Contract!Spec

=============================================================================
