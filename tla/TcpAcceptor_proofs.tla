------------------------ MODULE TcpAcceptor_proofs ------------------------
(***************************************************************************)
(* Proofs about TcpAcceptor, for every number of peers, connections and    *)
(* faults, every timeout and clock resolution.                             *)
(***************************************************************************)
EXTENDS TcpAcceptor, Timer_proofs

---------------------------------------------------------------------------
(* Type correctness.                                                       *)

\* The oldest connection of a well-typed backlog is one that arrived.
LEMMA HeadArrived ==
  ASSUME TypeOK, backlog # <<>>
  PROVE  Head(backlog) \in 1..Len(peerOf)
<1>1. backlog \in Seq(Nat \ {0}) /\ Len(peerOf) \in Nat
  BY DEF TypeOK
<1>2. 1 \in 1..Len(backlog) /\ Head(backlog) = backlog[1]
  BY <1>1
<1>3. Head(backlog) \in Nat \ {0} /\ Head(backlog) =< Len(peerOf)
  BY <1>1, <1>2 DEF TypeOK
<1> QED
  BY <1>1, <1>3

\* What is left of a well-typed backlog is well typed.
LEMMA TailArrived ==
  ASSUME TypeOK, backlog # <<>>
  PROVE  /\ Tail(backlog) \in Seq(Nat \ {0})
         /\ \A i \in 1..Len(Tail(backlog)) : Tail(backlog)[i] =< Len(peerOf)
<1>1. backlog \in Seq(Nat \ {0})
  BY DEF TypeOK
<1>2. Tail(backlog) \in Seq(Nat \ {0}) /\ Len(Tail(backlog)) = Len(backlog) - 1
  BY <1>1
<1>3. ASSUME NEW i \in 1..Len(Tail(backlog))
      PROVE  Tail(backlog)[i] =< Len(peerOf)
  <2>1. Tail(backlog)[i] = backlog[i + 1] /\ i + 1 \in 1..Len(backlog)
    BY <1>1, <1>2
  <2> QED
    BY <2>1 DEF TypeOK
<1> QED
  BY <1>2, <1>3

\* Every reachable state of the wait has the types TypeOK gives.
THEOREM TypeCorrect == Spec => []TypeOK
<1>1. Init => TypeOK
  BY AcceptorAssumption DEF Init, TypeOK, Listener, Moved, Results
<1>2. TypeOK /\ [Next]_vars => TypeOK'
  <2> SUFFICES ASSUME TypeOK, [Next]_vars
               PROVE  TypeOK'
    OBVIOUS
  <2> USE DEF objects, network, loop
  <2>0. CalcRemainingTime(Timeout, now) \in 0..Timeout
    BY RemainingCoversTimeout, AcceptorAssumption DEF TypeOK
  <2>1. CASE FromTcpClient
    BY <2>1 DEF FromTcpClient, TypeOK, Results, Listener, Moved
  <2>2. CASE DestroyClient
    BY <2>2 DEF DestroyClient, TypeOK
  <2>3. CASE LoopTest
    <3>1. now + remaining * TicksPerMs \in Nat
      BY MulNat, TicksAssumption, AcceptorAssumption DEF TypeOK
    <3> QED
      BY <2>3, <3>1 DEF LoopTest, Return, TypeOK, Results, Moved
  <2>4. CASE PollReady
    BY <2>4 DEF PollReady, Fault, TypeOK
  <2>5. CASE PollTimesOut
    BY <2>0, <2>5 DEF PollTimesOut, Continue, TypeOK
  <2>6. CASE PollInterrupted
    BY <2>0, <2>6 DEF PollInterrupted, Continue, Fault, TypeOK
  <2>7. CASE PollFails
    BY <2>7 DEF PollFails, Return, Fault, TypeOK, Results, Moved
  <2>8. CASE Accept
    <3>1. backlog # <<>>
      BY <2>8 DEF Accept
    <3>2. Head(backlog) \in Nat /\ Moved \in Int
      BY <3>1, HeadArrived DEF TypeOK, Moved
    <3>3. /\ backlog' \in Seq(Nat \ {0})
          /\ \A i \in 1..Len(backlog') : backlog'[i] =< Len(peerOf')
      BY <2>8, <3>1, TailArrived DEF Accept
    <3>4. /\ pc' = "done" /\ result' \in {"TcpClient", "PeerAddressMismatchError"}
          /\ resultFd' \in {Head(backlog), Moved}
          /\ open' \in {open, open \cup {Head(backlog)}}
      BY <2>8 DEF Accept, Return
    <3>5. result' \in Results /\ resultFd' \in Int /\ open' \subseteq Nat
      BY <3>2, <3>4 DEF TypeOK, Results
    <3>6. UNCHANGED <<clientFd, clientAlive, acceptorFd, peerOf, pollResult,
                      remaining, wakeAt, now, faults>>
      BY <2>8 DEF Accept, Return
    <3> QED
      BY <3>3, <3>4, <3>5, <3>6 DEF TypeOK
  <2>9. CASE AcceptAgain
    BY <2>0, <2>9 DEF AcceptAgain, Continue, Fault, TypeOK
  <2>10. CASE AcceptFails
    BY <2>10 DEF AcceptFails, Return, Fault, TypeOK, Results, Moved
  <2>11. CASE \E address \in Addresses : Connect(address)
    <3>1. PICK address \in Addresses : Connect(address)
      BY <2>11
    <3>2. peerOf' \in Seq(Addresses) /\ Len(peerOf') = Len(peerOf) + 1
      BY <3>1 DEF Connect, TypeOK
    <3>3. backlog' \in Seq(Nat \ {0}) /\ Len(backlog') = Len(backlog) + 1
      BY <3>1, <3>2 DEF Connect, TypeOK
    <3>4. ASSUME NEW i \in 1..Len(backlog')
          PROVE  backlog'[i] =< Len(peerOf')
      <4>1. CASE i \in 1..Len(backlog)
        <5>1. backlog'[i] = backlog[i] /\ backlog[i] \in Nat
          BY <3>1, <4>1 DEF Connect, TypeOK
        <5> QED
          BY <3>2, <4>1, <5>1 DEF TypeOK
      <4>2. CASE i = Len(backlog) + 1
        BY <3>1, <3>2, <4>2 DEF Connect, TypeOK
      <4> QED
        BY <3>3, <4>1, <4>2 DEF TypeOK
    <3> QED
      BY <3>1, <3>2, <3>3, <3>4 DEF Connect, TypeOK
  <2>12. CASE GiveUp
    BY <2>12, TailArrived DEF GiveUp, TypeOK
  <2>13. CASE Tick
    BY <2>13 DEF Tick, TypeOK
  <2>14. CASE UNCHANGED vars
    BY <2>14 DEF vars, TypeOK
  <2> QED
    BY <2>1, <2>2, <2>3, <2>4, <2>5, <2>6, <2>7, <2>8, <2>9, <2>10, <2>11,
       <2>12, <2>13, <2>14
    DEF Next, AcceptorStep, KernelFault
<1> QED
  BY <1>1, <1>2, PTL DEF Spec

---------------------------------------------------------------------------
(* The listening socket.                                                   *)

\* The listening socket has one owner at a time, and the acceptor's is open.
OneOwner ==
  /\ pc = "start" => clientFd = Listener /\ Listener \in open
  /\ clientFd = Listener <=> acceptorFd = Moved
  /\ Waiting => acceptorFd = Listener
  /\ acceptorFd = Listener => Listener \in open

\* The wait never loses its socket to the destructor of the TcpClient it was
\* taken from, whenever that runs.
LEMMA ListenerCorrect == Spec => []OneOwner
<1>1. Init => OneOwner
  BY DEF Init, OneOwner, Waiting, Listener, Moved
<1>2. TypeOK /\ OneOwner /\ [Next]_vars => OneOwner'
  <2> SUFFICES ASSUME TypeOK, OneOwner, [Next]_vars
               PROVE  OneOwner'
    OBVIOUS
  <2> USE DEF objects, OneOwner, Waiting, Listener, Moved
  <2>1. CASE FromTcpClient
    BY <2>1 DEF FromTcpClient
  <2>2. CASE DestroyClient
    BY <2>2 DEF DestroyClient, TypeOK
  <2>3. CASE Accept
    BY <2>3 DEF Accept, Return
  <2>4. CASE /\ UNCHANGED <<clientFd, acceptorFd, open>>
             /\ pc # "start" /\ pc' # "start"
             /\ Waiting' => Waiting
    BY <2>4
  <2>5. CASE UNCHANGED vars
    BY <2>5 DEF vars
  <2> QED
    BY <2>1, <2>2, <2>3, <2>4, <2>5
    DEF Next, AcceptorStep, KernelFault, LoopTest, PollReady, PollTimesOut,
        AcceptAgain, PollInterrupted, PollFails, AcceptFails, Connect, GiveUp,
        Tick, Return, Continue
<1> QED
  BY <1>1, <1>2, TypeCorrect, PTL DEF Spec

---------------------------------------------------------------------------
(* Who is let in, and whose descriptor stays open.                         *)

\* Before the wait has ended nobody was let in, and every descriptor but the
\* listening one is closed.
NobodyYet == pc # "done" => result = "none" /\ resultFd = Moved /\ open \subseteq {Listener}

NoStrangerKept == open \ {Listener} \subseteq {resultFd}

AdmissionInv == NobodyYet /\ OnlyExpectedPeer /\ NoStrangerKept

\* Only the expected peer is let in, and no connection of anyone else is kept.
THEOREM AdmissionCorrect == Spec => []AdmissionInv
<1>1. Init => AdmissionInv
  BY DEF Init, AdmissionInv, NobodyYet, OnlyExpectedPeer, NoStrangerKept
<1>2. TypeOK /\ AdmissionInv /\ [Next]_vars => AdmissionInv'
  <2> SUFFICES ASSUME TypeOK, AdmissionInv, [Next]_vars
               PROVE  AdmissionInv'
    OBVIOUS
  <2> USE DEF AdmissionInv, NobodyYet, OnlyExpectedPeer, NoStrangerKept
  <2>1. CASE FromTcpClient
    BY <2>1 DEF FromTcpClient
  <2>2. CASE DestroyClient
    <3>1. open' \subseteq open /\ open \ {Listener} \subseteq open'
      BY <2>2 DEF DestroyClient, TypeOK, Moved
    <3>2. Len(peerOf) \in Nat /\ Listener \notin 1..Len(peerOf)
      BY DEF TypeOK, Listener
    <3> QED
      BY <2>2, <3>1, <3>2 DEF DestroyClient, network
  <2>3. CASE Accept
    <3>1. pc = "polled" /\ pc' = "done" /\ peerOf' = peerOf
          /\ Head(backlog) \in 1..Len(peerOf)
      BY <2>3, HeadArrived DEF Accept, Return
    <3>2. open \subseteq {Listener}
      BY <3>1
    <3> QED
      BY <2>3, <3>1, <3>2 DEF Accept, Return
  <2>4. CASE /\ pc # "done" /\ pc' # "done"
             /\ UNCHANGED <<open, result, resultFd>>
    BY <2>4
  <2>5. CASE /\ pc # "done" /\ pc' = "done"
             /\ result' # "TcpClient"
             /\ UNCHANGED open
    BY <2>5
  <2>6. CASE UNCHANGED vars
    BY <2>6 DEF vars, network
  <2> QED
    BY <2>1, <2>2, <2>3, <2>4, <2>5, <2>6
    DEF Next, AcceptorStep, KernelFault, LoopTest, PollReady, PollTimesOut,
        AcceptAgain, PollInterrupted, PollFails, AcceptFails, Connect, GiveUp,
        Tick, Return, Continue, Waiting
<1> QED
  BY <1>1, <1>2, TypeCorrect, PTL DEF Spec

\* The peer handed to the game is the one that was waited for, with an open
\* connection, whoever connected first and whoever gave up.
THEOREM OnlyPeerAdmitted == Spec => []OnlyExpectedPeer
<1>1. AdmissionInv => OnlyExpectedPeer
  BY DEF AdmissionInv
<1> QED
  BY <1>1, AdmissionCorrect, PTL

\* However the wait ends, every descriptor that is still open is the listening
\* one, which nothing closes, or the connection that was returned.
THEOREM DescriptorsCorrect == Spec => []DescriptorsAccounted
<1>1. AdmissionInv /\ OneOwner => DescriptorsAccounted
  BY DEF AdmissionInv, NoStrangerKept, OneOwner, DescriptorsAccounted
<1> QED
  BY <1>1, AdmissionCorrect, ListenerCorrect, PTL

---------------------------------------------------------------------------
(* The deadline.                                                           *)

Deadline == Timeout * TicksPerMs

\* Whatever interrupted it, the wait is on course for its deadline: the pending
\* or the next poll() gives up no earlier, unless one has already timed out.
OnCourse ==
  /\ pc \in {"start", "loop"} =>
       IF pollResult = 0 THEN now >= Deadline
       ELSE now + remaining * TicksPerMs >= Deadline
  /\ pc = "polling" => wakeAt >= Deadline
  /\ result = "Timeout" => now >= Deadline

\* Timeout is returned no earlier than the timeout, for every clock resolution
\* and any number of interruptions.
THEOREM TimeoutNotEarly == Spec => []NoEarlyTimeout
<1>0. Deadline \in Nat
  BY MulNat, TicksAssumption, AcceptorAssumption DEF Deadline
<1>1. Init => OnCourse
  <2> SUFFICES ASSUME Init PROVE OnCourse
    OBVIOUS
  <2>1. 0 + Deadline >= Deadline
    BY <1>0
  <2> QED
    BY <2>1 DEF Init, OnCourse, Deadline
<1>2. TypeOK /\ OnCourse /\ [Next]_vars => OnCourse'
  <2> SUFFICES ASSUME TypeOK, OnCourse, [Next]_vars
               PROVE  OnCourse'
    OBVIOUS
  <2> DEFINE r == CalcRemainingTime(Timeout, now)
  <2>0. now \in Nat /\ now + r * TicksPerMs >= Deadline
    BY RemainingCoversTimeout, AcceptorAssumption DEF TypeOK, Deadline
  <2> HIDE DEF r
  <2>d. Deadline' = Deadline
    BY DEF Deadline
  <2> USE <2>d DEF OnCourse
  <2>1. CASE FromTcpClient
    BY <2>1 DEF FromTcpClient, loop
  <2>2. CASE DestroyClient
    BY <2>2 DEF DestroyClient, loop
  <2>3. CASE LoopTest
    <3>1. CASE pollResult = 0
      BY <2>3, <3>1 DEF LoopTest, Return, loop
    <3>2. CASE pollResult # 0
      <4>1. pc' = "polling" /\ wakeAt' = now + remaining * TicksPerMs
            /\ result' = result /\ now' = now /\ pc = "loop"
        BY <2>3, <3>2 DEF LoopTest
      <4> QED
        BY <3>2, <4>1
    <3> QED
      BY <3>1, <3>2
  <2>4. CASE PollReady
    BY <2>4 DEF PollReady
  <2>5. CASE PollTimesOut
    <3>1. now >= Deadline
      BY <1>0, <2>0, <2>5 DEF PollTimesOut, TypeOK
    <3> QED
      BY <2>5, <3>1 DEF PollTimesOut, Continue
  <2>6. CASE PollInterrupted \/ AcceptAgain
    <3>1. /\ pc' = "loop" /\ pollResult' # 0 /\ remaining' = r
          /\ result' = result /\ now' = now
      BY <2>6 DEF PollInterrupted, AcceptAgain, Continue, r
    <3> QED
      BY <2>0, <3>1
  <2>7. CASE PollFails \/ AcceptFails
    BY <2>7 DEF PollFails, AcceptFails, Return
  <2>8. CASE Accept
    BY <2>8 DEF Accept, Return
  <2>9. CASE GiveUp \/ \E address \in Addresses : Connect(address)
    BY <2>9 DEF GiveUp, Connect, loop
  <2>10. CASE Tick
    <3>1. now' = now + 1 /\ UNCHANGED <<pc, pollResult, remaining, wakeAt, result>>
      BY <2>10 DEF Tick, loop
    <3>2. remaining * TicksPerMs \in Nat /\ wakeAt \in Nat
      BY MulNat, TicksAssumption, AcceptorAssumption DEF TypeOK
    <3> QED
      BY <1>0, <2>0, <3>1, <3>2
  <2>11. CASE UNCHANGED vars
    BY <2>11 DEF vars, loop
  <2> QED
    BY <2>1, <2>2, <2>3, <2>4, <2>5, <2>6, <2>7, <2>8, <2>9, <2>10, <2>11
    DEF Next, AcceptorStep, KernelFault
<1>3. OnCourse => NoEarlyTimeout
  BY DEF OnCourse, NoEarlyTimeout, Deadline
<1> QED
  BY <1>1, <1>2, <1>3, TypeCorrect, PTL DEF Spec

---------------------------------------------------------------------------
(* Progress.                                                               *)

\* The connection poll() reported is not there (any more), as accept4() will find.
Misled == pc = "polled" /\ backlog = <<>>

\* What is left of this turn of the loop; to find out that poll() reported
\* nothing takes another turn, and a turn after a poll() that timed out is the last.
StepsOfTurn ==
  CASE pc = "start"   -> 4
    [] pc = "loop"    -> IF pollResult = 0 THEN 1 ELSE 3
    [] pc = "polling" -> 2
    [] pc = "polled"  -> IF Misled THEN 5 ELSE 1
    [] pc = "done"    -> 0

\* How many steps the wait can still make, at most: eight for each connection
\* that waits or may still arrive, eight for each fault, and the rest of this turn.
Rank == 8 * (MaxConns - Len(peerOf)) + 8 * Len(backlog) + 8 * faults + StepsOfTurn

\* Every step of the wait uses up some of it, and nothing that peers, the clock
\* or the destructor of the TcpClient do gives any back.
TurnsAreBounded ==
  [][/\ Rank' =< Rank
     /\ FromTcpClient \/ AcceptorStep \/ KernelFault => Rank' < Rank]_vars

\* The measure of a turn at each place, before and after a step.
LEMMA TurnAt ==
  /\ pc = "start" => StepsOfTurn = 4
  /\ pc = "loop" => StepsOfTurn = IF pollResult = 0 THEN 1 ELSE 3
  /\ pc = "polling" => StepsOfTurn = 2
  /\ pc = "polled" => StepsOfTurn = IF Misled THEN 5 ELSE 1
  /\ pc = "done" => StepsOfTurn = 0
  /\ pc' = "loop" => StepsOfTurn' = IF pollResult' = 0 THEN 1 ELSE 3
  /\ pc' = "polling" => StepsOfTurn' = 2
  /\ pc' = "polled" => StepsOfTurn' = IF Misled' THEN 5 ELSE 1
  /\ pc' = "done" => StepsOfTurn' = 0
BY DEF StepsOfTurn

\* No more connections arrive than the bound of the model lets in.
ConnsBounded == Len(peerOf) =< MaxConns

\* ConnsBounded holds in every reachable state.
LEMMA ConnsCorrect == Spec => []ConnsBounded
<1>1. Init => ConnsBounded
  BY AcceptorAssumption DEF Init, ConnsBounded
<1>2. TypeOK /\ ConnsBounded /\ [Next]_vars => ConnsBounded'
  <2> SUFFICES ASSUME TypeOK, ConnsBounded, [Next]_vars PROVE ConnsBounded'
    OBVIOUS
  <2>1. CASE \E address \in Addresses : Connect(address)
    BY <2>1, AcceptorAssumption DEF Connect, ConnsBounded, TypeOK
  <2>2. CASE UNCHANGED peerOf
    BY <2>2 DEF ConnsBounded
  <2> QED
    BY <2>1, <2>2
    DEF Next, AcceptorStep, KernelFault, FromTcpClient, DestroyClient, LoopTest, PollReady,
        PollTimesOut, Accept, AcceptAgain, PollInterrupted, PollFails, AcceptFails, GiveUp, Tick,
        vars, network
<1> QED
  BY <1>1, <1>2, TypeCorrect, PTL DEF Spec

\* The measure is a number in every reachable state.
LEMMA RankType == TypeOK /\ ConnsBounded => StepsOfTurn \in 0..5 /\ Rank \in Nat
<1> SUFFICES ASSUME TypeOK, ConnsBounded PROVE StepsOfTurn \in 0..5 /\ Rank \in Nat
  OBVIOUS
<1>1. StepsOfTurn \in 0..5
  BY TurnAt DEF TypeOK
<1>2. MaxConns - Len(peerOf) \in Nat /\ Len(backlog) \in Nat /\ faults \in Nat
  BY AcceptorAssumption DEF TypeOK, ConnsBounded
<1> QED
  BY <1>1, <1>2 DEF Rank

\* Whatever the wait does takes it to another place.
LEMMA StepMoves == FromTcpClient \/ AcceptorStep \/ KernelFault => pc' # pc
BY DEF FromTcpClient, AcceptorStep, KernelFault, LoopTest, PollReady, PollTimesOut, Accept,
       AcceptAgain, PollInterrupted, PollFails, AcceptFails, Return, Continue

\* The loop turns at most twice for each connection and each fault: whoever
\* connects and gives up again, the wait never spins.
THEOREM WaitNeverSpins ==
  Spec => TurnsAreBounded /\ [](Rank \in 0..(8 * MaxConns + 8 * MaxFaults + 4))
<1> DEFINE Steady  == /\ Rank' =< Rank
                      /\ FromTcpClient \/ AcceptorStep \/ KernelFault => Rank' < Rank
           Bounded == Rank =< 8 * MaxConns + 8 * MaxFaults + 4
           Natural == Rank \in Nat
<1>1. Init => Bounded
  BY AcceptorAssumption DEF Init, Rank, StepsOfTurn
<1>2. TypeOK /\ [Next]_vars => Steady
  <2> SUFFICES ASSUME TypeOK, [Next]_vars PROVE Steady
    OBVIOUS
  <2> USE AcceptorAssumption, TurnAt
  <2>0. /\ MaxConns \in Int /\ Len(peerOf) \in Nat /\ faults \in Nat /\ Len(backlog) \in Nat
        /\ pc \in {"start", "loop", "polling", "polled", "done"}
    BY DEF TypeOK
  <2>1. CASE FromTcpClient \/ LoopTest \/ PollTimesOut
    <3>1. /\ UNCHANGED <<peerOf, backlog, faults>>
          /\ \/ pc = "start" /\ pc' \in {"loop", "done"}
             \/ pc = "loop" /\ (IF pollResult = 0 THEN pc' = "done" ELSE pc' = "polling")
             \/ pc = "polling" /\ pc' = "loop" /\ pollResult' = 0
      BY <2>1 DEF FromTcpClient, LoopTest, PollTimesOut, Return, Continue, network
    <3> QED
      BY <2>0, <3>1 DEF Rank
  <2>2. CASE PollReady
    <3>1. /\ pc = "polling" /\ pc' = "polled" /\ UNCHANGED <<peerOf, backlog>>
          /\ (backlog # <<>> /\ faults' = faults) \/ faults' = faults - 1
      BY <2>2 DEF PollReady, Fault, network
    <3> QED
      BY <2>0, <3>1 DEF Rank, Misled
  <2>3. CASE KernelFault
    <3>1. /\ pc \in {"polling", "polled"} /\ pc' \in {"loop", "done"}
          /\ UNCHANGED <<peerOf, backlog>> /\ faults' = faults - 1
      BY <2>3 DEF KernelFault, PollInterrupted, PollFails, AcceptFails, Fault, Return, Continue, network
    <3> QED
      BY <2>0, <3>1 DEF Rank
  <2>4. CASE Accept
    <3>1. /\ pc = "polled" /\ pc' = "done" /\ UNCHANGED <<peerOf, faults>>
          /\ Len(backlog') = Len(backlog) - 1
      BY <2>4 DEF Accept, Return, TypeOK
    <3> QED
      BY <2>0, <3>1 DEF Rank
  <2>5. CASE AcceptAgain
    <3>1. /\ pc = "polled" /\ pc' = "loop" /\ UNCHANGED <<peerOf, backlog>>
          /\ (Misled /\ faults' = faults) \/ faults' = faults - 1
      BY <2>5 DEF AcceptAgain, Continue, Fault, Misled, network
    <3> QED
      BY <2>0, <3>1 DEF Rank
  <2>6. CASE GiveUp \/ \E address \in Addresses : Connect(address)
    <3>1. /\ UNCHANGED <<pc, pollResult, faults>> /\ pc \in {"loop", "polling", "polled"}
          /\ \/ Len(backlog') = Len(backlog) - 1 /\ peerOf' = peerOf
             \/ /\ backlog' # <<>>
                /\ Len(backlog') = Len(backlog) + 1 /\ Len(peerOf') = Len(peerOf) + 1
      BY <2>6 DEF GiveUp, Connect, Waiting, loop, TypeOK
    <3>2. Rank' =< Rank
      BY <2>0, <3>1 DEF Rank, Misled
    <3> QED
      BY <3>1, <3>2, StepMoves
  <2>7. CASE DestroyClient \/ Tick \/ UNCHANGED vars
    <3>1. UNCHANGED <<pc, pollResult, peerOf, backlog, faults>>
      BY <2>7 DEF DestroyClient, Tick, vars, loop, network
    <3>2. StepsOfTurn' = StepsOfTurn /\ StepsOfTurn \in Int
      BY <2>0, <3>1 DEF StepsOfTurn, Misled
    <3>3. Rank' =< Rank
      BY <2>0, <3>1, <3>2 DEF Rank
    <3> QED
      BY <3>1, <3>3, StepMoves
  <2> QED
    BY <2>1, <2>2, <2>3, <2>4, <2>5, <2>6, <2>7 DEF Next, AcceptorStep
<1>3. Natural /\ Natural' /\ Bounded /\ Steady => Bounded'
  <2>1. 8 * MaxConns + 8 * MaxFaults + 4 \in Nat
    BY AcceptorAssumption
  <2> HIDE DEF Rank
  <2> QED
    BY <2>1
<1>4. TypeOK /\ ConnsBounded => Natural
  BY RankType
<1>5. Natural /\ Bounded => Rank \in 0..(8 * MaxConns + 8 * MaxFaults + 4)
  BY AcceptorAssumption
<1> QED
  BY <1>1, <1>2, <1>3, <1>4, <1>5, TypeCorrect, ConnsCorrect, PTL DEF Spec, TurnsAreBounded

---------------------------------------------------------------------------
(* Reasons.                                                                *)

\* The wait ends in nothing it cannot account for: an address mismatch needs a
\* stranger that connected, a system error a failed call or a listening socket
\* that could not be made.
ReasonOfResult ==
  /\ (result = "none") = (pc # "done")
  /\ result = "PeerAddressMismatchError" => \E k \in 1..Len(peerOf) : peerOf[k] # Expected
  /\ result = "SystemError" => acceptorFd = Moved \/ faults < MaxFaults

\* The host may believe what it is told about the peer it waited for.
THEOREM ResultHasItsReason == Spec => []ReasonOfResult
<1> DEFINE Inv == ReasonOfResult /\ faults =< MaxFaults /\ (pc = "start" => acceptorFd = Moved)
<1>1. Init => Inv
  BY AcceptorAssumption DEF Init, ReasonOfResult
<1>2. TypeOK /\ Inv /\ [Next]_vars => Inv'
  <2> SUFFICES ASSUME TypeOK, Inv, [Next]_vars PROVE Inv'
    OBVIOUS
  <2> USE AcceptorAssumption
  <2>1. CASE FromTcpClient
    BY <2>1 DEF FromTcpClient, ReasonOfResult
  <2>2. CASE LoopTest \/ PollTimesOut \/ PollReady \/ PollInterrupted \/ AcceptAgain
    <3>1. /\ pc \in {"loop", "polling", "polled"}
          /\ UNCHANGED <<acceptorFd, peerOf>> /\ faults' =< faults
          /\ \/ pc' = "done" /\ result' = "Timeout"
             \/ pc' \in {"loop", "polling", "polled"} /\ result' = result
      BY <2>2 DEF LoopTest, PollTimesOut, PollReady, PollInterrupted, AcceptAgain, Fault, Return,
                  Continue, objects, network, TypeOK
    <3>2. faults \in Nat /\ faults' \in Int
      BY <2>2 DEF LoopTest, PollTimesOut, PollReady, PollInterrupted, AcceptAgain, Fault, TypeOK
    <3> QED
      BY <3>1, <3>2 DEF ReasonOfResult
  <2>3. CASE PollFails \/ AcceptFails
    BY <2>3 DEF PollFails, AcceptFails, Fault, Return, ReasonOfResult, TypeOK, objects, network
  <2>4. CASE Accept
    <3>1. Head(backlog) \in 1..Len(peerOf)
      BY <2>4, HeadArrived DEF Accept
    <3> QED
      BY <2>4, <3>1 DEF Accept, Return, ReasonOfResult, objects
  <2>5. CASE \E address \in Addresses : Connect(address)
    <3>1. UNCHANGED <<pc, result, acceptorFd, faults>> /\ pc # "done"
      BY <2>5 DEF Connect, Waiting, objects
    <3> QED
      BY <3>1 DEF ReasonOfResult
  <2>6. CASE DestroyClient \/ GiveUp \/ Tick \/ UNCHANGED vars
    BY <2>6 DEF DestroyClient, GiveUp, Tick, ReasonOfResult, vars, objects, network
  <2> QED
    BY <2>1, <2>2, <2>3, <2>4, <2>5, <2>6 DEF Next, AcceptorStep, KernelFault
<1> QED
  BY <1>1, <1>2, TypeCorrect, PTL DEF Spec

=============================================================================
