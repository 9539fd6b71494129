---------------------------- MODULE TcpAcceptor ----------------------------
(***************************************************************************)
(* The host's side of the peer connection (client/tcp_acceptor): the       *)
(* socket of a TcpClient becomes a listening socket (FromTcpClient), then  *)
(* AcceptExpectedPeer waits for one peer with a deadline.                  *)
(*                                                                         *)
(* Descriptors: Listener is the socket the TcpClient was created with, a   *)
(* positive number the k-th connection that arrived at it. A descriptor is *)
(* closed by the destructor of a TcpClient that still holds it; a moved-   *)
(* from TcpClient holds Moved (-1) instead, and TcpAcceptor has no         *)
(* destructor.                                                             *)
(*                                                                         *)
(* Strangers and the expected peer connect at any moment, and may give up  *)
(* between the poll() that announced them and the accept4() that would     *)
(* have returned them. A listening socket that nobody shuts down reports   *)
(* neither POLLERR nor POLLHUP, so those branches have no action here.     *)
(***************************************************************************)
EXTENDS Timer, Sequences, FiniteSets

CONSTANTS Addresses, Expected,  \* peers' addresses; expectedPeerAddress
          Timeout,              \* in milliseconds
          MaxConns,             \* bound: connections that arrive
          MaxFaults,            \* bound: interrupted and failing calls
          MaxNow                \* bound: ticks, the waits in poll() apart

ASSUME AcceptorAssumption ==
  /\ Expected \in Addresses
  /\ Timeout \in Nat /\ MaxConns \in Nat /\ MaxFaults \in Nat /\ MaxNow \in Nat
  /\ Timeout =< MaxInt  \* so that poll() waits for what is left

Listener == 0
Moved == -1

VARIABLES
  pc,          \* "start", "loop", "polling", "polled", "done"
  clientFd,    \* SockFd_ of the TcpClient handed to FromTcpClient
  clientAlive, \* its destructor has not run yet
  acceptorFd,  \* SockFd_ of the TcpAcceptor
  open,        \* open descriptors
  peerOf,      \* address of the k-th connection
  backlog,     \* connections waiting for accept4(), in order
  pollResult, remaining, wakeAt,  \* of the loop in AcceptExpectedPeer
  result, resultFd,               \* what it returned
  now, faults

objects == <<clientFd, clientAlive, acceptorFd>>
network == <<peerOf, backlog>>
loop    == <<pollResult, remaining, wakeAt>>
vars    == <<pc, objects, open, network, loop, result, resultFd, now, faults>>

---------------------------------------------------------------------------
(* FromTcpClient and the destructor of the TcpClient it was given.         *)

\* Mutant: the TcpClient keeps the descriptor it gave away.
FromTcpClientKeeps ==
  /\ pc = "start"
  /\ acceptorFd' = clientFd /\ pc' = "loop"
  /\ UNCHANGED <<clientFd, clientAlive, result, open, network, loop, resultFd, now, faults>>

\* Disconnect() or listen() may fail: the TcpClient keeps its descriptor.
FromTcpClient ==
  /\ pc = "start"
  /\ \/ /\ acceptorFd' = clientFd /\ clientFd' = Moved
        /\ pc' = "loop" /\ UNCHANGED result
     \/ /\ pc' = "done" /\ result' = "SystemError"
        /\ UNCHANGED <<clientFd, acceptorFd>>
  /\ UNCHANGED <<clientAlive, open, network, loop, resultFd, now, faults>>

\* ~TcpClient, whenever the caller lets go of the object.
DestroyClient ==
  /\ clientAlive /\ pc # "start"
  /\ clientAlive' = FALSE
  /\ open' = IF clientFd = Moved THEN open ELSE open \ {clientFd}
  /\ UNCHANGED <<pc, clientFd, acceptorFd, network, loop, result, resultFd, now, faults>>

---------------------------------------------------------------------------
(* AcceptExpectedPeer.                                                     *)

Return(what, fd) ==
  /\ pc' = "done"
  /\ result' = what /\ resultFd' = fd
  /\ UNCHANGED loop

\* `continue` and the end of the body both run the increment of the for.
Continue(poll) ==
  /\ pc' = "loop"
  /\ pollResult' = poll
  /\ remaining' = CalcRemainingTime(Timeout, now)
  /\ UNCHANGED <<wakeAt, result, resultFd>>

Fault == faults > 0 /\ faults' = faults - 1

\* Mutant: the loop tests a pollResult that the body shadows.
LoopTestShadowed ==
  /\ pc = "loop"
  /\ pc' = "polling"
  /\ wakeAt' = now + remaining * TicksPerMs
  /\ UNCHANGED <<pollResult, remaining, result, resultFd>>
  /\ UNCHANGED <<objects, open, network, now, faults>>

\* The condition of the for: a poll() that timed out ends the loop.
LoopTest ==
  /\ pc = "loop"
  /\ IF pollResult = 0
     THEN Return("Timeout", Moved)
     ELSE /\ pc' = "polling"
          /\ wakeAt' = now + remaining * TicksPerMs
          /\ UNCHANGED <<pollResult, remaining, result, resultFd>>
  /\ UNCHANGED <<objects, open, network, now, faults>>

PollReady ==
  /\ pc = "polling" /\ acceptorFd \in open
  /\ \/ backlog # <<>> /\ UNCHANGED faults
     \/ Fault   \* reported, but gone before anyone could see it
  /\ pc' = "polled" /\ pollResult' = 1
  /\ UNCHANGED <<objects, open, network, remaining, wakeAt, result, resultFd, now>>

PollTimesOut ==
  /\ pc = "polling" /\ now >= wakeAt /\ backlog = <<>>
  /\ Continue(0)
  /\ UNCHANGED <<objects, open, network, now, faults>>

PollInterrupted ==
  /\ pc = "polling" /\ Fault
  /\ Continue(-1)
  /\ UNCHANGED <<objects, open, network, now>>

PollFails ==
  /\ pc = "polling" /\ Fault
  /\ Return("SystemError", Moved)
  /\ UNCHANGED <<objects, open, network, now>>

\* Mutant: accept4() is trusted to return the peer that was waited for.
AcceptAnyone ==
  /\ pc = "polled" /\ backlog # <<>>
  /\ backlog' = Tail(backlog)
  /\ Return("TcpClient", Head(backlog))
  /\ open' = open \cup {Head(backlog)}
  /\ UNCHANGED <<objects, peerOf, now, faults>>

\* accept4() returns the oldest connection; a stranger's is closed at once,
\* and ends the wait.
Accept ==
  /\ pc = "polled" /\ backlog # <<>>
  /\ backlog' = Tail(backlog)
  /\ LET fd == Head(backlog)
     IN  IF peerOf[fd] = Expected
         THEN Return("TcpClient", fd) /\ open' = open \cup {fd}
         ELSE Return("PeerAddressMismatchError", Moved) /\ UNCHANGED open
  /\ UNCHANGED <<objects, peerOf, now, faults>>

\* EAGAIN when the connection is gone, EINTR at any time.
AcceptAgain ==
  /\ pc = "polled"
  /\ (backlog = <<>> /\ UNCHANGED faults) \/ Fault
  /\ Continue(1)
  /\ UNCHANGED <<objects, open, network, now>>

\* Any other errno, ECONNABORTED and EMFILE included, ends the wait.
AcceptFails ==
  /\ pc = "polled" /\ Fault
  /\ Return("SystemError", Moved)
  /\ UNCHANGED <<objects, open, network, now>>

AcceptorStep ==
  \/ LoopTest \/ PollReady \/ PollTimesOut
  \/ Accept \/ AcceptAgain

KernelFault == PollInterrupted \/ PollFails \/ AcceptFails

---------------------------------------------------------------------------
(* Peers and the clock.                                                    *)

Waiting == pc \in {"loop", "polling", "polled"}

Connect(address) ==
  /\ Waiting /\ Len(peerOf) < MaxConns
  /\ peerOf' = Append(peerOf, address)
  /\ backlog' = Append(backlog, Len(peerOf'))
  /\ UNCHANGED <<pc, objects, open, loop, result, resultFd, now, faults>>

\* The oldest waiting connection is torn down before it was accepted.
GiveUp ==
  /\ Waiting /\ backlog # <<>>
  /\ backlog' = Tail(backlog)
  /\ UNCHANGED <<pc, objects, open, peerOf, loop, result, resultFd, now, faults>>

Tick ==
  /\ Waiting
  /\ now < MaxNow \/ (pc = "polling" /\ now < wakeAt)
  /\ now' = now + 1
  /\ UNCHANGED <<pc, objects, open, network, loop, result, resultFd, faults>>

---------------------------------------------------------------------------

Init ==
  /\ pc = "start"
  /\ clientFd = Listener /\ clientAlive = TRUE /\ acceptorFd = Moved
  /\ open = {Listener}
  /\ peerOf = <<>> /\ backlog = <<>>
  /\ pollResult = -1 /\ remaining = Timeout /\ wakeAt = 0
  /\ result = "none" /\ resultFd = Moved
  /\ now = 0 /\ faults = MaxFaults

Next ==
  \/ FromTcpClient \/ DestroyClient
  \/ AcceptorStep \/ KernelFault
  \/ \E address \in Addresses : Connect(address)
  \/ GiveUp \/ Tick

\* The waiting thread is scheduled.
Spec == Init /\ [][Next]_vars /\ WF_vars(AcceptorStep)

---------------------------------------------------------------------------
(* Properties.                                                             *)

Results == {"none", "TcpClient", "Timeout", "SystemError", "PeerAddressMismatchError"}

\* Every variable has its type.
TypeOK ==
  /\ pc \in {"start", "loop", "polling", "polled", "done"}
  /\ clientFd \in {Listener, Moved} /\ acceptorFd \in {Listener, Moved}
  /\ clientAlive \in BOOLEAN
  /\ open \subseteq Nat
  /\ peerOf \in Seq(Addresses)
  /\ backlog \in Seq(Nat \ {0})
  /\ \A i \in 1..Len(backlog) : backlog[i] =< Len(peerOf)
  /\ pollResult \in {-1, 0, 1} /\ remaining \in 0..Timeout /\ wakeAt \in Nat
  /\ result \in Results /\ resultFd \in Int
  /\ now \in Nat /\ faults \in Nat

\* The only connection ever handed to the game is the expected peer's, and it
\* is open; a stranger is never taken for the peer, whoever connects first.
OnlyExpectedPeer ==
  result = "TcpClient"
    => resultFd \in 1..Len(peerOf) /\ peerOf[resultFd] = Expected /\ resultFd \in open

\* However the wait ends, the only connection left open is the one it returned.
\* The listening socket of a TcpAcceptor is open under the wait, where the
\* destructor of the TcpClient it came from may run at any moment; and it stays
\* open after it, since TcpAcceptor has no destructor.
DescriptorsAccounted ==
  /\ open \ {Listener} \subseteq {resultFd}
  /\ Waiting => acceptorFd = Listener
  /\ acceptorFd = Listener => Listener \in open

\* Timeout is never returned before the whole timeout has passed.
NoEarlyTimeout == result = "Timeout" => now >= Timeout * TicksPerMs

\* If time passes the wait ends, also when nobody ever connects.
WaitEnds == WF_vars(Tick) => (Waiting ~> pc = "done")

=============================================================================
