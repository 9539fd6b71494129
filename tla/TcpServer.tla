----------------------------- MODULE TcpServer -----------------------------
(***************************************************************************)
(* The central server as server/main.cpp and server/tcp_server.cpp have    *)
(* it: one listening socket, one accepted connection, then the end.        *)
(* accept4() that would block is a turn of the loop that changes nothing.  *)
(* What happens on the accepted connection is not in the repository.       *)
(***************************************************************************)
EXTENDS Naturals, Sequences, FiniteSets

CONSTANT Backlog  \* 128 in the program
ASSUME BacklogAssumption == Backlog \in Nat

VARIABLES
  spc,       \* "socket", "bind", "listen", "accept", "accepted", "done"
  sheld,     \* the TcpServer objects whose ListeningSockFd_ is the socket:
             \* the local one of "CreateNew" and the one of "main"
  sopen,     \* the listening descriptor is open
  queue,     \* established connections not yet accepted: who and from which port
  accepted   \* ClientId of the connection taken, a descriptor nobody closes

serverVars == <<spc, sheld, sopen, queue, accepted>>

NoClient == [who |-> "none"]

\* The process ends, by a return from main() or by LogErrorAndExit; the
\* kernel resets what was connected.
ServerEnds ==
  /\ spc' = "done" /\ sheld' = {} /\ sopen' = FALSE /\ queue' = <<>>
  /\ UNCHANGED accepted

\* CreateNew returns its local server by move and destroys what is left of it.
MoveServer ==
  /\ sheld' = (sheld \ {"CreateNew"}) \cup {"main"}
  /\ sopen' = ("CreateNew" \notin sheld')

\* The address may not be one, and socket() may fail.
Socket ==
  /\ spc = "socket"
  /\ \/ /\ spc' = "bind" /\ sheld' = {"CreateNew"} /\ sopen' = TRUE
        /\ UNCHANGED <<queue, accepted>>
     \/ ServerEnds

Bind ==
  /\ spc = "bind"
  /\ \/ /\ spc' = "listen" /\ MoveServer
        /\ UNCHANGED <<queue, accepted>>
     \/ ServerEnds

Listen ==
  /\ spc = "listen"
  /\ \/ spc' = "accept" /\ UNCHANGED <<sheld, sopen, queue, accepted>>
     \/ ServerEnds

\* Mutant: the -1 of accept4() is taken for a client.
AcceptUnchecked ==
  /\ spc = "accept" /\ spc' = "accepted"
  /\ accepted' = IF queue = <<>> THEN [who |-> "nobody"] ELSE Head(queue)
  /\ queue' = IF queue = <<>> THEN queue ELSE Tail(queue)
  /\ UNCHANGED <<sheld, sopen>>

\* A connection from the backlog stops the loop, whoever it is from.
Accept ==
  /\ spc = "accept" /\ queue # <<>>
  /\ spc' = "accepted"
  /\ accepted' = Head(queue) /\ queue' = Tail(queue)
  /\ UNCHANGED <<sheld, sopen>>

\* Any errno but EAGAIN, ECONNABORTED and EINTR included.
AcceptFails == spc = "accept" /\ ServerEnds

Return == spc = "accepted" /\ ServerEnds

ServerStep == Socket \/ Bind \/ Listen \/ Accept \/ AcceptFails \/ Return

\* The kernel completes a handshake while the socket listens.
Arrive(who, port) ==
  /\ spc \in {"accept", "accepted"} /\ Len(queue) < Backlog
  /\ queue' = Append(queue, [who |-> who, port |-> port])
  /\ UNCHANGED <<spc, sheld, sopen, accepted>>

ServerInit ==
  /\ spc = "socket" /\ sheld = {} /\ sopen = FALSE
  /\ queue = <<>> /\ accepted = NoClient

=============================================================================
