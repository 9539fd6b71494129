----------------------------- MODULE TcpClient -----------------------------
(***************************************************************************)
(* The client's one socket (client/tcp_client.cpp): who owns it, which     *)
(* port it has and what it is connected to, from CreateNew to the          *)
(* TcpAcceptor it becomes on the host. The kernel's rules are those of     *)
(* Linux: a port given to bind() stays with the socket, a port chosen by   *)
(* connect() is released by connect(AF_UNSPEC).                            *)
(*                                                                         *)
(* creation names what CreateNew did for the process:                      *)
(*   "unbound"    CreateNew<IpAddrType>(), a socket and nothing else;      *)
(*   "connected"  CreateNew(clientEndpoint) as written: the endpoint is    *)
(*                connected to;                                            *)
(*   "bound"      CreateNew(clientEndpoint) as its parameter says: the     *)
(*                endpoint is bound.                                       *)
(***************************************************************************)
EXTENDS Naturals

CONSTANTS Own,        \* the port of clientEndpoint
          Ephemeral,  \* ports the kernel chooses from
          NoPort
ASSUME PortsAssumption == Own \notin Ephemeral /\ NoPort \notin Ephemeral \cup {Own}

VARIABLES
  creation,
  pc,    \* the call the process is in; "received": between two calls, with the
         \* answer read; "hosting": the socket belongs to a TcpAcceptor;
         \* "failed": a call gave up; "exited"
  held,  \* the objects whose SockFd_ is the socket: the local TcpClient of
         \* "CreateNew", that of "main", the "TcpAcceptor"
  open,  \* the descriptor is open
  port,  \* the local port of the socket
  conn   \* "none", "elsewhere", to the server "up", or "down" again

clientVars == <<creation, pc, held, open, port, conn>>

\* Mutant: the object moved from keeps the descriptor.
MoveKeeps(from, to) == held' = held \cup {to}

Move(from, to) == held' = (held \ {from}) \cup {to}

\* socket(), in CreateNew<IpAddrType>().
Create ==
  /\ pc = "socket"
  /\ \/ pc' = "endpoint" /\ held' = {"CreateNew"} /\ open' = TRUE
     \/ pc' = "failed" /\ UNCHANGED <<held, open>>
  /\ UNCHANGED <<creation, port, conn>>

\* Mutant: a clientEndpoint that is neither bound nor connected to.
CreateNewEndsUnbound ==
  /\ pc = "endpoint" /\ pc' = "connect"
  /\ Move("CreateNew", "main") /\ open' = ("CreateNew" \notin held')
  /\ UNCHANGED <<creation, port, conn>>

\* The rest of CreateNew(clientEndpoint). What is left of the local TcpClient
\* is destroyed, which closes the descriptor unless it was moved away.
CreateNewEnds ==
  /\ pc = "endpoint"
  /\ \/ /\ pc' = "connect" /\ Move("CreateNew", "main")
        /\ open' = ("CreateNew" \notin held')
        /\ CASE creation = "unbound"   -> UNCHANGED <<port, conn>>
             [] creation = "connected" -> port' \in Ephemeral /\ conn' = "elsewhere"
             [] creation = "bound"     -> port' = Own /\ UNCHANGED conn
     \/ /\ creation # "unbound"
        /\ pc' = "failed" /\ held' = {} /\ open' = FALSE
        /\ UNCHANGED <<port, conn>>
  /\ UNCHANGED creation

\* connect() to the server: established at once; or EINPROGRESS, a failure to
\* the caller, with a connection the kernel may establish all the same; or
\* refused; EISCONN for a socket that is connected.
Connect ==
  /\ pc = "connect"
  /\ \/ /\ conn = "none"
        /\ pc' \in {"send", "failed"} /\ conn' = "up"
        /\ IF port = NoPort THEN port' \in Ephemeral ELSE UNCHANGED port
     \/ pc' = "failed" /\ UNCHANGED <<port, conn>>
  /\ UNCHANGED <<creation, held, open>>

\* Every alternative but OnSuccess is a failure to the handlers.
SendReturns(result) ==
  /\ pc = "send" /\ pc' = IF result = "OnSuccess" THEN "receive" ELSE "failed"
  /\ UNCHANGED <<creation, held, open, port, conn>>

ReceiveReturns(result) ==
  /\ pc = "receive" /\ pc' = IF result = "OnSuccess" THEN "received" ELSE "failed"
  /\ UNCHANGED <<creation, held, open, port, conn>>

\* TcpAcceptor::FromTcpClient, its first half.
Disconnect ==
  /\ pc = "received"
  /\ \/ /\ pc' = "disconnected" /\ conn' = "none"
        /\ port' = IF creation = "bound" THEN port ELSE NoPort
     \/ pc' = "failed" /\ UNCHANGED <<conn, port>>
  /\ UNCHANGED <<creation, held, open>>

\* TcpAcceptor::FromTcpClient, its second half: listen() chooses a port for a
\* socket without one.
ListenAsHost ==
  /\ pc = "disconnected"
  /\ \/ /\ pc' = "hosting" /\ Move("main", "TcpAcceptor")
        /\ IF port = NoPort THEN port' \in Ephemeral ELSE UNCHANGED port
     \/ pc' = "failed" /\ UNCHANGED <<held, port>>
  /\ UNCHANGED <<creation, open, conn>>

ProcessEnds ==
  /\ pc' = "exited" /\ held' = {} /\ open' = FALSE /\ port' = NoPort
  /\ conn' = IF conn = "up" THEN "down" ELSE conn
  /\ UNCHANGED creation

\* LogErrorAndExit; the kernel closes what is open.
Exit == pc = "failed" /\ ProcessEnds

\* SIGPIPE, which nothing ignores.
Killed == pc = "send" /\ conn = "down" /\ ProcessEnds

ClientInit ==
  /\ creation \in {"unbound", "connected", "bound"}
  /\ pc = "socket" /\ held = {} /\ open = FALSE
  /\ port = NoPort /\ conn = "none"

=============================================================================
