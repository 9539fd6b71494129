-------------------------------- MODULE Link --------------------------------
(***************************************************************************)
(* One client process, the server process it connects to and a stranger    *)
(* that may connect first: from the first socket() of each to the host     *)
(* that listens where the server saw it. The request and its answer are    *)
(* Streams. The loop that would serve the accepted connection is not in    *)
(* the repository (Serve): it may read the request whole, then answer.     *)
(***************************************************************************)
EXTENDS TcpClient, TcpServer

CONSTANTS RequestSize, AnswerSize,
          MaxStrangers  \* bound: connections of strangers
ASSUME LinkAssumption ==
  RequestSize \in Nat /\ AnswerSize \in Nat /\ MaxStrangers \in Nat

VARIABLES sent, sender, got, receiver,          \* the request
          replied, replier, heard, hearer,      \* the answer
          strangers

request == <<sent, sender, got, receiver>>
answer  == <<replied, replier, heard, hearer>>
vars    == <<clientVars, serverVars, request, answer, strangers>>

Request == INSTANCE Stream WITH Size <- RequestSize
Answer == INSTANCE Stream WITH Size <- AnswerSize,
                               sent <- replied, sender <- replier, got <- heard, receiver <- hearer

---------------------------------------------------------------------------

Connecting ==
  /\ Connect
  /\ IF conn' = "up" /\ conn = "none" THEN Arrive("client", port') ELSE UNCHANGED serverVars
  /\ UNCHANGED <<request, answer, strangers>>

Sending ==
  /\ pc = "send"
  /\ \/ Request!Write /\ UNCHANGED clientVars
     \/ Request!SendReturns /\ SendReturns(sender')
  /\ UNCHANGED <<serverVars, answer, strangers>>

\* Mutant: Receive has no deadline of its own.
ReceivingForEver ==
  /\ pc = "receive"
  /\ \/ Answer!Read /\ UNCHANGED clientVars
     \/ /\ heard = AnswerSize \/ conn = "down"
        /\ Answer!ReceiveReturns /\ ReceiveReturns(hearer')
  /\ UNCHANGED <<serverVars, request, strangers>>

Receiving ==
  /\ pc = "receive"
  /\ \/ Answer!Read /\ UNCHANGED clientVars
     \/ Answer!ReceiveReturns /\ ReceiveReturns(hearer')
  /\ UNCHANGED <<serverVars, request, strangers>>

ClientAlone == Create \/ CreateNewEnds \/ Exit \/ Killed

\* main() of the client, up to the answer.
ClientStep ==
  \/ ClientAlone /\ UNCHANGED <<serverVars, request, answer, strangers>>
  \/ Connecting \/ Sending \/ Receiving

\* The host turns its socket into a listening one.
HostStep ==
  /\ Disconnect \/ ListenAsHost
  /\ UNCHANGED <<serverVars, request, answer, strangers>>

\* A connection to the server does not outlive it.
ServerRuns ==
  /\ ServerStep
  /\ conn' = IF spc' = "done" /\ conn = "up" THEN "down" ELSE conn
  /\ UNCHANGED <<creation, pc, held, open, port, request, answer, strangers>>

Serve ==
  /\ spc = "accepted" /\ accepted.who = "client"
  /\ \/ (Request!Read \/ Request!ReceiveReturns) /\ UNCHANGED answer
     \/ /\ receiver = "OnSuccess"
        /\ Answer!Write \/ Answer!SendReturns
        /\ UNCHANGED request
  /\ UNCHANGED <<clientVars, serverVars, strangers>>

StrangerConnects ==
  /\ strangers < MaxStrangers /\ strangers' = strangers + 1
  /\ Arrive("stranger", NoPort)
  /\ UNCHANGED <<clientVars, request, answer>>

Init ==
  /\ ClientInit /\ ServerInit /\ Request!Init /\ Answer!Init
  /\ strangers = 0

Next == ClientStep \/ HostStep \/ ServerRuns \/ Serve \/ StrangerConnects

\* The client's process is scheduled; nothing is assumed of the server, and the
\* host goes on as it pleases.
Spec == Init /\ [][Next]_vars /\ WF_vars(ClientStep)

---------------------------------------------------------------------------
(* Properties.                                                             *)

Results == {"none", "OnSuccess", "Failed"}

\* Every variable has its type.
TypeOK ==
  /\ creation \in {"unbound", "connected", "bound"}
  /\ pc \in {"socket", "endpoint", "connect", "send", "receive", "received",
             "disconnected", "hosting", "failed", "exited"}
  /\ held \subseteq {"CreateNew", "main", "TcpAcceptor"} /\ open \in BOOLEAN
  /\ port \in Ephemeral \cup {Own, NoPort}
  /\ conn \in {"none", "elsewhere", "up", "down"}
  /\ spc \in {"socket", "bind", "listen", "accept", "accepted", "done"}
  /\ sheld \subseteq {"CreateNew", "main"} /\ sopen \in BOOLEAN
  /\ queue \in Seq([who : {"client", "stranger"}, port : Ephemeral \cup {Own, NoPort}])
  /\ Len(queue) =< Backlog
  /\ accepted \in [who : {"client", "stranger"}, port : Ephemeral \cup {Own, NoPort}]
                    \cup {NoClient}
  /\ {sent, got} \subseteq 0..RequestSize /\ {replied, heard} \subseteq 0..AnswerSize
  /\ {sender, receiver, replier, hearer} \subseteq Results
  /\ strangers \in 0..MaxStrangers

\* In both processes a descriptor is open exactly as long as one object owns
\* it: no move out of CreateNew or into the TcpAcceptor leaves two owners, no
\* failure on the way leaves it open without one, no destructor closes it early.
DescriptorsOwned ==
  /\ Cardinality(held) =< 1 /\ (open <=> held # {})
  /\ Cardinality(sheld) =< 1 /\ (sopen <=> sheld # {})

\* The port the server accepted a client from is the one it announces to the
\* guest: it is where the client listens as a host, after Disconnect and
\* listen(), if CreateNew bound it. As written, no client is ever accepted.
SeenWhereItIs ==
  accepted.who = "client" =>
    /\ creation # "connected"
    /\ creation = "bound" /\ open => port = accepted.port

\* Nobody serves a request whose sender was told that it was not sent, nor
\* reads an answer that the server failed to write.
KeepsPromise == Request!KeepsPromise /\ Answer!KeepsPromise

\* Whoever connects first, whether the server answers, fails or hangs: the
\* client ends or has its answer. A server that somebody connected to and that
\* is scheduled ends.
BothReturn ==
  /\ <>(pc \in {"received", "disconnected", "hosting", "exited"})
  /\ WF_vars(ServerRuns) => (queue # <<>> ~> spc = "done")

=============================================================================
