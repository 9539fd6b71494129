---------------------------- MODULE Link_proofs ----------------------------
(***************************************************************************)
(* Proofs about Link, for every size of the request and the answer, every  *)
(* backlog, set of ephemeral ports and number of strangers.                *)
(***************************************************************************)
EXTENDS Link, FiniteSetTheorems, TLAPS

---------------------------------------------------------------------------
(* A message between two ends that give up independently.                  *)

\* Bytes are received after they were sent; an end that returned knows all it
\* moved, and one that failed did not move everything.
StreamOK(size, s, sr, g, r) ==
  /\ s \in 0..size /\ g \in 0..s
  /\ sr \in Results /\ r \in Results
  /\ sr = "OnSuccess" => s = size
  /\ sr = "Failed" => s < size
  /\ r = "OnSuccess" => g = size

\* A step of the request keeps it well formed and is a step of the channel.
LEMMA RequestStep ==
  ASSUME StreamOK(RequestSize, sent, sender, got, receiver),
         [Request!Next]_request
  PROVE  /\ StreamOK(RequestSize, sent, sender, got, receiver)'
         /\ [Request!Channel!Next]_<<sender, receiver>>
<1> USE LinkAssumption DEF StreamOK, Results
<1>1. CASE Request!Write
  BY <1>1 DEF Request!Write, Request!Out!Move
<1>2. CASE Request!SendReturns
  BY <1>2 DEF Request!SendReturns, Request!Out!Succeed, Request!Out!Fail,
              Request!Channel!Next, Request!Channel!Send, Request!Channel!SendFails
<1>3. CASE Request!Read
  BY <1>3 DEF Request!Read, Request!In!Move
<1>4. CASE Request!ReceiveReturns
  BY <1>4 DEF Request!ReceiveReturns, Request!In!Succeed, Request!In!Fail,
              Request!Channel!Next, Request!Channel!Receive, Request!Channel!ReceiveFails
<1>5. CASE UNCHANGED request
  BY <1>5 DEF request
<1> QED
  BY <1>1, <1>2, <1>3, <1>4, <1>5 DEF Request!Next

\* A step of the answer keeps it well formed and is a step of the channel.
LEMMA AnswerStep ==
  ASSUME StreamOK(AnswerSize, replied, replier, heard, hearer),
         [Answer!Next]_answer
  PROVE  /\ StreamOK(AnswerSize, replied, replier, heard, hearer)'
         /\ [Answer!Channel!Next]_<<replier, hearer>>
<1> USE LinkAssumption DEF StreamOK, Results
<1>1. CASE Answer!Write
  BY <1>1 DEF Answer!Write, Answer!Out!Move
<1>2. CASE Answer!SendReturns
  BY <1>2 DEF Answer!SendReturns, Answer!Out!Succeed, Answer!Out!Fail,
              Answer!Channel!Next, Answer!Channel!Send, Answer!Channel!SendFails
<1>3. CASE Answer!Read
  BY <1>3 DEF Answer!Read, Answer!In!Move
<1>4. CASE Answer!ReceiveReturns
  BY <1>4 DEF Answer!ReceiveReturns, Answer!In!Succeed, Answer!In!Fail,
              Answer!Channel!Next, Answer!Channel!Receive, Answer!Channel!ReceiveFails
<1>5. CASE UNCHANGED answer
  BY <1>5 DEF answer
<1> QED
  BY <1>1, <1>2, <1>3, <1>4, <1>5 DEF Answer!Next

---------------------------------------------------------------------------
(* The client's socket.                                                    *)

\* At each call one object owns the descriptor; a socket that was bound has its
\* port ever after; one that CreateNew connected never is connected elsewhere.
ClientInv ==
  /\ creation \in {"unbound", "connected", "bound"}
  /\ port \in Ephemeral \cup {Own, NoPort}
  /\ conn \in {"none", "elsewhere", "up", "down"}
  /\ \/ pc = "socket" /\ held = {} /\ open = FALSE /\ conn = "none"
     \/ pc = "endpoint" /\ held = {"CreateNew"} /\ open = TRUE /\ conn = "none"
     \/ pc \in {"connect", "send", "receive", "received", "disconnected"}
        /\ held = {"main"} /\ open = TRUE
     \/ pc = "hosting" /\ held = {"TcpAcceptor"} /\ open = TRUE
     \/ pc = "failed" /\ <<held, open>> \in {<<{}, FALSE>>, <<{"main"}, TRUE>>}
     \/ pc = "exited" /\ held = {} /\ open = FALSE
  /\ creation = "bound" /\ open = TRUE /\ pc # "endpoint" => port = Own
  /\ creation = "connected" => conn \in {"none", "elsewhere"}
  /\ creation = "connected" /\ pc = "connect" => conn = "elsewhere"
  /\ creation = "connected" => pc \in {"socket", "endpoint", "connect", "failed", "exited"}

Begun == pc \notin {"socket", "endpoint"}

ClientActs ==
  \/ Create \/ CreateNewEnds \/ Connect \/ Disconnect \/ ListenAsHost \/ Exit \/ Killed
  \/ SendReturns(sender') \/ ReceiveReturns(hearer')

\* Every call of the client leaves its socket in order, and none goes back.
LEMMA ClientKeeps ==
  ASSUME ClientInv, ClientActs
  PROVE  ClientInv' /\ creation' = creation /\ (Begun => Begun')
<1> USE PortsAssumption DEF ClientInv, Begun
<1>1. CASE Create
  BY <1>1 DEF Create
<1>2. CASE CreateNewEnds
  <2>1. held = {"CreateNew"} /\ ({"CreateNew"} \ {"CreateNew"}) \cup {"main"} = {"main"}
    BY <1>2 DEF CreateNewEnds
  <2>2. CASE pc' = "failed"
    BY <1>2, <2>2 DEF CreateNewEnds
  <2>3. CASE pc' = "connect"
    <3>1. held' = {"main"} /\ open' = TRUE /\ creation' = creation
      BY <1>2, <2>1, <2>3 DEF CreateNewEnds, Move
    <3>2. CASE creation = "unbound"
      BY <1>2, <2>3, <3>1, <3>2 DEF CreateNewEnds
    <3>3. CASE creation = "connected"
      BY <1>2, <2>3, <3>1, <3>3 DEF CreateNewEnds
    <3>4. CASE creation = "bound"
      BY <1>2, <2>3, <3>1, <3>4 DEF CreateNewEnds
    <3> QED
      BY <3>2, <3>3, <3>4
  <2> QED
    BY <1>2, <2>2, <2>3 DEF CreateNewEnds
<1>3. CASE Connect
  BY <1>3 DEF Connect
<1>4. CASE Disconnect
  BY <1>4 DEF Disconnect
<1>5. CASE ListenAsHost
  <2>1. held = {"main"} /\ ({"main"} \ {"main"}) \cup {"TcpAcceptor"} = {"TcpAcceptor"}
    BY <1>5 DEF ListenAsHost
  <2> QED
    BY <1>5, <2>1 DEF ListenAsHost, Move
<1>6. CASE Exit \/ Killed
  BY <1>6 DEF Exit, Killed, ProcessEnds
<1>7. CASE SendReturns(sender')
  BY <1>7 DEF SendReturns
<1>8. CASE ReceiveReturns(hearer')
  BY <1>8 DEF ReceiveReturns
<1> QED
  BY <1>1, <1>2, <1>3, <1>4, <1>5, <1>6, <1>7, <1>8 DEF ClientActs

---------------------------------------------------------------------------
(* The server's sockets.                                                   *)

ClientIds == [who : {"client", "stranger"}, port : Ephemeral \cup {Own, NoPort}]

\* What the server may have seen of the client.
Known(id) ==
  id.who = "client" =>
    Begun /\ creation # "connected" /\ (creation = "bound" => id.port = Own)

ServerInv ==
  /\ \/ spc \in {"socket", "done"} /\ sheld = {} /\ sopen = FALSE
     \/ spc = "bind" /\ sheld = {"CreateNew"} /\ sopen = TRUE
     \/ spc \in {"listen", "accept", "accepted"} /\ sheld = {"main"} /\ sopen = TRUE
  /\ queue \in Seq(ClientIds) /\ Len(queue) =< Backlog
  /\ \A i \in 1..Len(queue) : Known(queue[i])
  /\ accepted \in ClientIds \cup {NoClient} /\ Known(accepted)

\* The server's own steps leave its sockets in order.
LEMMA ServerKeeps ==
  ASSUME ServerInv, ServerStep, Begun' = Begun, creation' = creation
  PROVE  ServerInv'
<1>0. ASSUME NEW id PROVE Known(id)' = Known(id)
  BY DEF Known
<1>1. CASE ServerEnds
  BY <1>0, <1>1, BacklogAssumption DEF ServerEnds, ServerInv, Known
<1>2. CASE Accept
  <2>1. queue \in Seq(ClientIds) /\ queue # <<>> /\ Len(queue) \in Nat /\ Len(queue) =< Backlog
    BY <1>2 DEF Accept, ServerInv
  <2>2. 1 \in 1..Len(queue) /\ Head(queue) = queue[1] /\ queue[1] \in ClientIds
    BY <2>1
  <2>3. /\ Tail(queue) \in Seq(ClientIds) /\ Len(Tail(queue)) = Len(queue) - 1
        /\ \A i \in 1..Len(Tail(queue)) : Tail(queue)[i] = queue[i + 1] /\ i + 1 \in 1..Len(queue)
    BY <2>1
  <2>4. Known(accepted)'
    BY <1>2, <2>2 DEF Accept, ServerInv, Known
  <2>5. ASSUME NEW i \in 1..Len(queue') PROVE Known(queue[i])'
    <3>1. i + 1 \in 1..Len(queue) /\ queue'[i] = queue[i + 1]
      BY <1>2, <2>3 DEF Accept
    <3> QED
      BY <3>1 DEF ServerInv, Known
  <2> QED
    BY <1>2, <2>1, <2>2, <2>3, <2>4, <2>5, BacklogAssumption DEF Accept, ServerInv
<1>3. CASE ~ServerEnds /\ (Socket \/ Bind \/ Listen)
  BY <1>0, <1>3 DEF Socket, Bind, Listen, MoveServer, ServerInv, Known
<1> QED
  BY <1>1, <1>2, <1>3 DEF ServerStep, AcceptFails, Return, Socket, Bind, Listen

\* A connection that arrives is one the server may see.
LEMMA ArrivalKeeps ==
  ASSUME ServerInv, NEW who \in {"client", "stranger"},
         NEW p \in Ephemeral \cup {Own, NoPort}, Arrive(who, p),
         Begun => Begun', creation' = creation,
         Known([who |-> who, port |-> p])'
  PROVE  ServerInv'
<1> DEFINE id == [who |-> who, port |-> p]
<1>1. id \in ClientIds
  BY DEF ClientIds
<1> HIDE DEF id
<1>2. queue \in Seq(ClientIds) /\ Len(queue) \in Nat
  BY DEF ServerInv
<1>3. queue' = Append(queue, id) /\ Len(queue) < Backlog
  BY DEF Arrive, id
<1>4. /\ queue' \in Seq(ClientIds) /\ Len(queue') = Len(queue) + 1
      /\ \A i \in 1..Len(queue) : queue'[i] = queue[i]
      /\ queue'[Len(queue) + 1] = id
  BY <1>1, <1>2, <1>3
<1>5. ASSUME NEW i \in 1..Len(queue') PROVE Known(queue[i])'
  <2>1. CASE i \in 1..Len(queue)
    <3>1. Known(queue[i]) /\ queue'[i] = queue[i]
      BY <1>4, <2>1 DEF ServerInv
    <3> QED
      BY <3>1 DEF Known
  <2>2. CASE i = Len(queue) + 1
    BY <1>4, <2>2 DEF id
  <2> QED
    BY <1>2, <1>4, <2>1, <2>2
<1>6. Known(accepted)'
  BY DEF Arrive, ServerInv, Known
<1>7. Len(queue') =< Backlog
  BY <1>2, <1>3, <1>4, BacklogAssumption
<1> QED
  BY <1>4, <1>5, <1>6, <1>7 DEF Arrive, ServerInv

\* A step that leaves the server alone.
LEMMA ServerUntouched ==
  ASSUME ServerInv, UNCHANGED serverVars, Begun => Begun', creation' = creation
  PROVE  ServerInv'
<1>1. ASSUME NEW id, Known(id) PROVE Known(id)'
  BY <1>1 DEF Known
<1>2. UNCHANGED <<spc, sheld, sopen, queue, accepted>>
  BY DEF serverVars
<1> QED
  BY <1>1, <1>2 DEF ServerInv

---------------------------------------------------------------------------
(* Both together.                                                          *)

IInv ==
  /\ ClientInv /\ ServerInv
  /\ StreamOK(RequestSize, sent, sender, got, receiver)
  /\ StreamOK(AnswerSize, replied, replier, heard, hearer)
  /\ strangers \in 0..MaxStrangers

\* Each step of the system, as the steps of its parts.
LEMMA StepParts ==
  ASSUME [Next]_vars
  PROVE  /\ [Request!Next]_request
         /\ [Answer!Next]_answer
         /\ UNCHANGED strangers \/ StrangerConnects
         /\ \/ (ClientActs \/ UNCHANGED clientVars) /\ UNCHANGED serverVars
            \/ Connect /\ conn' = "up" /\ conn = "none" /\ Arrive("client", port')
            \/ ServerRuns
            \/ Arrive("stranger", NoPort) /\ UNCHANGED clientVars
<1> USE DEF ClientActs
<1>1. CASE ClientStep
  BY <1>1 DEF ClientStep, ClientAlone, Connecting, Sending, Receiving, Request!Next, Answer!Next
<1>2. CASE HostStep
  BY <1>2 DEF HostStep
<1>3. CASE ServerRuns
  BY <1>3 DEF ServerRuns
<1>4. CASE Serve
  BY <1>4 DEF Serve, Request!Next, Answer!Next
<1>5. CASE StrangerConnects
  BY <1>5 DEF StrangerConnects
<1>6. CASE UNCHANGED vars
  BY <1>6 DEF vars
<1> QED
  BY <1>1, <1>2, <1>3, <1>4, <1>5, <1>6 DEF Next

\* The invariant holds of every behaviour.
LEMMA Inductive == Spec => []IInv
<1>1. Init => IInv
  <2> SUFFICES ASSUME Init PROVE IInv
    OBVIOUS
  <2>1. ClientInv
    BY DEF Init, ClientInit, ClientInv
  <2>2. ServerInv
    BY BacklogAssumption DEF Init, ServerInit, ServerInv, Known, NoClient
  <2>3. /\ StreamOK(RequestSize, sent, sender, got, receiver)
        /\ StreamOK(AnswerSize, replied, replier, heard, hearer)
        /\ strangers \in 0..MaxStrangers
    BY LinkAssumption DEF Init, StreamOK, Results, Request!Init, Request!Out!Init, Request!In!Init,
                          Answer!Init, Answer!Out!Init, Answer!In!Init
  <2> QED
    BY <2>1, <2>2, <2>3 DEF IInv
<1>2. IInv /\ [Next]_vars => IInv'
  <2> SUFFICES ASSUME IInv, [Next]_vars PROVE IInv'
    OBVIOUS
  <2>1. /\ StreamOK(RequestSize, sent, sender, got, receiver)'
        /\ StreamOK(AnswerSize, replied, replier, heard, hearer)'
    BY StepParts, RequestStep, AnswerStep DEF IInv
  <2>2. (strangers \in 0..MaxStrangers)'
    BY StepParts, LinkAssumption DEF IInv, StrangerConnects
  <2>3. CASE ClientActs /\ UNCHANGED serverVars
    BY <2>1, <2>2, <2>3, ClientKeeps, ServerUntouched DEF IInv
  <2>4. CASE UNCHANGED clientVars /\ UNCHANGED serverVars
    <3>1. ClientInv'
      BY <2>4 DEF IInv, ClientInv, clientVars
    <3>2. (Begun => Begun') /\ creation' = creation
      BY <2>4 DEF clientVars, Begun
    <3> QED
      BY <2>1, <2>2, <2>4, <3>1, <3>2, ServerUntouched DEF IInv
  <2>5. CASE Connect /\ conn' = "up" /\ conn = "none" /\ Arrive("client", port')
    <3>1. ClientInv' /\ creation' = creation /\ (Begun => Begun')
      BY <2>5, ClientKeeps DEF IInv, ClientActs
    <3>2. PICK p : p = port'
      OBVIOUS
    <3>3. p \in Ephemeral \cup {Own, NoPort}
      BY <3>1, <3>2 DEF ClientInv
    <3>4. creation # "connected" /\ Begun' /\ (creation = "bound" => p = Own)
      BY <2>5, <3>1, <3>2 DEF IInv, ClientInv, Connect, Begun
    <3>5. Known([who |-> "client", port |-> p])'
      BY <3>1, <3>4 DEF Known
    <3>6. Arrive("client", p)
      BY <2>5, <3>2
    <3> QED
      BY <2>1, <2>2, <2>5, <3>1, <3>3, <3>5, <3>6, ArrivalKeeps DEF IInv, Connect
  <2>6. CASE ServerRuns
    <3>1. ClientInv' /\ Begun' = Begun /\ creation' = creation
      BY <2>6 DEF ServerRuns, IInv, ClientInv, Begun
    <3>2. ServerInv'
      BY <2>6, <3>1, ServerKeeps DEF ServerRuns, IInv
    <3> QED
      BY <2>1, <2>2, <3>1, <3>2 DEF IInv
  <2>7. CASE Arrive("stranger", NoPort) /\ UNCHANGED clientVars
    <3>1. ClientInv' /\ (Begun => Begun') /\ creation' = creation
      BY <2>7 DEF IInv, ClientInv, clientVars, Begun
    <3>2. Known([who |-> "stranger", port |-> NoPort])'
      BY DEF Known
    <3> QED
      BY <2>1, <2>2, <2>7, <3>1, <3>2, ArrivalKeeps DEF IInv
  <2> QED
    BY StepParts, <2>3, <2>4, <2>5, <2>6, <2>7
<1> QED
  BY <1>1, <1>2, PTL DEF Spec

\* Every reachable state of the two processes is well typed.
THEOREM TypeCorrect == Spec => []TypeOK
<1>1. ASSUME IInv PROVE TypeOK
  <2>1. /\ {sent, got} \subseteq 0..RequestSize /\ {replied, heard} \subseteq 0..AnswerSize
        /\ {sender, receiver, replier, hearer} \subseteq Results
    BY <1>1, LinkAssumption DEF IInv, StreamOK
  <2>2. /\ queue \in Seq([who : {"client", "stranger"}, port : Ephemeral \cup {Own, NoPort}])
        /\ Len(queue) =< Backlog
        /\ accepted \in [who : {"client", "stranger"}, port : Ephemeral \cup {Own, NoPort}]
                          \cup {NoClient}
        /\ spc \in {"socket", "bind", "listen", "accept", "accepted", "done"}
        /\ sheld \subseteq {"CreateNew", "main"} /\ sopen \in BOOLEAN
    BY <1>1 DEF IInv, ServerInv, ClientIds
  <2>3. /\ pc \in {"socket", "endpoint", "connect", "send", "receive", "received",
                   "disconnected", "hosting", "failed", "exited"}
        /\ held \subseteq {"CreateNew", "main", "TcpAcceptor"} /\ open \in BOOLEAN
        /\ creation \in {"unbound", "connected", "bound"}
        /\ port \in Ephemeral \cup {Own, NoPort}
        /\ conn \in {"none", "elsewhere", "up", "down"}
    BY <1>1 DEF IInv, ClientInv
  <2>4. strangers \in 0..MaxStrangers
    BY <1>1 DEF IInv
  <2> QED
    BY <2>1, <2>2, <2>3, <2>4 DEF TypeOK
<1> QED
  BY <1>1, Inductive, PTL

\* In both processes an open descriptor has exactly one owner, whatever is
\* moved and whatever fails on the way.
THEOREM DescriptorsCorrect == Spec => []DescriptorsOwned
<1>1. ASSUME IInv PROVE DescriptorsOwned
  <2>1. Cardinality({}) = 0 /\ \A o : Cardinality({o}) = 1 /\ {o} # {}
    BY FS_EmptySet, FS_Singleton
  <2>2. Cardinality(held) =< 1 /\ (open <=> held # {})
    <3>1. \/ held = {} /\ open = FALSE
          \/ (\E o : held = {o}) /\ open = TRUE
      BY <1>1 DEF IInv, ClientInv
    <3>2. Cardinality(held) \in {0, 1}
      BY <2>1, <3>1, Zenon
    <3>3. open <=> held # {}
      BY <2>1, <3>1, Zenon
    <3> QED
      BY <3>2, <3>3
  <2>3. Cardinality(sheld) =< 1 /\ (sopen <=> sheld # {})
    <3>1. \/ sheld = {} /\ sopen = FALSE
          \/ (\E o : sheld = {o}) /\ sopen = TRUE
      BY <1>1 DEF IInv, ServerInv
    <3>2. Cardinality(sheld) \in {0, 1}
      BY <2>1, <3>1, Zenon
    <3>3. sopen <=> sheld # {}
      BY <2>1, <3>1, Zenon
    <3> QED
      BY <3>2, <3>3
  <2> QED
    BY <2>2, <2>3 DEF DescriptorsOwned
<1> QED
  BY <1>1, Inductive, PTL

\* A host whose endpoint was bound listens on the port the server saw; a client
\* that connected its socket first is never seen.
THEOREM SeenCorrect == Spec => []SeenWhereItIs
<1>1. IInv => SeenWhereItIs
  BY DEF IInv, ClientInv, ServerInv, Known, Begun, SeenWhereItIs
<1> QED
  BY <1>1, Inductive, PTL

\* The request and the answer are messages of MessageChannel: nobody receives
\* what its sender was told it did not send.
THEOREM PromiseCorrect == Spec => KeepsPromise
<1>1. Init => Request!Channel!Init /\ Answer!Channel!Init
  BY DEF Init, Request!Init, Request!Out!Init, Request!In!Init, Request!Channel!Init,
         Answer!Init, Answer!Out!Init, Answer!In!Init, Answer!Channel!Init
<1>2. IInv /\ [Next]_vars => /\ [Request!Channel!Next]_(Request!Channel!vars)
                             /\ [Answer!Channel!Next]_(Answer!Channel!vars)
  BY StepParts, RequestStep, AnswerStep DEF IInv, Request!Channel!vars, Answer!Channel!vars
<1> QED
  BY <1>1, <1>2, Inductive, PTL
  DEF Spec, KeepsPromise, Request!KeepsPromise, Answer!KeepsPromise, Request!Channel!Spec, Answer!Channel!Spec

---------------------------------------------------------------------------
(* An answer is the answer to a request that was served.                   *)

\* Whoever has its answer sent a request that the server read whole, on the
\* connection the server accepted; nobody was told that a part of it failed;
\* and the server knows the port it goes on with, if it was bound.
AnsweredWasServed ==
  AnswerSize > 0 /\ pc \in {"received", "disconnected", "hosting"} =>
    /\ sender = "OnSuccess" /\ receiver = "OnSuccess" /\ replier # "Failed"
    /\ accepted.who = "client" /\ creation # "connected"
    /\ creation = "bound" => port = accepted.port

\* The order of a conversation: the client sends, the server accepts, reads and
\* answers, the client reads.
ConversationInOrder ==
  /\ pc \in {"receive", "received", "disconnected", "hosting"} => sender = "OnSuccess"
  /\ pc \in {"received", "disconnected", "hosting"} => hearer = "OnSuccess"
  /\ got > 0 \/ receiver # "none" \/ replied > 0 \/ replier # "none" =>
       accepted.who = "client" /\ spc \in {"accepted", "done"}
  /\ replied > 0 \/ replier # "none" => receiver = "OnSuccess"

\* The conversation keeps its order.
LEMMA OrderKept == Spec => []ConversationInOrder
<1>1. Init => ConversationInOrder
  BY DEF Init, ConversationInOrder, ClientInit, Request!Init, Request!Out!Init, Request!In!Init,
         Answer!Init, Answer!Out!Init, Answer!In!Init
<1>2. IInv /\ ConversationInOrder /\ [Next]_vars => ConversationInOrder'
  <2> SUFFICES ASSUME IInv, ConversationInOrder, [Next]_vars PROVE ConversationInOrder'
    OBVIOUS
  <2> USE DEF request, answer, clientVars, serverVars
  <2>0. /\ sent \in Nat /\ got \in Nat /\ replied \in Nat /\ heard \in Nat
        /\ RequestSize \in Nat /\ AnswerSize \in Nat
    BY LinkAssumption DEF IInv, StreamOK
  <2>1. CASE ClientAlone /\ UNCHANGED <<serverVars, request, answer, strangers>>
    BY <2>1 DEF ClientAlone, Create, CreateNewEnds, Exit, Killed, ProcessEnds, ConversationInOrder
  <2>2. CASE Connecting
    <3>1. UNCHANGED <<spc, accepted, request, answer>> /\ pc' \in {"send", "failed"}
      BY <2>2 DEF Connecting, Connect, Arrive
    <3> QED
      BY <3>1 DEF ConversationInOrder
  <2>3. CASE Sending
    <3>1. UNCHANGED <<spc, accepted, got, receiver, answer>>
      BY <2>3 DEF Sending, Request!Write, Request!SendReturns
    <3>2. CASE Request!Write /\ UNCHANGED clientVars
      <4>1. pc' = "send"
        BY <2>3, <3>2 DEF Sending
      <4> QED
        BY <3>1, <4>1 DEF ConversationInOrder
    <3>3. CASE SendReturns(sender')
      <4>1. pc' = "failed" \/ (pc' = "receive" /\ sender' = "OnSuccess")
        BY <3>3 DEF SendReturns
      <4> QED
        BY <3>1, <4>1 DEF ConversationInOrder
    <3> QED
      BY <2>3, <3>2, <3>3 DEF Sending
  <2>4. CASE Receiving
    <3>1. UNCHANGED <<spc, accepted, request, replied, replier>> /\ pc = "receive"
      BY <2>4 DEF Receiving, Answer!Read, Answer!ReceiveReturns
    <3>2. \/ pc' \in {"receive", "failed"}
          \/ pc' = "received" /\ hearer' = "OnSuccess"
      BY <2>4, <3>1 DEF Receiving, ReceiveReturns
    <3> QED
      BY <3>1, <3>2 DEF ConversationInOrder
  <2>5. CASE HostStep
    <3>1. UNCHANGED <<spc, accepted, request, answer>>
          /\ pc \in {"received", "disconnected"} /\ pc' \in {"disconnected", "hosting", "failed"}
      BY <2>5 DEF HostStep, Disconnect, ListenAsHost
    <3> QED
      BY <3>1 DEF ConversationInOrder
  <2>6. CASE ServerRuns
    <3>1. UNCHANGED <<pc, request, answer>>
      BY <2>6 DEF ServerRuns
    <3>2. spc \notin {"accepted", "done"} \/ (spc' = "done" /\ accepted' = accepted)
      BY <2>6 DEF ServerRuns, ServerStep, Socket, Bind, Listen, Accept, AcceptFails, Return, ServerEnds
    <3> QED
      BY <3>1, <3>2 DEF ConversationInOrder
  <2>7. CASE Serve
    <3>1. UNCHANGED <<pc, spc, accepted>> /\ spc = "accepted" /\ accepted.who = "client"
      BY <2>7 DEF Serve
    <3>2. CASE (Request!Read \/ Request!ReceiveReturns) /\ UNCHANGED answer
      <4>1. UNCHANGED <<sender, answer>> /\ (receiver' = receiver \/ receiver = "none")
        BY <3>2 DEF Request!Read, Request!ReceiveReturns, Request!In!Move, Request!In!Succeed, Request!In!Fail
      <4> QED
        BY <3>1, <4>1 DEF ConversationInOrder
    <3>3. CASE receiver = "OnSuccess" /\ (Answer!Write \/ Answer!SendReturns) /\ UNCHANGED request
      <4>1. UNCHANGED <<hearer, request>>
        BY <3>3 DEF Answer!Write, Answer!SendReturns
      <4> QED
        BY <3>1, <3>3, <4>1 DEF ConversationInOrder
    <3> QED
      BY <2>7, <3>2, <3>3 DEF Serve
  <2>8. CASE StrangerConnects \/ UNCHANGED vars
    BY <2>8 DEF StrangerConnects, Arrive, vars, ConversationInOrder
  <2> QED
    BY <2>1, <2>2, <2>3, <2>4, <2>5, <2>6, <2>7, <2>8 DEF Next, ClientStep
<1> QED
  BY <1>1, <1>2, Inductive, PTL DEF Spec

\* A client that has its answer was served, where the server saw it.
THEOREM AnsweredCorrect == Spec => []AnsweredWasServed
<1>1. IInv /\ ConversationInOrder => AnsweredWasServed
  <2> SUFFICES ASSUME IInv, ConversationInOrder, AnswerSize > 0,
                      pc \in {"received", "disconnected", "hosting"}
               PROVE  /\ sender = "OnSuccess" /\ receiver = "OnSuccess" /\ replier # "Failed"
                      /\ accepted.who = "client" /\ creation # "connected"
                      /\ creation = "bound" => port = accepted.port
    BY DEF AnsweredWasServed
  <2>1. sender = "OnSuccess" /\ hearer = "OnSuccess"
    BY DEF ConversationInOrder
  <2>2. replied = AnswerSize /\ replied > 0
    BY <2>1, LinkAssumption DEF IInv, StreamOK
  <2>3. replier # "Failed"
    BY <2>2, LinkAssumption DEF IInv, StreamOK
  <2>4. receiver = "OnSuccess" /\ accepted.who = "client"
    BY <2>2 DEF ConversationInOrder
  <2>5. open = TRUE /\ pc # "endpoint"
    BY DEF IInv, ClientInv
  <2> QED
    BY <2>1, <2>3, <2>4, <2>5 DEF IInv, ClientInv, ServerInv, Known
<1> QED
  BY <1>1, Inductive, OrderKept, PTL

---------------------------------------------------------------------------
(* How far the two processes can be from their ends.                       *)

\* Steps a client at that call can still make, with s bytes sent and h heard.
StepsLeft(at, s, h) ==
  CASE at = "socket"       -> RequestSize + AnswerSize + 9
    [] at = "endpoint"     -> RequestSize + AnswerSize + 8
    [] at = "connect"      -> RequestSize + AnswerSize + 7
    [] at = "send"         -> (RequestSize - s) + AnswerSize + 6
    [] at = "receive"      -> (AnswerSize - h) + 5
    [] at = "received"     -> 4
    [] at = "disconnected" -> 3
    [] at = "hosting"      -> 2
    [] at = "failed"       -> 1
    [] at = "exited"       -> 0

ServerStepsLeft(at) ==
  CASE at = "socket"   -> 5
    [] at = "bind"     -> 4
    [] at = "listen"   -> 3
    [] at = "accept"   -> 2
    [] at = "accepted" -> 1
    [] at = "done"     -> 0

Rank == StepsLeft(pc, sent, heard)
ServerRank == ServerStepsLeft(spc)

\* The safety half of BothReturn: each step of a process brings it nearer to
\* its end, and nothing the other one or a stranger does sets it back.
ProcessesAdvance ==
  [][/\ Rank' =< Rank /\ (ClientStep \/ HostStep => Rank' < Rank)
     /\ ServerRank' =< ServerRank /\ (ServerRuns => ServerRank' < ServerRank)]_vars

\* How many steps each call leaves.
LEMMA StepsAt ==
  ASSUME NEW at, NEW s, NEW h
  PROVE  /\ at = "socket" => StepsLeft(at, s, h) = RequestSize + AnswerSize + 9
         /\ at = "endpoint" => StepsLeft(at, s, h) = RequestSize + AnswerSize + 8
         /\ at = "connect" => StepsLeft(at, s, h) = RequestSize + AnswerSize + 7
         /\ at = "send" => StepsLeft(at, s, h) = (RequestSize - s) + AnswerSize + 6
         /\ at = "receive" => StepsLeft(at, s, h) = (AnswerSize - h) + 5
         /\ at = "received" => StepsLeft(at, s, h) = 4
         /\ at = "disconnected" => StepsLeft(at, s, h) = 3
         /\ at = "hosting" => StepsLeft(at, s, h) = 2
         /\ at = "failed" => StepsLeft(at, s, h) = 1
         /\ at = "exited" => StepsLeft(at, s, h) = 0
BY DEF StepsLeft

\* Every call leaves so many.
LEMMA RankType == ASSUME IInv PROVE Rank \in 0..(RequestSize + AnswerSize + 9)
<1>1. /\ pc \in {"socket", "endpoint", "connect", "send", "receive", "received",
                 "disconnected", "hosting", "failed", "exited"}
      /\ sent \in 0..RequestSize /\ heard \in 0..AnswerSize
  <2>1. sent \in 0..RequestSize /\ heard \in 0..AnswerSize
    BY LinkAssumption DEF IInv, StreamOK
  <2> QED
    BY <2>1 DEF IInv, ClientInv
<1>2. CASE pc \in {"socket", "endpoint", "connect"}
  BY <1>2, LinkAssumption, StepsAt DEF Rank
<1>3. CASE pc = "send"
  BY <1>1, <1>3, LinkAssumption, StepsAt DEF Rank
<1>4. CASE pc = "receive"
  BY <1>1, <1>4, LinkAssumption, StepsAt DEF Rank
<1>5. CASE pc \in {"received", "disconnected", "hosting", "failed", "exited"}
  <2>1. Rank \in 0..4
    BY <1>5, StepsAt DEF Rank
  <2> QED
    BY <2>1, LinkAssumption
<1> QED
  BY <1>1, <1>2, <1>3, <1>4, <1>5

\* Each call of the client brings it nearer to its end.
LEMMA ClientAdvances ==
  ASSUME IInv, ClientStep \/ HostStep
  PROVE  Rank' < Rank /\ Rank' \in Int
<1> USE DEF request, answer, clientVars, serverVars
<1>0. /\ sent \in 0..RequestSize /\ heard \in 0..AnswerSize
      /\ RequestSize \in Nat /\ AnswerSize \in Nat
  BY LinkAssumption DEF IInv, StreamOK
<1>1. CASE ClientAlone /\ UNCHANGED <<serverVars, request, answer, strangers>>
  <2>1. \/ pc = "socket" /\ pc' \in {"endpoint", "failed"}
        \/ pc = "endpoint" /\ pc' \in {"connect", "failed"}
        \/ pc \in {"failed", "send"} /\ pc' = "exited"
    BY <1>1 DEF ClientAlone, Create, CreateNewEnds, Exit, Killed, ProcessEnds
  <2>2. sent' = sent /\ heard' = heard
    BY <1>1
  <2>3. CASE pc = "socket" /\ pc' \in {"endpoint", "failed"}
    <3>1. Rank = RequestSize + AnswerSize + 9
      BY <2>3, StepsAt DEF Rank
    <3>2. Rank' \in {RequestSize + AnswerSize + 8, 1}
      BY <2>3, StepsAt DEF Rank
    <3> QED
      BY <1>0, <3>1, <3>2
  <2>4. CASE pc = "endpoint" /\ pc' \in {"connect", "failed"}
    <3>1. Rank = RequestSize + AnswerSize + 8
      BY <2>4, StepsAt DEF Rank
    <3>2. Rank' \in {RequestSize + AnswerSize + 7, 1}
      BY <2>4, StepsAt DEF Rank
    <3> QED
      BY <1>0, <3>1, <3>2
  <2>5. CASE pc \in {"failed", "send"} /\ pc' = "exited"
    <3>1. Rank \in {1, (RequestSize - sent) + AnswerSize + 6}
      BY <2>5, StepsAt DEF Rank
    <3>2. Rank' = 0
      BY <2>5, StepsAt DEF Rank
    <3> QED
      BY <1>0, <3>1, <3>2
  <2> QED
    BY <2>1, <2>3, <2>4, <2>5
<1>2. CASE Connecting
  <2>1. pc = "connect" /\ pc' \in {"send", "failed"} /\ sent' = sent
    BY <1>2 DEF Connecting, Connect
  <2>2. Rank = RequestSize + AnswerSize + 7
    BY <2>1, StepsAt DEF Rank
  <2>3. Rank' \in {(RequestSize - sent) + AnswerSize + 6, 1}
    BY <2>1, StepsAt DEF Rank
  <2> QED
    BY <1>0, <2>2, <2>3
<1>3. CASE Sending
  <2>1. pc = "send" /\ heard' = heard
    BY <1>3 DEF Sending
  <2>2. Rank = (RequestSize - sent) + AnswerSize + 6
    BY <2>1, StepsAt DEF Rank
  <2>3. CASE Request!Write /\ UNCHANGED clientVars
    <3>1. PICK x \in 1..(RequestSize - sent) : sent' = sent + x
      BY <2>3 DEF Request!Write, Request!Out!Move
    <3>2. Rank' = (RequestSize - sent') + AnswerSize + 6
      BY <2>1, <2>3, StepsAt DEF Rank
    <3> QED
      BY <1>0, <2>2, <3>1, <3>2
  <2>4. CASE SendReturns(sender')
    <3>1. pc' \in {"receive", "failed"}
      BY <2>4 DEF SendReturns
    <3>2. Rank' \in {(AnswerSize - heard) + 5, 1}
      BY <2>1, <3>1, StepsAt DEF Rank
    <3> QED
      BY <1>0, <2>2, <3>2
  <2> QED
    BY <1>3, <2>3, <2>4 DEF Sending
<1>4. CASE Receiving
  <2>1. pc = "receive"
    BY <1>4 DEF Receiving
  <2>2. Rank = (AnswerSize - heard) + 5
    BY <2>1, StepsAt DEF Rank
  <2>3. CASE Answer!Read /\ UNCHANGED clientVars
    <3>1. PICK x \in 1..(AnswerSize - heard) : heard' = heard + x
      BY <2>3 DEF Answer!Read, Answer!In!Move
    <3>2. Rank' = (AnswerSize - heard') + 5
      BY <2>1, <2>3, StepsAt DEF Rank
    <3> QED
      BY <1>0, <2>2, <3>1, <3>2
  <2>4. CASE ReceiveReturns(hearer')
    <3>1. pc' \in {"received", "failed"}
      BY <2>4 DEF ReceiveReturns
    <3>2. Rank' \in {4, 1}
      BY <3>1, StepsAt DEF Rank
    <3> QED
      BY <1>0, <2>2, <3>2
  <2> QED
    BY <1>4, <2>3, <2>4 DEF Receiving
<1>5. CASE HostStep
  <2>1. \/ pc = "received" /\ pc' \in {"disconnected", "failed"}
        \/ pc = "disconnected" /\ pc' \in {"hosting", "failed"}
    BY <1>5 DEF HostStep, Disconnect, ListenAsHost
  <2>2. CASE pc = "received" /\ pc' \in {"disconnected", "failed"}
    <3>1. Rank = 4 /\ Rank' \in {3, 1}
      BY <2>2, StepsAt DEF Rank
    <3> QED
      BY <3>1
  <2>3. CASE pc = "disconnected" /\ pc' \in {"hosting", "failed"}
    <3>1. Rank = 3 /\ Rank' \in {2, 1}
      BY <2>3, StepsAt DEF Rank
    <3> QED
      BY <3>1
  <2> QED
    BY <2>1, <2>2, <2>3
<1> QED
  BY <1>1, <1>2, <1>3, <1>4, <1>5 DEF ClientStep

\* The client makes at most RequestSize + AnswerSize + 9 steps and the server
\* five, whatever the other one and the strangers do in between.
THEOREM ProcessesNeverLoop ==
  Spec => /\ ProcessesAdvance
          /\ [](Rank \in 0..(RequestSize + AnswerSize + 9) /\ ServerRank \in 0..5)
<1>1. IInv => Rank \in 0..(RequestSize + AnswerSize + 9) /\ ServerRank \in 0..5
  <2> SUFFICES ASSUME IInv PROVE Rank \in 0..(RequestSize + AnswerSize + 9) /\ ServerRank \in 0..5
    OBVIOUS
  <2>1. spc \in {"socket", "bind", "listen", "accept", "accepted", "done"}
    BY DEF IInv, ServerInv
  <2>2. ServerRank \in 0..5
    BY <2>1 DEF ServerRank, ServerStepsLeft
  <2> QED
    BY <2>2, RankType
<1>2. IInv /\ [Next]_vars =>
        [/\ Rank' =< Rank /\ (ClientStep \/ HostStep => Rank' < Rank)
         /\ ServerRank' =< ServerRank /\ (ServerRuns => ServerRank' < ServerRank)]_vars
  <2> SUFFICES ASSUME IInv, Next
               PROVE  /\ Rank' =< Rank /\ (ClientStep \/ HostStep => Rank' < Rank)
                      /\ ServerRank' =< ServerRank /\ (ServerRuns => ServerRank' < ServerRank)
    BY DEF vars
  <2> USE DEF request, answer, clientVars, serverVars
  <2>1. Rank \in Int /\ ServerRank \in Int
    BY <1>1, LinkAssumption
  <2>2. CASE ServerRuns
    <3>1. UNCHANGED <<pc, sent, heard>> /\ Rank' = Rank
      BY <2>2 DEF ServerRuns, Rank
    <3>2. \/ spc = "socket" /\ spc' \in {"bind", "done"}
          \/ spc = "bind" /\ spc' \in {"listen", "done"}
          \/ spc = "listen" /\ spc' \in {"accept", "done"}
          \/ spc = "accept" /\ spc' \in {"accepted", "done"}
          \/ spc = "accepted" /\ spc' = "done"
      BY <2>2 DEF ServerRuns, ServerStep, Socket, Bind, Listen, Accept, AcceptFails, Return, ServerEnds
    <3>3. ServerRank' < ServerRank /\ ServerRank' =< ServerRank
      BY <3>2 DEF ServerRank, ServerStepsLeft
    <3>4. ~(ClientStep \/ HostStep)
      <4>1. spc' # spc
        BY <3>2
      <4>2. ASSUME ClientStep \/ HostStep PROVE spc' = spc
        BY <4>2 DEF ClientStep, HostStep, Connecting, Sending, Receiving, Arrive
      <4> QED
        BY <4>1, <4>2
    <3> QED
      BY <2>1, <3>1, <3>3, <3>4
  <2>3. CASE ClientStep \/ HostStep
    <3>1. Rank' < Rank /\ Rank' \in Int
      BY <2>3, ClientAdvances
    <3>2. spc' = spc
      BY <2>3 DEF ClientStep, HostStep, Connecting, Sending, Receiving, Arrive
    <3>3. ServerRank' = ServerRank
      BY <3>2 DEF ServerRank
    <3>4. ~ServerRuns
      BY <3>2 DEF ServerRuns, ServerStep, Socket, Bind, Listen, Accept, AcceptFails, Return, ServerEnds
    <3> QED
      BY <2>1, <3>1, <3>3, <3>4
  <2>4. CASE ~ServerRuns /\ ~ClientStep /\ ~HostStep
    <3>1. Serve \/ StrangerConnects
      BY <2>4 DEF Next
    <3>2. UNCHANGED <<pc, spc, sent, heard>>
      BY <3>1 DEF Serve, StrangerConnects, Arrive, Request!Read, Request!ReceiveReturns,
                  Answer!Write, Answer!SendReturns
    <3>3. Rank' = Rank /\ ServerRank' = ServerRank
      BY <3>2 DEF Rank, ServerRank
    <3> QED
      BY <2>1, <2>4, <3>3
  <2> QED
    BY <2>2, <2>3, <2>4
<1> QED
  BY <1>1, <1>2, Inductive, PTL DEF Spec, ProcessesAdvance

=============================================================================
