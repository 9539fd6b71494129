------------------------------ MODULE Session ------------------------------
(***************************************************************************)
(* Several clients (client/main.cpp and its state handlers) and the        *)
(* central server they find each other through: from the start of each     *)
(* process to the moment the host waits for the guest's connection.        *)
(*                                                                         *)
(* The clients run concurrently. A connection carries one request and its  *)
(* answer, then, to a host, the address of the guest. A wait for an answer *)
(* has a deadline that may pass at any moment, also when the answer is     *)
(* already on its way; a client that gave up is gone, while its request    *)
(* may still be served. Connections are lost and the server is restarted.  *)
(*                                                                         *)
(* The loop that serves requests is not in the repository: Serve stands    *)
(* for it, with game_db answering. Repaired names the places where the     *)
(* client as written cannot go on and is read as its names say instead:    *)
(*   "bind"      CreateNew(clientEndpoint) binds the endpoint; as written  *)
(*               it connects to it, and a connected socket cannot Connect; *)
(*   "dispatch"  an answer reaches the lambda written for its type; as     *)
(*               written the lambda for errors is the one selected.        *)
(***************************************************************************)
EXTENDS Naturals, Sequences, FiniteSets

CONSTANTS Clients, GameIds, NoPlayer, MaxStorageSize,
          Repaired,
          MaxLosses, MaxRestarts  \* bounds: connections lost, server restarts

ASSUME SessionAssumption ==
  /\ NoPlayer \notin Clients /\ "NoAvailableSpaceInGameDB" \notin GameIds
  /\ MaxStorageSize \in Nat
  /\ Repaired \subseteq {"bind", "dispatch"}
  /\ MaxLosses \in Nat /\ MaxRestarts \in Nat

VARIABLES
  state,     \* NState::State of each client
  step,      \* "start": before the loop of main(); "enter": at the handler of
             \* the state; "receiving": inside its Receive()
  exit,      \* exit status, "none" while the process runs
  link,      \* the client's socket: "none", connected "elsewhere" or to the
             \* server, "up" or "down"
  toServer,  \* requests written and not yet served
  toClient,  \* messages the server wrote and the client has not read
  FstPlayerId, SndPlayerId,  \* the server's games
  losses, restarts

client == <<state, step, exit>>
db     == <<FstPlayerId, SndPlayerId>>
vars   == <<client, link, toServer, toClient, db, losses, restarts>>

DB == INSTANCE GameRegistry WITH Players <- Clients

---------------------------------------------------------------------------
(* States and messages.                                                    *)

Plain(name) == [name |-> name]
InGame(name, g) == [name |-> name, id |-> g]

ErrorStates ==
  {"FailedToConnectToCentralServer", "FailedToCreateNewGame", "FailedToJoinGame",
   "FailedToEstablishConnectionWithPeer"}

\* Mutant: one handler fails with the error state of another.
FailureOfMixedUp(name) ==
  CASE name = "NeedToConnectToCentralServer" -> "FailedToConnectToCentralServer"
    [] name = "NeedToCreateNewGame"          -> "FailedToCreateNewGame"
    [] name = "NeedToJoinGame"               -> "FailedToJoinGame"
    [] name = "CreatedNewGame"               -> "FailedToCreateNewGame"

\* The error state a handler falls into.
FailureOf(name) ==
  CASE name = "NeedToConnectToCentralServer" -> "FailedToConnectToCentralServer"
    [] name = "NeedToCreateNewGame"          -> "FailedToCreateNewGame"
    [] name = "NeedToJoinGame"               -> "FailedToJoinGame"
    [] name = "CreatedNewGame"               -> "FailedToEstablishConnectionWithPeer"

Requests == [type : {"CreateNewGameRequest"}] \cup [type : {"JoinGameRequest"}, id : GameIds]

Answers ==
  [type : {"CreateNewGameResponse"}, id : GameIds \cup {"NoAvailableSpaceInGameDB"}]
    \cup [type : {"JoinGameResponse"},
          result : {"Success", "GameIdDoesNotExist", "GameAlreadyHasTwoPlayers"}]
    \cup [type : {"SocketAddress"}, peer : Clients]

NoRequest == [type |-> "none"]

Expected(name) ==
  CASE name = "NeedToCreateNewGame" -> "CreateNewGameResponse"
    [] name = "NeedToJoinGame"      -> "JoinGameResponse"
    [] name = "CreatedNewGame"      -> "SocketAddress"

---------------------------------------------------------------------------
(* A client.                                                               *)

At(c, s, name) == exit[c] = "none" /\ step[c] = s /\ state[c].name = name

Enter(c, s) == state' = [state EXCEPT ![c] = s] /\ step' = [step EXCEPT ![c] = "enter"]

\* TcpClient::CreateNew at the start of main().
Start(c) ==
  /\ At(c, "start", "NeedToConnectToCentralServer")
  /\ \/ /\ exit' = [exit EXCEPT ![c] = "EXIT_FAILURE"]
        /\ UNCHANGED <<step, link>>
     \/ /\ step' = [step EXCEPT ![c] = "enter"]
        /\ link' = [link EXCEPT ![c] = IF "bind" \in Repaired THEN "none" ELSE "elsewhere"]
        /\ UNCHANGED exit
  /\ UNCHANGED <<state, toServer, toClient, db, losses, restarts>>

\* connect() succeeds at once or the client fails, EINPROGRESS included.
Connect(c) ==
  /\ At(c, "enter", "NeedToConnectToCentralServer")
  /\ \/ /\ link[c] = "none" /\ link' = [link EXCEPT ![c] = "up"]
        /\ Enter(c, Plain("ConnectedToCentralServer"))
     \/ /\ Enter(c, Plain("FailedToConnectToCentralServer"))
        /\ UNCHANGED link
  /\ UNCHANGED <<exit, toServer, toClient, db, losses, restarts>>

\* The user decides.
ActOnConnected(c) ==
  /\ At(c, "enter", "ConnectedToCentralServer")
  /\ \/ Enter(c, Plain("NeedToCreateNewGame"))
     \/ \E g \in GameIds : Enter(c, InGame("NeedToJoinGame", g))
  /\ UNCHANGED <<exit, link, toServer, toClient, db, losses, restarts>>

\* Send: the kernel takes the request, which the server gets if the connection
\* lasts; or the handler gives up without having sent all of it.
SendRequest(c) ==
  /\ At(c, "enter", "NeedToCreateNewGame") \/ At(c, "enter", "NeedToJoinGame")
  /\ \/ /\ step' = [step EXCEPT ![c] = "receiving"]
        /\ toServer' = IF link[c] # "up" THEN toServer
                       ELSE [toServer EXCEPT ![c] =
                               IF state[c].name = "NeedToCreateNewGame"
                               THEN [type |-> "CreateNewGameRequest"]
                               ELSE [type |-> "JoinGameRequest", id |-> state[c].id]]
        /\ UNCHANGED state
     \/ /\ Enter(c, Plain(FailureOf(state[c].name)))
        /\ UNCHANGED toServer
  /\ UNCHANGED <<exit, link, toClient, db, losses, restarts>>

\* The handler of CreatedNewGame tells the user, then waits.
ActOnCreated(c) ==
  /\ At(c, "enter", "CreatedNewGame")
  /\ step' = [step EXCEPT ![c] = "receiving"]
  /\ UNCHANGED <<state, exit, link, toServer, toClient, db, losses, restarts>>

\* Mutant: any JoinGameResponse is taken for Success.
AfterAnswerUnread(s, m) ==
  IF m.type # Expected(s.name) THEN Plain(FailureOf(s.name))
  ELSE CASE m.type = "CreateNewGameResponse" -> InGame("CreatedNewGame", m.id)
         [] m.type = "JoinGameResponse"      -> InGame("JoinedGame", s.id)
         [] m.type = "SocketAddress"         ->
              [name |-> "NeedToAcceptConnectionFromExpectedPeer", peer |-> m.peer]

\* What a handler makes of the message it read.
AfterAnswer(s, m) ==
  CASE m.type = "CreateNewGameResponse" /\ m.type = Expected(s.name)
         /\ m.id \in GameIds /\ "dispatch" \in Repaired ->
         InGame("CreatedNewGame", m.id)
    [] m.type = "JoinGameResponse" /\ m.type = Expected(s.name)
         /\ m.result = "Success" /\ "dispatch" \in Repaired ->
         InGame("JoinedGame", s.id)
    [] m.type = "SocketAddress" /\ m.type = Expected(s.name) ->
         [name |-> "NeedToAcceptConnectionFromExpectedPeer", peer |-> m.peer]
    [] OTHER -> Plain(FailureOf(s.name))

ReceiveAnswer(c) ==
  /\ exit[c] = "none" /\ step[c] = "receiving" /\ toClient[c] # <<>>
  /\ Enter(c, AfterAnswer(state[c], Head(toClient[c])))
  /\ toClient' = [toClient EXCEPT ![c] = Tail(toClient[c])]
  /\ UNCHANGED <<exit, link, toServer, db, losses, restarts>>

\* Mutant: the wait for an answer has no deadline.
ReceiveFailsWhenLost(c) ==
  /\ exit[c] = "none" /\ step[c] = "receiving" /\ link[c] = "down"
  /\ Enter(c, Plain(FailureOf(state[c].name)))
  /\ UNCHANGED <<exit, link, toServer, toClient, db, losses, restarts>>

\* Timeout, SystemError or ConnectionTerminatedByPeer.
ReceiveFails(c) ==
  /\ exit[c] = "none" /\ step[c] = "receiving"
  /\ Enter(c, Plain(FailureOf(state[c].name)))
  /\ UNCHANGED <<exit, link, toServer, toClient, db, losses, restarts>>

\* LogErrorAndExit: the socket is closed with the process.
ExitOnError(c) ==
  /\ exit[c] = "none" /\ state[c].name \in ErrorStates
  /\ exit' = [exit EXCEPT ![c] = "EXIT_FAILURE"]
  /\ link' = [link EXCEPT ![c] = "down"]
  /\ toClient' = [toClient EXCEPT ![c] = <<>>]
  /\ UNCHANGED <<state, step, toServer, db, losses, restarts>>

ClientStep(c) ==
  \/ Start(c) \/ Connect(c) \/ ActOnConnected(c) \/ SendRequest(c)
  \/ ActOnCreated(c) \/ ReceiveAnswer(c) \/ ReceiveFails(c) \/ ExitOnError(c)

---------------------------------------------------------------------------
(* The server.                                                             *)

\* Write m to the connection of d; nobody reads it when that is gone.
Message(d, to, m) == IF d = to /\ link[d] = "up" THEN <<m>> ELSE <<>>

ServeCreate(c) ==
  /\ toServer[c].type = "CreateNewGameRequest"
  /\ toServer' = [toServer EXCEPT ![c] = NoRequest]
  /\ \E g \in GameIds \cup {"NoAvailableSpaceInGameDB"} :
       /\ IF Cardinality(DB!Stored) = MaxStorageSize
          THEN g = "NoAvailableSpaceInGameDB" /\ UNCHANGED FstPlayerId
          ELSE /\ g \in GameIds \ DB!Stored
               /\ FstPlayerId' = [FstPlayerId EXCEPT ![g] = c]
       /\ toClient' = [d \in Clients |-> toClient[d]
            \o Message(d, c, [type |-> "CreateNewGameResponse", id |-> g])]
  /\ UNCHANGED <<client, link, SndPlayerId, losses, restarts>>

\* Mutant: the second seat is given away without looking at it.
JoinResultUnchecked(g) == IF g \notin DB!Stored THEN "GameIdDoesNotExist" ELSE "Success"

\* AddPlayerToGame.
JoinResult(g) ==
  CASE g \notin DB!Stored                               -> "GameIdDoesNotExist"
    [] g \in DB!Stored /\ SndPlayerId[g] # NoPlayer      -> "GameAlreadyHasTwoPlayers"
    [] g \in DB!Stored /\ SndPlayerId[g] = NoPlayer      -> "Success"

\* The host is told the guest's address when the guest takes the seat.
ServeJoin(c) ==
  /\ toServer[c].type = "JoinGameRequest"
  /\ toServer' = [toServer EXCEPT ![c] = NoRequest]
  /\ LET g == toServer[c].id
         result == JoinResult(g)
     IN  /\ SndPlayerId' = IF result = "Success" THEN [SndPlayerId EXCEPT ![g] = c]
                           ELSE SndPlayerId
         /\ toClient' = [d \in Clients |-> toClient[d]
              \o Message(d, c, [type |-> "JoinGameResponse", result |-> result])
              \o IF result = "Success"
                 THEN Message(d, FstPlayerId[g], [type |-> "SocketAddress", peer |-> c])
                 ELSE <<>>]
  /\ UNCHANGED <<client, link, FstPlayerId, losses, restarts>>

\* The server process ends, its games and connections with it, and is started
\* again; what it had written may still be read.
Restart ==
  /\ restarts < MaxRestarts /\ restarts' = restarts + 1
  /\ DB!Forget
  /\ link' = [c \in Clients |-> IF link[c] = "up" THEN "down" ELSE link[c]]
  /\ toServer' = [c \in Clients |-> NoRequest]
  /\ UNCHANGED <<client, toClient, losses>>

\* A connection breaks, with what was under way on it in either direction.
Lose(c) ==
  /\ losses < MaxLosses /\ losses' = losses + 1
  /\ link[c] = "up" /\ link' = [link EXCEPT ![c] = "down"]
  /\ toServer' = [toServer EXCEPT ![c] = NoRequest]
  /\ toClient' = [toClient EXCEPT ![c] = <<>>]
  /\ UNCHANGED <<client, db, restarts>>

---------------------------------------------------------------------------

Init ==
  /\ state = [c \in Clients |-> Plain("NeedToConnectToCentralServer")]
  /\ step = [c \in Clients |-> "start"] /\ exit = [c \in Clients |-> "none"]
  /\ link = [c \in Clients |-> "none"]
  /\ toServer = [c \in Clients |-> NoRequest]
  /\ toClient = [c \in Clients |-> <<>>]
  /\ DB!Init
  /\ losses = 0 /\ restarts = 0

Next ==
  \/ \E c \in Clients : ClientStep(c) \/ ServeCreate(c) \/ ServeJoin(c) \/ Lose(c)
  \/ Restart

\* Every client process is scheduled and its user answers the prompt; nothing
\* is assumed of the server and the network.
Spec == Init /\ [][Next]_vars /\ \A c \in Clients : WF_vars(ClientStep(c))

---------------------------------------------------------------------------
(* Properties.                                                             *)

StateNames ==
  ErrorStates \cup {"NeedToConnectToCentralServer", "ConnectedToCentralServer",
                    "NeedToCreateNewGame"}

\* Every variable has its type.
TypeOK ==
  /\ state \in [Clients -> [name : StateNames]
                  \cup [name : {"NeedToJoinGame", "JoinedGame", "CreatedNewGame"}, id : GameIds]
                  \cup [name : {"NeedToAcceptConnectionFromExpectedPeer"}, peer : Clients]]
  /\ step \in [Clients -> {"start", "enter", "receiving"}]
  /\ exit \in [Clients -> {"none", "EXIT_FAILURE"}]
  /\ link \in [Clients -> {"none", "elsewhere", "up", "down"}]
  /\ toServer \in [Clients -> Requests \cup {NoRequest}]
  /\ toClient \in [Clients -> Seq(Answers)]
  /\ FstPlayerId \in [GameIds -> Clients \cup {NoPlayer}]
  /\ SndPlayerId \in [GameIds -> Clients \cup {NoPlayer}]
  /\ losses \in Nat /\ restarts \in Nat

\* The server has not forgotten the client: they are connected, or it was never
\* restarted.
Remembered(c) == link[c] = "up" \/ restarts = 0

\* Until the server forgets it, a client that believes to host or to have joined
\* a game holds that seat at the server, also when its connection was lost; so
\* nobody else believes it.
BeliefIsSeat ==
  \A c \in Clients : Remembered(c) =>
    /\ state[c].name = "CreatedNewGame" => FstPlayerId[state[c].id] = c
    /\ state[c].name = "JoinedGame" => SndPlayerId[state[c].id] = c

\* A host waits for the guest of its own game and for nobody else; in
\* particular never for itself, although AddPlayerToGame would let a player
\* take the second seat of their own game: one connection asks only once.
HostAwaitsItsGuest ==
  \A c \in Clients :
    Remembered(c) /\ state[c].name = "NeedToAcceptConnectionFromExpectedPeer" =>
      /\ state[c].peer # c
      /\ \E g \in GameIds : FstPlayerId[g] = c /\ SndPlayerId[g] = state[c].peer

\* Whatever is lost or late, no client is ever sent a message its next handler
\* does not expect: the answer to its request first, a guest's address only
\* after the game it is about.
AnswersInOrder ==
  \A c \in Clients : exit[c] = "none" /\ toClient[c] # <<>> /\ state[c].name \notin ErrorStates =>
    /\ Head(toClient[c]).type = Expected(state[c].name)
    /\ Len(toClient[c]) = 2 => Head(toClient[c]).type = "CreateNewGameResponse"

\* Each client moves through its states as the handlers are declared.
Flow(c) == INSTANCE ClientFlow WITH name <- state[c].name, exit <- exit[c]
HandlersAsDeclared ==
  /\ \A c \in Clients : Flow(c)!Init
  /\ [][\A c \in Clients : [Flow(c)!Next]_<<state[c].name, exit[c]>>]_vars

\* No client waits for ever, whatever the server does: it ends, joins a game
\* or learns whom to wait for.
Settled(c) ==
  exit[c] # "none" \/ state[c].name \in {"JoinedGame", "NeedToAcceptConnectionFromExpectedPeer"}
NobodyWaitsForEver == \A c \in Clients : <>Settled(c)

\* "Type ... "join game <game_id>" to join an existing game" (the prompt in
\* console_client.cpp): who asked to join and now reads Success has joined.
ReadsSuccess(c) ==
  /\ step[c] = "receiving" /\ toClient[c] # <<>> /\ toClient'[c] = Tail(toClient[c])
  /\ step'[c] = "enter" /\ exit'[c] = "none"
  /\ Head(toClient[c]) = [type |-> "JoinGameResponse", result |-> "Success"]
SuccessMeansJoined ==
  [][\A c \in Clients : ReadsSuccess(c) => state'[c].name = "JoinedGame"]_vars

=============================================================================
