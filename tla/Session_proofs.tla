--------------------------- MODULE Session_proofs ---------------------------
(***************************************************************************)
(* Proofs about Session, for every set of clients and game ids, every      *)
(* capacity of the server, every number of lost connections and restarts,  *)
(* and each of the repairs or none.                                        *)
(***************************************************************************)
EXTENDS Session, SequenceTheorems, FiniteSetTheorems, TLAPS

---------------------------------------------------------------------------
(* Type correctness.                                                       *)

States ==
  [name : StateNames]
    \cup [name : {"NeedToJoinGame", "JoinedGame", "CreatedNewGame"}, id : GameIds]
    \cup [name : {"NeedToAcceptConnectionFromExpectedPeer"}, peer : Clients]

Receivers == {"NeedToCreateNewGame", "NeedToJoinGame", "CreatedNewGame"}

\* Only three handlers receive, and only the first state precedes the loop.
Stepping ==
  \A c \in Clients :
    /\ step[c] = "receiving" => state[c].name \in Receivers
    /\ step[c] = "start" => state[c].name = "NeedToConnectToCentralServer"

TypeInv == TypeOK /\ Stepping

\* What the fields of a state are.
LEMMA StateFields ==
  ASSUME NEW s \in States
  PROVE  /\ s.name \in {"NeedToJoinGame", "JoinedGame", "CreatedNewGame"} => s.id \in GameIds
         /\ s.name = "NeedToAcceptConnectionFromExpectedPeer" => s.peer \in Clients
BY DEF States, StateNames, ErrorStates

\* Each handler that can fail has an error state to fall into.
LEMMA FailureIsState ==
  ASSUME NEW name \in Receivers \cup {"NeedToConnectToCentralServer"}
  PROVE  FailureOf(name) \in ErrorStates /\ Plain(FailureOf(name)) \in States
BY DEF Receivers, FailureOf, ErrorStates, States, StateNames, Plain

\* What a handler makes of each message: the state its declaration names, or
\* its error state.
LEMMA AfterAnswerCases ==
  ASSUME NEW s \in States, s.name \in Receivers, NEW m \in Answers
  PROVE  \/ AfterAnswer(s, m) = Plain(FailureOf(s.name))
         \/ /\ s.name = "NeedToCreateNewGame" /\ m.type = "CreateNewGameResponse"
            /\ m.id \in GameIds
            /\ AfterAnswer(s, m) = InGame("CreatedNewGame", m.id)
         \/ /\ s.name = "NeedToJoinGame" /\ m.type = "JoinGameResponse"
            /\ m.result = "Success"
            /\ AfterAnswer(s, m) = InGame("JoinedGame", s.id)
         \/ /\ s.name = "CreatedNewGame" /\ m.type = "SocketAddress"
            /\ AfterAnswer(s, m) =
                 [name |-> "NeedToAcceptConnectionFromExpectedPeer", peer |-> m.peer]
<1>1. s.name \in {"NeedToCreateNewGame", "NeedToJoinGame", "CreatedNewGame"}
  BY DEF Receivers
<1>2. m.type \in {"CreateNewGameResponse", "JoinGameResponse", "SocketAddress"}
  BY DEF Answers
<1>3. CASE m.type # Expected(s.name)
  BY <1>3 DEF AfterAnswer
<1>4. CASE m.type = "CreateNewGameResponse" /\ m.type = Expected(s.name)
  <2>1. s.name = "NeedToCreateNewGame"
    BY <1>1, <1>4 DEF Expected
  <2> QED
    BY <1>4, <2>1 DEF AfterAnswer
<1>5. CASE m.type = "JoinGameResponse" /\ m.type = Expected(s.name)
  <2>1. s.name = "NeedToJoinGame"
    BY <1>1, <1>5 DEF Expected
  <2> QED
    BY <1>5, <2>1 DEF AfterAnswer
<1>6. CASE m.type = "SocketAddress" /\ m.type = Expected(s.name)
  <2>1. s.name = "CreatedNewGame"
    BY <1>1, <1>6 DEF Expected
  <2> QED
    BY <1>6, <2>1 DEF AfterAnswer
<1> QED
  BY <1>2, <1>3, <1>4, <1>5, <1>6

\* Whatever it makes of it is a state.
LEMMA AfterAnswerIsState ==
  ASSUME NEW s \in States, s.name \in Receivers, NEW m \in Answers
  PROVE  AfterAnswer(s, m) \in States
<1>1. s.name = "NeedToJoinGame" => s.id \in GameIds
  BY StateFields
<1>2. m.type = "SocketAddress" => m.peer \in Clients
  BY DEF Answers
<1>3. Plain(FailureOf(s.name)) \in States
  BY FailureIsState
<1> QED
  BY <1>1, <1>2, <1>3, AfterAnswerCases DEF States, InGame

\* The oldest of a client's messages, and the rest.
LEMMA QueueParts ==
  ASSUME NEW q \in Seq(Answers), q # <<>>
  PROVE  Head(q) \in Answers /\ Tail(q) \in Seq(Answers)
OBVIOUS

\* A message that may be written at the end of a queue.
LEMMA MessageTyped ==
  ASSUME NEW d, NEW to, NEW m \in Answers
  PROVE  Message(d, to, m) \in Seq(Answers)
BY DEF Message

\* What no step of a client or the server changes beyond its own part: a client
\* that moves to another state moves to a state, at the entry of its handler.
LEMMA EnterTyped ==
  ASSUME TypeInv, NEW c \in Clients, NEW s \in States, Enter(c, s)
  PROVE  /\ state' \in [Clients -> States] /\ step' \in [Clients -> {"start", "enter", "receiving"}]
         /\ Stepping'
BY DEF Enter, TypeInv, TypeOK, Stepping, States, StateNames

\* Every reachable state of the session is well typed.
LEMMA TypeInvariant == Spec => []TypeInv
<1>1. Init => TypeInv
  BY SessionAssumption DEF Init, TypeInv, TypeOK, Stepping, Plain, StateNames, DB!Init, DB!NoSeats
<1>2. TypeInv /\ [Next]_vars => TypeInv'
  <2> SUFFICES ASSUME TypeInv, [Next]_vars PROVE TypeInv'
    OBVIOUS
  <2>0. TypeOK /\ Stepping /\ state \in [Clients -> States]
    BY DEF TypeInv, TypeOK, States
  <2>a. ASSUME state' \in [Clients -> States] PROVE
          state' \in [Clients -> [name : StateNames]
                  \cup [name : {"NeedToJoinGame", "JoinedGame", "CreatedNewGame"}, id : GameIds]
                  \cup [name : {"NeedToAcceptConnectionFromExpectedPeer"}, peer : Clients]]
    BY <2>a DEF States
  <2> USE DEF db, client
  <2>1. ASSUME NEW c \in Clients, Start(c) PROVE TypeInv'
    BY <2>0, <2>1 DEF Start, At, TypeInv, TypeOK, Stepping
  <2>2. ASSUME NEW c \in Clients, Connect(c) PROVE TypeInv'
    <3>1. /\ Plain("ConnectedToCentralServer") \in States
          /\ Plain("FailedToConnectToCentralServer") \in States
      BY DEF Plain, States, StateNames, ErrorStates
    <3>2. PICK s \in States : Enter(c, s)
      BY <2>2, <3>1 DEF Connect
    <3>3. link' \in [Clients -> {"none", "elsewhere", "up", "down"}]
      BY <2>0, <2>2 DEF Connect, TypeOK
    <3> QED
      BY <2>0, <2>2, <2>a, <3>2, <3>3, EnterTyped DEF Connect, TypeInv, TypeOK
  <2>3. ASSUME NEW c \in Clients, ActOnConnected(c) PROVE TypeInv'
    <3>1. Plain("NeedToCreateNewGame") \in States
      BY DEF Plain, States, StateNames
    <3>2. \A g \in GameIds : InGame("NeedToJoinGame", g) \in States
      BY DEF InGame, States
    <3>3. PICK s \in States : Enter(c, s)
      BY <2>3, <3>1, <3>2 DEF ActOnConnected
    <3> QED
      BY <2>0, <2>3, <2>a, <3>3, EnterTyped DEF ActOnConnected, TypeInv, TypeOK
  <2>4. ASSUME NEW c \in Clients, SendRequest(c) PROVE TypeInv'
    <3>1. state[c] \in States /\ state[c].name \in {"NeedToCreateNewGame", "NeedToJoinGame"}
      BY <2>0, <2>4 DEF SendRequest, At
    <3>2. CASE Enter(c, Plain(FailureOf(state[c].name))) /\ UNCHANGED toServer
      <4>1. Plain(FailureOf(state[c].name)) \in States
        BY <3>1, FailureIsState DEF Receivers
      <4> QED
        BY <2>0, <2>4, <2>a, <3>2, <4>1, EnterTyped DEF SendRequest, TypeInv, TypeOK
    <3>3. CASE /\ step' = [step EXCEPT ![c] = "receiving"] /\ UNCHANGED state
      <4>1. toServer' \in [Clients -> Requests \cup {NoRequest}]
        <5>1. [type |-> "CreateNewGameRequest"] \in Requests
          BY DEF Requests
        <5>2. state[c].name = "NeedToJoinGame" => [type |-> "JoinGameRequest", id |-> state[c].id] \in Requests
          BY <3>1, StateFields DEF Requests
        <5>3. toServer' = toServer \/ \E r \in Requests : toServer' = [toServer EXCEPT ![c] = r]
          BY <2>4, <3>1, <5>1, <5>2 DEF SendRequest, Enter
        <5> QED
          BY <2>0, <5>3 DEF TypeOK
      <4>2. Stepping'
        BY <2>0, <3>1, <3>3 DEF Stepping, TypeOK, Receivers
      <4> QED
        BY <2>0, <2>4, <3>3, <4>1, <4>2 DEF SendRequest, TypeInv, TypeOK
    <3> QED
      BY <2>4, <3>2, <3>3 DEF SendRequest
  <2>5. ASSUME NEW c \in Clients, ActOnCreated(c) PROVE TypeInv'
    BY <2>0, <2>5 DEF ActOnCreated, At, TypeInv, TypeOK, Stepping, Receivers
  <2>6. ASSUME NEW c \in Clients, ReceiveAnswer(c) PROVE TypeInv'
    <3>1. state[c] \in States /\ state[c].name \in Receivers /\ toClient[c] \in Seq(Answers)
      BY <2>0, <2>6 DEF ReceiveAnswer, Stepping, TypeOK
    <3>2. Head(toClient[c]) \in Answers /\ Tail(toClient[c]) \in Seq(Answers)
      BY <2>6, <3>1, QueueParts DEF ReceiveAnswer
    <3>3. AfterAnswer(state[c], Head(toClient[c])) \in States
      BY <3>1, <3>2, AfterAnswerIsState
    <3>4. toClient' \in [Clients -> Seq(Answers)]
      BY <2>0, <2>6, <3>2 DEF ReceiveAnswer, TypeOK
    <3> QED
      BY <2>0, <2>6, <2>a, <3>3, <3>4, EnterTyped DEF ReceiveAnswer, TypeInv, TypeOK
  <2>7. ASSUME NEW c \in Clients, ReceiveFails(c) PROVE TypeInv'
    <3>1. Plain(FailureOf(state[c].name)) \in States
      BY <2>0, <2>7, FailureIsState DEF ReceiveFails, Stepping
    <3> QED
      BY <2>0, <2>7, <2>a, <3>1, EnterTyped DEF ReceiveFails, TypeInv, TypeOK
  <2>8. ASSUME NEW c \in Clients, ExitOnError(c) PROVE TypeInv'
    BY <2>0, <2>8 DEF ExitOnError, TypeInv, TypeOK, Stepping
  <2>9. ASSUME NEW c \in Clients, ServeCreate(c) PROVE TypeInv'
    <3>1. PICK g \in GameIds \cup {"NoAvailableSpaceInGameDB"} :
            /\ UNCHANGED FstPlayerId \/ FstPlayerId' = [FstPlayerId EXCEPT ![g] = c]
            /\ toClient' = [d \in Clients |-> toClient[d]
                 \o Message(d, c, [type |-> "CreateNewGameResponse", id |-> g])]
      BY <2>9 DEF ServeCreate
    <3>2. [type |-> "CreateNewGameResponse", id |-> g] \in Answers
      BY DEF Answers
    <3>3. toClient' \in [Clients -> Seq(Answers)]
      BY <2>0, <3>1, <3>2, MessageTyped DEF TypeOK
    <3>4. FstPlayerId' \in [GameIds -> Clients \cup {NoPlayer}]
      BY <2>0, <3>1 DEF TypeOK
    <3> QED
      BY <2>0, <2>9, <3>3, <3>4 DEF ServeCreate, TypeInv, TypeOK, Stepping
  <2>10. ASSUME NEW c \in Clients, ServeJoin(c) PROVE TypeInv'
    <3> DEFINE g == toServer[c].id
    <3>1. JoinResult(g) \in {"Success", "GameIdDoesNotExist", "GameAlreadyHasTwoPlayers"}
      BY DEF JoinResult
    <3>2. /\ [type |-> "JoinGameResponse", result |-> JoinResult(g)] \in Answers
          /\ [type |-> "SocketAddress", peer |-> c] \in Answers
      BY <3>1 DEF Answers
    <3>3. toClient' \in [Clients -> Seq(Answers)]
      <4>1. ASSUME NEW d \in Clients PROVE toClient'[d] \in Seq(Answers)
        <5>1. toClient[d] \in Seq(Answers)
          BY <2>0 DEF TypeOK
        <5>2. Message(d, c, [type |-> "JoinGameResponse", result |-> JoinResult(g)]) \in Seq(Answers)
          BY <3>2, MessageTyped
        <5>3. Message(d, FstPlayerId[g], [type |-> "SocketAddress", peer |-> c]) \in Seq(Answers)
          BY <3>2, MessageTyped
        <5> QED
          BY <2>10, <5>1, <5>2, <5>3 DEF ServeJoin
      <4> QED
        BY <2>10, <4>1 DEF ServeJoin
    <3>4. SndPlayerId' \in [GameIds -> Clients \cup {NoPlayer}]
      BY <2>0, <2>10 DEF ServeJoin, TypeOK
    <3> QED
      BY <2>0, <2>10, <3>3, <3>4 DEF ServeJoin, TypeInv, TypeOK, Stepping
  <2>11. CASE Restart
    BY <2>0, <2>11 DEF Restart, DB!Forget, DB!NoSeats, TypeInv, TypeOK, Stepping
  <2>12. ASSUME NEW c \in Clients, Lose(c) PROVE TypeInv'
    BY <2>0, <2>12 DEF Lose, TypeInv, TypeOK, Stepping
  <2>13. CASE UNCHANGED vars
    BY <2>0, <2>13 DEF vars, TypeInv, TypeOK, Stepping
  <2> QED
    BY <2>1, <2>2, <2>3, <2>4, <2>5, <2>6, <2>7, <2>8, <2>9, <2>10, <2>11, <2>12, <2>13
    DEF Next, ClientStep
<1> QED
  BY <1>1, <1>2, PTL DEF Spec

\* Every variable keeps its type.
THEOREM TypeCorrect == Spec => []TypeOK
<1>1. TypeInv => TypeOK
  BY DEF TypeInv
<1> QED
  BY <1>1, TypeInvariant, PTL

---------------------------------------------------------------------------
(* The conversation of a client with the server, and the seats.            *)

Created(id) == [type |-> "CreateNewGameResponse", id |-> id]
Joined(result) == [type |-> "JoinGameResponse", result |-> result]
Guest(p) == [type |-> "SocketAddress", peer |-> p]

NoRole(c) == \A g \in GameIds : FstPlayerId[g] # c /\ SndPlayerId[g] # c
Quiet(c) == toServer[c] = NoRequest /\ toClient[c] = <<>>
Up(c) == link[c] = "up"

\* Only a restart leaves something to read on a connection that is gone.
NothingLeft ==
  \A c \in Clients :
    /\ restarts = 0 /\ ~Up(c) => toClient[c] = <<>>
    /\ step[c] = "start" => ~Up(c)

\* NothingLeft holds in every reachable state.
LEMMA NothingLeftCorrect == Spec => []NothingLeft
<1>1. Init => NothingLeft
  BY DEF Init, NothingLeft, Up
<1>2. TypeInv /\ NothingLeft /\ [Next]_vars => NothingLeft'
  <2> SUFFICES ASSUME TypeInv, NothingLeft, [Next]_vars PROVE NothingLeft'
    OBVIOUS
  <2> USE DEF client, db
  <2>0. TypeOK
    BY DEF TypeInv
  <2>1. ASSUME NEW c \in Clients, ClientStep(c) PROVE NothingLeft'
    BY <2>0, <2>1 DEF ClientStep, Start, Connect, ActOnConnected, SendRequest, ActOnCreated,
                      ReceiveAnswer, ReceiveFails, ExitOnError, At, Enter, NothingLeft, Up, TypeOK
  <2>2. ASSUME NEW c \in Clients, ServeCreate(c) \/ ServeJoin(c) PROVE NothingLeft'
    <3>1. UNCHANGED <<step, link, restarts>>
      BY <2>2 DEF ServeCreate, ServeJoin
    <3>2. ASSUME NEW d \in Clients, ~Up(d), toClient[d] = <<>> PROVE toClient'[d] = <<>>
      <4>1. \A to, m : Message(d, to, m) = <<>>
        BY <3>2 DEF Message, Up
      <4>2. <<>> \o <<>> = <<>> /\ (<<>> \o <<>>) \o <<>> = <<>>
        OBVIOUS
      <4>3. CASE ServeCreate(c)
        <5>1. PICK g : toClient' = [e \in Clients |-> toClient[e]
                 \o Message(e, c, [type |-> "CreateNewGameResponse", id |-> g])]
          BY <4>3 DEF ServeCreate
        <5> QED
          BY <3>2, <4>1, <4>2, <5>1
      <4>4. CASE ServeJoin(c)
        <5>1. PICK result, host : toClient' = [e \in Clients |-> toClient[e]
                 \o Message(e, c, [type |-> "JoinGameResponse", result |-> result])
                 \o IF result = "Success"
                    THEN Message(e, host, [type |-> "SocketAddress", peer |-> c])
                    ELSE <<>>]
          BY <4>4 DEF ServeJoin
        <5> QED
          BY <3>2, <4>1, <4>2, <5>1
      <4> QED
        BY <2>2, <4>3, <4>4
    <3> QED
      BY <3>1, <3>2 DEF NothingLeft, Up
  <2>3. ASSUME NEW c \in Clients, Lose(c) PROVE NothingLeft'
    BY <2>0, <2>3 DEF Lose, NothingLeft, Up, TypeOK
  <2>4. CASE Restart
    BY <2>0, <2>4 DEF Restart, NothingLeft, Up, TypeOK
  <2>5. CASE UNCHANGED vars
    BY <2>5 DEF vars, NothingLeft, Up
  <2> QED
    BY <2>1, <2>2, <2>3, <2>4, <2>5 DEF Next
<1> QED
  BY <1>1, <1>2, TypeInvariant, PTL DEF Spec

\* The answer to a creation, and perhaps the guest's address behind it.
AwaitsId(c) ==
  \/ toServer[c] = [type |-> "CreateNewGameRequest"] /\ toClient[c] = <<>>
  \/ Quiet(c) /\ ~Up(c)
  \/ /\ toServer[c] = NoRequest /\ toClient[c] = <<Created("NoAvailableSpaceInGameDB")>>
     /\ Up(c) => NoRole(c)
  \/ \E g \in GameIds :
       /\ toServer[c] = NoRequest /\ toClient[c] = <<Created(g)>>
       /\ Up(c) => FstPlayerId[g] = c /\ SndPlayerId[g] = NoPlayer
  \/ \E g \in GameIds, p \in Clients :
       /\ toServer[c] = NoRequest /\ toClient[c] = <<Created(g), Guest(p)>>
       /\ Up(c) => FstPlayerId[g] = c /\ SndPlayerId[g] = p

AwaitsSeat(c) ==
  /\ \A g \in GameIds : FstPlayerId[g] # c
  /\ \/ toServer[c] = [type |-> "JoinGameRequest", id |-> state[c].id] /\ toClient[c] = <<>>
     \/ Quiet(c)
     \/ \E result \in {"Success", "GameIdDoesNotExist", "GameAlreadyHasTwoPlayers"} :
          /\ toServer[c] = NoRequest /\ toClient[c] = <<Joined(result)>>
          /\ Up(c) /\ result = "Success" => SndPlayerId[state[c].id] = c

AwaitsGuest(c) ==
  \/ /\ Quiet(c)
     /\ Remembered(c) => FstPlayerId[state[c].id] = c
     /\ Up(c) => SndPlayerId[state[c].id] = NoPlayer
  \/ \E p \in Clients :
       /\ toServer[c] = NoRequest /\ toClient[c] = <<Guest(p)>>
       /\ Up(c) => FstPlayerId[state[c].id] = c /\ SndPlayerId[state[c].id] = p

\* What may be under way between a client that has not failed and the server,
\* and which seat it holds there.
Talk(c) ==
  /\ \/ state[c].name \in {"NeedToConnectToCentralServer", "ConnectedToCentralServer"}
     \/ state[c].name \in {"NeedToCreateNewGame", "NeedToJoinGame"} /\ step[c] # "receiving"
     => Quiet(c) /\ NoRole(c)
  /\ state[c].name = "NeedToCreateNewGame" /\ step[c] = "receiving" => AwaitsId(c)
  /\ state[c].name = "NeedToJoinGame" /\ step[c] = "receiving" => AwaitsSeat(c)
  /\ state[c].name = "CreatedNewGame" => AwaitsGuest(c)
  /\ state[c].name = "NeedToAcceptConnectionFromExpectedPeer" =>
       /\ Quiet(c)
       /\ Remembered(c) => \E g \in GameIds : FstPlayerId[g] = c /\ SndPlayerId[g] = state[c].peer
  /\ state[c].name = "JoinedGame" =>
       /\ Quiet(c) /\ \A g \in GameIds : FstPlayerId[g] # c
       /\ Remembered(c) => SndPlayerId[state[c].id] = c

\* A client hosts at most one game, is the guest of at most one, and never both;
\* there is no guest without a host; who has asked and was not served yet has no seat.
Roles ==
  /\ \A g, h \in GameIds : FstPlayerId[g] \in Clients =>
       /\ FstPlayerId[g] = FstPlayerId[h] => g = h
       /\ FstPlayerId[g] # SndPlayerId[h]
  /\ \A g, h \in GameIds :
       SndPlayerId[g] \in Clients /\ SndPlayerId[g] = SndPlayerId[h] => g = h
  /\ \A g \in GameIds : FstPlayerId[g] = NoPlayer => SndPlayerId[g] = NoPlayer
  /\ \A c \in Clients : toServer[c] # NoRequest => NoRole(c)

IInv == TypeInv /\ NothingLeft /\ Roles /\ \A c \in Clients : Talk(c)

\* Who asked for a game waits for its id, or has failed since.
LEMMA WhoCreates ==
  ASSUME TypeInv, NEW c \in Clients, Talk(c), toServer[c].type = "CreateNewGameRequest"
  PROVE  \/ state[c].name \in ErrorStates
         \/ state[c].name = "NeedToCreateNewGame" /\ step[c] = "receiving" /\ toClient[c] = <<>>
<1>1. toServer[c] # NoRequest
  BY DEF NoRequest
<1>2. state[c] \in States
  BY DEF TypeInv, TypeOK, States
<1>3. state[c].name \in ErrorStates \cup
        {"NeedToConnectToCentralServer", "ConnectedToCentralServer", "NeedToCreateNewGame",
         "NeedToJoinGame", "JoinedGame", "CreatedNewGame",
         "NeedToAcceptConnectionFromExpectedPeer"}
  BY <1>2 DEF States, StateNames
<1>4. CASE state[c].name = "NeedToCreateNewGame"
  BY <1>1, <1>4 DEF Talk, AwaitsId, Quiet
<1>5. CASE state[c].name = "NeedToJoinGame"
  <2>1. toServer[c] # [type |-> "JoinGameRequest", id |-> state[c].id]
    OBVIOUS
  <2> QED
    BY <1>1, <1>5, <2>1 DEF Talk, AwaitsSeat, Quiet
<1> QED
  BY <1>1, <1>3, <1>4, <1>5 DEF Talk, AwaitsGuest, Quiet

\* Who asked for a seat waits to be told about that game, or has failed since.
LEMMA WhoJoins ==
  ASSUME TypeInv, NEW c \in Clients, Talk(c), toServer[c].type = "JoinGameRequest"
  PROVE  \/ state[c].name \in ErrorStates
         \/ /\ state[c].name = "NeedToJoinGame" /\ step[c] = "receiving"
            /\ toServer[c].id = state[c].id /\ toClient[c] = <<>>
<1>1. toServer[c] # NoRequest
  BY DEF NoRequest
<1>2. state[c] \in States
  BY DEF TypeInv, TypeOK, States
<1>3. state[c].name \in ErrorStates \cup
        {"NeedToConnectToCentralServer", "ConnectedToCentralServer", "NeedToCreateNewGame",
         "NeedToJoinGame", "JoinedGame", "CreatedNewGame",
         "NeedToAcceptConnectionFromExpectedPeer"}
  BY <1>2 DEF States, StateNames
<1>4. CASE state[c].name = "NeedToCreateNewGame"
  <2>1. toServer[c] # [type |-> "CreateNewGameRequest"]
    OBVIOUS
  <2> QED
    BY <1>1, <1>4, <2>1 DEF Talk, AwaitsId, Quiet
<1>5. CASE state[c].name = "NeedToJoinGame"
  BY <1>1, <1>5 DEF Talk, AwaitsSeat, Quiet
<1> QED
  BY <1>1, <1>3, <1>4, <1>5 DEF Talk, AwaitsGuest, Quiet

\* A client that a step leaves alone, and whose seats it leaves alone.
LEMMA Undisturbed ==
  ASSUME NEW d \in Clients, Talk(d),
         state[d].name \in {"JoinedGame", "CreatedNewGame", "NeedToJoinGame"} => state[d].id \in GameIds,
         state'[d] = state[d], step'[d] = step[d], link'[d] = link[d],
         toServer'[d] = toServer[d], toClient'[d] = toClient[d], restarts' = restarts,
         \A g \in GameIds :
           /\ (FstPlayerId'[g] = d) <=> (FstPlayerId[g] = d)
           /\ (SndPlayerId'[g] = d) <=> (SndPlayerId[g] = d)
           /\ FstPlayerId[g] = d => SndPlayerId'[g] = SndPlayerId[g]
  PROVE  Talk(d)'
<1>1. Quiet(d)' <=> Quiet(d)
  BY DEF Quiet
<1>2. NoRole(d)' <=> NoRole(d)
  BY DEF NoRole
<1>3. AwaitsId(d) => AwaitsId(d)'
  BY <1>1, <1>2 DEF AwaitsId, Up
<1>4. AwaitsSeat(d) /\ state[d].name = "NeedToJoinGame" => AwaitsSeat(d)'
  BY <1>1 DEF AwaitsSeat, Up
<1>5. AwaitsGuest(d) /\ state[d].name = "CreatedNewGame" => AwaitsGuest(d)'
  BY <1>1 DEF AwaitsGuest, Up, Remembered
<1> QED
  BY <1>1, <1>2, <1>3, <1>4, <1>5 DEF Talk, Up, Remembered

\* A step of a client that leaves the other clients, the games and what is under
\* way to others alone keeps the invariant if it keeps its own conversation.
LEMMA ClientAloneKeeps ==
  ASSUME IInv, TypeInv', NothingLeft', NEW c \in Clients, Talk(c)',
         UNCHANGED <<FstPlayerId, SndPlayerId, restarts>>,
         \A d \in Clients \ {c} :
           /\ state'[d] = state[d] /\ step'[d] = step[d] /\ link'[d] = link[d]
           /\ toServer'[d] = toServer[d] /\ toClient'[d] = toClient[d],
         toServer'[c] # NoRequest => toServer'[c] = toServer[c] \/ NoRole(c)
  PROVE  IInv'
<1>1. ASSUME NEW d \in Clients \ {c} PROVE Talk(d)'
  <2>1. state[d] \in States
    BY DEF IInv, TypeInv, TypeOK, States
  <2> QED
    BY <1>1, <2>1, StateFields, Undisturbed DEF IInv
<1>2. Roles'
  BY DEF IInv, Roles, NoRole
<1> QED
  BY <1>1, <1>2 DEF IInv

\* Writing nothing, and writing one message after none or one.
LEMMA NothingMore ==
  ASSUME NEW q \in Seq(Answers)
  PROVE  q \o <<>> = q
BY ConcatEmptySeq

LEMMA OneMore ==
  ASSUME NEW m \in Answers
  PROVE  /\ <<>> \o <<m>> = <<m>>
         /\ \A n \in Answers : <<n>> \o <<m>> = <<n, m>>
<1>1. <<>> \o <<m>> = <<m>>
  OBVIOUS
<1>2. ASSUME NEW n \in Answers PROVE <<n>> \o <<m>> = <<n, m>>
  <2> DEFINE s == <<n>> \o <<m>>
             t == <<n, m>>
  <2>1. <<n>> \in Seq(Answers) /\ <<m>> \in Seq(Answers) /\ Len(<<n>>) = 1 /\ Len(<<m>>) = 1
    OBVIOUS
  <2>2. s \in Seq(Answers) /\ Len(s) = 2
    BY <2>1, ConcatProperties
  <2>3. 1 \in 1..2 /\ 2 \in 1..2
    OBVIOUS
  <2>4. s[1] = n /\ s[2] = m
    <3>1. \A i \in 1..2 : s[i] = IF i <= 1 THEN <<n>>[i] ELSE <<m>>[i - 1]
      BY <2>1, ConcatProperties
    <3>2. <<n>>[1] = n /\ <<m>>[2 - 1] = m
      OBVIOUS
    <3> HIDE DEF s
    <3> QED
      BY <2>3, <3>1, <3>2
  <2>5. t \in Seq(Answers) /\ Len(t) = 2 /\ t[1] = n /\ t[2] = m
    OBVIOUS
  <2> HIDE DEF s, t
  <2>6. \A i \in 1..Len(s) : s[i] = t[i]
    BY <2>2, <2>4, <2>5
  <2>7. s = t
    BY <2>2, <2>5, <2>6, SeqEqual
  <2> QED
    BY <2>7 DEF s, t
<1> QED
  BY <1>1, <1>2

\* The server creates a game for c, or has no room.
LEMMA CreateKeeps ==
  ASSUME IInv, TypeInv', NothingLeft', NEW c \in Clients, ServeCreate(c)
  PROVE  IInv'
<1> USE DEF client
<1>0. TypeOK /\ Talk(c) /\ Roles /\ NoRole(c)
  BY DEF IInv, TypeInv, ServeCreate, Roles, NoRequest
<1>1. PICK id \in GameIds \cup {"NoAvailableSpaceInGameDB"} :
        /\ \/ id = "NoAvailableSpaceInGameDB" /\ UNCHANGED FstPlayerId
           \/ /\ id \in GameIds /\ FstPlayerId[id] = NoPlayer
              /\ FstPlayerId' = [FstPlayerId EXCEPT ![id] = c]
        /\ toClient' = [d \in Clients |-> toClient[d] \o Message(d, c, Created(id))]
  BY DEF ServeCreate, DB!Stored, Created
<1>2. Created(id) \in Answers
  BY DEF Created, Answers
<1>3. \A g \in GameIds : FstPlayerId'[g] = IF g = id THEN c ELSE FstPlayerId[g]
  BY <1>0, <1>1, SessionAssumption DEF TypeOK
<1>4. Roles'
  <2>1. \A d \in Clients : toServer'[d] # NoRequest => d # c /\ toServer[d] # NoRequest
    BY <1>0 DEF ServeCreate, TypeOK
  <2>2. ASSUME NEW d \in Clients, toServer'[d] # NoRequest PROVE NoRole(d)'
    BY <1>0, <1>3, <2>1, <2>2 DEF Roles, NoRole, ServeCreate
  <2>3. ASSUME NEW g \in GameIds, NEW h \in GameIds, FstPlayerId'[g] \in Clients
        PROVE  (FstPlayerId'[g] = FstPlayerId'[h] => g = h) /\ FstPlayerId'[g] # SndPlayerId[h]
    BY <1>0, <1>3, <2>3 DEF Roles, NoRole
  <2>4. ASSUME NEW g \in GameIds, FstPlayerId'[g] = NoPlayer PROVE SndPlayerId[g] = NoPlayer
    BY <1>0, <1>3, <2>4, SessionAssumption DEF Roles
  <2>5. SndPlayerId' = SndPlayerId
    BY DEF ServeCreate
  <2> QED
    BY <1>0, <2>2, <2>3, <2>4, <2>5 DEF Roles
<1>5. ASSUME NEW d \in Clients, d # c PROVE Talk(d)'
  <2>1. state[d] \in States /\ toClient[d] \in Seq(Answers)
    BY <1>0 DEF TypeOK, States
  <2>2. toClient'[d] = toClient[d]
    BY <1>1, <1>2, <1>5, <2>1, NothingMore DEF Message
  <2>3. toServer'[d] = toServer[d]
    BY <1>0, <1>5 DEF ServeCreate, TypeOK
  <2>4. \A g \in GameIds :
          /\ (FstPlayerId'[g] = d) <=> (FstPlayerId[g] = d)
          /\ SndPlayerId'[g] = SndPlayerId[g]
    BY <1>1, <1>3, <1>5, SessionAssumption DEF ServeCreate
  <2> QED
    BY <2>1, <2>2, <2>3, <2>4, StateFields, Undisturbed DEF IInv, ServeCreate
<1>6. Talk(c)'
  <2>1. CASE state[c].name \in ErrorStates
    BY <2>1 DEF Talk, ServeCreate, ErrorStates
  <2>2. CASE state[c].name = "NeedToCreateNewGame" /\ step[c] = "receiving" /\ toClient[c] = <<>>
    <3>1. toServer'[c] = NoRequest
      BY <1>0 DEF ServeCreate, TypeOK
    <3>2. CASE ~Up(c)
      <4>1. toClient'[c] = <<>>
        BY <1>1, <1>2, <2>2, <3>2, NothingMore DEF Message, Up
      <4>2. AwaitsId(c)'
        BY <3>1, <3>2, <4>1 DEF AwaitsId, Quiet, Up, ServeCreate
      <4> QED
        BY <2>2, <4>2 DEF Talk, ServeCreate
    <3>3. CASE Up(c)
      <4>1. toClient'[c] = <<Created(id)>>
        <5>1. Message(c, c, Created(id)) = <<Created(id)>>
          BY <3>3 DEF Message, Up
        <5> QED
          BY <1>1, <1>2, <2>2, <5>1, OneMore
      <4>2. AwaitsId(c)'
        <5>1. CASE id = "NoAvailableSpaceInGameDB" /\ UNCHANGED FstPlayerId
          BY <1>0, <3>1, <4>1, <5>1 DEF AwaitsId, NoRole, ServeCreate
        <5>2. CASE id \in GameIds /\ FstPlayerId[id] = NoPlayer
          BY <1>0, <1>3, <3>1, <4>1, <5>2 DEF AwaitsId, Roles, ServeCreate
        <5> QED
          BY <1>1, <5>1, <5>2
      <4> QED
        BY <2>2, <4>2 DEF Talk, ServeCreate
    <3> QED
      BY <3>2, <3>3
  <2> QED
    BY <1>0, <2>1, <2>2, WhoCreates DEF IInv, ServeCreate
<1> QED
  BY <1>4, <1>5, <1>6 DEF IInv

\* The server answers the request of c for a seat, and tells the host.
LEMMA JoinKeeps ==
  ASSUME IInv, TypeInv', NothingLeft', NEW c \in Clients, ServeJoin(c)
  PROVE  IInv'
<1> DEFINE g == toServer[c].id
           result == JoinResult(g)
<1>a. PICK host : host = FstPlayerId[g]
  OBVIOUS
<1>0. TypeOK /\ Talk(c) /\ Roles /\ NoRole(c) /\ g \in GameIds
  BY DEF IInv, TypeInv, TypeOK, ServeJoin, Roles, NoRequest, Requests
<1>1. /\ UNCHANGED <<state, step, exit, link, FstPlayerId, restarts>>
      /\ toServer' = [toServer EXCEPT ![c] = NoRequest]
      /\ SndPlayerId' = IF result = "Success" THEN [SndPlayerId EXCEPT ![g] = c] ELSE SndPlayerId
      /\ toClient' = [d \in Clients |-> toClient[d]
           \o Message(d, c, Joined(result))
           \o IF result = "Success" THEN Message(d, host, Guest(c)) ELSE <<>>]
  BY <1>a DEF ServeJoin, client, Joined, Guest
<1>2. result \in {"Success", "GameIdDoesNotExist", "GameAlreadyHasTwoPlayers"}
  BY DEF JoinResult
<1>3. result = "Success" => host \in Clients /\ host # c /\ SndPlayerId[g] = NoPlayer
  BY <1>0, <1>a DEF JoinResult, DB!Stored, NoRole, TypeOK
<1>4. Joined(result) \in Answers /\ Guest(c) \in Answers
  BY <1>2 DEF Joined, Guest, Answers
<1> HIDE DEF g, result
<1>5. \A x \in GameIds :
        SndPlayerId'[x] = IF result = "Success" /\ x = g THEN c ELSE SndPlayerId[x]
  BY <1>0, <1>1 DEF TypeOK
<1>6. \A d \in Clients : toServer'[d] = IF d = c THEN NoRequest ELSE toServer[d]
  BY <1>0, <1>1 DEF TypeOK
<1>7. ASSUME NEW d \in Clients
      PROVE  toClient'[d] =
               IF d = c /\ Up(c) THEN toClient[c] \o <<Joined(result)>>
               ELSE IF result = "Success" /\ d = host /\ Up(d) THEN toClient[d] \o <<Guest(c)>>
               ELSE toClient[d]
  <2>1. toClient[d] \in Seq(Answers) /\ (toClient[d] \o <<Joined(result)>>) \in Seq(Answers)
    BY <1>0, <1>4 DEF TypeOK
  <2>2. toClient[d] \o <<>> = toClient[d]
        /\ (toClient[d] \o <<Joined(result)>>) \o <<>> = toClient[d] \o <<Joined(result)>>
    BY <2>1, NothingMore
  <2>3. toClient'[d] = (toClient[d] \o Message(d, c, Joined(result)))
           \o (IF result = "Success" THEN Message(d, host, Guest(c)) ELSE <<>>)
    BY <1>1
  <2> QED
    BY <1>3, <2>2, <2>3 DEF Message, Up
<1>8. Roles'
  <2>1. ASSUME NEW d \in Clients, toServer'[d] # NoRequest PROVE NoRole(d)'
    BY <1>0, <1>1, <1>5, <1>6, <2>1 DEF Roles, NoRole
  <2>2. ASSUME NEW x \in GameIds, NEW y \in GameIds, FstPlayerId[x] \in Clients
        PROVE  (FstPlayerId[x] = FstPlayerId[y] => x = y) /\ FstPlayerId[x] # SndPlayerId'[y]
    BY <1>0, <1>5, <2>2 DEF Roles, NoRole
  <2>3. ASSUME NEW x \in GameIds, FstPlayerId[x] = NoPlayer PROVE SndPlayerId'[x] = NoPlayer
    BY <1>0, <1>3, <1>5, <1>a, <2>3, SessionAssumption DEF Roles
  <2>4. ASSUME NEW x \in GameIds, NEW y \in GameIds,
               SndPlayerId'[x] \in Clients, SndPlayerId'[x] = SndPlayerId'[y]
        PROVE  x = y
    BY <1>0, <1>5, <2>4 DEF Roles, NoRole
  <2> QED
    BY <1>1, <2>1, <2>2, <2>3, <2>4 DEF Roles
<1>9. ASSUME NEW d \in Clients, d # c, ~(result = "Success" /\ d = host) PROVE Talk(d)'
  <2>1. state[d] \in States
    BY <1>0 DEF TypeOK, States
  <2>2. \A x \in GameIds :
          /\ (SndPlayerId'[x] = d) <=> (SndPlayerId[x] = d)
          /\ FstPlayerId[x] = d => SndPlayerId'[x] = SndPlayerId[x]
    BY <1>0, <1>3, <1>5, <1>9, <1>a, SessionAssumption
  <2> QED
    BY <1>1, <1>6, <1>7, <1>9, <2>1, <2>2, StateFields, Undisturbed DEF IInv
<1>10. Talk(c)'
  <2>1. CASE state[c].name \in ErrorStates
    BY <1>1, <2>1 DEF Talk, ErrorStates
  <2>2. CASE /\ state[c].name = "NeedToJoinGame" /\ step[c] = "receiving"
             /\ g = state[c].id /\ toClient[c] = <<>>
    <3>1. toServer'[c] = NoRequest /\ \A x \in GameIds : FstPlayerId'[x] # c
      BY <1>0, <1>1, <1>6 DEF NoRole
    <3>2. CASE ~Up(c)
      <4>1. toClient'[c] = <<>>
        BY <1>3, <1>7, <2>2, <3>2
      <4> QED
        BY <1>1, <2>2, <3>1, <4>1 DEF Talk, AwaitsSeat, Quiet
    <3>3. CASE Up(c)
      <4>1. toClient'[c] = <<Joined(result)>>
        BY <1>4, <1>7, <2>2, <3>3, OneMore
      <4>2. result = "Success" => SndPlayerId'[g] = c
        BY <1>0, <1>5
      <4>3. AwaitsSeat(c)'
        BY <1>1, <1>2, <2>2, <3>1, <4>1, <4>2 DEF AwaitsSeat
      <4> QED
        BY <1>1, <2>2, <4>3 DEF Talk
    <3> QED
      BY <3>2, <3>3
  <2> QED
    BY <1>0, <2>1, <2>2, WhoJoins DEF IInv, ServeJoin, g
<1>11. ASSUME result = "Success" PROVE Talk(host)'
  <2>1. /\ host \in Clients /\ host # c /\ SndPlayerId[g] = NoPlayer
        /\ FstPlayerId[g] = host /\ Talk(host) /\ state[host] \in States
    BY <1>0, <1>3, <1>11, <1>a DEF IInv, TypeOK, States
  <2>2. toServer[host] = NoRequest /\ toServer'[host] = NoRequest
    BY <1>0, <1>6, <2>1 DEF Roles, NoRole
  <2>3. CASE ~Up(host)
    <3>1. toClient'[host] = toClient[host] /\ ~Up(host)' /\ Remembered(host)' = Remembered(host)
      BY <1>1, <1>7, <2>1, <2>3 DEF Up, Remembered
    <3>2. Quiet(host) = Quiet(host)' /\ NoRole(host) = FALSE
      BY <1>0, <2>1, <2>2, <3>1 DEF Quiet, NoRole
    <3>3. AwaitsId(host) => AwaitsId(host)'
      BY <1>0, <1>1, <2>1, <2>2, <2>3, <3>1, <3>2 DEF AwaitsId, NoRequest
    <3>4. ~AwaitsSeat(host) /\ state[host].name # "JoinedGame"
      BY <1>0, <2>1 DEF AwaitsSeat, Talk
    <3>5. AwaitsGuest(host) => AwaitsGuest(host)'
      BY <1>1, <2>2, <2>3, <3>1, <3>2 DEF AwaitsGuest
    <3>6. ASSUME NEW h \in GameIds, FstPlayerId[h] = host, SndPlayerId[h] \in Clients
          PROVE  FALSE
      BY <1>0, <2>1, <3>6, SessionAssumption DEF Roles
    <3>7. state[host].name = "NeedToAcceptConnectionFromExpectedPeer" => ~Remembered(host)
      BY <2>1, <3>6, StateFields DEF Talk
    <3> QED
      BY <1>1, <2>1, <3>1, <3>2, <3>3, <3>4, <3>5, <3>7 DEF Talk, ErrorStates
  <2>4. CASE Up(host)
    <3>1. toClient'[host] = toClient[host] \o <<Guest(c)>>
      BY <1>7, <1>11, <2>1, <2>4
    <3>2. FstPlayerId'[g] = host /\ SndPlayerId'[g] = c /\ ~NoRole(host)
      BY <1>0, <1>1, <1>5, <1>11, <2>1 DEF NoRole
    <3>3. \A x \in GameIds : FstPlayerId[x] = host => x = g
      BY <1>0, <2>1 DEF Roles
    <3>4. state[host].name \in ErrorStates \cup {"NeedToCreateNewGame", "CreatedNewGame"}
      BY <1>0, <2>1, <2>4, <3>2, <3>3, SessionAssumption
      DEF Talk, AwaitsSeat, States, StateNames, NoRole, Up, Remembered
    <3>5. CASE state[host].name \in ErrorStates
      BY <1>1, <3>5 DEF Talk, ErrorStates
    <3>6. CASE state[host].name = "NeedToCreateNewGame"
      <4>1. step[host] = "receiving" /\ AwaitsId(host)
        BY <2>1, <3>2, <3>6 DEF Talk
      <4>2. toServer[host] # [type |-> "CreateNewGameRequest"]
        BY <2>2 DEF NoRequest
      <4>3. toClient[host] = <<Created(g)>>
        BY <1>0, <2>1, <2>4, <3>2, <3>3, <4>1, <4>2, SessionAssumption DEF AwaitsId
      <4>4. Created(g) \in Answers
        BY <1>0 DEF Created, Answers
      <4>5. toClient'[host] = <<Created(g), Guest(c)>>
        BY <1>4, <3>1, <4>3, <4>4, OneMore
      <4>6. AwaitsId(host)'
        BY <1>0, <2>2, <3>2, <4>5 DEF AwaitsId
      <4> QED
        BY <1>1, <3>6, <4>1, <4>6 DEF Talk
    <3>7. CASE state[host].name = "CreatedNewGame"
      <4>1. AwaitsGuest(host) /\ state[host].id \in GameIds
        BY <2>1, <3>7, StateFields DEF Talk
      <4>2. toClient[host] = <<>> /\ state[host].id = g
        BY <1>0, <2>1, <2>4, <3>3, <4>1, SessionAssumption DEF AwaitsGuest, Quiet, Up, Remembered
      <4>3. toClient'[host] = <<Guest(c)>>
        BY <1>4, <3>1, <4>2, OneMore
      <4>4. AwaitsGuest(host)'
        BY <1>1, <2>2, <3>2, <4>2, <4>3 DEF AwaitsGuest
      <4> QED
        BY <1>1, <3>7, <4>4 DEF Talk
    <3> QED
      BY <3>4, <3>5, <3>6, <3>7
  <2> QED
    BY <2>3, <2>4
<1> QED
  <2>1. ASSUME NEW d \in Clients PROVE Talk(d)'
    <3>1. CASE d = c
      BY <1>10, <3>1
    <3>2. CASE d # c /\ result = "Success" /\ d = host
      BY <1>11, <3>2
    <3>3. CASE d # c /\ ~(result = "Success" /\ d = host)
      BY <1>9, <3>3
    <3> QED
      BY <3>1, <3>2, <3>3
  <2> QED
    BY <1>8, <2>1 DEF IInv

\* A handler that reads what it expects goes on, with the rest still under way.
LEMMA ReceiveKeeps ==
  ASSUME IInv, NEW c \in Clients, ReceiveAnswer(c)
  PROVE  Talk(c)'
<1> DEFINE m == Head(toClient[c])
<1>0. TypeOK /\ Stepping /\ Talk(c)
  BY DEF IInv, TypeInv
<1>1. /\ state[c] \in States /\ state[c].name \in Receivers /\ step[c] = "receiving"
      /\ toClient[c] \in Seq(Answers) /\ toClient[c] # <<>> /\ m \in Answers
  BY <1>0, QueueParts DEF ReceiveAnswer, TypeOK, States, Stepping
<1>2. /\ state'[c] = AfterAnswer(state[c], m) /\ step'[c] = "enter"
      /\ toClient'[c] = Tail(toClient[c]) /\ toServer' = toServer
      /\ link' = link /\ FstPlayerId' = FstPlayerId /\ SndPlayerId' = SndPlayerId
      /\ Up(c)' = Up(c) /\ (Remembered(c)' => Up(c))
  BY <1>0, <1>1 DEF ReceiveAnswer, Enter, TypeOK, db, IInv, NothingLeft, Up, Remembered
<1>3. CASE state'[c] = Plain(FailureOf(state[c].name))
  <2>1. state'[c].name \in ErrorStates
    BY <1>1, <1>3, FailureIsState DEF Plain
  <2> QED
    BY <2>1 DEF Talk, ErrorStates
<1>4. CASE /\ state[c].name = "NeedToCreateNewGame" /\ m.id \in GameIds
           /\ state'[c] = InGame("CreatedNewGame", m.id)
  <2>1. AwaitsId(c)
    BY <1>0, <1>1, <1>4 DEF Talk
  <2>2. CASE \E g \in GameIds :
               /\ toServer[c] = NoRequest /\ toClient[c] = <<Created(g)>>
               /\ Up(c) => FstPlayerId[g] = c /\ SndPlayerId[g] = NoPlayer
    <3>1. PICK g \in GameIds :
               /\ toServer[c] = NoRequest /\ toClient[c] = <<Created(g)>>
               /\ Up(c) => FstPlayerId[g] = c /\ SndPlayerId[g] = NoPlayer
      BY <2>2
    <3>2. m = Created(g) /\ Tail(toClient[c]) = <<>>
      BY <3>1
    <3>3. state'[c].id = g /\ state'[c].name = "CreatedNewGame"
      BY <1>4, <3>2 DEF InGame, Created
    <3>4. AwaitsGuest(c)'
      BY <1>2, <3>1, <3>2, <3>3 DEF AwaitsGuest, Quiet
    <3> QED
      BY <3>3, <3>4 DEF Talk
  <2>3. CASE \E g \in GameIds, p \in Clients :
               /\ toServer[c] = NoRequest /\ toClient[c] = <<Created(g), Guest(p)>>
               /\ Up(c) => FstPlayerId[g] = c /\ SndPlayerId[g] = p
    <3>1. PICK g \in GameIds, p \in Clients :
               /\ toServer[c] = NoRequest /\ toClient[c] = <<Created(g), Guest(p)>>
               /\ Up(c) => FstPlayerId[g] = c /\ SndPlayerId[g] = p
      BY <2>3
    <3>2. m = Created(g) /\ Tail(toClient[c]) = <<Guest(p)>>
      BY <3>1
    <3>3. state'[c].id = g /\ state'[c].name = "CreatedNewGame"
      BY <1>4, <3>2 DEF InGame, Created
    <3>4. AwaitsGuest(c)'
      BY <1>2, <3>1, <3>2, <3>3 DEF AwaitsGuest
    <3> QED
      BY <3>3, <3>4 DEF Talk
  <2>4. toClient[c] # <<Created("NoAvailableSpaceInGameDB")>>
    <3>1. m = Created("NoAvailableSpaceInGameDB") => m.id = "NoAvailableSpaceInGameDB"
      BY DEF Created
    <3> QED
      BY <1>4, <3>1, SessionAssumption
  <2> QED
    BY <1>1, <2>1, <2>2, <2>3, <2>4 DEF AwaitsId, Quiet
<1>5. CASE /\ state[c].name = "NeedToJoinGame" /\ m.result = "Success"
           /\ state'[c] = InGame("JoinedGame", state[c].id)
  <2>1. AwaitsSeat(c)
    BY <1>0, <1>1, <1>5 DEF Talk
  <2>2. PICK result \in {"Success", "GameIdDoesNotExist", "GameAlreadyHasTwoPlayers"} :
          /\ toServer[c] = NoRequest /\ toClient[c] = <<Joined(result)>>
          /\ Up(c) /\ result = "Success" => SndPlayerId[state[c].id] = c
    BY <1>1, <2>1 DEF AwaitsSeat, Quiet
  <2>3. result = "Success" /\ Tail(toClient[c]) = <<>>
    BY <1>5, <2>2 DEF Joined
  <2>4. state'[c].id = state[c].id /\ state'[c].name = "JoinedGame"
    BY <1>5 DEF InGame
  <2> QED
    BY <1>2, <2>1, <2>2, <2>3, <2>4 DEF Talk, AwaitsSeat, Quiet
<1>6. CASE /\ state[c].name = "CreatedNewGame"
           /\ state'[c] = [name |-> "NeedToAcceptConnectionFromExpectedPeer", peer |-> m.peer]
  <2>1. AwaitsGuest(c) /\ state[c].id \in GameIds
    BY <1>0, <1>1, <1>6, StateFields DEF Talk
  <2>2. PICK p \in Clients :
          /\ toServer[c] = NoRequest /\ toClient[c] = <<Guest(p)>>
          /\ Up(c) => FstPlayerId[state[c].id] = c /\ SndPlayerId[state[c].id] = p
    BY <1>1, <2>1 DEF AwaitsGuest, Quiet
  <2>3. m = Guest(p) /\ Tail(toClient[c]) = <<>>
    BY <2>2
  <2>4. state'[c].peer = p /\ state'[c].name = "NeedToAcceptConnectionFromExpectedPeer"
    BY <1>6, <2>3 DEF Guest
  <2> QED
    BY <1>2, <2>1, <2>2, <2>3, <2>4 DEF Talk, Quiet
<1> QED
  BY <1>1, <1>2, <1>3, <1>4, <1>5, <1>6, AfterAnswerCases

\* A client that enters an error state has nothing left to be true of it.
LEMMA FailedKeeps ==
  ASSUME NEW c \in Clients, state'[c].name \in ErrorStates
  PROVE  Talk(c)'
BY DEF Talk, ErrorStates

\* Every step of a client keeps the invariant.
LEMMA ClientKeeps ==
  ASSUME IInv, TypeInv', NothingLeft', NEW c \in Clients, ClientStep(c)
  PROVE  IInv'
<1> USE DEF client, db
<1>0. TypeOK /\ Stepping /\ Talk(c) /\ state[c] \in States
  BY DEF IInv, TypeInv, TypeOK, States
<1>1. CASE Start(c)
  <2>1. Talk(c)'
    BY <1>0, <1>1 DEF Start, At, Talk, Quiet, NoRole
  <2> QED
    BY <1>0, <1>1, <2>1, ClientAloneKeeps DEF Start, TypeOK
<1>2. CASE Connect(c)
  <2>1. Talk(c)'
    BY <1>0, <1>2, FailedKeeps DEF Connect, At, Enter, Plain, Talk, Quiet, NoRole, TypeOK, ErrorStates
  <2> QED
    BY <1>0, <1>2, <2>1, ClientAloneKeeps DEF Connect, Enter, TypeOK
<1>3. CASE ActOnConnected(c)
  <2>1. Talk(c)'
    BY <1>0, <1>3 DEF ActOnConnected, At, Enter, Plain, InGame, Talk, Quiet, NoRole, TypeOK
  <2> QED
    BY <1>0, <1>3, <2>1, ClientAloneKeeps DEF ActOnConnected, Enter, TypeOK
<1>4. CASE SendRequest(c)
  <2>1. /\ Quiet(c) /\ NoRole(c)
        /\ state[c].name \in {"NeedToCreateNewGame", "NeedToJoinGame"}
    BY <1>0, <1>4 DEF SendRequest, At, Talk
  <2>2. CASE Enter(c, Plain(FailureOf(state[c].name))) /\ UNCHANGED toServer
    <3>1. state'[c].name \in ErrorStates
      BY <1>0, <2>1, <2>2, FailureIsState DEF Enter, Plain, TypeOK, Receivers
    <3>2. Talk(c)'
      BY <3>1, FailedKeeps
    <3> QED
      BY <1>0, <1>4, <2>2, <3>2, ClientAloneKeeps DEF SendRequest, Enter, TypeOK
  <2>3. CASE step' = [step EXCEPT ![c] = "receiving"] /\ UNCHANGED state
    <3>1. /\ step'[c] = "receiving"
          /\ UNCHANGED <<link, toClient, FstPlayerId, SndPlayerId, restarts>>
          /\ \A d \in Clients \ {c} : step'[d] = step[d] /\ toServer'[d] = toServer[d]
      BY <1>0, <1>4, <2>3 DEF SendRequest, Enter, TypeOK
    <3>2. toServer'[c] = IF ~Up(c) THEN NoRequest
                         ELSE IF state[c].name = "NeedToCreateNewGame"
                              THEN [type |-> "CreateNewGameRequest"]
                              ELSE [type |-> "JoinGameRequest", id |-> state[c].id]
      <4>1. step' # [step EXCEPT ![c] = "enter"]
        BY <1>0, <2>3 DEF TypeOK
      <4> QED
        BY <1>0, <1>4, <2>1, <4>1 DEF SendRequest, Enter, TypeOK, Quiet, Up
    <3>3. CASE state[c].name = "NeedToCreateNewGame"
      <4>1. AwaitsId(c)'
        BY <2>1, <3>1, <3>2, <3>3 DEF AwaitsId, Quiet, Up
      <4>2. Talk(c)'
        BY <2>3, <3>1, <3>3, <4>1 DEF Talk
      <4> QED
        BY <2>1, <2>3, <3>1, <4>2, ClientAloneKeeps
    <3>4. CASE state[c].name = "NeedToJoinGame"
      <4>1. AwaitsSeat(c)'
        BY <2>1, <2>3, <3>1, <3>2, <3>4 DEF AwaitsSeat, Quiet, Up, NoRole
      <4>2. Talk(c)'
        BY <2>3, <3>1, <3>4, <4>1 DEF Talk
      <4> QED
        BY <2>1, <2>3, <3>1, <4>2, ClientAloneKeeps
    <3> QED
      BY <2>1, <3>3, <3>4
  <2> QED
    BY <1>4, <2>2, <2>3 DEF SendRequest
<1>5. CASE ActOnCreated(c)
  <2>1. AwaitsGuest(c)'
    BY <1>0, <1>5 DEF ActOnCreated, At, Talk, AwaitsGuest, Quiet, Up, Remembered
  <2>2. Talk(c)'
    BY <1>5, <2>1 DEF ActOnCreated, At, Talk
  <2> QED
    BY <1>0, <1>5, <2>2, ClientAloneKeeps DEF ActOnCreated, TypeOK
<1>6. CASE ReceiveAnswer(c)
  <2>1. Talk(c)'
    BY <1>6, ReceiveKeeps
  <2> QED
    BY <1>0, <1>6, <2>1, ClientAloneKeeps DEF ReceiveAnswer, Enter, TypeOK
<1>7. CASE ReceiveFails(c)
  <2>1. state'[c].name \in ErrorStates
    BY <1>0, <1>7, FailureIsState DEF ReceiveFails, Enter, Plain, TypeOK, Stepping
  <2>2. Talk(c)'
    BY <2>1, FailedKeeps
  <2> QED
    BY <1>0, <1>7, <2>2, ClientAloneKeeps DEF ReceiveFails, Enter, TypeOK
<1>8. CASE ExitOnError(c)
  <2>1. Talk(c)'
    BY <1>8, FailedKeeps DEF ExitOnError
  <2> QED
    BY <1>0, <1>8, <2>1, ClientAloneKeeps DEF ExitOnError, TypeOK
<1> QED
  BY <1>1, <1>2, <1>3, <1>4, <1>5, <1>6, <1>7, <1>8 DEF ClientStep

\* A connection that breaks takes what was under way with it.
LEMMA LoseKeeps ==
  ASSUME IInv, TypeInv', NothingLeft', NEW c \in Clients, Lose(c)
  PROVE  IInv'
<1> USE DEF client, db
<1>0. TypeOK /\ Talk(c)
  BY DEF IInv, TypeInv
<1>1. /\ link'[c] = "down" /\ toServer'[c] = NoRequest /\ toClient'[c] = <<>>
      /\ UNCHANGED <<state, step, FstPlayerId, SndPlayerId>>
      /\ \A d \in Clients \ {c} :
           link'[d] = link[d] /\ toServer'[d] = toServer[d] /\ toClient'[d] = toClient[d]
  BY <1>0 DEF Lose, TypeOK
<1>2. Quiet(c)' /\ ~Up(c)' /\ Up(c) /\ Remembered(c) /\ restarts' = restarts
  BY <1>1 DEF Quiet, Up, Lose, Remembered
<1>3. AwaitsId(c)' /\ (AwaitsSeat(c) => AwaitsSeat(c)')
  BY <1>1, <1>2 DEF AwaitsId, AwaitsSeat
<1>4. AwaitsGuest(c) => AwaitsGuest(c)'
  BY <1>1, <1>2 DEF AwaitsGuest
<1>5. Talk(c)'
  BY <1>0, <1>1, <1>2, <1>3, <1>4 DEF Talk, NoRole
<1> QED
  BY <1>1, <1>2, <1>5, ClientAloneKeeps

\* A server that is restarted has forgotten everybody, and nobody is connected.
LEMMA RestartKeeps ==
  ASSUME IInv, TypeInv', NothingLeft', Restart
  PROVE  IInv'
<1> USE DEF client
<1>0. TypeOK
  BY DEF IInv, TypeInv
<1>1. /\ UNCHANGED <<state, step, toClient>>
      /\ \A c \in Clients : link'[c] # "up" /\ toServer'[c] = NoRequest /\ ~Remembered(c)'
      /\ \A g \in GameIds : FstPlayerId'[g] = NoPlayer /\ SndPlayerId'[g] = NoPlayer
  BY <1>0 DEF Restart, DB!Forget, DB!NoSeats, Remembered, TypeOK
<1>2. Roles'
  BY <1>1, SessionAssumption DEF Roles
<1>3. ASSUME NEW c \in Clients PROVE Talk(c)'
  <2>1. Talk(c)
    BY DEF IInv
  <2>2. NoRole(c)' /\ ~Up(c)' /\ (Quiet(c) => Quiet(c)')
    BY <1>1, SessionAssumption DEF NoRole, Up, Quiet
  <2>3. AwaitsId(c) => AwaitsId(c)'
    BY <1>1, <2>2 DEF AwaitsId, Quiet
  <2>4. AwaitsSeat(c) => AwaitsSeat(c)'
    BY <1>1, <2>2 DEF AwaitsSeat, Quiet, NoRole
  <2>5. AwaitsGuest(c) => AwaitsGuest(c)'
    BY <1>1, <2>2 DEF AwaitsGuest
  <2> QED
    BY <1>1, <2>1, <2>2, <2>3, <2>4, <2>5 DEF Talk, NoRole
<1> QED
  BY <1>2, <1>3 DEF IInv

\* The invariant is inductive.
LEMMA Invariant == Spec => []IInv
<1>1. Init => IInv
  <2> SUFFICES ASSUME Init PROVE IInv
    OBVIOUS
  <2>1. TypeInv
    BY SessionAssumption DEF Init, TypeInv, TypeOK, Stepping, Plain, StateNames, DB!Init, DB!NoSeats
  <2>2. \A g \in GameIds : FstPlayerId[g] = NoPlayer /\ SndPlayerId[g] = NoPlayer
    BY DEF Init, DB!Init, DB!NoSeats
  <2>3. Roles
    BY <2>2, SessionAssumption DEF Init, Roles
  <2>4. \A c \in Clients : Talk(c)
    BY <2>2, SessionAssumption DEF Init, Talk, Quiet, NoRole, Plain
  <2>5. NothingLeft
    BY DEF Init, NothingLeft, Up
  <2> QED
    BY <2>1, <2>3, <2>4, <2>5 DEF IInv
<1>2. IInv /\ TypeInv' /\ NothingLeft' /\ [Next]_vars => IInv'
  <2> SUFFICES ASSUME IInv, TypeInv', NothingLeft', [Next]_vars PROVE IInv'
    OBVIOUS
  <2>1. CASE UNCHANGED vars
    BY <2>1 DEF vars, client, db, IInv, Roles, NoRole, Talk, AwaitsId, AwaitsSeat, AwaitsGuest, Quiet, Up, Remembered
  <2> QED
    BY <2>1, ClientKeeps, CreateKeeps, JoinKeeps, LoseKeeps, RestartKeeps DEF Next
<1> QED
  BY <1>1, <1>2, TypeInvariant, NothingLeftCorrect, PTL DEF Spec

---------------------------------------------------------------------------
(* What follows from it.                                                   *)

\* What a client believes about its game is what the server keeps.
THEOREM BeliefCorrect == Spec => []BeliefIsSeat
<1>1. IInv => BeliefIsSeat
  <2> SUFFICES ASSUME IInv, NEW c \in Clients, Remembered(c)
               PROVE  /\ state[c].name = "CreatedNewGame" => FstPlayerId[state[c].id] = c
                      /\ state[c].name = "JoinedGame" => SndPlayerId[state[c].id] = c
    BY DEF BeliefIsSeat
  <2>1. Talk(c) /\ (toClient[c] # <<>> => Up(c))
    BY DEF IInv, NothingLeft, Remembered, Up
  <2> QED
    BY <2>1 DEF Talk, AwaitsGuest
<1> QED
  BY <1>1, Invariant, PTL

\* A host waits for the guest of its own game, who is somebody else.
THEOREM HostCorrect == Spec => []HostAwaitsItsGuest
<1>1. IInv => HostAwaitsItsGuest
  <2> SUFFICES ASSUME IInv, NEW c \in Clients, Remembered(c),
                      state[c].name = "NeedToAcceptConnectionFromExpectedPeer"
               PROVE  /\ state[c].peer # c
                      /\ \E g \in GameIds : FstPlayerId[g] = c /\ SndPlayerId[g] = state[c].peer
    BY DEF HostAwaitsItsGuest
  <2>1. PICK g \in GameIds : FstPlayerId[g] = c /\ SndPlayerId[g] = state[c].peer
    BY DEF IInv, Talk
  <2>2. FstPlayerId[g] # SndPlayerId[g]
    BY <2>1 DEF IInv, Roles
  <2> QED
    BY <2>1, <2>2
<1> QED
  BY <1>1, Invariant, PTL

\* The next message of a client is the one its handler expects.
THEOREM OrderCorrect == Spec => []AnswersInOrder
<1>1. IInv => AnswersInOrder
  <2> SUFFICES ASSUME IInv, NEW c \in Clients, toClient[c] # <<>>,
                      state[c].name \notin ErrorStates
               PROVE  /\ Head(toClient[c]).type = Expected(state[c].name)
                      /\ Len(toClient[c]) = 2 => Head(toClient[c]).type = "CreateNewGameResponse"
    BY DEF AnswersInOrder
  <2>1. Talk(c) /\ state[c] \in States
    BY DEF IInv, TypeInv, TypeOK, States
  <2>2. state[c].name \in Receivers
    BY <2>1 DEF Talk, Quiet, States, StateNames, Receivers
  <2>3. CASE state[c].name = "NeedToCreateNewGame"
    <3>1. AwaitsId(c)
      BY <2>1, <2>3 DEF Talk, Quiet
    <3>2. \E id, p : toClient[c] = <<Created(id)>> \/ toClient[c] = <<Created(id), Guest(p)>>
      BY <3>1 DEF AwaitsId, Quiet
    <3>3. Head(toClient[c]).type = "CreateNewGameResponse"
      BY <3>2 DEF Created
    <3> QED
      BY <2>3, <3>3 DEF Expected
  <2>4. CASE state[c].name = "NeedToJoinGame"
    <3>1. AwaitsSeat(c)
      BY <2>1, <2>4 DEF Talk, Quiet
    <3>2. PICK result : toClient[c] = <<Joined(result)>>
      BY <3>1 DEF AwaitsSeat, Quiet
    <3> QED
      BY <2>4, <3>2 DEF Expected, Joined
  <2>5. CASE state[c].name = "CreatedNewGame"
    <3>1. AwaitsGuest(c)
      BY <2>1, <2>5 DEF Talk
    <3>2. PICK p : toClient[c] = <<Guest(p)>>
      BY <3>1 DEF AwaitsGuest, Quiet
    <3> QED
      BY <2>5, <3>2 DEF Expected, Guest
  <2> QED
    BY <2>2, <2>3, <2>4, <2>5 DEF Receivers
<1> QED
  BY <1>1, Invariant, PTL

\* The moves of a client between its states.
Transitions ==
  {<<"NeedToConnectToCentralServer", "ConnectedToCentralServer">>,
   <<"NeedToConnectToCentralServer", "FailedToConnectToCentralServer">>,
   <<"ConnectedToCentralServer", "NeedToCreateNewGame">>,
   <<"ConnectedToCentralServer", "NeedToJoinGame">>,
   <<"NeedToCreateNewGame", "CreatedNewGame">>,
   <<"NeedToCreateNewGame", "FailedToCreateNewGame">>,
   <<"NeedToJoinGame", "JoinedGame">>, <<"NeedToJoinGame", "FailedToJoinGame">>,
   <<"CreatedNewGame", "NeedToAcceptConnectionFromExpectedPeer">>,
   <<"CreatedNewGame", "FailedToEstablishConnectionWithPeer">>}

\* A handler that receives and fails makes one of them.
LEMMA FailureIsMove ==
  ASSUME NEW name \in Receivers
  PROVE  <<name, FailureOf(name)>> \in Transitions
BY DEF Receivers, FailureOf, Transitions

\* A step of a client stays in the state, ends the process in an error state or
\* before the first handler, or makes one of the moves.
LEMMA MovesAsDeclared ==
  ASSUME TypeInv, NEW d \in Clients, ClientStep(d)
  PROVE  \/ state'[d].name = state[d].name /\ exit'[d] = exit[d]
         \/ /\ exit[d] = "none" /\ exit'[d] = "EXIT_FAILURE" /\ state' = state
            /\ state[d].name \in ErrorStates \cup {"NeedToConnectToCentralServer"}
         \/ /\ exit[d] = "none" /\ exit' = exit
            /\ <<state[d].name, state'[d].name>> \in Transitions
<1> USE DEF client, db
<1>0. TypeOK /\ Stepping /\ state[d] \in States
  BY DEF TypeInv, TypeOK, States
<1>1. CASE Start(d)
  BY <1>0, <1>1 DEF Start, At, TypeOK
<1>2. CASE Connect(d)
  BY <1>0, <1>2 DEF Connect, At, Enter, Plain, TypeOK, Transitions
<1>3. CASE ActOnConnected(d)
  BY <1>0, <1>3 DEF ActOnConnected, At, Enter, Plain, InGame, TypeOK, Transitions
<1>4. CASE SendRequest(d)
  <2>1. /\ exit[d] = "none" /\ exit' = exit
        /\ state[d].name \in {"NeedToCreateNewGame", "NeedToJoinGame"}
    BY <1>4 DEF SendRequest, At
  <2>2. CASE UNCHANGED state
    BY <2>1, <2>2
  <2>3. CASE Enter(d, Plain(FailureOf(state[d].name)))
    <3>1. state'[d].name = FailureOf(state[d].name)
      BY <1>0, <2>3 DEF Enter, Plain, TypeOK
    <3> QED
      BY <2>1, <3>1, FailureIsMove DEF Receivers
  <2> QED
    BY <1>4, <2>2, <2>3 DEF SendRequest
<1>5. CASE ActOnCreated(d)
  BY <1>5 DEF ActOnCreated
<1>6. CASE ReceiveAnswer(d)
  <2>1. state[d].name \in Receivers /\ Head(toClient[d]) \in Answers
    BY <1>0, <1>6, QueueParts DEF ReceiveAnswer, Stepping, TypeOK
  <2>2. exit[d] = "none" /\ exit' = exit /\ state'[d] = AfterAnswer(state[d], Head(toClient[d]))
    BY <1>0, <1>6 DEF ReceiveAnswer, Enter, TypeOK
  <2>3. <<state[d].name, state'[d].name>> \in Transitions
    BY <1>0, <2>1, <2>2, AfterAnswerCases, FailureIsMove DEF Plain, InGame, Transitions
  <2> QED
    BY <2>2, <2>3
<1>7. CASE ReceiveFails(d)
  BY <1>0, <1>7, FailureIsMove DEF ReceiveFails, Enter, Plain, TypeOK, Stepping
<1>8. CASE ExitOnError(d)
  BY <1>0, <1>8 DEF ExitOnError, TypeOK
<1> QED
  BY <1>1, <1>2, <1>3, <1>4, <1>5, <1>6, <1>7, <1>8 DEF ClientStep

\* Each client moves through its states as the handlers are declared.
THEOREM FlowCorrect == Spec => HandlersAsDeclared
<1>1. Init => \A c \in Clients : Flow(c)!Init
  BY DEF Init, Flow!Init, Plain
<1>2. TypeInv /\ [Next]_vars => [\A c \in Clients : [Flow(c)!Next]_<<state[c].name, exit[c]>>]_vars
  <2> SUFFICES ASSUME TypeInv, Next, NEW d \in Clients
               PROVE  [Flow(d)!Next]_<<state[d].name, exit[d]>>
    BY DEF vars
  <2> USE DEF client, db
  <2>0. TypeOK /\ Stepping
    BY DEF TypeInv
  <2>1. CASE state'[d] = state[d] /\ exit'[d] = exit[d]
    BY <2>1
  <2>2. CASE \E c \in Clients : ClientStep(c)
    <3>1. PICK c \in Clients : ClientStep(c)
      BY <2>2
    <3>2. CASE c # d
      <4>1. state'[d] = state[d] /\ exit'[d] = exit[d]
        BY <2>0, <3>1, <3>2
        DEF ClientStep, Start, Connect, ActOnConnected, SendRequest, ActOnCreated, ReceiveAnswer,
            ReceiveFails, ExitOnError, Enter, TypeOK
      <4> QED
        BY <2>1, <4>1
    <3>3. CASE c = d
      <4>1. ClientStep(d)
        BY <3>1, <3>3
      <4>2. CASE state'[d].name = state[d].name /\ exit'[d] = exit[d]
        BY <4>2
      <4>3. CASE /\ exit[d] = "none" /\ exit'[d] = "EXIT_FAILURE" /\ state' = state
                 /\ state[d].name \in ErrorStates \cup {"NeedToConnectToCentralServer"}
        BY <4>3 DEF Flow!Next, Flow!Fail, Flow!ErrorStates, ErrorStates
      <4>4. CASE /\ exit[d] = "none" /\ exit' = exit
                 /\ <<state[d].name, state'[d].name>> \in Transitions
        <5>1. /\ state[d].name \in DOMAIN Flow(d)!Successors
              /\ state'[d].name \in Flow(d)!Successors[state[d].name]
          BY <4>4 DEF Transitions, Flow!Successors
        <5> QED
          BY <4>4, <5>1 DEF Flow!Next, Flow!Handle
      <4> QED
        BY <2>0, <4>1, <4>2, <4>3, <4>4, MovesAsDeclared DEF TypeInv
    <3> QED
      BY <3>2, <3>3
  <2>3. CASE (\E c \in Clients : ServeCreate(c) \/ ServeJoin(c) \/ Lose(c)) \/ Restart
    BY <2>1, <2>3 DEF ServeCreate, ServeJoin, Lose, Restart
  <2> QED
    BY <2>2, <2>3 DEF Next
<1> QED
  BY <1>1, <1>2, TypeInvariant, PTL DEF Spec, HandlersAsDeclared

---------------------------------------------------------------------------
(* Who plays with whom.                                                    *)

\* No two clients the server has not forgotten are rivals for a seat: they host
\* different games, hold the second seats of different games and wait for
\* different guests, and neither of two waiting hosts waits for the other.
NobodySharesASeat ==
  \A c, d \in Clients : c # d /\ Remembered(c) /\ Remembered(d) =>
    /\ state[c].name = "CreatedNewGame" /\ state[d].name = "CreatedNewGame"
         => state[c].id # state[d].id
    /\ state[c].name = "JoinedGame" /\ state[d].name = "JoinedGame"
         => state[c].id # state[d].id
    /\ (/\ state[c].name = "NeedToAcceptConnectionFromExpectedPeer"
        /\ state[d].name = "NeedToAcceptConnectionFromExpectedPeer")
         => state[c].peer # state[d].peer /\ state[c].peer # d

\* The guest a host waits for is not a host, and when it believes to have
\* joined a game, that is the host's game.
GuestMeansTheHost ==
  \A c, d \in Clients :
    (/\ Remembered(c) /\ Remembered(d)
     /\ state[c].name = "NeedToAcceptConnectionFromExpectedPeer" /\ state[c].peer = d) =>
         /\ state[d].name \notin {"CreatedNewGame", "NeedToAcceptConnectionFromExpectedPeer"}
         /\ state[d].name = "JoinedGame" => FstPlayerId[state[d].id] = c

\* The game a waiting host and its guest are in.
LEMMA SeatsOfHost ==
  ASSUME IInv, NEW c \in Clients, Remembered(c),
         state[c].name = "NeedToAcceptConnectionFromExpectedPeer"
  PROVE  /\ state[c].peer \in Clients
         /\ \E g \in GameIds : FstPlayerId[g] = c /\ SndPlayerId[g] = state[c].peer
<1>1. state[c] \in States
  BY DEF IInv, TypeInv, TypeOK, States
<1> QED
  BY <1>1, StateFields DEF IInv, Talk

\* A client that hosts a game or has joined one holds the seat of it.
LEMMA SeatOfBelief ==
  ASSUME IInv, NEW c \in Clients, Remembered(c)
  PROVE  /\ state[c].name = "CreatedNewGame" =>
              state[c].id \in GameIds /\ FstPlayerId[state[c].id] = c
         /\ state[c].name = "JoinedGame" =>
              state[c].id \in GameIds /\ SndPlayerId[state[c].id] = c
<1>1. state[c] \in States
  BY DEF IInv, TypeInv, TypeOK, States
<1>2. Talk(c) /\ (toClient[c] # <<>> => Up(c))
  BY DEF IInv, NothingLeft, Remembered, Up
<1> QED
  BY <1>1, <1>2, StateFields DEF Talk, AwaitsGuest

\* Two clients never take each other's seat, host or guest.
THEOREM SeatsAreExclusive == Spec => []NobodySharesASeat
<1>1. IInv => NobodySharesASeat
  <2> SUFFICES ASSUME IInv, NEW c \in Clients, NEW d \in Clients,
                      c # d, Remembered(c), Remembered(d)
               PROVE  /\ state[c].name = "CreatedNewGame" /\ state[d].name = "CreatedNewGame"
                           => state[c].id # state[d].id
                      /\ state[c].name = "JoinedGame" /\ state[d].name = "JoinedGame"
                           => state[c].id # state[d].id
                      /\ (/\ state[c].name = "NeedToAcceptConnectionFromExpectedPeer"
                          /\ state[d].name = "NeedToAcceptConnectionFromExpectedPeer")
                           => state[c].peer # state[d].peer /\ state[c].peer # d
    BY DEF NobodySharesASeat
  <2>1. ASSUME state[c].name = "NeedToAcceptConnectionFromExpectedPeer",
               state[d].name = "NeedToAcceptConnectionFromExpectedPeer"
        PROVE  state[c].peer # state[d].peer /\ state[c].peer # d
    <3>1. PICK g \in GameIds : FstPlayerId[g] = c /\ SndPlayerId[g] = state[c].peer
      BY <2>1, SeatsOfHost
    <3>2. PICK h \in GameIds : FstPlayerId[h] = d /\ SndPlayerId[h] = state[d].peer
      BY <2>1, SeatsOfHost
    <3>3. state[c].peer \in Clients
      BY <2>1, SeatsOfHost
    <3> QED
      BY <3>1, <3>2, <3>3 DEF IInv, Roles
  <2> QED
    BY <2>1, SeatOfBelief
<1> QED
  BY <1>1, Invariant, PTL

\* Host and guest agree about the game they are about to play.
THEOREM HostAndGuestAgree == Spec => []GuestMeansTheHost
<1>1. IInv => GuestMeansTheHost
  <2> SUFFICES ASSUME IInv, NEW c \in Clients, NEW d \in Clients,
                      Remembered(c), Remembered(d),
                      state[c].name = "NeedToAcceptConnectionFromExpectedPeer",
                      state[c].peer = d
               PROVE  /\ state[d].name \notin {"CreatedNewGame", "NeedToAcceptConnectionFromExpectedPeer"}
                      /\ state[d].name = "JoinedGame" => FstPlayerId[state[d].id] = c
    BY DEF GuestMeansTheHost
  <2>1. PICK g \in GameIds : FstPlayerId[g] = c /\ SndPlayerId[g] = d
    BY SeatsOfHost
  <2>2. \A h \in GameIds : FstPlayerId[h] # d /\ (SndPlayerId[h] = d => h = g)
    BY <2>1 DEF IInv, Roles
  <2>3. state[d].name # "NeedToAcceptConnectionFromExpectedPeer"
    BY <2>2, SeatsOfHost
  <2> QED
    BY <2>1, <2>2, <2>3, SeatOfBelief
<1> QED
  BY <1>1, Invariant, PTL

---------------------------------------------------------------------------
(* The games of the server are a registry.                                 *)

WithinCapacity == IsFiniteSet(DB!Stored) /\ Cardinality(DB!Stored) =< MaxStorageSize

\* What a served creation does to the games: nothing when the server is full,
\* else one more of them, while there was room for it.
LEMMA CreationEffect ==
  ASSUME TypeOK, WithinCapacity, NEW c \in Clients, ServeCreate(c)
  PROVE  \/ UNCHANGED db
         \/ /\ Cardinality(DB!Stored) < MaxStorageSize /\ SndPlayerId' = SndPlayerId
            /\ \E g \in GameIds \ DB!Stored :
                 /\ FstPlayerId' = [FstPlayerId EXCEPT ![g] = c]
                 /\ DB!Stored' = DB!Stored \cup {g}
<1>1. Cardinality(DB!Stored) \in Nat
  BY FS_CardinalityType DEF WithinCapacity
<1>2. CASE Cardinality(DB!Stored) = MaxStorageSize
  BY <1>2 DEF ServeCreate, db
<1>3. CASE Cardinality(DB!Stored) # MaxStorageSize
  <2>1. PICK g \in GameIds \ DB!Stored : FstPlayerId' = [FstPlayerId EXCEPT ![g] = c]
    BY <1>3 DEF ServeCreate
  <2>2. DB!Stored' = DB!Stored \cup {g}
    BY <2>1, SessionAssumption DEF DB!Stored, TypeOK
  <2>3. Cardinality(DB!Stored) < MaxStorageSize
    BY <1>1, <1>3, SessionAssumption DEF WithinCapacity
  <2> QED
    BY <2>1, <2>2, <2>3 DEF ServeCreate
<1> QED
  BY <1>2, <1>3

\* The server keeps only so many games.
LEMMA CapacityKept == Spec => []WithinCapacity
<1>1. Init => WithinCapacity
  <2> SUFFICES ASSUME Init PROVE WithinCapacity
    OBVIOUS
  <2>1. DB!Stored = {}
    BY DEF Init, DB!Init, DB!NoSeats, DB!Stored
  <2> QED
    BY <2>1, FS_EmptySet, SessionAssumption DEF WithinCapacity
<1>2. TypeOK /\ WithinCapacity /\ [Next]_vars => WithinCapacity'
  <2> SUFFICES ASSUME TypeOK, WithinCapacity, [Next]_vars PROVE WithinCapacity'
    OBVIOUS
  <2>1. CASE FstPlayerId' = FstPlayerId
    BY <2>1 DEF WithinCapacity, DB!Stored
  <2>2. CASE Restart
    <3>1. DB!Stored' = {}
      BY <2>2 DEF Restart, DB!Forget, DB!NoSeats, DB!Stored
    <3> QED
      BY <3>1, FS_EmptySet, SessionAssumption DEF WithinCapacity
  <2>3. ASSUME NEW c \in Clients, ServeCreate(c), FstPlayerId' # FstPlayerId
        PROVE  WithinCapacity'
    <3>1. PICK g \in GameIds \ DB!Stored :
            Cardinality(DB!Stored) < MaxStorageSize /\ DB!Stored' = DB!Stored \cup {g}
      BY <2>3, CreationEffect DEF db
    <3>2. Cardinality(DB!Stored) \in Nat
      BY FS_CardinalityType DEF WithinCapacity
    <3>3. IsFiniteSet(DB!Stored') /\ Cardinality(DB!Stored') = Cardinality(DB!Stored) + 1
      BY <3>1, FS_AddElement DEF WithinCapacity
    <3>4. Cardinality(DB!Stored') =< MaxStorageSize
      BY <3>1, <3>2, <3>3, SessionAssumption
    <3> QED
      BY <3>3, <3>4 DEF WithinCapacity
  <2>4. ASSUME NEW c \in Clients, ClientStep(c) \/ ServeJoin(c) \/ Lose(c)
        PROVE  FstPlayerId' = FstPlayerId
    BY <2>4 DEF ClientStep, Start, Connect, ActOnConnected, SendRequest, ActOnCreated,
                ReceiveAnswer, ReceiveFails, ExitOnError, ServeJoin, Lose, db
  <2>5. CASE UNCHANGED vars
    BY <2>1, <2>5 DEF vars, db
  <2> QED
    BY <2>1, <2>2, <2>3, <2>4, <2>5 DEF Next
<1>3. TypeInv => TypeOK
  BY DEF TypeInv
<1> QED
  BY <1>1, <1>2, <1>3, TypeInvariant, PTL DEF Spec

\* Whatever the clients ask for, whichever of them are gone when they are
\* served, the server's games change only as a registry's do: a game is hosted
\* under a free id while there is room, a free seat of an existing game is
\* taken, or everything is forgotten.
THEOREM ServerKeepsRegistry == Spec => DB!Spec
<1>1. Init => DB!Init
  BY DEF Init
<1>2. TypeInv /\ WithinCapacity /\ [Next]_vars => [DB!Next]_DB!vars
  <2> SUFFICES ASSUME TypeInv, WithinCapacity, Next PROVE [DB!Next]_DB!vars
    BY DEF vars, db, DB!vars
  <2>1. CASE UNCHANGED db
    BY <2>1 DEF db, DB!vars
  <2>2. ASSUME NEW c \in Clients, ServeCreate(c) PROVE [DB!Next]_DB!vars
    <3>1. CASE ~UNCHANGED db
      <4>1. DB!Cardinality(DB!Stored) = Cardinality(DB!Stored)
        BY DEF DB!Cardinality, Cardinality
      <4>2. DB!Host(c)
        BY <2>2, <3>1, <4>1, CreationEffect DEF DB!Host, TypeInv
      <4> QED
        BY <4>2 DEF DB!Next
    <3> QED
      BY <2>1, <3>1
  <2>3. ASSUME NEW c \in Clients, ServeJoin(c) PROVE [DB!Next]_DB!vars
    <3> DEFINE g == toServer[c].id
    <3>1. g \in GameIds
      <4>1. toServer[c] \in Requests \cup {NoRequest} /\ toServer[c].type = "JoinGameRequest"
        BY <2>3 DEF ServeJoin, TypeInv, TypeOK
      <4> QED
        BY <4>1 DEF Requests, NoRequest
    <3>2. CASE JoinResult(g) = "Success"
      <4>1. g \in DB!Stored /\ SndPlayerId[g] = NoPlayer
        BY <3>2 DEF JoinResult
      <4>2. DB!Join(c, g)
        BY <2>3, <3>2, <4>1 DEF ServeJoin, DB!Join
      <4> QED
        BY <3>1, <4>2 DEF DB!Next
    <3>3. CASE JoinResult(g) # "Success"
      BY <2>1, <2>3, <3>3 DEF ServeJoin, db
    <3> QED
      BY <3>2, <3>3
  <2>4. CASE Restart
    BY <2>4 DEF Restart, DB!Next
  <2>5. ASSUME NEW c \in Clients, ClientStep(c) \/ Lose(c) PROVE UNCHANGED db
    BY <2>5 DEF ClientStep, Start, Connect, ActOnConnected, SendRequest, ActOnCreated,
                ReceiveAnswer, ReceiveFails, ExitOnError, Lose, db
  <2> QED
    BY <2>1, <2>2, <2>3, <2>4, <2>5 DEF Next
<1> QED
  BY <1>1, <1>2, TypeInvariant, CapacityKept, PTL DEF Spec, DB!Spec

---------------------------------------------------------------------------
(* How far a client can be from its end.                                   *)

\* Steps a process in that state, at that point of its handler, can still make.
StepsLeft(name, at) ==
  CASE name = "NeedToConnectToCentralServer"           -> IF at = "start" THEN 9 ELSE 8
    [] name = "ConnectedToCentralServer"               -> 7
    [] name \in {"NeedToCreateNewGame", "NeedToJoinGame"} -> IF at = "enter" THEN 6 ELSE 5
    [] name = "CreatedNewGame"                         -> IF at = "enter" THEN 4 ELSE 3
    [] name \in {"JoinedGame", "NeedToAcceptConnectionFromExpectedPeer"} -> 2
    [] name \in ErrorStates                            -> 1

Rank(c) == IF exit[c] = "none" THEN StepsLeft(state[c].name, step[c]) ELSE 0

\* The safety half of NobodyWaitsForEver: no step of anyone sets a client back,
\* and each step of its own brings it nearer to its end; it makes nine at most.
ClientsAdvance ==
  [][\A c \in Clients :
       Rank(c)' =< Rank(c) /\ (ClientStep(c) => Rank(c)' < Rank(c))]_vars

\* How many steps each state leaves.
LEMMA StepsOf ==
  ASSUME NEW name, NEW at
  PROVE  /\ name = "NeedToConnectToCentralServer" =>
              StepsLeft(name, at) = IF at = "start" THEN 9 ELSE 8
         /\ name = "ConnectedToCentralServer" => StepsLeft(name, at) = 7
         /\ name \in {"NeedToCreateNewGame", "NeedToJoinGame"} =>
              StepsLeft(name, at) = IF at = "enter" THEN 6 ELSE 5
         /\ name = "CreatedNewGame" => StepsLeft(name, at) = IF at = "enter" THEN 4 ELSE 3
         /\ name \in {"JoinedGame", "NeedToAcceptConnectionFromExpectedPeer"} =>
              StepsLeft(name, at) = 2
         /\ name \in ErrorStates => StepsLeft(name, at) = 1
BY DEF StepsLeft, ErrorStates

\* Every state has its number of steps.
LEMMA RankType ==
  ASSUME NEW s \in States, NEW at
  PROVE  StepsLeft(s.name, at) \in 1..9
<1>1. s.name \in ErrorStates \cup
        {"NeedToConnectToCentralServer", "ConnectedToCentralServer", "NeedToCreateNewGame",
         "NeedToJoinGame", "JoinedGame", "CreatedNewGame",
         "NeedToAcceptConnectionFromExpectedPeer"}
  BY DEF States, StateNames
<1> QED
  BY <1>1, StepsOf

\* A step of a client leaves the others where they are.
LEMMA StepsAreOwn ==
  ASSUME TypeInv, NEW c \in Clients, ClientStep(c), NEW d \in Clients, d # c
  PROVE  state'[d] = state[d] /\ step'[d] = step[d] /\ exit'[d] = exit[d]
BY DEF ClientStep, Start, Connect, ActOnConnected, SendRequest, ActOnCreated, ReceiveAnswer,
       ReceiveFails, ExitOnError, Enter, TypeInv, TypeOK, client

\* A failing handler is behind its client.
LEMMA FailingEnds ==
  ASSUME TypeInv, NEW c \in Clients, exit[c] = "none", exit' = exit,
         state[c].name \in Receivers, Enter(c, Plain(FailureOf(state[c].name)))
  PROVE  Rank(c)' < Rank(c) /\ Rank(c)' \in 0..9
<1>1. state'[c].name = FailureOf(state[c].name) /\ exit'[c] = "none"
  BY DEF Enter, Plain, TypeInv, TypeOK
<1>2. state'[c].name \in ErrorStates
  BY <1>1, FailureIsState
<1>3. Rank(c)' = 1
  BY <1>1, <1>2, StepsOf DEF Rank
<1>4. Rank(c) \in {3, 4, 5, 6}
  <2>1. state[c].name = "CreatedNewGame" \/ state[c].name \in {"NeedToCreateNewGame", "NeedToJoinGame"}
    BY DEF Receivers
  <2>2. StepsLeft(state[c].name, step[c]) \in {3, 4, 5, 6}
    BY <2>1, StepsOf
  <2> QED
    BY <2>2 DEF Rank
<1> QED
  BY <1>3, <1>4

\* Each step of a client brings it nearer to its end.
LEMMA OwnStepAdvances ==
  ASSUME TypeInv, NEW c \in Clients, ClientStep(c)
  PROVE  Rank(c)' < Rank(c) /\ Rank(c)' \in 0..9
<1> USE DEF client, db
<1>0. TypeOK /\ Stepping /\ state[c] \in States
  BY DEF TypeInv, TypeOK, States
<1>1. CASE Start(c)
  <2>1. /\ state' = state /\ state[c].name = "NeedToConnectToCentralServer"
        /\ step[c] = "start" /\ exit[c] = "none"
    BY <1>1 DEF Start, At
  <2>2. exit'[c] = "EXIT_FAILURE" \/ (exit' = exit /\ step'[c] = "enter")
    BY <1>0, <1>1 DEF Start, TypeOK
  <2>3. Rank(c) = 9
    BY <2>1, StepsOf DEF Rank
  <2>4. Rank(c)' \in {0, 8}
    BY <2>1, <2>2, StepsOf DEF Rank
  <2> QED
    BY <2>3, <2>4
<1>2. CASE Connect(c)
  <2>1. /\ state[c].name = "NeedToConnectToCentralServer" /\ step[c] = "enter"
        /\ exit[c] = "none" /\ exit' = exit
        /\ state'[c].name \in {"ConnectedToCentralServer", "FailedToConnectToCentralServer"}
    BY <1>0, <1>2 DEF Connect, At, Enter, Plain, TypeOK
  <2>2. Rank(c) = 8
    BY <2>1, StepsOf DEF Rank
  <2>3. Rank(c)' \in {1, 7}
    BY <2>1, StepsOf DEF Rank, ErrorStates
  <2> QED
    BY <2>2, <2>3
<1>3. CASE ActOnConnected(c)
  <2>1. /\ state[c].name = "ConnectedToCentralServer" /\ exit[c] = "none" /\ exit' = exit
        /\ state'[c].name \in {"NeedToCreateNewGame", "NeedToJoinGame"} /\ step'[c] = "enter"
    BY <1>0, <1>3 DEF ActOnConnected, At, Enter, Plain, InGame, TypeOK
  <2>2. Rank(c) = 7 /\ Rank(c)' = 6
    BY <2>1, StepsOf DEF Rank
  <2> QED
    BY <2>2
<1>4. CASE SendRequest(c)
  <2>1. /\ state[c].name \in {"NeedToCreateNewGame", "NeedToJoinGame"} /\ step[c] = "enter"
        /\ exit[c] = "none" /\ exit' = exit
    BY <1>4 DEF SendRequest, At
  <2>2. CASE step' = [step EXCEPT ![c] = "receiving"] /\ UNCHANGED state
    <3>1. step'[c] = "receiving"
      BY <1>0, <2>2 DEF TypeOK
    <3>2. Rank(c) = 6
      BY <2>1, StepsOf DEF Rank
    <3>3. Rank(c)' = 5
      BY <2>1, <2>2, <3>1, StepsOf DEF Rank
    <3> QED
      BY <3>2, <3>3
  <2>3. CASE Enter(c, Plain(FailureOf(state[c].name)))
    BY <2>1, <2>3, FailingEnds DEF Receivers
  <2> QED
    BY <1>4, <2>2, <2>3 DEF SendRequest
<1>5. CASE ActOnCreated(c)
  <2>1. /\ state[c].name = "CreatedNewGame" /\ step[c] = "enter" /\ exit[c] = "none"
        /\ exit' = exit /\ state' = state /\ step'[c] = "receiving"
    BY <1>0, <1>5 DEF ActOnCreated, At, TypeOK
  <2>2. Rank(c) = 4 /\ Rank(c)' = 3
    BY <2>1, StepsOf DEF Rank
  <2> QED
    BY <2>2
<1>6. CASE ReceiveAnswer(c)
  <2>1. /\ state[c].name \in Receivers /\ step[c] = "receiving" /\ exit[c] = "none"
        /\ exit' = exit /\ Head(toClient[c]) \in Answers
    BY <1>0, <1>6, QueueParts DEF ReceiveAnswer, Stepping, TypeOK
  <2>2. Enter(c, AfterAnswer(state[c], Head(toClient[c])))
    BY <1>6 DEF ReceiveAnswer
  <2>3. CASE AfterAnswer(state[c], Head(toClient[c])) = Plain(FailureOf(state[c].name))
    BY <2>1, <2>2, <2>3, FailingEnds
  <2>4. CASE \/ /\ state[c].name = "NeedToCreateNewGame"
                /\ AfterAnswer(state[c], Head(toClient[c])).name = "CreatedNewGame"
             \/ /\ state[c].name = "NeedToJoinGame"
                /\ AfterAnswer(state[c], Head(toClient[c])).name = "JoinedGame"
             \/ /\ state[c].name = "CreatedNewGame"
                /\ AfterAnswer(state[c], Head(toClient[c])).name
                     = "NeedToAcceptConnectionFromExpectedPeer"
    <3>1. state'[c] = AfterAnswer(state[c], Head(toClient[c])) /\ step'[c] = "enter"
      BY <1>0, <2>2 DEF Enter, TypeOK
    <3>2. exit'[c] = "none"
      BY <2>1
    <3>3. Rank(c) \in {3, 5} /\ (state[c].name # "CreatedNewGame" => Rank(c) = 5)
      BY <2>1, <2>4, StepsOf DEF Rank
    <3>4. Rank(c)' \in {2, 4} /\ (state'[c].name # "CreatedNewGame" => Rank(c)' = 2)
      BY <2>4, <3>1, <3>2, StepsOf DEF Rank
    <3>5. state[c].name = "CreatedNewGame" => state'[c].name # "CreatedNewGame"
      BY <2>4, <3>1
    <3> QED
      BY <3>3, <3>4, <3>5
  <2> QED
    BY <1>0, <2>1, <2>3, <2>4, AfterAnswerCases DEF InGame
<1>7. CASE ReceiveFails(c)
  BY <1>0, <1>7, FailingEnds DEF ReceiveFails, Stepping
<1>8. CASE ExitOnError(c)
  <2>1. exit[c] = "none" /\ state[c].name \in ErrorStates /\ exit'[c] = "EXIT_FAILURE"
    BY <1>0, <1>8 DEF ExitOnError, TypeOK
  <2>2. Rank(c) = 1 /\ Rank(c)' = 0
    BY <2>1, StepsOf DEF Rank
  <2> QED
    BY <2>2
<1> QED
  BY <1>1, <1>2, <1>3, <1>4, <1>5, <1>6, <1>7, <1>8 DEF ClientStep

\* A client makes at most nine steps, whatever the server, the network and the
\* other clients do in between.
THEOREM ClientsNeverLoop == Spec => ClientsAdvance /\ [](\A c \in Clients : Rank(c) \in 0..9)
<1>1. TypeInv => \A c \in Clients : Rank(c) \in 0..9
  <2> SUFFICES ASSUME TypeInv, NEW c \in Clients PROVE Rank(c) \in 0..9
    OBVIOUS
  <2>1. state[c] \in States
    BY DEF TypeInv, TypeOK, States
  <2>2. StepsLeft(state[c].name, step[c]) \in 1..9
    BY <2>1, RankType
  <2> QED
    BY <2>2 DEF Rank
<1>2. TypeInv /\ [Next]_vars =>
        [\A c \in Clients : Rank(c)' =< Rank(c) /\ (ClientStep(c) => Rank(c)' < Rank(c))]_vars
  <2> SUFFICES ASSUME TypeInv, Next, NEW d \in Clients
               PROVE  Rank(d)' =< Rank(d) /\ (ClientStep(d) => Rank(d)' < Rank(d))
    BY DEF vars
  <2>1. Rank(d) \in 0..9
    BY <1>1
  <2>2. CASE ClientStep(d)
    <3>1. Rank(d)' < Rank(d) /\ Rank(d)' \in 0..9
      BY <2>2, OwnStepAdvances
    <3> QED
      BY <2>1, <3>1
  <2>3. CASE ~ClientStep(d)
    <3>1. state'[d] = state[d] /\ step'[d] = step[d] /\ exit'[d] = exit[d]
      <4>1. ASSUME NEW c \in Clients, ClientStep(c)
            PROVE  state'[d] = state[d] /\ step'[d] = step[d] /\ exit'[d] = exit[d]
        BY <2>3, <4>1, StepsAreOwn
      <4>2. CASE (\E c \in Clients : ServeCreate(c) \/ ServeJoin(c) \/ Lose(c)) \/ Restart
        BY <4>2 DEF ServeCreate, ServeJoin, Lose, Restart, client
      <4> QED
        BY <4>1, <4>2 DEF Next
    <3>2. Rank(d)' = Rank(d)
      BY <3>1 DEF Rank
    <3> QED
      BY <2>1, <2>3, <3>2
  <2> QED
    BY <2>2, <2>3
<1> QED
  BY <1>1, <1>2, TypeInvariant, PTL DEF Spec, ClientsAdvance

---------------------------------------------------------------------------
(* The repair of the dispatch is what SuccessMeansJoined needs.            *)

\* Once an answer reaches the lambda written for its type, who reads Success
\* has joined, whatever else happens: the answers' dispatch alone makes
\* SuccessMeansJoined fail.
THEOREM RepairedDispatchJoins ==
  ASSUME "dispatch" \in Repaired
  PROVE  Spec => SuccessMeansJoined
<1>1. IInv /\ [Next]_vars =>
        [\A c \in Clients : ReadsSuccess(c) => state'[c].name = "JoinedGame"]_vars
  <2> SUFFICES ASSUME IInv, Next, NEW c \in Clients, ReadsSuccess(c)
               PROVE  state'[c].name = "JoinedGame"
    BY DEF vars
  <2> USE DEF client, db
  <2>0. TypeInv /\ TypeOK /\ Stepping /\ Talk(c) /\ toClient[c] \in Seq(Answers)
    BY DEF IInv, TypeInv, TypeOK
  <2>1. step[c] = "receiving" /\ step'[c] = "enter" /\ toClient[c] # <<>>
        /\ toClient'[c] = Tail(toClient[c])
        /\ Head(toClient[c]) = Joined("Success")
    BY DEF ReadsSuccess, Joined
  <2>2. state[c].name = "NeedToJoinGame"
    <3>1. state[c].name \in Receivers
      BY <2>0, <2>1 DEF Stepping
    <3>2. state[c].name # "NeedToCreateNewGame"
      <4>1. ASSUME AwaitsId(c)
            PROVE  \E id, p : toClient[c] = <<Created(id)>> \/ toClient[c] = <<Created(id), Guest(p)>>
        BY <2>1, <4>1 DEF AwaitsId, Quiet
      <4>2. \A id : Created(id) # Joined("Success")
        BY DEF Created, Joined
      <4>3. ~AwaitsId(c)
        BY <2>1, <4>1, <4>2
      <4> QED
        BY <2>0, <2>1, <4>3 DEF Talk
    <3>3. state[c].name # "CreatedNewGame"
      <4>1. ASSUME AwaitsGuest(c) PROVE \E p : toClient[c] = <<Guest(p)>>
        BY <2>1, <4>1 DEF AwaitsGuest, Quiet
      <4>2. \A p : Guest(p) # Joined("Success")
        BY DEF Guest, Joined
      <4>3. ~AwaitsGuest(c)
        BY <2>1, <4>1, <4>2
      <4> QED
        BY <2>0, <4>3 DEF Talk
    <3> QED
      BY <3>1, <3>2, <3>3 DEF Receivers
  <2>3. toClient'[c] # toClient[c]
    <3>1. Len(Tail(toClient[c])) # Len(toClient[c])
      BY <2>0, <2>1, HeadTailProperties
    <3> QED
      BY <2>1, <3>1
  <2>4. ClientStep(c)
    <3>1. ASSUME NEW d \in Clients, ClientStep(d) PROVE d = c
      BY <2>0, <2>1, <3>1, StepsAreOwn
    <3>2. ~((\E d \in Clients : ServeCreate(d) \/ ServeJoin(d) \/ Lose(d)) \/ Restart)
      BY <2>1 DEF ServeCreate, ServeJoin, Lose, Restart
    <3> QED
      BY <3>1, <3>2 DEF Next
  <2>5. ReceiveAnswer(c)
    <3>1. ~(Start(c) \/ Connect(c) \/ ActOnConnected(c) \/ SendRequest(c) \/ ActOnCreated(c))
      BY <2>1 DEF Start, Connect, ActOnConnected, SendRequest, ActOnCreated, At
    <3>2. ~(ReceiveFails(c) \/ ExitOnError(c))
      BY <2>1, <2>3 DEF ReceiveFails, ExitOnError
    <3> QED
      BY <2>4, <3>1, <3>2 DEF ClientStep
  <2>6. state'[c] = AfterAnswer(state[c], Joined("Success"))
    BY <2>0, <2>1, <2>5 DEF ReceiveAnswer, Enter, TypeOK
  <2>7. AfterAnswer(state[c], Joined("Success")) = InGame("JoinedGame", state[c].id)
    BY <2>2 DEF AfterAnswer, Joined, Expected
  <2> QED
    BY <2>6, <2>7 DEF InGame
<1> QED
  BY <1>1, Invariant, PTL DEF Spec, SuccessMeansJoined

---------------------------------------------------------------------------
(* The code without the repairs.                                           *)

\* As TcpClient::CreateNew is written, whatever connect() does, no client gets
\* past the handler that connects to the server.
THEOREM NobodyConnects ==
  ASSUME "bind" \notin Repaired
  PROVE  Spec => [](\A c \in Clients :
           state[c].name \in {"NeedToConnectToCentralServer", "FailedToConnectToCentralServer"})
<1> DEFINE Unserved ==
      \A c \in Clients :
        /\ state[c].name \in {"NeedToConnectToCentralServer", "FailedToConnectToCentralServer"}
        /\ step[c] # "start" => link[c] # "none"
<1>1. Init => Unserved
  BY DEF Init, Plain
<1>2. Unserved /\ TypeInv /\ [Next]_vars => Unserved'
  <2> SUFFICES ASSUME Unserved, TypeInv, [Next]_vars PROVE Unserved'
    OBVIOUS
  <2>0. TypeOK /\ Stepping
    BY DEF TypeInv
  <2> USE DEF client, db
  <2>1. CASE \E c \in Clients : Start(c)
    BY <2>0, <2>1 DEF Start, At, TypeOK
  <2>2. CASE \E c \in Clients : Connect(c)
    <3>1. PICK c \in Clients : Connect(c)
      BY <2>2
    <3>2. step[c] = "enter"
      BY <3>1 DEF Connect, At
    <3>3. link' = link /\ Enter(c, Plain("FailedToConnectToCentralServer"))
      BY <3>1, <3>2 DEF Connect
    <3> QED
      BY <2>0, <3>2, <3>3 DEF Enter, Plain, TypeOK
  <2>3. CASE \E c \in Clients : ExitOnError(c)
    BY <2>0, <2>3 DEF ExitOnError, TypeOK
  <2>4. ASSUME NEW c \in Clients
        PROVE  ~(\/ ActOnConnected(c) \/ SendRequest(c) \/ ActOnCreated(c)
                 \/ ReceiveAnswer(c) \/ ReceiveFails(c))
    BY <2>0 DEF ActOnConnected, SendRequest, ActOnCreated, ReceiveAnswer, ReceiveFails, At, Stepping, Receivers
  <2>5. ASSUME NEW c \in Clients, ServeCreate(c) \/ ServeJoin(c)
        PROVE  Unserved'
    BY <2>5 DEF ServeCreate, ServeJoin
  <2>6. ASSUME NEW c \in Clients, Lose(c)
        PROVE  Unserved'
    BY <2>0, <2>6 DEF Lose, TypeOK
  <2>7. CASE Restart
    BY <2>0, <2>7 DEF Restart, TypeOK
  <2>8. CASE UNCHANGED vars
    BY <2>8 DEF vars
  <2> QED
    BY <2>1, <2>2, <2>3, <2>4, <2>5, <2>6, <2>7, <2>8 DEF Next, ClientStep
<1>3. Unserved => \A c \in Clients :
        state[c].name \in {"NeedToConnectToCentralServer", "FailedToConnectToCentralServer"}
  OBVIOUS
<1> QED
  BY <1>1, <1>2, <1>3, TypeInvariant, PTL DEF Spec

\* As the answers are dispatched, nobody ever hosts or joins a game.
THEOREM NobodyPlays ==
  ASSUME "dispatch" \notin Repaired
  PROVE  Spec => [](\A c \in Clients :
           state[c].name \notin {"CreatedNewGame", "JoinedGame",
                                  "NeedToAcceptConnectionFromExpectedPeer"})
<1> DEFINE Unplayed ==
      \A c \in Clients :
        state[c].name \notin {"CreatedNewGame", "JoinedGame",
                              "NeedToAcceptConnectionFromExpectedPeer"}
<1>1. Init => Unplayed
  BY DEF Init, Plain
<1>2. Unplayed /\ TypeInv /\ [Next]_vars => Unplayed'
  <2> SUFFICES ASSUME Unplayed, TypeInv, [Next]_vars PROVE Unplayed'
    OBVIOUS
  <2>0. TypeOK /\ Stepping
    BY DEF TypeInv
  <2> USE DEF client, db
  <2>1. ASSUME NEW c \in Clients, ClientStep(c), NEW d \in Clients
        PROVE  state'[d] = state[d] \/ d = c
    BY <2>0, <2>1
    DEF ClientStep, Start, Connect, ActOnConnected, SendRequest, ActOnCreated, ReceiveAnswer,
        ReceiveFails, ExitOnError, Enter, TypeOK
  <2>2. ASSUME NEW c \in Clients, ClientStep(c)
        PROVE  state'[c].name \notin {"CreatedNewGame", "JoinedGame",
                                       "NeedToAcceptConnectionFromExpectedPeer"}
    <3>1. CASE ReceiveAnswer(c)
      <4>1. /\ state[c].name \in {"NeedToCreateNewGame", "NeedToJoinGame"}
            /\ state'[c] = AfterAnswer(state[c], Head(toClient[c]))
        BY <2>0, <3>1 DEF ReceiveAnswer, Enter, Stepping, Receivers, TypeOK
      <4>2. ~(Head(toClient[c]).type = "SocketAddress" /\ Head(toClient[c]).type = Expected(state[c].name))
        BY <4>1 DEF Expected
      <4>3. state'[c] = Plain(FailureOf(state[c].name))
        BY <4>1, <4>2 DEF AfterAnswer
      <4> QED
        BY <4>1, <4>3, FailureIsState DEF Plain, ErrorStates, Receivers
    <3>2. CASE ~ReceiveAnswer(c)
      <4>1. CASE Start(c) \/ Connect(c) \/ ActOnConnected(c) \/ ActOnCreated(c) \/ ExitOnError(c)
        BY <2>0, <4>1
        DEF Start, Connect, ActOnConnected, ActOnCreated, ExitOnError, Enter, Plain, InGame, TypeOK
      <4>2. CASE SendRequest(c) \/ ReceiveFails(c)
        <5>1. state[c].name \in Receivers
          BY <2>0, <4>2 DEF SendRequest, ReceiveFails, At, Stepping, Receivers
        <5>2. FailureOf(state[c].name) \in ErrorStates
          BY <5>1, FailureIsState
        <5>3. UNCHANGED state \/ state'[c].name = FailureOf(state[c].name)
          BY <2>0, <4>2 DEF SendRequest, ReceiveFails, Enter, Plain, TypeOK
        <5> QED
          BY <5>2, <5>3 DEF ErrorStates
      <4> QED
        BY <2>2, <3>2, <4>1, <4>2 DEF ClientStep
    <3> QED
      BY <3>1, <3>2
  <2>3. CASE \/ \E c \in Clients : ServeCreate(c) \/ ServeJoin(c) \/ Lose(c)
             \/ Restart \/ UNCHANGED vars
    BY <2>3 DEF ServeCreate, ServeJoin, Lose, Restart, vars
  <2> QED
    BY <2>1, <2>2, <2>3 DEF Next
<1> QED
  BY <1>1, <1>2, TypeInvariant, PTL DEF Spec

---------------------------------------------------------------------------
(* The prompt that ActOnConnected stands for.                              *)

VARIABLES line, unread, ended, userAction, action  \* those of ConsoleClient

Console == INSTANCE ConsoleClient

\* One word is neither of the two commands.
LEMMA OneWordIsNoCommand == \A w : Console!Interpret(<<w>>) = "none"
<1> SUFFICES ASSUME NEW w PROVE Console!Interpret(<<w>>) = "none"
  OBVIOUS
<1>1. Len(<<w>>) = 1 /\ Len(Console!newGameCmd) = 2
  BY DEF Console!newGameCmd
<1> QED
  BY <1>1 DEF Console!Interpret

\* Neither is no word at all.
LEMMA NoWordIsNoCommand == Console!Interpret(<<>>) = "none"
<1>1. Len(<<>>) = 0 /\ Len(Console!newGameCmd) = 2
  BY DEF Console!newGameCmd
<1> QED
  BY <1>1 DEF Console!Interpret

\* As `cin >> userAction` is written, nothing the user types, in whatever
\* order, ever becomes an action: the prompt neither returns "create a new
\* game" nor "join a game".
THEOREM NobodyIsUnderstood == Console!Spec => [](action = "none")
<1> DEFINE OneWord == action = "none" /\ (userAction = <<>> \/ \E w : userAction = <<w>>)
<1>1. Console!Init => OneWord
  BY DEF Console!Init
<1>2. OneWord /\ [Console!Next]_Console!vars => OneWord'
  <2> SUFFICES ASSUME OneWord, [Console!Next]_Console!vars PROVE OneWord'
    OBVIOUS
  <2>1. CASE Console!Extract
    <3>1. userAction' = userAction \/ userAction' = <<Head(unread)>>
      BY <2>1 DEF Console!Extract
    <3>2. userAction' = <<>> \/ \E w : userAction' = <<w>>
      BY <3>1
    <3>3. Console!Interpret(userAction') = "none"
      BY <3>2, OneWordIsNoCommand, NoWordIsNoCommand
    <3>4. action' = "none"
      BY <2>1, <3>3 DEF Console!Extract
    <3> QED
      BY <3>2, <3>4
  <2>2. CASE Console!TypeLine \/ Console!EndInput \/ UNCHANGED Console!vars
    BY <2>2 DEF Console!TypeLine, Console!EndInput, Console!vars
  <2> QED
    BY <2>1, <2>2 DEF Console!Next
<1>3. OneWord => action = "none"
  OBVIOUS
<1> QED
  BY <1>1, <1>2, <1>3, PTL DEF Console!Spec

=============================================================================
