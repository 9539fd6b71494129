------------------------------- MODULE GameDB -------------------------------
(***************************************************************************)
(* The server's game database (game_db, with the ids of                    *)
(* primitives/game_id). It runs on one thread: a creation that draws ids   *)
(* until one is free finishes before the next request is looked at.        *)
(* Storage_ and the generator live in memory only, and the generator is    *)
(* seeded with a constant: after a restart the same ids come out again, in *)
(* the same order.                                                         *)
(*                                                                         *)
(* Outside the server, a host tells the id of their game to a friend       *)
(* (console_client.cpp), who joins with it at any later time.              *)
(***************************************************************************)
EXTENDS FiniteSets, Integers

CONSTANTS Players, GameIds, NoPlayer,
          MaxStorageSize,  \* kMaxStorageSize_
          Period, Rng,     \* the generator: Rng[0], Rng[1], ... then again
          MaxRestarts      \* bound: restarts of the server

ASSUME StorageAssumption ==
  /\ IsFiniteSet(GameIds) /\ NoPlayer \notin Players
  /\ MaxStorageSize \in Nat /\ MaxRestarts \in Nat

\* A 64-bit generator produces far more ids than the database has room for.
ASSUME RngAssumption ==
  /\ Period \in Nat \ {0}
  /\ Rng \in [0..(Period - 1) -> GameIds]
  /\ Cardinality({Rng[i] : i \in 0..(Period - 1)}) >= MaxStorageSize

VARIABLES
  FstPlayerId, SndPlayerId,  \* Storage_, as two functions of the game id
  creator,   \* whose CreateNewGame is in its loop, NoPlayer between requests
  rng,       \* position of the static generator
  replies,   \* answers given since the server started
  invites,   \* the game ids hosts told their friends, ever
  meetings,  \* whom the invited players who got a seat expected and met
  restarts

db   == <<FstPlayerId, SndPlayerId>>
vars == <<db, creator, rng, replies, invites, meetings, restarts>>

NoSeats == [g \in GameIds |-> NoPlayer]

\* The keys of Storage_.
Stored == {g \in GameIds : FstPlayerId[g] # NoPlayer}

Init ==
  /\ FstPlayerId = NoSeats /\ SndPlayerId = NoSeats
  /\ creator = NoPlayer /\ rng = 0
  /\ replies = {} /\ invites = {} /\ meetings = {} /\ restarts = 0

---------------------------------------------------------------------------

\* Mutant: the comparison with the capacity is off by one.
CreateNewGameOffByOne(p) ==
  /\ creator = NoPlayer
  /\ IF Cardinality(Stored) > MaxStorageSize
     THEN UNCHANGED vars
     ELSE /\ creator' = p
          /\ UNCHANGED <<db, rng, replies, invites, meetings, restarts>>

\* ProcessAction(CreateNewGame) up to its loop: NoAvailableSpaceInGameDB
\* leaves everything as it was.
CreateNewGame(p) ==
  /\ creator = NoPlayer
  /\ IF Cardinality(Stored) = MaxStorageSize
     THEN UNCHANGED vars
     ELSE /\ creator' = p
          /\ UNCHANGED <<db, rng, replies, invites, meetings, restarts>>

\* Mutant: the generator is not static, every call draws the first number.
TryEmplaceFreshRng ==
  /\ creator # NoPlayer
  /\ LET g == Rng[rng]
     IN  IF g \in Stored
         THEN UNCHANGED <<db, creator, replies, invites>>
         ELSE /\ FstPlayerId' = [FstPlayerId EXCEPT ![g] = creator]
              /\ creator' = NoPlayer
              /\ replies' = replies \cup {[player |-> creator, game |-> g, result |-> "Created"]}
              /\ invites' = invites \cup {[game |-> g, host |-> creator]}
              /\ UNCHANGED SndPlayerId
  /\ rng' = 0
  /\ UNCHANGED <<meetings, restarts>>

\* Mutant: insert_or_assign instead of try_emplace.
InsertOrAssign ==
  /\ creator # NoPlayer
  /\ LET g == Rng[rng]
     IN  /\ FstPlayerId' = [FstPlayerId EXCEPT ![g] = creator]
         /\ SndPlayerId' = [SndPlayerId EXCEPT ![g] = NoPlayer]
         /\ creator' = NoPlayer
         /\ replies' = replies \cup {[player |-> creator, game |-> g, result |-> "Created"]}
         /\ invites' = invites \cup {[game |-> g, host |-> creator]}
  /\ rng' = (rng + 1) % Period
  /\ UNCHANGED <<meetings, restarts>>

\* One round of the loop: draw an id, insert the game if the id is free and
\* return it, else draw again.
TryEmplace ==
  /\ creator # NoPlayer
  /\ LET g == Rng[rng]
     IN  IF g \in Stored
         THEN UNCHANGED <<db, creator, replies, invites>>
         ELSE /\ FstPlayerId' = [FstPlayerId EXCEPT ![g] = creator]
              /\ creator' = NoPlayer
              /\ replies' = replies \cup {[player |-> creator, game |-> g, result |-> "Created"]}
              /\ invites' = invites \cup {[game |-> g, host |-> creator]}
              /\ UNCHANGED SndPlayerId
  /\ rng' = (rng + 1) % Period
  /\ UNCHANGED <<meetings, restarts>>

\* Mutant: the second seat is given away without looking at it.
AddPlayerToGameUnchecked(p, g, hosts) ==
  /\ creator = NoPlayer
  /\ IF g \notin Stored
     THEN UNCHANGED <<SndPlayerId, replies, meetings>>
     ELSE /\ SndPlayerId' = [SndPlayerId EXCEPT ![g] = p]
          /\ replies' = replies \cup {[player |-> p, game |-> g, result |-> "Success"]}
          /\ meetings' = meetings \cup [expected : hosts, actual : {FstPlayerId[g]}]
  /\ UNCHANGED <<FstPlayerId, creator, rng, invites, restarts>>

\* Mutant: Storage_[a.Game] instead of find(): a missing game is made up.
AddPlayerToGameMadeUp(p, g, hosts) ==
  /\ creator = NoPlayer
  /\ IF SndPlayerId[g] # NoPlayer
     THEN UNCHANGED <<SndPlayerId, replies, meetings>>
     ELSE /\ SndPlayerId' = [SndPlayerId EXCEPT ![g] = p]
          /\ replies' = replies \cup {[player |-> p, game |-> g, result |-> "Success"]}
          /\ meetings' = meetings \cup [expected : hosts, actual : {FstPlayerId[g]}]
  /\ UNCHANGED <<FstPlayerId, creator, rng, invites, restarts>>

\* ProcessAction(AddPlayerToGame), by a player who expects to meet `hosts`.
\* GameIdDoesNotExist is true only of that moment, so it is not remembered.
AddPlayerToGame(p, g, hosts) ==
  /\ creator = NoPlayer
  /\ \/ /\ g \notin Stored
        /\ UNCHANGED <<SndPlayerId, replies, meetings>>
     \/ /\ g \in Stored /\ SndPlayerId[g] # NoPlayer
        /\ replies' = replies \cup {[player |-> p, game |-> g, result |-> "GameAlreadyHasTwoPlayers"]}
        /\ UNCHANGED <<SndPlayerId, meetings>>
     \/ /\ g \in Stored /\ SndPlayerId[g] = NoPlayer
        /\ SndPlayerId' = [SndPlayerId EXCEPT ![g] = p]
        /\ replies' = replies \cup {[player |-> p, game |-> g, result |-> "Success"]}
        /\ meetings' = meetings \cup [expected : hosts, actual : {FstPlayerId[g]}]
  /\ UNCHANGED <<FstPlayerId, creator, rng, invites, restarts>>

\* A friend of a host uses the id they were told; anyone may type any id.
JoinInvited(p) == \E invite \in invites : AddPlayerToGame(p, invite.game, {invite.host})
JoinGuessing(p) == \E g \in GameIds : AddPlayerToGame(p, g, {})

\* The server process ends and is started again.
Restart ==
  /\ restarts < MaxRestarts
  /\ restarts' = restarts + 1
  /\ FstPlayerId' = NoSeats /\ SndPlayerId' = NoSeats
  /\ creator' = NoPlayer /\ rng' = 0 /\ replies' = {}
  /\ UNCHANGED <<invites, meetings>>

Next ==
  \/ \E p \in Players : CreateNewGame(p) \/ JoinInvited(p) \/ JoinGuessing(p)
  \/ TryEmplace
  \/ Restart

\* The loop of a creation goes on until it returns.
Spec == Init /\ [][Next]_vars /\ WF_vars(TryEmplace)

---------------------------------------------------------------------------
(* Properties.                                                             *)

Results == {"Created", "Success", "GameAlreadyHasTwoPlayers"}

\* Every variable has its type.
TypeOK ==
  /\ FstPlayerId \in [GameIds -> Players \cup {NoPlayer}]
  /\ SndPlayerId \in [GameIds -> Players \cup {NoPlayer}]
  /\ creator \in Players \cup {NoPlayer}
  /\ rng \in 0..(Period - 1)
  /\ replies \subseteq [player : Players, game : GameIds, result : Results]
  /\ invites \subseteq [game : GameIds, host : Players]
  /\ meetings \subseteq [expected : Players, actual : Players]
  /\ restarts \in Nat

\* The database never outgrows its capacity, and keeps room for the creation
\* it has admitted to the loop.
WithinCapacity ==
  /\ Cardinality(Stored) =< MaxStorageSize
  /\ creator # NoPlayer => Cardinality(Stored) < MaxStorageSize

\* Every answer still describes the database: a host keeps the game they were
\* given, a player told Success keeps the second seat, and a game reported
\* full stays full. In particular nobody else is ever told Success.
RepliesHonoured ==
  \A r \in replies :
    /\ r.result = "Created" => FstPlayerId[r.game] = r.player
    /\ r.result = "Success" => SndPlayerId[r.game] = r.player
    /\ r.result = "GameAlreadyHasTwoPlayers" => SndPlayerId[r.game] # NoPlayer

\* No request empties a seat or gives it to another player; only a restart does.
SeatsKept ==
  [][restarts' = restarts =>
       \A g \in GameIds :
         /\ FstPlayerId[g] # NoPlayer => FstPlayerId'[g] = FstPlayerId[g]
         /\ SndPlayerId[g] # NoPlayer => SndPlayerId'[g] = SndPlayerId[g]]_vars

\* A creation admitted to the loop ends: some id drawn is free.
CreationEnds == creator # NoPlayer ~> creator = NoPlayer

\* The database implements the registry.
Registry == INSTANCE GameRegistry
ImplementsRegistry == Registry!Spec

\* "Tell this game id to the other player and ask them to make a join game
\* request with this game id" (console_client.cpp): who joins with the id a
\* host told them plays with that host.
InvitationsReachHost == \A m \in meetings : m.expected = m.actual

=============================================================================
