--------------------------- MODULE GameDB_proofs ---------------------------
(***************************************************************************)
(* Proofs about GameDB, for every set of players and game ids, every       *)
(* capacity and every sequence of generated ids.                           *)
(***************************************************************************)
EXTENDS GameDB, FiniteSetTheorems, TLAPS

\* Every reachable state of the database has the types TypeOK gives.
THEOREM TypeCorrect == Spec => []TypeOK
<1>1. Init => TypeOK
  BY RngAssumption DEF Init, TypeOK, NoSeats
<1>2. TypeOK /\ [Next]_vars => TypeOK'
  <2> SUFFICES ASSUME TypeOK, [Next]_vars
               PROVE  TypeOK'
    OBVIOUS
  <2> USE DEF TypeOK
  <2>1. ASSUME NEW p \in Players, CreateNewGame(p)
        PROVE  TypeOK'
    BY <2>1 DEF CreateNewGame, vars, db
  <2>2. ASSUME NEW p \in Players, NEW g \in GameIds, NEW hosts \in SUBSET Players,
               AddPlayerToGame(p, g, hosts)
        PROVE  TypeOK'
    <3>1. CASE SndPlayerId' = SndPlayerId /\ meetings' = meetings
      BY <2>2, <3>1 DEF AddPlayerToGame, Results
    <3>2. CASE /\ g \in Stored
               /\ SndPlayerId' = [SndPlayerId EXCEPT ![g] = p]
               /\ replies' = replies \cup {[player |-> p, game |-> g, result |-> "Success"]}
               /\ meetings' = meetings \cup [expected : hosts, actual : {FstPlayerId[g]}]
      BY <2>2, <3>2 DEF AddPlayerToGame, Results, Stored
    <3> QED
      BY <2>2, <3>1, <3>2 DEF AddPlayerToGame
  <2>3. CASE TryEmplace
    <3>1. Rng[rng] \in GameIds /\ rng' \in 0..(Period - 1)
      BY <2>3, RngAssumption DEF TryEmplace
    <3> QED
      BY <2>3, <3>1 DEF TryEmplace, db, Results
  <2>4. CASE Restart
    BY <2>4, RngAssumption DEF Restart, NoSeats
  <2>5. CASE UNCHANGED vars
    BY <2>5 DEF vars, db
  <2>6. ASSUME NEW p \in Players, JoinInvited(p)
        PROVE  TypeOK'
    BY <2>2, <2>6 DEF JoinInvited
  <2>7. ASSUME NEW p \in Players, JoinGuessing(p)
        PROVE  TypeOK'
    BY <2>2, <2>7 DEF JoinGuessing
  <2> QED
    BY <2>1, <2>3, <2>4, <2>5, <2>6, <2>7 DEF Next
<1> QED
  BY <1>1, <1>2, PTL DEF Spec

---------------------------------------------------------------------------
(* The joins of Next, whoever told the id.                                 *)

Joins == \E p \in Players, g \in GameIds, hosts \in SUBSET Players :
           AddPlayerToGame(p, g, hosts)

\* Every step is a creation, a round of its loop, a join, a restart or a
\* stutter.
LEMMA StepCases ==
  ASSUME TypeOK, [Next]_vars
  PROVE  \/ \E p \in Players : CreateNewGame(p)
         \/ TryEmplace \/ Joins \/ Restart \/ UNCHANGED vars
<1>1. ASSUME NEW p \in Players, JoinInvited(p)
      PROVE  Joins
  BY <1>1 DEF JoinInvited, Joins, TypeOK
<1>2. ASSUME NEW p \in Players, JoinGuessing(p)
      PROVE  Joins
  BY <1>2 DEF JoinGuessing, Joins
<1> QED
  BY <1>1, <1>2 DEF Next

\* A join changes no first seat, and fills the second one only if it was free.
LEMMA JoinEffect ==
  ASSUME TypeOK, Joins
  PROVE  /\ UNCHANGED <<FstPlayerId, creator, restarts>>
         /\ \/ UNCHANGED <<SndPlayerId>>
            \/ \E p \in Players, g \in Stored :
                 /\ SndPlayerId[g] = NoPlayer
                 /\ SndPlayerId' = [SndPlayerId EXCEPT ![g] = p]
  BY DEF Joins, AddPlayerToGame

---------------------------------------------------------------------------
(* Capacity.                                                               *)

\* The database never outgrows its capacity.
THEOREM CapacityCorrect == Spec => []WithinCapacity
<1>1. Init => WithinCapacity
  <2> SUFFICES ASSUME Init PROVE WithinCapacity
    OBVIOUS
  <2>1. Stored = {}
    BY DEF Init, Stored, NoSeats
  <2> QED
    BY <2>1, FS_EmptySet, StorageAssumption DEF Init, WithinCapacity
<1>2. TypeOK /\ WithinCapacity /\ [Next]_vars => WithinCapacity'
  <2> SUFFICES ASSUME TypeOK, WithinCapacity, [Next]_vars
               PROVE  WithinCapacity'
    OBVIOUS
  <2>0. IsFiniteSet(Stored) /\ Cardinality(Stored) \in Nat
    BY StorageAssumption, FS_Subset, FS_CardinalityType DEF Stored
  <2>1. ASSUME NEW p \in Players, CreateNewGame(p)
        PROVE  WithinCapacity'
    <3>1. Stored' = Stored
      BY <2>1 DEF CreateNewGame, vars, db, Stored
    <3>2. CASE Cardinality(Stored) = MaxStorageSize
      BY <2>1, <3>1, <3>2 DEF CreateNewGame, vars, WithinCapacity
    <3>3. CASE Cardinality(Stored) # MaxStorageSize
      BY <2>0, <3>1, <3>3, StorageAssumption DEF WithinCapacity
    <3> QED
      BY <3>2, <3>3
  <2>2. CASE TryEmplace
    <3>1. CASE Rng[rng] \in Stored
      <4>1. Stored' = Stored /\ creator' = creator
        BY <2>2, <3>1 DEF TryEmplace, db, Stored
      <4> QED
        BY <4>1 DEF WithinCapacity
    <3>2. CASE Rng[rng] \notin Stored
      <4>1. /\ FstPlayerId' = [FstPlayerId EXCEPT ![Rng[rng]] = creator]
            /\ creator \in Players /\ creator' = NoPlayer
        BY <2>2, <3>2 DEF TryEmplace, TypeOK
      <4>2. Rng[rng] \in GameIds
        BY RngAssumption DEF TypeOK
      <4>3. Stored' = Stored \cup {Rng[rng]}
        BY <4>1, <4>2, StorageAssumption DEF Stored, TypeOK
      <4>4. Cardinality(Stored') = Cardinality(Stored) + 1
        BY <2>0, <3>2, <4>3, FS_AddElement
      <4> QED
        BY <2>0, <2>2, <4>1, <4>4, StorageAssumption DEF WithinCapacity, TryEmplace
    <3> QED
      BY <3>1, <3>2
  <2>3. CASE Joins
    <3>1. FstPlayerId' = FstPlayerId /\ creator' = creator
      BY <2>3, JoinEffect
    <3> QED
      BY <3>1 DEF WithinCapacity, Stored
  <2>4. CASE Restart
    <3>1. Stored' = {} /\ creator' = NoPlayer
      BY <2>4 DEF Restart, Stored, NoSeats
    <3> QED
      BY <3>1, FS_EmptySet, StorageAssumption DEF WithinCapacity
  <2>5. CASE UNCHANGED vars
    BY <2>5 DEF vars, db, WithinCapacity, Stored
  <2> QED
    BY <2>1, <2>2, <2>3, <2>4, <2>5, StepCases
<1> QED
  BY <1>1, <1>2, TypeCorrect, PTL DEF Spec

---------------------------------------------------------------------------
(* Seats.                                                                  *)

\* The seats a step other than a restart finds taken, it leaves as they are.
SeatsStay ==
  restarts' = restarts =>
    \A g \in GameIds :
      /\ FstPlayerId[g] # NoPlayer => FstPlayerId'[g] = FstPlayerId[g]
      /\ SndPlayerId[g] # NoPlayer => SndPlayerId'[g] = SndPlayerId[g]

\* Every step of a well-typed state has that effect.
LEMMA StepKeepsSeats == TypeOK /\ [Next]_vars => SeatsStay
<1> SUFFICES ASSUME TypeOK, [Next]_vars
             PROVE  SeatsStay
  OBVIOUS
<1>1. CASE TryEmplace
  BY <1>1, RngAssumption DEF TryEmplace, SeatsStay, Stored, TypeOK, db
<1>2. CASE Joins
  BY <1>2, JoinEffect DEF SeatsStay, Stored, TypeOK
<1>3. CASE Restart
  BY <1>3 DEF Restart, SeatsStay, TypeOK
<1>4. CASE UNCHANGED db
  BY <1>4 DEF db, SeatsStay
<1>5. (\E p \in Players : CreateNewGame(p)) \/ UNCHANGED vars => UNCHANGED db
  BY DEF CreateNewGame, vars
<1> QED
  BY <1>1, <1>2, <1>3, <1>4, <1>5, StepCases

\* No request empties a seat or gives it to another player.
THEOREM SeatsAreKept == Spec => SeatsKept
<1>1. TypeOK /\ [Next]_vars => [SeatsStay]_vars
  BY StepKeepsSeats
<1> QED
  BY <1>1, TypeCorrect, PTL DEF Spec, SeatsKept, SeatsStay

\* A seat of the answer, once taken, keeps the answer true.
LEMMA OldRepliesHonoured ==
  ASSUME TypeOK, RepliesHonoured, SeatsStay, UNCHANGED restarts,
         NEW r \in replies
  PROVE  /\ r.result = "Created" => FstPlayerId'[r.game] = r.player
         /\ r.result = "Success" => SndPlayerId'[r.game] = r.player
         /\ r.result = "GameAlreadyHasTwoPlayers" => SndPlayerId'[r.game] # NoPlayer
<1>1. r.player # NoPlayer /\ r.game \in GameIds
  BY StorageAssumption DEF TypeOK
<1> QED
  BY <1>1 DEF RepliesHonoured, SeatsStay

\* Every answer given since the server started still describes the database.
THEOREM RepliesCorrect == Spec => []RepliesHonoured
<1>1. Init => RepliesHonoured
  BY DEF Init, RepliesHonoured
<1>2. TypeOK /\ RepliesHonoured /\ [Next]_vars => RepliesHonoured'
  <2> SUFFICES ASSUME TypeOK, RepliesHonoured, [Next]_vars
               PROVE  RepliesHonoured'
    OBVIOUS
  <2>0. SeatsStay
    BY StepKeepsSeats
  <2>1. CASE Restart
    BY <2>1 DEF Restart, RepliesHonoured
  <2>2. CASE UNCHANGED <<replies, restarts>>
    BY <2>0, <2>2, OldRepliesHonoured DEF RepliesHonoured
  <2>3. CASE TryEmplace
    <3>1. CASE Rng[rng] \in Stored
      BY <2>2, <2>3, <3>1 DEF TryEmplace
    <3>2. CASE Rng[rng] \notin Stored
      <4>1. /\ FstPlayerId' = [FstPlayerId EXCEPT ![Rng[rng]] = creator]
            /\ replies' = replies \cup
                 {[player |-> creator, game |-> Rng[rng], result |-> "Created"]}
            /\ UNCHANGED restarts
        BY <2>3, <3>2 DEF TryEmplace
      <4>2. Rng[rng] \in GameIds
        BY RngAssumption DEF TypeOK
      <4>3. FstPlayerId'[Rng[rng]] = creator
        BY <4>1, <4>2 DEF TypeOK
      <4> QED
        BY <2>0, <4>1, <4>3, OldRepliesHonoured DEF RepliesHonoured
    <3> QED
      BY <3>1, <3>2
  <2>4. ASSUME NEW p \in Players, NEW g \in GameIds, NEW hosts \in SUBSET Players,
               AddPlayerToGame(p, g, hosts)
        PROVE  RepliesHonoured'
    <3>1. CASE /\ SndPlayerId[g] # NoPlayer
               /\ replies' = replies \cup {[player |-> p, game |-> g,
                                            result |-> "GameAlreadyHasTwoPlayers"]}
      <4>1. SndPlayerId'[g] # NoPlayer /\ UNCHANGED restarts
        BY <2>0, <2>4, <3>1 DEF AddPlayerToGame, SeatsStay
      <4> QED
        BY <2>0, <3>1, <4>1, OldRepliesHonoured DEF RepliesHonoured
    <3>2. CASE /\ SndPlayerId' = [SndPlayerId EXCEPT ![g] = p]
               /\ replies' = replies \cup {[player |-> p, game |-> g,
                                            result |-> "Success"]}
      <4>1. SndPlayerId'[g] = p /\ UNCHANGED restarts
        BY <2>4, <3>2 DEF AddPlayerToGame, TypeOK
      <4> QED
        BY <2>0, <3>2, <4>1, OldRepliesHonoured DEF RepliesHonoured
    <3> QED
      BY <2>2, <2>4, <3>1, <3>2 DEF AddPlayerToGame
  <2>5. ASSUME NEW p \in Players, CreateNewGame(p)
        PROVE  RepliesHonoured'
    BY <2>2, <2>5 DEF CreateNewGame, vars
  <2>6. CASE UNCHANGED vars
    BY <2>2, <2>6 DEF vars
  <2> QED
    BY <2>1, <2>3, <2>4, <2>5, <2>6, StepCases DEF Joins
<1> QED
  BY <1>1, <1>2, TypeCorrect, PTL DEF Spec

---------------------------------------------------------------------------
(* Refinement.                                                             *)

\* The database implements the registry of module GameRegistry.
THEOREM GameDBImplementsRegistry == Spec => ImplementsRegistry
<1>1. Init => Registry!Init
  BY DEF Init, Registry!Init, NoSeats, Registry!NoSeats
<1>2. TypeOK /\ WithinCapacity /\ [Next]_vars => [Registry!Next]_Registry!vars
  <2> SUFFICES ASSUME TypeOK, WithinCapacity, [Next]_vars
               PROVE  [Registry!Next]_Registry!vars
    OBVIOUS
  <2>0. Registry!Stored = Stored
    BY DEF Registry!Stored, Stored
  <2>1. CASE TryEmplace
    <3>1. CASE Rng[rng] \in Stored
      BY <2>1, <3>1 DEF TryEmplace, db, Registry!vars
    <3>2. CASE Rng[rng] \notin Stored
      <4>1. Rng[rng] \in GameIds /\ creator \in Players
        BY <2>1, RngAssumption DEF TypeOK, TryEmplace
      <4>2. Registry!Cardinality(Registry!Stored) = Cardinality(Stored)
        BY <2>0 DEF Registry!Cardinality, Cardinality
      <4>3. Registry!Host(creator)
        BY <2>0, <2>1, <3>2, <4>1, <4>2 DEF TryEmplace, Registry!Host, WithinCapacity
      <4> QED
        BY <4>1, <4>3 DEF Registry!Next
    <3> QED
      BY <3>1, <3>2
  <2>2. CASE Joins
    <3>1. CASE UNCHANGED <<SndPlayerId>>
      BY <2>2, <3>1, JoinEffect DEF Registry!vars
    <3>2. CASE \E p \in Players, g \in Stored :
                 /\ SndPlayerId[g] = NoPlayer
                 /\ SndPlayerId' = [SndPlayerId EXCEPT ![g] = p]
      <4>1. PICK p \in Players, g \in Stored :
                 /\ SndPlayerId[g] = NoPlayer
                 /\ SndPlayerId' = [SndPlayerId EXCEPT ![g] = p]
        BY <3>2
      <4>2. g \in GameIds /\ Registry!Join(p, g)
        BY <2>0, <2>2, <4>1, JoinEffect DEF Registry!Join, Stored
      <4> QED
        BY <4>2 DEF Registry!Next
    <3> QED
      BY <2>2, <3>1, <3>2, JoinEffect
  <2>3. CASE Restart
    BY <2>3 DEF Restart, NoSeats, Registry!NoSeats, Registry!Next, Registry!Forget
  <2>4. (\E p \in Players : CreateNewGame(p)) \/ UNCHANGED vars
        => UNCHANGED Registry!vars
    BY DEF CreateNewGame, vars, db, Registry!vars
  <2> QED
    BY <2>1, <2>2, <2>3, <2>4, StepCases
<1> QED
  BY <1>1, <1>2, TypeCorrect, CapacityCorrect, PTL
  DEF Spec, ImplementsRegistry, Registry!Spec

---------------------------------------------------------------------------
(* What follows from the answers.                                          *)

\* A game has one host and one guest: as long as the server runs, no id is
\* handed to two hosts, and no two players are told Success for the same game.
OneHostOneGuest ==
  \A r, q \in replies :
    r.game = q.game /\ r.result = q.result /\ r.result \in {"Created", "Success"}
      => r.player = q.player

\* Two players that are told the same of one game are the same player.
THEOREM NobodyToldTwice == Spec => []OneHostOneGuest
<1>1. RepliesHonoured => OneHostOneGuest
  BY DEF RepliesHonoured, OneHostOneGuest
<1> QED
  BY <1>1, RepliesCorrect, PTL

\* Whoever has the second seat of a game has a host opposite.
NoGuestWithoutHost == \A g \in GameIds : SndPlayerId[g] # NoPlayer => g \in Stored

\* No join makes up a game that no creation stored.
THEOREM GuestsHaveHosts == Spec => []NoGuestWithoutHost
<1>1. Init => NoGuestWithoutHost
  BY DEF Init, NoGuestWithoutHost, NoSeats
<1>2. TypeOK /\ NoGuestWithoutHost /\ [Next]_vars => NoGuestWithoutHost'
  <2> SUFFICES ASSUME TypeOK, NoGuestWithoutHost, [Next]_vars
               PROVE  NoGuestWithoutHost'
    OBVIOUS
  <2>1. CASE TryEmplace
    <3>1. SndPlayerId' = SndPlayerId
      BY <2>1 DEF TryEmplace, db
    <3>2. \A g \in Stored : FstPlayerId'[g] = FstPlayerId[g]
      BY <2>1, StepKeepsSeats DEF TryEmplace, SeatsStay, Stored
    <3> QED
      BY <3>1, <3>2 DEF NoGuestWithoutHost, Stored
  <2>2. CASE Joins
    BY <2>2, JoinEffect DEF NoGuestWithoutHost, Stored, TypeOK
  <2>3. CASE Restart
    BY <2>3 DEF Restart, NoGuestWithoutHost, NoSeats
  <2>4. CASE UNCHANGED db
    BY <2>4 DEF db, NoGuestWithoutHost, Stored
  <2>5. (\E p \in Players : CreateNewGame(p)) \/ UNCHANGED vars => UNCHANGED db
    BY DEF CreateNewGame, vars
  <2> QED
    BY <2>1, <2>2, <2>3, <2>4, <2>5, StepCases
<1> QED
  BY <1>1, <1>2, TypeCorrect, PTL DEF Spec

---------------------------------------------------------------------------
(* Invitations.                                                            *)

\* Every id that was told still names the game of the host who told it.
InvitesTrue == \A invite \in invites : FstPlayerId[invite.game] = invite.host

\* As long as the server was never restarted, who joins with the id a host told
\* them plays with that host: the restart is the only thing that makes
\* InvitationsReachHost fail, however players join, guess and create.
THEOREM InvitationsHoldUntilRestart == Spec => [](restarts = 0 => InvitationsReachHost)
<1> DEFINE Inv == restarts = 0 => InvitesTrue /\ InvitationsReachHost
<1>1. Init => Inv
  BY DEF Init, InvitesTrue, InvitationsReachHost
<1>2. TypeOK /\ Inv /\ [Next]_vars => Inv'
  <2> SUFFICES ASSUME TypeOK, Inv, [Next]_vars, restarts' = 0
               PROVE  InvitesTrue' /\ InvitationsReachHost'
    OBVIOUS
  <2>0. ASSUME UNCHANGED restarts
        PROVE  \A invite \in invites : FstPlayerId'[invite.game] = invite.host
    <3>1. InvitesTrue /\ SeatsStay
      BY <2>0, StepKeepsSeats
    <3>2. ASSUME NEW invite \in invites
          PROVE  FstPlayerId'[invite.game] = invite.host
      <4>1. invite.game \in GameIds /\ invite.host # NoPlayer
        BY StorageAssumption DEF TypeOK
      <4> QED
        BY <2>0, <3>1, <4>1 DEF InvitesTrue, SeatsStay
    <3> QED
      BY <3>2
  <2>1. CASE TryEmplace
    <3>1. CASE Rng[rng] \in Stored
      BY <2>0, <2>1, <3>1 DEF TryEmplace, InvitesTrue, InvitationsReachHost
    <3>2. CASE Rng[rng] \notin Stored
      <4>1. /\ FstPlayerId' = [FstPlayerId EXCEPT ![Rng[rng]] = creator]
            /\ invites' = invites \cup {[game |-> Rng[rng], host |-> creator]}
            /\ UNCHANGED <<meetings, restarts>>
        BY <2>1, <3>2 DEF TryEmplace
      <4>2. FstPlayerId'[Rng[rng]] = creator
        BY <4>1, RngAssumption DEF TypeOK
      <4> QED
        BY <2>0, <4>1, <4>2 DEF InvitesTrue, InvitationsReachHost
    <3> QED
      BY <3>1, <3>2
  <2>2. ASSUME NEW p \in Players, NEW g \in GameIds, NEW hosts \in SUBSET Players,
               AddPlayerToGame(p, g, hosts), hosts \subseteq {FstPlayerId[g]}
        PROVE  InvitesTrue' /\ InvitationsReachHost'
    <3>1. UNCHANGED <<invites, restarts>>
      BY <2>2 DEF AddPlayerToGame
    <3>2. InvitesTrue'
      BY <2>0, <3>1 DEF InvitesTrue
    <3>3. \A m \in meetings' : m \in meetings \/ m.expected = m.actual
      BY <2>2 DEF AddPlayerToGame
    <3> QED
      BY <3>1, <3>2, <3>3 DEF InvitationsReachHost
  <2>3. ASSUME NEW p \in Players, JoinInvited(p)
        PROVE  InvitesTrue' /\ InvitationsReachHost'
    <3>1. PICK invite \in invites : AddPlayerToGame(p, invite.game, {invite.host})
      BY <2>3 DEF JoinInvited
    <3>2. invite.game \in GameIds /\ invite.host \in Players /\ UNCHANGED restarts
      BY <3>1 DEF TypeOK, AddPlayerToGame
    <3>3. {invite.host} \subseteq {FstPlayerId[invite.game]}
      BY <3>2 DEF InvitesTrue
    <3> QED
      BY <2>2, <3>1, <3>2, <3>3
  <2>4. ASSUME NEW p \in Players, JoinGuessing(p)
        PROVE  InvitesTrue' /\ InvitationsReachHost'
    BY <2>2, <2>4 DEF JoinGuessing
  <2>5. CASE Restart
    BY <2>5 DEF Restart, TypeOK
  <2>6. CASE UNCHANGED vars \/ \E p \in Players : CreateNewGame(p)
    <3>1. UNCHANGED <<invites, meetings, restarts>>
      BY <2>6 DEF CreateNewGame, vars
    <3> QED
      BY <2>0, <3>1 DEF InvitesTrue, InvitationsReachHost
  <2> QED
    BY <2>1, <2>3, <2>4, <2>5, <2>6 DEF Next
<1> QED
  BY <1>1, <1>2, TypeCorrect, PTL DEF Spec

---------------------------------------------------------------------------
(* The loop of a creation.                                                 *)

Slots == 0..(Period - 1)

\* Positions of the generator that hold an id nobody uses.
FreeSlots == {i \in Slots : Rng[i] \notin Stored}

\* How many ids the loop draws before it comes to position i.
DrawsLeft(i) == IF i >= rng THEN i - rng ELSE Period - rng + i

\* A creation in its loop has a free id ahead of it.
FreeIdAhead == creator # NoPlayer => FreeSlots # {}

\* The database is never so full that a creation it let in could draw for ever.
THEOREM FreeIdIsAhead == Spec => []FreeIdAhead
<1>1. TypeOK /\ WithinCapacity => FreeIdAhead
  <2> SUFFICES ASSUME TypeOK, WithinCapacity, creator # NoPlayer, FreeSlots = {} PROVE FALSE
    BY DEF FreeIdAhead
  <2> DEFINE ids == {Rng[i] : i \in Slots}
  <2>1. ids \subseteq Stored
    BY DEF FreeSlots
  <2>2. IsFiniteSet(Stored) /\ Cardinality(Stored) \in Nat
    BY StorageAssumption, FS_Subset, FS_CardinalityType DEF Stored
  <2>3. Cardinality(ids) =< Cardinality(Stored) /\ Cardinality(ids) \in Nat
    BY <2>1, <2>2, FS_Subset, FS_CardinalityType
  <2>4. Cardinality(ids) >= MaxStorageSize
    BY RngAssumption DEF Slots
  <2>5. Cardinality(Stored) < MaxStorageSize
    BY DEF WithinCapacity
  <2> HIDE DEF ids
  <2> QED
    BY <2>2, <2>3, <2>4, <2>5, StorageAssumption
<1> QED
  BY <1>1, TypeCorrect, CapacityCorrect, PTL

\* While a creation is in its loop the server does nothing else, and each round
\* ends the creation or comes one id closer to every id that is free.
CreationAdvances ==
  [][creator # NoPlayer =>
       \/ creator' = NoPlayer
       \/ /\ FreeSlots' = FreeSlots
          /\ \A i \in FreeSlots : DrawsLeft(i) \in Slots /\ DrawsLeft(i)' = DrawsLeft(i) - 1]_vars

\* A creation draws at most as many ids as the generator has, wherever in its
\* sequence it starts and however many are taken.
THEOREM CreationDrawsAreBounded == Spec => CreationAdvances
<1> DEFINE Advance ==
      creator # NoPlayer =>
        \/ creator' = NoPlayer
        \/ /\ FreeSlots' = FreeSlots
           /\ \A i \in FreeSlots : DrawsLeft(i) \in Slots /\ DrawsLeft(i)' = DrawsLeft(i) - 1
<1>1. TypeOK /\ [Next]_vars => [Advance]_vars
  <2> SUFFICES ASSUME TypeOK, Next, creator # NoPlayer, creator' # NoPlayer
               PROVE  /\ FreeSlots' = FreeSlots
                      /\ \A i \in FreeSlots : DrawsLeft(i) \in Slots /\ DrawsLeft(i)' = DrawsLeft(i) - 1
    OBVIOUS
  <2>1. TryEmplace
    BY DEF Next, CreateNewGame, JoinInvited, JoinGuessing, AddPlayerToGame, Restart
  <2>2. Rng[rng] \in Stored /\ FstPlayerId' = FstPlayerId /\ rng' = (rng + 1) % Period
    BY <2>1 DEF TryEmplace, db
  <2>3. FreeSlots' = FreeSlots
    BY <2>2 DEF FreeSlots, Stored
  <2>4. rng' = IF rng + 1 = Period THEN 0 ELSE rng + 1
    BY <2>2, RngAssumption DEF TypeOK
  <2>5. ASSUME NEW i \in FreeSlots
        PROVE  DrawsLeft(i) \in Slots /\ DrawsLeft(i)' = DrawsLeft(i) - 1
    <3>1. i # rng /\ i \in 0..(Period - 1) /\ rng \in 0..(Period - 1) /\ Period \in Nat
      BY <2>2, RngAssumption DEF FreeSlots, Slots, TypeOK
    <3>2. CASE rng + 1 = Period
      BY <2>4, <3>1, <3>2 DEF DrawsLeft, Slots
    <3>3. CASE rng + 1 # Period
      BY <2>4, <3>1, <3>3 DEF DrawsLeft, Slots
    <3> QED
      BY <3>2, <3>3
  <2> QED
    BY <2>3, <2>5
<1> QED
  BY <1>1, TypeCorrect, PTL DEF Spec, CreationAdvances

=============================================================================
