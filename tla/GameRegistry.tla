---------------------------- MODULE GameRegistry ----------------------------
(***************************************************************************)
(* What the server's game database promises: a bounded set of games, each  *)
(* with the player who hosts it and at most one other player. A seat, once *)
(* taken, keeps its player until the server loses its memory.              *)
(***************************************************************************)
EXTENDS FiniteSets, Integers

CONSTANTS Players, GameIds, NoPlayer,
          MaxStorageSize  \* how many games the database keeps

VARIABLES FstPlayerId, SndPlayerId  \* the seats of each game

vars == <<FstPlayerId, SndPlayerId>>

NoSeats == [g \in GameIds |-> NoPlayer]

Stored == {g \in GameIds : FstPlayerId[g] # NoPlayer}

Init == FstPlayerId = NoSeats /\ SndPlayerId = NoSeats

\* A player hosts a new game under an id nobody uses.
Host(p) ==
  /\ Cardinality(Stored) < MaxStorageSize
  /\ \E g \in GameIds \ Stored : FstPlayerId' = [FstPlayerId EXCEPT ![g] = p]
  /\ UNCHANGED SndPlayerId

\* A player takes the free seat of an existing game.
Join(p, g) ==
  /\ g \in Stored /\ SndPlayerId[g] = NoPlayer
  /\ SndPlayerId' = [SndPlayerId EXCEPT ![g] = p]
  /\ UNCHANGED FstPlayerId

Forget == FstPlayerId' = NoSeats /\ SndPlayerId' = NoSeats

Next ==
  \/ \E p \in Players : Host(p) \/ \E g \in GameIds : Join(p, g)
  \/ Forget

Spec == Init /\ [][Next]_vars

=============================================================================
