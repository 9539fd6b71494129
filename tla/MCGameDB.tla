------------------------------ MODULE MCGameDB ------------------------------
(* Ids for TLC: a generator of period five that repeats an id at once and, *)
(* before it wraps round, repeats one that may have been stored long ago.  *)
EXTENDS GameDB

CONSTANTS g1, g2, g3

MCGameIds == {g1, g2, g3}
MCPeriod == 5
MCRng == [i \in 0..4 |-> <<g1, g1, g2, g1, g3>>[i + 1]]

=============================================================================
