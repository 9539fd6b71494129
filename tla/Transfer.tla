------------------------------ MODULE Transfer ------------------------------
(***************************************************************************)
(* What robust_read_write.hpp promises of a read or a write: `Size` bytes  *)
(* are moved in any number of pieces, then the call returns once. It       *)
(* succeeds exactly when the whole buffer was moved; any other result      *)
(* means that part of it was not. RobustSyncRead and RobustSyncWrite are   *)
(* shown to implement this.                                                *)
(***************************************************************************)
EXTENDS Naturals

CONSTANTS Size,      \* length of the caller's buffer
          Failures   \* the results that are not OnSuccess

VARIABLES moved,     \* bytes transferred so far
          outcome    \* what the call returned, "none" while it runs

vars == <<moved, outcome>>

Init ==
  /\ moved = 0
  /\ outcome = "none"

Move ==
  /\ outcome = "none"
  /\ \E x \in 1..(Size - moved) : moved' = moved + x
  /\ UNCHANGED outcome

Succeed ==
  /\ outcome = "none"
  /\ moved = Size
  /\ outcome' = "OnSuccess"
  /\ UNCHANGED moved

\* Mutant: the deadline is looked at before the count.
FailAtAnyTime == outcome = "none" /\ outcome' \in Failures /\ UNCHANGED moved

Fail ==
  /\ outcome = "none"
  /\ moved < Size
  /\ outcome' \in Failures
  /\ UNCHANGED moved

Next == Move \/ Succeed \/ Fail

Spec == Init /\ [][Next]_vars

=============================================================================
