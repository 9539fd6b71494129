--------------------------- MODULE MessageChannel ---------------------------
(***************************************************************************)
(* What the two ends of a connection learn of one message: the abstract    *)
(* view that Session takes when it sends a request in one step. A message  *)
(* that was sent may be lost, but one that was received whole never counts *)
(* as not sent: who failed to send may ask again without being served      *)
(* twice. Stream is shown to implement this.                               *)
(***************************************************************************)

VARIABLES sender,   \* what Send returned, "none" while it runs
          receiver  \* what Receive returned

vars == <<sender, receiver>>

Init == sender = "none" /\ receiver = "none"

Send == sender = "none" /\ sender' = "OnSuccess" /\ UNCHANGED receiver
SendFails ==
  /\ sender = "none" /\ receiver # "OnSuccess"
  /\ sender' = "Failed" /\ UNCHANGED receiver

Receive ==
  /\ receiver = "none" /\ sender # "Failed"
  /\ receiver' = "OnSuccess" /\ UNCHANGED sender
ReceiveFails == receiver = "none" /\ receiver' = "Failed" /\ UNCHANGED sender

Next == Send \/ SendFails \/ Receive \/ ReceiveFails

Spec == Init /\ [][Next]_vars

=============================================================================
