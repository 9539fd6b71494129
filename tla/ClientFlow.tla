----------------------------- MODULE ClientFlow -----------------------------
(***************************************************************************)
(* The client as client/state_handlers/all.hpp declares it: the states of  *)
(* NState::State and, for each handler, the states its return type allows. *)
(* main() runs one handler after the other until an error state or         *)
(* NeedToExit ends the process.                                            *)
(***************************************************************************)

VARIABLES name,  \* the alternative `state` holds
          exit   \* exit status of the process, "none" while it runs

ErrorStates ==
  {"FailedToConnectToCentralServer", "FailedToCreateNewGame", "FailedToJoinGame",
   "FailedToEstablishConnectionWithPeer"}

Successors ==
  [NeedToConnectToCentralServer |->
     {"ConnectedToCentralServer", "FailedToConnectToCentralServer"},
   ConnectedToCentralServer |-> {"NeedToCreateNewGame", "NeedToJoinGame"},
   NeedToCreateNewGame |-> {"CreatedNewGame", "FailedToCreateNewGame"},
   NeedToJoinGame |-> {"JoinedGame", "FailedToJoinGame"},
   CreatedNewGame |->
     {"NeedToAcceptConnectionFromExpectedPeer", "FailedToEstablishConnectionWithPeer"},
   NeedToAcceptConnectionFromExpectedPeer |->
     {"EstablishedConnectionWithPeer", "NeedToConnectToPeer",
      "FailedToEstablishConnectionWithPeer"},
   JoinedGame |-> {"NeedToConnectToPeer", "FailedToEstablishConnectionWithPeer"},
   NeedToConnectToPeer |->
     {"EstablishedConnectionWithPeer", "NeedToAcceptConnectionFromExpectedPeer",
      "FailedToEstablishConnectionWithPeer"},
   EstablishedConnectionWithPeer |-> {"NeedToConnectToCentralServer", "NeedToExit"}]

Init == name = "NeedToConnectToCentralServer" /\ exit = "none"

Handle ==
  /\ exit = "none" /\ name \in DOMAIN Successors
  /\ name' \in Successors[name]
  /\ UNCHANGED exit

\* LogErrorAndExit, in an error state or before the first handler runs.
Fail ==
  /\ exit = "none" /\ name \in ErrorStates \cup {"NeedToConnectToCentralServer"}
  /\ exit' = "EXIT_FAILURE"
  /\ UNCHANGED name

Finish ==
  /\ exit = "none" /\ name = "NeedToExit"
  /\ exit' = "EXIT_SUCCESS"
  /\ UNCHANGED name

Next == Handle \/ Fail \/ Finish

Spec == Init /\ [][Next]_<<name, exit>>

=============================================================================
