------------------------------- MODULE Stream -------------------------------
(***************************************************************************)
(* One message of Size bytes on a connection: RobustSyncWrite at one end   *)
(* and RobustSyncRead at the other, each as its contract (Transfer) has    *)
(* it, and a kernel that delivers bytes in order, in pieces of its own,    *)
(* late or never. The two ends give up independently of each other.        *)
(***************************************************************************)
EXTENDS Naturals

CONSTANT Size

VARIABLES sent, sender,   \* bytes the kernel took, what Send returned
          got, receiver   \* bytes delivered, what Receive returned

vars == <<sent, sender, got, receiver>>

Out == INSTANCE Transfer WITH moved <- sent, outcome <- sender, Failures <- {"Failed"}
In  == INSTANCE Transfer WITH moved <- got, outcome <- receiver, Failures <- {"Failed"}

Init == Out!Init /\ In!Init

Write == Out!Move /\ UNCHANGED <<got, receiver>>
SendReturns == (Out!Succeed \/ Out!Fail) /\ UNCHANGED <<got, receiver>>
Read == In!Move /\ got' =< sent /\ UNCHANGED <<sent, sender>>
ReceiveReturns == (In!Succeed \/ In!Fail) /\ UNCHANGED <<sent, sender>>

Next == Write \/ SendReturns \/ Read \/ ReceiveReturns

Spec == Init /\ [][Next]_vars

---------------------------------------------------------------------------
\* The two ends never disagree in the harmful way: nobody receives a message
\* whose sender was told that it was not sent.
Channel == INSTANCE MessageChannel
KeepsPromise == Channel!Spec

=============================================================================
