----------------------------- MODULE MCInventory -----------------------------
(* Instances of Inventory for model checking. *)
EXTENDS Inventory

CONSTANTS o1, o2

\* o1 has two services; o1 and o2 fill the two nodes.
TwoServices ==
    [o \in Orders |->
        IF o = o1 THEN <<[units |-> 1, count |-> 2], [units |-> 1, count |-> 1]>>
        ELSE <<[units |-> 1, count |-> 1]>>]

OneService == [o \in Orders |-> <<[units |-> 2, count |-> 1]>>]

\* Four units, of which two are committed at CommitLevel 2.
CommittedService == [o \in Orders |-> <<[units |-> 4, count |-> 1]>>]

PortsEach == [o \in Orders |-> IF o = o1 THEN 2 ELSE 1]

NothingDeployed == <<>>
O1Deployed == <<o1>>

TwoNodes == <<2, 2>>
OneNode == <<2>>
LargeNode == <<3>>
=============================================================================
