------------------------------ MODULE MCEscrow ------------------------------
(* Instances of Escrow for TLC: one account a1; the payments p1, p2 and p3   *)
(* are stored in that order.                                                *)
EXTENDS Escrow

CONSTANTS a1, p1, p2, p3

\* One account with three payments.
OneAccount == {a1}

ThreePayments == {p1, p2, p3}

AllOnA1 == [p \in ThreePayments |-> a1]

Index3 == [p \in ThreePayments |-> IF p = p1 THEN 1 ELSE IF p = p2 THEN 2 ELSE 3]
=============================================================================
