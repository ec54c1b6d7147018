\* ClosedIsClosed only: the code violates it.
CONSTANTS
    a1 = a1
    p1 = p1
    p2 = p2
    p3 = p3
    AccountIDs <- OneAccount
    PaymentIDs <- ThreePayments
    AccountOf <- AllOnA1
    KeyIndex <- Index3
    Amounts = {5}
    Rates = {0, 1, 2}
    Supply = 5
    MaxHeight = 3
SPECIFICATION Spec
INVARIANT
    ClosedIsClosed
CHECK_DEADLOCK FALSE
