\* One account, three payments: rounding and order of the distribution matter.
CONSTANTS
    a1 = a1
    p1 = p1
    p2 = p2
    p3 = p3
    AccountIDs <- OneAccount
    PaymentIDs <- ThreePayments
    AccountOf <- AllOnA1
    KeyIndex <- Index3
    Amounts = {2}
    Rates = {0, 1, 2}
    Supply = 4
    MaxHeight = 3
SPECIFICATION Spec
INVARIANTS
    IInv
    BooksBalance
    SettlementNeverFails
PROPERTIES
    PaidAsDue
CHECK_DEADLOCK FALSE
