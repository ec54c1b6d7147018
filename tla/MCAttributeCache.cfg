\* Two auditors, two orders, attributes that change while they are fetched.
SPECIFICATION Spec
CONSTANTS
    Auditors = {"a1", "a2"}
    Orders = {"o1", "o2"}
    None = None
    MaxChanges = 1
    Signed <- MCSigned
    MaxEntries = 2
    Attributes <- MCAttributes
    Requirements <- MCRequirements
INVARIANTS
    OutdatedForAReason
    DecisionsAgree
PROPERTIES
    CallersReturn
CHECK_DEADLOCK FALSE
