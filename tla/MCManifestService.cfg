\* Two leases of one deployment, two callers, one update of its manifest.
SPECIFICATION Spec
CONSTANTS
    Leases = {l1, l2}
    Callers = {c1, c2}
    MaxVersion = 2
    MaxEvents = 2
INVARIANTS
    ExpectedIsCurrent
    PublishedToAll
PROPERTIES
    CallersReturn
    DrainCompletes
CHECK_DEADLOCK FALSE
