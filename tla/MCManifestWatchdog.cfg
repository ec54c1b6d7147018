\* A second lease of a deployment whose manifest was accepted.
SPECIFICATION Spec
CONSTANTS
    Leases = {l1, l2}
    Callers = {c1, c2}
    MaxVersion = 2
    MaxEvents = 1
INVARIANT
    WatchdogsSpareServed
CHECK_DEADLOCK FALSE
