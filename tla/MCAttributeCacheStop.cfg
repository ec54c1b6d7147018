\* As MCAttributeCache: does the service's loop end once it is shut down?
SPECIFICATION Spec
CONSTANTS
    Auditors = {"a1", "a2"}
    Orders = {"o1", "o2"}
    None = None
    MaxChanges = 1
    Signed <- MCSigned
    MaxEntries = 2
    Attributes <- MCAttributes
    Requirements <- MCRequirements
CHECK_DEADLOCK FALSE
PROPERTY ServiceStops
