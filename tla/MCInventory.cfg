\* A deployed order and one that asks: events, checks that fail, a shutdown.
CONSTANTS
    o1 = o1
    o2 = o2
    Orders = {o1, o2}
    Request <- CommittedService
    Endpoints <- PortsEach
    Deployed <- O1Deployed
    Capacity <- LargeNode
    CommitLevel = 2
    PortQuantity = 3
    UintRange = 8
    MaxQueue = 1
    MaxUnits = 5
SPECIFICATION FairSpec
INVARIANTS
    PortsAccounted
PROPERTIES
    GrantsFit
    CallsReturn
CHECK_DEADLOCK FALSE
