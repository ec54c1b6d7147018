\* Two orders, each of which fills the cluster.
CONSTANTS
    o1 = o1
    o2 = o2
    Orders = {o1, o2}
    Request <- OneService
    Endpoints <- PortsEach
    Deployed <- NothingDeployed
    Capacity <- OneNode
    CommitLevel = 1
    PortQuantity = 3
    UintRange = 8
    MaxQueue = 1
    MaxUnits = 5
SPECIFICATION Spec
INVARIANTS
    ReservationsFitCluster
CHECK_DEADLOCK FALSE
