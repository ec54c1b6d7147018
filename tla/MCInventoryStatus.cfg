\* An order with two services, and a status query.
CONSTANTS
    o1 = o1
    o2 = o2
    Orders = {o1, o2}
    Request <- TwoServices
    Endpoints <- PortsEach
    Deployed <- NothingDeployed
    Capacity <- TwoNodes
    CommitLevel = 1
    PortQuantity = 3
    UintRange = 8
    MaxQueue = 1
    MaxUnits = 5
SPECIFICATION Spec
INVARIANTS
    ReservationsKeepTheirSize
CHECK_DEADLOCK FALSE
