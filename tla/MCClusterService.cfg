\* Two leases of different deployments that ask for the same hostname, one restart.
SPECIFICATION Spec
CONSTANTS
    Leases = {"l1", "l2"}
    DeploymentOf <- MCDeploymentOf
    Names <- MCNames
    Blocked = {}
    None = None
    MaxManifests = 2
    MaxRestarts = 1
INVARIANTS
    ManagersAreBacked
    HostnamesAreHeld
PROPERTIES
    ReservationsReturned
    ManifestsRun
    DrainCompletes
CHECK_DEADLOCK FALSE
