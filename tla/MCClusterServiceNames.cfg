\* As MCClusterService, with leases of one deployment: does a lease keep its names?
SPECIFICATION Spec
CONSTANTS
    Leases = {"l1", "l2"}
    DeploymentOf <- MCOneDeployment
    Names <- MCNames
    Blocked = {}
    None = None
    MaxManifests = 2
    MaxRestarts = 1
CHECK_DEADLOCK FALSE
INVARIANT SharedNamesAreHeld
