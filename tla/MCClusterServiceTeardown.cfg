\* As MCClusterService: is the reservation of a closed lease always given back?
SPECIFICATION Spec
CONSTANTS
    Leases = {"l1", "l2"}
    DeploymentOf <- MCDeploymentOf
    Names <- MCNames
    Blocked = {}
    None = None
    MaxManifests = 2
    MaxRestarts = 1
CHECK_DEADLOCK FALSE
PROPERTY ClosedLeasesUnreserved
