\* Three manifests, and a monitor that gives up after two failed checks.
CONSTANTS
    MaxVersion = 3
    MaxRetries = 1
SPECIFICATION FairSpec
INVARIANTS
    LatestDeployed
    ClosesOnlyFailed
PROPERTIES
    ManagerEnds
CHECK_DEADLOCK FALSE
