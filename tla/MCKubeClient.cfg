\* Three manifests that add and drop services and ports.
SPECIFICATION Spec
CONSTANTS
    Manifests <- MCManifests
    NodePortName <- MCNodePortName
    NodePorts = {30001, 30002, 30003}
    NetworkPoliciesEnabled = TRUE
INVARIANTS
    DeployedMatches
    WorkloadsAreRecorded
PROPERTIES
    UpdatesKeepServing
CHECK_DEADLOCK FALSE
