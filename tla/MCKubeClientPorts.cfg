\* A port that moves up in the manifest is given another node port (violated).
SPECIFICATION Spec
CONSTANTS
    Manifests <- MCManifests
    NodePortName <- MCNodePortName
    NodePorts = {30001, 30002, 30003}
    NetworkPoliciesEnabled = TRUE
PROPERTIES
    PortNumbersStay
CHECK_DEADLOCK FALSE
