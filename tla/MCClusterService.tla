-------------------------- MODULE MCClusterService --------------------------
EXTENDS ClusterService

\* Two leases, of two deployments, that both want the name "shared".
MCDeploymentOf == [l \in Leases |-> IF l = "l1" THEN "d1" ELSE "d2"]
MCNames == [l \in Leases |-> IF l = "l1" THEN {"shared", "own"} ELSE {"shared"}]

\* Both of one deployment.
MCOneDeployment == [l \in Leases |-> "d1"]
=============================================================================
