----------------------- MODULE DeploymentManagerProofs -----------------------
(* Theorems about DeploymentManager, for every number of manifests and retries. *)
EXTENDS DeploymentManager, TLAPS

\* A manager starts with nothing in flight and no monitor.
LEMMA InitIInv == Init => IInv
  BY ManagerParameters
  DEF Init, NewMonitor, NoMonitor, Monitors, AttemptsCount, IInv, TypeOK, States, Hostnames, Operations, Reserving, NoOperation, Operation,
             StateMatchesOperation, DeployReads, LatestDeployed, MonitorsCurrent,
             HostnamesFirst, managerVars, withdrawalVars

\* A step of the monitor keeps the invariant if the monitor does not start again,
\* keeps its manifest and counts its attempts.
LEMMA MonitorStep ==
  ASSUME IInv,
         UNCHANGED <<managerVars, cluster, drains, withdrawalVars>>,
         monitor' \in Monitors,
         monitor'.pc = "loop" => monitor.pc = "loop",
         monitor'.group = monitor.group,
         AttemptsCount'
  PROVE  IInv'
  BY DEF IInv, TypeOK, States, Hostnames, Operations, Reserving, NoOperation, Operation,
             StateMatchesOperation, DeployReads, LatestDeployed, MonitorsCurrent,
             HostnamesFirst, managerVars, withdrawalVars

\* Stopping a monitor leaves its counters alone.
LEMMA StopMonitorFacts ==
  ASSUME IInv, StopMonitor
  PROVE  monitor' \in Monitors /\ monitor'.pc # "loop" /\ AttemptsCount'
  BY DEF StopMonitor, Monitors, AttemptsCount, IInv, TypeOK

\* The result of a check is counted.
LEMMA CheckResultFacts ==
  ASSUME IInv, CheckResult
  PROVE  /\ monitor' \in Monitors
         /\ monitor'.pc = monitor.pc
         /\ monitor'.group = monitor.group
         /\ AttemptsCount'
  <1> USE ManagerParameters DEF Monitors
  <1>1. monitor \in Monitors /\ AttemptsCount
    BY DEF IInv, TypeOK
  <1>a. monitor.bad + 1 \in Nat
    BY <1>1
  <1>2. CASE monitor' = [monitor EXCEPT !.check = "timer", !.attempts = 0, !.bad = 0]
             /\ monitor.check = "ok"
    <2>1. monitor' \in Monitors
      BY <1>1, <1>2
    <2> QED
      BY <1>1, <1>2, <2>1 DEF AttemptsCount
  <1>3. CASE monitor' = [monitor EXCEPT !.check = "timer", !.bad = monitor.bad + 1]
             /\ monitor.check = "bad" /\ monitor.attempts <= MaxRetries
    <2>1. monitor' \in Monitors
      BY <1>1, <1>3, <1>a
    <2> QED
      BY <1>1, <1>3, <2>1 DEF AttemptsCount
  <1>4. CASE monitor' = [monitor EXCEPT !.check = "none", !.bad = monitor.bad + 1,
                                        !.closing = "running"]
             /\ monitor.check = "bad" /\ ~ monitor.attempts <= MaxRetries
    <2>1. monitor' \in Monitors
      BY <1>1, <1>4, <1>a
    <2> QED
      BY <1>1, <1>4, <2>1 DEF AttemptsCount
  <1> QED
    BY <1>2, <1>3, <1>4 DEF CheckResult

\* Every step of the manager, its operation and its monitor keeps the invariant.
LEMMA NextIInv == IInv /\ [Next]_vars => IInv'
  <1> SUFFICES ASSUME IInv, [Next]_vars PROVE IInv'
    OBVIOUS
  <1> USE ManagerParameters
  <1>0. monitor \in Monitors /\ AttemptsCount
    BY DEF IInv, TypeOK
  <1>1. CASE HostnamesReserved
    <2> USE <1>1 DEF HostnamesReserved, IInv, TypeOK, States, Hostnames, Operations, Reserving, NoOperation, Operation,
             StateMatchesOperation, DeployReads, LatestDeployed, MonitorsCurrent,
             HostnamesFirst, managerVars, withdrawalVars, Monitors, AttemptsCount
    <2>1. CASE hostnames = "granted"
      BY <2>1, StopMonitorFacts DEF StartDeploy
    <2>2. CASE hostnames = "refused"
      BY <2>2
    <2> QED
      BY <2>1, <2>2
  <1>2. CASE Shutdown
    BY <1>2 DEF Shutdown, IInv, TypeOK, States, Hostnames, Operations, Reserving, NoOperation, Operation,
             StateMatchesOperation, DeployReads, LatestDeployed, MonitorsCurrent,
             HostnamesFirst, managerVars, withdrawalVars, Monitors, AttemptsCount
  <1>3. CASE Update
    <2> USE <1>3 DEF Update, IInv, TypeOK, States, Hostnames, Operations, Reserving, NoOperation, Operation,
             StateMatchesOperation, DeployReads, LatestDeployed, MonitorsCurrent,
             HostnamesFirst, managerVars, withdrawalVars
    <2>1. CASE state \in {"deploy-active", "deploy-pending"}
      BY <2>1, <1>0 DEF AttemptsCount
    <2>2. CASE state = "deploy-complete"
      BY <2>2, StopMonitorFacts DEF StartDeploy
    <2>3. CASE state \in {"teardown-active", "teardown-pending", "teardown-complete"}
      BY <2>3, <1>0 DEF AttemptsCount
    <2> QED
      BY <2>1, <2>2, <2>3
  <1>4. CASE Result
    <2> USE <1>4 DEF Result, IInv, TypeOK, States, Hostnames, Operations, Reserving, NoOperation, Operation,
             StateMatchesOperation, DeployReads, LatestDeployed, MonitorsCurrent,
             HostnamesFirst, managerVars, withdrawalVars
    <2>1. CASE state = "deploy-active" /\ runch.step = "ok"
      BY <2>1, <1>0 DEF StartMonitor, StartWithdrawal, NewMonitor, Monitors, AttemptsCount
    <2>2. CASE state = "deploy-pending" /\ runch.step = "ok"
      BY <2>2, StopMonitorFacts DEF StartDeploy
    <2>3. CASE state \in {"deploy-active", "deploy-pending"} /\ runch.step = "err"
      BY <2>3, <1>0 DEF AttemptsCount
    <2>4. CASE state = "teardown-active"
      BY <2>4, <1>0 DEF AttemptsCount
    <2>5. CASE state = "teardown-pending"
      BY <2>5, StopMonitorFacts DEF StartTeardown
    <2> QED
      BY <2>1, <2>2, <2>3, <2>4, <2>5
  <1>5. CASE Teardown
    <2> USE <1>5 DEF Teardown, IInv, TypeOK, States, Hostnames, Operations, Reserving, NoOperation, Operation,
             StateMatchesOperation, DeployReads, LatestDeployed, MonitorsCurrent,
             HostnamesFirst, managerVars, withdrawalVars
    <2>1. CASE state \in {"deploy-active", "deploy-pending"}
      BY <2>1, StopMonitorFacts
    <2>2. CASE state = "deploy-complete"
      BY <2>2, StopMonitorFacts DEF StartTeardown
    <2>3. CASE state \in {"teardown-active", "teardown-pending", "teardown-complete"}
      BY <2>3, StopMonitorFacts
    <2> QED
      BY <2>1, <2>2, <2>3
  <1>6. CASE Drain
    BY <1>6 DEF Drain, IInv, TypeOK, States, Hostnames, Operations, Reserving, NoOperation, Operation,
             StateMatchesOperation, DeployReads, LatestDeployed, MonitorsCurrent,
             HostnamesFirst, managerVars, withdrawalVars, Monitors, AttemptsCount
  <1>7. CASE Finish
    BY <1>7 DEF Finish, IInv, TypeOK, States, Hostnames, Operations, Reserving, NoOperation, Operation,
             StateMatchesOperation, DeployReads, LatestDeployed, MonitorsCurrent,
             HostnamesFirst, managerVars, withdrawalVars, Monitors, AttemptsCount
  <1>8. CASE OperationRuns
    BY <1>8 DEF OperationRuns, IInv, TypeOK, States, Hostnames, Operations, Reserving, NoOperation, Operation,
             StateMatchesOperation, DeployReads, LatestDeployed, MonitorsCurrent,
             HostnamesFirst, managerVars, withdrawalVars, Monitors, AttemptsCount
  <1>9. CASE OperationReturns
    BY <1>9 DEF OperationReturns, IInv, TypeOK, States, Hostnames, Operations, Reserving, NoOperation, Operation,
             StateMatchesOperation, DeployReads, LatestDeployed, MonitorsCurrent,
             HostnamesFirst, managerVars, withdrawalVars, Monitors, AttemptsCount
  <1>10. CASE EarlierMonitorEnds
    BY <1>10 DEF EarlierMonitorEnds, IInv, TypeOK, States, Hostnames, Operations, Reserving, NoOperation, Operation,
             StateMatchesOperation, DeployReads, LatestDeployed, MonitorsCurrent,
             HostnamesFirst, managerVars, withdrawalVars, Monitors, AttemptsCount
  <1>11. CASE WithdrawalEnds
    BY <1>11 DEF WithdrawalEnds, IInv, TypeOK, States, Hostnames, Operations, Reserving, NoOperation, Operation,
             StateMatchesOperation, DeployReads, LatestDeployed, MonitorsCurrent,
             HostnamesFirst, managerVars, withdrawalVars, Monitors, AttemptsCount
  <1>12. CASE AnswerHostnames
    BY <1>12 DEF AnswerHostnames, IInv, TypeOK, States, Hostnames, Operations, Reserving, NoOperation, Operation,
             StateMatchesOperation, DeployReads, LatestDeployed, MonitorsCurrent,
             HostnamesFirst, managerVars, withdrawalVars, Monitors, AttemptsCount
  <1>13. CASE MonitorTick
    <2>1. monitor' = [monitor EXCEPT !.check = "running", !.attempts = monitor.attempts + 1]
      BY <1>13 DEF MonitorTick
    <2>a. monitor.attempts + 1 \in Nat
      BY <1>0 DEF Monitors
    <2>2. monitor' \in Monitors
      BY <1>0, <2>1, <2>a DEF Monitors
    <2>3. AttemptsCount'
      BY <1>0, <1>13, <2>1 DEF MonitorTick, AttemptsCount, Monitors
    <2> QED
      BY <1>13, <1>0, <2>1, <2>2, <2>3, MonitorStep DEF MonitorTick, Monitors
  <1>14. CASE CheckReturns
    BY <1>14, <1>0, MonitorStep DEF CheckReturns, Monitors, AttemptsCount
  <1>15. CASE CheckResult
    BY <1>15, CheckResultFacts, MonitorStep DEF CheckResult
  <1>16. CASE CloseLeaseReturns
    BY <1>16, <1>0, MonitorStep DEF CloseLeaseReturns, Monitors, AttemptsCount
  <1>17. CASE MonitorStops
    BY <1>17, <1>0, MonitorStep DEF MonitorStops, Monitors, AttemptsCount
  <1>18. CASE MonitorEnds
    BY <1>18, <1>0, MonitorStep DEF MonitorEnds, Monitors, AttemptsCount
  <1>19. CASE UNCHANGED vars
    BY <1>19 DEF vars, IInv, TypeOK, States, Hostnames, Operations, Reserving, NoOperation, Operation,
             StateMatchesOperation, DeployReads, LatestDeployed, MonitorsCurrent,
             HostnamesFirst, managerVars, withdrawalVars, Monitors, AttemptsCount
  <1> QED
    BY <1>1, <1>2, <1>3, <1>4, <1>5, <1>6, <1>7, <1>8, <1>9, <1>10,
       <1>11, <1>12, <1>13, <1>14, <1>15, <1>16, <1>17, <1>18, <1>19 DEF Next

\* The parts of the invariant hold in every state of every behaviour.
THEOREM Invariance == Spec => []IInv
  BY InitIInv, NextIInv, PTL DEF Spec

\* The loop never reads a result in a state in which it panics, and an operation
\* is in flight exactly when the state says so.
THEOREM NoUnexpectedResult == Spec => []StateMatchesOperation
  <1>1. IInv => StateMatchesOperation
    BY DEF IInv
  <1> QED
    BY <1>1, Invariance, PTL

\* Whatever updates arrive while a deploy is running, the deployment that is
\* reported complete is that of the last manifest.
THEOREM LastManifestDeployed == Spec => []LatestDeployed
  <1>1. IInv => LatestDeployed
    BY DEF IInv
  <1> QED
    BY <1>1, Invariance, PTL

\* The monitor judges only the manifest that is deployed and not being changed.
THEOREM MonitorCurrent == Spec => []MonitorsCurrent
  <1>1. IInv => MonitorsCurrent
    BY DEF IInv
  <1> QED
    BY <1>1, Invariance, PTL

\* A lease is closed only after MaxRetries + 1 consecutive failed checks.
THEOREM CloseAfterFailures == Spec => []ClosesOnlyFailed
  <1>1. IInv => ClosesOnlyFailed
    BY DEF IInv, AttemptsCount, ClosesOnlyFailed
  <1> QED
    BY <1>1, Invariance, PTL

\* No operation on the cluster is started before the previous one has answered.
THEOREM OneOperation == Spec => NoOperationLost
  <1>1. IInv /\ [Next]_vars
          => [runch' # runch /\ runch'.step \in {"none", "started"}
                => runch.step \in {"none", "ok", "err"}]_vars
    <2> SUFFICES ASSUME IInv, Next, runch' # runch, runch'.step \in {"none", "started"}
                 PROVE  runch.step \in {"none", "ok", "err"}
      BY DEF vars
    <2> USE DEF IInv, TypeOK, States, Hostnames, Operations, Reserving, NoOperation, Operation,
             StateMatchesOperation, DeployReads, LatestDeployed, MonitorsCurrent,
             HostnamesFirst, managerVars, withdrawalVars
    <2>1. CASE HostnamesReserved
      BY <2>1 DEF HostnamesReserved
    <2>2. CASE Update
      BY <2>2 DEF Update
    <2>3. CASE Teardown
      BY <2>3 DEF Teardown
    <2>4. CASE Result \/ Drain
      BY <2>4 DEF Result, Drain
    <2>5. CASE OperationRuns \/ OperationReturns
      BY <2>5 DEF OperationRuns, OperationReturns
    <2> QED
      BY <2>1, <2>2, <2>3, <2>4, <2>5
      DEF Next, Shutdown, Finish, MonitorTick, CheckReturns, CheckResult,
          CloseLeaseReturns, MonitorStops, MonitorEnds, EarlierMonitorEnds,
          WithdrawalEnds, AnswerHostnames
  <1> QED
    BY <1>1, Invariance, PTL DEF Spec, NoOperationLost
=============================================================================
