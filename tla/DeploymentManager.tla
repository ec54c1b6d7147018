-------------------------- MODULE DeploymentManager --------------------------
(***************************************************************************)
(* The manager of one lease's deployment on a provider                     *)
(* (src/provider/cluster/manager.go) with the monitor it starts once the   *)
(* deployment is up (monitor.go) and the goroutines that withdraw the      *)
(* lease's payments (lease_withdraw.go).                                   *)
(*                                                                         *)
(* The manager is a loop that receives the answer of the hostname service, *)
(* updates of the manifest, a request to tear down, and the results of the *)
(* Kubernetes operation it has started in another goroutine.  The cluster, *)
(* the hostname service and the chain are the environment.  Manifests are  *)
(* numbered; 0 in the cluster stands for nothing deployed.                 *)
(***************************************************************************)
EXTENDS Integers

CONSTANTS
    MaxVersion,     \* bound: manifests received
    MaxRetries      \* monitorMaxRetries

ASSUME ManagerParameters ==
    /\ MaxVersion \in Nat \ {0}
    /\ MaxRetries \in Nat

VARIABLES
    phase,      \* of run: "loop", "drain" (reads runch), "wait" (for dm.wg), "done"
    state,      \* dm.state
    mgroup,     \* dm.mgroup
    hostnames,  \* of the reservation, see Hostnames below
    runch,      \* the operation in flight, see Operations below
    cluster,    \* manifest the cluster has
    monitor,    \* dm.monitor, see Monitors below
    drains,     \* earlier monitors that have not ended
    withdrawal, \* dm.withdrawal: "none", "loop", "done"
    withdrawals \* earlier withdrawals that have not ended

managerVars == <<phase, state, mgroup, hostnames, runch>>
withdrawalVars == <<withdrawal, withdrawals>>
vars == <<phase, state, mgroup, hostnames, runch, cluster, monitor, drains, withdrawal,
          withdrawals>>

\* "asked"; "granted" or "refused": the answer is in reserveHostnamesCh; "held":
\* the release is deferred; "none": released, or never reserved.
Hostnames == {"asked", "granted", "refused", "held", "none"}

\* The goroutine started by do: it has not run yet, it uses the manifest it has
\* read, or its result is in the channel.
Operation(op, step, group) == [op |-> op, step |-> step, group |-> group]
NoOperation == Operation("none", "none", 0)

\* check: the timer runs, the check runs or has returned, or none will follow.
\* bad counts the checks that failed since the last one that did not.
NewMonitor(group) ==
    [pc |-> "loop", check |-> "timer", attempts |-> 0, closing |-> "none", bad |-> 0,
     group |-> group]
NoMonitor == [NewMonitor(0) EXCEPT !.pc = "none"]

Init ==
    /\ phase = "loop"
    /\ state = "deploy-active"
    /\ mgroup = 1
    /\ hostnames = "asked"
    /\ runch = NoOperation
    /\ cluster \in {0, 1}   \* 1: the provider was restarted
    /\ monitor = NoMonitor
    /\ drains = 0
    /\ withdrawal = "none"
    /\ withdrawals = 0

-----------------------------------------------------------------------------
(* The loop. *)

\* The monitor's loop takes the request; what it has in flight is waited for.
StopMonitor ==
    monitor' = IF monitor.pc = "loop" THEN [monitor EXCEPT !.pc = "drain"] ELSE monitor

StartDeploy ==
    /\ StopMonitor
    /\ state' = "deploy-active"
    /\ runch' = Operation("deploy", "started", 0)

StartTeardown ==
    /\ StopMonitor
    /\ state' = "teardown-active"
    /\ runch' = Operation("teardown", "started", 0)

StartMonitor ==
    /\ monitor' = NewMonitor(mgroup)
    /\ drains' = IF monitor.pc = "drain" THEN drains + 1 ELSE drains

StartWithdrawal ==
    /\ withdrawal' = "loop"
    /\ withdrawals' = IF withdrawal = "loop" THEN withdrawals + 1 ELSE withdrawals

\* case err := <-reserveHostnamesCh
HostnamesReserved ==
    /\ phase = "loop"
    /\ \/ /\ hostnames = "granted"
          /\ hostnames' = "held"
          /\ StartDeploy
          /\ UNCHANGED phase
       \/ /\ hostnames = "refused"
          /\ hostnames' = "none"
          /\ phase' = "drain"
          /\ UNCHANGED <<state, runch, monitor>>
    /\ UNCHANGED <<mgroup, cluster, drains, withdrawalVars>>

\* case shutdownErr = <-dm.lc.ShutdownRequest()
Shutdown ==
    /\ phase = "loop"
    /\ phase' = "drain"
    /\ UNCHANGED <<state, mgroup, hostnames, runch, cluster, monitor, drains,
                   withdrawalVars>>

\* Variant: an update during a deploy is only recorded.
UpdateForgotten ==
    /\ phase = "loop"
    /\ mgroup < MaxVersion
    /\ mgroup' = mgroup + 1
    /\ IF state = "deploy-complete"
       THEN StartDeploy
       ELSE UNCHANGED <<state, runch, monitor>>
    /\ UNCHANGED <<phase, hostnames, cluster, drains, withdrawalVars>>

\* Variant: an update during a teardown is deployed.
UpdateOverTeardown ==
    /\ phase = "loop"
    /\ mgroup < MaxVersion
    /\ mgroup' = mgroup + 1
    /\ IF state = "deploy-complete"
       THEN StartDeploy
       ELSE state' = "deploy-pending" /\ UNCHANGED <<runch, monitor>>
    /\ UNCHANGED <<phase, hostnames, cluster, drains, withdrawalVars>>

\* case mgroup := <-dm.updatech
Update ==
    /\ phase = "loop"
    /\ mgroup < MaxVersion
    /\ mgroup' = mgroup + 1
    /\ \/ /\ state \in {"deploy-active", "deploy-pending"}
          /\ state' = "deploy-pending"
          /\ UNCHANGED <<runch, monitor>>
       \/ /\ state = "deploy-complete"
          /\ StartDeploy
       \/ /\ state \in {"teardown-active", "teardown-pending", "teardown-complete"}
          /\ UNCHANGED <<state, runch, monitor>>
    /\ UNCHANGED <<phase, hostnames, cluster, drains, withdrawalVars>>

\* case result := <-runch
Result ==
    /\ phase = "loop"
    /\ runch.step \in {"ok", "err"}
    /\ \/ /\ state \in {"deploy-active", "deploy-pending"}
          /\ runch.step = "err"
          /\ runch' = NoOperation
          /\ phase' = "drain"
          /\ UNCHANGED <<state, monitor, drains, withdrawalVars>>
       \/ /\ state = "deploy-active"
          /\ runch.step = "ok"
          /\ runch' = NoOperation
          /\ state' = "deploy-complete"
          /\ StartMonitor
          /\ StartWithdrawal
          /\ UNCHANGED phase
       \/ /\ state = "deploy-pending"
          /\ runch.step = "ok"
          /\ StartDeploy
          /\ UNCHANGED <<phase, drains, withdrawalVars>>
       \/ /\ state = "teardown-active"
          /\ runch' = NoOperation
          /\ state' = "teardown-complete"
          /\ phase' = "drain"
          /\ UNCHANGED <<monitor, drains, withdrawalVars>>
       \/ /\ state = "teardown-pending"
          /\ StartTeardown
          /\ UNCHANGED <<phase, drains, withdrawalVars>>
    /\ UNCHANGED <<mgroup, hostnames, cluster>>

\* case <-dm.teardownch
Teardown ==
    /\ phase = "loop"
    /\ \/ /\ state \in {"deploy-active", "deploy-pending"}
          /\ StopMonitor
          /\ state' = "teardown-pending"
          /\ UNCHANGED runch
       \/ /\ state = "deploy-complete"
          /\ StartTeardown
       \/ /\ state \in {"teardown-active", "teardown-pending", "teardown-complete"}
          /\ StopMonitor
          /\ UNCHANGED <<state, runch>>
    /\ UNCHANGED <<phase, mgroup, hostnames, cluster, drains, withdrawalVars>>

\* if runch != nil { <-runch }
Drain ==
    /\ phase = "drain"
    /\ runch.step \in {"none", "ok", "err"}
    /\ phase' = "wait"
    /\ runch' = NoOperation
    /\ UNCHANGED <<state, mgroup, hostnames, cluster, monitor, drains, withdrawalVars>>

\* dm.wg.Wait(), the shutdown of the withdrawal, and the deferred release.
Finish ==
    /\ phase = "wait"
    /\ monitor.pc \in {"none", "done"}
    /\ drains = 0
    /\ withdrawal # "loop"
    /\ phase' = "done"
    /\ hostnames' = IF hostnames = "held" THEN "none" ELSE hostnames
    /\ UNCHANGED <<state, mgroup, runch, cluster, monitor, drains, withdrawalVars>>

-----------------------------------------------------------------------------
(* The goroutine of the operation in flight. *)

\* doDeploy reads dm.mgroup when it runs, which may be after the loop has
\* replaced it.
OperationRuns ==
    /\ runch.step = "started"
    /\ runch' = Operation(runch.op, "running", IF runch.op = "deploy" THEN mgroup ELSE 0)
    /\ UNCHANGED <<phase, state, mgroup, hostnames, cluster, monitor, drains,
                   withdrawalVars>>

\* client.Deploy, or the last attempt of client.TeardownLease: one that fails
\* may have changed the cluster or not.
OperationReturns ==
    /\ runch.step = "running"
    /\ \/ /\ runch' = [runch EXCEPT !.step = "ok"]
          /\ cluster' = runch.group
       \/ /\ runch' = [runch EXCEPT !.step = "err"]
          /\ cluster' \in {cluster, runch.group}
    /\ UNCHANGED <<phase, state, mgroup, hostnames, monitor, drains, withdrawalVars>>

-----------------------------------------------------------------------------
(* The monitor. *)

\* case <-tickch
MonitorTick ==
    /\ monitor.pc = "loop"
    /\ monitor.check = "timer"
    /\ monitor' = [monitor EXCEPT !.check = "running", !.attempts = @ + 1]
    /\ UNCHANGED <<managerVars, cluster, drains, withdrawalVars>>

\* doCheck: LeaseStatus fails or finds too few replicas, or all is well.
CheckReturns ==
    /\ monitor.check = "running"
    /\ \/ monitor' = [monitor EXCEPT !.check = "bad"]
       \/ cluster # 0 /\ monitor' = [monitor EXCEPT !.check = "ok"]
    /\ UNCHANGED <<managerVars, cluster, drains, withdrawalVars>>

\* Variant: a healthy deployment does not reset the number of attempts.
CheckResultCountsOn ==
    /\ monitor.pc = "loop"
    /\ \/ /\ monitor.check = "ok"
          /\ monitor' = [monitor EXCEPT !.check = "timer", !.bad = 0]
       \/ /\ monitor.check = "bad"
          /\ monitor' = IF monitor.attempts <= MaxRetries
                        THEN [monitor EXCEPT !.check = "timer", !.bad = @ + 1]
                        ELSE [monitor EXCEPT !.check = "none", !.bad = @ + 1,
                                             !.closing = "running"]
    /\ UNCHANGED <<managerVars, cluster, drains, withdrawalVars>>

\* case result := <-runch of the monitor
CheckResult ==
    /\ monitor.pc = "loop"
    /\ \/ /\ monitor.check = "ok"
          /\ monitor' = [monitor EXCEPT !.check = "timer", !.attempts = 0, !.bad = 0]
       \/ /\ monitor.check = "bad"
          /\ monitor' = IF monitor.attempts <= MaxRetries
                        THEN [monitor EXCEPT !.check = "timer", !.bad = @ + 1]
                        ELSE [monitor EXCEPT !.check = "none", !.bad = @ + 1,
                                             !.closing = "running"]
    /\ UNCHANGED <<managerVars, cluster, drains, withdrawalVars>>

\* runCloseLease returns, with or without success; then case <-closech.
CloseLeaseReturns ==
    /\ monitor.closing = "running"
    /\ monitor' = [monitor EXCEPT !.closing = "returned"]
    /\ UNCHANGED <<managerVars, cluster, drains, withdrawalVars>>

\* m.lc.WatchChannel(dm.lc.ShuttingDown())
MonitorStops ==
    /\ phase # "loop"
    /\ monitor.pc = "loop"
    /\ monitor' = [monitor EXCEPT !.pc = "drain"]
    /\ UNCHANGED <<managerVars, cluster, drains, withdrawalVars>>

\* Variant: closech is not set to nil once it was read.
MonitorEndsReadsTwice ==
    /\ monitor.pc = "drain"
    /\ monitor.check # "running"
    /\ monitor.closing = "none"
    /\ monitor' = [monitor EXCEPT !.pc = "done"]
    /\ UNCHANGED <<managerVars, cluster, drains, withdrawalVars>>

MonitorEnds ==
    /\ monitor.pc = "drain"
    /\ monitor.check # "running"
    /\ monitor.closing # "running"
    /\ monitor' = [monitor EXCEPT !.pc = "done"]
    /\ UNCHANGED <<managerVars, cluster, drains, withdrawalVars>>

\* An earlier monitor's goroutine ends: dm.wg.Done().
EarlierMonitorEnds ==
    /\ drains > 0
    /\ drains' = drains - 1
    /\ UNCHANGED <<managerVars, cluster, monitor, withdrawalVars>>

\* dw.lc.WatchChannel(dm.lc.ShuttingDown()): nothing else ends a withdrawal.
WithdrawalEnds ==
    /\ phase # "loop"
    /\ \/ /\ withdrawal = "loop"
          /\ withdrawal' = "done"
          /\ UNCHANGED withdrawals
       \/ /\ withdrawals > 0
          /\ withdrawals' = withdrawals - 1
          /\ UNCHANGED withdrawal
    /\ UNCHANGED <<managerVars, cluster, monitor, drains>>

-----------------------------------------------------------------------------
(* The hostname service. *)

AnswerHostnames ==
    /\ hostnames = "asked"
    /\ hostnames' \in {"granted", "refused"}
    /\ UNCHANGED <<phase, state, mgroup, runch, cluster, monitor, drains, withdrawalVars>>

-----------------------------------------------------------------------------
Next ==
    \/ HostnamesReserved \/ Shutdown \/ Update \/ Result \/ Teardown \/ Drain \/ Finish
    \/ OperationRuns \/ OperationReturns
    \/ MonitorTick \/ CheckReturns \/ CheckResult \/ CloseLeaseReturns
    \/ MonitorStops \/ MonitorEnds \/ EarlierMonitorEnds \/ WithdrawalEnds
    \/ AnswerHostnames

Spec == Init /\ [][Next]_vars

\* Goroutines run, timers fire, and calls to Kubernetes, the chain and the
\* hostname service return.  Updates, teardowns and shutdowns need not come.
Fairness ==
    /\ WF_vars(AnswerHostnames) /\ WF_vars(HostnamesReserved)
    /\ WF_vars(OperationRuns) /\ WF_vars(OperationReturns) /\ WF_vars(Result)
    /\ WF_vars(MonitorTick) /\ WF_vars(CheckReturns) /\ WF_vars(CheckResult)
    /\ WF_vars(CloseLeaseReturns) /\ WF_vars(MonitorStops) /\ WF_vars(MonitorEnds)
    /\ WF_vars(EarlierMonitorEnds) /\ WF_vars(WithdrawalEnds)
    /\ WF_vars(Drain) /\ WF_vars(Finish)

FairSpec == Spec /\ Fairness

-----------------------------------------------------------------------------
(* Properties *)

States == {"deploy-active", "deploy-pending", "deploy-complete",
           "teardown-active", "teardown-pending", "teardown-complete"}

Operations == [op : {"none", "deploy", "teardown"},
               step : {"none", "started", "running", "ok", "err"},
               group : 0..MaxVersion]

Monitors == [pc : {"none", "loop", "drain", "done"},
             check : {"timer", "running", "ok", "bad", "none"},
             attempts : Nat, closing : {"none", "running", "returned"}, bad : Nat,
             group : 0..MaxVersion]

\* Every variable has its type.
TypeOK ==
    /\ phase \in {"loop", "drain", "wait", "done"}
    /\ state \in States
    /\ mgroup \in 1..MaxVersion
    /\ hostnames \in Hostnames
    /\ runch \in Operations
    /\ cluster \in 0..MaxVersion
    /\ monitor \in Monitors
    /\ drains \in Nat
    /\ withdrawal \in {"none", "loop", "done"}
    /\ withdrawals \in Nat

Reserving == hostnames \in {"asked", "granted", "refused"}

\* The state says which operation is in flight, so the loop never reads a result
\* in a state that panics (manager.go:175 and :184), and no operation is started
\* while the channel of another one is waiting to be read.
StateMatchesOperation ==
    phase = "loop" =>
        /\ state \in {"deploy-active", "deploy-pending", "teardown-pending"} =>
               IF Reserving THEN runch = NoOperation ELSE runch.op = "deploy"
        /\ state = "teardown-active" => runch.op = "teardown"
        /\ state \in {"deploy-complete", "teardown-complete"} => runch = NoOperation

\* An operation is forgotten, or followed by another, only after it has answered.
NoOperationLost ==
    [][runch' # runch /\ runch'.step \in {"none", "started"}
         => runch.step \in {"none", "ok", "err"}]_vars

\* When the manager reports a deployment complete, the cluster has the manifest
\* received last: updates during a deploy are not lost, although doDeploy reads
\* dm.mgroup while the loop may write it.
LatestDeployed == phase = "loop" /\ state = "deploy-complete" => cluster = mgroup

\* A monitor runs its checks only while the deployment it was started for is
\* complete and unchanged; it never judges a deployment that is being replaced
\* or torn down.
MonitorsCurrent ==
    monitor.pc = "loop" /\ phase = "loop" =>
        state = "deploy-complete" /\ monitor.group = cluster

\* Nothing runs in the cluster for this lease unless its hostnames are reserved.
HostnamesFirst == runch.op # "none" => hostnames = "held"

\* The provider gives a lease up only after MaxRetries + 1 checks in a row have
\* failed since the deployment came up or was last healthy.
ClosesOnlyFailed == monitor.closing # "none" => monitor.bad = MaxRetries + 1

\* Whatever the loop will do with a deploy that has
\* succeeded, the cluster has the manifest the deploy has read, which is the last
\* one unless the state says that another deploy must follow.
DeployReads ==
    /\ runch.op = "none" => runch.step = "none"
    /\ runch.step = "none" => runch = NoOperation
    /\ runch.step = "ok" => cluster = runch.group
    /\ phase = "loop" /\ state = "deploy-active" /\ runch.step \in {"running", "ok"}
         => runch.group = mgroup

\* attempts is the number of checks started since the last one that succeeded.
AttemptsCount ==
    /\ monitor.check = "timer" => monitor.attempts = monitor.bad
    /\ monitor.check \in {"running", "ok", "bad"} => monitor.attempts = monitor.bad + 1
    /\ monitor.check # "none" => monitor.bad <= MaxRetries /\ monitor.closing = "none"
    /\ monitor.check = "none" => monitor.bad = MaxRetries + 1

\* The inductive invariant: the state of the loop, the operation in flight, the
\* cluster, the hostnames and the monitor agree in every interleaving.
IInv ==
    /\ TypeOK
    /\ StateMatchesOperation
    /\ DeployReads
    /\ LatestDeployed
    /\ MonitorsCurrent
    /\ HostnamesFirst
    /\ AttemptsCount
    /\ phase = "loop" => state # "teardown-complete" /\ hostnames # "none"
    /\ phase = "loop" /\ state = "deploy-complete" => hostnames = "held"
    /\ phase \in {"wait", "done"} => runch = NoOperation

\* A teardown requested once the hostnames are held is not overtaken by updates,
\* and ends the manager.  (One requested earlier is forgotten when they are
\* granted, since startDeploy overwrites the state.)
TeardownEnds ==
    state \in {"teardown-pending", "teardown-active"} /\ hostnames = "held" ~> phase = "done"

\* A manager that leaves its loop comes to its end: it waits for nothing that
\* does not stop.
ShutdownCompletes == phase # "loop" ~> phase = "done" /\ withdrawals = 0

\* However it is told to end, by a teardown or by a shutdown of the provider and at
\* whatever it is doing, the manager ends with all it has started.
ManagerEnds == TeardownEnds /\ ShutdownCompletes
=============================================================================
