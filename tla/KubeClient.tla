----------------------------- MODULE KubeClient -----------------------------
(***************************************************************************)
(* What the provider writes to the cluster for one lease                   *)
(* (src/provider/cluster/kube: client.go, apply.go, cleanup.go, and the    *)
(* names, labels and ports of builder.go), call by call.  Any call may     *)
(* fail, with or without its effect, and the provider may be killed        *)
(* between two calls and deploy again, when it starts, what it finds       *)
(* recorded.  The tenant's manifests for the lease are numbered as they    *)
(* are accepted; of an object, what is kept is the manifest it is built    *)
(* from, its service label and its node ports.                             *)
(***************************************************************************)
EXTENDS Naturals, Sequences

CONSTANTS
    Manifests,      \* sequence of groups; a group is a sequence of services
    NodePortName,   \* by service name, makeGlobalServiceNameFromBasename
    NodePorts,      \* what the cluster gives out
    NetworkPoliciesEnabled

ASSUME KubeParameters ==
    /\ Manifests \in Seq(Seq([name : DOMAIN NodePortName,
                             expose : Seq([port : Nat, global : BOOLEAN])]))
    /\ NetworkPoliciesEnabled \in BOOLEAN

VARIABLES
    accepted,       \* number of manifests the tenant had accepted
    todo,           \* the calls Deploy still makes
    deploying,      \* the manifest it deploys, 0 if none
    deployed,       \* the manifest of the last Deploy, if it succeeded and none followed
    manager,        \* "new", "up", "gone" (after an error), "killed", "closed"
    namespace,      \* "none", "active", "deleting"
    objects,        \* in the namespace
    recorded        \* the Manifest object, outside of the namespace; 0 if none

vars == <<accepted, todo, deploying, deployed, manager, namespace, objects, recorded>>

Init ==
    /\ accepted = 0
    /\ todo = <<>>
    /\ deploying = 0
    /\ deployed = 0
    /\ manager = "new"
    /\ namespace = "none"
    /\ objects = {}
    /\ recorded = 0

-----------------------------------------------------------------------------
(* builder.go.  An expose has the port it is reached at and says if it is    *)
(* global; all are TCP.                                                      *)

ShouldBeIngress(e) == e.global /\ e.port = 80

\* the exposes, by position, of the local or of the global service
ExposesOf(s, nodePort) ==
    {i \in DOMAIN s.expose :
        IF nodePort THEN s.expose[i].global /\ ~ShouldBeIngress(s.expose[i])
        ELSE ~s.expose[i].global \/ ShouldBeIngress(s.expose[i])}

\* serviceBuilder.any
AnyPort(s, nodePort) == ExposesOf(s, nodePort) # {}

\* serviceBuilder.name
ServiceName(s, nodePort) == IF nodePort THEN NodePortName[s.name] ELSE s.name

\* ports: what the builder calls a port, its position and its number
Ports(s) == {<<i, s.expose[i].port>> : i \in ExposesOf(s, TRUE)}

Object(kind, name, s, v) ==
    [kind |-> kind, name |-> name, service |-> s.name, version |-> v, ports |-> <<>>]

Names(v) == {Manifests[v][i].name : i \in DOMAIN Manifests[v]}

-----------------------------------------------------------------------------
(* Deploy, as the calls it makes. *)

\* The sequences one after the other, as a loop appends them.
Concat(seqs) ==
    LET upto[n \in 0..Len(seqs)] == IF n = 0 THEN <<>> ELSE upto[n - 1] \o seqs[n]
    IN  upto[Len(seqs)]

Call(op, kind, s) == [op |-> op, kind |-> kind, service |-> s]
None == [name |-> "none", expose |-> <<>>]

\* "If no ports are found, skip this service"
PolicyOf(s) == IF AnyPort(s, TRUE) THEN <<Call("policy", "", s)>> ELSE <<>>

\* netPolBuilder.create: one for the namespace, one for each service with node ports
PolicyCalls(v) ==
    IF ~NetworkPoliciesEnabled THEN <<>>
    ELSE <<Call("policy", "", None)>>
         \o Concat([i \in DOMAIN Manifests[v] |-> PolicyOf(Manifests[v][i])])

ServiceCalls(s) ==
    <<Call("apply", "deployment", s)>>
    \o (IF AnyPort(s, FALSE) THEN <<Call("apply", "local", s)>> ELSE <<>>)
    \o (IF AnyPort(s, TRUE) THEN <<Call("apply", "global", s)>> ELSE <<>>)
    \o Concat([i \in DOMAIN s.expose |->
           IF ShouldBeIngress(s.expose[i]) THEN <<Call("apply", "ingress", s)>> ELSE <<>>])

\* Variant: the manifest is recorded once its services run.
DeployCallsRecordLast(v) ==
    <<Call("namespace", "", None)>>
    \o PolicyCalls(v)
    \o <<Call("cleanup", "deployment", None), Call("cleanup", "ingress", None),
         Call("cleanup", "service", None)>>
    \o Concat([i \in DOMAIN Manifests[v] |-> ServiceCalls(Manifests[v][i])])
    \o <<Call("manifest", "", None)>>

DeployCalls(v) ==
    <<Call("namespace", "", None)>>
    \o PolicyCalls(v)
    \o <<Call("manifest", "", None),
         Call("cleanup", "deployment", None), Call("cleanup", "ingress", None),
         Call("cleanup", "service", None)>>
    \o Concat([i \in DOMAIN Manifests[v] |-> ServiceCalls(Manifests[v][i])])

\* apply: the object is created, or replaces the one of its kind and name.
Apply(o) == objects' = {x \in objects : x.kind # o.kind \/ x.name # o.name} \union {o}

\* Variant: an update asks for all its ports anew.
ApplyGlobalAnew(s) ==
    LET o == Object("service", ServiceName(s, TRUE), s, deploying)
        old == {x \in objects : x.kind = o.kind /\ x.name = o.name}
        Taken == UNION {{x.ports[p] : p \in DOMAIN x.ports} : x \in old}
    IN  \E given \in [Ports(s) -> NodePorts \ Taken] : Apply([o EXCEPT !.ports = given])

\* The global service keeps the node ports of the ports that stay; the cluster
\* gives it any others.
ApplyGlobal(s) ==
    LET o == Object("service", ServiceName(s, TRUE), s, deploying)
        old == {x \in objects : x.kind = o.kind /\ x.name = o.name}
        Kept(x) == Ports(s) \intersect DOMAIN x.ports
        Taken == UNION {{x.ports[p] : p \in DOMAIN x.ports} : x \in old}
    IN  \E given \in [Ports(s) -> NodePorts] :
            /\ \A x \in old : \A p \in Kept(x) : given[p] = x.ports[p]
            /\ \A p \in Ports(s) \ UNION {Kept(x) : x \in old} : given[p] \notin Taken
            /\ Apply([o EXCEPT !.ports = given])

\* Variant: the selector says In, not NotIn.
StaleIn(kind) == {x \in objects : x.kind = kind /\ x.service \in Names(deploying)}

\* Variant: whatever is managed is deleted first.
StaleAll(kind) == {x \in objects : x.kind = kind}

\* the selector of cleanupStaleResources; policies are never looked for
Stale(kind) == {x \in objects : x.kind = kind /\ x.service \notin Names(deploying)}

\* The effect of a call on the cluster.  The services are deleted one by one.
Effect(c) ==
    \/ /\ c.op = "namespace"
       /\ namespace' = "active"
       /\ UNCHANGED <<objects, recorded>>
    \/ /\ c.op = "policy"
       /\ Apply(Object("policy", c.service.name, c.service, deploying))
       /\ UNCHANGED <<namespace, recorded>>
    \/ /\ c.op = "manifest"
       /\ recorded' = deploying
       /\ UNCHANGED <<namespace, objects>>
    \/ /\ c.op = "cleanup"
       /\ IF c.kind = "service" /\ Stale(c.kind) # {}
          THEN \E x \in Stale(c.kind) : objects' = objects \ {x}
          ELSE objects' = objects \ Stale(c.kind)
       /\ UNCHANGED <<namespace, recorded>>
    \/ /\ c.op = "apply"
       /\ \/ /\ c.kind \in {"deployment", "ingress"}
             /\ Apply(Object(c.kind, c.service.name, c.service, deploying))
          \/ /\ c.kind = "local"
             /\ Apply(Object("service", ServiceName(c.service, FALSE), c.service, deploying))
          \/ /\ c.kind = "global"
             /\ ApplyGlobal(c.service)
       /\ UNCHANGED <<namespace, recorded>>

\* The calls after the current one: those for services go on while one is stale.
Rest ==
    IF Head(todo).op = "cleanup" /\ Head(todo).kind = "service" /\ Stale("service") # {}
    THEN todo ELSE Tail(todo)

-----------------------------------------------------------------------------
(* The deployment manager, as far as it decides what is called. *)

Begin(v) ==
    /\ deploying' = v
    /\ todo' = DeployCalls(v)
    /\ deployed' = 0
    /\ UNCHANGED <<namespace, objects, recorded>>

\* A manifest is received; the manager deploys once the Deploy before is through.
Deploy ==
    /\ manager \in {"new", "up"}
    /\ deploying = 0
    /\ accepted < Len(Manifests)
    /\ accepted' = accepted + 1
    /\ manager' = "up"
    /\ Begin(accepted + 1)

Succeeds ==
    /\ todo # <<>>
    /\ Effect(Head(todo))
    /\ todo' = Rest
    /\ IF Rest = <<>> THEN deployed' = deploying /\ deploying' = 0
                      ELSE UNCHANGED <<deployed, deploying>>
    /\ UNCHANGED <<accepted, manager>>

\* applyNetPolicies leaves its loop, and its caller sees no error: the err of the
\* loop is not the one it returns.
PolicyFails ==
    /\ todo # <<>>
    /\ Head(todo).op = "policy"
    /\ \E n \in DOMAIN todo :
          /\ todo[n].op # "policy"
          /\ \A i \in 1..(n - 1) : todo[i].op = "policy"
          /\ todo' = SubSeq(todo, n, Len(todo))
    /\ \/ Effect(Head(todo))
       \/ UNCHANGED <<namespace, objects, recorded>>
    /\ UNCHANGED <<accepted, deploying, deployed, manager>>

\* Any other error ends Deploy, and the manager with it.
Fails ==
    /\ todo # <<>>
    /\ Head(todo).op # "policy"
    /\ \/ Effect(Head(todo))
       \/ UNCHANGED <<namespace, objects, recorded>>
    /\ todo' = <<>>
    /\ deploying' = 0
    /\ manager' = "gone"
    /\ UNCHANGED <<accepted, deployed>>

Killed ==
    /\ manager \in {"up", "gone"}
    /\ manager' = "killed"
    /\ todo' = <<>>
    /\ deploying' = 0
    /\ deployed' = 0
    /\ UNCHANGED <<accepted, namespace, objects, recorded>>

\* Deployments, and a manager for what was found
Restart ==
    /\ manager = "killed"
    /\ recorded # 0
    /\ manager' = "up"
    /\ Begin(recorded)
    /\ UNCHANGED accepted

\* The delete may fail; the manager is through in any case.
TeardownLease ==
    /\ manager = "up"
    /\ deploying = 0
    /\ manager' = "closed"
    /\ namespace' \in {"deleting", namespace}
    /\ deployed' = 0
    /\ UNCHANGED <<accepted, todo, deploying, objects, recorded>>

\* The cluster deletes what is in the namespace, in any order, then itself.
Collect ==
    /\ namespace = "deleting"
    /\ \/ \E x \in objects : objects' = objects \ {x} /\ UNCHANGED namespace
       \/ objects = {} /\ namespace' = "none" /\ UNCHANGED objects
    /\ UNCHANGED <<accepted, todo, deploying, deployed, manager, recorded>>

Next ==
    \/ Deploy \/ Succeeds \/ PolicyFails \/ Fails
    \/ Killed \/ Restart \/ TeardownLease \/ Collect

Spec == Init /\ [][Next]_vars

-----------------------------------------------------------------------------

Has(kind, name, s, v) ==
    \E x \in objects : x.kind = kind /\ x.name = name /\ x.service = s.name /\ x.version = v

\* After a Deploy that reported success the namespace holds, for each service of
\* the manifest and built from it, what the manifest asks for, and no deployment,
\* ingress or service of a service it does not name; this whatever earlier
\* deploys that failed or were cut short had left.  (Policies are not covered:
\* their errors are lost.)
DeployedMatches ==
    deployed # 0 =>
        /\ \A i \in DOMAIN Manifests[deployed] :
              LET s == Manifests[deployed][i]
              IN  /\ Has("deployment", s.name, s, deployed)
                  /\ AnyPort(s, FALSE) => Has("service", ServiceName(s, FALSE), s, deployed)
                  /\ AnyPort(s, TRUE) => Has("service", ServiceName(s, TRUE), s, deployed)
                  /\ (\E j \in DOMAIN s.expose : ShouldBeIngress(s.expose[j]))
                        => Has("ingress", s.name, s, deployed)
        /\ \A x \in objects : x.kind # "policy" => x.service \in Names(deployed)

\* What runs is recorded, and nothing is newer than the record: the provider that
\* starts again finds every lease it has to serve, and takes nothing back.
WorkloadsAreRecorded ==
    \A x \in objects : x.kind # "policy" => x.version <= recorded

\* A deploy deletes nothing of a service its manifest names: an update does not
\* take a running service down.
UpdatesKeepServices ==
    [][deploying # 0 /\ deploying' \in {deploying, 0} =>
        \A x \in objects :
            x.service \in Names(deploying) =>
                \E y \in objects' : y.kind = x.kind /\ y.name = x.name]_vars

\* The node port of a port stays as long as the service exposes that port at the
\* same place of its list: the place is part of the port's name (builder.go:484).
NodePortsStay ==
    [][\A x \in objects, y \in objects' :
        x.kind = y.kind /\ x.name = y.name =>
            \A p \in DOMAIN x.ports \intersect DOMAIN y.ports : x.ports[p] = y.ports[p]]_vars

\* Throughout an update a tenant's services are there, and reached where they were
\* at the ports that keep their place in the manifest.
UpdatesKeepServing == UpdatesKeepServices /\ NodePortsStay

\* The node port of a port stays as long as the service exposes that port.  The code
\* does not see to that: a port that moves up, as one before it is dropped, is
\* another port to serviceBuilder.update, and is given another node port.
PortNumbersStay ==
    [][\A x \in objects, y \in objects' :
        x.kind = y.kind /\ x.name = y.name =>
            \A p \in DOMAIN x.ports, q \in DOMAIN y.ports :
                p[2] = q[2] => x.ports[p] = y.ports[q]]_vars

-----------------------------------------------------------------------------
(* Why: what holds between any two calls. *)

\* The apply calls a service asks for, and the object each of them builds.
Wanted(s) ==
    {Call("apply", "deployment", s)}
    \cup {c \in {Call("apply", "local", s)} : AnyPort(s, FALSE)}
    \cup {c \in {Call("apply", "global", s)} : AnyPort(s, TRUE)}
    \cup {c \in {Call("apply", "ingress", s)} :
             \E j \in DOMAIN s.expose : ShouldBeIngress(s.expose[j])}

ObjectKind(c) == IF c.kind \in {"local", "global"} THEN "service" ELSE c.kind

ObjectName(c) == ServiceName(c.service, c.kind = "global")

Services(v) == {Manifests[v][i] : i \in DOMAIN Manifests[v]}

AllServices == UNION {Services(v) : v \in DOMAIN Manifests}

CallType ==
    [op : {"namespace", "policy", "manifest", "cleanup", "apply"},
     kind : {"", "deployment", "ingress", "service", "local", "global"},
     service : AllServices \cup {None}]

Pending == {todo[i] : i \in DOMAIN todo}

TypeOK ==
    /\ accepted \in 0..Len(Manifests)
    /\ {deploying, deployed, recorded} \subseteq 0..accepted
    /\ manager \in {"new", "up", "gone", "killed", "closed"}
    /\ namespace \in {"none", "active", "deleting"}
    /\ todo \in Seq(CallType)
    /\ \A x \in objects : /\ x.kind \in {"policy", "deployment", "ingress", "service"}
                          /\ x.version \in Nat

\* There are calls to make exactly during a Deploy, which takes back nothing.
OneDeploy ==
    /\ deploying = 0 <=> todo = <<>>
    /\ deploying # 0 => manager = "up" /\ deployed = 0 /\ recorded <= deploying
    /\ namespace = "deleting" => manager = "closed" /\ deployed = 0

\* An object is the only one of its kind and name.
Unique == \A x, y \in objects : x.kind = y.kind /\ x.name = y.name => x = y

\* No object is applied before the manifest is recorded.
RecordFirst ==
    \A i \in DOMAIN todo :
        todo[i].op = "apply" /\ recorded # deploying =>
            \E j \in 1..(i - 1) : todo[j].op = "manifest"

\* On the way to version v, with calls still to come: what its manifest asks for
\* is built or will be, what it does not name is gone or will be, and nothing else
\* is applied.
Reached(v, calls) ==
    /\ \A s \in Services(v) : \A c \in Wanted(s) :
          c \in calls \/ Has(ObjectKind(c), ObjectName(c), s, v)
    /\ \A kind \in {"deployment", "ingress", "service"} :
          \/ Call("cleanup", kind, None) \in calls
          \/ \A x \in objects : x.kind = kind => x.service \in Names(v)
    /\ \A c \in calls : c.op = "apply" => \E s \in Services(v) : c \in Wanted(s)

\* In a manifest, a name with "-np" is the name of no other service with a local
\* port, and of one service only.  The code sees to the latter.
NamesApart ==
    \A v \in DOMAIN Manifests : \A s, r \in Services(v) :
        /\ AnyPort(s, TRUE) /\ AnyPort(r, FALSE) => NodePortName[s.name] # r.name
        /\ NodePortName[s.name] = NodePortName[r.name] => s.name = r.name

Progress == deploying # 0 => Reached(deploying, Pending)

\* What an update needs, whatever the services are called.
RecordInv == TypeOK /\ OneDeploy /\ Unique /\ RecordFirst /\ WorkloadsAreRecorded

IInv == RecordInv /\ Progress /\ DeployedMatches
=============================================================================
