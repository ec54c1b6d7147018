-------------------------- MODULE BroadcasterProofs --------------------------
(***************************************************************************)
(* For every set of callers and every sequence number: a transaction is    *)
(* accepted at most once, one retry corrects the sequence, and the         *)
(* broadcaster implements AtMostOnce.                                      *)
(***************************************************************************)
EXTENDS Broadcaster, TLAPS

\* What the call being served has done so far is in posted.
CallPosted ==
    request # NoRequest =>
        /\ caller[request] = "received"
        /\ response.code \in {"none", "other", "mismatch"} => posted[request] = 0
        /\ response.code = "ok" => posted[request] = 1

\* A request that was not received has not been posted.
NotYetPosted ==
    \A r \in Requests : caller[r] \in {"idle", "waiting"} => posted[r] = 0

\* Unless others intervene, the node still expects what it said.
NodeAsSaid ==
    request # NoRequest /\ ~disturbed =>
        /\ retried /\ response.code = "none" => seq = node
        /\ ~retried /\ response.code = "mismatch" => response.expected = node

IInv ==
    /\ TypeOK
    /\ PostedAtMostOnce
    /\ CallPosted
    /\ NotYetPosted
    /\ RetryCorrects
    /\ NodeAsSaid

\* The initial state satisfies the invariant.
LEMMA InitIInv == Init => IInv
<1> SUFFICES ASSUME Init PROVE IInv
  OBVIOUS
<1> USE BroadcasterParameters DEF Init
<1>1. TypeOK
  <2>1. response \in Responses
    BY DEF Code, Responses
  <2> QED
    BY <2>1 DEF TypeOK
<1>2. PostedAtMostOnce /\ CallPosted /\ NotYetPosted /\ RetryCorrects /\ NodeAsSaid
  BY DEF PostedAtMostOnce, CallPosted, NotYetPosted, RetryCorrects, NodeAsSaid
<1> QED
  BY <1>1, <1>2 DEF IInv

\* Every step preserves the invariant.
LEMMA NextIInv == IInv /\ [Next]_vars => IInv'
<1> SUFFICES ASSUME IInv, [Next]_vars PROVE IInv'
  OBVIOUS
<1> USE BroadcasterParameters
        DEF IInv, TypeOK, PostedAtMostOnce, CallPosted, NotYetPosted, RetryCorrects,
            NodeAsSaid, callVars, nodeVars
<1>1. CASE UNCHANGED vars
  BY <1>1 DEF vars
<1>2. ASSUME NEW r \in Requests, Broadcast(r) PROVE IInv'
  BY <1>2 DEF Broadcast
<1>3. ASSUME NEW r \in Requests, Cancel(r) PROVE IInv'
  BY <1>3 DEF Cancel
<1>4. ASSUME NEW r \in Requests, Receive(r) PROVE IInv'
  BY <1>4 DEF Receive, Code, Responses
<1>5. CASE DoBroadcast
  <2>1. CASE response.code = "mismatch" /\ ~retried /\ ParseNextSequence
    <3>1. /\ seq' = response.expected /\ retried' = TRUE
          /\ response' = Code("none")
          /\ UNCHANGED <<request, caller, synch, phase, node, chain, posted, disturbed>>
      BY <1>5, <2>1 DEF DoBroadcast, TryAgain
    <3>2. Code("none") \in Responses /\ Code("none").code = "none"
      BY DEF Code, Responses
    <3>3. response.expected \in Nat
      BY DEF Responses
    <3> QED
      BY <1>5, <2>1, <3>1, <3>2, <3>3 DEF DoBroadcast
  <2>2. CASE ~(response.code = "mismatch" /\ ~retried /\ ParseNextSequence)
    <3>1. /\ caller' = [caller EXCEPT ![request] =
                            IF response.code = "ok" THEN "ok" ELSE "error"]
          /\ request' = NoRequest
          /\ seq' = IF response.code = "ok" THEN seq + 1 ELSE seq
          /\ UNCHANGED <<retried, response, synch, phase, node, chain, posted, disturbed>>
      BY <1>5, <2>2 DEF DoBroadcast, Answer
    <3>2. request \in Requests
      BY <1>5 DEF DoBroadcast
    <3> QED
      BY <3>1, <3>2
  <2> QED
    BY <2>1, <2>2
<1>6. CASE Sync
  BY <1>6 DEF Sync
<1>7. CASE Shutdown
  BY <1>7 DEF Shutdown
<1>8. CASE SyncQuery
  BY <1>8 DEF SyncQuery
<1>9. CASE SyncStops
  BY <1>9 DEF SyncStops
<1>10. CASE NodeAccepts
  BY <1>10 DEF NodeAccepts, Posting, Respond, Code, Responses
<1>11. CASE NodeRefuses
  BY <1>11 DEF NodeRefuses, Posting, Respond, Code, Mismatch, Responses
<1>12. CASE OtherClient
  BY <1>12 DEF OtherClient
<1>13. CASE NodeDrops
  BY <1>13 DEF NodeDrops
<1>14. CASE NodeCommits
  BY <1>14 DEF NodeCommits
<1> QED
  BY <1>1, <1>2, <1>3, <1>4, <1>5, <1>6, <1>7, <1>8, <1>9, <1>10, <1>11, <1>12,
     <1>13, <1>14 DEF Next

\* The invariant holds in every reachable state.
THEOREM Invariance == Spec => []IInv
  BY InitIInv, NextIInv, PTL DEF Spec

\* No transaction is accepted twice, and nil is answered only for one that was
\* accepted, whatever the node drops, whoever else uses the key, and whatever
\* doBroadcast retries.
THEOREM AtMostOnePost == Spec => []PostedAtMostOnce
<1>1. IInv => PostedAtMostOnce
  BY DEF IInv
<1> QED
  BY <1>1, Invariance, PTL

\* One retry corrects the sequence number unless others change it again.
THEOREM OneRetrySuffices == Spec => []RetryCorrects
<1>1. IInv => RetryCorrects
  BY DEF IInv
<1> QED
  BY <1>1, Invariance, PTL

\* Only an answer of the node takes the sequence number back.
THEOREM Rewinds == Spec => OnlyNodeRewinds
<1>1. IInv /\ [Next]_vars =>
        [seq' < seq => /\ request # NoRequest
                       /\ response.code = "mismatch"
                       /\ seq' = response.expected]_vars
  <2> SUFFICES ASSUME IInv, Next, seq' < seq
               PROVE  /\ request # NoRequest
                      /\ response.code = "mismatch"
                      /\ seq' = response.expected
    OBVIOUS
  <2>1. seq \in Nat
    BY DEF IInv, TypeOK
  <2>2. seq' # seq
    BY <2>1
  <2>3. CASE DoBroadcast
    BY <2>1, <2>3 DEF DoBroadcast
  <2>4. CASE Sync
    <3>1. PICK seqno \in synch : seq' = IF seqno > seq THEN seqno ELSE seq
      BY <2>4 DEF Sync
    <3>2. seqno \in Nat
      BY DEF IInv, TypeOK
    <3> QED
      BY <2>1, <3>1, <3>2
  <2> QED
    BY <2>2, <2>3, <2>4
       DEF Next, Broadcast, Cancel, Receive, Shutdown, SyncQuery, SyncStops, NodeAccepts,
           NodeRefuses, OtherClient, NodeDrops, NodeCommits
<1> QED
  BY <1>1, Invariance, PTL DEF Spec, OnlyNodeRewinds

-----------------------------------------------------------------------------
\* What the callers see.
Places == {"idle", "waiting", "received", "ok", "error"}
Seen == [r \in Requests |-> IF caller[r] \in {"ok", "error"} THEN caller[r] ELSE "none"]

\* A step that moves callers only between states that are no answers changes
\* nothing a caller sees.
LEMMA SeenUnchanged ==
    ASSUME \A r \in Requests :
               \/ caller'[r] = caller[r]
               \/ caller'[r] \notin {"ok", "error"} /\ caller[r] \notin {"ok", "error"}
    PROVE  Seen' = Seen
  BY DEF Seen

\* A step that answers the calls rs with an error, and no others, is a Refuse.
LEMMA Refused ==
    ASSUME NEW rs \in SUBSET Requests,
           \A r \in rs : caller[r] \notin {"ok", "error"} /\ caller'[r] = "error",
           \A r \in Requests \ rs : caller'[r] = caller[r],
           posted' = posted
    PROVE  Promise!Refuse(rs)
<1>1. Seen' = [r \in Requests |-> IF r \in rs THEN "error" ELSE Seen[r]]
  BY DEF Seen
<1>2. \A r \in rs : Seen[r] = "none"
  BY DEF Seen
<1> QED
  BY <1>1, <1>2 DEF Promise!Refuse, Seen

\* Every step is a step of AtMostOnce or changes nothing there.
LEMMA StepRefines ==
    ASSUME IInv, [Next]_vars
    PROVE  [Promise!Next]_(Promise!vars)
<1> DEFINE Stutters == posted' = posted /\ Seen' = Seen
<1>0. Stutters => [Promise!Next]_(Promise!vars)
  BY DEF Promise!vars, Seen
<1>a. ASSUME NEW rs \in SUBSET Requests, Promise!Refuse(rs)
      PROVE  [Promise!Next]_(Promise!vars)
  BY <1>a DEF Promise!Next
<1> HIDE DEF Stutters
<1>1. CASE UNCHANGED <<caller, posted>>
  BY <1>0, <1>1 DEF Stutters, Seen
<1>2. ASSUME NEW r \in Requests, Broadcast(r) PROVE [Promise!Next]_(Promise!vars)
  <2>1. posted' = posted /\ caller[r] = "idle" /\ caller \in [Requests -> Places]
    BY <1>2 DEF Broadcast, IInv, TypeOK, Places
  <2>2. CASE phase = "running"
    <3>1. caller' = [caller EXCEPT ![r] = "waiting"]
      BY <1>2, <2>2 DEF Broadcast
    <3>2. Seen' = Seen
      BY <2>1, <3>1, SeenUnchanged
    <3> QED
      BY <1>0, <2>1, <3>2 DEF Stutters
  <2>3. CASE phase # "running"
    <3>1. caller' = [caller EXCEPT ![r] = "error"]
      BY <1>2, <2>3 DEF Broadcast
    <3>2. Promise!Refuse({r})
      BY <2>1, <3>1, Refused
    <3> QED
      BY <1>a, <3>2
  <2> QED
    BY <2>2, <2>3
<1>3. ASSUME NEW r \in Requests, Cancel(r) PROVE [Promise!Next]_(Promise!vars)
  <2>1. /\ posted' = posted /\ caller[r] = "waiting" /\ caller \in [Requests -> Places]
        /\ caller' = [caller EXCEPT ![r] = "error"]
    BY <1>3 DEF Cancel, IInv, TypeOK, Places
  <2>2. Promise!Refuse({r})
    BY <2>1, Refused
  <2> QED
    BY <1>a, <2>2
<1>4. ASSUME NEW r \in Requests, Receive(r) PROVE [Promise!Next]_(Promise!vars)
  <2>1. /\ posted' = posted /\ caller[r] = "waiting" /\ caller \in [Requests -> Places]
        /\ caller' = [caller EXCEPT ![r] = "received"]
    BY <1>4 DEF Receive, IInv, TypeOK, Places
  <2>2. Seen' = Seen
    BY <2>1, SeenUnchanged
  <2> QED
    BY <1>0, <2>1, <2>2 DEF Stutters
<1>5. CASE DoBroadcast /\ caller' # caller
  <2>1. /\ request \in Requests /\ posted' = posted
        /\ caller[request] = "received" /\ caller \in [Requests -> Places]
        /\ caller' = [caller EXCEPT ![request] =
                          IF response.code = "ok" THEN "ok" ELSE "error"]
        /\ response.code = "ok" => posted[request] = 1
    BY <1>5 DEF DoBroadcast, TryAgain, Answer, IInv, TypeOK, CallPosted, Places
  <2>r. PICK r \in Requests : r = request
    BY <2>1
  <2>2. CASE response.code = "ok"
    <3>1. Seen' = [Seen EXCEPT ![r] = "ok"] /\ Seen[r] = "none"
      BY <2>1, <2>r, <2>2 DEF Seen
    <3>2. posted' = posted /\ posted[r] = 1
      BY <2>1, <2>r, <2>2
    <3>3. Promise!Succeed(r)
      BY <3>1, <3>2 DEF Promise!Succeed, Seen
    <3> QED
      BY <3>3 DEF Promise!Next
  <2>3. CASE response.code # "ok"
    <3>1. caller' = [caller EXCEPT ![r] = "error"]
      BY <2>1, <2>r, <2>3
    <3>2. Promise!Refuse({r})
      BY <2>1, <2>r, <3>1, Refused
    <3> QED
      BY <1>a, <3>2
  <2> QED
    BY <2>2, <2>3
<1>6. CASE Shutdown
  <2>1. /\ posted' = posted
        /\ caller' = [r \in Requests |-> IF caller[r] = "waiting" THEN "error" ELSE caller[r]]
    BY <1>6 DEF Shutdown
  <2>2. PICK rs \in SUBSET Requests : rs = {r \in Requests : caller[r] = "waiting"}
    OBVIOUS
  <2>3. Promise!Refuse(rs)
    BY <2>1, <2>2, Refused
  <2> QED
    BY <1>a, <2>3
<1>7. CASE NodeAccepts
  <2>1. /\ request \in Requests /\ posted \in [Requests -> Nat]
        /\ posted' = [posted EXCEPT ![request] = posted[request] + 1]
        /\ caller' = caller /\ caller[request] = "received" /\ posted[request] = 0
    BY <1>7 DEF NodeAccepts, Posting, IInv, TypeOK, CallPosted
  <2>r. PICK r \in Requests : r = request
    BY <2>1
  <2>2. posted' = [posted EXCEPT ![r] = 1] /\ posted[r] = 0
    BY <2>1, <2>r
  <2>3. Seen' = Seen /\ Seen[r] = "none"
    BY <2>1, <2>r DEF Seen
  <2>4. Promise!Post(r)
    BY <2>2, <2>3 DEF Promise!Post, Seen
  <2> QED
    BY <2>4 DEF Promise!Next
<1> QED
  <2>1. Sync \/ SyncQuery \/ SyncStops \/ NodeRefuses \/ OtherClient \/ NodeDrops \/ NodeCommits
        => UNCHANGED <<caller, posted>>
    BY DEF Sync, SyncQuery, SyncStops, NodeRefuses, OtherClient, NodeDrops, NodeCommits
  <2>2. DoBroadcast => posted' = posted
    BY DEF DoBroadcast
  <2>3. UNCHANGED vars => UNCHANGED <<caller, posted>>
    BY DEF vars
  <2> QED
    BY <1>1, <1>2, <1>3, <1>4, <1>5, <1>6, <1>7, <2>1, <2>2, <2>3 DEF Next

\* The broadcaster implements AtMostOnce: its callers see transactions that are
\* posted once or not at all, and answers that are final.
THEOREM Refinement == Spec => KeepsPromise
<1>1. Init => Promise!Init
  <2> SUFFICES ASSUME Init PROVE posted = [r \in Requests |-> 0] /\ Seen = [r \in Requests |-> "none"]
    BY DEF Promise!Init, Seen
  <2> QED
    BY DEF Init, Seen
<1>2. IInv /\ [Next]_vars => [Promise!Next]_(Promise!vars)
  BY StepRefines
<1> QED
  BY <1>1, <1>2, Invariance, PTL DEF Spec, KeepsPromise, Promise!Spec
=============================================================================
