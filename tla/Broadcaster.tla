----------------------------- MODULE Broadcaster -----------------------------
(***************************************************************************)
(* The serial broadcaster (src/client/broadcaster/serial.go): one loop     *)
(* that signs and broadcasts the transactions of a provider with one       *)
(* account sequence number, which it keeps itself, corrects from the       *)
(* node's "account sequence mismatch" answers, and fast-forwards from a    *)
(* second goroutine that queries the committed sequence.                   *)
(*                                                                         *)
(* The node is the environment.  It accepts a transaction whose sequence   *)
(* is the one it expects, commits accepted transactions, may drop those it *)
(* has not committed (restart, eviction), and may take transactions of the *)
(* same key from another client.  An answer may be lost although the       *)
(* transaction was accepted.                                               *)
(***************************************************************************)
EXTENDS Integers, FiniteSets

CONSTANTS
    Requests,   \* calls of Broadcast
    NoRequest,  \* stands for none of them
    FirstSeq,   \* sequence of the account when the broadcaster starts
    MaxSeq      \* bound: sequences of the node

ASSUME BroadcasterParameters ==
    /\ NoRequest \notin Requests
    /\ FirstSeq \in Nat
    /\ MaxSeq \in Nat

VARIABLES
    seq,        \* txf.Sequence()
    request,    \* the request being served, or NoRequest
    retried,    \* doBroadcast is in its second attempt
    response,   \* what the node has answered to the attempt
    caller,     \* caller[r]: where the caller of r is
    synch,      \* what the sync loop has to deliver: nothing or one sequence
    phase,      \* "running", "stopping", "done"
    node,       \* sequence the node expects next
    chain,      \* sequence of the last block
    posted,     \* how often the transaction of a request was accepted
    disturbed   \* history: others changed node since its first answer

callVars == <<request, retried, response>>
nodeVars == <<node, chain>>
vars == <<seq, request, retried, response, caller, synch, phase, node, chain,
          posted, disturbed>>

\* A response of the node: an error of the transport, or a code; RawLog of a
\* mismatch says which sequence was expected and which one came.
Code(code) == [code |-> code, expected |-> 0, got |-> 0]
Mismatch(expected, got) == [code |-> "mismatch", expected |-> expected, got |-> got]

Init ==
    /\ seq = FirstSeq
    /\ request = NoRequest
    /\ retried = FALSE
    /\ response = Code("none")
    /\ caller = [r \in Requests |-> "idle"]
    /\ synch = {}
    /\ phase = "running"
    /\ node = FirstSeq
    /\ chain = FirstSeq
    /\ posted = [r \in Requests |-> 0]
    /\ disturbed = FALSE

-----------------------------------------------------------------------------
(* Callers of Broadcast. *)

Broadcast(r) ==
    /\ caller[r] = "idle"
    /\ caller' = [caller EXCEPT ![r] = IF phase = "running" THEN "waiting" ELSE "error"]
    /\ UNCHANGED <<seq, callVars, synch, phase, nodeVars, posted, disturbed>>

\* case <-ctx.Done(): possible until the loop has received the request.
Cancel(r) ==
    /\ caller[r] = "waiting"
    /\ caller' = [caller EXCEPT ![r] = "error"]
    /\ UNCHANGED <<seq, callVars, synch, phase, nodeVars, posted, disturbed>>

-----------------------------------------------------------------------------
(* The loop. *)

\* case req := <-c.broadcastch
Receive(r) ==
    /\ phase = "running"
    /\ request = NoRequest
    /\ caller[r] = "waiting"
    /\ caller' = [caller EXCEPT ![r] = "received"]
    /\ request' = r
    /\ retried' = FALSE
    /\ response' = Code("none")
    /\ disturbed' = FALSE
    /\ UNCHANGED <<seq, synch, phase, nodeVars, posted>>

\* parseNextSequence: whether the answer is understood.  (The number it got is
\* compared with the current sequence and the outcome is the same either way.)
ParseNextSequence == response.expected # 0 /\ response.got # 0

Answer(result) ==
    /\ caller' = [caller EXCEPT ![request] = result]
    /\ request' = NoRequest
    /\ UNCHANGED <<retried, response>>

TryAgain ==
    /\ retried' = TRUE
    /\ response' = Code("none")
    /\ UNCHANGED <<request, caller>>

\* Variant: an error of the transport is retried.
DoBroadcastRetriesErrors ==
    /\ request # NoRequest
    /\ response.code # "none"
    /\ IF response.code = "error" /\ ~retried
       THEN TryAgain /\ UNCHANGED seq
       ELSE /\ Answer(IF response.code = "ok" THEN "ok" ELSE "error")
            /\ seq' = IF response.code = "ok" THEN seq + 1 ELSE seq
    /\ UNCHANGED <<synch, phase, nodeVars, posted, disturbed>>

\* Variant: the sequence the node got is used instead of the one it expected.
DoBroadcastParsesGot ==
    /\ request # NoRequest
    /\ response.code # "none"
    /\ IF response.code = "mismatch" /\ ~retried /\ ParseNextSequence
       THEN TryAgain /\ seq' = response.got
       ELSE /\ Answer(IF response.code = "ok" THEN "ok" ELSE "error")
            /\ seq' = IF response.code = "ok" THEN seq + 1 ELSE seq
    /\ UNCHANGED <<synch, phase, nodeVars, posted, disturbed>>

\* doBroadcast, once the node has answered: only a mismatch that is understood
\* is corrected, and only once.
DoBroadcast ==
    /\ request # NoRequest
    /\ response.code # "none"
    /\ IF response.code = "mismatch" /\ ~retried /\ ParseNextSequence
       THEN TryAgain /\ seq' = response.expected
       ELSE /\ Answer(IF response.code = "ok" THEN "ok" ELSE "error")
            /\ seq' = IF response.code = "ok" THEN seq + 1 ELSE seq
    /\ UNCHANGED <<synch, phase, nodeVars, posted, disturbed>>

\* case seqno := <-synch
Sync ==
    /\ phase = "running"
    /\ request = NoRequest
    /\ \E seqno \in synch : seq' = IF seqno > seq THEN seqno ELSE seq
    /\ synch' = {}
    /\ UNCHANGED <<callVars, caller, phase, nodeVars, posted, disturbed>>

\* Variant: callers that wait are forgotten.
ShutdownForgetsCallers ==
    /\ phase = "running"
    /\ request = NoRequest
    /\ phase' = "stopping"
    /\ UNCHANGED <<seq, callVars, caller, synch, nodeVars, posted, disturbed>>

\* case err := <-c.lc.ShutdownRequest(): callers that wait get ErrNotRunning.
Shutdown ==
    /\ phase = "running"
    /\ request = NoRequest
    /\ phase' = "stopping"
    /\ caller' = [r \in Requests |-> IF caller[r] = "waiting" THEN "error" ELSE caller[r]]
    /\ UNCHANGED <<seq, callVars, synch, nodeVars, posted, disturbed>>

-----------------------------------------------------------------------------
(* The sync loop. *)

SyncQuery ==
    /\ phase = "running"
    /\ synch = {}
    /\ synch' = {chain}
    /\ UNCHANGED <<seq, callVars, caller, phase, nodeVars, posted, disturbed>>

\* case <-c.lc.ShuttingDown(): what was to be delivered is dropped, and run
\* returns.
SyncStops ==
    /\ phase = "stopping"
    /\ phase' = "done"
    /\ synch' = {}
    /\ UNCHANGED <<seq, callVars, caller, nodeVars, posted, disturbed>>

-----------------------------------------------------------------------------
(* The node. *)

Posting == request # NoRequest /\ response.code = "none"

Respond(answer) ==
    /\ response' = answer
    /\ disturbed' = (retried /\ disturbed)

NodeAccepts ==
    /\ Posting
    /\ seq = node
    /\ node < MaxSeq
    /\ node' = node + 1
    /\ posted' = [posted EXCEPT ![request] = @ + 1]
    /\ Respond(Code("ok")) \/ Respond(Code("error"))
    /\ UNCHANGED <<seq, request, retried, caller, synch, phase, chain>>

NodeRefuses ==
    /\ Posting
    /\ \/ Respond(Code("error"))
       \/ seq = node /\ Respond(Code("other"))
       \/ seq # node /\ Respond(Mismatch(node, seq))
    /\ UNCHANGED <<seq, request, retried, caller, synch, phase, nodeVars, posted>>

\* Another process uses the same key.
OtherClient ==
    /\ node < MaxSeq
    /\ node' = node + 1
    /\ disturbed' = TRUE
    /\ UNCHANGED <<seq, callVars, caller, synch, phase, chain, posted>>

\* Transactions that are not in a block are lost.
NodeDrops ==
    /\ node # chain
    /\ node' = chain
    /\ disturbed' = TRUE
    /\ UNCHANGED <<seq, callVars, caller, synch, phase, chain, posted>>

NodeCommits ==
    /\ chain < node
    /\ chain' \in (chain + 1)..node
    /\ UNCHANGED <<seq, callVars, caller, synch, phase, node, posted, disturbed>>

Next ==
    \/ \E r \in Requests : Broadcast(r) \/ Cancel(r) \/ Receive(r)
    \/ DoBroadcast \/ Sync \/ Shutdown
    \/ SyncQuery \/ SyncStops
    \/ NodeAccepts \/ NodeRefuses \/ OtherClient \/ NodeDrops \/ NodeCommits

Spec == Init /\ [][Next]_vars

\* The goroutines run, select passes over no channel for ever, and the node or
\* the transport answers every request.
Fairness ==
    /\ \A r \in Requests : SF_vars(Receive(r))
    /\ WF_vars(DoBroadcast)
    /\ WF_vars(NodeAccepts \/ NodeRefuses)
    /\ WF_vars(SyncStops)

FairSpec == Spec /\ Fairness

-----------------------------------------------------------------------------
(* Properties *)

Responses == [code : {"none", "error", "ok", "other", "mismatch"},
              expected : Nat, got : Nat]

\* Every variable has its type; in particular no correction makes a sequence
\* anything but a natural number.
TypeOK ==
    /\ seq \in Nat
    /\ request \in Requests \cup {NoRequest}
    /\ retried \in BOOLEAN
    /\ response \in Responses
    /\ caller \in [Requests -> {"idle", "waiting", "received", "ok", "error"}]
    /\ synch \in SUBSET Nat
    /\ phase \in {"running", "stopping", "done"}
    /\ node \in Nat
    /\ chain \in Nat
    /\ posted \in [Requests -> Nat]
    /\ disturbed \in BOOLEAN

\* The transaction of a call is accepted at most once, whatever is retried, and
\* a call returns nil only if it was accepted.
PostedAtMostOnce ==
    \A r \in Requests :
        /\ posted[r] <= 1
        /\ caller[r] = "ok" => posted[r] = 1

\* The one retry is enough: a second mismatch means that the node's sequence was
\* changed by others between the two attempts, not that the correction was
\* wrong.
RetryCorrects ==
    request # NoRequest /\ retried /\ response.code = "mismatch" => disturbed

\* The local sequence goes back only because the node said so: neither a sync
\* that is late nor a failed call rewinds it.
OnlyNodeRewinds ==
    [][seq' < seq => /\ request # NoRequest
                     /\ response.code = "mismatch"
                     /\ seq' = response.expected]_vars

\* Every caller gets an answer, also when the broadcaster is shut down.
CallersReturn ==
    \A r \in Requests : caller[r] \in {"waiting", "received"} ~> caller[r] \in {"ok", "error"}

\* The broadcaster keeps the promise of AtMostOnce.
Promise == INSTANCE AtMostOnce WITH
    answer <- [r \in Requests |-> IF caller[r] \in {"ok", "error"} THEN caller[r] ELSE "none"]

KeepsPromise == Promise!Spec
=============================================================================
