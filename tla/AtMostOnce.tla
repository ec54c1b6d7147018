----------------------------- MODULE AtMostOnce -----------------------------
(***************************************************************************)
(* What a broadcaster promises the services of the provider: the           *)
(* transaction of a call enters the mempool at most once, a call that      *)
(* returns nil has entered it, and an answer is final.  A call that        *)
(* returns an error may have entered it all the same.                      *)
(***************************************************************************)
CONSTANT Requests

VARIABLES
    posted,     \* posted[r]: how often the transaction of r has entered the mempool
    answer      \* answer[r]: "none", "ok" or "error"

vars == <<posted, answer>>

Init ==
    /\ posted = [r \in Requests |-> 0]
    /\ answer = [r \in Requests |-> "none"]

Post(r) ==
    /\ posted[r] = 0
    /\ answer[r] = "none"
    /\ posted' = [posted EXCEPT ![r] = 1]
    /\ UNCHANGED answer

Succeed(r) ==
    /\ posted[r] = 1
    /\ answer[r] = "none"
    /\ answer' = [answer EXCEPT ![r] = "ok"]
    /\ UNCHANGED posted

\* Several calls fail at once when the broadcaster shuts down.
Refuse(rs) ==
    /\ \A r \in rs : answer[r] = "none"
    /\ answer' = [r \in Requests |-> IF r \in rs THEN "error" ELSE answer[r]]
    /\ UNCHANGED posted

Next ==
    \/ \E r \in Requests : Post(r) \/ Succeed(r)
    \/ \E rs \in SUBSET Requests : Refuse(rs)

Spec == Init /\ [][Next]_vars
=============================================================================
