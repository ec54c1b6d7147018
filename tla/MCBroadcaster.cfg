\* Two calls of an account that starts at sequence zero; another client, a node
\* that drops transactions, lost answers.
CONSTANTS
    NoRequest = NoRequest
    Requests = {r1, r2}
    FirstSeq = 0
    MaxSeq = 4
SPECIFICATION FairSpec
INVARIANTS
    RetryCorrects
PROPERTIES
    CallersReturn
    KeepsPromise
CHECK_DEADLOCK FALSE
