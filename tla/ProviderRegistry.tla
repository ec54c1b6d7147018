-------------------------- MODULE ProviderRegistry --------------------------
(***************************************************************************)
(* One provider on the chain: its own attributes (src/x/provider), the     *)
(* attributes auditors signed for it (src/x/audit), and what depends on    *)
(* them, the provider's bids and leases (src/x/market/handler).            *)
(*                                                                         *)
(* Attributes are a set of key and value pairs, no two with the same key;  *)
(* the store keeps them sorted by key.  Whatever of a bid and a lease does *)
(* not concern attributes is Marketplace.                                  *)
(***************************************************************************)
EXTENDS Naturals, Sequences, FiniteSets

CONSTANTS
    Auditors,
    Orders,
    Requirements,   \* of each order: attributes, and the lists allOf and anyOf of auditors
    Attributes,     \* sets of attributes a transaction may carry
    Signed,         \* what was signed before
    None,           \* no record in the store
    MaxChanges      \* bound: transactions of the auditors

VARIABLES
    provider,       \* attributes in the x/provider store, or None
    signed,         \* attributes in the x/audit store, by auditor, or None
    changes,        \* for each auditor, the number of its last transaction
    publisher,      \* events.Publish was started, on the provider's machine
    feed,           \* auditors of the x/audit events it has not published yet
    unheard,        \* auditors whose last change came before it was started
    bid             \* of each order: "none", "open", "active", "closed"

eventVars == <<publisher, feed, unheard>>
registryVars == <<provider, signed, changes, eventVars, bid>>

RegistryInit ==
    /\ provider = None
    /\ signed = Signed
    /\ changes = [a \in Auditors |-> 0]
    /\ publisher = FALSE
    /\ feed = <<>>
    /\ unheard = {}
    /\ bid = [o \in Orders |-> "none"]

Keys(attributes) == {attribute[1] : attribute \in attributes}

AttributesSubsetOf(a, b) == a \subseteq b

\* GroupSpec.MatchAttributes
MatchAttributes(order, own) == AttributesSubsetOf(Requirements[order].attributes, own)

Elements(list) == {list[i] : i \in DOMAIN list}

\* Whether this auditor signed what the order requires.
SignedBy(order, signatures, auditor) ==
    /\ signatures[auditor] # None
    /\ AttributesSubsetOf(Requirements[order].attributes, signatures[auditor])

\* GroupSpec.MatchRequirements
MatchRequirements(order, own, signatures) ==
    LET allOf == Elements(Requirements[order].allOf)
        anyOf == Elements(Requirements[order].anyOf)
    IN
    IF allOf \cup anyOf = {}
    THEN MatchAttributes(order, own)
    ELSE /\ \A a \in allOf : SignedBy(order, signatures, a)
         /\ anyOf # {} => \E a \in anyOf : SignedBy(order, signatures, a)

-----------------------------------------------------------------------------
(* Transactions that succeed; one that fails changes nothing. *)

CreateProvider(attributes) ==
    /\ provider = None
    /\ provider' = attributes
    /\ UNCHANGED <<signed, changes, eventVars, bid>>

UpdateProvider(attributes) ==
    /\ provider # None
    /\ \A o \in Orders : bid[o] = "active" => MatchAttributes(o, attributes)
    /\ provider' = attributes
    /\ UNCHANGED <<signed, changes, eventVars, bid>>

\* The number of the last transaction of any auditor.
Latest == CHOOSE n \in {changes[a] : a \in Auditors} : \A a \in Auditors : changes[a] <= n

\* The record of the auditor changes, and the event is emitted: to the publisher, if
\* it listens.
Changed(auditor, record) ==
    /\ Latest < MaxChanges
    /\ signed' = [signed EXCEPT ![auditor] = record]
    /\ changes' = [changes EXCEPT ![auditor] = Latest + 1]
    /\ feed' = IF publisher THEN Append(feed, auditor) ELSE feed
    /\ unheard' = IF publisher THEN unheard \ {auditor} ELSE unheard \cup {auditor}
    /\ UNCHANGED <<provider, publisher, bid>>

\* CreateOrUpdateProviderAttributes: values of matching keys are replaced.
SignProviderAttributes(auditor, attributes) ==
    LET kept == IF signed[auditor] = None THEN {}
                ELSE {x \in signed[auditor] : x[1] \notin Keys(attributes)}
    IN Changed(auditor, kept \cup attributes)

\* No keys: all of them.
DeleteProviderAttributes(auditor, keys) ==
    /\ signed[auditor] # None
    /\ keys \subseteq Keys(signed[auditor])
    /\ LET kept == {x \in signed[auditor] : x[1] \notin keys}
       IN Changed(auditor, IF keys = {} \/ kept = {} THEN None ELSE kept)

\* msgServer.CreateBid
CreateBid(order) ==
    /\ bid[order] = "none"
    /\ provider # None
    /\ MatchRequirements(order, provider, signed)
    /\ bid' = [bid EXCEPT ![order] = "open"]
    /\ UNCHANGED <<provider, signed, changes, eventVars>>

\* msgServer.CreateLease does not look at the attributes again.
CreateLease(order) ==
    /\ bid[order] = "open"
    /\ bid' = [bid EXCEPT ![order] = "active"]
    /\ UNCHANGED <<provider, signed, changes, eventVars>>

\* The bid is closed, and its lease.
CloseBid(order) ==
    /\ bid[order] \in {"open", "active"}
    /\ bid' = [bid EXCEPT ![order] = "closed"]
    /\ UNCHANGED <<provider, signed, changes, eventVars>>

AllKeys == UNION {Keys(attributes) : attributes \in Attributes}

Transaction ==
    \/ \E attributes \in Attributes : CreateProvider(attributes) \/ UpdateProvider(attributes)
    \/ \E a \in Auditors, attributes \in Attributes : SignProviderAttributes(a, attributes)
    \/ \E a \in Auditors, keys \in SUBSET AllKeys : DeleteProviderAttributes(a, keys)
    \/ \E o \in Orders : CreateLease(o) \/ CloseBid(o)
=============================================================================
