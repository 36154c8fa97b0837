------------------------ MODULE AcceptanceRegister ------------------------
(***************************************************************************)
(* What the acceptance service promises, with no handler, database or      *)
(* bucket in it: a register with at most one acceptance per work order of  *)
(* an organization.  What an acceptance was made of never changes, it is   *)
(* settled once, and it is `generated' only when its document exists.      *)
(***************************************************************************)
CONSTANTS
    Ids,         \* acceptance ids
    Orgs,        \* organizations
    WorkOrders,  \* work order ids
    Payloads,    \* what may be accepted for a work order
    Printable    \* the payloads a document can be made of

VARIABLES
    accepted,  \* the acceptances, each with its status
    documents  \* the documents that exist

Acceptances == [id : Ids, org : Orgs, wo : WorkOrders, payload : Payloads,
                status : {"pending", "generated", "failed"}]

Document(a) == [id |-> a.id, org |-> a.org, wo |-> a.wo, payload |-> a.payload]

Init == accepted = {} /\ documents = {}

\* An acceptance enters as pending, under an id and a work order of its own.
Accept ==
    /\ \E a \in Acceptances :
        /\ a.status = "pending"
        /\ \A b \in accepted : b.id # a.id /\ (b.org # a.org \/ b.wo # a.wo)
        /\ accepted' = accepted \cup {a}
    /\ UNCHANGED documents

\* The document of an acceptance may appear at any time, even after the
\* acceptance was given up as failed.
Publish ==
    /\ \E a \in accepted :
        /\ a.payload \in Printable
        /\ documents' = documents \cup {Document(a)}
    /\ UNCHANGED accepted

Settle ==
    /\ \E a \in accepted, outcome \in {"generated", "failed"} :
        /\ a.status = "pending"
        /\ outcome = "generated" => Document(a) \in documents
        /\ accepted' = (accepted \ {a}) \cup {[a EXCEPT !.status = outcome]}
    /\ UNCHANGED documents

Next == Accept \/ Publish \/ Settle

Spec == Init /\ [][Next]_<<accepted, documents>>
=============================================================================
