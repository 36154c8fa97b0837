--------------------------- MODULE MCAcceptances ---------------------------
(* Acceptances with what TLC needs: the symmetries of its constants.       *)
EXTENDS Acceptances, TLC

\* Requests, organizations, work orders, ids and prefixes are only compared.
\* Payloads are not interchangeable: they differ in Valid and Renderable.
Symmetry ==
    Permutations(Requests) \cup Permutations(Orgs) \cup Permutations(WorkOrders)
        \cup Permutations(Ids) \cup Permutations(Prefixes)
=============================================================================
