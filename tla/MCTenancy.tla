----------------------------- MODULE MCTenancy -----------------------------
(* Tenancy with what TLC needs: the symmetries of its constants.           *)
EXTENDS Tenancy, TLC

\* Users are interchangeable within and outside the allowlist.
Symmetry ==
    Permutations(Requests) \cup Permutations(Orgs) \cup Permutations(Numbers)
        \cup Permutations(Admins) \cup Permutations(Users \ Admins)
=============================================================================
