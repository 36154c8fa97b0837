------------------------ MODULE MCMemberAcceptances ------------------------
(* MemberAcceptances with what TLC needs: the symmetries of its constants. *)
EXTENDS MemberAcceptances, TLC

Symmetry == Permutations(Requests) \cup Permutations(Orgs) \cup Permutations(Ids)
=============================================================================
