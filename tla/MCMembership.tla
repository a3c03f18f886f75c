----------------------------- MODULE MCMembership -----------------------------
(* Membership on small instances: people, organizations and requests are
   interchangeable unless one of them is the default organization. *)
EXTENDS Membership, TLC

Symmetry ==
  Permutations(Users) \union Permutations(Sessions) \union Permutations(Orgs \ {DefaultOrg})
=============================================================================
