---------------------------- MODULE MCProposal ----------------------------
(* ProposalFlow on small instances, people as model values.                *)
EXTENDS ProposalFlow, TLC

CONSTANTS u1, u2, p1, c1, c2, client, lsi

Symmetry == Permutations(Users) \union Permutations(Parties)
=============================================================================
