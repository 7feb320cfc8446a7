------------------------------ MODULE MCReview ------------------------------
(* ContractReview on a small instance: two users, model values throughout. *)
EXTENDS ContractReview, TLC

CONSTANTS u1, u2, r1, r2

Symmetry == Permutations(Users) \union Permutations(Requests)
=============================================================================
