---------------------------- MODULE MCLifecycle ----------------------------
(* ContractLifecycle on small instances, contracts as model values.        *)
EXTENDS ContractLifecycle, TLC

CONSTANTS n1, n2, a1

Symmetry == Permutations(Successors) \union Permutations(Amendments)
=============================================================================
