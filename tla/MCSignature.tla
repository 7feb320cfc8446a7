---------------------------- MODULE MCSignature ----------------------------
(* SignatureFlow on small instances, signers and workers as model values.  *)
EXTENDS SignatureFlow, TLC

CONSTANTS s1, s2, w1, w2

Symmetry == Permutations(Signers) \union Permutations(Workers)
=============================================================================
