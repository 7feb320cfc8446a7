--------------------------- MODULE MCTransitionLog ---------------------------
(* TransitionLog on small instances.  One contract, "lone", has a tenant of   *)
(* its own: the identity column of audit_logs is shared by the tenants.       *)
EXTENDS TransitionLog

TwoTenants == [c \in Contracts |-> IF c = "lone" THEN "t2" ELSE "t1"]
==============================================================================
