-------------------------- MODULE RequestLifecycle --------------------------
(***************************************************************************)
(* What the signature component promises about the requests of a contract: *)
(* one at a time, forward only.  A request is opened when no other is      *)
(* active, is sent or fails, collects signatures, and closes once; a       *)
(* closed request stays closed.  A revocation that was under way when the  *)
(* submission ended is recorded on the ended request.                      *)
(***************************************************************************)
CONSTANT Requests

VARIABLE status

Active == {"CREATING", "SENT", "PARTIALLY_COMPLETED"}
Ended  == {"COMPLETED", "DECLINED", "EXPIRED", "REVOKED"}

Init == status = [r \in Requests |-> "none"]

Move(r, from, to) ==
  /\ status[r] \in from
  /\ \E s \in to : status' = [status EXCEPT ![r] = s]

Open(r) ==
  /\ \A q \in Requests : status[q] \notin Active
  /\ Move(r, {"none"}, {"CREATING"})

Answer(r)  == Move(r, {"CREATING"}, {"SENT", "FAILED"})
Advance(r) == Move(r, {"SENT"}, {"PARTIALLY_COMPLETED"})
End(r)     == Move(r, {"SENT", "PARTIALLY_COMPLETED"}, Ended)
RevokeEnded(r) == Move(r, {"DECLINED", "EXPIRED"}, {"REVOKED"})

Next == \E r \in Requests :
          Open(r) \/ Answer(r) \/ Advance(r) \/ End(r) \/ RevokeEnded(r)

Spec == Init /\ [][Next]_status
=============================================================================
