--------------------------- MODULE ProposalMachine ---------------------------
(***************************************************************************)
(* applyProposalEvent, the pure state machine of a proposal.  A guard      *)
(* "Can..." says when the machine admits an event, the operator next to it *)
(* is the snapshot it returns.  The readiness of a proposal is what        *)
(* computeState found: whether it can be presented (content, recipients, a *)
(* signer, no unresolved tag, nothing to validate, a computable price) and *)
(* whether an internal review is mandatory.  Of the expiry, only whether   *)
(* it is past is kept.                                                     *)
(***************************************************************************)
EXTENDS Integers

NoVersion == 0

OpenEvents == {"EXPIRE", "DECLINE", "WITHDRAW", "REVISE"}

Transitions ==
  [DRAFT              |-> {"SUBMIT_FOR_REVIEW", "MARK_READY"},
   IN_INTERNAL_REVIEW |-> {"APPROVE_REVIEW", "REJECT_REVIEW"},
   READY              |-> {"SEND", "REVISE"},
   SENT               |-> {"VIEW"} \union OpenEvents,
   VIEWED             |-> {"OPEN_DISCUSSION", "ACCEPT"} \union OpenEvents,
   IN_DISCUSSION      |-> {"CLOSE_DISCUSSION", "ACCEPT"} \union OpenEvents,
   ACCEPTED           |-> {"START_SIGNATURE", "COMPLETE_CLICK_ACCEPT", "REVISE"},
   PENDING_SIGNATURE  |-> {"SIGNATURE_COMPLETED", "SIGNATURE_DECLINED", "SIGNATURE_EXPIRED"},
   SIGNED             |-> {"CONVERT"},
   EXPIRED            |-> {"REACTIVATE"},
   CONVERTED          |-> {},
   DECLINED           |-> {},
   WITHDRAWN          |-> {}]

ProposalStatuses == DOMAIN Transitions
OpenStatuses == {"SENT", "VIEWED", "IN_DISCUSSION"}

Admits(p, event) == event \in Transitions[p.status]

IsExpired(p) == p.expiresAt = "past"

To(p, status) == [p EXCEPT !.status = status]

-----------------------------------------------------------------------------
(* Preparation and internal review.                                        *)

CanSubmit(p, ready) == Admits(p, "SUBMIT_FOR_REVIEW") /\ ready
Submitted(p, u) ==
  [To(p, "IN_INTERNAL_REVIEW") EXCEPT !.reviewSubmittedBy = u,
                                      !.reviewApprovedVersionId = NoVersion]

CanApprove(p, u, ready) ==
  Admits(p, "APPROVE_REVIEW") /\ p.reviewSubmittedBy # u /\ ready
Approved(p) == [To(p, "READY") EXCEPT !.reviewApprovedVersionId = p.currentVersionId]

CanReject(p, u) == Admits(p, "REJECT_REVIEW") /\ p.reviewSubmittedBy # u
Rejected(p) == [To(p, "DRAFT") EXCEPT !.reviewApprovedVersionId = NoVersion]

CanMarkReady(p, ready, reviewRequired) ==
  Admits(p, "MARK_READY") /\ ready /\ ~reviewRequired
MarkedReady(p) == To(p, "READY")

-----------------------------------------------------------------------------
(* From the sending to the decision.                                       *)

CanSend(p) == Admits(p, "SEND")
Sent(p) == [To(p, "SENT") EXCEPT !.expiresAt = "future", !.acceptedVersionId = NoVersion]

Viewed(p) == To(p, "VIEWED")
Discussed(p) == To(p, "IN_DISCUSSION")
DiscussionClosed(p) == To(p, "VIEWED")

(* Mutant: a replaced version can still be accepted.                       *)
CanAcceptAny(p, v) == Admits(p, "ACCEPT") /\ ~IsExpired(p)

CanAccept(p, v) == Admits(p, "ACCEPT") /\ v = p.currentVersionId /\ ~IsExpired(p)
Accepted(p, v) == [To(p, "ACCEPTED") EXCEPT !.acceptedVersionId = v]

CanExpire(p) == Admits(p, "EXPIRE") /\ IsExpired(p)
Expired(p) == To(p, "EXPIRED")

Declined(p) == To(p, "DECLINED")
Withdrawn(p) == To(p, "WITHDRAWN")

Reactivated(p) == [To(p, "READY") EXCEPT !.expiresAt = "future"]

Revised(p) ==
  [To(p, "DRAFT") EXCEPT !.reviewApprovedVersionId = NoVersion,
                         !.acceptedVersionId = NoVersion]

-----------------------------------------------------------------------------
(* Signature and conversion.                                               *)

CanStartSignature(p) ==
  /\ Admits(p, "START_SIGNATURE")
  /\ p.acceptanceMode = "DOCUSEAL_SIGNATURE"
  /\ ~IsExpired(p)
  /\ p.acceptedVersionId = p.currentVersionId
SignatureStarted(p) == To(p, "PENDING_SIGNATURE")

(* COMPLETE_CLICK_ACCEPT.                                                  *)
ClickCompleted(p) == To(p, "SIGNED")

(* SIGNATURE_COMPLETED.                                                    *)
SignatureCompleted(p) == To(p, "SIGNED")

(* SIGNATURE_DECLINED and SIGNATURE_EXPIRED: the acceptance falls.         *)
SignatureEnded(p) == [To(p, "IN_DISCUSSION") EXCEPT !.acceptedVersionId = NoVersion]

Converted(p) == To(p, "CONVERTED")
=============================================================================
