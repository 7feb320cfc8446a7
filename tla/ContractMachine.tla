-------------------------- MODULE ContractMachine --------------------------
(***************************************************************************)
(* The contract state machine of packages/domain: a pure function from a   *)
(* snapshot of the contracts row and an event to the next snapshot.        *)
(*                                                                         *)
(* An event e is admitted when e is in Transitions[c.status] and the guard *)
(* of e holds; every refusal (InvalidTransitionError, BusinessRuleError)   *)
(* leaves the caller's transaction without effect, so a refusal is the     *)
(* negation of the event's Can... operator and has no operator of its own. *)
(*                                                                         *)
(* Snapshots are records with at least the fields an operator names; the   *)
(* modules that keep a contract choose which fields their row has.         *)
(* Versions are numbered from 1 and 0 is the null reference.  Dates are    *)
(* day numbers from 1 and 0 is the null date; the clock "now" is an        *)
(* instant strictly inside a day, so that "date > now" and "date >= now"   *)
(* both say that the day lies after today.                                 *)
(***************************************************************************)
EXTENDS Naturals

NoVersion == 0
NoDate    == 0

Parties == {"LSI", "CLIENT"}

Signing == {"SIGNER_SIGNED", "SIGNER_DECLINED", "SIGNATURE_EXPIRE",
            "REVOKE_SIGNATURE", "CANCEL"}

Transitions ==
  [ DRAFT             |-> {"EDIT_CONTENT", "SUBMIT_FOR_REVIEW", "CANCEL"},
    IN_REVIEW         |-> {"APPROVE", "REQUEST_CHANGES", "CANCEL"},
    CHANGES_REQUESTED |-> {"EDIT_CONTENT", "SUBMIT_FOR_REVIEW", "CANCEL"},
    APPROVED          |-> {"EDIT_CONTENT", "SEND_TO_CLIENT",
                           "SEND_FOR_SIGNATURE", "CANCEL"},
    SENT_TO_CLIENT    |-> {"CLIENT_ACCEPT", "OPEN_NEGOTIATION", "CANCEL"},
    IN_NEGOTIATION    |-> {"EDIT_CONTENT", "SUBMIT_FOR_REVIEW",
                           "SEND_TO_CLIENT", "CANCEL"},
    ACCEPTED          |-> {"SEND_FOR_SIGNATURE", "OPEN_NEGOTIATION", "CANCEL"},
    PENDING_SIGNATURE |-> Signing,
    PARTIALLY_SIGNED  |-> Signing,
    DECLINED          |-> {"REOPEN_NEGOTIATION", "CANCEL"},
    SIGNATURE_EXPIRED |-> {"REOPEN_NEGOTIATION", "SEND_FOR_SIGNATURE", "CANCEL"},
    SIGNED            |-> {"ACTIVATE", "TERMINATE"},
    ACTIVE            |-> {"EXPIRE", "TERMINATE", "OPEN_RENEWAL", "MARK_RENEWED"},
    RENEWAL_DUE       |-> {"RENEW_PERIOD", "CLOSE_RENEWAL", "MARK_RENEWED",
                           "EXPIRE", "TERMINATE"},
    TERMINATION_PENDING |-> {"COMPLETE_TERMINATION", "WITHDRAW_TERMINATION"},
    EXPIRED           |-> {"MARK_RENEWED"},
    IMPORTED_PENDING_VALIDATION |-> {"VALIDATE_IMPORT", "CANCEL"},
    TERMINATED        |-> {},
    RENEWED           |-> {},
    CANCELLED         |-> {} ]

Statuses == DOMAIN Transitions

TerminalStatuses == {"TERMINATED", "RENEWED", "CANCELLED"}

EditableStatuses == {"DRAFT", "CHANGES_REQUESTED", "IN_NEGOTIATION"}

Admits(c, event) == event \in Transitions[c.status]

-----------------------------------------------------------------------------
(* Drafting and internal review.  "signers" is the set of parties that     *)
(* have a signer on the contract, "complete" says that the start date and  *)
(* the required attachments are there, that no variable is missing and     *)
(* that no clause drafted by AI awaits its human review; submittedBy is    *)
(* the author of the pending approval.                                     *)

CanSubmit(c, signers, complete) ==
  /\ Admits(c, "SUBMIT_FOR_REVIEW")
  /\ signers = Parties
  /\ c.currentVersionId # NoVersion
  /\ complete

Submitted(c) == [c EXCEPT !.status = "IN_REVIEW"]

CanApprove(c, submittedBy, actor) ==
  /\ Admits(c, "APPROVE")
  /\ submittedBy # actor

Approved(c) ==
  [c EXCEPT !.status = "APPROVED", !.approvedVersionId = c.currentVersionId]

CanRequestChanges(c, submittedBy, actor) ==
  /\ Admits(c, "REQUEST_CHANGES")
  /\ submittedBy # actor

ChangesRequested(c) == [c EXCEPT !.status = "CHANGES_REQUESTED"]

(* Mutant: the text stays editable during the review.                      *)
CanEditInReview(c) == c.status \in EditableStatuses \union {"APPROVED", "IN_REVIEW"}

CanEdit(c) ==
  /\ Admits(c, "EDIT_CONTENT")
  /\ c.status \in EditableStatuses \union {"APPROVED"}

(* Mutant: an edit keeps the approval.                                     *)
EditedKeepsApproval(c) == c

(* Editing an approved contract sends it back to DRAFT; in negotiation it  *)
(* stays there.  Both lose the approval; a draft and a contract sent back  *)
(* by the reviewer keep every field.                                       *)
Edited(c) ==
  CASE c.status = "APPROVED" ->
         [c EXCEPT !.status = "DRAFT", !.approvedVersionId = NoVersion]
    [] c.status = "IN_NEGOTIATION" -> [c EXCEPT !.approvedVersionId = NoVersion]
    [] OTHER -> c

-----------------------------------------------------------------------------
(* The client: presentation, acceptance, negotiation.                      *)

CurrentIsApproved(c) ==
  /\ c.approvedVersionId # NoVersion
  /\ c.approvedVersionId = c.currentVersionId

CanSendToClient(c) == Admits(c, "SEND_TO_CLIENT") /\ CurrentIsApproved(c)

SentToClient(c) ==
  [c EXCEPT !.status = "SENT_TO_CLIENT", !.acceptedVersionId = NoVersion]

CanAccept(c, version) ==
  /\ Admits(c, "CLIENT_ACCEPT")
  /\ version = c.currentVersionId
  /\ c.approvedVersionId = c.currentVersionId

Accepted(c, version) ==
  [c EXCEPT !.status = "ACCEPTED", !.acceptedVersionId = version]

CanNegotiate(c) ==
  \/ Admits(c, "OPEN_NEGOTIATION")
  \/ Admits(c, "REOPEN_NEGOTIATION")

InNegotiation(c) ==
  [c EXCEPT !.status = "IN_NEGOTIATION", !.acceptedVersionId = NoVersion]

CanCancel(c) == Admits(c, "CANCEL")

Cancelled(c) == [c EXCEPT !.status = "CANCELLED"]

-----------------------------------------------------------------------------
(* Signature.                                                              *)

CanSendForSignature(c) ==
  /\ Admits(c, "SEND_FOR_SIGNATURE")
  /\ CurrentIsApproved(c)
  /\ c.status = "ACCEPTED" => c.acceptedVersionId = c.currentVersionId

SentForSignature(c) == [c EXCEPT !.status = "PENDING_SIGNATURE"]

(* Revoking undoes the send: back to ACCEPTED when the client had accepted *)
(* the version, to APPROVED otherwise.                                     *)
SignatureRevoked(c) ==
  [c EXCEPT !.status =
     IF c.acceptedVersionId # NoVersion /\ c.acceptedVersionId = c.currentVersionId
       THEN "ACCEPTED" ELSE "APPROVED"]

SignatureExpired(c) == [c EXCEPT !.status = "SIGNATURE_EXPIRED"]

(* Mutant: the first signature signs the contract.                         *)
SignerSignedAlone(c, allSigned) == [c EXCEPT !.status = "SIGNED"]

SignerSigned(c, allSigned) ==
  [c EXCEPT !.status = IF allSigned THEN "SIGNED" ELSE "PARTIALLY_SIGNED"]

SignerDeclined(c) == [c EXCEPT !.status = "DECLINED"]

-----------------------------------------------------------------------------
(* Life of a signed contract.                                              *)

CanActivate(c) == Admits(c, "ACTIVATE") /\ c.startDate # NoDate

(* A contract signed before its start date stays SIGNED.                   *)
Activated(c, now) ==
  IF c.startDate > now THEN c ELSE [c EXCEPT !.status = "ACTIVE"]

CanValidateImport(c) == Admits(c, "VALIDATE_IMPORT") /\ c.startDate # NoDate

ImportValidated(c, now) ==
  [c EXCEPT !.status = CASE c.endDate # NoDate /\ c.endDate < now -> "EXPIRED"
                         [] c.startDate > now -> "SIGNED"
                         [] OTHER -> "ACTIVE"]

CanOpenRenewal(c) == Admits(c, "OPEN_RENEWAL") /\ c.endDate # NoDate

RenewalOpened(c) == [c EXCEPT !.status = "RENEWAL_DUE"]

CanRenewPeriod(c, newEnd) ==
  /\ Admits(c, "RENEW_PERIOD")
  /\ c.endDate # NoDate
  /\ newEnd > c.endDate

PeriodRenewed(c, newEnd) == [c EXCEPT !.status = "ACTIVE", !.endDate = newEnd]

CanCloseRenewal(c) == Admits(c, "CLOSE_RENEWAL")

RenewalClosed(c) == [c EXCEPT !.status = "ACTIVE"]

CanExpire(c, now) ==
  /\ Admits(c, "EXPIRE")
  /\ c.endDate # NoDate
  /\ c.endDate <= now

Expired(c, hasSignedSuccessor) ==
  [c EXCEPT !.status = IF hasSignedSuccessor THEN "RENEWED" ELSE "EXPIRED"]

CanMarkRenewed(c) == Admits(c, "MARK_RENEWED")

MarkedRenewed(c) == [c EXCEPT !.status = "RENEWED"]

(* A notice that is not respected takes an administrator and a reason.     *)
CanTerminate(c, effective, minEffective, overridden) ==
  /\ Admits(c, "TERMINATE")
  /\ effective >= minEffective \/ overridden

Terminated(c, effective, now) ==
  [c EXCEPT !.status = IF effective > now THEN "TERMINATION_PENDING" ELSE "TERMINATED",
            !.terminationEffectiveDate = effective]

CanCompleteTermination(c, now) ==
  /\ Admits(c, "COMPLETE_TERMINATION")
  /\ c.terminationEffectiveDate # NoDate
  /\ c.terminationEffectiveDate <= now

TerminationCompleted(c) == [c EXCEPT !.status = "TERMINATED"]

CanWithdrawTermination(c) == Admits(c, "WITHDRAW_TERMINATION")

TerminationWithdrawn(c) ==
  [c EXCEPT !.status = "ACTIVE", !.terminationEffectiveDate = NoDate]
=============================================================================
