--------------------------- MODULE ContractReview ---------------------------
(***************************************************************************)
(* One contract from its creation to the acceptance of the client: the     *)
(* handlers of ContractsService, ContentService, SignersService and        *)
(* AcceptanceService over the row, its versions, its signers, its          *)
(* approvals and its acceptances.                                          *)
(*                                                                         *)
(* Every handler is one READ COMMITTED transaction that reads the row,     *)
(* lets the state machine decide on that snapshot and then writes.  No     *)
(* row lock and no version check ties the write to the read, so a handler  *)
(* is two steps, a Begin (the reads and the guards) and a Commit (all the  *)
(* writes), and the transactions of Requests interleave between them.  A   *)
(* handler that the guards refuse has no effect and is not a step.  With   *)
(* one request the handlers run one after the other.                       *)
(***************************************************************************)
EXTENDS ContractMachine, Sequences, FiniteSets

CONSTANTS
  Requests,      \* transactions that may be in flight at the same time
  Users,         \* the people behind them
  NoUser,        \* the null user of an undecided approval
  MaxVersions,   \* bound: contents saved
  MaxApprovals   \* bound: submissions for review

ASSUME ReviewAssumption ==
  /\ NoUser \notin Users
  /\ MaxVersions \in Nat
  /\ MaxApprovals \in Nat

VARIABLES
  row,          \* the contracts row
  versions,     \* number of contract_versions rows; they are immutable
  signers,      \* parties that have a contract_signers row
  approvals,    \* contract_approvals, in submission order
  acceptances,  \* versions that have a contract_acceptances row
  request       \* transaction of each request

reviewVars == <<row, versions, signers, approvals, acceptances, request>>

Version == 0..MaxVersions

Row == [status : Statuses, currentVersionId : Version, approvedVersionId : Version,
        acceptedVersionId : Version, complete : BOOLEAN]

Approval == [versionId : Version, submittedBy : Users,
             decision : {"PENDING", "APPROVED", "CHANGES_REQUESTED"},
             decidedBy : Users \union {NoUser}]

Operations == {"SUBMIT_FOR_REVIEW", "APPROVE", "REQUEST_CHANGES", "EDIT_CONTENT",
               "SEND_TO_CLIENT", "CLIENT_ACCEPT", "OPEN_NEGOTIATION", "CANCEL",
               "ADD_SIGNER", "REMOVE_SIGNER"}

Idle == [op |-> "none"]

Transaction == [op : Operations, actor : Users, snap : Row,
                approval : 0..MaxApprovals, versionCount : Version,
                party : Parties]

(* create writes version 1; a successor or an amendment starts without     *)
(* content.                                                                *)
Created(version, complete) ==
  [status |-> "DRAFT", currentVersionId |-> version,
   approvedVersionId |-> NoVersion, acceptedVersionId |-> NoVersion,
   complete |-> complete]

Init ==
  /\ versions \in {0, 1} \intersect Version
  /\ \E complete \in BOOLEAN : row = Created(versions, complete)
  /\ signers = {}
  /\ approvals = <<>>
  /\ acceptances = {}
  /\ request = [r \in Requests |-> Idle]

-----------------------------------------------------------------------------
(* Reads.                                                                  *)

Pending == {i \in DOMAIN approvals : approvals[i].decision = "PENDING"}

(* The approval a reviewer decides is the latest pending one.              *)
Latest(i) == i \in Pending /\ \A j \in Pending : j <= i

Begin(r, op, user, approval, party) ==
  /\ request[r] = Idle
  /\ request' = [request EXCEPT ![r] =
       [op |-> op, actor |-> user, snap |-> row, approval |-> approval,
        versionCount |-> versions, party |-> party]]
  /\ UNCHANGED <<row, versions, signers, approvals, acceptances>>

Start(r, op, user) == Begin(r, op, user, 0, "LSI")

BeginSubmit(r, u) ==
  CanSubmit(row, signers, row.complete) /\ Start(r, "SUBMIT_FOR_REVIEW", u)

(* APPROVE and REQUEST_CHANGES fail closed without a pending approval.     *)
BeginApprove(r, u) ==
  \E i \in DOMAIN approvals :
    /\ Latest(i)
    /\ CanApprove(row, approvals[i].submittedBy, u)
    /\ Begin(r, "APPROVE", u, i, "LSI")

BeginRequestChanges(r, u) ==
  \E i \in DOMAIN approvals :
    /\ Latest(i)
    /\ CanRequestChanges(row, approvals[i].submittedBy, u)
    /\ Begin(r, "REQUEST_CHANGES", u, i, "LSI")

BeginSaveContent(r, u) == CanEdit(row) /\ Start(r, "EDIT_CONTENT", u)

BeginSendToClient(r, u) == CanSendToClient(row) /\ Start(r, "SEND_TO_CLIENT", u)

(* The client accepts the version that was presented: any other one is     *)
(* refused by the guard, so the accepted version is the current one.       *)
BeginAccept(r, u) ==
  CanAccept(row, row.currentVersionId) /\ Start(r, "CLIENT_ACCEPT", u)

BeginNegotiate(r, u) == CanNegotiate(row) /\ Start(r, "OPEN_NEGOTIATION", u)

BeginCancel(r, u) == CanCancel(row) /\ Start(r, "CANCEL", u)

BeginAddSigner(r, u, p) ==
  /\ row.status \in EditableStatuses
  /\ Begin(r, "ADD_SIGNER", u, 0, p)

BeginRemoveSigner(r, u, p) ==
  /\ row.status \in EditableStatuses
  /\ p \in signers
  /\ Begin(r, "REMOVE_SIGNER", u, 0, p)

-----------------------------------------------------------------------------
(* Writes.  persistTransition writes the status and every reference of the *)
(* snapshot; the current version and the completeness of the text belong   *)
(* to saveContent.                                                         *)

Persisted(c, next) ==
  [c EXCEPT !.status = next.status,
            !.approvedVersionId = next.approvedVersionId,
            !.acceptedVersionId = next.acceptedVersionId]

Done(r) == request' = [request EXCEPT ![r] = Idle]

Decide(i, decision, user) ==
  approvals' = [approvals EXCEPT ![i] =
                  [@ EXCEPT !.decision = decision, !.decidedBy = user]]

CommitSubmit(r) ==
  LET t == request[r] IN
  /\ t.op = "SUBMIT_FOR_REVIEW"
  /\ Len(approvals) < MaxApprovals
  /\ approvals' = Append(approvals,
       [versionId |-> t.snap.currentVersionId, submittedBy |-> t.actor,
        decision |-> "PENDING", decidedBy |-> NoUser])
  /\ row' = Persisted(row, Submitted(t.snap))
  /\ Done(r)
  /\ UNCHANGED <<versions, signers, acceptances>>

CommitApprove(r) ==
  LET t == request[r] IN
  /\ t.op = "APPROVE"
  /\ Decide(t.approval, "APPROVED", t.actor)
  /\ row' = Persisted(row, Approved(t.snap))
  /\ Done(r)
  /\ UNCHANGED <<versions, signers, acceptances>>

CommitRequestChanges(r) ==
  LET t == request[r] IN
  /\ t.op = "REQUEST_CHANGES"
  /\ Decide(t.approval, "CHANGES_REQUESTED", t.actor)
  /\ row' = Persisted(row, ChangesRequested(t.snap))
  /\ Done(r)
  /\ UNCHANGED <<versions, signers, acceptances>>

(* The version number is the count that was read, plus one, and is unique: *)
(* of two saves that read the same count, the second rolls back.           *)
CommitSaveContent(r) ==
  LET t == request[r] IN
  /\ t.op = "EDIT_CONTENT"
  /\ t.versionCount = versions
  /\ versions < MaxVersions
  /\ versions' = versions + 1
  /\ \E complete \in BOOLEAN :
       row' = Persisted([row EXCEPT !.currentVersionId = versions + 1,
                                    !.complete = complete],
                        Edited(t.snap))
  /\ Done(r)
  /\ UNCHANGED <<signers, approvals, acceptances>>

CommitSendToClient(r) ==
  LET t == request[r] IN
  /\ t.op = "SEND_TO_CLIENT"
  /\ row' = Persisted(row, SentToClient(t.snap))
  /\ Done(r)
  /\ UNCHANGED <<versions, signers, approvals, acceptances>>

CommitAccept(r) ==
  LET t == request[r]
      v == t.snap.currentVersionId
  IN
  /\ t.op = "CLIENT_ACCEPT"
  /\ acceptances' = acceptances \union {v}
  /\ row' = Persisted(row, Accepted(t.snap, v))
  /\ Done(r)
  /\ UNCHANGED <<versions, signers, approvals>>

CommitNegotiate(r) ==
  LET t == request[r] IN
  /\ t.op = "OPEN_NEGOTIATION"
  /\ row' = Persisted(row, InNegotiation(t.snap))
  /\ Done(r)
  /\ UNCHANGED <<versions, signers, approvals, acceptances>>

(* The pending approval of a contract cancelled in review stays pending.   *)
CommitCancel(r) ==
  LET t == request[r] IN
  /\ t.op = "CANCEL"
  /\ row' = Persisted(row, Cancelled(t.snap))
  /\ Done(r)
  /\ UNCHANGED <<versions, signers, approvals, acceptances>>

CommitAddSigner(r) ==
  /\ request[r].op = "ADD_SIGNER"
  /\ signers' = signers \union {request[r].party}
  /\ Done(r)
  /\ UNCHANGED <<row, versions, approvals, acceptances>>

CommitRemoveSigner(r) ==
  /\ request[r].op = "REMOVE_SIGNER"
  /\ signers' = signers \ {request[r].party}
  /\ Done(r)
  /\ UNCHANGED <<row, versions, approvals, acceptances>>

(* A transaction that cannot commit (unique index, lost connection, crash  *)
(* of the process) leaves no trace.                                        *)
Rollback(r) ==
  /\ request[r] # Idle
  /\ Done(r)
  /\ UNCHANGED <<row, versions, signers, approvals, acceptances>>

-----------------------------------------------------------------------------
Read(r) ==
  \E u \in Users :
    \/ BeginSubmit(r, u)
    \/ BeginApprove(r, u)
    \/ BeginRequestChanges(r, u)
    \/ BeginSaveContent(r, u)
    \/ BeginSendToClient(r, u)
    \/ BeginAccept(r, u)
    \/ BeginNegotiate(r, u)
    \/ BeginCancel(r, u)
    \/ \E p \in Parties : BeginAddSigner(r, u, p) \/ BeginRemoveSigner(r, u, p)

Commit(r) ==
  \/ CommitSubmit(r)
  \/ CommitApprove(r)
  \/ CommitRequestChanges(r)
  \/ CommitSaveContent(r)
  \/ CommitSendToClient(r)
  \/ CommitAccept(r)
  \/ CommitNegotiate(r)
  \/ CommitCancel(r)
  \/ CommitAddSigner(r)
  \/ CommitRemoveSigner(r)

Next == \E r \in Requests : Read(r) \/ Commit(r) \/ Rollback(r)

Spec == Init /\ [][Next]_reviewVars

-----------------------------------------------------------------------------
(* Properties that hold however the transactions interleave.               *)

(* Type invariant.                                                         *)
TypeOK ==
  /\ row \in Row
  /\ versions \in Version
  /\ signers \subseteq Parties
  /\ approvals \in Seq(Approval)
  /\ Len(approvals) <= MaxApprovals
  /\ acceptances \subseteq Version
  /\ request \in [Requests -> Transaction \union {Idle}]

(* An approval that has been decided was decided by someone other than the *)
(* author of the submission: the guard of applyEvent reads the author at   *)
(* Begin, the decision is written at Commit on the row that was read.      *)
SeparationOfDuties ==
  \A i \in DOMAIN approvals :
    approvals[i].decision # "PENDING" =>
      /\ approvals[i].decidedBy \in Users
      /\ approvals[i].decidedBy # approvals[i].submittedBy

(* The row points at the newest version, so no saved content is ever       *)
(* shadowed by an older one, however many saves race.                      *)
CurrentIsNewest == row.currentVersionId = versions

(* A version the row records as accepted has its acceptance row, the       *)
(* append-only proof of who accepted: a stale snapshot written back can    *)
(* restore an old acceptance but never invent one.                         *)
AcceptanceBacked ==
  row.acceptedVersionId # NoVersion => row.acceptedVersionId \in acceptances

-----------------------------------------------------------------------------
(* Properties that hold when the transactions of the contract do not       *)
(* overlap (one request).                                                  *)

(* The approved version of the row is a version that a reviewer approved:  *)
(* its approval row names that version.  Rule RM-11 binds an approval to   *)
(* one version.                                                            *)
ApprovedVersionReviewed ==
  row.approvedVersionId # NoVersion =>
    \E i \in DOMAIN approvals :
      /\ approvals[i].decision = "APPROVED"
      /\ approvals[i].versionId = row.approvedVersionId

(* What the client was shown, or accepted, is the current version and is   *)
(* approved.                                                               *)
PresentedIsApproved ==
  row.status \in {"APPROVED", "SENT_TO_CLIENT", "ACCEPTED"} =>
    CurrentIsApproved(row)

(* In review there is exactly one pending approval, on the current         *)
(* version; elsewhere there is none, but for a contract cancelled in       *)
(* review, whose approval stays pending.                                   *)
PendingMatchesReview ==
  /\ row.status = "IN_REVIEW" =>
       \E i \in Pending : Pending = {i} /\ approvals[i].versionId = row.currentVersionId
  /\ row.status \notin {"IN_REVIEW", "CANCELLED"} => Pending = {}

(* A terminal status is never left.                                        *)
TerminalIsFinal ==
  [][row.status \in TerminalStatuses => row'.status = row.status]_reviewVars

(* A decision on an approval is never taken back or replaced.              *)
DecisionIsFinal ==
  [][\A i \in DOMAIN approvals :
       approvals[i].decision # "PENDING" => approvals'[i] = approvals[i]]_reviewVars
=============================================================================
