--------------------------- MODULE SignatureFlow ---------------------------
(***************************************************************************)
(* The electronic signature of one contract: SendForSignatureService,      *)
(* SignatureActionsService.revoke, DocusealWebhookService and the          *)
(* reconciliation job, between our database and the provider.              *)
(*                                                                         *)
(* A send is two transactions with the rendering and the provider call     *)
(* between them, outside any transaction; the second one writes back the   *)
(* snapshot of the contract that the first one read.  A revocation is two  *)
(* transactions around a provider call.  A webhook is one READ COMMITTED   *)
(* transaction that reads the guard, and later writes.  The provider       *)
(* reports each fact any number of times, in any order, or never.          *)
(*                                                                         *)
(* The handlers of the desk (edition, review, acceptance, cancellation)    *)
(* are single steps here: ContractReview has their own interleavings.      *)
(***************************************************************************)
EXTENDS ContractMachine

CONSTANTS
  MaxRequests,  \* bound: calls of send that pass tx1
  MaxVersions,  \* bound: contents saved
  Signers,      \* the contract's signers, fixed while it is not editable
  NoSigner,     \* the signer of an event about the whole submission
  Workers,      \* webhook and reconciliation transactions open at once
  Sources,      \* who reports facts: "webhook", "reconcile"
  Kinds,        \* kinds of events the provider emits
  Faults,       \* what may go wrong during a send
  Overlap       \* FALSE: a webhook's transaction excludes the other writers

EventKinds == {"FORM_VIEWED", "FORM_COMPLETED", "FORM_DECLINED",
               "SUBMISSION_COMPLETED", "SUBMISSION_EXPIRED"}

ASSUME SignatureAssumption ==
  /\ MaxRequests \in Nat
  /\ MaxVersions \in Nat \ {0}
  /\ NoSigner \notin Signers
  /\ Sources \subseteq {"webhook", "reconcile"}
  /\ Kinds \subseteq EventKinds
  /\ Faults \subseteq {"crash", "rerender", "refusal", "timeout"}
  /\ Overlap \in BOOLEAN

VARIABLES
  row,       \* the contracts row
  hashed,    \* versions whose pdf_sha256 is written, once and for all
  req,       \* signature_requests
  signer,    \* contract_signers, by status
  journal,   \* provider_event_id of the signature_events
  sender,    \* the call of send behind each request
  revoker,   \* the call of revoke in progress
  worker,    \* transactions of DocusealWebhookService.process
  sub,       \* the provider: the submission of each request
  form       \* the provider: what each signer did with the submission

database == <<row, hashed, req, signer, journal>>
processes == <<sender, revoker, worker>>
provider == <<sub, form>>
signatureVars == <<database, processes, provider>>

Requests == 1..MaxRequests
Version == 0..MaxVersions

ActiveStatuses == {"CREATING", "SENT", "PARTIALLY_COMPLETED"}
ClosedStatuses == {"REVOKED", "DECLINED", "EXPIRED", "COMPLETED", "FAILED"}
RevocableStatuses == {"SENT", "PARTIALLY_COMPLETED"}
(* Mutant: the job looks for the requests nobody signed yet.               *)
SyncedSent == {"SENT"}
SyncedStatuses == {"SENT", "PARTIALLY_COMPLETED"}

Row == [status : Statuses, currentVersionId : Version, approvedVersionId : Version,
        acceptedVersionId : Version]

Request == [status : {"none"} \union ActiveStatuses \union ClosedStatuses,
            versionId : Version]

Event == [src : Sources, kind : EventKinds, r : Requests,
          s : Signers \union {NoSigner}]

Init ==
  /\ row = [status |-> "DRAFT", currentVersionId |-> 1,
            approvedVersionId |-> NoVersion, acceptedVersionId |-> NoVersion]
  /\ hashed = {}
  /\ req = [r \in Requests |-> [status |-> "none", versionId |-> NoVersion]]
  /\ signer = [s \in Signers |-> "PENDING"]
  /\ journal = {}
  /\ sender = [r \in Requests |-> [pc |-> "idle", snap |-> row]]
  /\ revoker = [pc |-> "idle", r |-> 0]
  /\ worker = [w \in Workers |-> [pc |-> "idle"]]
  /\ sub = [r \in Requests |-> [state |-> "none", archived |-> FALSE]]
  /\ form = [r \in Requests |-> [s \in Signers |-> "AWAITING"]]

-----------------------------------------------------------------------------
(* Locks and constraints of the database.                                  *)

(* Mutant: the partial index forgets CREATING.                             *)
IndexIgnoresCreating(r) == \A q \in Requests \ {r} : req[q].status \notin RevocableStatuses

(* signature_requests_one_active: a request may become or stay active only *)
(* when no other one is.                                                   *)
IndexAllows(r) == \A q \in Requests \ {r} : req[q].status \notin ActiveStatuses

(* A FORM_COMPLETED that has written its signer holds the row's lock until *)
(* it commits.                                                             *)
Locked == {worker[w].event.s : w \in {v \in Workers : worker[v].pc = "counted"}}

(* Without overlap the other writers wait for the open transactions.       *)
Quiet == Overlap \/ \A w \in Workers : worker[w].pc = "idle"

-----------------------------------------------------------------------------
(* The desk, through ContractMachine.                                      *)

Desk(can, next) ==
  /\ Quiet
  /\ can
  /\ row' = next
  /\ UNCHANGED <<hashed, req, signer, journal, processes, provider>>

SaveContent ==
  /\ row.currentVersionId < MaxVersions
  /\ Desk(CanEdit(row),
          [Edited(row) EXCEPT !.currentVersionId = row.currentVersionId + 1])

SubmitForReview == Desk(CanSubmit(row, Parties, TRUE), Submitted(row))

Approve == Desk(Admits(row, "APPROVE"), Approved(row))

RequestChanges == Desk(Admits(row, "REQUEST_CHANGES"), ChangesRequested(row))

SendToClient == Desk(CanSendToClient(row), SentToClient(row))

ClientAccept ==
  Desk(CanAccept(row, row.currentVersionId), Accepted(row, row.currentVersionId))

Negotiate == Desk(CanNegotiate(row), InNegotiation(row))

(* Cancelling does not revoke the submission.                              *)
Cancel == Desk(CanCancel(row), Cancelled(row))

-----------------------------------------------------------------------------
(* SendForSignatureService.send.                                           *)

SenderTo(r, pc) == sender' = [sender EXCEPT ![r].pc = pc]

(* tx1: the state machine validates, a request CREATING is inserted.       *)
Prepare(r) ==
  /\ Quiet
  /\ req[r].status = "none"
  /\ \A q \in Requests : q < r => req[q].status # "none"
  /\ CanSendForSignature(row)
  /\ IndexAllows(r)
  /\ req' = [req EXCEPT ![r] =
               [status |-> "CREATING", versionId |-> row.currentVersionId]]
  /\ sender' = [sender EXCEPT ![r] = [pc |-> "prepared", snap |-> row]]
  /\ UNCHANGED <<row, hashed, signer, journal, revoker, worker, provider>>

(* The PDF is rendered, stored, and its hash written on the version.  The  *)
(* hash is written once: rendering a version again must give the same      *)
(* bytes.                                                                  *)
Render(r) ==
  /\ sender[r].pc = "prepared"
  /\ hashed' = hashed \union {req[r].versionId}
  /\ SenderTo(r, "rendered")
  /\ UNCHANGED <<row, req, signer, journal, revoker, worker, provider>>

(* Other bytes: the trigger refuses the hash, the exception leaves send    *)
(* before its only catch, and the request stays CREATING.                  *)
HashRejected(r) ==
  /\ "rerender" \in Faults
  /\ sender[r].pc = "prepared"
  /\ req[r].versionId \in hashed
  /\ SenderTo(r, "stopped")
  /\ UNCHANGED <<database, revoker, worker, provider>>

Submission(r) == sub' = [sub EXCEPT ![r].state = "PENDING"]

CreateSubmission(r) ==
  /\ sender[r].pc = "rendered"
  /\ Submission(r)
  /\ SenderTo(r, "created")
  /\ UNCHANGED <<database, revoker, worker, form>>

(* The call fails.  After a timeout the provider may have created the      *)
(* submission all the same.                                                *)
CreateFails(r) ==
  /\ sender[r].pc = "rendered"
  /\ \/ "refusal" \in Faults /\ UNCHANGED sub
     \/ "timeout" \in Faults /\ Submission(r)
  /\ SenderTo(r, "failing")
  /\ UNCHANGED <<database, revoker, worker, form>>

RecordFailure(r) ==
  /\ sender[r].pc = "failing"
  /\ req' = [req EXCEPT ![r].status = "FAILED"]
  /\ SenderTo(r, "stopped")
  /\ UNCHANGED <<row, hashed, signer, journal, revoker, worker, provider>>

(* tx2: the snapshot of tx1, moved to PENDING_SIGNATURE, is written back.  *)
Acknowledge(r) ==
  LET next == SentForSignature(sender[r].snap) IN
  /\ Quiet
  /\ sender[r].pc = "created"
  /\ Locked = {}
  /\ req' = [req EXCEPT ![r].status = "SENT"]
  /\ signer' = [s \in Signers |-> "SENT"]
  /\ row' = [row EXCEPT !.status = next.status,
                        !.approvedVersionId = next.approvedVersionId,
                        !.acceptedVersionId = next.acceptedVersionId]
  /\ SenderTo(r, "stopped")
  /\ UNCHANGED <<hashed, journal, revoker, worker, provider>>

(* The process dies, or an exception outside the catch ends the call.      *)
Crash(r) ==
  /\ "crash" \in Faults
  /\ sender[r].pc \notin {"idle", "stopped"}
  /\ SenderTo(r, "stopped")
  /\ UNCHANGED <<database, revoker, worker, provider>>

-----------------------------------------------------------------------------
(* SignatureActionsService.revoke.                                         *)

RevokeValidate ==
  /\ revoker.pc = "idle"
  /\ Admits(row, "REVOKE_SIGNATURE")
  /\ \E r \in Requests :
       /\ req[r].status \in RevocableStatuses
       /\ revoker' = [pc |-> "validated", r |-> r]
  /\ UNCHANGED <<database, sender, worker, provider>>

RevokeAtProvider ==
  /\ revoker.pc = "validated"
  /\ sub' = [sub EXCEPT ![revoker.r].archived = TRUE]
  /\ revoker' = [revoker EXCEPT !.pc = "archived"]
  /\ UNCHANGED <<database, sender, worker, form>>

(* revoke gives the state machine a snapshot that has only the status.     *)
StatusOnly(c) ==
  [status |-> c.status, currentVersionId |-> NoVersion, acceptedVersionId |-> NoVersion]

RevokeCommit ==
  /\ Quiet
  /\ revoker.pc = "archived"
  /\ Locked = {}
  /\ Admits(row, "REVOKE_SIGNATURE")
  /\ req' = [req EXCEPT ![revoker.r].status = "REVOKED"]
  /\ signer' = [s \in Signers |-> "PENDING"]
  /\ row' = [row EXCEPT !.status = SignatureRevoked(StatusOnly(row)).status]
  /\ revoker' = [pc |-> "idle", r |-> 0]
  /\ UNCHANGED <<hashed, journal, sender, worker, provider>>

(* The provider's error, a refused transition or a crash: nothing is       *)
(* written, and the user may try again.                                    *)
RevokeAbort ==
  /\ revoker.pc # "idle"
  /\ revoker' = [pc |-> "idle", r |-> 0]
  /\ UNCHANGED <<database, sender, worker, provider>>

-----------------------------------------------------------------------------
(* The provider.                                                           *)

Live(r) == sub[r].state = "PENDING" /\ ~sub[r].archived

OpenForm(r, s) ==
  /\ "FORM_VIEWED" \in Kinds
  /\ Live(r)
  /\ form[r][s] = "AWAITING"
  /\ form' = [form EXCEPT ![r][s] = "OPENED"]
  /\ UNCHANGED <<database, processes, sub>>

CompleteForm(r, s) ==
  /\ Live(r)
  /\ form[r][s] \in {"AWAITING", "OPENED"}
  /\ form' = [form EXCEPT ![r][s] = "COMPLETED"]
  /\ sub' = [sub EXCEPT ![r].state =
               IF \A q \in Signers \ {s} : form[r][q] = "COMPLETED"
                 THEN "COMPLETED" ELSE "PENDING"]
  /\ UNCHANGED <<database, processes>>

DeclineForm(r, s) ==
  /\ "FORM_DECLINED" \in Kinds
  /\ Live(r)
  /\ form[r][s] \in {"AWAITING", "OPENED"}
  /\ form' = [form EXCEPT ![r][s] = "DECLINED"]
  /\ sub' = [sub EXCEPT ![r].state = "DECLINED"]
  /\ UNCHANGED <<database, processes>>

Expire(r) ==
  /\ "SUBMISSION_EXPIRED" \in Kinds
  /\ Live(r)
  /\ sub' = [sub EXCEPT ![r].state = "EXPIRED"]
  /\ UNCHANGED <<database, processes, form>>

(* What the provider can report: a webhook, or a reconciliation event made *)
(* from the state that was read; each has its own event id.                *)
Happened(e) ==
  CASE e.kind = "FORM_VIEWED" -> e.s \in Signers /\ form[e.r][e.s] # "AWAITING"
    [] e.kind = "FORM_COMPLETED" -> e.s \in Signers /\ form[e.r][e.s] = "COMPLETED"
    [] e.kind = "FORM_DECLINED" -> e.s \in Signers /\ form[e.r][e.s] = "DECLINED"
    [] e.kind = "SUBMISSION_COMPLETED" -> e.s = NoSigner /\ sub[e.r].state = "COMPLETED"
    [] e.kind = "SUBMISSION_EXPIRED" -> e.s = NoSigner /\ sub[e.r].state = "EXPIRED"

-----------------------------------------------------------------------------
(* DocusealWebhookService.process.                                         *)

(* Mutant: an event that comes before tx2 finds the request.               *)
ResolvedAlways(r) == req[r].status # "none"

(* providerSubmissionId is known from tx2 on; before, and after a failed   *)
(* send, the event is an orphan and is dropped.                            *)
Resolved(r) == req[r].status \notin {"none", "CREATING", "FAILED"}

(* Mutant: a view is recorded whatever the signer did.                     *)
InertUnlessViewed(e) ==
  \/ req[e.r].status \in ClosedStatuses
  \/ e.kind \in {"FORM_COMPLETED", "FORM_DECLINED"} /\ signer[e.s] = "SIGNED"

(* A fact that changes nothing: the request is closed, or the signer is    *)
(* past it.                                                                *)
Inert(e) ==
  \/ req[e.r].status \in ClosedStatuses
  \/ e.kind = "FORM_VIEWED" /\ signer[e.s] # "SENT"
  \/ e.kind \in {"FORM_COMPLETED", "FORM_DECLINED"} /\ signer[e.s] = "SIGNED"

(* The scope is resolved, the event id is inserted (an id already there is *)
(* a duplicate and is ignored), the guards are read.  The reconciliation   *)
(* job looks only at the requests that await the provider.                 *)
Receive(w, e) ==
  /\ worker[w].pc = "idle"
  /\ Quiet
  /\ Happened(e)
  /\ Resolved(e.r)
  /\ e.src = "reconcile" => req[e.r].status \in SyncedStatuses
  /\ e \notin journal
  /\ \A v \in Workers : worker[v].pc # "idle" => worker[v].event # e
  /\ IF Inert(e)
       THEN journal' = journal \union {e} /\ UNCHANGED worker
       ELSE /\ worker' = [worker EXCEPT ![w] =
                            [pc |-> "open", event |-> e, allSigned |-> FALSE]]
            /\ UNCHANGED journal
  /\ UNCHANGED <<row, hashed, req, signer, sender, revoker, provider>>

(* FORM_COMPLETED updates its signer, which takes the row's lock, and      *)
(* counts the others as they are committed.                                *)
Count(w) ==
  LET e == worker[w].event IN
  /\ worker[w].pc = "open"
  /\ e.kind = "FORM_COMPLETED"
  /\ e.s \notin Locked
  /\ worker' = [worker EXCEPT ![w] =
       [pc |-> "counted", event |-> e,
        allSigned |-> \A s \in Signers \ {e.s} : signer[s] = "SIGNED"]]
  /\ UNCHANGED <<database, sender, revoker, provider>>

(* Mutant: the contract does not follow.                                   *)
TransitionForgotten(event, next) == UNCHANGED row

(* The contract follows when the state machine admits the event, and stays *)
(* as it is otherwise.                                                     *)
Transition(event, next) == row' = IF Admits(row, event) THEN next ELSE row

Finish(w) ==
  /\ journal' = journal \union {worker[w].event}
  /\ worker' = [worker EXCEPT ![w] = [pc |-> "idle"]]
  /\ UNCHANGED <<hashed, sender, revoker, provider>>

(* Mutant: only a request nobody signed yet moves.                         *)
RequestFromSent(r, status) ==
  req' = [req EXCEPT ![r].status = IF @ = "SENT" THEN status ELSE @]

RequestTo(r, status) ==
  /\ status \in ActiveStatuses => IndexAllows(r)
  /\ req' = [req EXCEPT ![r].status = status]

ApplyViewed(w) ==
  LET e == worker[w].event IN
  /\ worker[w].pc = "open"
  /\ e.kind = "FORM_VIEWED"
  /\ e.s \notin Locked
  /\ signer' = [signer EXCEPT ![e.s] = "VIEWED"]
  /\ Finish(w)
  /\ UNCHANGED <<row, req>>

ApplyDeclined(w) ==
  LET e == worker[w].event IN
  /\ worker[w].pc = "open"
  /\ e.kind = "FORM_DECLINED"
  /\ e.s \notin Locked
  /\ signer' = [signer EXCEPT ![e.s] = "DECLINED"]
  /\ RequestTo(e.r, "DECLINED")
  /\ Transition("SIGNER_DECLINED", SignerDeclined(row))
  /\ Finish(w)

ApplyCompleted(w) ==
  LET e == worker[w].event
      all == worker[w].allSigned
  IN
  /\ worker[w].pc = "counted"
  /\ signer' = [signer EXCEPT ![e.s] = "SIGNED"]
  /\ RequestTo(e.r, IF all THEN "COMPLETED" ELSE "PARTIALLY_COMPLETED")
  /\ Transition("SIGNER_SIGNED", SignerSigned(row, all))
  /\ Finish(w)

ApplyExpired(w) ==
  LET e == worker[w].event IN
  /\ worker[w].pc = "open"
  /\ e.kind = "SUBMISSION_EXPIRED"
  /\ RequestTo(e.r, "EXPIRED")
  /\ Transition("SIGNATURE_EXPIRE", SignatureExpired(row))
  /\ Finish(w)
  /\ UNCHANGED signer

(* The provider's word that all have signed prevails over our count; the   *)
(* update takes the locks of the signers that are not SIGNED yet.          *)
ApplySubmissionCompleted(w) ==
  LET e == worker[w].event IN
  /\ worker[w].pc = "open"
  /\ e.kind = "SUBMISSION_COMPLETED"
  /\ \A s \in Locked : signer[s] = "SIGNED"
  /\ signer' = [s \in Signers |-> "SIGNED"]
  /\ RequestTo(e.r, "COMPLETED")
  /\ Transition("SIGNER_SIGNED", SignerSigned(row, TRUE))
  /\ Finish(w)

(* The transaction aborts; the provider delivers again, the job runs again.*)
Rollback(w) ==
  /\ worker[w].pc # "idle"
  /\ worker' = [worker EXCEPT ![w] = [pc |-> "idle"]]
  /\ UNCHANGED <<database, sender, revoker, provider>>

-----------------------------------------------------------------------------
Next ==
  \/ SaveContent \/ SubmitForReview \/ Approve \/ RequestChanges
  \/ SendToClient \/ ClientAccept \/ Negotiate \/ Cancel
  \/ RevokeValidate \/ RevokeAtProvider \/ RevokeCommit \/ RevokeAbort
  \/ \E r \in Requests :
       \/ Prepare(r) \/ Render(r) \/ HashRejected(r) \/ CreateSubmission(r)
       \/ CreateFails(r) \/ RecordFailure(r) \/ Acknowledge(r) \/ Crash(r)
       \/ Expire(r)
       \/ \E s \in Signers : OpenForm(r, s) \/ CompleteForm(r, s) \/ DeclineForm(r, s)
  \/ \E w \in Workers :
       \/ \E e \in Event : e.kind \in Kinds /\ Receive(w, e)
       \/ Count(w) \/ ApplyViewed(w) \/ ApplyDeclined(w) \/ ApplyCompleted(w)
       \/ ApplyExpired(w) \/ ApplySubmissionCompleted(w) \/ Rollback(w)

Spec == Init /\ [][Next]_signatureVars

(* Fairness: a transaction that is retried commits in the end, and the job *)
(* of every 30 minutes finds the requests that await the provider.  The    *)
(* call of send goes on until something stops it.  Nothing is assumed of   *)
(* users, of the provider, or of webhooks.                                 *)
Apply(w) ==
  \/ ApplyViewed(w) \/ ApplyDeclined(w) \/ ApplyCompleted(w)
  \/ ApplyExpired(w) \/ ApplySubmissionCompleted(w)

Reconcile(w) == \E e \in Event : e.src = "reconcile" /\ e.kind \in Kinds /\ Receive(w, e)

Send(r) ==
  \/ Render(r) \/ HashRejected(r) \/ CreateSubmission(r) \/ CreateFails(r)
  \/ RecordFailure(r) \/ Acknowledge(r)

FairSpec ==
  /\ Spec
  /\ \A w \in Workers :
       /\ SF_signatureVars(Count(w)) /\ SF_signatureVars(Apply(w))
       /\ SF_signatureVars(Reconcile(w))
  /\ \A r \in Requests : SF_signatureVars(Send(r))

-----------------------------------------------------------------------------
(* Type invariant.                                                         *)
TypeOK ==
  /\ row \in Row
  /\ hashed \subseteq Version
  /\ req \in [Requests -> Request]
  /\ signer \in [Signers -> {"PENDING", "SENT", "VIEWED", "SIGNED", "DECLINED"}]
  /\ journal \subseteq Event
  /\ sender \in [Requests -> [pc : {"idle", "prepared", "rendered", "created",
                                   "failing", "stopped"}, snap : Row]]
  /\ revoker \in [pc : {"idle", "validated", "archived"}, r : Requests \union {0}]
  /\ \A w \in Workers :
       worker[w].pc # "idle" =>
         worker[w] \in [pc : {"open", "counted"}, event : Event, allSigned : BOOLEAN]
  /\ sub \in [Requests -> [state : {"none", "PENDING", "COMPLETED", "DECLINED", "EXPIRED"},
                          archived : BOOLEAN]]
  /\ form \in [Requests -> [Signers -> {"AWAITING", "OPENED", "COMPLETED", "DECLINED"}]]

(* However the webhooks, the sends and the revocations interleave, two     *)
(* requests are never active at once: a late webhook cannot revive a       *)
(* closed request next to its successor.                                   *)
OneActiveRequest ==
  \A r, q \in Requests :
    req[r].status \in ActiveStatuses /\ req[q].status \in ActiveStatuses => r = q

(* A contract is SIGNED only when every signer completed the same          *)
(* submission at the provider: signatures of two submissions never add up. *)
SignedByAll ==
  row.status = "SIGNED" =>
    \E r \in Requests : \A s \in Signers : form[r][s] = "COMPLETED"

(* The signers are never invited to two live submissions of the contract.  *)
OneLiveSubmission == \A r, q \in Requests : Live(r) /\ Live(q) => r = q

(* Once every fact about a submission was delivered, in whatever order and *)
(* however often, the request that was not revoked says what the provider  *)
(* says.                                                                   *)
Delivered(r) ==
  \A e \in Event :
    e.r = r /\ e.src = "webhook" /\ e.kind \in Kinds /\ Happened(e) => e \in journal

Converged ==
  \A r \in Requests :
    Resolved(r) /\ req[r].status # "REVOKED" /\ Delivered(r) =>
      req[r].status =
        IF sub[r].state # "PENDING" THEN sub[r].state
        ELSE IF \E s \in Signers : form[r][s] = "COMPLETED"
               THEN "PARTIALLY_COMPLETED" ELSE "SENT"

(* A completed request leaves its contract signed, or cancelled, unless a  *)
(* revocation was committed too.                                           *)
CompletedIsSigned ==
  /\ \E r \in Requests : req[r].status = "COMPLETED"
  /\ \A r \in Requests : req[r].status # "REVOKED"
  =>
    row.status \in {"SIGNED", "CANCELLED"}

(* A closed request never reopens, whatever arrives late.                  *)
ClosedStaysClosed ==
  [][\A r \in Requests :
       req[r].status \in ClosedStatuses => req'[r].status \in ClosedStatuses]_signatureVars

(* A signer who signed is not seen viewing or declining afterwards; only a *)
(* new send or a revocation starts him over.                               *)
SignedStaysSigned ==
  [][\A s \in Signers :
       signer[s] = "SIGNED" => signer'[s] \in {"SIGNED", "SENT", "PENDING"}]_signatureVars

(* Whatever webhooks are lost, the job brings every request to the end its *)
(* submission has come to.                                                 *)
SyncCatchesUp ==
  \A r \in Requests :
    (req[r].status \in RevocableStatuses /\ sub[r].state \notin {"none", "PENDING"})
      ~> req[r].status \notin RevocableStatuses

(* Only its own call takes a request out of CREATING: no webhook, sync or   *)
(* revocation does, for none of them knows its submission.  So a call that *)
(* crashed leaves its request CREATING, and the contract's only active     *)
(* place taken, for ever.                                                  *)
OnlyCallEndsCreating ==
  [][\A r \in Requests :
       req[r].status = "CREATING" /\ req'[r].status # "CREATING" =>
         sender[r].pc \in {"created", "failing"} /\ sender'[r].pc = "stopped"]_signatureVars

(* Without overlap the requests behave as RequestLifecycle promises.       *)
Lifecycle == INSTANCE RequestLifecycle
               WITH status <- [r \in Requests |-> req[r].status]

RequestsRefined == Lifecycle!Spec
=============================================================================
