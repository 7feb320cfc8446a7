---------------------------- MODULE ProposalFlow ----------------------------
(***************************************************************************)
(* One proposal from its draft to the contract it becomes: the desk        *)
(* (ProposalsService, ProposalSendService), the client's personal links    *)
(* (ProposalPublicService), the electronic signature                       *)
(* (ProposalSignatureService), its conversion (ProposalConversionService)  *)
(* and the worker's sweep (ProposalJobsService).                           *)
(*                                                                         *)
(* A handler of the desk is one transaction.  A call of the client reads   *)
(* the proposal in a first transaction and writes in a second one, and     *)
(* anything may happen in between.  The start of a signature is two        *)
(* transactions around the rendering and the provider's call.  The capture *)
(* of the proofs is two transactions too, and is enqueued after the commit *)
(* that found the request complete.  The provider reports each fact any    *)
(* number of times, in any order or never: the journal that ignores a      *)
(* repeated event is left out, the guards alone make a repetition harmless.*)
(*                                                                         *)
(* Of a configuration of the price table, only whether its amount is above *)
(* the thresholds ("large") is kept, and of the content, whether it can be *)
(* presented and one section that may be drafted by AI.                    *)
(***************************************************************************)
EXTENDS ProposalMachine, Sequences

CONSTANTS
  MaxVersions,   \* bound: versions of the proposal
  MaxSnapshots,  \* bound: acceptances
  MaxRequests,   \* bound: calls of start that insert a request
  Users,         \* the desk
  Recipients,    \* the client's signers
  Calls,         \* calls of the public page in progress at once
  Parties,       \* who signs: the client's signers and LSI
  Faults,        \* what may go wrong while a signature starts or is captured
  JobQueue,      \* whether Redis is there: captures are enqueued
  MaxRuns,       \* runs of a capture job that fails (8 in the code)
  Overlap,       \* FALSE: no revision while a signature starts
  SignedIsContract \* signedProposalIsContract: the signed proposal is the contract

ASSUME ProposalAssumption ==
  /\ MaxVersions \in Nat \ {0}
  /\ MaxSnapshots \in Nat
  /\ MaxRequests \in Nat
  /\ Faults \subseteq {"refusal", "timeout", "crash"}
  /\ JobQueue \in BOOLEAN
  /\ MaxRuns \in Nat \ {0}
  /\ Overlap \in BOOLEAN
  /\ SignedIsContract \in BOOLEAN

VARIABLES
  row,        \* the proposals row
  version,    \* proposal_versions, with the last configuration recorded
  recipients, \* proposal_recipients
  link,       \* proposal_access_links: the newest link of a recipient to a version
  followUp,   \* whether follow-ups of the last sending are planned
  snapshots,  \* pricing_snapshots, with the acceptance each one froze
  contract,   \* the contract generated from the proposal
  call,       \* calls of the public page, between their two transactions
  req,        \* proposal_signature_requests, with their signers
  starter,    \* the call of start behind each request
  sub,        \* the provider: the submission of each request
  enqueuing,  \* complete requests whose capture is not enqueued yet
  jobs,       \* the runs that the capture job of each request has left
  capturing   \* captures between their two transactions, with who runs them

content == <<version, recipients>>
outbox == <<link, followUp>>
captures == <<enqueuing, jobs, capturing>>
signature == <<req, starter, sub, captures>>
proposalVars == <<row, content, outbox, snapshots, contract, call, signature>>

Versions == 1..MaxVersions
Snapshots == 1..MaxSnapshots
Requests == 1..MaxRequests
NoSnapshot == 0
Nobody == "nobody"
Modes == {"DOCUSEAL_SIGNATURE", "CLICK_ACCEPT"}
Configurations == {"small", "large"}

Row == [status : ProposalStatuses, acceptanceMode : Modes, currentVersionId : Versions,
        expiresAt : {"none", "future", "past"}, reviewSubmittedBy : Users \union {Nobody},
        reviewApprovedVersionId : Versions \union {NoVersion},
        acceptedVersionId : Versions \union {NoVersion},
        acceptedSnapshotId : Snapshots \union {NoSnapshot},
        clientResponded : BOOLEAN]

(* drafted: the text is an AI's and nobody has read it; pending is the flag *)
(* the code keeps of it.                                                   *)
Section == [drafted : BOOLEAN, pending : BOOLEAN, excluded : BOOLEAN]

Version == [locked : BOOLEAN, superseded : BOOLEAN, complete : BOOLEAN,
            section : Section, selection : Configurations]

LinkStates == {"none", "valid", "revoked"}

Snapshot == [versionId : Versions, selection : Configurations]

IdleCall == [op |-> "none", versionId |-> NoVersion, selection |-> "small"]

NoRequest == [status |-> "none", snapshotId |-> NoSnapshot, signed |-> {}, proof |-> FALSE]

NoContract == [status |-> "none", snapshotId |-> NoSnapshot, selection |-> "small"]

ActiveStatuses == {"CREATING", "SENT", "PARTIALLY_COMPLETED"}
ClosedStatuses == {"COMPLETED", "DECLINED", "EXPIRED", "REVOKED", "FAILED"}
(* Mutant: the job looks for the requests nobody signed yet.               *)
SyncedSent == {"SENT"}
SyncedStatuses == {"SENT", "PARTIALLY_COMPLETED"}

Current == version[row.currentVersionId]

Written == [drafted |-> FALSE, pending |-> FALSE, excluded |-> FALSE]

NewVersion(section, complete, selection) ==
  [locked |-> FALSE, superseded |-> FALSE, complete |-> complete,
   section |-> section, selection |-> selection]

(* create: version 1 comes from a template, whose elements may be waiting  *)
(* for a validation.                                                       *)
Init ==
  /\ \E mode \in Modes, complete \in BOOLEAN :
       /\ row = [status |-> "DRAFT", acceptanceMode |-> mode, currentVersionId |-> 1,
                 expiresAt |-> "none", reviewSubmittedBy |-> Nobody,
                 reviewApprovedVersionId |-> NoVersion, acceptedVersionId |-> NoVersion,
                 acceptedSnapshotId |-> NoSnapshot, clientResponded |-> FALSE]
       /\ version = [v \in Versions |-> NewVersion(Written, complete, "small")]
  /\ recipients \in SUBSET Recipients
  /\ link = [k \in Recipients \X Versions |-> "none"]
  /\ followUp = FALSE
  /\ snapshots = <<>>
  /\ contract = NoContract
  /\ call = [c \in Calls |-> IdleCall]
  /\ req = [r \in Requests |-> NoRequest]
  /\ starter = [r \in Requests |-> "idle"]
  /\ sub = [r \in Requests |-> [state |-> "none", signed |-> {}]]
  /\ enqueuing = {}
  /\ jobs = [r \in Requests |-> 0]
  /\ capturing = {}

-----------------------------------------------------------------------------
(* What computeState finds in the current version.                         *)

ReviewRequired == Current.selection = "large"

AboveClickThreshold == row.acceptanceMode = "CLICK_ACCEPT" /\ Current.selection = "large"

AiBlocking == Current.section.pending /\ ~Current.section.excluded

Ready ==
  /\ recipients # {}
  /\ Current.complete
  /\ ~AiBlocking
  /\ ~AboveClickThreshold

-----------------------------------------------------------------------------
(* Drafting: only a draft whose version is not frozen is edited.           *)

Editable == row.status = "DRAFT" /\ ~Current.locked

Draft(v) ==
  /\ Editable
  /\ version' = [version EXCEPT ![row.currentVersionId] = v]
  /\ UNCHANGED <<row, recipients, outbox, snapshots, contract, call, signature>>

(* update: the acceptance mode, the validity, the merge values.            *)
UpdateTerms ==
  /\ Editable
  /\ \E mode \in Modes, complete \in BOOLEAN :
       /\ row' = [row EXCEPT !.acceptanceMode = mode]
       /\ version' = [version EXCEPT ![row.currentVersionId].complete = complete]
  /\ UNCHANGED <<recipients, outbox, snapshots, contract, call, signature>>

(* putPricing, addGridLine, setCommitments, validatePrice, validateSection:*)
(* elements to validate come and go; a commitment that is withdrawn brings *)
(* the configuration back to the default one.                              *)
Price ==
  \E complete \in BOOLEAN, selection \in {Current.selection, "small"} :
    Draft([Current EXCEPT !.complete = complete, !.selection = selection])

(* Mutant: writing a section again lifts the mark, as in a revision.       *)
RewrittenBare(s, excluded) == [s EXCEPT !.excluded = excluded, !.pending = FALSE]

(* writeSections with the state of aiStateOf: the mark survives.           *)
Rewritten(s, excluded) == [s EXCEPT !.excluded = excluded]

(* putSections: the section is rewritten, put aside, or removed.           *)
PutSections ==
  \E complete, excluded \in BOOLEAN :
    \E s \in {Rewritten(Current.section, excluded), Written} :
      Draft([Current EXCEPT !.section = s, !.complete = complete])

ApplyAiSections ==
  Draft([Current EXCEPT !.section =
           [drafted |-> TRUE, pending |-> TRUE, excluded |-> FALSE]])

ValidateAiSection ==
  /\ Current.section.pending
  /\ Draft([Current EXCEPT !.section.pending = FALSE, !.section.drafted = FALSE])

(* importDocx: the imported texts replace the free sections; one that has  *)
(* the key of the marked section keeps the mark.                           *)
ImportDocx ==
  \E pending \in {Current.section.pending, FALSE}, complete \in BOOLEAN :
    Draft([Current EXCEPT !.section = [Written EXCEPT !.pending = pending],
                          !.complete = complete])

(* The desk's configuration, in a draft or when it is ready.               *)
SetSelection ==
  /\ row.status \in {"DRAFT", "READY"}
  /\ \E selection \in Configurations :
       version' = [version EXCEPT ![row.currentVersionId].selection = selection]
  /\ UNCHANGED <<row, recipients, outbox, snapshots, contract, call, signature>>

BeforeSending == {"DRAFT", "READY", "IN_INTERNAL_REVIEW"}

AddRecipient(p) ==
  /\ row.status \in BeforeSending
  /\ p \notin recipients
  /\ recipients' = recipients \union {p}
  /\ UNCHANGED <<row, version, outbox, snapshots, contract, call, signature>>

(* A recipient who was sent a link is referenced by it and stays.          *)
RemoveRecipient(p) ==
  /\ row.status \in BeforeSending
  /\ p \in recipients
  /\ \A v \in Versions : link[<<p, v>>] = "none"
  /\ recipients' = recipients \ {p}
  /\ UNCHANGED <<row, version, outbox, snapshots, contract, call, signature>>

-----------------------------------------------------------------------------
(* Transitions of the desk.                                                *)

Decide(can, next) ==
  /\ can
  /\ row' = next
  /\ UNCHANGED <<content, outbox, snapshots, contract, call, signature>>

SubmitForReview(u) == Decide(CanSubmit(row, Ready), Submitted(row, u))
ApproveReview(u) == Decide(CanApprove(row, u, Ready), Approved(row))
RejectReview(u) == Decide(CanReject(row, u), Rejected(row))
MarkReady == Decide(CanMarkReady(row, Ready, ReviewRequired), MarkedReady(row))
CloseDiscussion == Decide(Admits(row, "CLOSE_DISCUSSION"), DiscussionClosed(row))
Reactivate == Decide(Admits(row, "REACTIVATE"), Reactivated(row))

CancelFollowUps == followUp' = FALSE

Withdraw ==
  /\ Admits(row, "WITHDRAW")
  /\ row' = Withdrawn(row)
  /\ CancelFollowUps
  /\ UNCHANGED <<content, link, snapshots, contract, call, signature>>

Revoke(lk) == [k \in DOMAIN lk |-> IF lk[k] = "valid" THEN "revoked" ELSE lk[k]]

(* Everyone of ps gets a new link to the current version, the former links *)
(* of the same person are revoked.                                         *)
Relinked(ps) ==
  [k \in DOMAIN link |->
     IF k[1] \in ps /\ k[2] = row.currentVersionId THEN "valid"
     ELSE IF k[1] \in ps THEN Revoke(link)[k] ELSE link[k]]

(* The readiness is checked again, the version is frozen, everyone gets a  *)
(* new link, the follow-ups are planned.                                   *)
Send ==
  /\ Ready
  /\ CanSend(row)
  /\ row' = Sent(row)
  /\ version' = [version EXCEPT ![row.currentVersionId].locked = TRUE]
  /\ link' = Relinked(recipients)
  /\ followUp' \in BOOLEAN
  /\ UNCHANGED <<recipients, snapshots, contract, call, signature>>

Resend(p) ==
  /\ row.status \in OpenStatuses
  /\ p \in recipients
  /\ link' = Relinked({p})
  /\ UNCHANGED <<row, content, followUp, snapshots, contract, call, signature>>

(* Mutant: the links of the replaced version stay valid.                   *)
LinksKept(lk) == lk

RevokedByRevision(lk) == Revoke(lk)

Starting(r) == starter[r] \notin {"idle", "stopped"}

(* A frozen version is replaced by a new one, that takes its sections,     *)
(* without the mark of the AI, and its last configuration; a version that  *)
(* was never sent goes back to the draft as it is.                         *)
Revise ==
  LET next == row.currentVersionId + 1 IN
  /\ Admits(row, "REVISE")
  /\ Overlap \/ \A r \in Requests : ~Starting(r)
  /\ IF Current.locked
       THEN /\ next \in Versions
            /\ row' = [Revised(row) EXCEPT !.currentVersionId = next]
            /\ version' = [version EXCEPT
                 ![row.currentVersionId].superseded = TRUE,
                 ![next] = NewVersion([Current.section EXCEPT !.pending = FALSE],
                                      Current.complete, Current.selection)]
            /\ link' = RevokedByRevision(link)
            /\ CancelFollowUps
       ELSE /\ row' = Revised(row)
            /\ UNCHANGED <<version, outbox>>
  /\ UNCHANGED <<recipients, snapshots, contract, call, signature>>

-----------------------------------------------------------------------------
(* The public page.  A valid link is resolved and the proposal is read;    *)
(* the second transaction writes.                                          *)

IsOpen(v) ==
  /\ row.status \in OpenStatuses
  /\ ~IsExpired(row)
  /\ ~version[v].superseded
  /\ v = row.currentVersionId

Valid(v) == \E p \in Recipients : link[<<p, v>>] = "valid"

Read(c, op, v, selection) ==
  /\ call[c] = IdleCall
  /\ Valid(v)
  /\ call' = [call EXCEPT ![c] = [op |-> op, versionId |-> v, selection |-> selection]]
  /\ UNCHANGED <<row, content, outbox, snapshots, contract, signature>>

ReadSelect(c, v, selection) == IsOpen(v) /\ Read(c, "select", v, selection)

ReadComment(c, v) ==
  (IsOpen(v) \/ row.status = "ACCEPTED") /\ Read(c, "comment", v, "small")

ReadDecline(c, v) == Read(c, "decline", v, "small")

(* The configuration that will be frozen is the one read here.             *)
ReadAccept(c, v) ==
  /\ ~version[v].superseded
  /\ v = row.currentVersionId
  /\ Read(c, "accept", v, version[v].selection)

Done(c) == call' = [call EXCEPT ![c] = IdleCall]

(* The beacon of the page, in one transaction: the first opening.          *)
Track(v) ==
  /\ Valid(v)
  /\ Decide(row.status = "SENT", Viewed(row))

(* Nothing is read again: the configuration is recorded on the version of  *)
(* the link.                                                               *)
CommitSelect(c) ==
  /\ call[c].op = "select"
  /\ version' = [version EXCEPT ![call[c].versionId].selection = call[c].selection]
  /\ Done(c)
  /\ UNCHANGED <<row, recipients, outbox, snapshots, contract, signature>>

CommitComment(c) ==
  LET open == IF row.status \in {"SENT", "VIEWED"} THEN Discussed(row) ELSE row IN
  /\ call[c].op = "comment"
  /\ row' = [open EXCEPT !.clientResponded = TRUE]
  /\ Done(c)
  /\ UNCHANGED <<content, outbox, snapshots, contract, signature>>

CommitDecline(c) ==
  /\ call[c].op = "decline"
  /\ Admits(row, "DECLINE")
  /\ row' = [Declined(row) EXCEPT !.clientResponded = TRUE]
  /\ CancelFollowUps
  /\ Done(c)
  /\ UNCHANGED <<content, link, snapshots, contract, signature>>

(* The configuration read is recorded and frozen, the acceptance written;  *)
(* an acceptance by click is signed at once.                               *)
CommitAccept(c) ==
  LET v == call[c].versionId
      viewed == IF row.status = "SENT" THEN Viewed(row) ELSE row
      accepted == [Accepted(viewed, v) EXCEPT !.acceptedSnapshotId = Len(snapshots) + 1,
                                              !.clientResponded = TRUE]
  IN
  /\ call[c].op = "accept"
  /\ CanAccept(viewed, v)
  /\ Len(snapshots) < MaxSnapshots
  /\ version' = [version EXCEPT ![v].selection = call[c].selection]
  /\ snapshots' = Append(snapshots, [versionId |-> v, selection |-> call[c].selection])
  /\ row' = IF row.acceptanceMode = "CLICK_ACCEPT" THEN ClickCompleted(accepted) ELSE accepted
  /\ CancelFollowUps
  /\ Done(c)
  /\ UNCHANGED <<recipients, link, contract, signature>>

(* The machine refuses, or the connection drops: nothing is written.       *)
Abandon(c) ==
  /\ call[c] # IdleCall
  /\ Done(c)
  /\ UNCHANGED <<row, content, outbox, snapshots, contract, signature>>

-----------------------------------------------------------------------------
(* The start of the signature, by the client's acceptance or by the desk.  *)

(* Mutant: no idempotency key.                                             *)
AnyKey(s) == TRUE

(* proposal_signature_requests_idempotency_key: one request for a snapshot.*)
KeyIsFree(s) == \A r \in Requests : req[r].snapshotId # s

Starts(r, pc) == starter' = [starter EXCEPT ![r] = pc]

Prepare(r) ==
  /\ req[r].status = "none"
  /\ \A q \in Requests : q < r => req[q].status # "none"
  /\ \A q \in Requests : req[q].status \notin ActiveStatuses
  /\ row.status = "ACCEPTED"
  /\ recipients # {}
  /\ KeyIsFree(row.acceptedSnapshotId)
  /\ req' = [req EXCEPT ![r] = [NoRequest EXCEPT !.status = "CREATING",
                                                 !.snapshotId = row.acceptedSnapshotId]]
  /\ Starts(r, "prepared")
  /\ UNCHANGED <<row, content, outbox, snapshots, contract, call, sub, captures>>

CreateSubmission(r) ==
  /\ starter[r] = "prepared"
  /\ sub' = [sub EXCEPT ![r].state = "PENDING"]
  /\ Starts(r, "created")
  /\ UNCHANGED <<row, content, outbox, snapshots, contract, call, req, captures>>

(* The rendering or the call fails; after a timeout the provider may have  *)
(* created the submission all the same.                                    *)
CreateFails(r) ==
  /\ starter[r] = "prepared"
  /\ \/ "refusal" \in Faults /\ UNCHANGED sub
     \/ "timeout" \in Faults /\ sub' = [sub EXCEPT ![r].state = "PENDING"]
  /\ Starts(r, "failing")
  /\ UNCHANGED <<row, content, outbox, snapshots, contract, call, req, captures>>

(* tx2: the request is SENT and the proposal follows, or, when the machine *)
(* refuses, neither is.                                                    *)
Acknowledge(r) ==
  /\ starter[r] = "created"
  /\ IF CanStartSignature(row)
       THEN /\ req' = [req EXCEPT ![r].status = "SENT"]
            /\ row' = SignatureStarted(row)
            /\ Starts(r, "stopped")
       ELSE Starts(r, "failing") /\ UNCHANGED <<row, req>>
  /\ UNCHANGED <<content, outbox, snapshots, contract, call, sub, captures>>

RecordFailure(r) ==
  /\ starter[r] = "failing"
  /\ req' = [req EXCEPT ![r].status = "FAILED"]
  /\ Starts(r, "stopped")
  /\ UNCHANGED <<row, content, outbox, snapshots, contract, call, sub, captures>>

CrashStart(r) ==
  /\ "crash" \in Faults
  /\ Starting(r)
  /\ Starts(r, "stopped")
  /\ UNCHANGED <<row, content, outbox, snapshots, contract, call, req, sub, captures>>

-----------------------------------------------------------------------------
(* The provider.                                                           *)

Live(r) == sub[r].state = "PENDING"

CompleteForm(r, p) ==
  LET signed == sub[r].signed \union {p} IN
  /\ Live(r)
  /\ sub' = [sub EXCEPT ![r] =
       [state |-> IF signed = Parties THEN "COMPLETED" ELSE "PENDING", signed |-> signed]]
  /\ UNCHANGED <<row, content, outbox, snapshots, contract, call, req, starter, captures>>

(* Refused by one of the parties, or expired.                              *)
EndSubmission(r, state) ==
  /\ Live(r)
  /\ sub' = [sub EXCEPT ![r].state = state]
  /\ UNCHANGED <<row, content, outbox, snapshots, contract, call, req, starter, captures>>

-----------------------------------------------------------------------------
(* ProposalSignatureService.process, for a webhook or for an event that    *)
(* the sweep made of the submission's state.  The provider's id is known   *)
(* from tx2 on; before, and after a failed start, the event is an orphan.  *)

Resolved(r) == req[r].status \notin {"none", "CREATING", "FAILED"} \union ClosedStatuses

Process(r, status, next) ==
  /\ Resolved(r)
  /\ req' = [req EXCEPT ![r].status = status]
  /\ row' = next
  /\ UNCHANGED <<content, outbox, snapshots, contract, call, starter, sub, captures>>

(* The proposal follows when the machine admits the event.                 *)
Follow(event, next) == IF Admits(row, event) THEN next ELSE row

ProcessDeclined(r) ==
  /\ sub[r].state = "DECLINED"
  /\ Process(r, "DECLINED", Follow("SIGNATURE_DECLINED", SignatureEnded(row)))

ProcessExpired(r) ==
  /\ sub[r].state = "EXPIRED"
  /\ Process(r, "EXPIRED", Follow("SIGNATURE_EXPIRED", SignatureEnded(row)))

(* The signers are signed, the request is complete when none is left: the  *)
(* capture will be enqueued, once this is committed.                       *)
Sign(r, signed) ==
  /\ Resolved(r)
  /\ req' = [req EXCEPT ![r].signed = signed,
                        ![r].status = IF signed = Parties THEN "COMPLETED"
                                                          ELSE "PARTIALLY_COMPLETED"]
  /\ enqueuing' = IF signed = Parties THEN enqueuing \union {r} ELSE enqueuing
  /\ UNCHANGED <<row, content, outbox, snapshots, contract, call, starter, sub, jobs, capturing>>

ProcessCompletedForm(r, p) ==
  /\ p \in sub[r].signed \ req[r].signed
  /\ Sign(r, req[r].signed \union {p})

(* The provider's word that all have signed prevails.                      *)
ProcessCompletedSubmission(r) ==
  /\ sub[r].state = "COMPLETED"
  /\ Sign(r, Parties)

(* After the commit.  Without Redis nothing is enqueued.                   *)
Enqueue(r) ==
  /\ r \in enqueuing
  /\ enqueuing' = enqueuing \ {r}
  /\ jobs' = IF JobQueue THEN [jobs EXCEPT ![r] = MaxRuns] ELSE jobs
  /\ UNCHANGED <<row, content, outbox, snapshots, contract, call, req, starter, sub, capturing>>

(* Redis refuses, which is only logged, or the process dies: the request   *)
(* is closed, and no event of it enqueues again.                           *)
EnqueueFails(r) ==
  /\ Faults \intersect {"refusal", "crash"} # {}
  /\ r \in enqueuing
  /\ enqueuing' = enqueuing \ {r}
  /\ UNCHANGED <<row, content, outbox, snapshots, contract, call, req, starter, sub, jobs,
                 capturing>>

-----------------------------------------------------------------------------
(* The worker: capture and conversion jobs, and the sweep of every five    *)
(* minutes, whose queries are the guards below.  A capture is run by its   *)
(* job or by the sweep, and both may do so at once.                        *)

Runners == {"job", "sweep"}

NeedsProof(r) == req[r].status = "COMPLETED" /\ ~req[r].proof

HasRun(r, w) == IF w = "job" THEN jobs[r] > 0 ELSE NeedsProof(r)

TakeRun(r, w) == jobs' = IF w = "job" THEN [jobs EXCEPT ![r] = @ - 1] ELSE jobs

(* DocuSeal or the storage refuses: the job has used a run, the sweep will *)
(* find the request again.                                                 *)
DownloadFails(r) ==
  /\ "refusal" \in Faults
  /\ HasRun(r, "job") /\ ~req[r].proof
  /\ <<r, "job">> \notin capturing
  /\ TakeRun(r, "job")
  /\ UNCHANGED <<row, content, outbox, snapshots, contract, call, req, starter, sub, enqueuing,
                 capturing>>

(* First transaction of a capture: the signed PDF is stored, unless it is. *)
StoreProof(r, w) ==
  /\ HasRun(r, w)
  /\ <<r, w>> \notin capturing
  /\ TakeRun(r, w)
  /\ req' = [req EXCEPT ![r].proof = TRUE]
  /\ capturing' = capturing \union {<<r, w>>}
  /\ UNCHANGED <<row, content, outbox, snapshots, contract, call, starter, sub, enqueuing>>

(* The second one: the proposal is SIGNED.                                 *)
RecordSigned(r, w) ==
  /\ <<r, w>> \in capturing
  /\ row' = Follow("SIGNATURE_COMPLETED", SignatureCompleted(row))
  /\ capturing' = capturing \ {<<r, w>>}
  /\ jobs' = IF w = "job" THEN [jobs EXCEPT ![r] = 0] ELSE jobs
  /\ UNCHANGED <<content, outbox, snapshots, contract, call, req, starter, sub, enqueuing>>

(* The worker dies between the two, or the second one fails.  The job uses *)
(* the runs it has left; the sweep does not find the request again.        *)
CrashCapture(r, w) ==
  /\ "crash" \in Faults
  /\ <<r, w>> \in capturing
  /\ capturing' = capturing \ {<<r, w>>}
  /\ UNCHANGED <<row, content, outbox, snapshots, contract, call, req, starter, sub, enqueuing,
                 jobs>>

(* Mutant: the contract takes the configuration the page shows last.       *)
LatestTerms(s) == Current.selection

(* The initial price schedule of the contract is the frozen one.           *)
FrozenTerms(s) == snapshots[s].selection

(* That schedule as the transaction leaves it: a draft, or, when the       *)
(* signed proposal is the contract, activated at once and by no user.      *)
InitialSchedule ==
  [status |-> IF SignedIsContract THEN "ACTIVE" ELSE "DRAFT", activatedBy |-> Nobody]

(* pricing_schedules_activation_ck: activated exactly when someone did it. *)
ActivationCheck(schedule) == schedule.status = "DRAFT" <=> schedule.activatedBy = Nobody

(* By a job, by the desk or by the sweep; contracts_proposal_key leaves    *)
(* one contract.  A constraint that refuses undoes the whole conversion.   *)
Convert ==
  /\ Admits(row, "CONVERT")
  /\ ActivationCheck(InitialSchedule)
  /\ contract' = [status |-> IF SignedIsContract THEN "ACTIVE" ELSE "DRAFT",
                  snapshotId |-> row.acceptedSnapshotId,
                  selection |-> FrozenTerms(row.acceptedSnapshotId)]
  /\ row' = Converted(row)
  /\ UNCHANGED <<content, outbox, snapshots, call, signature>>

(* Mutant: a discussion keeps the proposal alive.                          *)
ExpirableSilent == {"SENT", "VIEWED"}

ExpirableStatuses == OpenStatuses

Expire ==
  /\ row.status \in ExpirableStatuses
  /\ CanExpire(row)
  /\ row' = Expired(row)
  /\ CancelFollowUps
  /\ UNCHANGED <<content, link, snapshots, contract, call, signature>>

(* A follow-up is due: it mails everyone a new link if the client has not  *)
(* answered and the proposal waits for him; it is skipped or postponed for *)
(* other reasons too.  Others may remain planned.                          *)
FollowUp ==
  /\ followUp
  /\ followUp' \in BOOLEAN
  /\ \/ /\ row.status \in {"SENT", "VIEWED"} /\ ~row.clientResponded /\ ~IsExpired(row)
        /\ link' = Relinked(recipients)
     \/ UNCHANGED link
  /\ UNCHANGED <<row, content, snapshots, contract, call, signature>>

(* The day of the expiry comes.                                            *)
Tick ==
  /\ row.expiresAt = "future"
  /\ row' = [row EXCEPT !.expiresAt = "past"]
  /\ UNCHANGED <<content, outbox, snapshots, contract, call, signature>>

-----------------------------------------------------------------------------
Next ==
  \/ UpdateTerms \/ Price \/ PutSections \/ ApplyAiSections \/ ValidateAiSection
  \/ ImportDocx \/ SetSelection \/ MarkReady \/ CloseDiscussion \/ Reactivate
  \/ Withdraw \/ Send \/ Revise
  \/ Convert \/ Expire \/ FollowUp \/ Tick
  \/ \E u \in Users : SubmitForReview(u) \/ ApproveReview(u) \/ RejectReview(u)
  \/ \E p \in Recipients : AddRecipient(p) \/ RemoveRecipient(p) \/ Resend(p)
  \/ \E v \in Versions :
       \/ Track(v)
       \/ \E c \in Calls :
            \/ ReadComment(c, v) \/ ReadDecline(c, v) \/ ReadAccept(c, v)
            \/ \E selection \in Configurations : ReadSelect(c, v, selection)
  \/ \E c \in Calls :
       CommitSelect(c) \/ CommitComment(c) \/ CommitDecline(c) \/ CommitAccept(c) \/ Abandon(c)
  \/ \E r \in Requests :
       \/ Prepare(r) \/ CreateSubmission(r) \/ CreateFails(r) \/ Acknowledge(r)
       \/ RecordFailure(r) \/ CrashStart(r)
       \/ EndSubmission(r, "DECLINED") \/ EndSubmission(r, "EXPIRED")
       \/ ProcessDeclined(r) \/ ProcessExpired(r) \/ ProcessCompletedSubmission(r)
       \/ Enqueue(r) \/ EnqueueFails(r) \/ DownloadFails(r)
       \/ \E w \in Runners : StoreProof(r, w) \/ RecordSigned(r, w) \/ CrashCapture(r, w)
       \/ \E p \in Parties : CompleteForm(r, p) \/ ProcessCompletedForm(r, p)

Spec == Init /\ [][Next]_proposalVars

(* The worker comes back: it runs the sweep again and again, and its jobs  *)
(* as long as they have runs left; a process that has committed goes on to *)
(* enqueue, or dies.  Neither the desk nor the client nor the provider has *)
(* to do anything.                                                         *)
Reconcile(r) ==
  /\ req[r].status \in SyncedStatuses
  /\ ProcessDeclined(r) \/ ProcessExpired(r) \/ ProcessCompletedSubmission(r)

Capture(r, w) == StoreProof(r, w) \/ RecordSigned(r, w)

Fairness ==
  /\ WF_proposalVars(Expire) /\ WF_proposalVars(Convert)
  /\ \A r \in Requests :
       /\ WF_proposalVars(Reconcile(r)) /\ WF_proposalVars(Enqueue(r))
       /\ \A w \in Runners : WF_proposalVars(Capture(r, w))

FairSpec == Spec /\ Fairness

-----------------------------------------------------------------------------
(* The statuses, the frozen acceptances and the calls in progress have the *)
(* values the schema and the code allow.                                   *)
TypeOK ==
  /\ row \in Row
  /\ version \in [Versions -> Version]
  /\ recipients \subseteq Recipients
  /\ link \in [Recipients \X Versions -> LinkStates]
  /\ followUp \in BOOLEAN
  /\ snapshots \in Seq(Snapshot) /\ Len(snapshots) <= MaxSnapshots
  /\ contract \in [status : {"none", "DRAFT", "ACTIVE"},
                   snapshotId : Snapshots \union {NoSnapshot}, selection : Configurations]
  /\ call \in [Calls -> [op : {"none", "select", "comment", "decline", "accept"},
                         versionId : Versions \union {NoVersion},
                         selection : Configurations]]
  /\ req \in [Requests ->
       [status : ActiveStatuses \union ClosedStatuses \union {"none"},
        snapshotId : Snapshots \union {NoSnapshot},
        signed : SUBSET Parties, proof : BOOLEAN]]
  /\ starter \in [Requests -> {"idle", "prepared", "created", "failing", "stopped"}]
  /\ sub \in [Requests -> [state : {"none", "PENDING", "COMPLETED", "DECLINED", "EXPIRED"},
                           signed : SUBSET Parties]]
  /\ enqueuing \subseteq Requests
  /\ jobs \in [Requests -> 0..MaxRuns]
  /\ capturing \subseteq Requests \X Runners

Decided == {"ACCEPTED", "PENDING_SIGNATURE", "SIGNED", "CONVERTED"}

(* What is accepted, signed or converted is the version in force: frozen,  *)
(* not replaced, and the configuration frozen with the acceptance was      *)
(* chosen for it.  Between the client's reading and his acceptance the     *)
(* desk may have revised the proposal and sent it again.                   *)
DecisionOnCurrent ==
  row.status \in Decided =>
    /\ row.acceptedVersionId = row.currentVersionId
    /\ Current.locked /\ ~Current.superseded
    /\ snapshots[row.acceptedSnapshotId].versionId = row.currentVersionId

(* The contract bills what was signed: its terms are those frozen by the   *)
(* acceptance whose document every party has signed, whatever              *)
(* configuration the client's page has recorded since.                     *)
ContractAsSigned ==
  row.status = "CONVERTED" =>
    /\ contract.selection = snapshots[contract.snapshotId].selection
    /\ row.acceptanceMode = "DOCUSEAL_SIGNATURE" =>
         \E r \in Requests : /\ req[r].snapshotId = contract.snapshotId
                            /\ req[r].status = "COMPLETED"
                            /\ req[r].signed = Parties

(* A link that still opens the page opens the version in force, frozen as  *)
(* it was sent: a revision leaves no link to the version it replaces.      *)
LinksToCurrent ==
  \A p \in Recipients, v \in Versions : link[<<p, v>>] = "valid" =>
    v = row.currentVersionId /\ Current.locked /\ ~Current.superseded

(* A text of the AI that nobody has read is only in a sent version if the  *)
(* version before had it already: within one version, rewriting sections   *)
(* or putting them aside does not let it through.                          *)
SentAiWasRead ==
  \A v \in Versions :
    version[v].locked /\ version[v].section.drafted /\ ~version[v].section.excluded
      => v > 1 /\ version[v - 1].section.drafted

(* One acceptance is never put to signature twice at the provider, even    *)
(* when a call times out after the submission was created.                 *)
OneSubmissionPerSnapshot ==
  \A q, r \in Requests :
    sub[q].state # "none" /\ sub[r].state # "none" /\ req[q].snapshotId = req[r].snapshotId
      => q = r

(* Once its date is past, a proposal does not stay open.                   *)
ExpiryIsApplied == row.status \in OpenStatuses /\ IsExpired(row) ~> row.status \notin OpenStatuses

(* A capture of r is under way or will still run.                          *)
CaptureToCome(r) ==
  r \in enqueuing \/ jobs[r] > 0 \/ \E w \in Runners : <<r, w>> \in capturing

(* The signed PDF is stored, so no query of the sweep finds the request    *)
(* any more, and no capture is left that would make the proposal SIGNED.   *)
Stranded(r) ==
  /\ req[r].status = "COMPLETED" /\ req[r].proof
  /\ ~CaptureToCome(r)
  /\ row.status = "PENDING_SIGNATURE"

(* A submission that every party has signed becomes a contract, although   *)
(* its webhooks, the enqueuing of its capture and workers are lost.  The   *)
(* exception is a capture that dies between its two transactions when no   *)
(* job is left to run it again: its enqueuing was lost, or its runs are    *)
(* used up, or there is no queue.                                          *)
SignedIsConverted ==
  \A r \in Requests :
    req[r].status \in SyncedStatuses /\ sub[r].state = "COMPLETED"
      ~> row.status = "CONVERTED" \/ Stranded(r)

(* The same without the exception, as the warning of a capture that is not *)
(* enqueued has it: the sweep catches it up.  It fails.                    *)
LostCaptureIsCaughtUp ==
  \A r \in Requests :
    req[r].status \in SyncedStatuses /\ sub[r].state = "COMPLETED" ~> row.status = "CONVERTED"
=============================================================================
