------------------------- MODULE ProposalFlowProofs -------------------------
(***************************************************************************)
(* Proofs about ProposalFlow, for every number of versions, of acceptances,*)
(* of signature requests, of recipients and of calls of the public page,   *)
(* and for every kind of fault.                                            *)
(***************************************************************************)
EXTENDS ProposalFlow, SequenceTheorems, TLAPS

(* The statuses of the matrix, listed.                                     *)
LEMMA ProposalStatusList ==
  ProposalStatuses = {"DRAFT", "IN_INTERNAL_REVIEW", "READY", "SENT", "VIEWED",
                      "IN_DISCUSSION", "ACCEPTED", "PENDING_SIGNATURE", "SIGNED", "EXPIRED",
                      "CONVERTED", "DECLINED", "WITHDRAWN"}
  BY DEF ProposalStatuses, Transitions

(* The statuses from which an event leaves.                                *)
LEMMA EventFrom ==
  ASSUME NEW p, p.status \in ProposalStatuses
  PROVE  /\ Admits(p, "SUBMIT_FOR_REVIEW") \/ Admits(p, "MARK_READY") => p.status = "DRAFT"
         /\ Admits(p, "APPROVE_REVIEW") \/ Admits(p, "REJECT_REVIEW")
              => p.status = "IN_INTERNAL_REVIEW"
         /\ Admits(p, "SEND") => p.status = "READY"
         /\ Admits(p, "EXPIRE") \/ Admits(p, "DECLINE") \/ Admits(p, "WITHDRAW")
              => p.status \in OpenStatuses
         /\ Admits(p, "REVISE") => p.status \in OpenStatuses \union {"READY", "ACCEPTED"}
         /\ Admits(p, "CLOSE_DISCUSSION") => p.status = "IN_DISCUSSION"
         /\ Admits(p, "ACCEPT") => p.status \in {"VIEWED", "IN_DISCUSSION"}
         /\ Admits(p, "START_SIGNATURE") => p.status = "ACCEPTED"
         /\ \/ Admits(p, "SIGNATURE_COMPLETED") \/ Admits(p, "SIGNATURE_DECLINED")
            \/ Admits(p, "SIGNATURE_EXPIRED")
              => p.status = "PENDING_SIGNATURE"
         /\ Admits(p, "CONVERT") => p.status = "SIGNED"
         /\ Admits(p, "REACTIVATE") => p.status = "EXPIRED"
<1>1. /\ Admits(p, "SUBMIT_FOR_REVIEW") \/ Admits(p, "MARK_READY") => p.status = "DRAFT"
      /\ Admits(p, "APPROVE_REVIEW") \/ Admits(p, "REJECT_REVIEW")
           => p.status = "IN_INTERNAL_REVIEW"
      /\ Admits(p, "SEND") => p.status = "READY"
      /\ Admits(p, "REACTIVATE") => p.status = "EXPIRED"
  BY ProposalStatusList DEF Admits, Transitions, OpenEvents
<1>2. /\ Admits(p, "EXPIRE") \/ Admits(p, "DECLINE") \/ Admits(p, "WITHDRAW")
           => p.status \in OpenStatuses
      /\ Admits(p, "REVISE") => p.status \in OpenStatuses \union {"READY", "ACCEPTED"}
  BY ProposalStatusList DEF Admits, Transitions, OpenEvents, OpenStatuses
<1>3. /\ Admits(p, "CLOSE_DISCUSSION") => p.status = "IN_DISCUSSION"
      /\ Admits(p, "ACCEPT") => p.status \in {"VIEWED", "IN_DISCUSSION"}
      /\ Admits(p, "START_SIGNATURE") => p.status = "ACCEPTED"
  BY ProposalStatusList DEF Admits, Transitions, OpenEvents
<1>4. /\ \/ Admits(p, "SIGNATURE_COMPLETED") \/ Admits(p, "SIGNATURE_DECLINED")
         \/ Admits(p, "SIGNATURE_EXPIRED")
           => p.status = "PENDING_SIGNATURE"
      /\ Admits(p, "CONVERT") => p.status = "SIGNED"
  BY ProposalStatusList DEF Admits, Transitions, OpenEvents
<1> QED
  BY <1>1, <1>2, <1>3, <1>4
-----------------------------------------------------------------------------
(* The kinds of steps.  Most handlers fall under a few of them, and the    *)
(* invariants only need to know which.                                     *)

calls == [Calls -> [op : {"none", "select", "comment", "decline", "accept"},
                    versionId : Versions \union {NoVersion}, selection : Configurations]]

(* What nobody but the desk and the client touches.                        *)
frozen == <<snapshots, contract, signature>>

(* The row keeps the version in force, the acceptance and the mode.        *)
SameTerms ==
  /\ row' \in Row
  /\ row'.currentVersionId = row.currentVersionId
  /\ row'.acceptedVersionId = row.acceptedVersionId
  /\ row'.acceptedSnapshotId = row.acceptedSnapshotId

(* The proposal moves, or stays, before its decision.                      *)
Moved ==
  /\ SameTerms /\ row'.acceptanceMode = row.acceptanceMode
  /\ row'.status = row.status \/ (row.status \notin Decided /\ row'.status \notin Decided)
  /\ row'.status \in OpenStatuses => row.status \in OpenStatuses
  /\ followUp' \in BOOLEAN /\ call' \in calls
  /\ UNCHANGED <<content, link, frozen>>

(* The version in force of a draft is rewritten: a text of the AI that was *)
(* not read does not lose its mark.                                        *)
Redrafted ==
  /\ SameTerms /\ row'.status = row.status
  /\ row.status = "DRAFT" /\ ~Current.locked
  /\ \E w \in Version :
       /\ version' = [version EXCEPT ![row.currentVersionId] = w]
       /\ ~w.locked /\ w.superseded = Current.superseded
       /\ w.section.drafted /\ ~w.section.pending
            => Current.section.drafted /\ ~Current.section.pending
  /\ UNCHANGED <<recipients, outbox, frozen, call>>

(* A configuration is recorded.                                            *)
Selected ==
  /\ version' \in [Versions -> Version]
  /\ \A v \in Versions : /\ version'[v].locked = version[v].locked
                         /\ version'[v].superseded = version[v].superseded
                         /\ version'[v].section = version[v].section
  /\ call' \in calls
  /\ UNCHANGED <<row, recipients, outbox, frozen>>

LEMMA MovedByDesk ==
  ASSUME TypeOK,
         \/ MarkReady \/ CloseDiscussion \/ Reactivate \/ Withdraw \/ Expire \/ Tick
         \/ \E u \in Users : SubmitForReview(u) \/ ApproveReview(u) \/ RejectReview(u)
         \/ \E v \in Versions : Track(v)
  PROVE  Moved
<1>0. row \in Row /\ followUp \in BOOLEAN /\ call \in calls /\ row.status \in ProposalStatuses
  BY DEF TypeOK, calls, Row
<1> USE <1>0, ProposalStatusList DEF Moved, SameTerms, Row, To, Decided, OpenStatuses, frozen,
                                      signature, content, outbox
<1>1. CASE MarkReady
  BY <1>1, EventFrom DEF MarkReady, Decide, CanMarkReady, MarkedReady
<1>2. CASE CloseDiscussion
  BY <1>2, EventFrom DEF CloseDiscussion, Decide, DiscussionClosed
<1>3. CASE Reactivate
  BY <1>3, EventFrom DEF Reactivate, Decide, Reactivated
<1>4. CASE Withdraw
  BY <1>4, EventFrom DEF Withdraw, Withdrawn, CancelFollowUps
<1>5. CASE Expire
  BY <1>5 DEF Expire, ExpirableStatuses, Expired, CancelFollowUps
<1>6. CASE Tick
  BY <1>6 DEF Tick
<1>7. ASSUME NEW u \in Users, SubmitForReview(u) PROVE Moved
  BY <1>7, EventFrom DEF SubmitForReview, Decide, CanSubmit, Submitted, NoVersion
<1>8. ASSUME NEW u \in Users, ApproveReview(u) PROVE Moved
  BY <1>8, EventFrom DEF ApproveReview, Decide, CanApprove, Approved
<1>9. ASSUME NEW u \in Users, RejectReview(u) PROVE Moved
  BY <1>9, EventFrom DEF RejectReview, Decide, CanReject, Rejected, NoVersion
<1>10. ASSUME NEW v \in Versions, Track(v) PROVE Moved
  BY <1>10 DEF Track, Decide, Viewed
<1> QED
  BY <1>1, <1>2, <1>3, <1>4, <1>5, <1>6, <1>7, <1>8, <1>9, <1>10

LEMMA MovedByClient ==
  ASSUME TypeOK,
         \E c \in Calls :
           \/ CommitComment(c) \/ CommitDecline(c) \/ Abandon(c)
           \/ \E v \in Versions :
                \/ ReadComment(c, v) \/ ReadDecline(c, v) \/ ReadAccept(c, v)
                \/ \E selection \in Configurations : ReadSelect(c, v, selection)
  PROVE  Moved
<1>0. /\ row \in Row /\ followUp \in BOOLEAN /\ call \in calls /\ row.status \in ProposalStatuses
      /\ version \in [Versions -> Version]
  BY DEF TypeOK, calls, Row
<1>1. PICK c \in Calls :
           \/ CommitComment(c) \/ CommitDecline(c) \/ Abandon(c)
           \/ \E v \in Versions :
                \/ ReadComment(c, v) \/ ReadDecline(c, v) \/ ReadAccept(c, v)
                \/ \E selection \in Configurations : ReadSelect(c, v, selection)
  OBVIOUS
<1>2. Done(c) => call' \in calls
  BY <1>0 DEF Done, calls, IdleCall, Configurations, NoVersion
<1>3. CASE CommitComment(c)
  BY <1>0, <1>2, <1>3, ProposalStatusList, ZenonT(60)
     DEF CommitComment, Discussed, Moved, SameTerms, Row, To, Decided, OpenStatuses, frozen,
         outbox
<1>4. CASE CommitDecline(c)
  BY <1>0, <1>2, <1>4, ProposalStatusList, EventFrom
     DEF CommitDecline, Declined, CancelFollowUps, Moved, SameTerms, Row, To, Decided,
         OpenStatuses, frozen
<1>5. CASE Abandon(c)
  BY <1>0, <1>2, <1>5 DEF Abandon, Moved, SameTerms, frozen, outbox
<1>6. ASSUME NEW v \in Versions,
             NEW op \in {"select", "comment", "decline", "accept"},
             NEW selection \in Configurations, Read(c, op, v, selection)
      PROVE  Moved
  BY <1>0, <1>6 DEF Read, Moved, SameTerms, frozen, outbox, calls
<1>7. ASSUME NEW v \in Versions, ReadAccept(c, v) PROVE Moved
  BY <1>0, <1>6, <1>7 DEF ReadAccept, Version
<1>8. ASSUME NEW v \in Versions, NEW selection \in Configurations, ReadSelect(c, v, selection)
      PROVE  Moved
  BY <1>6, <1>8 DEF ReadSelect
<1>9. ASSUME NEW v \in Versions, ReadComment(c, v) \/ ReadDecline(c, v) PROVE Moved
  BY <1>6, <1>9 DEF ReadComment, ReadDecline, Configurations
<1> QED
  BY <1>1, <1>3, <1>4, <1>5, <1>7, <1>8, <1>9

LEMMA RedraftedByDesk ==
  ASSUME TypeOK,
         \/ UpdateTerms \/ Price \/ PutSections \/ ApplyAiSections \/ ValidateAiSection
         \/ ImportDocx
  PROVE  Redrafted
<1>0. /\ row \in Row /\ version \in [Versions -> Version] /\ row.currentVersionId \in Versions
      /\ Current \in Version
  BY DEF TypeOK, Row, Current
<1>1. CASE UpdateTerms
  <2>1. PICK mode \in Modes, complete \in BOOLEAN :
          /\ row' = [row EXCEPT !.acceptanceMode = mode]
          /\ version' = [version EXCEPT ![row.currentVersionId].complete = complete]
    BY <1>1 DEF UpdateTerms
  <2>2. version' = [version EXCEPT ![row.currentVersionId] =
                      [Current EXCEPT !.complete = complete]]
    BY <1>0, <2>1 DEF Current
  <2>3. [Current EXCEPT !.complete = complete] \in Version
    BY <1>0 DEF Version
  <2> QED
    BY <1>0, <1>1, <2>1, <2>2, <2>3
       DEF UpdateTerms, Editable, Redrafted, SameTerms, Row, Version, frozen
<1>2. ASSUME NEW w \in Version, Draft(w), w.locked = Current.locked,
             w.superseded = Current.superseded,
             w.section.drafted /\ ~w.section.pending
               => Current.section.drafted /\ ~Current.section.pending
      PROVE  Redrafted
  BY <1>0, <1>2 DEF Draft, Editable, Redrafted, SameTerms, frozen
<1>3. CASE Price
  <2>1. PICK complete \in BOOLEAN, selection \in {Current.selection, "small"} :
          Draft([Current EXCEPT !.complete = complete, !.selection = selection])
    BY <1>3 DEF Price
  <2> QED
    BY <1>0, <1>2, <2>1 DEF Version, Configurations
<1>4. CASE PutSections
  <2>0. PICK complete \in BOOLEAN, excluded \in BOOLEAN :
          \E s \in {Rewritten(Current.section, excluded), Written} :
            Draft([Current EXCEPT !.section = s, !.complete = complete])
    BY <1>4 DEF PutSections
  <2>1. PICK s \in {Rewritten(Current.section, excluded), Written} :
          Draft([Current EXCEPT !.section = s, !.complete = complete])
    BY <2>0
  <2>2. s \in Section /\ (s.drafted /\ ~s.pending
                            => Current.section.drafted /\ ~Current.section.pending)
    <3>1. CASE s = Written
      BY <3>1 DEF Written, Section
    <3>2. CASE s = [Current.section EXCEPT !.excluded = excluded]
      <4>1. Current.section \in Section
        BY <1>0 DEF Version
      <4> QED
        BY <3>2, <4>1 DEF Section
    <3> QED
      BY <3>1, <3>2 DEF Rewritten
  <2> DEFINE w == [Current EXCEPT !.section = s, !.complete = complete]
  <2>3. /\ w \in Version /\ w.section = s
        /\ w.locked = Current.locked /\ w.superseded = Current.superseded
    BY <1>0, <2>2 DEF Version
  <2> QED
    BY <1>2, <2>1, <2>2, <2>3
<1>5. CASE ApplyAiSections
  <2>1. [drafted |-> TRUE, pending |-> TRUE, excluded |-> FALSE] \in Section
    BY DEF Section
  <2> QED
    BY <1>0, <1>2, <1>5, <2>1 DEF ApplyAiSections, Version
<1>6. CASE ValidateAiSection
  <2> DEFINE w == [Current EXCEPT !.section.pending = FALSE, !.section.drafted = FALSE]
  <2>1. Draft(w)
    BY <1>6 DEF ValidateAiSection
  <2>2. w \in Version /\ ~w.section.drafted /\ w.locked = Current.locked
        /\ w.superseded = Current.superseded
    BY <1>0 DEF Version, Section
  <2> QED
    BY <1>2, <2>1, <2>2
<1>7. CASE ImportDocx
  <2>1. PICK pending \in {Current.section.pending, FALSE}, complete \in BOOLEAN :
          Draft([Current EXCEPT !.section = [Written EXCEPT !.pending = pending],
                                !.complete = complete])
    BY <1>7 DEF ImportDocx
  <2>2. /\ [Written EXCEPT !.pending = pending] \in Section
        /\ ~[Written EXCEPT !.pending = pending].drafted
    BY <1>0 DEF Written, Section, Version
  <2> QED
    BY <1>0, <1>2, <2>1, <2>2 DEF Version
<1> QED
  BY <1>1, <1>3, <1>4, <1>5, <1>6, <1>7

LEMMA SelectedByAnyone ==
  ASSUME TypeOK, SetSelection \/ \E c \in Calls : CommitSelect(c)
  PROVE  Selected
<1>0. /\ version \in [Versions -> Version] /\ call \in calls
  BY DEF TypeOK, calls
<1>1. ASSUME NEW v, NEW s \in Configurations,
             version' = [version EXCEPT ![v].selection = s]
      PROVE  /\ version' \in [Versions -> Version]
             /\ \A u \in Versions : /\ version'[u].locked = version[u].locked
                                    /\ version'[u].superseded = version[u].superseded
                                    /\ version'[u].section = version[u].section
  BY <1>0, <1>1 DEF Version
<1>2. CASE SetSelection
  BY <1>0, <1>1, <1>2 DEF SetSelection, Selected, frozen
<1>3. ASSUME NEW c \in Calls, CommitSelect(c) PROVE Selected
  <2>1. call[c].selection \in Configurations
    BY <1>0 DEF calls
  <2>2. call' \in calls
    BY <1>0, <1>3 DEF CommitSelect, Done, calls, IdleCall, Configurations, NoVersion
  <2> QED
    BY <1>0, <1>1, <1>3, <2>1, <2>2 DEF CommitSelect, Selected, frozen
<1> QED
  BY <1>2, <1>3

(* A step of the signature, which may carry the proposal to its signature  *)
(* or drop the acceptance.                                                 *)
Request == [status : ActiveStatuses \union ClosedStatuses \union {"none"},
            snapshotId : Snapshots \union {NoSnapshot},
            signed : SUBSET Parties, proof : BOOLEAN]
requests == [Requests -> Request]
submissions == [Requests -> [state : {"none", "PENDING", "COMPLETED", "DECLINED", "EXPIRED"},
                             signed : SUBSET Parties]]

CapturesOK ==
  /\ enqueuing \subseteq Requests
  /\ jobs \in [Requests -> 0..MaxRuns]
  /\ capturing \subseteq Requests \X Runners

SignatureTypes ==
  /\ req' \in requests /\ sub' \in submissions
  /\ starter' \in [Requests -> {"idle", "prepared", "created", "failing", "stopped"}]
  /\ CapturesOK'

Carried ==
  /\ row' \in Row
  /\ row'.currentVersionId = row.currentVersionId
  /\ row'.acceptedSnapshotId = row.acceptedSnapshotId
  /\ row'.acceptanceMode = row.acceptanceMode
  /\ \/ UNCHANGED row
     \/ /\ row.status \in Decided /\ row'.status \in Decided \ {"CONVERTED"}
        /\ row'.acceptedVersionId = row.acceptedVersionId
     \/ row.status = "PENDING_SIGNATURE" /\ row'.status = "IN_DISCUSSION"

SignatureMoved ==
  /\ Carried /\ SignatureTypes
  /\ UNCHANGED <<content, outbox, snapshots, contract, call>>

LEMMA SignatureMovedByStart ==
  ASSUME TypeOK, NEW r \in Requests,
         \/ CreateSubmission(r) \/ CreateFails(r) \/ Acknowledge(r) \/ RecordFailure(r)
         \/ CrashStart(r)
  PROVE  SignatureMoved
<1>0. /\ row \in Row /\ req \in requests /\ sub \in submissions
      /\ starter \in [Requests -> {"idle", "prepared", "created", "failing", "stopped"}]
      /\ CapturesOK
  BY DEF TypeOK, requests, Request, submissions, CapturesOK
<1>1. /\ starter' \in [Requests -> {"idle", "prepared", "created", "failing", "stopped"}]
      /\ UNCHANGED <<content, outbox, snapshots, contract, call, captures>>
  BY <1>0 DEF CreateSubmission, CreateFails, Acknowledge, RecordFailure, CrashStart, Starts
<1>5. CapturesOK'
  BY <1>0, <1>1 DEF CapturesOK, captures
<1>2. sub' \in submissions
  BY <1>0 DEF CreateSubmission, CreateFails, Acknowledge, RecordFailure, CrashStart,
              submissions
<1>3. req' \in requests
  BY <1>0 DEF CreateSubmission, CreateFails, Acknowledge, RecordFailure, CrashStart, requests,
              Request, ActiveStatuses, ClosedStatuses
<1>4. Carried
  <2>1. CASE UNCHANGED row
    BY <1>0, <2>1 DEF Carried
  <2>2. CASE row' = SignatureStarted(row) /\ CanStartSignature(row)
    BY <1>0, <2>2, EventFrom, ProposalStatusList
       DEF Carried, SignatureStarted, CanStartSignature, To, Row, Decided
  <2> QED
    BY <2>1, <2>2 DEF CreateSubmission, CreateFails, Acknowledge, RecordFailure, CrashStart
<1> QED
  BY <1>0, <1>1, <1>2, <1>3, <1>4, <1>5 DEF SignatureMoved, SignatureTypes

LEMMA SignatureMovedByProvider ==
  ASSUME TypeOK, NEW r \in Requests,
         \/ EndSubmission(r, "DECLINED") \/ EndSubmission(r, "EXPIRED")
         \/ \E p \in Parties : CompleteForm(r, p) \/ ProcessCompletedForm(r, p)
         \/ ProcessCompletedSubmission(r)
  PROVE  SignatureMoved
<1>0. /\ row \in Row /\ req \in requests /\ sub \in submissions
      /\ starter \in [Requests -> {"idle", "prepared", "created", "failing", "stopped"}]
      /\ CapturesOK
  BY DEF TypeOK, requests, Request, submissions, CapturesOK
<1>1. CASE EndSubmission(r, "DECLINED") \/ EndSubmission(r, "EXPIRED")
  <2>1. sub' \in submissions
    BY <1>0, <1>1 DEF EndSubmission, submissions
  <2> QED
    BY <1>0, <1>1, <2>1 DEF EndSubmission, SignatureMoved, SignatureTypes, Carried,
             CapturesOK, captures
<1>2. ASSUME NEW p \in Parties, CompleteForm(r, p) PROVE SignatureMoved
  <2>1. sub' \in submissions
    BY <1>0, <1>2 DEF CompleteForm, submissions
  <2> QED
    BY <1>0, <1>2, <2>1 DEF CompleteForm, SignatureMoved, SignatureTypes, Carried,
             CapturesOK, captures
<1>3. ASSUME NEW signed \in SUBSET Parties, Sign(r, signed) PROVE SignatureMoved
  <2> DEFINE status == IF signed = Parties THEN "COMPLETED" ELSE "PARTIALLY_COMPLETED"
  <2>0. status \in ActiveStatuses \union ClosedStatuses
    BY DEF ActiveStatuses, ClosedStatuses
  <2> HIDE DEF status
  <2>3. [req[r] EXCEPT !.signed = signed, !.status = status] \in Request
    BY <1>0, <2>0 DEF requests, Request
  <2>4. req' = [req EXCEPT ![r] = [req[r] EXCEPT !.signed = signed, !.status = status]]
    BY <1>0, <1>3 DEF Sign, requests, status
  <2>1. req' \in requests
    BY <1>0, <2>3, <2>4 DEF requests
  <2>2. CapturesOK'
    BY <1>0, <1>3 DEF Sign, CapturesOK
  <2> QED
    BY <1>0, <1>3, <2>1, <2>2 DEF Sign, SignatureMoved, SignatureTypes, Carried
<1>4. ASSUME NEW p \in Parties, ProcessCompletedForm(r, p) PROVE SignatureMoved
  <2>1. req[r].signed \union {p} \in SUBSET Parties
    BY <1>0 DEF requests, Request
  <2> QED
    BY <1>3, <1>4, <2>1 DEF ProcessCompletedForm
<1>5. CASE ProcessCompletedSubmission(r)
  BY <1>3, <1>5 DEF ProcessCompletedSubmission
<1> QED
  BY <1>1, <1>2, <1>4, <1>5

LEMMA SignatureMovedByWorker ==
  ASSUME TypeOK, NEW r \in Requests,
         \/ Prepare(r) \/ ProcessDeclined(r) \/ ProcessExpired(r)
         \/ Enqueue(r) \/ EnqueueFails(r) \/ DownloadFails(r)
         \/ \E w \in Runners : StoreProof(r, w) \/ RecordSigned(r, w) \/ CrashCapture(r, w)
  PROVE  SignatureMoved
<1>0. /\ row \in Row /\ req \in requests /\ sub \in submissions
      /\ starter \in [Requests -> {"idle", "prepared", "created", "failing", "stopped"}]
      /\ CapturesOK
      /\ row.status \in ProposalStatuses
  BY DEF TypeOK, requests, Request, submissions, Row, CapturesOK
<1>1. CASE Prepare(r)
  <2>0. NoRequest \in Request
    BY DEF NoRequest, Request
  <2>1. [NoRequest EXCEPT !.status = "CREATING", !.snapshotId = row.acceptedSnapshotId]
          \in Request
    BY <1>0, <2>0 DEF Request, ActiveStatuses, Row
  <2>2. req' \in requests
    BY <1>0, <1>1, <2>1 DEF Prepare, requests
  <2> QED
    BY <1>0, <1>1, <2>2
       DEF Prepare, Starts, SignatureMoved, SignatureTypes, Carried,
             CapturesOK, captures
<1>2. CASE ProcessDeclined(r) \/ ProcessExpired(r)
  <2>0. Admits(row, "SIGNATURE_DECLINED") \/ Admits(row, "SIGNATURE_EXPIRED")
          => row.status = "PENDING_SIGNATURE"
    BY <1>0, ProposalStatusList DEF Admits, Transitions, OpenEvents
  <2>1. row' = row \/ (row.status = "PENDING_SIGNATURE" /\ row' = SignatureEnded(row))
    BY <1>2, <2>0 DEF ProcessDeclined, ProcessExpired, Process, Follow
  <2>2. Carried
    BY <1>0, <2>1, ProposalStatusList DEF Carried, SignatureEnded, To, Row, NoVersion
  <2>3. req' \in requests
    BY <1>0, <1>2 DEF ProcessDeclined, ProcessExpired, Process, requests, Request,
                      ClosedStatuses
  <2> QED
    BY <1>0, <1>2, <2>2, <2>3
       DEF ProcessDeclined, ProcessExpired, Process, SignatureMoved, SignatureTypes, CapturesOK,
           captures
<1>3. CASE Enqueue(r) \/ EnqueueFails(r) \/ DownloadFails(r)
  <2>1. CapturesOK'
    BY <1>0, <1>3, ProposalAssumption
       DEF Enqueue, EnqueueFails, DownloadFails, HasRun, TakeRun, CapturesOK
  <2> QED
    BY <1>0, <1>3, <2>1
       DEF Enqueue, EnqueueFails, DownloadFails, SignatureMoved, SignatureTypes, Carried
<1>4. ASSUME NEW w \in Runners, StoreProof(r, w) PROVE SignatureMoved
  <2>1. req' \in requests
    BY <1>0, <1>4 DEF StoreProof, requests, Request
  <2>2. CapturesOK'
    BY <1>0, <1>4, ProposalAssumption DEF StoreProof, HasRun, TakeRun, CapturesOK
  <2> QED
    BY <1>0, <1>4, <2>1, <2>2 DEF StoreProof, SignatureMoved, SignatureTypes, Carried
<1>5. ASSUME NEW w \in Runners, RecordSigned(r, w) PROVE SignatureMoved
  <2>0. Admits(row, "SIGNATURE_COMPLETED") => row.status = "PENDING_SIGNATURE"
    BY <1>0, ProposalStatusList DEF Admits, Transitions, OpenEvents
  <2>1. row' = row \/ (row.status = "PENDING_SIGNATURE" /\ row' = SignatureCompleted(row))
    BY <1>5, <2>0 DEF RecordSigned, Follow
  <2>2. Carried
    BY <1>0, <2>1, ProposalStatusList DEF Carried, SignatureCompleted, To, Row, Decided
  <2>3. CapturesOK'
    BY <1>0, <1>5, ProposalAssumption DEF RecordSigned, CapturesOK
  <2> QED
    BY <1>0, <1>5, <2>2, <2>3 DEF RecordSigned, SignatureMoved, SignatureTypes
<1>6. ASSUME NEW w \in Runners, CrashCapture(r, w) PROVE SignatureMoved
  BY <1>0, <1>6 DEF CrashCapture, SignatureMoved, SignatureTypes, Carried, CapturesOK
<1> QED
  BY <1>1, <1>2, <1>3, <1>4, <1>5, <1>6
-----------------------------------------------------------------------------
(* The inductive invariant of the versions, the links and the decision.    *)
(* A version is frozen when it is sent and only then; what is open or      *)
(* decided was sent; a text of the AI lost its mark without being read     *)
(* only by a revision, from a version that had it.                         *)
SentOnly ==
  \A v \in Versions :
    /\ version[v].locked => v <= row.currentVersionId
    /\ version[v].superseded => v < row.currentVersionId

MarkOfAi ==
  \A v \in Versions :
    /\ version[v].locked => ~version[v].section.pending \/ version[v].section.excluded
    /\ v <= row.currentVersionId /\ version[v].section.drafted /\ ~version[v].section.pending
         => v > 1 /\ version[v - 1].section.drafted

OpenIsLocked == row.status \in OpenStatuses => Current.locked

AcceptanceFrozen == row.status \in Decided => row.acceptedSnapshotId \in 1..Len(snapshots)

ProposalInv ==
  /\ TypeOK /\ SentOnly /\ MarkOfAi /\ OpenIsLocked /\ AcceptanceFrozen
  /\ DecisionOnCurrent /\ LinksToCurrent

LEMMA ProposalInit == Init => ProposalInv
<1> SUFFICES ASSUME Init PROVE ProposalInv
  OBVIOUS
<1> USE ProposalAssumption DEF Init
<1>1. 1 \in Versions
  BY DEF Versions
<1>2. row \in Row /\ row.status = "DRAFT" /\ row.currentVersionId = 1
  BY <1>1, ProposalStatusList DEF Row, Modes, NoVersion, Snapshots, NoSnapshot, Nobody
<1>3. /\ version \in [Versions -> Version]
      /\ \A v \in Versions : /\ ~version[v].locked /\ ~version[v].superseded
                             /\ version[v].section = Written
  <2>1. PICK complete \in BOOLEAN :
          version = [v \in Versions |-> NewVersion(Written, complete, "small")]
    OBVIOUS
  <2>2. /\ Written \in Section
        /\ NewVersion(Written, complete, "small") \in Version
        /\ NewVersion(Written, complete, "small").section = Written
        /\ ~NewVersion(Written, complete, "small").locked
        /\ ~NewVersion(Written, complete, "small").superseded
    BY DEF NewVersion, Version, Written, Section, Configurations
  <2> QED
    BY <2>1, <2>2
<1>4. link \in [Recipients \X Versions -> LinkStates] /\ call \in calls
  BY DEF LinkStates, calls, IdleCall, Configurations, NoVersion
<1>5. /\ snapshots \in Seq(Snapshot) /\ Len(snapshots) = 0
      /\ contract \in [status : {"none", "DRAFT", "ACTIVE"},
                        snapshotId : Snapshots \union {NoSnapshot}, selection : Configurations]
  BY DEF NoContract, NoSnapshot, Configurations
<1>6. req \in requests /\ sub \in submissions
  BY DEF requests, submissions, NoRequest, Request
<1>7. TypeOK
  <2>1. /\ recipients \subseteq Recipients /\ followUp \in BOOLEAN
        /\ starter \in [Requests -> {"idle", "prepared", "created", "failing", "stopped"}]
    OBVIOUS
  <2>2. Len(snapshots) <= MaxSnapshots
    BY <1>5
  <2>3. CapturesOK
    <3>1. 0 \in 0..MaxRuns
      BY ProposalAssumption
    <3> QED
      BY <3>1 DEF CapturesOK
  <2> QED
    BY <2>1, <2>2, <2>3, <1>2, <1>3, <1>4, <1>5, <1>6
       DEF TypeOK, CapturesOK, calls, requests, Request, submissions
<1>8. SentOnly /\ MarkOfAi
  BY <1>3 DEF SentOnly, MarkOfAi, Written
<1>9. OpenIsLocked /\ AcceptanceFrozen /\ DecisionOnCurrent
  BY <1>2 DEF OpenIsLocked, AcceptanceFrozen, DecisionOnCurrent, OpenStatuses, Decided
<1>10. LinksToCurrent
  BY DEF LinksToCurrent
<1> QED
  BY <1>7, <1>8, <1>9, <1>10 DEF ProposalInv

LEMMA MovedKeeps ==
  ASSUME ProposalInv, Moved
  PROVE  ProposalInv'
<1>1. TypeOK'
  BY DEF ProposalInv, TypeOK, Moved, SameTerms, frozen, signature, captures, content, calls
<1>2. SentOnly' /\ MarkOfAi' /\ OpenIsLocked'
  BY DEF ProposalInv, SentOnly, MarkOfAi, OpenIsLocked, Moved, SameTerms, content, Current
<1>3. AcceptanceFrozen' /\ DecisionOnCurrent'
  BY DEF ProposalInv, AcceptanceFrozen, DecisionOnCurrent, Moved, SameTerms, content, frozen,
         Current
<1>4. LinksToCurrent'
  BY DEF ProposalInv, LinksToCurrent, Moved, SameTerms, content, Current
<1> QED
  BY <1>1, <1>2, <1>3, <1>4 DEF ProposalInv

LEMMA RedraftedKeeps ==
  ASSUME ProposalInv, Redrafted
  PROVE  ProposalInv'
<1> DEFINE cur == row.currentVersionId
<1>0. /\ TypeOK /\ version \in [Versions -> Version] /\ cur \in Versions
      /\ row.status = "DRAFT" /\ row'.status = "DRAFT" /\ row'.currentVersionId = cur
      /\ UNCHANGED <<recipients, outbox, frozen, call>>
  BY DEF ProposalInv, TypeOK, Row, Redrafted, SameTerms
<1>1. PICK w \in Version :
        /\ version' = [version EXCEPT ![cur] = w]
        /\ ~w.locked /\ w.superseded = version[cur].superseded
        /\ w.section.drafted /\ ~w.section.pending
             => version[cur].section.drafted /\ ~version[cur].section.pending
  BY DEF Redrafted, Current
<1>2. /\ version' \in [Versions -> Version] /\ version'[cur] = w
      /\ \A v \in Versions : v # cur => version'[v] = version[v]
  BY <1>0, <1>1
<1>3. ~version[cur].locked
  BY DEF Redrafted, Current
<1>4. TypeOK'
  BY <1>0, <1>2 DEF TypeOK, Redrafted, SameTerms, frozen, signature, captures, outbox, calls
<1>5. SentOnly'
  BY <1>0, <1>1, <1>2 DEF ProposalInv, SentOnly
<1>6. MarkOfAi'
  <2> SUFFICES ASSUME NEW v \in Versions
               PROVE  /\ version'[v].locked
                           => ~version'[v].section.pending \/ version'[v].section.excluded
                      /\ v <= cur /\ version'[v].section.drafted /\ ~version'[v].section.pending
                           => v > 1 /\ version'[v - 1].section.drafted
    BY <1>0 DEF MarkOfAi
  <2>1. v \in Nat /\ cur \in Nat /\ (v > 1 => v - 1 \in Versions)
    BY <1>0, ProposalAssumption DEF Versions
  <2>2. v <= cur /\ v > 1 => version'[v - 1] = version[v - 1]
    BY <1>2, <2>1
  <2> QED
    BY <1>0, <1>1, <1>2, <2>1, <2>2 DEF ProposalInv, MarkOfAi
<1>7. OpenIsLocked' /\ AcceptanceFrozen' /\ DecisionOnCurrent'
  BY <1>0 DEF OpenIsLocked, AcceptanceFrozen, DecisionOnCurrent, OpenStatuses, Decided
<1>8. LinksToCurrent'
  BY <1>0, <1>3 DEF ProposalInv, LinksToCurrent, Current, outbox
<1> QED
  BY <1>4, <1>5, <1>6, <1>7, <1>8 DEF ProposalInv

LEMMA SelectedKeeps ==
  ASSUME ProposalInv, Selected
  PROVE  ProposalInv'
<1>0. /\ TypeOK /\ row.currentVersionId \in Versions
      /\ \A v \in Versions : v > 1 => v - 1 \in Versions
  BY ProposalAssumption DEF ProposalInv, TypeOK, Row, Versions
<1>1. TypeOK'
  BY <1>0 DEF TypeOK, Selected, frozen, signature, captures, outbox, calls
<1>2. SentOnly' /\ MarkOfAi' /\ OpenIsLocked'
  BY <1>0 DEF ProposalInv, SentOnly, MarkOfAi, OpenIsLocked, Selected, Current
<1>3. AcceptanceFrozen' /\ DecisionOnCurrent'
  BY <1>0 DEF ProposalInv, AcceptanceFrozen, DecisionOnCurrent, Selected, frozen, Current
<1>4. LinksToCurrent'
  BY <1>0 DEF ProposalInv, LinksToCurrent, Selected, outbox, Current
<1> QED
  BY <1>1, <1>2, <1>3, <1>4 DEF ProposalInv

LEMMA SignatureMovedKeeps ==
  ASSUME ProposalInv, SignatureMoved
  PROVE  ProposalInv'
<1>0. TypeOK /\ row \in Row /\ row' \in Row /\ version' = version /\ link' = link
  BY DEF ProposalInv, TypeOK, SignatureMoved, Carried, content, outbox
<1>1. TypeOK'
  BY <1>0 DEF TypeOK, CapturesOK, SignatureMoved, SignatureTypes, content, outbox, requests,
              Request, submissions
<1>2. SentOnly' /\ MarkOfAi'
  BY <1>0 DEF ProposalInv, SentOnly, MarkOfAi, SignatureMoved, Carried
<1>3. Current' = Current
  BY <1>0 DEF Current, SignatureMoved, Carried
<1>4. OpenIsLocked' /\ AcceptanceFrozen' /\ DecisionOnCurrent'
  <2>1. CASE UNCHANGED row
    BY <1>3, <2>1 DEF ProposalInv, OpenIsLocked, AcceptanceFrozen, DecisionOnCurrent,
                      SignatureMoved
  <2>2. CASE /\ row.status \in Decided /\ row'.status \in Decided
             /\ row'.acceptedVersionId = row.acceptedVersionId
    BY <1>3, <2>2 DEF ProposalInv, OpenIsLocked, AcceptanceFrozen, DecisionOnCurrent,
                      SignatureMoved, Carried, Decided, OpenStatuses
  <2>3. CASE row.status = "PENDING_SIGNATURE" /\ row'.status = "IN_DISCUSSION"
    BY <1>3, <2>3 DEF ProposalInv, OpenIsLocked, AcceptanceFrozen, DecisionOnCurrent, Decided
  <2> QED
    BY <2>1, <2>2, <2>3 DEF SignatureMoved, Carried
<1>5. LinksToCurrent'
  BY <1>0, <1>3 DEF ProposalInv, LinksToCurrent, SignatureMoved, Carried
<1> QED
  BY <1>1, <1>2, <1>4, <1>5 DEF ProposalInv

(* New links open the version in force; those that are kept did already.   *)
LEMMA RelinkedLinks ==
  ASSUME TypeOK, NEW ps, NEW p \in Recipients, NEW v \in Versions
  PROVE  /\ Relinked(ps) \in [Recipients \X Versions -> LinkStates]
         /\ Relinked(ps)[<<p, v>>] = "valid"
              => v = row.currentVersionId \/ link[<<p, v>>] = "valid"
<1>1. /\ link \in [Recipients \X Versions -> LinkStates]
      /\ DOMAIN link = Recipients \X Versions
      /\ <<p, v>> \in Recipients \X Versions
  BY DEF TypeOK
<1>2. Revoke(link) \in [Recipients \X Versions -> LinkStates]
  BY <1>1 DEF Revoke, LinkStates
<1>3. Relinked(ps) \in [Recipients \X Versions -> LinkStates]
  BY <1>1, <1>2 DEF Relinked, LinkStates
<1>4. Revoke(link)[<<p, v>>] # "valid"
  BY <1>1 DEF Revoke
<1>5. Relinked(ps)[<<p, v>>] = "valid" => v = row.currentVersionId \/ link[<<p, v>>] = "valid"
  BY <1>1, <1>4 DEF Relinked
<1> QED
  BY <1>3, <1>5

LEMMA RelinkingKeeps ==
  ASSUME ProposalInv,
         \/ FollowUp
         \/ \E p \in Recipients : AddRecipient(p) \/ RemoveRecipient(p) \/ Resend(p)
  PROVE  ProposalInv'
<1>0. TypeOK /\ OpenIsLocked /\ row.currentVersionId \in Versions
  BY DEF ProposalInv, TypeOK, Row
<1> DEFINE
      Kept == /\ UNCHANGED <<row, version, snapshots, contract, call, signature>>
              /\ recipients' \subseteq Recipients /\ followUp' \in BOOLEAN
              /\ \/ link' = link
                 \/ row.status \in OpenStatuses /\ \E ps : link' = Relinked(ps)
      Linked == /\ link' \in [Recipients \X Versions -> LinkStates]
                /\ \A p \in Recipients, v \in Versions : link'[<<p, v>>] = "valid"
                     => \/ link[<<p, v>>] = "valid"
                        \/ row.status \in OpenStatuses /\ v = row.currentVersionId
<1>1. Kept
  <2>1. CASE FollowUp
    BY <1>0, <2>1 DEF FollowUp, content, TypeOK, OpenStatuses
  <2>2. ASSUME NEW p \in Recipients, AddRecipient(p) \/ RemoveRecipient(p) PROVE Kept
    BY <1>0, <2>2 DEF AddRecipient, RemoveRecipient, outbox, TypeOK
  <2>3. ASSUME NEW p \in Recipients, Resend(p) PROVE Kept
    BY <1>0, <2>3 DEF Resend, content, TypeOK
  <2> QED
    BY <2>1, <2>2, <2>3
<1>2. Linked
  <2>1. CASE link' = link
    BY <1>0, <2>1 DEF TypeOK
  <2>2. ASSUME NEW ps, link' = Relinked(ps), row.status \in OpenStatuses PROVE Linked
    <3>1. CASE Recipients = {}
      BY <1>0, <2>2, <3>1 DEF Relinked, TypeOK
    <3>2. CASE Recipients # {}
      BY <1>0, <2>2, <3>2, RelinkedLinks
    <3> QED
      BY <3>1, <3>2
  <2> QED
    BY <1>1, <2>1, <2>2
<1>3. TypeOK'
  BY <1>0, <1>1, <1>2 DEF TypeOK, signature, captures
<1>4. /\ SentOnly' /\ MarkOfAi' /\ OpenIsLocked' /\ AcceptanceFrozen' /\ DecisionOnCurrent'
  BY <1>1 DEF ProposalInv, SentOnly, MarkOfAi, OpenIsLocked, AcceptanceFrozen,
              DecisionOnCurrent, Current
<1>5. LinksToCurrent'
  <2>1. ~Current.superseded
    BY <1>0, ProposalAssumption DEF ProposalInv, SentOnly, Current, Versions
  <2> QED
    BY <1>0, <1>1, <1>2, <2>1 DEF ProposalInv, LinksToCurrent, OpenIsLocked, Current
<1> QED
  BY <1>3, <1>4, <1>5 DEF ProposalInv

LEMMA SendKeeps ==
  ASSUME ProposalInv, Send
  PROVE  ProposalInv'
<1> DEFINE cur == row.currentVersionId
<1>0. /\ TypeOK /\ row \in Row /\ version \in [Versions -> Version] /\ cur \in Versions
      /\ Versions \subseteq Nat
      /\ UNCHANGED <<recipients, snapshots, contract, call, signature>>
  BY ProposalAssumption DEF ProposalInv, TypeOK, Row, Send, Versions
<1>1. /\ row' \in Row /\ row'.status = "SENT" /\ row'.currentVersionId = cur
  BY <1>0, ProposalStatusList DEF Send, Sent, To, Row, NoVersion
<1>2. /\ version' \in [Versions -> Version]
      /\ version'[cur] = [version[cur] EXCEPT !.locked = TRUE]
      /\ \A v \in Versions : v # cur => version'[v] = version[v]
  BY <1>0 DEF Send, Version
<1>3. /\ \A v \in Versions : /\ version'[v].section = version[v].section
                             /\ version'[v].superseded = version[v].superseded
      /\ version'[cur].locked
  BY <1>0, <1>2 DEF Version
<1>4. /\ link' \in [Recipients \X Versions -> LinkStates]
      /\ \A p \in Recipients, v \in Versions :
           link'[<<p, v>>] = "valid" => v = cur \/ link[<<p, v>>] = "valid"
  <2>1. CASE Recipients = {}
    BY <1>0, <2>1 DEF Send, Relinked, TypeOK
  <2>2. CASE Recipients # {}
    BY <1>0, <2>2, RelinkedLinks DEF Send
  <2> QED
    BY <2>1, <2>2
<1>5. TypeOK'
  BY <1>0, <1>1, <1>2, <1>4 DEF TypeOK, Send, signature, captures
<1>6. SentOnly'
  BY <1>0, <1>1, <1>2, <1>3 DEF ProposalInv, SentOnly
<1>7. MarkOfAi'
  <2>1. ~version[cur].section.pending \/ version[cur].section.excluded
    BY DEF Send, Ready, AiBlocking, Current
  <2> SUFFICES ASSUME NEW v \in Versions
               PROVE  /\ version'[v].locked
                           => ~version'[v].section.pending \/ version'[v].section.excluded
                      /\ v <= cur /\ version'[v].section.drafted /\ ~version'[v].section.pending
                           => v > 1 /\ version'[v - 1].section.drafted
    BY <1>1 DEF MarkOfAi
  <2>2. v > 1 => v - 1 \in Versions
    BY <1>0, ProposalAssumption DEF Versions
  <2> QED
    BY <1>0, <1>2, <1>3, <2>1, <2>2 DEF ProposalInv, MarkOfAi
<1>8. OpenIsLocked' /\ AcceptanceFrozen' /\ DecisionOnCurrent'
  BY <1>1, <1>3 DEF OpenIsLocked, AcceptanceFrozen, DecisionOnCurrent, OpenStatuses, Decided,
                    Current
<1>9. LinksToCurrent'
  <2>0. cur \in Nat /\ (version[cur].superseded => cur < cur)
    BY <1>0 DEF ProposalInv, SentOnly
  <2>1. ~version[cur].superseded
    BY <2>0
  <2> QED
    BY <1>0, <1>1, <1>3, <1>4, <2>1 DEF ProposalInv, LinksToCurrent, Current
<1> QED
  BY <1>5, <1>6, <1>7, <1>8, <1>9 DEF ProposalInv

LEMMA ReviseKeeps ==
  ASSUME ProposalInv, Revise
  PROVE  ProposalInv'
<1> DEFINE cur == row.currentVersionId
           next == cur + 1
<1>0. /\ TypeOK /\ row \in Row /\ version \in [Versions -> Version] /\ cur \in Versions
      /\ Versions \subseteq Nat /\ \A v \in Versions : v > 1 => v - 1 \in Versions
      /\ UNCHANGED <<recipients, snapshots, contract, call, signature>>
  BY ProposalAssumption DEF ProposalInv, TypeOK, Row, Revise, Versions
<1>1. CASE ~Current.locked
  <2>0. row' = Revised(row) /\ UNCHANGED <<version, outbox>>
    BY <1>1 DEF Revise
  <2>1. row' \in Row /\ row'.status = "DRAFT" /\ row'.currentVersionId = cur
    BY <1>0, <2>0, ProposalStatusList DEF Revised, To, Row, NoVersion
  <2>2. TypeOK'
    BY <1>0, <2>0, <2>1 DEF TypeOK, signature, captures, outbox
  <2>3. SentOnly' /\ MarkOfAi'
    BY <2>0, <2>1 DEF ProposalInv, SentOnly, MarkOfAi
  <2>4. OpenIsLocked' /\ AcceptanceFrozen' /\ DecisionOnCurrent'
    BY <2>1 DEF OpenIsLocked, AcceptanceFrozen, DecisionOnCurrent, OpenStatuses, Decided
  <2>5. LinksToCurrent'
    BY <2>0, <2>1 DEF ProposalInv, LinksToCurrent, Current, outbox
  <2> QED
    BY <2>2, <2>3, <2>4, <2>5 DEF ProposalInv
<1>2. CASE Current.locked
  <2> cur \in Nat \ {0}
    BY <1>0, ProposalAssumption DEF Versions
  <2>0. next \in Versions /\ cur < next /\ cur # next /\ next > 1 /\ next - 1 = cur
    <3>1. next \in Versions
      BY <1>2 DEF Revise
    <3> QED
      BY <3>1
  <2> DEFINE new == NewVersion([Current.section EXCEPT !.pending = FALSE],
                               Current.complete, Current.selection)
  <2>1. row' = [Revised(row) EXCEPT !.currentVersionId = next]
    BY <1>2 DEF Revise
  <2>2. row' \in Row /\ row'.status = "DRAFT" /\ row'.currentVersionId = next
    BY <1>0, <2>0, <2>1, ProposalStatusList DEF Revised, To, Row, NoVersion
  <2>3. /\ Current \in Version
        /\ [Current.section EXCEPT !.pending = FALSE] \in Section
        /\ [Current.section EXCEPT !.pending = FALSE].drafted = Current.section.drafted
    BY <1>0 DEF Current, Version, Section
  <2>4. /\ new \in Version /\ ~new.locked /\ ~new.superseded
        /\ new.section.drafted = Current.section.drafted
    BY <2>3 DEF NewVersion, Version
  <2>5. [Current EXCEPT !.superseded = TRUE] \in Version
    BY <2>3 DEF Version
  <2>6. version' = [version EXCEPT ![cur].superseded = TRUE, ![next] = new]
    BY <1>2 DEF Revise
  <2> HIDE DEF new
  <2>7. /\ version' \in [Versions -> Version] /\ version'[next] = new
        /\ version'[cur] = [Current EXCEPT !.superseded = TRUE]
        /\ \A v \in Versions : v # cur /\ v # next => version'[v] = version[v]
    BY <1>0, <2>0, <2>4, <2>5, <2>6 DEF Current
  <2>8. /\ version'[cur].locked /\ version'[cur].section = version[cur].section
    BY <1>2, <2>3, <2>7 DEF Version, Current
  <2>9. /\ link' \in [Recipients \X Versions -> LinkStates]
        /\ \A p \in Recipients, v \in Versions : link'[<<p, v>>] # "valid"
        /\ followUp' = FALSE
    <3>1. link' = Revoke(link) /\ followUp' = FALSE
      BY <1>2 DEF Revise, RevokedByRevision, CancelFollowUps
    <3>2. link \in [Recipients \X Versions -> LinkStates]
      BY <1>0 DEF TypeOK
    <3>3. link' \in [Recipients \X Versions -> LinkStates]
      BY <3>1, <3>2 DEF Revoke, LinkStates
    <3>4. ASSUME NEW p \in Recipients, NEW v \in Versions PROVE link'[<<p, v>>] # "valid"
      <4>1. <<p, v>> \in DOMAIN link
        BY <3>2
      <4> QED
        BY <3>1, <4>1 DEF Revoke
    <3> QED
      BY <3>1, <3>3, <3>4
  <2>10. TypeOK'
    BY <1>0, <2>2, <2>7, <2>9 DEF TypeOK, signature, captures
  <2>11. SentOnly'
    <3> SUFFICES ASSUME NEW v \in Versions
                 PROVE  /\ version'[v].locked => v <= next
                        /\ version'[v].superseded => v < next
      BY <2>2 DEF SentOnly
    <3> QED
      BY <1>0, <2>0, <2>4, <2>7 DEF ProposalInv, SentOnly
  <2>12. MarkOfAi'
    <3> SUFFICES ASSUME NEW v \in Versions
                 PROVE  /\ version'[v].locked
                             => ~version'[v].section.pending \/ version'[v].section.excluded
                        /\ v <= next /\ version'[v].section.drafted /\ ~version'[v].section.pending
                             => v > 1 /\ version'[v - 1].section.drafted
      BY <2>2 DEF MarkOfAi
    <3>1. CASE v = next
      BY <2>0, <2>4, <2>7, <2>8, <3>1 DEF Current
    <3>2. CASE v # next
      <4>1. version'[v].section = version[v].section
        BY <2>7, <2>8, <3>2
      <4>2. version'[v].locked = version[v].locked
        BY <1>2, <2>7, <2>8, <3>2 DEF Current
      <4>3. v <= next => v <= cur /\ (v > 1 => version'[v - 1].section = version[v - 1].section)
        BY <1>0, <2>0, <2>7, <2>8, <3>2
      <4> QED
        BY <1>0, <4>1, <4>2, <4>3 DEF ProposalInv, MarkOfAi
    <3> QED
      BY <3>1, <3>2
  <2>13. OpenIsLocked' /\ AcceptanceFrozen' /\ DecisionOnCurrent'
    BY <2>2 DEF OpenIsLocked, AcceptanceFrozen, DecisionOnCurrent, OpenStatuses, Decided
  <2>14. LinksToCurrent'
    BY <2>9 DEF LinksToCurrent
  <2> QED
    BY <2>10, <2>11, <2>12, <2>13, <2>14 DEF ProposalInv
<1> QED
  BY <1>1, <1>2

(* The acceptance: the version read is the one in force, and the frozen    *)
(* configuration is the last of the snapshots.                             *)
LEMMA AcceptKeeps ==
  ASSUME ProposalInv, NEW c \in Calls, CommitAccept(c)
  PROVE  /\ ProposalInv'
         /\ row.status \in OpenStatuses /\ row'.acceptanceMode = row.acceptanceMode
         /\ \/ row'.status = "ACCEPTED"
            \/ row'.status = "SIGNED" /\ row.acceptanceMode = "CLICK_ACCEPT"
<1> DEFINE cur == row.currentVersionId
           v == call[c].versionId
           viewed == IF row.status = "SENT" THEN Viewed(row) ELSE row
           frozenOne == [versionId |-> v, selection |-> call[c].selection]
           n == Len(snapshots) + 1
           accepted == [Accepted(viewed, v) EXCEPT !.acceptedSnapshotId = n,
                                                   !.clientResponded = TRUE]
<1>0. /\ TypeOK /\ row \in Row /\ version \in [Versions -> Version] /\ cur \in Versions
      /\ call \in calls /\ snapshots \in Seq(Snapshot) /\ Len(snapshots) \in Nat
      /\ UNCHANGED <<recipients, link, contract, signature>>
  BY DEF ProposalInv, TypeOK, Row, CommitAccept, calls
<1>1. viewed \in Row /\ viewed.currentVersionId = cur
      /\ viewed.acceptanceMode = row.acceptanceMode
  BY <1>0, ProposalStatusList DEF Viewed, To, Row
<1>2. /\ CanAccept(viewed, v) /\ Len(snapshots) < MaxSnapshots
      /\ version' = [version EXCEPT ![v].selection = call[c].selection]
      /\ snapshots' = Append(snapshots, frozenOne)
      /\ row' = IF row.acceptanceMode = "CLICK_ACCEPT" THEN ClickCompleted(accepted) ELSE accepted
      /\ followUp' = FALSE /\ call' = [call EXCEPT ![c] = IdleCall]
  BY DEF CommitAccept, CancelFollowUps, Done
<1>3. v = cur /\ Admits(viewed, "ACCEPT")
  BY <1>1, <1>2 DEF CanAccept
<1>4. row.status \in OpenStatuses
  <2>1. viewed.status \in {"VIEWED", "IN_DISCUSSION"}
    BY <1>1, <1>3, ProposalStatusList DEF Admits, Transitions, OpenEvents, Row
  <2>2. CASE row.status = "SENT"
    BY <2>2 DEF OpenStatuses
  <2>3. CASE row.status # "SENT"
    BY <2>1, <2>3 DEF OpenStatuses
  <2> QED
    BY <2>2, <2>3
<1>5. n \in Snapshots
  BY <1>0, <1>2, ProposalAssumption DEF Snapshots
<1>6. /\ accepted \in Row /\ accepted.status = "ACCEPTED"
      /\ accepted.currentVersionId = cur /\ accepted.acceptedVersionId = cur
      /\ accepted.acceptedSnapshotId = n /\ accepted.acceptanceMode = row.acceptanceMode
  <2> HIDE DEF viewed, n
  <2>1. Accepted(viewed, v) \in Row /\ Accepted(viewed, v).status = "ACCEPTED"
        /\ Accepted(viewed, v).currentVersionId = cur
        /\ Accepted(viewed, v).acceptedVersionId = cur
        /\ Accepted(viewed, v).acceptanceMode = row.acceptanceMode
    BY <1>0, <1>1, <1>3, ProposalStatusList DEF Accepted, To, Row
  <2> QED
    BY <2>1, <1>5 DEF Row
<1>7. /\ row' \in Row /\ row'.currentVersionId = cur /\ row'.acceptedVersionId = cur
      /\ row'.acceptedSnapshotId = n /\ row'.acceptanceMode = row.acceptanceMode
      /\ \/ row'.status = "ACCEPTED"
         \/ row'.status = "SIGNED" /\ row.acceptanceMode = "CLICK_ACCEPT"
  <2> HIDE DEF accepted, n
  <2>1. CASE row.acceptanceMode = "CLICK_ACCEPT"
    BY <1>2, <1>6, <2>1, ProposalStatusList DEF ClickCompleted, To, Row
  <2>2. CASE row.acceptanceMode # "CLICK_ACCEPT"
    BY <1>2, <1>6, <2>2
  <2> QED
    BY <2>1, <2>2
<1> HIDE DEF accepted
<1>8. /\ call[c].selection \in Configurations /\ frozenOne \in Snapshot
      /\ call' \in calls
  BY <1>0, <1>2, <1>3 DEF calls, Snapshot, IdleCall, NoVersion, Configurations
<1> HIDE DEF frozenOne
<1>9. /\ snapshots' \in Seq(Snapshot) /\ Len(snapshots') = n /\ snapshots'[n] = frozenOne
      /\ Len(snapshots') <= MaxSnapshots
  BY <1>0, <1>2, <1>8, ProposalAssumption, AppendProperties
<1>10. /\ version' \in [Versions -> Version]
       /\ \A u \in Versions : /\ version'[u].locked = version[u].locked
                              /\ version'[u].superseded = version[u].superseded
                              /\ version'[u].section = version[u].section
  BY <1>0, <1>2, <1>3, <1>8 DEF Version
<1>11. Current'.locked = Current.locked /\ Current'.superseded = Current.superseded
  BY <1>0, <1>7, <1>10 DEF Current
<1>12. TypeOK'
  BY <1>0, <1>2, <1>7, <1>8, <1>9, <1>10 DEF TypeOK, signature, captures, calls
<1>13. SentOnly' /\ MarkOfAi'
  <2>1. \A u \in Versions : u > 1 => u - 1 \in Versions
    BY ProposalAssumption DEF Versions
  <2> QED
    BY <1>7, <1>10, <2>1 DEF ProposalInv, SentOnly, MarkOfAi
<1>14. Current.locked /\ ~Current.superseded
  <2>0. cur \in Nat /\ (version[cur].superseded => cur < cur)
    BY <1>0, ProposalAssumption DEF ProposalInv, SentOnly, Versions
  <2> QED
    BY <1>4, <2>0 DEF ProposalInv, OpenIsLocked, Current
<1>15. OpenIsLocked' /\ AcceptanceFrozen' /\ DecisionOnCurrent'
  <2>1. frozenOne.versionId = cur
    BY <1>3 DEF frozenOne
  <2>2. n \in 1..Len(snapshots')
    BY <1>0, <1>9
  <2> QED
    BY <1>7, <1>9, <1>11, <1>14, <2>1, <2>2
       DEF OpenIsLocked, AcceptanceFrozen, DecisionOnCurrent, Current
<1>16. LinksToCurrent'
  BY <1>0, <1>7, <1>11 DEF ProposalInv, LinksToCurrent
<1> QED
  BY <1>4, <1>7, <1>12, <1>13, <1>15, <1>16 DEF ProposalInv

LEMMA ConvertKeeps ==
  ASSUME ProposalInv, Convert
  PROVE  /\ ProposalInv'
         /\ row.status = "SIGNED" /\ row' = Converted(row)
         /\ row'.status = "CONVERTED" /\ row'.acceptedSnapshotId = row.acceptedSnapshotId
         /\ row'.acceptanceMode = row.acceptanceMode
         /\ contract'.snapshotId = row.acceptedSnapshotId
         /\ contract'.selection = snapshots[row.acceptedSnapshotId].selection
<1> DEFINE s == row.acceptedSnapshotId
<1>0. /\ TypeOK /\ row \in Row /\ snapshots \in Seq(Snapshot) /\ row.status \in ProposalStatuses
      /\ UNCHANGED <<content, outbox, snapshots, call, signature>>
      /\ row' = Converted(row)
  BY DEF ProposalInv, TypeOK, Row, Convert
<1>1. row.status = "SIGNED"
  BY <1>0, ProposalStatusList DEF Convert, Admits, Transitions, OpenEvents
<1>2. /\ row' \in Row /\ row'.status = "CONVERTED"
      /\ row'.currentVersionId = row.currentVersionId
      /\ row'.acceptedVersionId = row.acceptedVersionId /\ row'.acceptedSnapshotId = s
      /\ row'.acceptanceMode = row.acceptanceMode
  BY <1>0, ProposalStatusList DEF Converted, To, Row
<1>3. snapshots[s] \in Snapshot /\ s \in Snapshots \union {NoSnapshot}
  BY <1>0, <1>1, ElementOfSeq DEF ProposalInv, AcceptanceFrozen, Decided, Row
<1>4. /\ contract' = [status |-> IF SignedIsContract THEN "ACTIVE" ELSE "DRAFT",
                      snapshotId |-> s, selection |-> snapshots[s].selection]
  BY DEF Convert, FrozenTerms
<1>5. /\ contract'.snapshotId = s /\ contract'.selection = snapshots[s].selection
      /\ contract' \in [status : {"none", "DRAFT", "ACTIVE"},
                        snapshotId : Snapshots \union {NoSnapshot}, selection : Configurations]
  BY <1>3, <1>4 DEF Snapshot
<1>6. TypeOK'
  BY <1>0, <1>2, <1>5 DEF TypeOK, content, outbox, signature, captures
<1>7. SentOnly' /\ MarkOfAi' /\ LinksToCurrent'
  BY <1>0, <1>2 DEF ProposalInv, SentOnly, MarkOfAi, LinksToCurrent, content, outbox, Current
<1>8. OpenIsLocked' /\ AcceptanceFrozen' /\ DecisionOnCurrent'
  BY <1>0, <1>1, <1>2 DEF ProposalInv, OpenIsLocked, AcceptanceFrozen, DecisionOnCurrent,
                          OpenStatuses, Decided, content, Current
<1> QED
  BY <1>0, <1>1, <1>2, <1>5, <1>6, <1>7, <1>8 DEF ProposalInv
-----------------------------------------------------------------------------
(* Every step of the system is of one of the kinds above.                  *)
Pricing == Selected \/ Redrafted

Linking ==
  \/ Send \/ FollowUp
  \/ \E p \in Recipients : AddRecipient(p) \/ RemoveRecipient(p) \/ Resend(p)

Signing(r) ==
  \/ Prepare(r) \/ CreateSubmission(r) \/ CreateFails(r) \/ Acknowledge(r)
  \/ RecordFailure(r) \/ CrashStart(r)
  \/ EndSubmission(r, "DECLINED") \/ EndSubmission(r, "EXPIRED")
  \/ ProcessDeclined(r) \/ ProcessExpired(r) \/ ProcessCompletedSubmission(r)
  \/ Enqueue(r) \/ EnqueueFails(r) \/ DownloadFails(r)
  \/ \E w \in Runners : StoreProof(r, w) \/ RecordSigned(r, w) \/ CrashCapture(r, w)
  \/ \E p \in Parties : CompleteForm(r, p) \/ ProcessCompletedForm(r, p)

LEMMA StepKinds ==
  ASSUME TypeOK, Next
  PROVE  \/ Moved \/ Pricing \/ Linking \/ Revise \/ Convert
         \/ \E c \in Calls : CommitAccept(c)
         \/ \E r \in Requests : Signing(r)
<1>1. CASE \/ UpdateTerms \/ Price \/ PutSections \/ ApplyAiSections \/ ValidateAiSection
           \/ ImportDocx \/ SetSelection \/ \E c \in Calls : CommitSelect(c)
  BY <1>1, RedraftedByDesk, SelectedByAnyone DEF Pricing
<1>2. CASE \/ MarkReady \/ CloseDiscussion \/ Reactivate \/ Withdraw \/ Expire \/ Tick
           \/ \E u \in Users : SubmitForReview(u) \/ ApproveReview(u) \/ RejectReview(u)
           \/ \E v \in Versions : Track(v)
  BY <1>2, MovedByDesk
<1>3. CASE \/ Send \/ FollowUp
           \/ \E p \in Recipients : AddRecipient(p) \/ RemoveRecipient(p) \/ Resend(p)
  BY <1>3 DEF Linking
<1>4. CASE \E v \in Versions, c \in Calls :
             \/ ReadComment(c, v) \/ ReadDecline(c, v) \/ ReadAccept(c, v)
             \/ \E selection \in Configurations : ReadSelect(c, v, selection)
  <2>1. PICK c \in Calls :
               \E v \in Versions :
                 \/ ReadComment(c, v) \/ ReadDecline(c, v) \/ ReadAccept(c, v)
                 \/ \E selection \in Configurations : ReadSelect(c, v, selection)
    BY <1>4
  <2>2. Moved
    BY <2>1, MovedByClient
  <2> QED
    BY <2>2
<1>5. CASE \E c \in Calls : CommitComment(c) \/ CommitDecline(c) \/ Abandon(c)
  BY <1>5, MovedByClient
<1>6. CASE \E r \in Requests : Signing(r)
  BY <1>6
<1>7. CASE Revise \/ Convert \/ \E c \in Calls : CommitAccept(c)
  BY <1>7
<1> QED
  BY <1>1, <1>2, <1>3, <1>4, <1>5, <1>6, <1>7 DEF Next, Signing

LEMMA SignatureMovedBySigning ==
  ASSUME TypeOK, NEW r \in Requests, Signing(r)
  PROVE  SignatureMoved
<1>1. CASE \/ CreateSubmission(r) \/ CreateFails(r) \/ Acknowledge(r) \/ RecordFailure(r)
           \/ CrashStart(r)
  BY <1>1, SignatureMovedByStart
<1>2. CASE \/ EndSubmission(r, "DECLINED") \/ EndSubmission(r, "EXPIRED")
           \/ \E p \in Parties : CompleteForm(r, p) \/ ProcessCompletedForm(r, p)
           \/ ProcessCompletedSubmission(r)
  BY <1>2, SignatureMovedByProvider
<1>3. CASE \/ Prepare(r) \/ ProcessDeclined(r) \/ ProcessExpired(r)
           \/ Enqueue(r) \/ EnqueueFails(r) \/ DownloadFails(r)
           \/ \E w \in Runners : StoreProof(r, w) \/ RecordSigned(r, w) \/ CrashCapture(r, w)
  BY <1>3, SignatureMovedByWorker
<1> QED
  BY <1>1, <1>2, <1>3 DEF Signing

LEMMA ProposalStep ==
  ASSUME ProposalInv, [Next]_proposalVars
  PROVE  ProposalInv'
<1>0. TypeOK
  BY DEF ProposalInv
<1>1. CASE UNCHANGED proposalVars
  BY <1>1 DEF ProposalInv, TypeOK, SentOnly, MarkOfAi, OpenIsLocked, AcceptanceFrozen,
              DecisionOnCurrent, LinksToCurrent, Current, proposalVars, content, outbox,
              signature, captures
<1>2. CASE Next
  <2>1. CASE Moved
    BY <2>1, MovedKeeps
  <2>2. CASE Pricing
    BY <2>2, SelectedKeeps, RedraftedKeeps DEF Pricing
  <2>3. CASE Linking
    BY <2>3, SendKeeps, RelinkingKeeps DEF Linking
  <2>4. CASE Revise
    BY <2>4, ReviseKeeps
  <2>5. CASE Convert
    BY <2>5, ConvertKeeps
  <2>6. CASE \E c \in Calls : CommitAccept(c)
    BY <2>6, AcceptKeeps
  <2>7. CASE \E r \in Requests : Signing(r)
    BY <1>0, <2>7, SignatureMovedBySigning, SignatureMovedKeeps
  <2> QED
    BY <1>0, <1>2, <2>1, <2>2, <2>3, <2>4, <2>5, <2>6, <2>7, StepKinds
<1> QED
  BY <1>1, <1>2

(* What follows of the versions, links and decisions holds in every state, *)
(* whatever the desk, the clients' calls and the webhooks interleave.      *)
THEOREM ProposalInvariant == Spec => []ProposalInv
<1>1. Init => ProposalInv
  BY ProposalInit
<1>2. ProposalInv /\ [Next]_proposalVars => ProposalInv'
  BY ProposalStep
<1> QED
  BY <1>1, <1>2, PTL DEF Spec

(* Every variable keeps a value that the schema and the code allow.        *)
THEOREM ProposalTypes == Spec => []TypeOK
<1>1. ProposalInv => TypeOK
  BY DEF ProposalInv
<1> QED
  BY <1>1, ProposalInvariant, PTL

(* What is accepted, signed or converted is the version in force, whatever *)
(* the desk did between the client's reading and his acceptance.           *)
THEOREM DecidedOnCurrent == Spec => []DecisionOnCurrent
<1>1. ProposalInv => DecisionOnCurrent
  BY DEF ProposalInv
<1> QED
  BY <1>1, ProposalInvariant, PTL

(* No link opens a version that a revision has replaced.                   *)
THEOREM LinksOpenCurrent == Spec => []LinksToCurrent
<1>1. ProposalInv => LinksToCurrent
  BY DEF ProposalInv
<1> QED
  BY <1>1, ProposalInvariant, PTL

(* A text of the AI that a sent version carries unread was already in the  *)
(* version before it.                                                      *)
THEOREM SentTextWasRead == Spec => []SentAiWasRead
<1>1. ProposalInv => SentAiWasRead
  <2> SUFFICES ASSUME ProposalInv, NEW v \in Versions, version[v].locked,
                      version[v].section.drafted, ~version[v].section.excluded
               PROVE  v > 1 /\ version[v - 1].section.drafted
    BY DEF SentAiWasRead
  <2>1. v <= row.currentVersionId
    BY DEF ProposalInv, SentOnly
  <2>2. ~version[v].section.pending
    BY DEF ProposalInv, MarkOfAi
  <2> QED
    BY <2>1, <2>2 DEF ProposalInv, MarkOfAi
<1> QED
  BY <1>1, ProposalInvariant, PTL
-----------------------------------------------------------------------------
(* One request for an acceptance, and nothing at the provider without one. *)
KeyInv ==
  /\ \A q, r \in Requests :
       req[q].snapshotId = req[r].snapshotId /\ req[q].snapshotId # NoSnapshot => q = r
  /\ \A r \in Requests :
       sub[r].state # "none" \/ starter[r] # "idle" => req[r].snapshotId # NoSnapshot

LEMMA KeyStep ==
  ASSUME ProposalInv, KeyInv, [Next]_proposalVars
  PROVE  KeyInv'
<1>0. /\ TypeOK /\ req \in requests /\ sub \in submissions
      /\ starter \in [Requests -> {"idle", "prepared", "created", "failing", "stopped"}]
  BY DEF ProposalInv, TypeOK, requests, Request, submissions
<1>1. CASE UNCHANGED signature
  BY <1>1 DEF KeyInv, signature
<1>2. ASSUME NEW r \in Requests, Signing(r) PROVE KeyInv'
  <2>1. CASE Prepare(r)
    <3>1. /\ row.acceptedSnapshotId # NoSnapshot
          /\ \A q \in Requests : req[q].snapshotId # row.acceptedSnapshotId
      BY <2>1 DEF Prepare, KeyIsFree, ProposalInv, AcceptanceFrozen, Decided, NoSnapshot
    <3>2. /\ req'[r].snapshotId = row.acceptedSnapshotId
          /\ \A q \in Requests : q # r => req'[q] = req[q] /\ starter'[q] = starter[q]
          /\ sub' = sub
      BY <1>0, <2>1 DEF Prepare, Starts, NoRequest, requests
    <3> QED
      BY <3>1, <3>2 DEF KeyInv
  <2>2. CASE ~Prepare(r)
    <3> DEFINE SameKeys == \A q \in Requests : req'[q].snapshotId = req[q].snapshotId
    <3>1. SameKeys
      <4>1. \/ req' = req
            \/ \E status : req' = [req EXCEPT ![r].status = status]
            \/ \E signed, status :
                 req' = [req EXCEPT ![r].signed = signed, ![r].status = status]
            \/ \E proof : req' = [req EXCEPT ![r].proof = proof]
        BY <1>2, <2>2
           DEF Signing, CreateSubmission, CreateFails, Acknowledge, RecordFailure, CrashStart,
               EndSubmission, ProcessDeclined, ProcessExpired, ProcessCompletedSubmission,
               Process, Sign, Enqueue, EnqueueFails, DownloadFails, StoreProof, RecordSigned,
               CrashCapture, CompleteForm, ProcessCompletedForm
      <4>2. ASSUME NEW status, req' = [req EXCEPT ![r].status = status] PROVE SameKeys
        BY <1>0, <4>2 DEF requests, Request
      <4>3. ASSUME NEW signed, NEW status,
                   req' = [req EXCEPT ![r].signed = signed, ![r].status = status]
            PROVE  SameKeys
        BY <1>0, <4>3 DEF requests, Request
      <4>4. ASSUME NEW proof, req' = [req EXCEPT ![r].proof = proof] PROVE SameKeys
        BY <1>0, <4>4 DEF requests, Request
      <4> QED
        BY <4>1, <4>2, <4>3, <4>4
    <3>2. \A q \in Requests : sub'[q].state # "none" \/ starter'[q] # "idle"
            => sub[q].state # "none" \/ starter[q] # "idle"
      <4>1. CASE starter[r] # "idle" \/ sub[r].state = "PENDING"
        <5>1. \A q \in Requests : q # r => sub'[q] = sub[q] /\ starter'[q] = starter[q]
          BY <1>0, <1>2, <2>2
             DEF Signing, CreateSubmission, CreateFails, Acknowledge, RecordFailure, CrashStart,
                 EndSubmission, ProcessDeclined, ProcessExpired, ProcessCompletedSubmission,
                 Process, Sign, Enqueue, EnqueueFails, DownloadFails, StoreProof, RecordSigned,
                 CrashCapture, CompleteForm, ProcessCompletedForm, Starts, submissions
        <5> QED
          BY <4>1, <5>1
      <4>2. CASE sub' = sub /\ starter' = starter
        BY <4>2
      <4> QED
        BY <1>2, <2>2, <4>1, <4>2
           DEF Signing, CreateSubmission, CreateFails, Acknowledge, RecordFailure, CrashStart,
               Starting, EndSubmission, Live, ProcessDeclined, ProcessExpired,
               ProcessCompletedSubmission, Process, Sign, Enqueue, EnqueueFails, DownloadFails,
               StoreProof, RecordSigned, CrashCapture, CompleteForm, ProcessCompletedForm
    <3> QED
      BY <3>1, <3>2 DEF KeyInv
  <2> QED
    BY <2>1, <2>2
<1>3. CASE Next
  <2>1. Moved \/ Pricing \/ Linking \/ Revise \/ Convert \/ (\E c \in Calls : CommitAccept(c))
          => UNCHANGED signature
    BY DEF Moved, Pricing, Selected, Redrafted, frozen, Linking, Send, FollowUp, AddRecipient,
           RemoveRecipient, Resend, Revise, Convert, CommitAccept
  <2> QED
    BY <1>0, <1>1, <1>2, <1>3, <2>1, StepKinds
<1>4. CASE UNCHANGED proposalVars
  BY <1>1, <1>4 DEF proposalVars, signature
<1> QED
  BY <1>3, <1>4

(* No two requests were written for one acceptance, and nothing is started *)
(* or exists at the provider for a request that was never written.         *)
THEOREM KeyInvariant == Spec => []KeyInv
<1>1. Init => KeyInv
  BY DEF Init, KeyInv, NoRequest
<1>2. ProposalInv /\ KeyInv /\ [Next]_proposalVars => KeyInv'
  BY KeyStep
<1> QED
  BY <1>1, <1>2, ProposalInvariant, PTL DEF Spec

(* An acceptance is never put to signature twice at the provider, even when*)
(* a call times out after the submission was created.                      *)
THEOREM OneSubmission == Spec => []OneSubmissionPerSnapshot
<1>1. KeyInv => OneSubmissionPerSnapshot
  BY DEF KeyInv, OneSubmissionPerSnapshot
<1> QED
  BY <1>1, KeyInvariant, PTL
-----------------------------------------------------------------------------
(* The signature, when no revision overlaps its start.  A call of start in *)
(* progress and a request that waits are for the acceptance in force; what *)
(* is signed has a request that everyone signed; the contract has the      *)
(* terms of the acceptance.                                                *)
StartOfAcceptance ==
  \A r \in Requests : Starting(r) =>
    /\ req[r].status = "CREATING" /\ row.status = "ACCEPTED"
    /\ req[r].snapshotId = row.acceptedSnapshotId

RequestOfAcceptance ==
  \A r \in Requests : req[r].status \in SyncedStatuses \union {"COMPLETED"} =>
    /\ req[r].snapshotId = row.acceptedSnapshotId
    /\ row.status \in {"PENDING_SIGNATURE", "SIGNED", "CONVERTED"}

CompletedSigned ==
  \A r \in Requests :
    /\ CaptureToCome(r) => req[r].status = "COMPLETED"
    /\ req[r].status = "COMPLETED" => req[r].signed = Parties

SignedHasRequest ==
  row.status \in {"SIGNED", "CONVERTED"} /\ row.acceptanceMode = "DOCUSEAL_SIGNATURE" =>
    \E r \in Requests : req[r].status = "COMPLETED"

ContractFrozen ==
  row.status = "CONVERTED" =>
    /\ contract.snapshotId = row.acceptedSnapshotId
    /\ contract.selection = snapshots[contract.snapshotId].selection

SignedInv ==
  /\ StartOfAcceptance /\ RequestOfAcceptance /\ CompletedSigned /\ SignedHasRequest
  /\ ContractFrozen

(* A step that leaves the signature and the acceptance alone.              *)
Neutral ==
  /\ UNCHANGED signature
  /\ \/ /\ row'.status = row.status /\ row'.acceptedSnapshotId = row.acceptedSnapshotId
        /\ row'.acceptanceMode = row.acceptanceMode /\ UNCHANGED <<snapshots, contract>>
     \/ row.status \notin Decided /\ row'.status \notin Decided

LEMMA NeutralSteps ==
  ASSUME ProposalInv, Moved \/ Pricing \/ Linking
  PROVE  Neutral
<1>1. CASE Moved
  BY <1>1 DEF Moved, SameTerms, frozen, Neutral
<1>2. CASE Pricing
  BY <1>2 DEF Pricing, Selected, Redrafted, frozen, Neutral, Decided
<1>3. CASE Linking
  <2>1. CASE Send
    <3>1. row \in Row /\ row.status \in ProposalStatuses
      BY DEF ProposalInv, TypeOK, Row
    <3>2. row.status = "READY" /\ row' = Sent(row)
      BY <2>1, <3>1, ProposalStatusList DEF Send, CanSend, Admits, Transitions, OpenEvents
    <3>3. row'.status = "SENT"
      BY <3>1, <3>2 DEF Sent, To, Row
    <3> QED
      BY <2>1, <3>2, <3>3 DEF Send, Neutral, Decided
  <2>2. CASE FollowUp
    BY <2>2 DEF FollowUp, Neutral
  <2>3. CASE \E p \in Recipients : AddRecipient(p) \/ RemoveRecipient(p) \/ Resend(p)
    BY <2>3 DEF AddRecipient, RemoveRecipient, Resend, Neutral
  <2> QED
    BY <1>3, <2>1, <2>2, <2>3 DEF Linking
<1> QED
  BY <1>1, <1>2, <1>3

LEMMA NeutralSigned ==
  ASSUME SignedInv, Neutral
  PROVE  SignedInv'
<1>1. UNCHANGED <<req, starter, captures>>
  BY DEF Neutral, signature
<1>2. CASE /\ row'.status = row.status /\ row'.acceptedSnapshotId = row.acceptedSnapshotId
           /\ row'.acceptanceMode = row.acceptanceMode /\ UNCHANGED <<snapshots, contract>>
  BY <1>1, <1>2 DEF SignedInv, StartOfAcceptance, RequestOfAcceptance, CompletedSigned,
                    CaptureToCome, captures, SignedHasRequest, ContractFrozen, Starting
<1>3. CASE row.status \notin Decided /\ row'.status \notin Decided
  BY <1>1, <1>3 DEF SignedInv, StartOfAcceptance, RequestOfAcceptance, CompletedSigned,
                    CaptureToCome, captures, SignedHasRequest, ContractFrozen, Starting, Decided
<1> QED
  BY <1>2, <1>3 DEF Neutral

LEMMA DecisionSigned ==
  ASSUME ProposalInv, SignedInv, ~Overlap,
         Revise \/ Convert \/ \E c \in Calls : CommitAccept(c)
  PROVE  SignedInv'
<1>0. TypeOK /\ row \in Row /\ row.status \in ProposalStatuses
  BY DEF ProposalInv, TypeOK, Row
<1>1. UNCHANGED <<req, starter, captures>>
  BY DEF Revise, Convert, CommitAccept, signature
<1>2. CompletedSigned'
  BY <1>1 DEF SignedInv, CompletedSigned, CaptureToCome, captures
<1>3. CASE Revise
  <2>1. \A r \in Requests : ~Starting(r)
    BY <1>3 DEF Revise
  <2>2. row.status \notin {"PENDING_SIGNATURE", "SIGNED", "CONVERTED"}
    BY <1>0, <1>3, ProposalStatusList DEF Revise, Admits, Transitions, OpenEvents
  <2>3. row'.status = "DRAFT"
    <3>1. row' = Revised(row)
          \/ row' = [Revised(row) EXCEPT !.currentVersionId = row.currentVersionId + 1]
      BY <1>3 DEF Revise
    <3> QED
      BY <1>0, <3>1 DEF Revised, To, Row
  <2> QED
    BY <1>1, <1>2, <2>1, <2>2, <2>3
       DEF SignedInv, StartOfAcceptance, RequestOfAcceptance, SignedHasRequest, ContractFrozen,
           Starting
<1>4. CASE Convert
  <2>1. UNCHANGED snapshots
    BY <1>4 DEF Convert
  <2> QED
    BY <1>1, <1>2, <1>4, <2>1, ConvertKeeps
       DEF SignedInv, StartOfAcceptance, RequestOfAcceptance, SignedHasRequest, ContractFrozen,
           Starting
<1>5. ASSUME NEW c \in Calls, CommitAccept(c) PROVE SignedInv'
  BY <1>1, <1>2, <1>5, AcceptKeeps
     DEF SignedInv, StartOfAcceptance, RequestOfAcceptance, SignedHasRequest, ContractFrozen,
         Starting, OpenStatuses
<1> QED
  BY <1>3, <1>4, <1>5

(* What the events of the provider and the worker do to one request.       *)
LEMMA SignatureSigned ==
  ASSUME ProposalInv, KeyInv, SignedInv, NEW r \in Requests, Signing(r)
  PROVE  SignedInv'
<1> DEFINE Invs == /\ StartOfAcceptance' /\ RequestOfAcceptance' /\ CompletedSigned'
                   /\ SignedHasRequest'
<1>0. /\ TypeOK /\ row \in Row /\ row.status \in ProposalStatuses
      /\ req \in requests
      /\ starter \in [Requests -> {"idle", "prepared", "created", "failing", "stopped"}]
      /\ CapturesOK
      /\ UNCHANGED <<contract, snapshots>>
  BY SignatureMovedBySigning
     DEF ProposalInv, TypeOK, Row, requests, Request, SignatureMoved, CapturesOK
<1>1. /\ StartOfAcceptance /\ RequestOfAcceptance /\ CompletedSigned /\ SignedHasRequest
      /\ ContractFrozen
  BY DEF SignedInv
<1>2. Resolved(r) => req[r].status \in SyncedStatuses
  BY <1>0 DEF Resolved, SyncedStatuses, requests, Request, ActiveStatuses, ClosedStatuses
<1>3. \A q \in Requests : q # r /\ req[q].snapshotId = req[r].snapshotId
        => req[r].snapshotId = NoSnapshot
  BY DEF KeyInv
<1>4. row.status \in Decided => row.acceptedSnapshotId # NoSnapshot
  BY DEF ProposalInv, AcceptanceFrozen, NoSnapshot
<1>12. ContractFrozen'
  <2>1. /\ row'.acceptedSnapshotId = row.acceptedSnapshotId
        /\ row'.status = "CONVERTED" => row' = row
    BY SignatureMovedBySigning DEF ProposalInv, SignatureMoved, Carried
  <2> QED
    BY <1>0, <1>1, <2>1 DEF ContractFrozen
<1> SUFFICES Invs
  BY <1>12 DEF SignedInv
<1>5. CASE Prepare(r)
  <2>1. /\ row.status = "ACCEPTED" /\ req[r].status = "none"
        /\ UNCHANGED <<row, captures>>
        /\ starter'[r] = "prepared" /\ req'[r].status = "CREATING"
        /\ req'[r].snapshotId = row.acceptedSnapshotId
        /\ \A q \in Requests : q # r => req'[q] = req[q] /\ starter'[q] = starter[q]
    BY <1>0, <1>5 DEF Prepare, Starts, NoRequest, requests
  <2> QED
    BY <1>1, <2>1 DEF StartOfAcceptance, RequestOfAcceptance, CompletedSigned,
                      CaptureToCome, captures, SignedHasRequest, Starting, SyncedStatuses
<1>6. CASE \/ CreateSubmission(r) \/ CreateFails(r) \/ CrashStart(r)
           \/ EndSubmission(r, "DECLINED") \/ EndSubmission(r, "EXPIRED")
           \/ \E p \in Parties : CompleteForm(r, p)
  <2>1. /\ UNCHANGED <<row, req, captures>>
        /\ \A q \in Requests : starter'[q] \notin {"idle", "stopped"} => Starting(q)
    BY <1>0, <1>6 DEF CreateSubmission, CreateFails, CrashStart, EndSubmission, CompleteForm,
                      Starts, Starting
  <2> QED
    BY <1>1, <2>1 DEF StartOfAcceptance, RequestOfAcceptance, CompletedSigned,
                      CaptureToCome, captures, SignedHasRequest, Starting
<1>7. CASE Acknowledge(r)
  <2>1. /\ Starting(r) /\ UNCHANGED captures
        /\ \A q \in Requests : q # r => starter'[q] = starter[q]
        /\ \/ starter'[r] = "failing" /\ UNCHANGED <<row, req>>
           \/ /\ starter'[r] = "stopped" /\ row' = SignatureStarted(row)
              /\ req' = [req EXCEPT ![r].status = "SENT"]
    BY <1>0, <1>7 DEF Acknowledge, Starting, Starts
  <2>2. /\ req[r].status = "CREATING" /\ row.status = "ACCEPTED"
        /\ req[r].snapshotId = row.acceptedSnapshotId
    BY <1>1, <2>1 DEF StartOfAcceptance
  <2>3. CASE UNCHANGED <<row, req>>
    BY <1>1, <2>1, <2>2, <2>3 DEF StartOfAcceptance, RequestOfAcceptance,
                                  CompletedSigned, CaptureToCome, captures,
                                  SignedHasRequest, Starting
  <2>4. CASE /\ starter'[r] = "stopped" /\ row' = SignatureStarted(row)
             /\ req' = [req EXCEPT ![r].status = "SENT"]
    <3>1. /\ row'.status = "PENDING_SIGNATURE"
          /\ row'.acceptedSnapshotId = row.acceptedSnapshotId
          /\ req'[r].status = "SENT" /\ req'[r].snapshotId = req[r].snapshotId
          /\ \A q \in Requests : q # r => req'[q] = req[q]
      BY <1>0, <2>4 DEF SignatureStarted, To, Row, requests, Request
    <3>2. \A q \in Requests : q # r =>
            ~Starting(q) /\ req[q].status \notin SyncedStatuses \union {"COMPLETED"}
      BY <1>1, <1>3, <1>4, <2>2
         DEF StartOfAcceptance, RequestOfAcceptance, Decided
    <3>3. StartOfAcceptance'
      BY <2>1, <2>4, <3>1, <3>2 DEF StartOfAcceptance, Starting
    <3>4. RequestOfAcceptance'
      BY <2>2, <3>1, <3>2 DEF RequestOfAcceptance
    <3>5. CompletedSigned' /\ SignedHasRequest'
      BY <1>1, <2>1, <2>2, <3>1, <3>2
         DEF CompletedSigned, CaptureToCome, captures, SignedHasRequest
    <3> QED
      BY <3>3, <3>4, <3>5
  <2> QED
    BY <2>1, <2>3, <2>4
<1>8. CASE RecordFailure(r)
  <2>1. /\ Starting(r) /\ UNCHANGED <<row, captures>>
        /\ starter'[r] = "stopped" /\ req'[r].status = "FAILED"
        /\ \A q \in Requests : q # r => starter'[q] = starter[q] /\ req'[q] = req[q]
    BY <1>0, <1>8 DEF RecordFailure, Starting, Starts, requests, Request
  <2>2. req[r].status = "CREATING"
    BY <1>1, <2>1 DEF StartOfAcceptance
  <2> QED
    BY <1>1, <2>1, <2>2 DEF StartOfAcceptance, RequestOfAcceptance,
                            CompletedSigned, CaptureToCome, captures, SignedHasRequest,
                            Starting, SyncedStatuses
<1>9. CASE ProcessDeclined(r) \/ ProcessExpired(r)
  <2>0. Admits(row, "SIGNATURE_DECLINED") \/ Admits(row, "SIGNATURE_EXPIRED")
          => row.status = "PENDING_SIGNATURE"
    BY <1>0, ProposalStatusList DEF Admits, Transitions, OpenEvents
  <2>1. /\ Resolved(r) /\ UNCHANGED <<starter, captures>>
        /\ row' = row \/ (row.status = "PENDING_SIGNATURE" /\ row' = SignatureEnded(row))
        /\ req' = [req EXCEPT ![r].status = "DECLINED"]
           \/ req' = [req EXCEPT ![r].status = "EXPIRED"]
    BY <1>9, <2>0 DEF ProcessDeclined, ProcessExpired, Process, Follow
  <2>2. /\ req'[r].status \in {"DECLINED", "EXPIRED"}
        /\ \A q \in Requests : q # r => req'[q] = req[q]
    BY <1>0, <2>1 DEF requests, Request
  <2>3. /\ req[r].status \in SyncedStatuses /\ req[r].snapshotId = row.acceptedSnapshotId
        /\ row.status \in {"PENDING_SIGNATURE", "SIGNED", "CONVERTED"}
    BY <1>1, <1>2, <2>1 DEF RequestOfAcceptance
  <2>4. \A q \in Requests : ~Starting(q)
    BY <1>1, <2>3 DEF StartOfAcceptance
  <2>5. \A q \in Requests : q # r => req[q].status \notin SyncedStatuses \union {"COMPLETED"}
    BY <1>1, <1>3, <1>4, <2>3 DEF RequestOfAcceptance, Decided
  <2>6. StartOfAcceptance'
    BY <2>1, <2>4 DEF StartOfAcceptance, Starting
  <2>7. RequestOfAcceptance' /\ CompletedSigned'
    BY <1>1, <2>1, <2>2, <2>3, <2>5
       DEF RequestOfAcceptance, CompletedSigned, CaptureToCome, captures, SyncedStatuses
  <2>8. SignedHasRequest'
    <3>1. CASE row' = row
      BY <1>1, <2>2, <2>3, <2>5, <3>1 DEF SignedHasRequest, SyncedStatuses
    <3>2. CASE row' = SignatureEnded(row)
      <4>1. row'.status = "IN_DISCUSSION"
        BY <1>0, <3>2 DEF SignatureEnded, To, Row
      <4> QED
        BY <4>1 DEF SignedHasRequest
    <3> QED
      BY <2>1, <3>1, <3>2
  <2> QED
    BY <2>6, <2>7, <2>8
<1>10. ASSUME NEW signed, Sign(r, signed) PROVE Invs
  <2>1. /\ Resolved(r) /\ UNCHANGED <<row, starter>>
        /\ \A q \in Requests :
             q # r => req'[q] = req[q] /\ (CaptureToCome(q)' => CaptureToCome(q))
        /\ req'[r].signed = signed /\ req'[r].snapshotId = req[r].snapshotId
        /\ \/ signed = Parties /\ req'[r].status = "COMPLETED"
           \/ /\ signed # Parties /\ req'[r].status = "PARTIALLY_COMPLETED"
              /\ CaptureToCome(r)' => CaptureToCome(r)
    BY <1>0, <1>10 DEF Sign, requests, Request, CaptureToCome
  <2>2. /\ req[r].status \in SyncedStatuses /\ req[r].snapshotId = row.acceptedSnapshotId
        /\ row.status \in {"PENDING_SIGNATURE", "SIGNED", "CONVERTED"}
    BY <1>1, <1>2, <2>1 DEF RequestOfAcceptance
  <2>3. ~CaptureToCome(r) /\ req[r].status # "COMPLETED"
    BY <1>1, <2>2 DEF CompletedSigned, SyncedStatuses
  <2>4. StartOfAcceptance' /\ RequestOfAcceptance'
    BY <1>1, <2>1, <2>2 DEF StartOfAcceptance, RequestOfAcceptance, Starting
  <2>5. CompletedSigned' /\ SignedHasRequest'
    BY <1>1, <2>1, <2>3 DEF CompletedSigned, SignedHasRequest
  <2> QED
    BY <2>4, <2>5
<1>11. CASE \/ Enqueue(r) \/ EnqueueFails(r) \/ DownloadFails(r)
            \/ \E w \in Runners : StoreProof(r, w) \/ RecordSigned(r, w) \/ CrashCapture(r, w)
  <2>1. Admits(row, "SIGNATURE_COMPLETED") => row.status = "PENDING_SIGNATURE"
    BY <1>0, ProposalStatusList DEF Admits, Transitions, OpenEvents
  <2>2. CaptureToCome(r) \/ req[r].status = "COMPLETED"
    BY <1>11 DEF Enqueue, EnqueueFails, DownloadFails, StoreProof, HasRun, NeedsProof,
                 RecordSigned, CrashCapture, CaptureToCome
  <2>3. req[r].status = "COMPLETED"
    BY <1>1, <2>2 DEF CompletedSigned
  <2>4. \A q \in Requests : CaptureToCome(q)' => CaptureToCome(q) \/ q = r
    <3>1. CASE Enqueue(r) \/ EnqueueFails(r) \/ DownloadFails(r)
      BY <1>0, <3>1
         DEF Enqueue, EnqueueFails, DownloadFails, TakeRun, CaptureToCome, CapturesOK
    <3>2. ASSUME NEW w \in Runners, StoreProof(r, w) \/ RecordSigned(r, w) \/ CrashCapture(r, w)
          PROVE  \A q \in Requests : CaptureToCome(q)' => CaptureToCome(q) \/ q = r
      <4>1. \A q \in Requests : q # r => jobs'[q] = jobs[q]
        BY <1>0, <3>2 DEF StoreProof, TakeRun, RecordSigned, CrashCapture, CapturesOK
      <4>2. \A q \in Requests, x \in Runners :
              q # r /\ <<q, x>> \in capturing' => <<q, x>> \in capturing
        BY <3>2 DEF StoreProof, RecordSigned, CrashCapture
      <4>3. enqueuing' = enqueuing
        BY <3>2 DEF StoreProof, RecordSigned, CrashCapture
      <4> QED
        BY <4>1, <4>2, <4>3 DEF CaptureToCome
    <3> QED
      BY <1>11, <3>1, <3>2
  <2>5. /\ UNCHANGED starter
        /\ \/ row' = row
           \/ row.status = "PENDING_SIGNATURE" /\ row' = SignatureCompleted(row)
        /\ req' = req \/ req' = [req EXCEPT ![r].proof = TRUE]
    BY <1>11, <2>1
       DEF Enqueue, EnqueueFails, DownloadFails, StoreProof, RecordSigned, CrashCapture, Follow
  <2>6. \A q \in Requests : /\ req'[q].status = req[q].status /\ req'[q].signed = req[q].signed
                            /\ req'[q].snapshotId = req[q].snapshotId
    BY <1>0, <2>5 DEF requests, Request
  <2>7. /\ row'.acceptedSnapshotId = row.acceptedSnapshotId
        /\ row'.acceptanceMode = row.acceptanceMode
        /\ \/ row'.status = row.status
           \/ row.status = "PENDING_SIGNATURE" /\ row'.status = "SIGNED"
    <3>1. CASE row' = row
      BY <3>1
    <3>2. CASE row.status = "PENDING_SIGNATURE" /\ row' = SignatureCompleted(row)
      <4>1. /\ row'.status = "SIGNED" /\ row'.acceptedSnapshotId = row.acceptedSnapshotId
            /\ row'.acceptanceMode = row.acceptanceMode
        BY <1>0, <3>2 DEF SignatureCompleted, To, Row
      <4> QED
        BY <3>2, <4>1
    <3> QED
      BY <2>5, <3>1, <3>2
  <2>8. StartOfAcceptance' /\ RequestOfAcceptance'
    BY <1>1, <2>5, <2>6, <2>7 DEF StartOfAcceptance, RequestOfAcceptance, Starting
  <2>9. CompletedSigned' /\ SignedHasRequest'
    BY <1>1, <2>6, <2>7, <2>3, <2>4 DEF CompletedSigned, SignedHasRequest
  <2> QED
    BY <2>8, <2>9
<1> QED
  BY <1>5, <1>6, <1>7, <1>8, <1>9, <1>10, <1>11
     DEF Signing, ProcessCompletedForm, ProcessCompletedSubmission

LEMMA SignedStep ==
  ASSUME ProposalInv, KeyInv, SignedInv, ~Overlap, [Next]_proposalVars
  PROVE  SignedInv'
<1>1. CASE UNCHANGED proposalVars
  BY <1>1 DEF SignedInv, StartOfAcceptance, RequestOfAcceptance, CompletedSigned,
              CaptureToCome, captures, SignedHasRequest, ContractFrozen, Starting,
              proposalVars, signature
<1>2. CASE Next
  BY <1>2, StepKinds, NeutralSteps, NeutralSigned, DecisionSigned, SignatureSigned
     DEF ProposalInv
<1> QED
  BY <1>1, <1>2

(* When no revision overlaps the start of a signature, the request under   *)
(* way is the one of the acceptance in force, and so is what was signed.   *)
THEOREM SignedInvariant ==
  ASSUME ~Overlap
  PROVE  Spec => []SignedInv
<1>1. Init => SignedInv
  BY DEF Init, SignedInv, StartOfAcceptance, RequestOfAcceptance, CompletedSigned,
         CaptureToCome, captures, SignedHasRequest, ContractFrozen, Starting,
         NoRequest, SyncedStatuses
<1>2. ProposalInv /\ KeyInv /\ SignedInv /\ [Next]_proposalVars => SignedInv'
  BY SignedStep
<1> QED
  BY <1>1, <1>2, ProposalInvariant, KeyInvariant, PTL DEF Spec

(* When no revision overlaps the start of a signature, the contract has the*)
(* terms frozen by the acceptance that every party signed, whatever the    *)
(* page recorded since and whatever the calls to the provider became.      *)
THEOREM ContractBillsTheSigned ==
  ASSUME ~Overlap
  PROVE  Spec => []ContractAsSigned
<1>1. SignedInv => ContractAsSigned
  BY DEF SignedInv, RequestOfAcceptance, CompletedSigned, SignedHasRequest,
         ContractFrozen, ContractAsSigned
<1> QED
  BY <1>1, SignedInvariant, PTL
=============================================================================
