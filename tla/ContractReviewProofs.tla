------------------------ MODULE ContractReviewProofs ------------------------
(***************************************************************************)
(* Proofs about ContractReview, for every set of users and of concurrent   *)
(* requests and for every bound on versions and approvals.                 *)
(***************************************************************************)
EXTENDS ContractReview, SequenceTheorems, TLAPS

(* The statuses of the matrix, listed.                                     *)
LEMMA StatusList ==
  Statuses = {"DRAFT", "IN_REVIEW", "CHANGES_REQUESTED", "APPROVED",
              "SENT_TO_CLIENT", "IN_NEGOTIATION", "ACCEPTED", "PENDING_SIGNATURE",
              "PARTIALLY_SIGNED", "DECLINED", "SIGNATURE_EXPIRED", "SIGNED",
              "ACTIVE", "RENEWAL_DUE", "TERMINATION_PENDING", "EXPIRED",
              "IMPORTED_PENDING_VALIDATION", "TERMINATED", "RENEWED", "CANCELLED"}
  BY DEF Statuses, Transitions

(* From which statuses the matrix admits the events of the review.         *)
LEMMA EventSources ==
  ASSUME NEW c, c.status \in Statuses
  PROVE  /\ Admits(c, "APPROVE") => c.status = "IN_REVIEW"
         /\ Admits(c, "REQUEST_CHANGES") => c.status = "IN_REVIEW"
         /\ Admits(c, "SUBMIT_FOR_REVIEW") =>
              c.status \in {"DRAFT", "CHANGES_REQUESTED", "IN_NEGOTIATION"}
         /\ Admits(c, "SEND_TO_CLIENT") => c.status \in {"APPROVED", "IN_NEGOTIATION"}
         /\ Admits(c, "CLIENT_ACCEPT") => c.status = "SENT_TO_CLIENT"
         /\ CanNegotiate(c) =>
              c.status \in {"SENT_TO_CLIENT", "ACCEPTED", "DECLINED", "SIGNATURE_EXPIRED"}
         /\ CanCancel(c) => c.status \notin TerminalStatuses
  BY StatusList DEF Admits, CanNegotiate, CanCancel, TerminalStatuses, Transitions, Signing
-----------------------------------------------------------------------------
(* The inductive invariant for any number of overlapping transactions: the *)
(* snapshot a transaction will write back was justified when it was read,  *)
(* and what justified it (an acceptance row, the author of an approval) is *)
(* never deleted.                                                          *)
Justified ==
  \A r \in Requests :
    request[r].op # "none" =>
      /\ request[r].snap.acceptedVersionId # NoVersion =>
           request[r].snap.acceptedVersionId \in acceptances
      /\ request[r].op \in {"APPROVE", "REQUEST_CHANGES"} =>
           /\ request[r].approval \in DOMAIN approvals
           /\ approvals[request[r].approval].submittedBy # request[r].actor

ReviewInv == TypeOK /\ SeparationOfDuties /\ CurrentIsNewest /\ AcceptanceBacked /\ Justified

(* Every transition of the review maps a row to a row.                     *)
LEMMA TransitionTypes ==
  ASSUME NEW c \in Row, NEW v \in Version
  PROVE  /\ Submitted(c) \in Row
         /\ Approved(c) \in Row
         /\ ChangesRequested(c) \in Row
         /\ Edited(c) \in Row
         /\ SentToClient(c) \in Row
         /\ Accepted(c, v) \in Row
         /\ InNegotiation(c) \in Row
         /\ Cancelled(c) \in Row
<1>0. NoVersion \in Version /\ c.currentVersionId \in Version
  BY ReviewAssumption DEF Row, Version, NoVersion
<1>1. Submitted(c) \in Row /\ Approved(c) \in Row /\ ChangesRequested(c) \in Row
  BY <1>0, StatusList DEF Row, Submitted, Approved, ChangesRequested
<1>2. Edited(c) \in Row
  BY <1>0, StatusList DEF Row, Edited
<1>3. SentToClient(c) \in Row /\ Accepted(c, v) \in Row
  BY <1>0, StatusList DEF Row, SentToClient, Accepted
<1>4. InNegotiation(c) \in Row /\ Cancelled(c) \in Row
  BY <1>0, StatusList DEF Row, InNegotiation, Cancelled
<1> QED
  BY <1>1, <1>2, <1>3, <1>4

LEMMA PersistedType ==
  ASSUME NEW c \in Row, NEW n \in Row
  PROVE  /\ Persisted(c, n) \in Row
         /\ Persisted(c, n).status = n.status
         /\ Persisted(c, n).currentVersionId = c.currentVersionId
         /\ Persisted(c, n).approvedVersionId = n.approvedVersionId
         /\ Persisted(c, n).acceptedVersionId = n.acceptedVersionId
  BY DEF Persisted, Row

(* What a transaction in flight has read has the type of what it reads.    *)
LEMMA InFlightType ==
  ASSUME TypeOK, NEW r \in Requests, request[r].op # "none"
  PROVE  request[r] \in Transaction
  BY DEF TypeOK, Idle

LEMMA ReviewInit == Init => ReviewInv
<1> SUFFICES ASSUME Init PROVE ReviewInv
  OBVIOUS
<1> USE ReviewAssumption DEF Init
<1>1. TypeOK
  <2>1. PICK complete \in BOOLEAN : row = Created(versions, complete)
    OBVIOUS
  <2>2. row \in Row
    BY <2>1, StatusList DEF Created, Row, Version, NoVersion
  <2>3. approvals \in Seq(Approval) /\ Len(approvals) = 0
    OBVIOUS
  <2> QED
    BY <2>2, <2>3 DEF TypeOK, Version
<1>2. SeparationOfDuties
  BY DEF SeparationOfDuties
<1>3. CurrentIsNewest /\ AcceptanceBacked
  BY DEF CurrentIsNewest, AcceptanceBacked, Created
<1>4. Justified
  BY DEF Justified, Idle
<1> QED
  BY <1>1, <1>2, <1>3, <1>4 DEF ReviewInv

(* The read of any transaction.                                            *)
LEMMA BeginKeepsInv ==
  ASSUME ReviewInv, NEW r \in Requests, NEW u \in Users, NEW op \in Operations,
         NEW i \in 0..MaxApprovals, NEW p \in Parties,
         Begin(r, op, u, i, p),
         op \in {"APPROVE", "REQUEST_CHANGES"} =>
           i \in DOMAIN approvals /\ approvals[i].submittedBy # u
  PROVE  ReviewInv'
<1> DEFINE t == [op |-> op, actor |-> u, snap |-> row, approval |-> i,
                 versionCount |-> versions, party |-> p]
<1>0. /\ TypeOK
      /\ request' = [request EXCEPT ![r] = t]
      /\ UNCHANGED <<row, versions, signers, approvals, acceptances>>
  BY DEF ReviewInv, Begin
<1>1. t \in Transaction
  BY <1>0 DEF TypeOK, Transaction
<1>2. TypeOK'
  BY <1>0, <1>1 DEF TypeOK
<1>3. SeparationOfDuties' /\ CurrentIsNewest' /\ AcceptanceBacked'
  BY <1>0 DEF ReviewInv, SeparationOfDuties, CurrentIsNewest, AcceptanceBacked
<1>4. Justified'
  <2> SUFFICES ASSUME NEW q \in Requests, request'[q].op # "none"
               PROVE  /\ request'[q].snap.acceptedVersionId # NoVersion =>
                           request'[q].snap.acceptedVersionId \in acceptances
                      /\ request'[q].op \in {"APPROVE", "REQUEST_CHANGES"} =>
                           /\ request'[q].approval \in DOMAIN approvals
                           /\ approvals[request'[q].approval].submittedBy # request'[q].actor
    BY <1>0 DEF Justified
  <2>1. CASE q = r
    <3>1. request'[q] = t
      BY <2>1, <1>0 DEF TypeOK
    <3> QED
      BY <3>1 DEF ReviewInv, AcceptanceBacked
  <2>2. CASE q # r
    BY <2>2, <1>0 DEF TypeOK, ReviewInv, Justified
  <2> QED
    BY <2>1, <2>2
<1> QED
  BY <1>2, <1>3, <1>4 DEF ReviewInv

(* The end of a transaction keeps the others justified, since neither an   *)
(* acceptance row nor the author of an approval ever changes.              *)
LEMMA DoneKeepsJustified ==
  ASSUME ReviewInv, NEW r \in Requests, Done(r),
         acceptances \subseteq acceptances',
         DOMAIN approvals \subseteq DOMAIN approvals',
         \A i \in DOMAIN approvals : approvals'[i].submittedBy = approvals[i].submittedBy
  PROVE  /\ Justified'
         /\ request' \in [Requests -> Transaction \union {Idle}]
<1>0. TypeOK /\ Justified /\ request' = [request EXCEPT ![r] = Idle]
  BY DEF ReviewInv, Done
<1>1. request' \in [Requests -> Transaction \union {Idle}]
  BY <1>0 DEF TypeOK
<1>2. ASSUME NEW q \in Requests, request'[q].op # "none"
      PROVE  request'[q] = request[q]
  BY <1>0, <1>2 DEF TypeOK, Idle
<1>3. Justified'
  BY <1>0, <1>2 DEF Justified
<1> QED
  BY <1>1, <1>3

LEMMA CommitSubmitKeepsInv ==
  ASSUME ReviewInv, NEW r \in Requests, CommitSubmit(r)
  PROVE  ReviewInv'
<1> DEFINE t == request[r]
           a == [versionId |-> t.snap.currentVersionId, submittedBy |-> t.actor,
                 decision |-> "PENDING", decidedBy |-> NoUser]
<1>0. /\ TypeOK /\ SeparationOfDuties /\ CurrentIsNewest /\ AcceptanceBacked /\ Justified
      /\ Len(approvals) < MaxApprovals
      /\ approvals' = Append(approvals, a)
      /\ row' = Persisted(row, Submitted(t.snap))
      /\ Done(r)
      /\ UNCHANGED <<versions, signers, acceptances>>
      /\ t.op = "SUBMIT_FOR_REVIEW"
  BY DEF CommitSubmit, ReviewInv
<1>1. t \in Transaction
  BY <1>0, InFlightType
<1>2. a \in Approval /\ t.snap \in Row
  BY <1>1 DEF Transaction, Row, Approval
<1>3. /\ Submitted(t.snap) \in Row
      /\ Submitted(t.snap).acceptedVersionId = t.snap.acceptedVersionId
  BY <1>2, TransitionTypes DEF Submitted, Row
<1>4. row' \in Row /\ row'.currentVersionId = row.currentVersionId
      /\ row'.acceptedVersionId = t.snap.acceptedVersionId
  BY <1>0, <1>3, PersistedType DEF TypeOK
<1>5. /\ approvals \in Seq(Approval) /\ Len(approvals) \in Nat
      /\ approvals' \in Seq(Approval)
      /\ Len(approvals') = Len(approvals) + 1
      /\ DOMAIN approvals = 1..Len(approvals)
      /\ DOMAIN approvals' = 1..(Len(approvals) + 1)
      /\ \A i \in DOMAIN approvals : approvals'[i] = approvals[i]
      /\ approvals'[Len(approvals) + 1] = a
  BY <1>0, <1>2 DEF TypeOK
<1>6. DOMAIN approvals \subseteq DOMAIN approvals' /\ Len(approvals') <= MaxApprovals
  BY <1>0, <1>5, ReviewAssumption
<1>7. Justified' /\ request' \in [Requests -> Transaction \union {Idle}]
  BY <1>0, <1>5, <1>6, DoneKeepsJustified DEF ReviewInv
<1>8. TypeOK'
  BY <1>0, <1>4, <1>5, <1>6, <1>7 DEF TypeOK
<1>9. SeparationOfDuties'
  <2> SUFFICES ASSUME NEW i \in DOMAIN approvals', approvals'[i].decision # "PENDING"
               PROVE  /\ approvals'[i].decidedBy \in Users
                      /\ approvals'[i].decidedBy # approvals'[i].submittedBy
    BY DEF SeparationOfDuties
  <2>1. i # Len(approvals) + 1
    BY <1>5
  <2>2. i \in DOMAIN approvals
    BY <2>1, <1>5
  <2> QED
    BY <2>2, <1>0, <1>5 DEF SeparationOfDuties
<1>10. AcceptanceBacked'
  BY <1>0, <1>4 DEF Justified, AcceptanceBacked
<1> QED
  BY <1>0, <1>4, <1>7, <1>8, <1>9, <1>10 DEF ReviewInv, CurrentIsNewest

(* A decision, of either kind, on the approval that the transaction read.  *)
LEMMA DecideKeepsInv ==
  ASSUME ReviewInv, NEW r \in Requests,
         request[r].op \in {"APPROVE", "REQUEST_CHANGES"},
         NEW decision \in {"APPROVED", "CHANGES_REQUESTED"},
         Decide(request[r].approval, decision, request[r].actor),
         NEW next \in Row,
         next.acceptedVersionId = request[r].snap.acceptedVersionId,
         row' = Persisted(row, next),
         Done(r),
         UNCHANGED <<versions, signers, acceptances>>
  PROVE  ReviewInv'
<1> DEFINE t == request[r]
           k == t.approval
           d == [approvals[k] EXCEPT !.decision = decision, !.decidedBy = t.actor]
<1>0. TypeOK /\ SeparationOfDuties /\ CurrentIsNewest /\ AcceptanceBacked /\ Justified
  BY DEF ReviewInv
<1>1. t \in Transaction
  BY <1>0, InFlightType
<1>2. k \in DOMAIN approvals /\ approvals[k].submittedBy # t.actor /\ t.actor \in Users
  BY <1>0, <1>1 DEF Justified, Transaction
<1>3. approvals \in Seq(Approval) /\ DOMAIN approvals = 1..Len(approvals)
  BY <1>0 DEF TypeOK
<1>4. /\ approvals' = [approvals EXCEPT ![k] = d]
      /\ approvals[k] \in Approval
  BY <1>2, <1>3 DEF Decide
<1>5. /\ d \in Approval
      /\ d.submittedBy = approvals[k].submittedBy
      /\ d.decidedBy = t.actor
  BY <1>2, <1>4 DEF Approval
<1>6. /\ approvals' \in Seq(Approval) /\ Len(approvals') = Len(approvals)
      /\ DOMAIN approvals' = DOMAIN approvals
      /\ \A i \in DOMAIN approvals : i # k => approvals'[i] = approvals[i]
      /\ approvals'[k] = d
  <2> HIDE DEF d
  <2>1. k \in 1..Len(approvals)
    BY <1>2, <1>3
  <2>2. approvals' \in Seq(Approval) /\ Len(approvals') = Len(approvals)
    BY <2>1, <1>3, <1>4, <1>5, ExceptSeq
  <2>3. DOMAIN approvals' = DOMAIN approvals
    BY <2>2, <1>3
  <2> QED
    BY <2>1, <2>2, <2>3, <1>3, <1>4
<1>7. \A i \in DOMAIN approvals : approvals'[i].submittedBy = approvals[i].submittedBy
  BY <1>5, <1>6
<1>8. Justified' /\ request' \in [Requests -> Transaction \union {Idle}]
  BY <1>6, <1>7, DoneKeepsJustified
<1>9. row' \in Row /\ row'.currentVersionId = row.currentVersionId
      /\ row'.acceptedVersionId = t.snap.acceptedVersionId
  BY <1>0, PersistedType DEF TypeOK
<1>10. TypeOK'
  BY <1>0, <1>6, <1>8, <1>9 DEF TypeOK
<1>11. SeparationOfDuties'
  BY <1>0, <1>2, <1>5, <1>6 DEF SeparationOfDuties
<1>12. AcceptanceBacked'
  BY <1>0, <1>9 DEF Justified, AcceptanceBacked
<1> QED
  BY <1>0, <1>8, <1>9, <1>10, <1>11, <1>12 DEF ReviewInv, CurrentIsNewest

(* A commit that writes the row and, for an acceptance, its proof.         *)
LEMMA RowCommitKeepsInv ==
  ASSUME ReviewInv, NEW r \in Requests, NEW next \in Row, NEW base \in Row,
         row' = Persisted(base, next), Done(r),
         base.currentVersionId = versions', versions' \in Version,
         acceptances \subseteq acceptances', acceptances' \subseteq Version,
         next.acceptedVersionId # NoVersion => next.acceptedVersionId \in acceptances',
         UNCHANGED <<signers, approvals>>
  PROVE  ReviewInv'
<1>0. TypeOK /\ SeparationOfDuties /\ approvals' = approvals
  BY DEF ReviewInv
<1>1. row' \in Row /\ row'.currentVersionId = versions'
      /\ row'.acceptedVersionId = next.acceptedVersionId
  BY PersistedType
<1>2. Justified' /\ request' \in [Requests -> Transaction \union {Idle}]
  BY <1>0, DoneKeepsJustified
<1>3. TypeOK'
  BY <1>0, <1>1, <1>2 DEF TypeOK
<1>4. SeparationOfDuties' /\ CurrentIsNewest' /\ AcceptanceBacked'
  BY <1>0, <1>1 DEF SeparationOfDuties, CurrentIsNewest, AcceptanceBacked
<1> QED
  BY <1>2, <1>3, <1>4 DEF ReviewInv

LEMMA CommitSaveContentKeepsInv ==
  ASSUME ReviewInv, NEW r \in Requests, CommitSaveContent(r)
  PROVE  ReviewInv'
<1> DEFINE t == request[r]
<1>0. TypeOK /\ Justified /\ t.op = "EDIT_CONTENT"
  BY DEF CommitSaveContent, ReviewInv
<1>1. PICK complete \in BOOLEAN :
        row' = Persisted([row EXCEPT !.currentVersionId = versions + 1,
                                     !.complete = complete],
                         Edited(t.snap))
  BY DEF CommitSaveContent
<1> DEFINE base == [row EXCEPT !.currentVersionId = versions + 1, !.complete = complete]
<1>2. /\ versions' = versions + 1 /\ versions' \in Version
      /\ Done(r) /\ UNCHANGED <<signers, approvals, acceptances>>
  BY <1>0, ReviewAssumption DEF CommitSaveContent, TypeOK, Version
<1>3. t.snap \in Row
  BY <1>0, InFlightType DEF Transaction
<1>4. base \in Row /\ base.currentVersionId = versions'
  BY <1>0, <1>2 DEF TypeOK, Row
<1>5. Edited(t.snap) \in Row /\ Edited(t.snap).acceptedVersionId = t.snap.acceptedVersionId
  <2>1. NoVersion \in Version
    BY ReviewAssumption DEF NoVersion, Version
  <2>2. Edited(t.snap) \in Row
    BY <1>3, <2>1, TransitionTypes
  <2> QED
    BY <1>3, <2>2 DEF Edited, Row
<1>6. t.snap.acceptedVersionId # NoVersion => t.snap.acceptedVersionId \in acceptances
  BY <1>0 DEF Justified
<1> HIDE DEF base
<1>7. row' = Persisted(base, Edited(t.snap))
  BY <1>1 DEF base
<1>8. acceptances' = acceptances /\ acceptances \subseteq Version
  BY <1>0, <1>2 DEF TypeOK
<1> QED
  BY <1>2, <1>4, <1>5, <1>6, <1>7, <1>8, RowCommitKeepsInv

(* The commits that write the row alone, or an acceptance with it.         *)
LEMMA RowStepsKeepInv ==
  ASSUME ReviewInv, NEW r \in Requests,
         \/ CommitSendToClient(r) \/ CommitAccept(r)
         \/ CommitNegotiate(r) \/ CommitCancel(r)
  PROVE  ReviewInv'
<1> DEFINE t == request[r]
           v == t.snap.currentVersionId
<1>0. /\ TypeOK /\ Justified /\ t.op # "none"
      /\ versions' = versions /\ UNCHANGED <<signers, approvals>> /\ Done(r)
  BY DEF ReviewInv, CommitSendToClient, CommitAccept, CommitNegotiate, CommitCancel
<1>1. t.snap \in Row /\ v \in Version
  BY <1>0, InFlightType DEF Transaction, Row
<1>2. /\ SentToClient(t.snap) \in Row /\ Accepted(t.snap, v) \in Row
      /\ InNegotiation(t.snap) \in Row /\ Cancelled(t.snap) \in Row
  BY <1>1, TransitionTypes
<1>3. row \in Row /\ row.currentVersionId = versions' /\ versions' \in Version
      /\ acceptances \subseteq Version
  BY <1>0 DEF TypeOK, ReviewInv, CurrentIsNewest
<1>4. CASE CommitSendToClient(r)
  <2>1. SentToClient(t.snap).acceptedVersionId = NoVersion
    BY <1>1 DEF SentToClient, Row
  <2>2. row' = Persisted(row, SentToClient(t.snap)) /\ acceptances' = acceptances
    BY <1>4 DEF CommitSendToClient
  <2> QED
    BY <1>0, <1>2, <1>3, <2>1, <2>2, RowCommitKeepsInv
<1>5. CASE CommitAccept(r)
  <2>1. Accepted(t.snap, v).acceptedVersionId = v
    BY <1>1 DEF Accepted, Row
  <2>2. row' = Persisted(row, Accepted(t.snap, v)) /\ acceptances' = acceptances \union {v}
    BY <1>5 DEF CommitAccept
  <2> QED
    BY <1>0, <1>1, <1>2, <1>3, <2>1, <2>2, RowCommitKeepsInv
<1>6. CASE CommitNegotiate(r)
  <2>1. InNegotiation(t.snap).acceptedVersionId = NoVersion
    BY <1>1 DEF InNegotiation, Row
  <2>2. row' = Persisted(row, InNegotiation(t.snap)) /\ acceptances' = acceptances
    BY <1>6 DEF CommitNegotiate
  <2> QED
    BY <1>0, <1>2, <1>3, <2>1, <2>2, RowCommitKeepsInv
<1>7. CASE CommitCancel(r)
  <2>1. Cancelled(t.snap).acceptedVersionId = t.snap.acceptedVersionId
    BY <1>1 DEF Cancelled, Row
  <2>2. row' = Persisted(row, Cancelled(t.snap)) /\ acceptances' = acceptances
    BY <1>7 DEF CommitCancel
  <2>3. t.snap.acceptedVersionId # NoVersion => t.snap.acceptedVersionId \in acceptances
    BY <1>0 DEF Justified
  <2> QED
    BY <1>0, <1>2, <1>3, <2>1, <2>2, <2>3, RowCommitKeepsInv
<1> QED
  BY <1>4, <1>5, <1>6, <1>7

LEMMA ReadKeepsInv ==
  ASSUME ReviewInv, NEW r \in Requests, Read(r)
  PROVE  ReviewInv'
<1>0. 0 \in 0..MaxApprovals /\ "LSI" \in Parties
  BY ReviewAssumption DEF Parties
<1>1. PICK u \in Users :
        \/ BeginSubmit(r, u) \/ BeginApprove(r, u) \/ BeginRequestChanges(r, u)
        \/ BeginSaveContent(r, u) \/ BeginSendToClient(r, u) \/ BeginAccept(r, u)
        \/ BeginNegotiate(r, u) \/ BeginCancel(r, u)
        \/ \E p \in Parties : BeginAddSigner(r, u, p) \/ BeginRemoveSigner(r, u, p)
  BY DEF Read
<1>2. ASSUME NEW op \in Operations \ {"APPROVE", "REQUEST_CHANGES"}, NEW p \in Parties,
             Begin(r, op, u, 0, p)
      PROVE  ReviewInv'
  BY <1>0, <1>2, BeginKeepsInv
<1>3. ASSUME NEW op \in {"APPROVE", "REQUEST_CHANGES"}, NEW i \in DOMAIN approvals,
             approvals[i].submittedBy # u, Begin(r, op, u, i, "LSI")
      PROVE  ReviewInv'
  <2>1. i \in 0..MaxApprovals
    BY <1>3, ReviewAssumption DEF ReviewInv, TypeOK
  <2>2. op \in Operations
    BY <1>3 DEF Operations
  <2> QED
    BY <1>0, <1>3, <2>1, <2>2, BeginKeepsInv
<1>4. CASE BeginApprove(r, u) \/ BeginRequestChanges(r, u)
  BY <1>3, <1>4 DEF BeginApprove, BeginRequestChanges, CanApprove, CanRequestChanges
<1>5. CASE BeginSubmit(r, u) \/ BeginSaveContent(r, u) \/ BeginSendToClient(r, u)
        \/ BeginAccept(r, u) \/ BeginNegotiate(r, u) \/ BeginCancel(r, u)
  BY <1>0, <1>2, <1>5 DEF BeginSubmit, BeginSaveContent, BeginSendToClient, BeginAccept,
       BeginNegotiate, BeginCancel, Start, Operations
<1>6. CASE \E p \in Parties : BeginAddSigner(r, u, p) \/ BeginRemoveSigner(r, u, p)
  BY <1>2, <1>6 DEF BeginAddSigner, BeginRemoveSigner, Operations
<1> QED
  BY <1>1, <1>4, <1>5, <1>6

LEMMA CommitKeepsInv ==
  ASSUME ReviewInv, NEW r \in Requests, Commit(r) \/ Rollback(r)
  PROVE  ReviewInv'
<1> DEFINE t == request[r]
<1>1. ASSUME t.op # "none"
      PROVE  t.snap \in Row /\ Approved(t.snap) \in Row /\ ChangesRequested(t.snap) \in Row
  <2>1. t.snap \in Row
    BY <1>1, InFlightType DEF ReviewInv, Transaction
  <2>2. NoVersion \in Version
    BY ReviewAssumption DEF NoVersion, Version
  <2> QED
    BY <2>1, <2>2, TransitionTypes
<1>2. CASE CommitSubmit(r)
  BY <1>2, CommitSubmitKeepsInv
<1>3. CASE CommitApprove(r)
  <2>1. t.op = "APPROVE" /\ Decide(t.approval, "APPROVED", t.actor)
        /\ row' = Persisted(row, Approved(t.snap)) /\ Done(r)
        /\ UNCHANGED <<versions, signers, acceptances>>
    BY <1>3 DEF CommitApprove
  <2>2. Approved(t.snap).acceptedVersionId = t.snap.acceptedVersionId
    BY <1>1, <2>1 DEF Approved, Row
  <2> QED
    BY <1>1, <2>1, <2>2, DecideKeepsInv
<1>4. CASE CommitRequestChanges(r)
  <2>1. t.op = "REQUEST_CHANGES" /\ Decide(t.approval, "CHANGES_REQUESTED", t.actor)
        /\ row' = Persisted(row, ChangesRequested(t.snap)) /\ Done(r)
        /\ UNCHANGED <<versions, signers, acceptances>>
    BY <1>4 DEF CommitRequestChanges
  <2>2. ChangesRequested(t.snap).acceptedVersionId = t.snap.acceptedVersionId
    BY <1>1, <2>1 DEF ChangesRequested, Row
  <2> QED
    BY <1>1, <2>1, <2>2, DecideKeepsInv
<1>5. CASE CommitSaveContent(r)
  BY <1>5, CommitSaveContentKeepsInv
<1>6. CASE CommitSendToClient(r) \/ CommitAccept(r) \/ CommitNegotiate(r) \/ CommitCancel(r)
  BY <1>6, RowStepsKeepInv
<1>7. CASE CommitAddSigner(r) \/ CommitRemoveSigner(r) \/ Rollback(r)
  <2>1. /\ Done(r) /\ UNCHANGED <<row, versions, approvals, acceptances>>
        /\ signers' \subseteq signers \union {t.party}
        /\ t.op \in {"ADD_SIGNER", "REMOVE_SIGNER"} \/ signers' = signers
    BY <1>7 DEF CommitAddSigner, CommitRemoveSigner, Rollback
  <2>2. Justified' /\ request' \in [Requests -> Transaction \union {Idle}]
    BY <2>1, DoneKeepsJustified
  <2>3. signers' \subseteq Parties
    BY <2>1, InFlightType DEF ReviewInv, TypeOK, Transaction
  <2>4. TypeOK'
    BY <2>1, <2>2, <2>3 DEF ReviewInv, TypeOK
  <2> QED
    BY <2>1, <2>2, <2>4 DEF ReviewInv, SeparationOfDuties, CurrentIsNewest, AcceptanceBacked
<1> QED
  BY <1>2, <1>3, <1>4, <1>5, <1>6, <1>7 DEF Commit

(* However many transactions overlap on the contract, the rows stay well   *)
(* typed, nobody approves or rejects his own submission, the row points at *)
(* the newest content, and a recorded acceptance has its proof.            *)
THEOREM ReviewSafe ==
  Spec => [](TypeOK /\ SeparationOfDuties /\ CurrentIsNewest /\ AcceptanceBacked)
<1>1. Init => ReviewInv
  BY ReviewInit
<1>2. ReviewInv /\ [Next]_reviewVars => ReviewInv'
  <2> SUFFICES ASSUME ReviewInv, [Next]_reviewVars PROVE ReviewInv'
    OBVIOUS
  <2>1. CASE Next
    BY <2>1, ReadKeepsInv, CommitKeepsInv DEF Next
  <2>2. CASE UNCHANGED reviewVars
    BY <2>2 DEF reviewVars, ReviewInv, TypeOK, SeparationOfDuties, CurrentIsNewest,
                AcceptanceBacked, Justified
  <2> QED
    BY <2>1, <2>2
<1>3. ReviewInv => TypeOK /\ SeparationOfDuties /\ CurrentIsNewest /\ AcceptanceBacked
  BY DEF ReviewInv
<1> QED
  BY <1>1, <1>2, <1>3, PTL DEF Spec

(* The current version is the newest, whatever saves overlap.              *)
COROLLARY CurrentStaysNewest == Spec => []CurrentIsNewest
  BY ReviewSafe, PTL

(* An accepted version has its acceptance row, whatever transactions       *)
(* overlap the acceptance.                                                 *)
COROLLARY AcceptanceStaysBacked == Spec => []AcceptanceBacked
  BY ReviewSafe, PTL

-----------------------------------------------------------------------------
(* Transactions that do not overlap: at most one request.                  *)
Serial == \A r, q \in Requests : r = q

(* What the transaction in flight read is still what the row says, so its  *)
(* guard still holds when it writes.                                       *)
Fresh ==
  \A r \in Requests :
    request[r].op # "none" =>
      /\ request[r].snap = row
      /\ request[r].op = "SUBMIT_FOR_REVIEW" =>
           Admits(row, "SUBMIT_FOR_REVIEW") /\ row.currentVersionId # NoVersion
      /\ request[r].op \in {"APPROVE", "REQUEST_CHANGES"} =>
           row.status = "IN_REVIEW" /\ request[r].approval \in Pending
      /\ request[r].op = "EDIT_CONTENT" => CanEdit(row)
      /\ request[r].op = "SEND_TO_CLIENT" => CanSendToClient(row)
      /\ request[r].op = "CLIENT_ACCEPT" => CanAccept(row, row.currentVersionId)
      /\ request[r].op = "OPEN_NEGOTIATION" => CanNegotiate(row)
      /\ request[r].op = "CANCEL" => CanCancel(row)

Reviewed ==
  /\ ApprovedVersionReviewed /\ PresentedIsApproved /\ PendingMatchesReview
  /\ row.status = "IN_REVIEW" => row.currentVersionId # NoVersion

SerialInv == ReviewInv /\ Fresh /\ Reviewed

LEMMA SerialInit == Init => SerialInv
<1> SUFFICES ASSUME Init PROVE SerialInv
  OBVIOUS
<1>1. PICK complete \in BOOLEAN : row = Created(versions, complete)
  BY DEF Init
<1>2. Pending = {}
  BY DEF Init, Pending
<1>3. Reviewed
  BY <1>1, <1>2 DEF Reviewed, ApprovedVersionReviewed, PresentedIsApproved,
       PendingMatchesReview, Created
<1>4. Fresh
  BY DEF Fresh, Init, Idle
<1> QED
  BY <1>3, <1>4, ReviewInit DEF SerialInv

LEMMA ReadKeepsFresh ==
  ASSUME Serial, SerialInv, NEW r \in Requests, Read(r)
  PROVE  SerialInv'
<1>0. TypeOK /\ row.status \in Statuses
  BY DEF SerialInv, ReviewInv, TypeOK, Row
<1>1. ReviewInv'
  BY ReadKeepsInv DEF SerialInv
<1>2. PICK u \in Users :
        \/ BeginSubmit(r, u) \/ BeginApprove(r, u) \/ BeginRequestChanges(r, u)
        \/ BeginSaveContent(r, u) \/ BeginSendToClient(r, u) \/ BeginAccept(r, u)
        \/ BeginNegotiate(r, u) \/ BeginCancel(r, u)
        \/ \E p \in Parties : BeginAddSigner(r, u, p) \/ BeginRemoveSigner(r, u, p)
  BY DEF Read
<1>3. PICK op \in Operations, i \in Nat, p \in Parties :
        /\ Begin(r, op, u, i, p)
        /\ op = "SUBMIT_FOR_REVIEW" =>
             Admits(row, "SUBMIT_FOR_REVIEW") /\ row.currentVersionId # NoVersion
        /\ op \in {"APPROVE", "REQUEST_CHANGES"} => row.status = "IN_REVIEW" /\ i \in Pending
        /\ op = "EDIT_CONTENT" => CanEdit(row)
        /\ op = "SEND_TO_CLIENT" => CanSendToClient(row)
        /\ op = "CLIENT_ACCEPT" => CanAccept(row, row.currentVersionId)
        /\ op = "OPEN_NEGOTIATION" => CanNegotiate(row)
        /\ op = "CANCEL" => CanCancel(row)
  <2>0. "LSI" \in Parties /\ DOMAIN approvals \subseteq Nat
    BY <1>0 DEF Parties, TypeOK
  <2>1. CASE BeginSubmit(r, u)
    BY <2>0, <2>1 DEF BeginSubmit, Start, CanSubmit, Operations
  <2>2. CASE BeginApprove(r, u)
    BY <2>0, <2>2, <1>0, EventSources DEF BeginApprove, CanApprove, Latest, Operations
  <2>3. CASE BeginRequestChanges(r, u)
    BY <2>0, <2>3, <1>0, EventSources DEF BeginRequestChanges, CanRequestChanges, Latest, Operations
  <2>4. CASE BeginSaveContent(r, u)
    BY <2>0, <2>4 DEF BeginSaveContent, Start, Operations
  <2>5. CASE BeginSendToClient(r, u)
    BY <2>0, <2>5 DEF BeginSendToClient, Start, Operations
  <2>6. CASE BeginAccept(r, u)
    BY <2>0, <2>6 DEF BeginAccept, Start, Operations
  <2>7. CASE BeginNegotiate(r, u)
    BY <2>0, <2>7 DEF BeginNegotiate, Start, Operations
  <2>8. CASE BeginCancel(r, u)
    BY <2>0, <2>8 DEF BeginCancel, Start, Operations
  <2>9. CASE \E p \in Parties : BeginAddSigner(r, u, p) \/ BeginRemoveSigner(r, u, p)
    BY <2>0, <2>9 DEF BeginAddSigner, BeginRemoveSigner, Operations
  <2> QED
    BY <1>2, <2>1, <2>2, <2>3, <2>4, <2>5, <2>6, <2>7, <2>8, <2>9
<1> DEFINE t == [op |-> op, actor |-> u, snap |-> row, approval |-> i,
                 versionCount |-> versions, party |-> p]
<1>4. /\ request'[r] = t
      /\ UNCHANGED <<row, versions, signers, approvals, acceptances>>
  BY <1>0, <1>3 DEF Begin, TypeOK
<1>5. Fresh'
  <2> SUFFICES ASSUME NEW q \in Requests, q = r
               PROVE  Fresh!(q)'
    BY DEF Fresh, Serial
  <2>1. /\ request'[q].op = op /\ request'[q].snap = row /\ request'[q].approval = i
    BY <1>4
  <2> HIDE DEF t
  <2> QED
    BY <1>3, <1>4, <2>1 DEF Pending, CanEdit, CanSendToClient, CanAccept, CanNegotiate,
         CanCancel, Admits, CurrentIsApproved
<1>6. Reviewed'
  BY <1>4 DEF SerialInv, Reviewed, ApprovedVersionReviewed, PresentedIsApproved,
       PendingMatchesReview, Pending, CurrentIsApproved
<1> QED
  BY <1>1, <1>5, <1>6 DEF SerialInv

(* The steps of a decision: it settles the only pending approval.          *)
LEMMA DecideSettles ==
  ASSUME TypeOK, NEW i \in Pending, Pending = {i},
         NEW decision \in {"APPROVED", "CHANGES_REQUESTED"}, NEW u \in Users,
         Decide(i, decision, u)
  PROVE  /\ DOMAIN approvals' = DOMAIN approvals
         /\ Pending' = {}
         /\ approvals'[i].decision = decision
         /\ approvals'[i].versionId = approvals[i].versionId
         /\ \A j \in DOMAIN approvals : j # i => approvals'[j] = approvals[j]
<1> DEFINE d == [approvals[i] EXCEPT !.decision = decision, !.decidedBy = u]
<1>1. i \in DOMAIN approvals /\ approvals[i] \in Approval
  BY DEF Pending, TypeOK
<1>2. approvals' = [approvals EXCEPT ![i] = d]
  BY DEF Decide
<1>3. d.decision = decision /\ d.versionId = approvals[i].versionId
  BY <1>1 DEF Approval
<1> HIDE DEF d
<1>4. /\ DOMAIN approvals' = DOMAIN approvals
      /\ approvals'[i] = d
      /\ \A j \in DOMAIN approvals : j # i => approvals'[j] = approvals[j]
  BY <1>1, <1>2
<1>5. Pending' = {}
  BY <1>3, <1>4 DEF Pending
<1> QED
  BY <1>3, <1>4, <1>5

(* A commit that leaves the approvals alone and does not touch the         *)
(* approved version, or clears it, keeps the review sound when the new     *)
(* status asks for no more than the old one did.                           *)
LEMMA QuietCommit ==
  ASSUME Reviewed, UNCHANGED approvals, row.status # "IN_REVIEW",
         row'.approvedVersionId \in {row.approvedVersionId, NoVersion},
         row'.status # "IN_REVIEW",
         row'.status \in {"APPROVED", "SENT_TO_CLIENT", "ACCEPTED"} => CurrentIsApproved(row'),
         row'.status = "CANCELLED" \/ row.status # "CANCELLED"
  PROVE  Reviewed'
<1>1. Pending' = Pending
  BY DEF Pending
<1>2. ApprovedVersionReviewed'
  BY DEF Reviewed, ApprovedVersionReviewed
<1>3. PresentedIsApproved'
  BY DEF PresentedIsApproved, CurrentIsApproved
<1>4. PendingMatchesReview'
  BY <1>1 DEF Reviewed, PendingMatchesReview
<1> QED
  BY <1>2, <1>3, <1>4 DEF Reviewed

(* What a commit may do to the row and to the approvals.                   *)
Respectful ==
  /\ row.status \in TerminalStatuses => row'.status = row.status
  /\ \A i \in DOMAIN approvals :
       approvals[i].decision # "PENDING" => approvals'[i] = approvals[i]

LEMMA SerialSubmit ==
  ASSUME SerialInv, NEW r \in Requests, CommitSubmit(r)
  PROVE  Reviewed' /\ Respectful
<1> DEFINE a == [versionId |-> row.currentVersionId, submittedBy |-> request[r].actor,
                 decision |-> "PENDING", decidedBy |-> NoUser]
<1>0. /\ TypeOK /\ Reviewed /\ request[r].snap = row
      /\ Admits(row, "SUBMIT_FOR_REVIEW") /\ row.currentVersionId # NoVersion
      /\ row \in Row
  BY DEF CommitSubmit, SerialInv, ReviewInv, Fresh, TypeOK
<1>1. /\ row.status \in {"DRAFT", "CHANGES_REQUESTED", "IN_NEGOTIATION"}
      /\ row.status \notin TerminalStatuses
  BY <1>0, EventSources DEF Row, TerminalStatuses
<1>2. Pending = {}
  BY <1>0, <1>1 DEF Reviewed, PendingMatchesReview
<1>3. /\ row'.status = "IN_REVIEW"
      /\ row'.currentVersionId = row.currentVersionId
      /\ row'.approvedVersionId = row.approvedVersionId
  BY <1>0 DEF CommitSubmit, Persisted, Submitted, Row
<1>4. approvals' = Append(approvals, a)
  BY <1>0 DEF CommitSubmit
<1> HIDE DEF a
<1>5. /\ Len(approvals) \in Nat
      /\ DOMAIN approvals = 1..Len(approvals)
      /\ DOMAIN approvals' = 1..(Len(approvals) + 1)
      /\ \A i \in DOMAIN approvals : approvals'[i] = approvals[i]
      /\ approvals'[Len(approvals) + 1] = a
  BY <1>0, <1>4 DEF TypeOK
<1>6. Pending' = {Len(approvals) + 1}
  <2>1. ASSUME NEW i \in Pending' PROVE i = Len(approvals) + 1
    BY <1>2, <1>5 DEF Pending
  <2>2. Len(approvals) + 1 \in Pending'
    BY <1>5 DEF Pending, a
  <2> QED
    BY <2>1, <2>2
<1>7. ApprovedVersionReviewed'
  <2> SUFFICES ASSUME row.approvedVersionId # NoVersion
               PROVE  \E i \in DOMAIN approvals' :
                        /\ approvals'[i].decision = "APPROVED"
                        /\ approvals'[i].versionId = row.approvedVersionId
    BY <1>3 DEF ApprovedVersionReviewed
  <2>1. PICK i \in DOMAIN approvals :
          approvals[i].decision = "APPROVED" /\ approvals[i].versionId = row.approvedVersionId
    BY <1>0 DEF Reviewed, ApprovedVersionReviewed
  <2>2. i \in DOMAIN approvals' /\ approvals'[i] = approvals[i]
    BY <1>5
  <2> QED
    BY <2>1, <2>2
<1>8. PendingMatchesReview'
  BY <1>3, <1>5, <1>6 DEF PendingMatchesReview, a
<1> QED
  BY <1>0, <1>1, <1>3, <1>5, <1>7, <1>8 DEF Reviewed, PresentedIsApproved, Respectful

LEMMA SerialDecide ==
  ASSUME SerialInv, NEW r \in Requests, CommitApprove(r) \/ CommitRequestChanges(r)
  PROVE  Reviewed' /\ Respectful
<1> DEFINE i == request[r].approval
           u == request[r].actor
<1>0. /\ TypeOK /\ Reviewed /\ request[r].snap = row /\ row.status = "IN_REVIEW"
      /\ i \in Pending /\ row \in Row /\ request[r].op # "none"
  BY DEF CommitApprove, CommitRequestChanges, SerialInv, ReviewInv, Fresh, TypeOK
<1>1. u \in Users
  BY <1>0, InFlightType DEF Transaction
<1>2. /\ Pending = {i} /\ approvals[i].versionId = row.currentVersionId
      /\ row.currentVersionId # NoVersion
      /\ i \in DOMAIN approvals /\ approvals[i].decision = "PENDING"
  BY <1>0 DEF Reviewed, PendingMatchesReview, Pending
<1> HIDE DEF i, u
<1>3. CASE CommitApprove(r)
  <2>1. Decide(i, "APPROVED", u)
    BY <1>3 DEF CommitApprove, i, u
  <2>2. /\ DOMAIN approvals' = DOMAIN approvals
        /\ Pending' = {}
        /\ approvals'[i].decision = "APPROVED"
        /\ approvals'[i].versionId = row.currentVersionId
        /\ \A j \in DOMAIN approvals : j # i => approvals'[j] = approvals[j]
    BY <1>0, <1>1, <1>2, <2>1, DecideSettles
  <2>3. /\ row'.status = "APPROVED"
        /\ row'.currentVersionId = row.currentVersionId
        /\ row'.approvedVersionId = row.currentVersionId
    BY <1>0, <1>3 DEF CommitApprove, Persisted, Approved, Row
  <2>4. ApprovedVersionReviewed'
    BY <1>2, <2>2, <2>3 DEF ApprovedVersionReviewed
  <2>5. PresentedIsApproved' /\ PendingMatchesReview'
    BY <1>2, <2>2, <2>3 DEF PresentedIsApproved, CurrentIsApproved, PendingMatchesReview
  <2> QED
    BY <1>0, <1>2, <2>2, <2>3, <2>4, <2>5 DEF Reviewed, Respectful, TerminalStatuses
<1>4. CASE CommitRequestChanges(r)
  <2>1. Decide(i, "CHANGES_REQUESTED", u)
    BY <1>4 DEF CommitRequestChanges, i, u
  <2>2. /\ DOMAIN approvals' = DOMAIN approvals
        /\ Pending' = {}
        /\ \A j \in DOMAIN approvals : j # i => approvals'[j] = approvals[j]
    BY <1>0, <1>1, <1>2, <2>1, DecideSettles
  <2>3. /\ row'.status = "CHANGES_REQUESTED"
        /\ row'.approvedVersionId = row.approvedVersionId
    BY <1>0, <1>4 DEF CommitRequestChanges, Persisted, ChangesRequested, Row
  <2>4. ApprovedVersionReviewed'
    <3> SUFFICES ASSUME row.approvedVersionId # NoVersion
                 PROVE  \E j \in DOMAIN approvals' :
                          /\ approvals'[j].decision = "APPROVED"
                          /\ approvals'[j].versionId = row.approvedVersionId
      BY <2>3 DEF ApprovedVersionReviewed
    <3>1. PICK j \in DOMAIN approvals :
            approvals[j].decision = "APPROVED" /\ approvals[j].versionId = row.approvedVersionId
      BY <1>0 DEF Reviewed, ApprovedVersionReviewed
    <3>2. approvals'[j] = approvals[j]
      BY <3>1, <1>2, <2>2
    <3> QED
      BY <3>1, <3>2, <2>2
  <2>5. PresentedIsApproved' /\ PendingMatchesReview'
    BY <2>2, <2>3 DEF PresentedIsApproved, PendingMatchesReview
  <2> QED
    BY <1>0, <1>2, <2>2, <2>3, <2>4, <2>5 DEF Reviewed, Respectful, TerminalStatuses
<1> QED
  BY <1>3, <1>4

LEMMA SerialSaveContent ==
  ASSUME SerialInv, NEW r \in Requests, CommitSaveContent(r)
  PROVE  Reviewed' /\ Respectful
<1>0. /\ TypeOK /\ Reviewed /\ request[r].snap = row /\ CanEdit(row) /\ row \in Row
      /\ approvals' = approvals
  BY DEF CommitSaveContent, SerialInv, ReviewInv, Fresh, TypeOK
<1>1. row.status \in {"DRAFT", "CHANGES_REQUESTED", "IN_NEGOTIATION", "APPROVED"}
  BY <1>0 DEF CanEdit, EditableStatuses
<1>2. PICK complete \in BOOLEAN :
        row' = Persisted([row EXCEPT !.currentVersionId = versions + 1,
                                     !.complete = complete],
                         Edited(row))
  BY <1>0 DEF CommitSaveContent
<1>3. /\ Edited(row).status \in {"DRAFT", "CHANGES_REQUESTED", "IN_NEGOTIATION"}
      /\ Edited(row).approvedVersionId \in {row.approvedVersionId, NoVersion}
  BY <1>0, <1>1 DEF Edited, Row
<1>4. /\ row'.status = Edited(row).status
      /\ row'.approvedVersionId = Edited(row).approvedVersionId
  BY <1>0, <1>2 DEF Persisted, Row
<1>5. Reviewed'
  BY <1>0, <1>1, <1>3, <1>4, QuietCommit
<1> QED
  BY <1>0, <1>1, <1>5 DEF Respectful, TerminalStatuses

LEMMA SerialRow ==
  ASSUME SerialInv, NEW r \in Requests,
         \/ CommitSendToClient(r) \/ CommitAccept(r)
         \/ CommitNegotiate(r) \/ CommitCancel(r)
  PROVE  Reviewed' /\ Respectful
<1>0. /\ TypeOK /\ Reviewed /\ request[r].snap = row /\ row \in Row
      /\ approvals' = approvals /\ row.status \in Statuses
  BY DEF CommitSendToClient, CommitAccept, CommitNegotiate, CommitCancel, SerialInv,
         ReviewInv, Fresh, TypeOK, Row
<1>1. CASE CommitSendToClient(r)
  <2>1. CanSendToClient(row)
    BY <1>1 DEF CommitSendToClient, SerialInv, Fresh
  <2>2. row.status \in {"APPROVED", "IN_NEGOTIATION"} /\ CurrentIsApproved(row)
    BY <1>0, <2>1, EventSources DEF CanSendToClient
  <2>3. /\ row'.status = "SENT_TO_CLIENT"
        /\ row'.currentVersionId = row.currentVersionId
        /\ row'.approvedVersionId = row.approvedVersionId
    BY <1>0, <1>1 DEF CommitSendToClient, Persisted, SentToClient, Row
  <2>4. Reviewed'
    BY <1>0, <2>2, <2>3, QuietCommit DEF CurrentIsApproved
  <2> QED
    BY <1>0, <2>2, <2>4 DEF Respectful, TerminalStatuses
<1>2. CASE CommitAccept(r)
  <2>1. CanAccept(row, row.currentVersionId)
    BY <1>2 DEF CommitAccept, SerialInv, Fresh
  <2>2. row.status = "SENT_TO_CLIENT"
    BY <1>0, <2>1, EventSources DEF CanAccept
  <2>3. /\ row'.status = "ACCEPTED"
        /\ row'.currentVersionId = row.currentVersionId
        /\ row'.approvedVersionId = row.approvedVersionId
    BY <1>0, <1>2 DEF CommitAccept, Persisted, Accepted, Row
  <2>4. CurrentIsApproved(row)
    BY <1>0, <2>2 DEF Reviewed, PresentedIsApproved
  <2>5. Reviewed'
    BY <1>0, <2>2, <2>3, <2>4, QuietCommit DEF CurrentIsApproved
  <2> QED
    BY <1>0, <2>2, <2>5 DEF Respectful, TerminalStatuses
<1>3. CASE CommitNegotiate(r)
  <2>1. CanNegotiate(row)
    BY <1>3 DEF CommitNegotiate, SerialInv, Fresh
  <2>2. row.status \in {"SENT_TO_CLIENT", "ACCEPTED", "DECLINED", "SIGNATURE_EXPIRED"}
    BY <1>0, <2>1, EventSources
  <2>3. /\ row'.status = "IN_NEGOTIATION"
        /\ row'.approvedVersionId = row.approvedVersionId
    BY <1>0, <1>3 DEF CommitNegotiate, Persisted, InNegotiation, Row
  <2>4. Reviewed'
    BY <1>0, <2>2, <2>3, QuietCommit
  <2> QED
    BY <1>0, <2>2, <2>4 DEF Respectful, TerminalStatuses
<1>4. CASE CommitCancel(r)
  <2>1. CanCancel(row)
    BY <1>4 DEF CommitCancel, SerialInv, Fresh
  <2>2. row.status \notin TerminalStatuses
    BY <1>0, <2>1, EventSources
  <2>3. /\ row'.status = "CANCELLED"
        /\ row'.approvedVersionId = row.approvedVersionId
    BY <1>0, <1>4 DEF CommitCancel, Persisted, Cancelled, Row
  <2>4. Reviewed'
    BY <1>0, <2>3 DEF Reviewed, ApprovedVersionReviewed, PresentedIsApproved,
         PendingMatchesReview
  <2> QED
    BY <1>0, <2>2, <2>4 DEF Respectful
<1> QED
  BY <1>1, <1>2, <1>3, <1>4

LEMMA CommitKeepsSerialInv ==
  ASSUME Serial, SerialInv, NEW r \in Requests, Commit(r) \/ Rollback(r)
  PROVE  SerialInv' /\ Respectful
<1>1. ReviewInv'
  BY CommitKeepsInv DEF SerialInv
<1>2. Done(r)
  BY DEF Commit, CommitSubmit, CommitApprove, CommitRequestChanges, CommitSaveContent,
         CommitSendToClient, CommitAccept, CommitNegotiate, CommitCancel, CommitAddSigner,
         CommitRemoveSigner, Rollback
<1>3. request'[r] = Idle
  BY <1>2 DEF Done, SerialInv, ReviewInv, TypeOK
<1>4. Fresh'
  <2> SUFFICES ASSUME NEW q \in Requests, q = r PROVE Fresh!(q)'
    BY DEF Fresh, Serial
  <2> QED
    BY <1>3 DEF Idle
<1>5. CASE CommitAddSigner(r) \/ CommitRemoveSigner(r) \/ Rollback(r)
  <2>1. UNCHANGED <<row, approvals>>
    BY <1>5 DEF CommitAddSigner, CommitRemoveSigner, Rollback
  <2>2. Reviewed'
    BY <2>1 DEF SerialInv, Reviewed, ApprovedVersionReviewed, PresentedIsApproved,
         PendingMatchesReview, Pending, CurrentIsApproved
  <2> QED
    BY <1>1, <1>4, <2>1, <2>2 DEF SerialInv, Respectful
<1>6. CASE CommitSubmit(r)
  BY <1>1, <1>4, <1>6, SerialSubmit DEF SerialInv
<1>7. CASE CommitApprove(r) \/ CommitRequestChanges(r)
  BY <1>1, <1>4, <1>7, SerialDecide DEF SerialInv
<1>8. CASE CommitSaveContent(r)
  BY <1>1, <1>4, <1>8, SerialSaveContent DEF SerialInv
<1>9. CASE CommitSendToClient(r) \/ CommitAccept(r) \/ CommitNegotiate(r) \/ CommitCancel(r)
  BY <1>1, <1>4, <1>9, SerialRow DEF SerialInv
<1> QED
  BY <1>5, <1>6, <1>7, <1>8, <1>9 DEF Commit

LEMMA SerialStep ==
  ASSUME Serial, SerialInv, [Next]_reviewVars
  PROVE  SerialInv' /\ Respectful
<1>1. CASE Next
  <2>1. PICK r \in Requests : Read(r) \/ Commit(r) \/ Rollback(r)
    BY <1>1 DEF Next
  <2>2. CASE Read(r)
    <3>1. UNCHANGED <<row, approvals>>
      BY <2>2 DEF Read, BeginSubmit, BeginApprove, BeginRequestChanges, BeginSaveContent,
           BeginSendToClient, BeginAccept, BeginNegotiate, BeginCancel, BeginAddSigner,
           BeginRemoveSigner, Start, Begin
    <3> QED
      BY <2>2, <3>1, ReadKeepsFresh DEF Respectful
  <2> QED
    BY <2>1, <2>2, CommitKeepsSerialInv
<1>2. CASE UNCHANGED reviewVars
  BY <1>2 DEF reviewVars, SerialInv, ReviewInv, TypeOK, SeparationOfDuties, CurrentIsNewest,
              AcceptanceBacked, Justified, Fresh, Reviewed, ApprovedVersionReviewed,
              PresentedIsApproved, PendingMatchesReview, Pending, CurrentIsApproved, Respectful,
              CanEdit, CanSendToClient, CanAccept, CanNegotiate, CanCancel, Admits
<1> QED
  BY <1>1, <1>2

(* While the transactions of a contract do not overlap, whatever the users *)
(* and the bounds, the approved version is one a colleague approved, what  *)
(* the client sees or accepts is that version, and approvals wait for a    *)
(* decision exactly during the review.                                     *)
THEOREM SerialReviewSafe ==
  ASSUME Serial
  PROVE  Spec => [](ApprovedVersionReviewed /\ PresentedIsApproved /\ PendingMatchesReview)
<1>1. Init => SerialInv
  BY SerialInit
<1>2. SerialInv /\ [Next]_reviewVars => SerialInv'
  BY SerialStep
<1>3. SerialInv => ApprovedVersionReviewed /\ PresentedIsApproved /\ PendingMatchesReview
  BY DEF SerialInv, Reviewed
<1> QED
  BY <1>1, <1>2, <1>3, PTL DEF Spec

(* Without overlap, what the client is shown or accepts is approved.       *)
COROLLARY SerialPresentedApproved ==
  ASSUME Serial
  PROVE  Spec => []PresentedIsApproved
  BY SerialReviewSafe, PTL

(* Without overlap, an approval is pending exactly during the review.      *)
COROLLARY SerialPendingMatches ==
  ASSUME Serial
  PROVE  Spec => []PendingMatchesReview
  BY SerialReviewSafe, PTL

(* Without overlap, a cancelled contract stays cancelled.                  *)
THEOREM SerialTerminalIsFinal ==
  ASSUME Serial
  PROVE  Spec => TerminalIsFinal
<1>1. Init => SerialInv
  BY SerialInit
<1>2. SerialInv /\ [Next]_reviewVars => SerialInv'
  BY SerialStep
<1>3. SerialInv /\ [Next]_reviewVars =>
        [row.status \in TerminalStatuses => row'.status = row.status]_reviewVars
  BY SerialStep DEF Respectful
<1> QED
  BY <1>1, <1>2, <1>3, PTL DEF Spec, TerminalIsFinal

(* Without overlap, a decision on an approval is never replaced.           *)
THEOREM SerialDecisionIsFinal ==
  ASSUME Serial
  PROVE  Spec => DecisionIsFinal
<1>1. Init => SerialInv
  BY SerialInit
<1>2. SerialInv /\ [Next]_reviewVars => SerialInv'
  BY SerialStep
<1>3. SerialInv /\ [Next]_reviewVars =>
        [\A i \in DOMAIN approvals :
           approvals[i].decision # "PENDING" => approvals'[i] = approvals[i]]_reviewVars
  BY SerialStep DEF Respectful
<1> QED
  BY <1>1, <1>2, <1>3, PTL DEF Spec, DecisionIsFinal
=============================================================================
