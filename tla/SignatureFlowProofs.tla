------------------------ MODULE SignatureFlowProofs ------------------------
(***************************************************************************)
(* Proofs about SignatureFlow, for every number of requests, of contents,  *)
(* of signers and of concurrent webhooks, and for every kind of fault.     *)
(***************************************************************************)
EXTENDS SignatureFlow, TLAPS

(* The statuses of the matrix, listed.                                     *)
LEMMA SignatureStatusList ==
  Statuses = {"DRAFT", "IN_REVIEW", "CHANGES_REQUESTED", "APPROVED",
              "SENT_TO_CLIENT", "IN_NEGOTIATION", "ACCEPTED", "PENDING_SIGNATURE",
              "PARTIALLY_SIGNED", "DECLINED", "SIGNATURE_EXPIRED", "SIGNED",
              "ACTIVE", "RENEWAL_DUE", "TERMINATION_PENDING", "EXPIRED",
              "IMPORTED_PENDING_VALIDATION", "TERMINATED", "RENEWED", "CANCELLED"}
  BY DEF Statuses, Transitions

(* Every transition that is fired here maps a row to a row.                *)
LEMMA SignatureTransitionTypes ==
  ASSUME NEW c \in Row
  PROVE  /\ Submitted(c) \in Row /\ Approved(c) \in Row /\ ChangesRequested(c) \in Row
         /\ Edited(c) \in Row /\ SentToClient(c) \in Row
         /\ Accepted(c, c.currentVersionId) \in Row
         /\ InNegotiation(c) \in Row /\ Cancelled(c) \in Row
         /\ SentForSignature(c) \in Row
         /\ SignerSigned(c, TRUE) \in Row /\ SignerSigned(c, FALSE) \in Row
         /\ SignerDeclined(c) \in Row
         /\ SignatureExpired(c) \in Row
         /\ SignatureRevoked(StatusOnly(c)).status \in Statuses
<1>0. NoVersion \in Version /\ c.currentVersionId \in Version
  BY SignatureAssumption DEF Row, Version, NoVersion
<1>1. /\ Submitted(c) \in Row /\ Approved(c) \in Row /\ ChangesRequested(c) \in Row
      /\ Edited(c) \in Row /\ SentToClient(c) \in Row
  BY <1>0, SignatureStatusList
     DEF Row, Submitted, Approved, ChangesRequested, Edited, SentToClient
<1>2. /\ Accepted(c, c.currentVersionId) \in Row
      /\ InNegotiation(c) \in Row /\ Cancelled(c) \in Row
  BY <1>0, SignatureStatusList DEF Row, Accepted, InNegotiation, Cancelled
<1>3. /\ SentForSignature(c) \in Row
      /\ SignerSigned(c, TRUE) \in Row /\ SignerSigned(c, FALSE) \in Row
      /\ SignerDeclined(c) \in Row /\ SignatureExpired(c) \in Row
  BY <1>0, SignatureStatusList
     DEF Row, SentForSignature, SignerSigned, SignerDeclined, SignatureExpired
<1>4. SignatureRevoked(StatusOnly(c)).status \in Statuses
  BY <1>0, SignatureStatusList DEF Row, SignatureRevoked, StatusOnly
<1> QED
  BY <1>1, <1>2, <1>3, <1>4
-----------------------------------------------------------------------------
(* The inductive invariant.  The calls of send do not check the index when *)
(* they write: what protects them is that a request stays CREATING as long *)
(* as its call is running, because a webhook and a revocation only ever    *)
(* hold requests that the second transaction has made known.               *)
SenderCreating ==
  \A r \in Requests : sender[r].pc \notin {"idle", "stopped"} => req[r].status = "CREATING"

WorkerKnown == \A w \in Workers : worker[w].pc # "idle" => Resolved(worker[w].event.r)

RevokerKnown == revoker.pc # "idle" => revoker.r \in Requests /\ Resolved(revoker.r)

SignatureInv == TypeOK /\ OneActiveRequest /\ SenderCreating /\ WorkerKnown /\ RevokerKnown

LEMMA SignatureInit == Init => SignatureInv
<1> SUFFICES ASSUME Init PROVE SignatureInv
  OBVIOUS
<1> USE SignatureAssumption DEF Init
<1>1. row \in Row
  BY SignatureStatusList DEF Row, Version, NoVersion
<1>2. req \in [Requests -> Request]
  BY DEF Request, Version, NoVersion
<1>3. TypeOK
  BY <1>1, <1>2 DEF TypeOK
<1>4. OneActiveRequest /\ SenderCreating
  BY DEF OneActiveRequest, SenderCreating, ActiveStatuses
<1>5. WorkerKnown /\ RevokerKnown
  BY DEF WorkerKnown, RevokerKnown
<1> QED
  BY <1>3, <1>4, <1>5 DEF SignatureInv

LEMMA DeskKeepsInv ==
  ASSUME SignatureInv,
         SaveContent \/ SubmitForReview \/ Approve \/ RequestChanges
           \/ SendToClient \/ ClientAccept \/ Negotiate \/ Cancel
  PROVE  SignatureInv'
<1>0. TypeOK /\ row \in Row
  BY DEF SignatureInv, TypeOK
<1>1. row' \in Row /\ UNCHANGED <<hashed, req, signer, journal, processes, provider>>
  <2>1. CASE SaveContent
    <3>1. Edited(row) \in Row
      BY <1>0, SignatureTransitionTypes
    <3>2. row.currentVersionId \in Version /\ row.currentVersionId < MaxVersions
      BY <1>0, <2>1 DEF SaveContent, Row
    <3>3. row.currentVersionId + 1 \in Version
      BY <3>2, SignatureAssumption DEF Version
    <3>4. row' = [Edited(row) EXCEPT !.currentVersionId = row.currentVersionId + 1]
      BY <2>1 DEF SaveContent, Desk
    <3>5. row' \in Row
      BY <3>1, <3>3, <3>4 DEF Row
    <3> QED
      BY <2>1, <3>5 DEF SaveContent, Desk
  <2>2. CASE SubmitForReview \/ Approve \/ RequestChanges
    BY <1>0, <2>2, SignatureTransitionTypes DEF SubmitForReview, Approve, RequestChanges, Desk
  <2>3. CASE SendToClient \/ ClientAccept \/ Negotiate \/ Cancel
    BY <1>0, <2>3, SignatureTransitionTypes DEF SendToClient, ClientAccept, Negotiate, Cancel, Desk
  <2> QED
    BY <2>1, <2>2, <2>3
<1>2. TypeOK'
  BY <1>0, <1>1 DEF TypeOK, processes, provider
<1>3. OneActiveRequest' /\ SenderCreating' /\ WorkerKnown' /\ RevokerKnown'
  BY <1>1 DEF SignatureInv, OneActiveRequest, SenderCreating, WorkerKnown, RevokerKnown,
              Resolved, processes
<1> QED
  BY <1>2, <1>3 DEF SignatureInv

(* A step that leaves the requests, the calls of send, the open webhooks   *)
(* and the revocation as they are.                                         *)
LEMMA KnownKept ==
  ASSUME SignatureInv, TypeOK', UNCHANGED <<req, sender, revoker, worker>>
  PROVE  SignatureInv'
  BY DEF SignatureInv, OneActiveRequest, SenderCreating, WorkerKnown, RevokerKnown, Resolved

LEMMA ProviderKeepsInv ==
  ASSUME SignatureInv, NEW r \in Requests,
         Expire(r) \/ (\E s \in Signers : OpenForm(r, s) \/ CompleteForm(r, s) \/ DeclineForm(r, s))
  PROVE  SignatureInv'
<1>0. TypeOK /\ form \in [Requests -> [Signers -> {"AWAITING", "OPENED", "COMPLETED", "DECLINED"}]]
  BY DEF SignatureInv, TypeOK
<1>1. UNCHANGED <<database, processes>>
  BY DEF Expire, OpenForm, CompleteForm, DeclineForm
<1>2. /\ sub' \in [Requests -> [state : {"none", "PENDING", "COMPLETED", "DECLINED", "EXPIRED"},
                               archived : BOOLEAN]]
      /\ form' \in [Requests -> [Signers -> {"AWAITING", "OPENED", "COMPLETED", "DECLINED"}]]
  <2>1. CASE Expire(r)
    BY <1>0, <2>1 DEF Expire, TypeOK
  <2>2. ASSUME NEW s \in Signers, OpenForm(r, s) PROVE <1>2!1 /\ <1>2!2
    BY <1>0, <2>2 DEF OpenForm, TypeOK
  <2>3. ASSUME NEW s \in Signers, CompleteForm(r, s) PROVE <1>2!1 /\ <1>2!2
    BY <1>0, <2>3 DEF CompleteForm, TypeOK
  <2>4. ASSUME NEW s \in Signers, DeclineForm(r, s) PROVE <1>2!1 /\ <1>2!2
    BY <1>0, <2>4 DEF DeclineForm, TypeOK
  <2> QED
    BY <2>1, <2>2, <2>3, <2>4
<1>3. TypeOK'
  BY <1>0, <1>1, <1>2 DEF TypeOK, database, processes
<1> QED
  BY <1>1, <1>3, KnownKept DEF database, processes
-----------------------------------------------------------------------------
(* The calls of send.                                                      *)
LEMMA PrepareKeepsInv ==
  ASSUME SignatureInv, NEW r \in Requests, Prepare(r)
  PROVE  SignatureInv'
<1> DEFINE new == [status |-> "CREATING", versionId |-> row.currentVersionId]
<1>0. /\ TypeOK /\ req[r].status = "none" /\ IndexAllows(r)
      /\ req' = [req EXCEPT ![r] = new]
      /\ sender' = [sender EXCEPT ![r] = [pc |-> "prepared", snap |-> row]]
      /\ UNCHANGED <<row, hashed, signer, journal, revoker, worker, provider>>
  BY DEF SignatureInv, Prepare
<1>1. new \in Request /\ row \in Row
  BY <1>0 DEF TypeOK, Row, Request, ActiveStatuses
<1>2. TypeOK'
  BY <1>0, <1>1 DEF TypeOK, provider
<1>3. /\ req'[r].status = "CREATING"
      /\ \A q \in Requests : q # r => req'[q] = req[q] /\ sender'[q] = sender[q]
  BY <1>0 DEF TypeOK
<1>4. OneActiveRequest'
  BY <1>0, <1>3 DEF OneActiveRequest, IndexAllows
<1>5. SenderCreating'
  BY <1>3 DEF SignatureInv, SenderCreating
<1>6. WorkerKnown' /\ RevokerKnown'
  BY <1>0, <1>3 DEF SignatureInv, TypeOK, WorkerKnown, RevokerKnown, Resolved, Event
<1> QED
  BY <1>2, <1>4, <1>5, <1>6 DEF SignatureInv

(* The steps of a call that write no request.                              *)
LEMMA SenderKeepsInv ==
  ASSUME SignatureInv, NEW r \in Requests,
         Render(r) \/ HashRejected(r) \/ CreateSubmission(r) \/ CreateFails(r) \/ Crash(r)
  PROVE  SignatureInv'
<1>0. /\ TypeOK
      /\ UNCHANGED <<row, req, signer, journal, revoker, worker, form>>
      /\ \E pc \in {"rendered", "created", "failing", "stopped"} : SenderTo(r, pc)
      /\ sender[r].pc \notin {"idle", "stopped"}
  BY DEF SignatureInv, Render, HashRejected, CreateSubmission, CreateFails, Crash,
         database, provider
<1>1. PICK pc \in {"rendered", "created", "failing", "stopped"} : SenderTo(r, pc)
  BY <1>0
<1>2. hashed' \subseteq Version
  <2>1. CASE Render(r)
    BY <1>0, <2>1 DEF TypeOK, Request, Render
  <2>2. CASE ~Render(r)
    BY <1>0, <2>2 DEF TypeOK, HashRejected, CreateSubmission, CreateFails, Crash, database
  <2> QED
    BY <2>1, <2>2
<1>3. sub' \in [Requests -> [state : {"none", "PENDING", "COMPLETED", "DECLINED", "EXPIRED"},
                            archived : BOOLEAN]]
  <2>1. UNCHANGED sub \/ Submission(r)
    BY DEF Render, HashRejected, CreateSubmission, CreateFails, Crash, provider
  <2>2. sub \in [Requests -> [state : {"none", "PENDING", "COMPLETED", "DECLINED", "EXPIRED"},
                             archived : BOOLEAN]]
    BY <1>0 DEF TypeOK
  <2> QED
    BY <2>1, <2>2 DEF Submission
<1>4. sender' \in [Requests -> [pc : {"idle", "prepared", "rendered", "created",
                                     "failing", "stopped"}, snap : Row]]
  <2>1. sender \in [Requests -> [pc : {"idle", "prepared", "rendered", "created",
                                      "failing", "stopped"}, snap : Row]]
    BY <1>0 DEF TypeOK
  <2> QED
    BY <1>1, <2>1 DEF SenderTo
<1>5. TypeOK'
  BY <1>0, <1>2, <1>3, <1>4 DEF TypeOK
<1>6. SenderCreating'
  BY <1>0, <1>1 DEF SignatureInv, TypeOK, SenderCreating, SenderTo
<1>7. OneActiveRequest' /\ WorkerKnown' /\ RevokerKnown'
  BY <1>0 DEF SignatureInv, OneActiveRequest, WorkerKnown, RevokerKnown, Resolved
<1> QED
  BY <1>5, <1>6, <1>7 DEF SignatureInv

(* The end of a call, one way or the other.                                *)
LEMMA AnswerKeepsInv ==
  ASSUME SignatureInv, NEW r \in Requests, RecordFailure(r) \/ Acknowledge(r)
  PROVE  SignatureInv'
<1>0. TypeOK /\ sender[r] \in [pc : {"idle", "prepared", "rendered", "created",
                                    "failing", "stopped"}, snap : Row]
  BY DEF SignatureInv, TypeOK
<1>1. PICK s \in {"FAILED", "SENT"} : req' = [req EXCEPT ![r].status = s]
  BY DEF RecordFailure, Acknowledge
<1>2. /\ req[r].status = "CREATING" /\ req'[r].status = s
      /\ \A q \in Requests : q # r => req'[q] = req[q]
      /\ req' \in [Requests -> Request]
  <2>1. sender[r].pc \in {"failing", "created"}
    BY DEF RecordFailure, Acknowledge
  <2>2. req[r].status = "CREATING"
    BY <2>1 DEF SignatureInv, SenderCreating
  <2>3. req \in [Requests -> Request] /\ s \in ActiveStatuses \union ClosedStatuses
    BY <1>0 DEF TypeOK, ActiveStatuses, ClosedStatuses
  <2> QED
    BY <1>1, <2>2, <2>3 DEF Request
<1>3. /\ sender'[r].pc = "stopped"
      /\ \A q \in Requests : q # r => sender'[q] = sender[q]
      /\ sender' \in [Requests -> [pc : {"idle", "prepared", "rendered", "created",
                                        "failing", "stopped"}, snap : Row]]
      /\ UNCHANGED <<hashed, journal, revoker, worker, provider>>
  <2>1. SenderTo(r, "stopped") /\ UNCHANGED <<hashed, journal, revoker, worker, provider>>
    BY DEF RecordFailure, Acknowledge
  <2> QED
    BY <1>0, <2>1 DEF TypeOK, SenderTo
<1>4. row' \in Row
  <2>1. CASE RecordFailure(r)
    BY <2>1, <1>0 DEF RecordFailure, TypeOK
  <2>2. CASE Acknowledge(r)
    <3>1. SentForSignature(sender[r].snap) \in Row
      BY <1>0, SignatureTransitionTypes
    <3> QED
      BY <2>2, <3>1, <1>0 DEF Acknowledge, Row, TypeOK
  <2> QED
    BY <2>1, <2>2
<1>5. signer' \in [Signers -> {"PENDING", "SENT", "VIEWED", "SIGNED", "DECLINED"}]
  BY <1>0 DEF TypeOK, RecordFailure, Acknowledge
<1>6. TypeOK'
  BY <1>0, <1>2, <1>3, <1>4, <1>5 DEF TypeOK, provider
<1>7. OneActiveRequest'
  BY <1>2 DEF SignatureInv, OneActiveRequest, ActiveStatuses
<1>8. SenderCreating'
  BY <1>2, <1>3 DEF SignatureInv, SenderCreating
<1>9. WorkerKnown' /\ RevokerKnown'
  BY <1>0, <1>2, <1>3 DEF SignatureInv, TypeOK, WorkerKnown, RevokerKnown, Resolved, Event
<1> QED
  BY <1>6, <1>7, <1>8, <1>9 DEF SignatureInv
-----------------------------------------------------------------------------
(* The revocation.                                                         *)
LEMMA RevokerKeepsInv ==
  ASSUME SignatureInv, RevokeValidate \/ RevokeAtProvider \/ RevokeCommit \/ RevokeAbort
  PROVE  SignatureInv'
<1>0. /\ TypeOK /\ RevokerKnown
      /\ revoker \in [pc : {"idle", "validated", "archived"}, r : Requests \union {0}]
  BY DEF SignatureInv, TypeOK
<1>1. CASE RevokeValidate
  <2>1. PICK r \in Requests : /\ req[r].status \in RevocableStatuses
                              /\ revoker' = [pc |-> "validated", r |-> r]
    BY <1>1 DEF RevokeValidate
  <2>2. UNCHANGED <<database, sender, worker, provider>>
    BY <1>1 DEF RevokeValidate
  <2>3. TypeOK'
    BY <1>0, <2>1, <2>2 DEF TypeOK, database, provider
  <2>4. RevokerKnown'
    BY <2>1, <2>2 DEF RevokerKnown, Resolved, RevocableStatuses, database
  <2>5. OneActiveRequest' /\ SenderCreating' /\ WorkerKnown'
    BY <2>2 DEF SignatureInv, OneActiveRequest, SenderCreating, WorkerKnown, Resolved, database
  <2> QED
    BY <2>3, <2>4, <2>5 DEF SignatureInv
<1>2. CASE RevokeAtProvider
  <2>1. /\ revoker' = [revoker EXCEPT !.pc = "archived"] /\ revoker.pc # "idle"
        /\ sub' = [sub EXCEPT ![revoker.r].archived = TRUE]
        /\ UNCHANGED <<database, sender, worker, form>>
    BY <1>2 DEF RevokeAtProvider
  <2>2. sub \in [Requests -> [state : {"none", "PENDING", "COMPLETED", "DECLINED", "EXPIRED"},
                             archived : BOOLEAN]]
    BY <1>0 DEF TypeOK
  <2>3. sub' \in [Requests -> [state : {"none", "PENDING", "COMPLETED", "DECLINED", "EXPIRED"},
                              archived : BOOLEAN]]
    BY <2>1, <2>2
  <2>4. /\ revoker' \in [pc : {"idle", "validated", "archived"}, r : Requests \union {0}]
        /\ revoker'.r = revoker.r
    BY <1>0, <2>1
  <2>5. TypeOK'
    BY <1>0, <2>1, <2>3, <2>4 DEF TypeOK, database
  <2>6. RevokerKnown'
    BY <1>0, <2>1, <2>4 DEF RevokerKnown, Resolved, database
  <2>7. OneActiveRequest' /\ SenderCreating' /\ WorkerKnown'
    BY <2>1 DEF SignatureInv, OneActiveRequest, SenderCreating, WorkerKnown, Resolved, database
  <2> QED
    BY <2>5, <2>6, <2>7 DEF SignatureInv
<1>3. CASE RevokeCommit
  <2> DEFINE r == revoker.r
  <2>1. /\ r \in Requests /\ Resolved(r)
        /\ req' = [req EXCEPT ![r].status = "REVOKED"]
        /\ signer' = [s \in Signers |-> "PENDING"]
        /\ row' = [row EXCEPT !.status = SignatureRevoked(StatusOnly(row)).status]
        /\ revoker' = [pc |-> "idle", r |-> 0]
        /\ UNCHANGED <<hashed, journal, sender, worker, provider>>
    BY <1>0, <1>3 DEF RevokeCommit, RevokerKnown
  <2>2. req \in [Requests -> Request] /\ row \in Row
    BY <1>0 DEF TypeOK
  <2>3. /\ req' \in [Requests -> Request] /\ req'[r].status = "REVOKED"
        /\ \A q \in Requests : q # r => req'[q] = req[q]
    BY <2>1, <2>2 DEF Request, ActiveStatuses, ClosedStatuses
  <2>4. row' \in Row
    BY <2>1, <2>2, SignatureTransitionTypes DEF Row
  <2>5. TypeOK'
    BY <1>0, <2>1, <2>3, <2>4 DEF TypeOK, provider
  <2>6. OneActiveRequest'
    BY <2>3 DEF SignatureInv, OneActiveRequest, ActiveStatuses
  <2>7. SenderCreating'
    BY <2>1, <2>3 DEF SignatureInv, SenderCreating, Resolved
  <2>8. WorkerKnown' /\ RevokerKnown'
    BY <1>0, <2>1, <2>3 DEF SignatureInv, TypeOK, WorkerKnown, RevokerKnown, Resolved, Event
  <2> QED
    BY <2>5, <2>6, <2>7, <2>8 DEF SignatureInv
<1>4. CASE RevokeAbort
  <2>1. revoker' = [pc |-> "idle", r |-> 0] /\ UNCHANGED <<database, sender, worker, provider>>
    BY <1>4 DEF RevokeAbort
  <2>2. TypeOK'
    BY <1>0, <2>1 DEF TypeOK, database, provider
  <2>3. OneActiveRequest' /\ SenderCreating' /\ WorkerKnown' /\ RevokerKnown'
    BY <2>1 DEF SignatureInv, OneActiveRequest, SenderCreating, WorkerKnown, RevokerKnown,
                Resolved, database
  <2> QED
    BY <2>2, <2>3 DEF SignatureInv
<1> QED
  BY <1>1, <1>2, <1>3, <1>4
-----------------------------------------------------------------------------
(* The webhooks.                                                           *)

(* What an open transaction has in hand.                                   *)
LEMMA OpenWorker ==
  ASSUME SignatureInv, NEW w \in Workers, worker[w].pc # "idle"
  PROVE  /\ worker[w] \in [pc : {"open", "counted"}, event : Event, allSigned : BOOLEAN]
         /\ worker[w].event \in Event /\ worker[w].event.r \in Requests
         /\ Resolved(worker[w].event.r)
  BY DEF SignatureInv, TypeOK, WorkerKnown, Event

(* worker is only indexed by Workers and is set one entry at a time.       *)
WorkerFunction == worker = [w \in Workers |-> worker[w]]

LEMMA ReadingKeepsInv ==
  ASSUME SignatureInv, WorkerFunction, NEW w \in Workers,
         Rollback(w) \/ Count(w) \/ (\E e \in Event : Receive(w, e))
  PROVE  SignatureInv' /\ WorkerFunction'
<1>0. TypeOK /\ journal \subseteq Event
  BY DEF SignatureInv, TypeOK
<1>1. UNCHANGED <<row, hashed, req, signer, sender, revoker, provider>>
  BY DEF Rollback, Count, Receive, database
<1>2. /\ journal' \subseteq Event
      /\ \/ UNCHANGED worker
         \/ worker' = [worker EXCEPT ![w] = [pc |-> "idle"]]
         \/ \E pc \in {"open", "counted"}, e \in Event, all \in BOOLEAN :
              /\ Resolved(e.r)
              /\ worker' = [worker EXCEPT ![w] = [pc |-> pc, event |-> e, allSigned |-> all]]
  <2>1. CASE Rollback(w)
    BY <1>0, <2>1 DEF Rollback, database
  <2>2. CASE Count(w)
    <3>1. worker[w].event \in Event /\ Resolved(worker[w].event.r) /\ UNCHANGED journal
      BY <2>2, OpenWorker DEF Count, database
    <3> QED
      BY <1>0, <2>2, <3>1 DEF Count
  <2>3. ASSUME NEW e \in Event, Receive(w, e) PROVE <1>2!1 /\ <1>2!2
    BY <1>0, <2>3 DEF Receive
  <2> QED
    BY <2>1, <2>2, <2>3
<1>3. /\ WorkerFunction'
      /\ \A v \in Workers : worker'[v].pc # "idle" =>
           /\ worker'[v] \in [pc : {"open", "counted"}, event : Event, allSigned : BOOLEAN]
           /\ Resolved(worker'[v].event.r)
  <2>1. CASE UNCHANGED worker
    BY <2>1, OpenWorker DEF WorkerFunction
  <2>2. CASE worker' = [worker EXCEPT ![w] = [pc |-> "idle"]]
    BY <2>2, OpenWorker DEF WorkerFunction
  <2>3. ASSUME NEW pc \in {"open", "counted"}, NEW e \in Event, NEW all \in BOOLEAN,
               Resolved(e.r),
               worker' = [worker EXCEPT ![w] = [pc |-> pc, event |-> e, allSigned |-> all]]
        PROVE  <1>3!1 /\ <1>3!2
    BY <2>3, OpenWorker DEF WorkerFunction
  <2> QED
    BY <1>2, <2>1, <2>2, <2>3
<1>4. TypeOK'
  BY <1>0, <1>1, <1>2, <1>3 DEF TypeOK, provider
<1>5. OneActiveRequest' /\ SenderCreating' /\ WorkerKnown' /\ RevokerKnown'
  BY <1>1, <1>3 DEF SignatureInv, OneActiveRequest, SenderCreating, WorkerKnown, RevokerKnown,
                    Resolved
<1> QED
  BY <1>3, <1>4, <1>5 DEF SignatureInv

(* What a webhook writes: a request that is known moves to a status that   *)
(* is known, to an active one only if the index allows it.                 *)
LEMMA ApplyWrites ==
  ASSUME SignatureInv, NEW w \in Workers, Apply(w)
  PROVE  LET r == worker[w].event.r IN
         /\ worker[w].pc # "idle"
         /\ r \in Requests /\ Resolved(r) /\ Finish(w)
         /\ row' \in Row
         /\ signer' \in [Signers -> {"PENDING", "SENT", "VIEWED", "SIGNED", "DECLINED"}]
         /\ \/ UNCHANGED req
            \/ \E s \in {"PARTIALLY_COMPLETED", "COMPLETED", "DECLINED", "EXPIRED"} :
                 RequestTo(r, s)
<1> DEFINE e == worker[w].event
<1>0. /\ TypeOK /\ row \in Row
      /\ signer \in [Signers -> {"PENDING", "SENT", "VIEWED", "SIGNED", "DECLINED"}]
  BY DEF SignatureInv, TypeOK
<1>1. /\ worker[w].pc # "idle" /\ Finish(w)
  BY DEF Apply, ApplyViewed, ApplyDeclined, ApplyCompleted, ApplyExpired, ApplySubmissionCompleted
<1>2. e.r \in Requests /\ Resolved(e.r) /\ worker[w].allSigned \in BOOLEAN
  BY <1>1, OpenWorker
<1>3. CASE ApplyViewed(w)
  BY <1>0, <1>1, <1>2, <1>3 DEF ApplyViewed
<1>4. CASE ApplyDeclined(w)
  <2>1. SignerDeclined(row) \in Row
    BY <1>0, SignatureTransitionTypes
  <2> QED
    BY <1>0, <1>1, <1>2, <1>4, <2>1 DEF ApplyDeclined, Transition
<1>5. CASE ApplyCompleted(w)
  <2>1. SignerSigned(row, worker[w].allSigned) \in Row
    BY <1>0, <1>2, SignatureTransitionTypes
  <2> QED
    BY <1>0, <1>1, <1>2, <1>5, <2>1 DEF ApplyCompleted, Transition
<1>6. CASE ApplyExpired(w)
  <2>1. SignatureExpired(row) \in Row
    BY <1>0, SignatureTransitionTypes
  <2>2. /\ row' = IF Admits(row, "SIGNATURE_EXPIRE") THEN SignatureExpired(row) ELSE row
        /\ RequestTo(e.r, "EXPIRED") /\ UNCHANGED signer
    BY <1>6 DEF ApplyExpired, Transition
  <2>3. row' \in Row
    BY <1>0, <2>1, <2>2
  <2> QED
    BY <1>0, <1>1, <1>2, <2>2, <2>3
<1>7. CASE ApplySubmissionCompleted(w)
  <2>1. SignerSigned(row, TRUE) \in Row
    BY <1>0, SignatureTransitionTypes
  <2>2. /\ row' = IF Admits(row, "SIGNER_SIGNED") THEN SignerSigned(row, TRUE) ELSE row
        /\ RequestTo(e.r, "COMPLETED") /\ signer' = [s \in Signers |-> "SIGNED"]
    BY <1>7 DEF ApplySubmissionCompleted, Transition
  <2>3. row' \in Row
    BY <1>0, <2>1, <2>2
  <2>4. signer' \in [Signers -> {"PENDING", "SENT", "VIEWED", "SIGNED", "DECLINED"}]
    BY <2>2
  <2> QED
    BY <1>1, <1>2, <2>2, <2>3, <2>4
<1> QED
  BY <1>3, <1>4, <1>5, <1>6, <1>7 DEF Apply

LEMMA ApplyKeepsInv ==
  ASSUME SignatureInv, WorkerFunction, NEW w \in Workers, Apply(w)
  PROVE  SignatureInv' /\ WorkerFunction'
<1>r. PICK r \in Requests : r = worker[w].event.r
  BY ApplyWrites
<1>0. /\ TypeOK /\ worker[w].pc # "idle" /\ Finish(w)
      /\ Resolved(r)
      /\ row' \in Row
      /\ signer' \in [Signers -> {"PENDING", "SENT", "VIEWED", "SIGNED", "DECLINED"}]
  BY <1>r, ApplyWrites DEF SignatureInv
<1>1. req \in [Requests -> Request] /\ journal \subseteq Event /\ worker[w].event \in Event
  BY <1>0, OpenWorker DEF TypeOK
<1>2. /\ req' \in [Requests -> Request]
      /\ \A q \in Requests : q # r => req'[q] = req[q]
      /\ Resolved(r)'
      /\ req'[r].status \in ActiveStatuses => req[r].status \in ActiveStatuses \/ IndexAllows(r)
  <2>1. CASE UNCHANGED req
    BY <1>0, <1>1, <2>1 DEF Resolved
  <2>2. ASSUME NEW s \in {"PARTIALLY_COMPLETED", "COMPLETED", "DECLINED", "EXPIRED"},
               RequestTo(r, s)
        PROVE  <1>2!1 /\ <1>2!2 /\ <1>2!3 /\ <1>2!4
    BY <1>0, <1>1, <2>2 DEF RequestTo, Resolved, Request, ActiveStatuses, ClosedStatuses
  <2> QED
    BY <1>r, <2>1, <2>2, ApplyWrites
<1>3. /\ worker' = [worker EXCEPT ![w] = [pc |-> "idle"]]
      /\ journal' \subseteq Event
      /\ UNCHANGED <<hashed, sender, revoker, provider>>
  BY <1>0, <1>1 DEF Finish
<1>4. /\ WorkerFunction'
      /\ \A v \in Workers : worker'[v].pc # "idle" => worker'[v] = worker[v] /\ worker[v].pc # "idle"
  BY <1>3 DEF WorkerFunction
<1>5. TypeOK'
  BY <1>0, <1>2, <1>3, <1>4 DEF TypeOK, provider
<1>6. OneActiveRequest'
  <2>1. \A q \in Requests \ {r} : req'[q].status = req[q].status
    BY <1>2
  <2>2. CASE req'[r].status \in ActiveStatuses
    <3>1. \A q \in Requests \ {r} : req[q].status \notin ActiveStatuses
      BY <1>2, <2>2 DEF SignatureInv, OneActiveRequest, IndexAllows
    <3> QED
      BY <2>1, <2>2, <3>1 DEF OneActiveRequest
  <2>3. CASE req'[r].status \notin ActiveStatuses
    BY <2>1, <2>3 DEF SignatureInv, OneActiveRequest
  <2> QED
    BY <2>2, <2>3
<1>7. SenderCreating'
  BY <1>0, <1>2, <1>3 DEF SignatureInv, SenderCreating, Resolved
<1>8. WorkerKnown' /\ RevokerKnown'
  BY <1>2, <1>3, <1>4, OpenWorker DEF SignatureInv, WorkerKnown, RevokerKnown, Resolved
<1> QED
  BY <1>4, <1>5, <1>6, <1>7, <1>8 DEF SignatureInv

LEMMA SignatureStep == SignatureInv /\ WorkerFunction /\ [Next]_signatureVars
                         => SignatureInv' /\ WorkerFunction'
<1> SUFFICES ASSUME SignatureInv, WorkerFunction, [Next]_signatureVars
             PROVE  SignatureInv' /\ WorkerFunction'
  OBVIOUS
<1>1. CASE SaveContent \/ SubmitForReview \/ Approve \/ RequestChanges
             \/ SendToClient \/ ClientAccept \/ Negotiate \/ Cancel
  <2>1. UNCHANGED worker
    BY <1>1 DEF SaveContent, SubmitForReview, Approve, RequestChanges, SendToClient,
                ClientAccept, Negotiate, Cancel, Desk, processes
  <2> QED
    BY <1>1, <2>1, DeskKeepsInv DEF WorkerFunction
<1>2. CASE RevokeValidate \/ RevokeAtProvider \/ RevokeCommit \/ RevokeAbort
  <2>1. UNCHANGED worker
    BY <1>2 DEF RevokeValidate, RevokeAtProvider, RevokeCommit, RevokeAbort
  <2> QED
    BY <1>2, <2>1, RevokerKeepsInv DEF WorkerFunction
<1>3. ASSUME NEW r \in Requests,
             \/ Prepare(r) \/ Render(r) \/ HashRejected(r) \/ CreateSubmission(r)
             \/ CreateFails(r) \/ RecordFailure(r) \/ Acknowledge(r) \/ Crash(r)
             \/ Expire(r)
             \/ \E s \in Signers : OpenForm(r, s) \/ CompleteForm(r, s) \/ DeclineForm(r, s)
      PROVE  SignatureInv' /\ WorkerFunction'
  <2>1. UNCHANGED worker
    BY <1>3 DEF Prepare, Render, HashRejected, CreateSubmission, CreateFails, RecordFailure,
                Acknowledge, Crash, Expire, OpenForm, CompleteForm, DeclineForm, processes
  <2>2. SignatureInv'
    BY <1>3, PrepareKeepsInv, SenderKeepsInv, AnswerKeepsInv, ProviderKeepsInv
  <2> QED
    BY <2>1, <2>2 DEF WorkerFunction
<1>4. ASSUME NEW w \in Workers,
             \/ \E e \in Event : e.kind \in Kinds /\ Receive(w, e)
             \/ Count(w) \/ ApplyViewed(w) \/ ApplyDeclined(w) \/ ApplyCompleted(w)
             \/ ApplyExpired(w) \/ ApplySubmissionCompleted(w) \/ Rollback(w)
      PROVE  SignatureInv' /\ WorkerFunction'
  BY <1>4, ReadingKeepsInv, ApplyKeepsInv DEF Apply
<1>5. CASE UNCHANGED signatureVars
  <2>1. TypeOK' /\ UNCHANGED <<req, sender, revoker, worker>>
    BY <1>5 DEF signatureVars, database, processes, provider, SignatureInv, TypeOK
  <2> QED
    BY <2>1, KnownKept DEF WorkerFunction
<1> QED
  BY <1>1, <1>2, <1>3, <1>4, <1>5 DEF Next

(* Whatever overlaps and whatever fails, every variable keeps its type.    *)
THEOREM SignatureTypeOK == Spec => []TypeOK
<1>1. Init => SignatureInv /\ WorkerFunction
  BY SignatureInit DEF Init, WorkerFunction
<1>2. SignatureInv => TypeOK
  BY DEF SignatureInv
<1> QED
  BY <1>1, <1>2, SignatureStep, PTL DEF Spec

(* Whatever overlaps and whatever fails, two requests of the contract are  *)
(* never active at once: a webhook that is late, delivered twice or        *)
(* interleaved with a send or a revocation never revives a request next to *)
(* another one.                                                            *)
THEOREM SignatureOneActiveRequest == Spec => []OneActiveRequest
<1>1. Init => SignatureInv /\ WorkerFunction
  BY SignatureInit DEF Init, WorkerFunction
<1>2. SignatureInv => OneActiveRequest
  BY DEF SignatureInv
<1> QED
  BY <1>1, <1>2, SignatureStep, PTL DEF Spec

(* Whatever overlaps and whatever fails, only its own call takes a request *)
(* out of CREATING.                                                        *)
CallEnds(r) ==
  req[r].status = "CREATING" /\ req'[r].status # "CREATING" =>
    sender[r].pc \in {"created", "failing"} /\ sender'[r].pc = "stopped"

LEMMA EndsStep ==
  ASSUME SignatureInv, [Next]_signatureVars
  PROVE  \A r \in Requests : CallEnds(r)
<1>0. /\ req \in [Requests -> Request]
      /\ sender \in [Requests -> [pc : {"idle", "prepared", "rendered", "created",
                                        "failing", "stopped"}, snap : Row]]
  BY DEF SignatureInv, TypeOK
<1>1. CASE UNCHANGED req
  BY <1>1 DEF CallEnds
<1>2. ASSUME NEW r \in Requests, RecordFailure(r) \/ Acknowledge(r)
      PROVE  \A q \in Requests : CallEnds(q)
  <2>1. /\ sender[r].pc \in {"created", "failing"}
        /\ sender' = [sender EXCEPT ![r].pc = "stopped"]
        /\ \/ req' = [req EXCEPT ![r].status = "FAILED"]
           \/ req' = [req EXCEPT ![r].status = "SENT"]
    BY <1>2 DEF RecordFailure, Acknowledge, SenderTo
  <2>2. sender'[r].pc = "stopped" /\ \A q \in Requests \ {r} : req'[q] = req[q]
    BY <1>0, <2>1
  <2> QED
    BY <2>1, <2>2 DEF CallEnds
<1>3. ASSUME NEW r \in Requests, Prepare(r) PROVE \A q \in Requests : CallEnds(q)
  BY <1>0, <1>3 DEF Prepare, CallEnds
<1>4. CASE RevokeCommit
  <2>1. Resolved(revoker.r) /\ req' = [req EXCEPT ![revoker.r].status = "REVOKED"]
    BY <1>4 DEF RevokeCommit, SignatureInv, RevokerKnown
  <2> QED
    BY <1>0, <2>1 DEF CallEnds, Resolved
<1>5. ASSUME NEW w \in Workers, Apply(w) PROVE \A q \in Requests : CallEnds(q)
  <2>1. PICK r \in Requests :
          Resolved(r) /\ (UNCHANGED req \/ \E s : req' = [req EXCEPT ![r].status = s])
    BY <1>5, ApplyWrites DEF RequestTo
  <2> QED
    BY <1>0, <2>1 DEF CallEnds, Resolved
<1>6. CASE UNCHANGED signatureVars
  BY <1>1, <1>6 DEF signatureVars, database
<1>7. CASE Next
  <2>1. CASE \/ SaveContent \/ SubmitForReview \/ Approve \/ RequestChanges
             \/ SendToClient \/ ClientAccept \/ Negotiate \/ Cancel
             \/ RevokeValidate \/ RevokeAtProvider \/ RevokeAbort
    BY <1>1, <2>1 DEF SaveContent, SubmitForReview, Approve, RequestChanges, SendToClient,
                      ClientAccept, Negotiate, Cancel, Desk, RevokeValidate, RevokeAtProvider,
                      RevokeAbort, database
  <2>2. ASSUME NEW r \in Requests,
               \/ Render(r) \/ HashRejected(r) \/ CreateSubmission(r) \/ CreateFails(r)
               \/ Crash(r) \/ Expire(r)
               \/ \E s \in Signers : OpenForm(r, s) \/ CompleteForm(r, s) \/ DeclineForm(r, s)
        PROVE  \A q \in Requests : CallEnds(q)
    BY <1>1, <2>2 DEF Render, HashRejected, CreateSubmission, CreateFails, Crash, Expire,
                      OpenForm, CompleteForm, DeclineForm, database
  <2>3. ASSUME NEW w \in Workers, (\E e \in Event : Receive(w, e)) \/ Count(w) \/ Rollback(w)
        PROVE  \A q \in Requests : CallEnds(q)
    BY <1>1, <2>3 DEF Receive, Count, Rollback, database
  <2> QED
    BY <1>2, <1>3, <1>4, <1>5, <1>7, <2>1, <2>2, <2>3 DEF Next, Apply
<1> QED
  BY <1>6, <1>7

(* So a call that crashed leaves the contract's active place taken.        *)
THEOREM SignatureOnlyCallEndsCreating == Spec => OnlyCallEndsCreating
<1>1. Init => SignatureInv /\ WorkerFunction
  BY SignatureInit DEF Init, WorkerFunction
<1>2. SignatureInv /\ [Next]_signatureVars =>
        [\A r \in Requests :
           req[r].status = "CREATING" /\ req'[r].status # "CREATING" =>
             sender[r].pc \in {"created", "failing"} /\ sender'[r].pc = "stopped"]_signatureVars
  BY EndsStep DEF CallEnds
<1> QED
  BY <1>1, <1>2, SignatureStep, PTL DEF Spec, OnlyCallEndsCreating

-----------------------------------------------------------------------------
(* Without overlap.  The transaction that is open holds the only active    *)
(* request of the contract, so that what it read is still true when it     *)
(* writes; and a revocation in progress is on a request whose contract     *)
(* awaits signatures, is signed by all, or was cancelled.                  *)
AloneOnActive ==
  \A w \in Workers :
    worker[w].pc # "idle" =>
      /\ req[worker[w].event.r].status \in RevocableStatuses
      /\ \A v \in Workers : worker[v].pc # "idle" => v = w

RevocationOn(r) ==
  /\ req[r].status # "REVOKED"
  /\ req[r].status \in RevocableStatuses =>
       row.status \in {"PENDING_SIGNATURE", "PARTIALLY_SIGNED", "CANCELLED"}
  /\ req[r].status = "COMPLETED" =>
       /\ row.status \in {"SIGNED", "CANCELLED"}
       /\ \A q \in Requests : req[q].status \notin ActiveStatuses

QuietInv == AloneOnActive /\ (revoker.pc # "idle" => RevocationOn(revoker.r))

(* The statuses of the contract that the signature relies on.              *)
LEMMA SigningAdmits ==
  ASSUME row.status \in {"PENDING_SIGNATURE", "PARTIALLY_SIGNED"}
  PROVE  /\ \A event : Admits(row, event) => event \in Signing
         /\ \A event \in Signing : Admits(row, event)
  BY DEF Admits, Transitions

LEMMA FrozenAdmits ==
  ASSUME row.status \in {"SIGNED", "CANCELLED"}, NEW event, Admits(row, event)
  PROVE  event \in {"ACTIVATE", "TERMINATE"}
  BY DEF Admits, Transitions

(* The desk may only cancel a contract that awaits signatures, and does    *)
(* nothing to one that is signed or cancelled.                             *)
DeskStep ==
  \/ SaveContent \/ SubmitForReview \/ Approve \/ RequestChanges
  \/ SendToClient \/ ClientAccept \/ Negotiate \/ Cancel

LEMMA DeskBarred ==
  ASSUME SignatureInv, DeskStep
  PROVE  /\ row.status \notin {"SIGNED", "CANCELLED"}
         /\ row.status \in {"PENDING_SIGNATURE", "PARTIALLY_SIGNED"} => row'.status = "CANCELLED"
<1>0. row \in Row
  BY DEF SignatureInv, TypeOK
<1>1. CASE Cancel
  <2>1. Admits(row, "CANCEL") /\ row' = Cancelled(row)
    BY <1>1 DEF Cancel, Desk, CanCancel
  <2> QED
    BY <1>0, <2>1, FrozenAdmits DEF Cancelled, Row
<1>2. CASE ~Cancel
  <2>1. \E event \in {"EDIT_CONTENT", "SUBMIT_FOR_REVIEW", "APPROVE", "REQUEST_CHANGES",
                      "SEND_TO_CLIENT", "CLIENT_ACCEPT", "OPEN_NEGOTIATION",
                      "REOPEN_NEGOTIATION"} : Admits(row, event)
    BY <1>2 DEF DeskStep, SaveContent, SubmitForReview, Approve, RequestChanges, SendToClient,
                ClientAccept, Negotiate, Desk, CanEdit, CanSubmit, CanSendToClient, CanAccept,
                CanNegotiate
  <2> QED
    BY <2>1, SigningAdmits, FrozenAdmits DEF Signing
<1> QED
  BY <1>1, <1>2

(* What the abstract machine of the requests sees of a step.               *)
statusOf == [r \in Requests |-> req[r].status]

RequestsStep == Lifecycle!Next \/ UNCHANGED statusOf

LEMMA StatusMove ==
  ASSUME NEW r \in Requests, NEW from, NEW to, req[r].status \in from, req'[r].status \in to,
         \A q \in Requests \ {r} : req'[q].status = req[q].status
  PROVE  Lifecycle!Move(r, from, to)
<1>1. statusOf' = [statusOf EXCEPT ![r] = req'[r].status]
  BY DEF statusOf
<1> QED
  BY <1>1 DEF Lifecycle!Move, statusOf

LEMMA QuietFrame ==
  ASSUME QuietInv, UNCHANGED <<row, req, revoker, worker>>
  PROVE  QuietInv' /\ RequestsStep
  BY DEF QuietInv, AloneOnActive, RevocationOn, RequestsStep, statusOf

LEMMA DeskQuiet ==
  ASSUME SignatureInv, QuietInv, DeskStep
  PROVE  QuietInv' /\ RequestsStep
<1>1. UNCHANGED <<req, worker, revoker>>
  BY DEF DeskStep, SaveContent, SubmitForReview, Approve, RequestChanges, SendToClient,
         ClientAccept, Negotiate, Cancel, Desk, processes
<1>2. AloneOnActive'
  BY <1>1 DEF QuietInv, AloneOnActive
<1>3. ASSUME revoker.pc # "idle" PROVE RevocationOn(revoker.r)'
  BY <1>1, <1>3, DeskBarred DEF QuietInv, RevocationOn
<1> QED
  BY <1>1, <1>2, <1>3 DEF QuietInv, RequestsStep, statusOf

LEMMA PrepareQuiet ==
  ASSUME ~Overlap, SignatureInv, QuietInv, NEW r \in Requests, Prepare(r)
  PROVE  QuietInv' /\ RequestsStep
<1>0. req \in [Requests -> Request]
  BY DEF SignatureInv, TypeOK
<1>1. /\ \A w \in Workers : worker[w].pc = "idle"
      /\ req[r].status = "none" /\ IndexAllows(r)
      /\ req'[r].status = "CREATING"
      /\ \A q \in Requests \ {r} : req'[q] = req[q]
      /\ UNCHANGED <<row, revoker, worker>>
  BY <1>0 DEF Prepare, Quiet
<1>2. Lifecycle!Open(r)
  <2>1. \A q \in Requests : req[q].status \notin Lifecycle!Active
    BY <1>1 DEF IndexAllows, ActiveStatuses, Lifecycle!Active
  <2>2. Lifecycle!Move(r, {"none"}, {"CREATING"})
    BY <1>1, StatusMove
  <2> QED
    BY <2>1, <2>2 DEF Lifecycle!Open
<1>3. ASSUME revoker.pc # "idle" PROVE RevocationOn(revoker.r)'
  <2>1. revoker.r \in Requests /\ Resolved(revoker.r)
    BY <1>3 DEF SignatureInv, RevokerKnown
  <2>2. revoker.r # r /\ req'[revoker.r] = req[revoker.r]
    BY <1>1, <2>1 DEF Resolved
  <2>3. req[revoker.r].status # "COMPLETED"
    <3>1. row \in Row /\ Admits(row, "SEND_FOR_SIGNATURE")
      BY DEF Prepare, CanSendForSignature, SignatureInv, TypeOK
    <3> QED
      BY <1>3, <3>1, FrozenAdmits DEF QuietInv, RevocationOn
  <2> QED
    BY <1>1, <1>3, <2>2, <2>3 DEF QuietInv, RevocationOn
<1>4. AloneOnActive'
  BY <1>1 DEF AloneOnActive
<1> QED
  BY <1>1, <1>2, <1>3, <1>4 DEF QuietInv, RequestsStep, Lifecycle!Next

(* The answer to a send: no webhook is open on its request, which is       *)
(* CREATING, and no revocation either.                                     *)
LEMMA AnswerQuiet ==
  ASSUME ~Overlap, SignatureInv, QuietInv, NEW r \in Requests, RecordFailure(r) \/ Acknowledge(r)
  PROVE  QuietInv' /\ RequestsStep
<1>0. req \in [Requests -> Request] /\ row \in Row
  BY DEF SignatureInv, TypeOK
<1>1. /\ req[r].status = "CREATING"
      /\ UNCHANGED <<revoker, worker>>
      /\ req'[r].status \in {"SENT", "FAILED"}
      /\ \A q \in Requests \ {r} : req'[q] = req[q]
  <2>1. /\ sender[r].pc \notin {"idle", "stopped"} /\ UNCHANGED <<revoker, worker>>
        /\ \/ req' = [req EXCEPT ![r].status = "FAILED"]
           \/ req' = [req EXCEPT ![r].status = "SENT"]
    BY DEF RecordFailure, Acknowledge
  <2>2. req[r].status = "CREATING"
    BY <2>1 DEF SignatureInv, SenderCreating
  <2> QED
    BY <1>0, <2>1, <2>2 DEF Request
<1>2. Lifecycle!Answer(r)
  BY <1>1, StatusMove DEF Lifecycle!Answer
<1>3. \A q \in Requests : Resolved(q) => q # r /\ req'[q] = req[q]
  BY <1>1 DEF Resolved
<1>4. AloneOnActive'
  BY <1>1, <1>3, OpenWorker DEF QuietInv, AloneOnActive
<1>5. ASSUME revoker.pc # "idle" PROVE RevocationOn(revoker.r)'
  <2>1. revoker.r \in Requests /\ req'[revoker.r] = req[revoker.r]
    BY <1>3, <1>5 DEF SignatureInv, RevokerKnown
  <2>2. req[revoker.r].status \notin RevocableStatuses \union {"COMPLETED", "REVOKED"}
    BY <1>1, <1>3, <1>5, <2>1
       DEF SignatureInv, OneActiveRequest, QuietInv, RevocationOn, RevocableStatuses,
           ActiveStatuses, RevokerKnown
  <2> QED
    BY <1>1, <2>1, <2>2 DEF RevocationOn
<1> QED
  BY <1>1, <1>2, <1>4, <1>5 DEF QuietInv, RequestsStep, Lifecycle!Next

LEMMA RevokerQuiet ==
  ASSUME ~Overlap, SignatureInv, QuietInv,
         RevokeValidate \/ RevokeAtProvider \/ RevokeCommit \/ RevokeAbort
  PROVE  QuietInv' /\ RequestsStep
<1>1. CASE RevokeValidate
  <2>1. UNCHANGED <<row, req, worker>> /\ Admits(row, "REVOKE_SIGNATURE")
    BY <1>1 DEF RevokeValidate, database
  <2>2. PICK r \in Requests : req[r].status \in RevocableStatuses
                              /\ revoker' = [pc |-> "validated", r |-> r]
    BY <1>1 DEF RevokeValidate
  <2>3. row \in Row
    BY DEF SignatureInv, TypeOK
  <2>4. row.status \in {"PENDING_SIGNATURE", "PARTIALLY_SIGNED"}
    BY <2>1, <2>3, SignatureStatusList DEF Admits, Transitions, Row
  <2>5. revoker'.r = r
    BY <2>2
  <2>6. RevocationOn(revoker.r)'
    BY <2>1, <2>2, <2>4, <2>5 DEF RevocationOn, RevocableStatuses
  <2> QED
    BY <2>1, <2>6 DEF QuietInv, AloneOnActive, RequestsStep, statusOf
<1>2. CASE RevokeAtProvider \/ RevokeAbort
  <2>1. /\ UNCHANGED <<row, req, worker>> /\ revoker.pc # "idle"
        /\ revoker'.r = revoker.r \/ revoker'.pc = "idle"
    <3>1. revoker \in [pc : {"idle", "validated", "archived"}, r : Requests \union {0}]
      BY DEF SignatureInv, TypeOK
    <3> QED
      BY <1>2, <3>1 DEF RevokeAtProvider, RevokeAbort, database
  <2> QED
    BY <2>1 DEF QuietInv, AloneOnActive, RevocationOn, RequestsStep, statusOf
<1>3. CASE RevokeCommit
  <2>0. req \in [Requests -> Request] /\ row \in Row
    BY DEF SignatureInv, TypeOK
  <2>1. /\ \A w \in Workers : worker[w].pc = "idle"
        /\ revoker.pc # "idle" /\ Admits(row, "REVOKE_SIGNATURE")
        /\ req' = [req EXCEPT ![revoker.r].status = "REVOKED"]
        /\ revoker'.pc = "idle" /\ UNCHANGED worker
    BY <1>3 DEF RevokeCommit, Quiet
  <2>2. PICK r \in Requests : r = revoker.r /\ Resolved(r) /\ RevocationOn(r)
    BY <2>1 DEF SignatureInv, RevokerKnown, QuietInv
  <2>3. /\ req'[r].status = "REVOKED"
        /\ \A q \in Requests \ {r} : req'[q].status = req[q].status
    BY <2>0, <2>1, <2>2 DEF Request
  <2>4. req[r].status \notin {"REVOKED", "COMPLETED"}
    BY <2>1, <2>2, FrozenAdmits DEF RevocationOn
  <2>5. req[r].status \in {"SENT", "PARTIALLY_COMPLETED", "DECLINED", "EXPIRED"}
    BY <2>0, <2>2, <2>4 DEF Request, Resolved, ActiveStatuses, ClosedStatuses
  <2>6. CASE req[r].status \in {"SENT", "PARTIALLY_COMPLETED"}
    <3>1. Lifecycle!End(r)
      BY <2>3, <2>6, StatusMove DEF Lifecycle!End, Lifecycle!Ended
    <3> QED
      BY <2>1, <3>1 DEF QuietInv, AloneOnActive, RequestsStep, Lifecycle!Next
  <2>7. CASE req[r].status \in {"DECLINED", "EXPIRED"}
    <3>1. Lifecycle!RevokeEnded(r)
      BY <2>3, <2>7, StatusMove DEF Lifecycle!RevokeEnded
    <3> QED
      BY <2>1, <3>1 DEF QuietInv, AloneOnActive, RequestsStep, Lifecycle!Next
  <2> QED
    BY <2>5, <2>6, <2>7
<1> QED
  BY <1>1, <1>2, <1>3

LEMMA ReadingQuiet ==
  ASSUME ~Overlap, SignatureInv, WorkerFunction, QuietInv, NEW w \in Workers,
         Rollback(w) \/ Count(w) \/ (\E e \in Event : Receive(w, e))
  PROVE  QuietInv' /\ RequestsStep
<1>0. req \in [Requests -> Request]
  BY DEF SignatureInv, TypeOK
<1>1. UNCHANGED <<row, req, revoker>>
  BY DEF Rollback, Count, Receive, database
<1>2. AloneOnActive'
  <2>1. CASE Rollback(w)
    BY <1>1, <2>1 DEF Rollback, WorkerFunction, QuietInv, AloneOnActive
  <2>2. CASE Count(w)
    <3>1. PICK all : worker' = [worker EXCEPT ![w] = [pc |-> "counted",
                                  event |-> worker[w].event, allSigned |-> all]]
      BY <2>2 DEF Count
    <3>2. worker[w].pc # "idle"
      BY <2>2 DEF Count
    <3> QED
      BY <1>1, <3>1, <3>2 DEF WorkerFunction, QuietInv, AloneOnActive
  <2>3. ASSUME NEW e \in Event, Receive(w, e) PROVE AloneOnActive'
    <3>1. /\ \A v \in Workers : worker[v].pc = "idle"
          /\ e.r \in Requests /\ Resolved(e.r)
      BY <2>3 DEF Receive, Quiet, Event
    <3>2. CASE Inert(e)
      BY <1>1, <2>3, <3>1, <3>2 DEF Receive, AloneOnActive
    <3>3. CASE ~Inert(e)
      <4>1. worker' = [worker EXCEPT ![w] = [pc |-> "open", event |-> e, allSigned |-> FALSE]]
        BY <2>3, <3>3 DEF Receive
      <4>2. req[e.r].status \in RevocableStatuses
        BY <1>0, <3>1, <3>3
           DEF Inert, Resolved, Request, ActiveStatuses, ClosedStatuses, RevocableStatuses
      <4> QED
        BY <1>1, <3>1, <4>1, <4>2 DEF WorkerFunction, AloneOnActive
    <3> QED
      BY <3>2, <3>3
  <2> QED
    BY <2>1, <2>2, <2>3
<1> QED
  BY <1>1, <1>2 DEF QuietInv, RevocationOn, RequestsStep, statusOf

(* The contract follows the request.                                       *)
LEMMA ApplyTransition ==
  ASSUME SignatureInv, NEW w \in Workers, Apply(w), NEW r, r = worker[w].event.r
  PROVE  \/ UNCHANGED <<row, req>>
         \/ RequestTo(r, "DECLINED") \/ RequestTo(r, "EXPIRED")
         \/ /\ RequestTo(r, "PARTIALLY_COMPLETED")
            /\ IF Admits(row, "SIGNER_SIGNED") THEN row'.status = "PARTIALLY_SIGNED"
                                               ELSE UNCHANGED row
         \/ /\ RequestTo(r, "COMPLETED")
            /\ IF Admits(row, "SIGNER_SIGNED") THEN row'.status = "SIGNED"
                                               ELSE UNCHANGED row
<1>0. row \in Row
  BY DEF SignatureInv, TypeOK
<1>1. CASE ApplyViewed(w)
  BY <1>1 DEF ApplyViewed
<1>2. CASE ApplyDeclined(w)
  BY <1>2 DEF ApplyDeclined
<1>3. CASE ApplyExpired(w)
  BY <1>3 DEF ApplyExpired
<1>4. CASE ApplyCompleted(w)
  <2> DEFINE all == worker[w].allSigned
  <2>1. /\ RequestTo(r, IF all THEN "COMPLETED" ELSE "PARTIALLY_COMPLETED")
        /\ row' = IF Admits(row, "SIGNER_SIGNED") THEN SignerSigned(row, all) ELSE row
    BY <1>4 DEF ApplyCompleted, Transition
  <2>2. SignerSigned(row, all).status = IF all THEN "SIGNED" ELSE "PARTIALLY_SIGNED"
    BY <1>0 DEF SignerSigned, Row
  <2> HIDE DEF all
  <2> QED
    BY <2>1, <2>2
<1>5. CASE ApplySubmissionCompleted(w)
  <2>1. /\ RequestTo(r, "COMPLETED")
        /\ row' = IF Admits(row, "SIGNER_SIGNED") THEN SignerSigned(row, TRUE) ELSE row
    BY <1>5 DEF ApplySubmissionCompleted, Transition
  <2>2. SignerSigned(row, TRUE).status = "SIGNED"
    BY <1>0 DEF SignerSigned, Row
  <2> QED
    BY <2>1, <2>2
<1> QED
  BY <1>1, <1>2, <1>3, <1>4, <1>5 DEF Apply

LEMMA ApplyQuiet ==
  ASSUME ~Overlap, SignatureInv, WorkerFunction, QuietInv, NEW w \in Workers, Apply(w)
  PROVE  QuietInv' /\ RequestsStep
<1>0. PICK r \in Requests : /\ r = worker[w].event.r /\ worker[w].pc # "idle"
                            /\ worker' = [worker EXCEPT ![w] = [pc |-> "idle"]]
                            /\ UNCHANGED revoker
  BY ApplyWrites DEF Finish
<1>1. /\ req \in [Requests -> Request] /\ row \in Row
      /\ req[r].status \in RevocableStatuses
      /\ \A q \in Requests \ {r} : req[q].status \notin ActiveStatuses
      /\ \A v \in Workers : worker'[v].pc = "idle"
  <2>1. req \in [Requests -> Request] /\ row \in Row
    BY DEF SignatureInv, TypeOK
  <2>2. /\ req[r].status \in RevocableStatuses
        /\ \A v \in Workers : worker[v].pc # "idle" => v = w
    BY <1>0 DEF QuietInv, AloneOnActive
  <2>3. \A q \in Requests \ {r} : req[q].status \notin ActiveStatuses
    BY <2>2 DEF SignatureInv, OneActiveRequest, RevocableStatuses, ActiveStatuses
  <2>4. \A v \in Workers : worker'[v].pc = "idle"
    BY <1>0, <2>2 DEF WorkerFunction
  <2> QED
    BY <2>1, <2>2, <2>3, <2>4
<1>2. ASSUME NEW s \in {"PARTIALLY_COMPLETED", "COMPLETED", "DECLINED", "EXPIRED"},
             RequestTo(r, s)
      PROVE  /\ req'[r].status = s
             /\ \A q \in Requests \ {r} : req'[q] = req[q]
             /\ RequestsStep
  <2>1. req'[r].status = s /\ \A q \in Requests \ {r} : req'[q] = req[q]
    BY <1>1, <1>2 DEF RequestTo, Request
  <2>2. CASE s # "PARTIALLY_COMPLETED"
    <3>1. Lifecycle!End(r)
      BY <1>1, <2>1, <2>2, StatusMove DEF Lifecycle!End, Lifecycle!Ended, RevocableStatuses
    <3> QED
      BY <2>1, <3>1 DEF RequestsStep, Lifecycle!Next
  <2>3. CASE s = "PARTIALLY_COMPLETED" /\ req[r].status = "SENT"
    <3>1. Lifecycle!Advance(r)
      BY <2>1, <2>3, StatusMove DEF Lifecycle!Advance
    <3> QED
      BY <2>1, <3>1 DEF RequestsStep, Lifecycle!Next
  <2>4. CASE s = "PARTIALLY_COMPLETED" /\ req[r].status = "PARTIALLY_COMPLETED"
    BY <2>1, <2>4 DEF RequestsStep, statusOf
  <2> QED
    BY <1>1, <2>1, <2>2, <2>3, <2>4 DEF RevocableStatuses
<1>3. RequestsStep
  BY <1>0, <1>2, ApplyTransition DEF RequestsStep, statusOf
<1>4. ASSUME revoker.pc # "idle" PROVE RevocationOn(revoker.r)'
  <2>1. /\ revoker.r \in Requests /\ RevocationOn(revoker.r) /\ UNCHANGED revoker
    BY <1>0, <1>4 DEF SignatureInv, RevokerKnown, QuietInv
  <2>2. CASE revoker.r # r
    <3>1. req[revoker.r].status \notin RevocableStatuses \union {"COMPLETED", "REVOKED"}
      BY <1>1, <2>1, <2>2 DEF RevocationOn, RevocableStatuses, ActiveStatuses
    <3>2. req'[revoker.r] = req[revoker.r]
      BY <1>0, <1>2, <2>1, <2>2, ApplyTransition
    <3> QED
      BY <2>1, <3>1, <3>2 DEF RevocationOn
  <2>3. CASE revoker.r = r
    <3>1. row.status \in {"PENDING_SIGNATURE", "PARTIALLY_SIGNED", "CANCELLED"}
      BY <1>1, <2>1, <2>3 DEF RevocationOn
    <3>2. row.status # "CANCELLED" => Admits(row, "SIGNER_SIGNED")
      BY <3>1, SigningAdmits DEF Signing
    <3>3. CASE UNCHANGED <<row, req>>
      BY <2>1, <3>3 DEF RevocationOn
    <3>4. CASE RequestTo(r, "DECLINED") \/ RequestTo(r, "EXPIRED")
      BY <1>2, <2>1, <2>3, <3>4 DEF RevocationOn, RevocableStatuses
    <3>5. CASE /\ RequestTo(r, "PARTIALLY_COMPLETED")
               /\ IF Admits(row, "SIGNER_SIGNED") THEN row'.status = "PARTIALLY_SIGNED"
                                                  ELSE UNCHANGED row
      BY <1>2, <2>1, <2>3, <3>1, <3>2, <3>5 DEF RevocationOn
    <3>6. CASE /\ RequestTo(r, "COMPLETED")
               /\ IF Admits(row, "SIGNER_SIGNED") THEN row'.status = "SIGNED"
                                                  ELSE UNCHANGED row
      <4>1. req'[r].status = "COMPLETED" /\ \A q \in Requests \ {r} : req'[q] = req[q]
        BY <1>2, <3>6
      <4>2. \A q \in Requests : req'[q].status \notin ActiveStatuses
        BY <1>1, <4>1 DEF ActiveStatuses
      <4>3. row'.status \in {"SIGNED", "CANCELLED"}
        BY <3>1, <3>2, <3>6
      <4> QED
        BY <2>1, <2>3, <4>1, <4>2, <4>3 DEF RevocationOn, RevocableStatuses
    <3> QED
      BY <1>0, <3>3, <3>4, <3>5, <3>6, ApplyTransition
  <2> QED
    BY <2>2, <2>3
<1> QED
  BY <1>0, <1>1, <1>3, <1>4 DEF QuietInv, AloneOnActive

LEMMA QuietStep ==
  ASSUME ~Overlap
  PROVE  SignatureInv /\ WorkerFunction /\ QuietInv /\ [Next]_signatureVars
           => QuietInv' /\ RequestsStep
<1> SUFFICES ASSUME SignatureInv, WorkerFunction, QuietInv, [Next]_signatureVars
             PROVE  QuietInv' /\ RequestsStep
  OBVIOUS
<1>1. CASE DeskStep
  BY <1>1, DeskQuiet
<1>2. CASE RevokeValidate \/ RevokeAtProvider \/ RevokeCommit \/ RevokeAbort
  BY <1>2, RevokerQuiet
<1>3. ASSUME NEW r \in Requests, Prepare(r) \/ RecordFailure(r) \/ Acknowledge(r)
      PROVE  QuietInv' /\ RequestsStep
  BY <1>3, PrepareQuiet, AnswerQuiet
<1>4. ASSUME NEW r \in Requests,
             \/ Render(r) \/ HashRejected(r) \/ CreateSubmission(r) \/ CreateFails(r)
             \/ Crash(r) \/ Expire(r)
             \/ \E s \in Signers : OpenForm(r, s) \/ CompleteForm(r, s) \/ DeclineForm(r, s)
      PROVE  QuietInv' /\ RequestsStep
  <2>1. UNCHANGED <<row, req, revoker, worker>>
    BY <1>4 DEF Render, HashRejected, CreateSubmission, CreateFails, Crash, Expire, OpenForm,
                CompleteForm, DeclineForm, database, processes
  <2> QED
    BY <2>1, QuietFrame
<1>5. ASSUME NEW w \in Workers,
             \/ \E e \in Event : e.kind \in Kinds /\ Receive(w, e)
             \/ Count(w) \/ Apply(w) \/ Rollback(w)
      PROVE  QuietInv' /\ RequestsStep
  BY <1>5, ReadingQuiet, ApplyQuiet
<1>6. CASE UNCHANGED signatureVars
  BY <1>6, QuietFrame DEF signatureVars, database, processes
<1> QED
  BY <1>1, <1>2, <1>3, <1>4, <1>5, <1>6 DEF Next, Apply, DeskStep

(* Without overlap the requests of a contract are opened, answered,        *)
(* advanced and closed as RequestLifecycle promises, whatever is lost,     *)
(* duplicated, reordered or cut short.                                     *)
THEOREM QuietRequestsRefined ==
  ASSUME ~Overlap
  PROVE  Spec => RequestsRefined
<1>1. Init => SignatureInv /\ WorkerFunction /\ QuietInv
  BY SignatureInit DEF Init, WorkerFunction, QuietInv, AloneOnActive
<1>2. Init => Lifecycle!Init
  BY DEF Init, Lifecycle!Init
<1>3. SignatureInv /\ WorkerFunction /\ QuietInv /\ [Next]_signatureVars
        => [Lifecycle!Next]_statusOf
  BY QuietStep DEF RequestsStep
<1>4. SignatureInv /\ WorkerFunction /\ QuietInv /\ [Next]_signatureVars => QuietInv'
  BY QuietStep
<1> QED
  BY <1>1, <1>2, <1>3, <1>4, SignatureStep, PTL
     DEF Spec, RequestsRefined, Lifecycle!Spec, statusOf

(* Without overlap a closed request never reopens, whatever arrives late.  *)
THEOREM QuietClosedStaysClosed ==
  ASSUME ~Overlap
  PROVE  Spec => ClosedStaysClosed
<1>1. Init => SignatureInv /\ WorkerFunction /\ QuietInv
  BY SignatureInit DEF Init, WorkerFunction, QuietInv, AloneOnActive
<1>2. SignatureInv /\ WorkerFunction /\ QuietInv /\ [Next]_signatureVars => QuietInv'
  BY QuietStep
<1>3. RequestsStep =>
        \A r \in Requests : req[r].status \in ClosedStatuses => req'[r].status \in ClosedStatuses
  BY DEF RequestsStep, statusOf, Lifecycle!Next, Lifecycle!Open, Lifecycle!Answer,
         Lifecycle!Advance, Lifecycle!End, Lifecycle!RevokeEnded, Lifecycle!Move,
         Lifecycle!Ended, ClosedStatuses
<1>4. SignatureInv /\ WorkerFunction /\ QuietInv /\ [Next]_signatureVars =>
        [\A r \in Requests :
           req[r].status \in ClosedStatuses => req'[r].status \in ClosedStatuses]_signatureVars
  BY <1>3, QuietStep
<1> QED
  BY <1>1, <1>2, <1>4, SignatureStep, PTL DEF Spec, ClosedStaysClosed
-----------------------------------------------------------------------------
(* Without overlap, the requests follow the provider and the contract      *)
(* follows the requests, whatever the number of signers and of requests.   *)
(*                                                                         *)
(* A webhook is about what is final at the provider, so it is still true   *)
(* when it is applied; and what it read of the signers is, because nothing *)
(* else writes them.  A revocation may be committed late, on a request     *)
(* that has ended, and start over the signers of the next one: that is why *)
(* nothing here says that a form completed at the provider is SIGNED here, *)
(* only the converse.                                                      *)

(* What the provider holds about the submission of a request.              *)
ProviderTold ==
  \A r \in Requests :
    /\ sub[r].state = "COMPLETED" <=>
         Signers # {} /\ \A s \in Signers : form[r][s] = "COMPLETED"
    /\ \A s \in Signers : form[r][s] = "DECLINED" => sub[r].state = "DECLINED"
    /\ sub[r].state = "DECLINED" =>
         "FORM_DECLINED" \in Kinds /\ \E s \in Signers : form[r][s] = "DECLINED"
    /\ sub[r].state = "EXPIRED" => "SUBMISSION_EXPIRED" \in Kinds

(* How far the call of send and the revocation have come with it.          *)
CallsTold ==
  \A r \in Requests :
    /\ sender[r].pc \in {"prepared", "rendered"} \/ req[r].status = "none" =>
         sub[r].state = "none"
    /\ sender[r].pc = "created" \/ Resolved(r) => sub[r].state # "none"
    /\ req[r].status = "REVOKED" \/ (revoker.pc = "archived" /\ revoker.r = r) =>
         sub[r].archived

(* The signers of the request that awaits signatures.                      *)
SignersFollow ==
  \A r \in Requests :
    req[r].status \in RevocableStatuses =>
      /\ \A s \in Signers : signer[s] = "SIGNED" => form[r][s] = "COMPLETED"
      /\ req[r].status = "SENT" => \A s \in Signers : signer[s] # "SIGNED"
      /\ req[r].status = "PARTIALLY_COMPLETED" =>
           \E s \in Signers : form[r][s] = "COMPLETED"

(* A request ends as its submission did.                                   *)
EndsFollow ==
  \A r \in Requests :
    req[r].status \in {"COMPLETED", "DECLINED", "EXPIRED"} => sub[r].state = req[r].status

(* What an open transaction has read still holds.                          *)
StillTrue(w) ==
  LET e == worker[w].event IN
  /\ Happened(e)
  /\ e.kind \in {"FORM_VIEWED", "FORM_DECLINED"} => signer[e.s] # "SIGNED"
  /\ worker[w].pc = "counted" =>
       /\ e.kind = "FORM_COMPLETED"
       /\ worker[w].allSigned <=> \A s \in Signers \ {e.s} : signer[s] = "SIGNED"

ReadStillTrue == \A w \in Workers : worker[w].pc # "idle" => StillTrue(w)

(* What was delivered was taken into account.                              *)
JournalTold ==
  \A e \in journal :
    /\ Resolved(e.r)
    /\ req[e.r].status \in RevocableStatuses =>
         \/ e.kind = "FORM_VIEWED"
         \/ e.kind = "FORM_COMPLETED" /\ req[e.r].status = "PARTIALLY_COMPLETED"

(* The contract awaits signatures with its request and is signed with it.  *)
ContractFollows ==
  (\A q \in Requests : req[q].status # "REVOKED") =>
    /\ \A r \in Requests :
         req[r].status \in RevocableStatuses =>
           row.status \in {"PENDING_SIGNATURE", "PARTIALLY_SIGNED", "CANCELLED"}
    /\ (\E r \in Requests : req[r].status = "COMPLETED") =>
         /\ row.status \in {"SIGNED", "CANCELLED"}
         /\ \A q \in Requests : req[q].status \notin ActiveStatuses

DatabaseFollows ==
  SignersFollow /\ EndsFollow /\ ReadStillTrue /\ JournalTold /\ ContractFollows /\ SignedByAll

FollowInv == ProviderTold /\ CallsTold /\ DatabaseFollows

LEMMA FollowStart == Init => FollowInv
<1> SUFFICES ASSUME Init PROVE FollowInv
  OBVIOUS
<1>1. ProviderTold /\ CallsTold
  BY DEF Init, ProviderTold, CallsTold, Resolved
<1>2. SignersFollow /\ EndsFollow /\ ReadStillTrue /\ JournalTold /\ ContractFollows
  BY DEF Init, SignersFollow, EndsFollow, ReadStillTrue, JournalTold, ContractFollows,
         RevocableStatuses
<1>3. SignedByAll
  BY DEF Init, SignedByAll
<1> QED
  BY <1>1, <1>2, <1>3 DEF FollowInv, DatabaseFollows

(* What is final at the provider.                                          *)
FactsKept ==
  \A r \in Requests :
    /\ sub[r].state \notin {"none", "PENDING"} => sub'[r].state = sub[r].state
    /\ sub[r].state # "none" => sub'[r].state # "none"
    /\ sub[r].archived => sub'[r].archived
    /\ \A s \in Signers :
         /\ form[r][s] \in {"COMPLETED", "DECLINED"} => form'[r][s] = form[r][s]
         /\ form[r][s] # "AWAITING" => form'[r][s] # "AWAITING"

LEMMA HappenedKept ==
  ASSUME FactsKept, NEW e \in Event, Happened(e)
  PROVE  Happened(e)'
<1>1. e.r \in Requests /\ e.s \in Signers \union {NoSigner} /\ e.kind \in EventKinds
  BY DEF Event
<1>2. CASE e.kind = "FORM_VIEWED"
  BY <1>1, <1>2 DEF Happened, FactsKept
<1>3. CASE e.kind = "FORM_COMPLETED"
  BY <1>1, <1>3 DEF Happened, FactsKept
<1>4. CASE e.kind = "FORM_DECLINED"
  BY <1>1, <1>4 DEF Happened, FactsKept
<1>5. CASE e.kind = "SUBMISSION_COMPLETED"
  BY <1>1, <1>5 DEF Happened, FactsKept
<1>6. CASE e.kind = "SUBMISSION_EXPIRED"
  BY <1>1, <1>6 DEF Happened, FactsKept
<1> QED
  BY <1>1, <1>2, <1>3, <1>4, <1>5, <1>6 DEF EventKinds

(* A step of the provider, or one that neither the database nor the open   *)
(* transactions see.                                                       *)
LEMMA FollowFrame ==
  ASSUME SignatureInv, DatabaseFollows, FactsKept, UNCHANGED <<row, req, signer, journal, worker>>
  PROVE  DatabaseFollows'
<1>1. SignersFollow'
  BY DEF DatabaseFollows, SignersFollow, FactsKept
<1>2. EndsFollow'
  BY DEF DatabaseFollows, EndsFollow, FactsKept
<1>3. ReadStillTrue'
  <2>1. ASSUME NEW w \in Workers, worker[w].pc # "idle" PROVE StillTrue(w)'
    <3>1. StillTrue(w) /\ worker[w].event \in Event
      BY <2>1, OpenWorker DEF DatabaseFollows, ReadStillTrue
    <3>2. Happened(worker[w].event)'
      <4>1. \A e \in Event : Happened(e) => Happened(e)'
        BY HappenedKept
      <4>2. Happened(worker[w].event)
        BY <3>1 DEF StillTrue
      <4>3. FactsKept /\ UNCHANGED worker
        OBVIOUS
      <4>4. PICK e \in Event : e = worker[w].event
        BY <3>1
      <4>5. Happened(e)'
        BY <4>2, <4>4, HappenedKept
      <4> QED
        BY <4>3, <4>4, <4>5 DEF Happened
    <3> QED
      BY <3>1, <3>2 DEF StillTrue
  <2> QED
    BY <2>1 DEF ReadStillTrue
<1>4. JournalTold'
  BY DEF DatabaseFollows, JournalTold, Resolved
<1>5. ContractFollows'
  BY DEF DatabaseFollows, ContractFollows
<1>6. SignedByAll'
  BY DEF DatabaseFollows, SignedByAll, FactsKept
<1> QED
  BY <1>1, <1>2, <1>3, <1>4, <1>5, <1>6 DEF DatabaseFollows

LEMMA SameFacts ==
  ASSUME UNCHANGED <<sub, form>>, ProviderTold
  PROVE  FactsKept /\ ProviderTold'
  BY DEF FactsKept, ProviderTold

SubmissionType == [state : {"none", "PENDING", "COMPLETED", "DECLINED", "EXPIRED"},
                   archived : BOOLEAN]

LEMMA ProviderType ==
  ASSUME SignatureInv
  PROVE  /\ sub \in [Requests -> SubmissionType]
         /\ form \in [Requests -> [Signers -> {"AWAITING", "OPENED", "COMPLETED", "DECLINED"}]]
         /\ req \in [Requests -> Request] /\ row \in Row
         /\ signer \in [Signers -> {"PENDING", "SENT", "VIEWED", "SIGNED", "DECLINED"}]
  BY DEF SignatureInv, TypeOK, SubmissionType

(* What the provider does with the submissions and their forms.            *)
LEMMA ProviderFollows ==
  ASSUME SignatureInv, ProviderTold, CallsTold, NEW r \in Requests,
         Expire(r) \/ (\E s \in Signers : OpenForm(r, s) \/ CompleteForm(r, s) \/ DeclineForm(r, s))
  PROVE  ProviderTold' /\ CallsTold' /\ FactsKept /\ UNCHANGED <<database, processes>>
<1>0. /\ UNCHANGED <<database, processes>>
      /\ sub[r].state = "PENDING" /\ ~sub[r].archived
      /\ sub \in [Requests -> SubmissionType]
      /\ form \in [Requests -> [Signers -> {"AWAITING", "OPENED", "COMPLETED", "DECLINED"}]]
  BY ProviderType DEF Expire, OpenForm, CompleteForm, DeclineForm, Live
<1>1. CASE Expire(r)
  <2>1. /\ sub'[r].state = "EXPIRED" /\ sub'[r].archived = sub[r].archived
        /\ \A q \in Requests \ {r} : sub'[q] = sub[q]
        /\ UNCHANGED form /\ "SUBMISSION_EXPIRED" \in Kinds
    BY <1>0, <1>1 DEF Expire, SubmissionType
  <2>2. FactsKept
    BY <1>0, <2>1 DEF FactsKept
  <2>3. ProviderTold'
    BY <1>0, <2>1 DEF ProviderTold
  <2>4. CallsTold'
    BY <1>0, <2>1 DEF CallsTold, Resolved, database, processes
  <2> QED
    BY <1>0, <2>2, <2>3, <2>4
<1>2. ASSUME NEW s \in Signers, OpenForm(r, s) \/ CompleteForm(r, s) \/ DeclineForm(r, s)
      PROVE  ProviderTold' /\ CallsTold' /\ FactsKept
  <2>1. /\ form[r][s] \in {"AWAITING", "OPENED"}
        /\ \A q \in Requests \ {r} : form'[q] = form[q] /\ sub'[q] = sub[q]
        /\ \A t \in Signers \ {s} : form'[r][t] = form[r][t]
        /\ sub'[r].archived = sub[r].archived
        /\ \/ form'[r][s] = "OPENED" /\ sub'[r].state = "PENDING"
           \/ /\ form'[r][s] = "COMPLETED"
              /\ sub'[r].state = IF \A q \in Signers \ {s} : form[r][q] = "COMPLETED"
                                   THEN "COMPLETED" ELSE "PENDING"
           \/ form'[r][s] = "DECLINED" /\ sub'[r].state = "DECLINED" /\ "FORM_DECLINED" \in Kinds
    <3>1. CASE OpenForm(r, s)
      BY <1>0, <3>1 DEF OpenForm
    <3>2. CASE CompleteForm(r, s)
      <4> DEFINE all == \A q \in Signers \ {s} : form[r][q] = "COMPLETED"
      <4>1. /\ form[r][s] \in {"AWAITING", "OPENED"}
            /\ form' = [form EXCEPT ![r][s] = "COMPLETED"]
            /\ sub' = [sub EXCEPT ![r].state = IF all THEN "COMPLETED" ELSE "PENDING"]
        BY <3>2 DEF CompleteForm
      <4> HIDE DEF all
      <4>2. /\ \A q \in Requests \ {r} : form'[q] = form[q] /\ sub'[q] = sub[q]
            /\ \A t \in Signers \ {s} : form'[r][t] = form[r][t]
            /\ form'[r][s] = "COMPLETED"
        BY <1>0, <4>1
      <4>3. /\ sub'[r].archived = sub[r].archived
            /\ sub'[r].state = IF all THEN "COMPLETED" ELSE "PENDING"
        BY <1>0, <4>1 DEF SubmissionType
      <4> QED
        BY <4>1, <4>2, <4>3 DEF all
    <3>3. CASE DeclineForm(r, s)
      BY <1>0, <3>3 DEF DeclineForm, SubmissionType
    <3> QED
      BY <1>2, <3>1, <3>2, <3>3
  <2>2. FactsKept
    BY <1>0, <2>1 DEF FactsKept
  <2>3. ProviderTold'
    <3>1. sub'[r].state = "COMPLETED" <=>
            Signers # {} /\ \A t \in Signers : form'[r][t] = "COMPLETED"
      BY <1>0, <2>1 DEF ProviderTold
    <3>2. \A t \in Signers : form'[r][t] = "DECLINED" => sub'[r].state = "DECLINED"
      BY <1>0, <2>1 DEF ProviderTold
    <3>3. /\ sub'[r].state = "DECLINED" =>
               "FORM_DECLINED" \in Kinds /\ \E t \in Signers : form'[r][t] = "DECLINED"
          /\ sub'[r].state # "EXPIRED"
      BY <1>0, <2>1
    <3> QED
      BY <2>1, <3>1, <3>2, <3>3 DEF ProviderTold
  <2>4. CallsTold'
    BY <1>0, <2>1 DEF CallsTold, Resolved, database, processes
  <2> QED
    BY <2>2, <2>3, <2>4
<1> QED
  BY <1>0, <1>1, <1>2

(* The steps of a call of send up to its answer.                           *)
LEMMA SenderFollows ==
  ASSUME SignatureInv, ProviderTold, CallsTold, NEW r \in Requests,
         Render(r) \/ HashRejected(r) \/ CreateSubmission(r) \/ CreateFails(r) \/ Crash(r)
  PROVE  /\ ProviderTold' /\ CallsTold' /\ FactsKept
         /\ UNCHANGED <<row, req, signer, journal, worker, revoker>>
<1>0. /\ UNCHANGED <<row, req, signer, journal, revoker, worker, form>>
      /\ sender \in [Requests -> [pc : {"idle", "prepared", "rendered", "created",
                                       "failing", "stopped"}, snap : Row]]
      /\ sub \in [Requests -> SubmissionType]
      /\ sender[r].pc \notin {"idle", "stopped"}
      /\ req[r].status = "CREATING"
  BY ProviderType DEF SignatureInv, TypeOK, SenderCreating, Render, HashRejected,
         CreateSubmission, CreateFails, Crash, database, provider
<1>1. CASE sub' = sub
  <2>1. ProviderTold' /\ FactsKept
    BY <1>0, <1>1, SameFacts
  <2>2. \/ sender[r].pc = "prepared" /\ SenderTo(r, "rendered")
        \/ SenderTo(r, "stopped") \/ SenderTo(r, "failing")
        \/ Submission(r) /\ sender[r].pc = "rendered"
    BY DEF Render, HashRejected, CreateSubmission, CreateFails, Crash
  <2>3. ~Submission(r) \/ sender[r].pc # "rendered"
    BY <1>0, <1>1 DEF Submission, CallsTold, SubmissionType
  <2>4. CallsTold'
    BY <1>0, <1>1, <2>2, <2>3 DEF CallsTold, Resolved, SenderTo
  <2> QED
    BY <1>0, <2>1, <2>4
<1>2. CASE sub' # sub
  <2>1. /\ sender[r].pc = "rendered" /\ sub' = [sub EXCEPT ![r].state = "PENDING"]
        /\ SenderTo(r, "created") \/ SenderTo(r, "failing")
    BY <1>2 DEF Render, HashRejected, CreateSubmission, CreateFails, Crash, Submission, provider
  <2>2. sub[r].state = "none"
    BY <2>1 DEF CallsTold
  <2>3. /\ sub'[r].state = "PENDING" /\ sub'[r].archived = sub[r].archived
        /\ \A q \in Requests \ {r} : sub'[q] = sub[q]
    BY <1>0, <2>1 DEF SubmissionType
  <2>4. FactsKept
    BY <1>0, <2>2, <2>3 DEF FactsKept
  <2>5. ProviderTold'
    BY <1>0, <2>2, <2>3 DEF ProviderTold
  <2>6. CallsTold'
    BY <1>0, <2>1, <2>3 DEF CallsTold, Resolved, SenderTo
  <2> QED
    BY <1>0, <2>4, <2>5, <2>6
<1> QED
  BY <1>1, <1>2

(* The desk.                                                               *)
LEMMA DeskFollows ==
  ASSUME SignatureInv, FollowInv, DeskStep
  PROVE  FollowInv'
<1>1. UNCHANGED <<req, signer, journal, sender, revoker, worker, sub, form>>
  BY DEF DeskStep, SaveContent, SubmitForReview, Approve, RequestChanges, SendToClient,
         ClientAccept, Negotiate, Cancel, Desk, processes, provider
<1>2. ProviderTold' /\ CallsTold'
  BY <1>1 DEF FollowInv, ProviderTold, CallsTold, Resolved
<1>3. SignersFollow' /\ EndsFollow'
  BY <1>1 DEF FollowInv, DatabaseFollows, SignersFollow, EndsFollow
<1>4. ReadStillTrue'
  BY <1>1 DEF FollowInv, DatabaseFollows, ReadStillTrue, StillTrue, Happened
<1>5. JournalTold'
  BY <1>1 DEF FollowInv, DatabaseFollows, JournalTold, Resolved
<1>6. ContractFollows'
  <2>1. ContractFollows
    BY DEF FollowInv, DatabaseFollows
  <2> QED
    BY <1>1, <2>1, DeskBarred DEF ContractFollows
<1>7. SignedByAll'
  <2>1. row'.status # "SIGNED"
    <3>0. row \in Row
      BY DEF SignatureInv, TypeOK
    <3>1. CASE SaveContent
      <4>1. row'.status = Edited(row).status
        BY <3>0, <3>1, SignatureTransitionTypes DEF SaveContent, Desk, Row
      <4>2. Edited(row).status \in {"DRAFT", row.status}
        BY <3>0 DEF Edited, Row
      <4> QED
        BY <4>1, <4>2, DeskBarred
    <3>2. CASE SubmitForReview \/ Approve \/ RequestChanges
      BY <3>0, <3>2 DEF SubmitForReview, Approve, RequestChanges, Desk, Submitted, Approved,
                        ChangesRequested, Row
    <3>3. CASE SendToClient \/ ClientAccept \/ Negotiate \/ Cancel
      BY <3>0, <3>3 DEF SendToClient, ClientAccept, Negotiate, Cancel, Desk, SentToClient,
                        Accepted, InNegotiation, Cancelled, Row
    <3> QED
      BY <3>1, <3>2, <3>3 DEF DeskStep
  <2> QED
    BY <2>1 DEF SignedByAll
<1> QED
  BY <1>2, <1>3, <1>4, <1>5, <1>6, <1>7 DEF FollowInv, DatabaseFollows

(* A request is opened.                                                    *)
LEMMA PrepareFollows ==
  ASSUME ~Overlap, SignatureInv, FollowInv, NEW r \in Requests, Prepare(r)
  PROVE  FollowInv'
<1>1. /\ \A w \in Workers : worker[w].pc = "idle"
      /\ req[r].status = "none" /\ req'[r].status = "CREATING"
      /\ \A q \in Requests \ {r} : req'[q] = req[q]
      /\ UNCHANGED <<row, hashed, signer, journal, revoker, worker, sub, form>>
      /\ sender'[r].pc = "prepared" /\ \A q \in Requests \ {r} : sender'[q] = sender[q]
  BY ProviderType DEF Prepare, Quiet, provider, SignatureInv, TypeOK
<1>2. row.status \notin {"SIGNED", "CANCELLED"}
  <2>1. Admits(row, "SEND_FOR_SIGNATURE")
    BY DEF Prepare, CanSendForSignature
  <2> QED
    BY <2>1, FrozenAdmits
<1>3. ProviderTold' /\ CallsTold'
  <2>1. CallsTold'
    BY <1>1 DEF FollowInv, CallsTold, Resolved
  <2> QED
    BY <1>1, <2>1, SameFacts DEF FollowInv
<1>4. SignersFollow' /\ EndsFollow'
  BY <1>1 DEF FollowInv, DatabaseFollows, SignersFollow, EndsFollow, RevocableStatuses
<1>5. ReadStillTrue'
  BY <1>1 DEF ReadStillTrue
<1>6. JournalTold'
  <2>1. JournalTold /\ journal \subseteq Event
    BY DEF FollowInv, DatabaseFollows, SignatureInv, TypeOK
  <2>2. \A e \in journal : e.r \in Requests \ {r}
    BY <1>1, <2>1 DEF JournalTold, Resolved, Event
  <2> QED
    BY <1>1, <2>1, <2>2 DEF JournalTold, Resolved
<1>7. ContractFollows'
  <2>1. ContractFollows
    BY DEF FollowInv, DatabaseFollows
  <2> QED
    BY <1>1, <1>2, <2>1 DEF ContractFollows, RevocableStatuses
<1>8. SignedByAll'
  BY <1>1 DEF FollowInv, DatabaseFollows, SignedByAll
<1> QED
  BY <1>3, <1>4, <1>5, <1>6, <1>7, <1>8 DEF FollowInv, DatabaseFollows

(* The call of send ends: its submission is there, and its signers start.  *)
LEMMA AnswerFollows ==
  ASSUME ~Overlap, SignatureInv, QuietInv, FollowInv, NEW r \in Requests,
         RecordFailure(r) \/ Acknowledge(r)
  PROVE  FollowInv'
<1>0. /\ req[r].status = "CREATING"
      /\ \A q \in Requests \ {r} : req[q].status \notin ActiveStatuses
      /\ journal \subseteq Event
  <2>1. sender[r].pc \notin {"idle", "stopped"}
    BY DEF RecordFailure, Acknowledge
  <2> QED
    BY <2>1 DEF SignatureInv, TypeOK, SenderCreating, OneActiveRequest, ActiveStatuses
<1>1. /\ \A q \in Requests \ {r} : req'[q] = req[q] /\ sender'[q] = sender[q]
      /\ sender'[r].pc = "stopped"
      /\ UNCHANGED <<hashed, journal, revoker, worker, sub, form>>
  BY ProviderType DEF RecordFailure, Acknowledge, SenderTo, provider, SignatureInv, TypeOK
<1>2. CASE RecordFailure(r)
  <2>1. req'[r].status = "FAILED" /\ UNCHANGED <<row, signer>>
    BY <1>2, ProviderType DEF RecordFailure, Request
  <2>2. ProviderTold' /\ CallsTold'
    <3>1. CallsTold'
      BY <1>0, <1>1, <2>1 DEF FollowInv, CallsTold, Resolved
    <3> QED
      BY <1>1, <3>1, SameFacts DEF FollowInv
  <2>3. SignersFollow' /\ EndsFollow' /\ SignedByAll'
    BY <1>1, <2>1 DEF FollowInv, DatabaseFollows, SignersFollow, EndsFollow, SignedByAll,
                      RevocableStatuses
  <2>4. ReadStillTrue'
    BY <1>1, <2>1 DEF FollowInv, DatabaseFollows, ReadStillTrue, StillTrue, Happened
  <2>5. JournalTold'
    BY <1>0, <1>1, <2>1 DEF FollowInv, DatabaseFollows, JournalTold, Resolved, Event
  <2>6. ContractFollows'
    BY <1>0, <1>1, <2>1 DEF FollowInv, DatabaseFollows, ContractFollows, RevocableStatuses,
                            ActiveStatuses
  <2> QED
    BY <2>2, <2>3, <2>4, <2>5, <2>6 DEF FollowInv, DatabaseFollows
<1>3. CASE Acknowledge(r)
  <2>1. /\ req'[r].status = "SENT" /\ \A s \in Signers : signer'[s] = "SENT"
        /\ sender[r].pc = "created" /\ \A w \in Workers : worker[w].pc = "idle"
    BY <1>3, ProviderType DEF Acknowledge, Request, Quiet
  <2>2. row'.status = "PENDING_SIGNATURE"
    <3>1. sender[r].snap \in Row /\ row \in Row
      BY DEF SignatureInv, TypeOK
    <3> QED
      BY <1>3, <3>1 DEF Acknowledge, SentForSignature, Row
  <2>3. ProviderTold' /\ CallsTold'
    <3>1. CallsTold'
      BY <1>0, <1>1, <2>1 DEF FollowInv, CallsTold, Resolved
    <3> QED
      BY <1>1, <3>1, SameFacts DEF FollowInv
  <2>4. SignersFollow'
    BY <1>0, <1>1, <2>1 DEF SignersFollow, RevocableStatuses, ActiveStatuses
  <2>5. EndsFollow' /\ SignedByAll'
    BY <1>1, <2>1, <2>2 DEF FollowInv, DatabaseFollows, EndsFollow, SignedByAll
  <2>6. ReadStillTrue'
    BY <1>1, <2>1 DEF ReadStillTrue
  <2>7. JournalTold'
    BY <1>0, <1>1, <2>1 DEF FollowInv, DatabaseFollows, JournalTold, Resolved, Event
  <2>8. ContractFollows'
    <3>1. (\A q \in Requests : req'[q].status # "REVOKED") =>
            \A q \in Requests : req'[q].status # "COMPLETED"
      <4>1. ASSUME \A q \in Requests : req'[q].status # "REVOKED",
                   NEW q \in Requests, req'[q].status = "COMPLETED"
            PROVE  FALSE
        <5>1. q # r /\ req[q].status = "COMPLETED"
          BY <1>1, <2>1, <4>1
        <5>2. \A p \in Requests : req[p].status # "REVOKED"
          BY <1>0, <1>1, <4>1
        <5>3. ContractFollows
          BY DEF FollowInv, DatabaseFollows
        <5> QED
          BY <1>0, <5>1, <5>2, <5>3 DEF ContractFollows, ActiveStatuses
      <4> QED
        BY <4>1
    <3> QED
      BY <2>2, <3>1 DEF ContractFollows
  <2> QED
    BY <2>3, <2>4, <2>5, <2>6, <2>7, <2>8 DEF FollowInv, DatabaseFollows
<1> QED
  BY <1>2, <1>3

(* The revocation, which may end another request than the one that awaits  *)
(* signatures.                                                             *)
LEMMA RevokerFollows ==
  ASSUME ~Overlap, SignatureInv, QuietInv, FollowInv,
         RevokeValidate \/ RevokeAtProvider \/ RevokeCommit \/ RevokeAbort
  PROVE  FollowInv'
<1>0. /\ ProviderTold /\ CallsTold /\ DatabaseFollows
      /\ revoker \in [pc : {"idle", "validated", "archived"}, r : Requests \union {0}]
      /\ revoker.pc # "idle" => revoker.r \in Requests /\ Resolved(revoker.r)
      /\ sub \in [Requests -> SubmissionType]
  BY ProviderType DEF FollowInv, SignatureInv, TypeOK, RevokerKnown
<1>1. CASE RevokeValidate \/ RevokeAbort
  <2>1. UNCHANGED <<row, req, signer, journal, worker, sender, sub, form>>
        /\ revoker'.pc # "archived"
    BY <1>1 DEF RevokeValidate, RevokeAbort, database, provider
  <2>2. CallsTold'
    BY <1>0, <2>1 DEF CallsTold, Resolved
  <2> QED
    BY <1>0, <2>1, <2>2, SameFacts, FollowFrame DEF FollowInv
<1>2. CASE RevokeAtProvider
  <2>1. /\ revoker.r \in Requests /\ Resolved(revoker.r)
        /\ sub' = [sub EXCEPT ![revoker.r].archived = TRUE]
        /\ revoker'.r = revoker.r
        /\ UNCHANGED <<row, req, signer, journal, worker, sender, form>>
    BY <1>0, <1>2 DEF RevokeAtProvider, database
  <2>2. \A r \in Requests :
          /\ sub'[r].state = sub[r].state
          /\ sub[r].archived \/ r = revoker.r => sub'[r].archived
    BY <1>0, <2>1 DEF SubmissionType
  <2>3. ProviderTold' /\ FactsKept
    BY <1>0, <2>1, <2>2 DEF ProviderTold, FactsKept
  <2>4. CallsTold'
    BY <1>0, <2>1, <2>2 DEF CallsTold, Resolved
  <2> QED
    BY <1>0, <2>1, <2>3, <2>4, FollowFrame DEF FollowInv
<1>3. CASE RevokeCommit
  <2>1. PICK r \in Requests : r = revoker.r
    BY <1>0, <1>3 DEF RevokeCommit
  <2>2. /\ \A w \in Workers : worker[w].pc = "idle"
        /\ Resolved(r) /\ sub[r].archived
        /\ req'[r].status = "REVOKED" /\ \A q \in Requests \ {r} : req'[q] = req[q]
        /\ \A s \in Signers : signer'[s] = "PENDING"
        /\ row'.status \in {"ACCEPTED", "APPROVED"}
        /\ revoker'.pc = "idle"
        /\ UNCHANGED <<journal, sender, worker, sub, form>>
    <3>1. /\ \A w \in Workers : worker[w].pc = "idle"
          /\ Resolved(r) /\ revoker.pc = "archived"
          /\ req' = [req EXCEPT ![r].status = "REVOKED"]
          /\ signer' = [s \in Signers |-> "PENDING"]
          /\ row' = [row EXCEPT !.status = SignatureRevoked(StatusOnly(row)).status]
          /\ revoker' = [pc |-> "idle", r |-> 0]
          /\ UNCHANGED <<journal, sender, worker, sub, form>>
      BY <1>0, <1>3, <2>1 DEF RevokeCommit, Quiet, provider
    <3>2. SignatureRevoked(StatusOnly(row)).status \in {"ACCEPTED", "APPROVED"}
      BY DEF SignatureRevoked, StatusOnly
    <3>3. row'.status \in {"ACCEPTED", "APPROVED"}
      BY <3>1, <3>2, ProviderType DEF Row
    <3>4. req'[r].status = "REVOKED" /\ \A q \in Requests \ {r} : req'[q] = req[q]
      BY <3>1, ProviderType DEF Request
    <3>5. sub[r].archived
      BY <1>0, <2>1, <3>1 DEF CallsTold
    <3> QED
      BY <3>1, <3>3, <3>4, <3>5
  <2>3. ProviderTold' /\ CallsTold'
    <3>1. CallsTold'
      BY <1>0, <2>2 DEF CallsTold, Resolved
    <3> QED
      BY <1>0, <2>2, <3>1, SameFacts
  <2>4. SignersFollow' /\ EndsFollow' /\ SignedByAll'
    BY <1>0, <2>2 DEF DatabaseFollows, SignersFollow, EndsFollow, SignedByAll, RevocableStatuses
  <2>5. ReadStillTrue'
    BY <2>2 DEF ReadStillTrue
  <2>6. JournalTold'
    BY <1>0, <2>2 DEF DatabaseFollows, JournalTold, Resolved, RevocableStatuses, SignatureInv,
                      TypeOK, Event
  <2>7. ContractFollows'
    BY <2>2 DEF ContractFollows
  <2> QED
    BY <2>3, <2>4, <2>5, <2>6, <2>7 DEF FollowInv, DatabaseFollows
<1> QED
  BY <1>1, <1>2, <1>3

(* A transaction that the step does not see.                               *)
LEMMA ReadKept ==
  ASSUME NEW v \in Workers, worker'[v] = worker[v], UNCHANGED <<signer, sub, form>>, StillTrue(v)
  PROVE  StillTrue(v)'
<1> DEFINE e == worker[v].event
<1>1. worker'[v].event = e
  OBVIOUS
<1>2. Happened(e)
  BY DEF StillTrue
<1>3. Happened(worker[v].event)'
  BY <1>1, <1>2 DEF Happened
<1> QED
  BY <1>3 DEF StillTrue

(* A webhook is received, reads, or gives up.                              *)
LEMMA ReadingFollows ==
  ASSUME ~Overlap, SignatureInv, WorkerFunction, QuietInv, FollowInv, NEW w \in Workers,
         Rollback(w) \/ Count(w) \/ (\E e \in Event : Receive(w, e))
  PROVE  FollowInv'
<1>0. /\ UNCHANGED <<row, hashed, req, signer, sender, revoker, sub, form>>
      /\ ProviderTold /\ CallsTold /\ DatabaseFollows
  BY DEF Rollback, Count, Receive, database, provider, FollowInv
<1>1. ProviderTold' /\ CallsTold'
  <2>1. CallsTold'
    BY <1>0 DEF CallsTold, Resolved
  <2> QED
    BY <1>0, <2>1, SameFacts
<1>2. SignersFollow' /\ EndsFollow' /\ ContractFollows' /\ SignedByAll'
  BY <1>0 DEF DatabaseFollows, SignersFollow, EndsFollow, ContractFollows, SignedByAll
<1>3. CASE Rollback(w)
  <2>1. UNCHANGED journal /\ worker' = [worker EXCEPT ![w] = [pc |-> "idle"]]
    BY <1>3 DEF Rollback, database
  <2>2. \A v \in Workers : worker'[v].pc # "idle" => worker[v].pc # "idle" /\ worker'[v] = worker[v]
    BY <2>1 DEF WorkerFunction
  <2>3. ReadStillTrue'
    BY <1>0, <2>2, ReadKept DEF DatabaseFollows, ReadStillTrue
  <2>4. JournalTold'
    BY <1>0, <2>1 DEF DatabaseFollows, JournalTold, Resolved
  <2> QED
    BY <1>1, <1>2, <2>3, <2>4 DEF FollowInv, DatabaseFollows
<1>4. CASE Count(w)
  <2> DEFINE all == \A s \in Signers \ {worker[w].event.s} : signer[s] = "SIGNED"
  <2>1. /\ worker[w].pc # "idle" /\ worker[w].event.kind = "FORM_COMPLETED"
        /\ UNCHANGED journal
        /\ worker' = [worker EXCEPT ![w] =
                        [pc |-> "counted", event |-> worker[w].event, allSigned |-> all]]
    BY <1>4 DEF Count, database
  <2> HIDE DEF all
  <2>2. /\ worker'[w].event = worker[w].event /\ worker'[w].allSigned = all
        /\ \A v \in Workers \ {w} : worker'[v] = worker[v]
    BY <2>1 DEF WorkerFunction
  <2>3. StillTrue(w)
    BY <1>0, <2>1 DEF DatabaseFollows, ReadStillTrue
  <2>4. StillTrue(w)'
    BY <1>0, <2>1, <2>2, <2>3 DEF StillTrue, Happened, all
  <2>5. \A v \in Workers \ {w} : worker[v].pc # "idle" => StillTrue(v)'
    BY <1>0, <2>2, ReadKept DEF DatabaseFollows, ReadStillTrue
  <2>6. ReadStillTrue'
    BY <2>2, <2>4, <2>5 DEF ReadStillTrue
  <2>7. JournalTold'
    BY <1>0, <2>1 DEF DatabaseFollows, JournalTold, Resolved
  <2> QED
    BY <1>1, <1>2, <2>6, <2>7 DEF FollowInv, DatabaseFollows
<1>5. ASSUME NEW e \in Event, Receive(w, e) PROVE FollowInv'
  <2>0. /\ \A v \in Workers : worker[v].pc = "idle"
        /\ Happened(e) /\ Resolved(e.r) /\ e.r \in Requests
    BY <1>5 DEF Receive, Quiet, Event
  <2>1. CASE Inert(e)
    <3>1. journal' = journal \union {e} /\ UNCHANGED worker
      BY <1>5, <2>1 DEF Receive
    <3>2. ReadStillTrue'
      BY <2>0, <3>1 DEF ReadStillTrue
    <3>3. ASSUME req[e.r].status \in RevocableStatuses
          PROVE  \/ e.kind = "FORM_VIEWED"
                 \/ e.kind = "FORM_COMPLETED" /\ req[e.r].status = "PARTIALLY_COMPLETED"
      <4>1. req[e.r].status \notin ClosedStatuses
        BY <3>3 DEF RevocableStatuses, ClosedStatuses
      <4>2. \/ e.kind = "FORM_VIEWED"
            \/ e.kind \in {"FORM_COMPLETED", "FORM_DECLINED"} /\ signer[e.s] = "SIGNED"
        BY <2>1, <4>1 DEF Inert
      <4>3. ASSUME e.kind \in {"FORM_COMPLETED", "FORM_DECLINED"}, signer[e.s] = "SIGNED"
            PROVE  e.kind = "FORM_COMPLETED" /\ req[e.r].status = "PARTIALLY_COMPLETED"
        <5>1. e.s \in Signers
          BY <2>0, <4>3 DEF Happened
        <5>2. form[e.r][e.s] = "COMPLETED" /\ req[e.r].status # "SENT"
          BY <1>0, <2>0, <3>3, <4>3, <5>1 DEF DatabaseFollows, SignersFollow
        <5>3. e.kind # "FORM_DECLINED"
          BY <2>0, <5>2 DEF Happened
        <5> QED
          BY <3>3, <4>3, <5>2, <5>3 DEF RevocableStatuses
      <4> QED
        BY <4>2, <4>3
    <3>4. JournalTold'
      BY <1>0, <2>0, <3>1, <3>3 DEF DatabaseFollows, JournalTold, Resolved
    <3> QED
      BY <1>1, <1>2, <3>2, <3>4 DEF FollowInv, DatabaseFollows
  <2>2. CASE ~Inert(e)
    <3>1. /\ UNCHANGED journal
          /\ worker' = [worker EXCEPT ![w] = [pc |-> "open", event |-> e, allSigned |-> FALSE]]
      BY <1>5, <2>2 DEF Receive
    <3>2. /\ worker'[w] = [pc |-> "open", event |-> e, allSigned |-> FALSE]
          /\ \A v \in Workers \ {w} : worker'[v].pc = "idle"
      BY <2>0, <3>1 DEF WorkerFunction
    <3>3. e.kind \in {"FORM_VIEWED", "FORM_DECLINED"} => signer[e.s] # "SIGNED"
      BY <2>2 DEF Inert
    <3>4. Happened(e)'
      BY <1>0, <2>0 DEF Happened
    <3>5. ReadStillTrue'
      <4>0. worker'[w].event = e /\ worker'[w].pc = "open"
        BY <3>2
      <4>1. StillTrue(w)'
        <5>1. Happened(worker[w].event)'
          BY <3>4, <4>0 DEF Happened
        <5> QED
          BY <1>0, <3>3, <4>0, <5>1 DEF StillTrue
      <4> QED
        BY <3>2, <4>1 DEF ReadStillTrue
    <3>6. JournalTold'
      BY <1>0, <3>1 DEF DatabaseFollows, JournalTold, Resolved
    <3> QED
      BY <1>1, <1>2, <3>5, <3>6 DEF FollowInv, DatabaseFollows
  <2> QED
    BY <2>1, <2>2
<1> QED
  BY <1>3, <1>4, <1>5

(* What a webhook does, knowing what the provider holds: one signature, a  *)
(* refusal, an expiry, or the last signature.                              *)
LEMMA ApplyTold ==
  ASSUME SignatureInv, QuietInv, FollowInv, NEW w \in Workers, Apply(w),
         NEW e, e = worker[w].event, NEW r, r = e.r
  PROVE  \/ e.kind = "FORM_VIEWED" /\ UNCHANGED <<row, req>>
            /\ e.s \in Signers /\ signer' = [signer EXCEPT ![e.s] = "VIEWED"]
         \/ e.kind = "FORM_COMPLETED" /\ RequestTo(r, "PARTIALLY_COMPLETED")
            /\ (row' = row \/ row'.status = "PARTIALLY_SIGNED")
            /\ e.s \in Signers /\ form[r][e.s] = "COMPLETED"
            /\ signer' = [signer EXCEPT ![e.s] = "SIGNED"]
         \/ /\ \/ RequestTo(r, "DECLINED") /\ sub[r].state = "DECLINED"
               \/ RequestTo(r, "EXPIRED") /\ sub[r].state = "EXPIRED"
            /\ row' = row \/ row'.status \in {"DECLINED", "SIGNATURE_EXPIRED"}
         \/ RequestTo(r, "COMPLETED") /\ sub[r].state = "COMPLETED"
            /\ (row' = row \/ row'.status = "SIGNED")
<1>0. /\ row \in Row /\ r \in Requests /\ e.s \in Signers \union {NoSigner}
      /\ StillTrue(w) /\ Happened(e) /\ worker[w].pc # "idle"
      /\ req[r].status \in RevocableStatuses /\ ProviderTold /\ SignersFollow
      /\ worker[w].allSigned \in BOOLEAN
  <2>1. worker[w].pc # "idle" /\ row \in Row
    BY ApplyWrites DEF SignatureInv, TypeOK
  <2>2. StillTrue(w) /\ Happened(e)
    <3>1. StillTrue(w)
      BY <2>1 DEF FollowInv, DatabaseFollows, ReadStillTrue
    <3> QED
      BY <3>1 DEF StillTrue
  <2>3. e \in Event /\ worker[w].allSigned \in BOOLEAN
    BY <2>1, OpenWorker
  <2>4. req[r].status \in RevocableStatuses
    BY <2>1 DEF QuietInv, AloneOnActive
  <2> QED
    BY <2>1, <2>2, <2>3, <2>4 DEF FollowInv, DatabaseFollows, Event
<1>1. CASE ApplyViewed(w)
  <2>1. /\ e.kind = "FORM_VIEWED" /\ UNCHANGED <<row, req>>
        /\ signer' = [signer EXCEPT ![e.s] = "VIEWED"]
    BY <1>1 DEF ApplyViewed
  <2> QED
    BY <1>0, <2>1 DEF Happened
<1>2. CASE ApplyDeclined(w)
  <2>1. /\ e.kind = "FORM_DECLINED" /\ RequestTo(r, "DECLINED")
        /\ row' = row \/ row' = SignerDeclined(row)
    BY <1>2 DEF ApplyDeclined, Transition
  <2>2. sub[r].state = "DECLINED"
    BY <1>0, <2>1 DEF Happened, ProviderTold
  <2>3. SignerDeclined(row).status = "DECLINED"
    BY <1>0 DEF SignerDeclined, Row
  <2> QED
    BY <2>1, <2>2, <2>3
<1>3. CASE ApplyExpired(w)
  <2>1. /\ e.kind = "SUBMISSION_EXPIRED" /\ RequestTo(r, "EXPIRED")
        /\ row' = row \/ row' = SignatureExpired(row)
    BY <1>3 DEF ApplyExpired, Transition
  <2>2. sub[r].state = "EXPIRED"
    BY <1>0, <2>1 DEF Happened
  <2>3. SignatureExpired(row).status = "SIGNATURE_EXPIRED"
    BY <1>0 DEF SignatureExpired, Row
  <2> QED
    BY <2>1, <2>2, <2>3
<1>4. CASE ApplyCompleted(w)
  <2> DEFINE all == worker[w].allSigned
  <2>1. /\ worker[w].pc = "counted"
        /\ signer' = [signer EXCEPT ![e.s] = "SIGNED"]
        /\ RequestTo(r, IF all THEN "COMPLETED" ELSE "PARTIALLY_COMPLETED")
        /\ row' = row \/ row' = SignerSigned(row, all)
    BY <1>4 DEF ApplyCompleted, Transition
  <2>2. /\ e.kind = "FORM_COMPLETED"
        /\ all <=> \A s \in Signers \ {e.s} : signer[s] = "SIGNED"
    BY <1>0, <2>1 DEF StillTrue
  <2>3. e.s \in Signers /\ form[r][e.s] = "COMPLETED"
    BY <1>0, <2>2 DEF Happened
  <2>4. SignerSigned(row, all).status = IF all THEN "SIGNED" ELSE "PARTIALLY_SIGNED"
    BY <1>0 DEF SignerSigned, Row
  <2>5. CASE all
    <3>1. \A s \in Signers : form[r][s] = "COMPLETED"
      BY <1>0, <2>2, <2>3, <2>5 DEF SignersFollow
    <3>2. sub[r].state = "COMPLETED"
      BY <1>0, <2>3, <3>1 DEF ProviderTold
    <3> QED
      BY <2>1, <2>4, <2>5, <3>2
  <2>6. CASE ~all
    BY <2>1, <2>2, <2>3, <2>4, <2>6
  <2> QED
    BY <2>5, <2>6
<1>5. CASE ApplySubmissionCompleted(w)
  <2>1. /\ e.kind = "SUBMISSION_COMPLETED" /\ RequestTo(r, "COMPLETED")
        /\ row' = row \/ row' = SignerSigned(row, TRUE)
    BY <1>5 DEF ApplySubmissionCompleted, Transition
  <2>2. sub[r].state = "COMPLETED"
    BY <1>0, <2>1 DEF Happened
  <2>3. SignerSigned(row, TRUE).status = "SIGNED"
    BY <1>0 DEF SignerSigned, Row
  <2> QED
    BY <2>1, <2>2, <2>3
<1> QED
  BY <1>1, <1>2, <1>3, <1>4, <1>5 DEF Apply

LEMMA ApplyFollows ==
  ASSUME ~Overlap, SignatureInv, WorkerFunction, QuietInv, FollowInv, NEW w \in Workers, Apply(w)
  PROVE  FollowInv'
<1>e. PICK e \in Event : e = worker[w].event
  BY ApplyWrites, OpenWorker
<1>r. PICK r \in Requests : r = e.r
  BY DEF Event
<1>0. /\ req \in [Requests -> Request] /\ journal \subseteq Event
      /\ signer \in [Signers -> {"PENDING", "SENT", "VIEWED", "SIGNED", "DECLINED"}]
      /\ req[r].status \in RevocableStatuses
      /\ \A q \in Requests \ {r} : req[q].status \notin ActiveStatuses
      /\ \A v \in Workers : worker'[v].pc = "idle"
      /\ journal' = journal \union {e}
      /\ UNCHANGED <<sender, revoker, sub, form>>
  <2>1. /\ worker[w].pc # "idle" /\ worker' = [worker EXCEPT ![w] = [pc |-> "idle"]]
        /\ journal' = journal \union {e} /\ UNCHANGED <<sender, revoker, sub, form>>
    BY <1>e, ApplyWrites DEF Finish, provider
  <2>2. /\ req[r].status \in RevocableStatuses
        /\ \A v \in Workers : worker[v].pc # "idle" => v = w
    BY <1>e, <1>r, <2>1 DEF QuietInv, AloneOnActive
  <2>3. \A q \in Requests \ {r} : req[q].status \notin ActiveStatuses
    BY <2>2 DEF SignatureInv, OneActiveRequest, RevocableStatuses, ActiveStatuses
  <2>4. \A v \in Workers : worker'[v].pc = "idle"
    BY <2>1, <2>2 DEF WorkerFunction
  <2> QED
    BY <2>1, <2>2, <2>3, <2>4 DEF SignatureInv, TypeOK
<1>1. ASSUME NEW s, RequestTo(r, s)
      PROVE  req'[r].status = s /\ \A q \in Requests \ {r} : req'[q] = req[q]
  BY <1>0, <1>1 DEF RequestTo, Request
<1>2. /\ ProviderTold /\ CallsTold /\ SignersFollow /\ EndsFollow /\ JournalTold
      /\ ContractFollows /\ SignedByAll
  BY DEF FollowInv, DatabaseFollows
<1>3. ReadStillTrue'
  BY <1>0 DEF ReadStillTrue
<1>4. Resolved(r) /\ \A q \in Requests : req[q].status \in RevocableStatuses => q = r
  BY <1>0 DEF Resolved, RevocableStatuses, ActiveStatuses
<1>5. \A o \in journal : o.r \in Requests
  BY <1>0 DEF Event
<1>6. CASE /\ e.kind = "FORM_VIEWED" /\ UNCHANGED <<row, req>>
           /\ e.s \in Signers /\ signer' = [signer EXCEPT ![e.s] = "VIEWED"]
  <2>1. ProviderTold' /\ CallsTold' /\ EndsFollow' /\ ContractFollows' /\ SignedByAll'
    BY <1>0, <1>2, <1>6 DEF ProviderTold, CallsTold, Resolved, EndsFollow, ContractFollows,
                            SignedByAll
  <2>2. \A s \in Signers : signer'[s] = "SIGNED" => signer[s] = "SIGNED"
    BY <1>0, <1>6
  <2>3. SignersFollow'
    BY <1>0, <1>2, <1>6, <2>2 DEF SignersFollow
  <2>4. JournalTold'
    BY <1>0, <1>2, <1>4, <1>6, <1>r DEF JournalTold, Resolved
  <2> QED
    BY <1>3, <2>1, <2>3, <2>4 DEF FollowInv, DatabaseFollows
<1>7. CASE /\ e.kind = "FORM_COMPLETED" /\ RequestTo(r, "PARTIALLY_COMPLETED")
           /\ (row' = row \/ row'.status = "PARTIALLY_SIGNED")
           /\ e.s \in Signers /\ form[r][e.s] = "COMPLETED"
           /\ signer' = [signer EXCEPT ![e.s] = "SIGNED"]
  <2>1. /\ req'[r].status = "PARTIALLY_COMPLETED"
        /\ \A q \in Requests \ {r} : req'[q] = req[q]
    BY <1>1, <1>7
  <2>2. ProviderTold' /\ CallsTold'
    <3>1. CallsTold'
      BY <1>0, <1>2, <1>4, <2>1 DEF CallsTold, Resolved
    <3> QED
      BY <1>0, <1>2, <3>1, SameFacts
  <2>3. EndsFollow' /\ SignedByAll'
    BY <1>0, <1>2, <1>7, <2>1 DEF EndsFollow, SignedByAll
  <2>4. SignersFollow'
    <3>1. \A s \in Signers : signer'[s] = "SIGNED" => s = e.s \/ signer[s] = "SIGNED"
      BY <1>0, <1>7
    <3>2. \A q \in Requests : req'[q].status \in RevocableStatuses => q = r
      BY <1>4, <2>1
    <3> QED
      BY <1>0, <1>2, <1>7, <2>1, <3>1, <3>2 DEF SignersFollow
  <2>5. JournalTold'
    <3>1. \A o \in journal : /\ Resolved(o.r)'
                             /\ o.r = r => o.kind \in {"FORM_VIEWED", "FORM_COMPLETED"}
                             /\ o.r # r => req'[o.r].status \notin RevocableStatuses
      BY <1>0, <1>2, <1>4, <1>5, <2>1 DEF JournalTold, Resolved
    <3> QED
      BY <1>0, <1>7, <1>r, <2>1, <3>1 DEF JournalTold, Resolved
  <2>6. ContractFollows'
    BY <1>0, <1>2, <1>4, <1>7, <2>1 DEF ContractFollows, RevocableStatuses, ActiveStatuses
  <2> QED
    BY <1>3, <2>2, <2>3, <2>4, <2>5, <2>6 DEF FollowInv, DatabaseFollows
<1>8. ASSUME NEW s \in {"DECLINED", "EXPIRED", "COMPLETED"},
             RequestTo(r, s), sub[r].state = s,
             \/ row' = row
             \/ s # "COMPLETED" /\ row'.status \in {"DECLINED", "SIGNATURE_EXPIRED"}
             \/ s = "COMPLETED" /\ row'.status = "SIGNED",
             s = "COMPLETED" => row' # row \/ ~Admits(row, "SIGNER_SIGNED")
      PROVE  FollowInv'
  <2>1. /\ req'[r].status = s
        /\ \A q \in Requests \ {r} : req'[q] = req[q]
    BY <1>1, <1>8
  <2>2. ProviderTold' /\ CallsTold'
    <3>1. CallsTold'
      BY <1>0, <1>2, <1>4, <2>1 DEF CallsTold, Resolved
    <3> QED
      BY <1>0, <1>2, <3>1, SameFacts
  <2>3. EndsFollow'
    BY <1>0, <1>2, <1>8, <2>1 DEF EndsFollow
  <2>4. \A q \in Requests : req'[q].status \notin ActiveStatuses
    BY <1>0, <2>1 DEF ActiveStatuses
  <2>5. SignersFollow'
    BY <2>4 DEF SignersFollow, RevocableStatuses, ActiveStatuses
  <2>6. JournalTold'
    BY <1>0, <1>2, <1>4, <1>5, <1>r, <2>1, <2>4
       DEF JournalTold, Resolved, RevocableStatuses, ActiveStatuses
  <2>7. SignedByAll'
    <3>1. CASE row'.status # "SIGNED"
      BY <3>1 DEF SignedByAll
    <3>2. CASE row' = row
      BY <1>0, <1>2, <3>2 DEF SignedByAll
    <3>3. CASE s = "COMPLETED"
      BY <1>0, <1>2, <1>8, <3>3 DEF ProviderTold, SignedByAll
    <3> QED
      BY <1>8, <3>1, <3>2, <3>3
  <2>8. ContractFollows'
    <3>1. ASSUME \A q \in Requests : req'[q].status # "REVOKED",
                 NEW p \in Requests, req'[p].status = "COMPLETED"
          PROVE  row'.status \in {"SIGNED", "CANCELLED"}
      <4>1. \A q \in Requests : req[q].status # "REVOKED"
        BY <1>0, <2>1, <3>1 DEF RevocableStatuses
      <4>2. row.status \in {"PENDING_SIGNATURE", "PARTIALLY_SIGNED", "CANCELLED"}
        BY <1>0, <1>2, <4>1 DEF ContractFollows
      <4>3. p = r
        BY <1>0, <1>2, <2>1, <3>1, <4>1 DEF ContractFollows, RevocableStatuses, ActiveStatuses
      <4>4. s = "COMPLETED"
        BY <2>1, <3>1, <4>3
      <4>5. row.status # "CANCELLED" => Admits(row, "SIGNER_SIGNED")
        BY <4>2, SigningAdmits DEF Signing
      <4> QED
        BY <1>8, <4>2, <4>4, <4>5
    <3> QED
      BY <2>4, <3>1 DEF ContractFollows, RevocableStatuses, ActiveStatuses
  <2> QED
    BY <1>3, <2>2, <2>3, <2>5, <2>6, <2>7, <2>8 DEF FollowInv, DatabaseFollows
<1> QED
  <2>1. \/ <1>6!1 \/ <1>7!1
        \/ /\ \/ RequestTo(r, "DECLINED") /\ sub[r].state = "DECLINED"
              \/ RequestTo(r, "EXPIRED") /\ sub[r].state = "EXPIRED"
           /\ row' = row \/ row'.status \in {"DECLINED", "SIGNATURE_EXPIRED"}
        \/ RequestTo(r, "COMPLETED") /\ sub[r].state = "COMPLETED"
           /\ (row' = row \/ row'.status = "SIGNED")
    BY <1>e, <1>r, ApplyTold
  <2>2. CASE RequestTo(r, "COMPLETED")
    <3>1. sub[r].state = "COMPLETED" /\ (row' = row \/ row'.status = "SIGNED")
      BY <1>1, <2>1, <2>2, <1>0 DEF RevocableStatuses
    <3>2. row' # row \/ ~Admits(row, "SIGNER_SIGNED")
      <4>1. \/ UNCHANGED req \/ RequestTo(r, "DECLINED") \/ RequestTo(r, "EXPIRED")
            \/ RequestTo(r, "PARTIALLY_COMPLETED")
            \/ IF Admits(row, "SIGNER_SIGNED") THEN row'.status = "SIGNED" ELSE UNCHANGED row
        BY <1>e, <1>r, ApplyTransition
      <4>2. Admits(row, "SIGNER_SIGNED") => row'.status = "SIGNED"
        BY <1>0, <1>1, <2>2, <4>1 DEF RevocableStatuses
      <4>3. row.status = "SIGNED" => ~Admits(row, "SIGNER_SIGNED")
        BY FrozenAdmits
      <4> QED
        BY <4>2, <4>3
    <3> QED
      BY <1>8, <2>2, <3>1, <3>2
  <2> QED
    BY <1>6, <1>7, <1>8, <2>1, <2>2

LEMMA FollowStep ==
  ASSUME ~Overlap
  PROVE  SignatureInv /\ WorkerFunction /\ QuietInv /\ FollowInv /\ [Next]_signatureVars
           => FollowInv'
<1> SUFFICES ASSUME SignatureInv, WorkerFunction, QuietInv, FollowInv, [Next]_signatureVars
             PROVE  FollowInv'
  OBVIOUS
<1>0. ProviderTold /\ CallsTold /\ DatabaseFollows
  BY DEF FollowInv
<1>1. CASE DeskStep
  BY <1>1, DeskFollows
<1>2. CASE RevokeValidate \/ RevokeAtProvider \/ RevokeCommit \/ RevokeAbort
  BY <1>2, RevokerFollows
<1>3. ASSUME NEW r \in Requests, Prepare(r) \/ RecordFailure(r) \/ Acknowledge(r)
      PROVE  FollowInv'
  BY <1>3, PrepareFollows, AnswerFollows
<1>4. ASSUME NEW r \in Requests,
             Render(r) \/ HashRejected(r) \/ CreateSubmission(r) \/ CreateFails(r) \/ Crash(r)
      PROVE  FollowInv'
  BY <1>0, <1>4, SenderFollows, FollowFrame DEF FollowInv
<1>5. ASSUME NEW r \in Requests,
             Expire(r)
               \/ (\E s \in Signers : OpenForm(r, s) \/ CompleteForm(r, s) \/ DeclineForm(r, s))
      PROVE  FollowInv'
  <2>1. ProviderTold' /\ CallsTold' /\ FactsKept /\ UNCHANGED <<database, processes>>
    BY <1>0, <1>5, ProviderFollows
  <2> QED
    BY <1>0, <2>1, FollowFrame DEF FollowInv, database, processes
<1>6. ASSUME NEW w \in Workers,
             \/ \E e \in Event : e.kind \in Kinds /\ Receive(w, e)
             \/ Count(w) \/ Apply(w) \/ Rollback(w)
      PROVE  FollowInv'
  BY <1>6, ReadingFollows, ApplyFollows
<1>7. CASE UNCHANGED signatureVars
  <2>1. UNCHANGED <<row, req, signer, journal, worker, sender, revoker, sub, form>>
    BY <1>7 DEF signatureVars, database, processes, provider
  <2>2. CallsTold'
    BY <1>0, <2>1 DEF CallsTold, Resolved
  <2> QED
    BY <1>0, <2>1, <2>2, SameFacts, FollowFrame DEF FollowInv
<1> QED
  BY <1>1, <1>2, <1>3, <1>4, <1>5, <1>6, <1>7 DEF Next, Apply, DeskStep

(* The whole inductive invariant without overlap.                          *)
LEMMA QuietInvariant ==
  ASSUME ~Overlap
  PROVE  Spec => [](SignatureInv /\ WorkerFunction /\ QuietInv /\ FollowInv)
<1>1. Init => SignatureInv /\ WorkerFunction /\ QuietInv /\ FollowInv
  BY SignatureInit, FollowStart DEF Init, WorkerFunction, QuietInv, AloneOnActive
<1>2. SignatureInv /\ WorkerFunction /\ QuietInv /\ FollowInv /\ [Next]_signatureVars
        => QuietInv' /\ FollowInv'
  BY QuietStep, FollowStep
<1> QED
  BY <1>1, <1>2, SignatureStep, PTL DEF Spec

(* Without overlap a contract is SIGNED only when every signer completed   *)
(* one same submission: the signatures of two sends never add up, whatever *)
(* is late, duplicated, revoked or sent again.                             *)
THEOREM QuietSignedByAll ==
  ASSUME ~Overlap
  PROVE  Spec => []SignedByAll
<1>1. FollowInv => SignedByAll
  BY DEF FollowInv, DatabaseFollows
<1> QED
  BY <1>1, QuietInvariant, PTL

(* Without overlap, and unless a revocation was committed, a request that  *)
(* all signed leaves its contract signed or cancelled.                     *)
THEOREM QuietCompletedIsSigned ==
  ASSUME ~Overlap
  PROVE  Spec => []CompletedIsSigned
<1>1. FollowInv => CompletedIsSigned
  BY DEF FollowInv, DatabaseFollows, ContractFollows, CompletedIsSigned
<1> QED
  BY <1>1, QuietInvariant, PTL

LEMMA SignedStays ==
  ASSUME SignatureInv, QuietInv, FollowInv, [Next]_signatureVars, NEW s \in Signers,
         signer[s] = "SIGNED"
  PROVE  signer'[s] \in {"SIGNED", "SENT", "PENDING"}
<1>0. signer \in [Signers -> {"PENDING", "SENT", "VIEWED", "SIGNED", "DECLINED"}]
  BY ProviderType
<1>1. ASSUME NEW w \in Workers, Apply(w) PROVE signer'[s] = "SIGNED"
  <2>0. worker[w].pc # "idle" /\ StillTrue(w)
    BY <1>1, ApplyWrites DEF FollowInv, DatabaseFollows, ReadStillTrue
  <2>1. CASE ApplyViewed(w)
    BY <1>0, <2>0, <2>1 DEF ApplyViewed, StillTrue
  <2>2. CASE ApplyDeclined(w)
    BY <1>0, <2>0, <2>2 DEF ApplyDeclined, StillTrue
  <2>3. CASE ApplyCompleted(w) \/ ApplyExpired(w) \/ ApplySubmissionCompleted(w)
    BY <1>0, <2>3 DEF ApplyCompleted, ApplyExpired, ApplySubmissionCompleted
  <2> QED
    BY <1>1, <2>1, <2>2, <2>3 DEF Apply
<1>2. ASSUME NEW r \in Requests, Acknowledge(r) PROVE signer'[s] = "SENT"
  BY <1>2 DEF Acknowledge
<1>3. CASE RevokeCommit
  BY <1>3 DEF RevokeCommit
<1>4. CASE UNCHANGED signer
  BY <1>4
<1>5. CASE UNCHANGED signatureVars
  BY <1>4, <1>5 DEF signatureVars, database
<1>6. CASE Next
  <2>1. CASE DeskStep \/ RevokeValidate \/ RevokeAtProvider \/ RevokeAbort
    BY <1>4, <2>1 DEF DeskStep, SaveContent, SubmitForReview, Approve, RequestChanges,
                      SendToClient, ClientAccept, Negotiate, Cancel, Desk, RevokeValidate,
                      RevokeAtProvider, RevokeAbort, database
  <2>2. ASSUME NEW r \in Requests,
               \/ Prepare(r) \/ Render(r) \/ HashRejected(r) \/ CreateSubmission(r)
               \/ CreateFails(r) \/ RecordFailure(r) \/ Crash(r) \/ Expire(r)
               \/ \E t \in Signers : OpenForm(r, t) \/ CompleteForm(r, t) \/ DeclineForm(r, t)
        PROVE  UNCHANGED signer
    BY <2>2 DEF Prepare, Render, HashRejected, CreateSubmission, CreateFails, RecordFailure,
                Crash, Expire, OpenForm, CompleteForm, DeclineForm, database
  <2>3. ASSUME NEW w \in Workers, (\E e \in Event : Receive(w, e)) \/ Count(w) \/ Rollback(w)
        PROVE  UNCHANGED signer
    BY <2>3 DEF Receive, Count, Rollback, database
  <2> QED
    BY <1>1, <1>2, <1>3, <1>4, <1>6, <2>1, <2>2, <2>3 DEF Next, Apply, DeskStep
<1> QED
  BY <1>5, <1>6

(* Without overlap a late view or refusal never takes a signature back.    *)
THEOREM QuietSignedStaysSigned ==
  ASSUME ~Overlap
  PROVE  Spec => SignedStaysSigned
<1>1. SignatureInv /\ QuietInv /\ FollowInv /\ [Next]_signatureVars =>
        [\A s \in Signers :
           signer[s] = "SIGNED" => signer'[s] \in {"SIGNED", "SENT", "PENDING"}]_signatureVars
  BY SignedStays
<1> QED
  BY <1>1, QuietInvariant, PTL DEF Spec, SignedStaysSigned

LEMMA TellsTheSame ==
  ASSUME {"FORM_COMPLETED", "SUBMISSION_COMPLETED"} \subseteq Kinds, "webhook" \in Sources,
         SignatureInv, FollowInv
  PROVE  Converged
<1> SUFFICES ASSUME NEW r \in Requests, Resolved(r), req[r].status # "REVOKED", Delivered(r)
             PROVE  req[r].status =
                      IF sub[r].state # "PENDING" THEN sub[r].state
                      ELSE IF \E s \in Signers : form[r][s] = "COMPLETED"
                             THEN "PARTIALLY_COMPLETED" ELSE "SENT"
  BY DEF Converged
<1>0. /\ ProviderTold /\ CallsTold /\ SignersFollow /\ EndsFollow /\ JournalTold
      /\ sub[r].state \in {"none", "PENDING", "COMPLETED", "DECLINED", "EXPIRED"}
      /\ req[r].status \in {"none"} \union ActiveStatuses \union ClosedStatuses
  BY ProviderType DEF FollowInv, DatabaseFollows, SubmissionType, Request
<1>1. sub[r].state # "none"
  BY <1>0 DEF CallsTold
<1>2. CASE req[r].status \in {"COMPLETED", "DECLINED", "EXPIRED"}
  BY <1>0, <1>2 DEF EndsFollow
<1>3. CASE req[r].status \in RevocableStatuses
  <2>1. ASSUME NEW kind \in Kinds, NEW s \in Signers \union {NoSigner},
               kind \in {"FORM_COMPLETED", "FORM_DECLINED",
                         "SUBMISSION_COMPLETED", "SUBMISSION_EXPIRED"},
               Happened([src |-> "webhook", kind |-> kind, r |-> r, s |-> s])
        PROVE  kind = "FORM_COMPLETED" /\ req[r].status = "PARTIALLY_COMPLETED"
    <3> DEFINE e == [src |-> "webhook", kind |-> kind, r |-> r, s |-> s]
    <3>1. e \in Event /\ e.r = r /\ e.src = "webhook" /\ e.kind = kind
      BY SignatureAssumption DEF Event
    <3> HIDE DEF e
    <3>2. e \in journal
      BY <2>1, <3>1 DEF Delivered, e
    <3> QED
      BY <1>0, <1>3, <2>1, <3>1, <3>2 DEF JournalTold
  <2>2. sub[r].state = "PENDING"
    <3>1. sub[r].state # "COMPLETED"
      <4>1. sub[r].state = "COMPLETED" =>
              Happened([src |-> "webhook", kind |-> "SUBMISSION_COMPLETED", r |-> r,
                        s |-> NoSigner])
        BY DEF Happened
      <4> QED
        BY <2>1, <4>1
    <3>2. sub[r].state # "DECLINED"
      <4>1. ASSUME sub[r].state = "DECLINED" PROVE FALSE
        <5>1. PICK s \in Signers : form[r][s] = "DECLINED" /\ "FORM_DECLINED" \in Kinds
          BY <1>0, <4>1 DEF ProviderTold
        <5>2. Happened([src |-> "webhook", kind |-> "FORM_DECLINED", r |-> r, s |-> s])
          BY <5>1 DEF Happened
        <5> QED
          BY <2>1, <5>1, <5>2
      <4> QED
        BY <4>1
    <3>3. sub[r].state # "EXPIRED"
      <4>1. sub[r].state = "EXPIRED" =>
              /\ "SUBMISSION_EXPIRED" \in Kinds
              /\ Happened([src |-> "webhook", kind |-> "SUBMISSION_EXPIRED", r |-> r,
                           s |-> NoSigner])
        BY <1>0 DEF Happened, ProviderTold
      <4> QED
        BY <2>1, <4>1
    <3> QED
      BY <1>0, <1>1, <3>1, <3>2, <3>3
  <2>3. ASSUME NEW s \in Signers, form[r][s] = "COMPLETED"
        PROVE  req[r].status = "PARTIALLY_COMPLETED"
    <3>1. Happened([src |-> "webhook", kind |-> "FORM_COMPLETED", r |-> r, s |-> s])
      BY <2>3 DEF Happened
    <3> QED
      BY <2>1, <3>1
  <2>4. req[r].status = "PARTIALLY_COMPLETED" => \E s \in Signers : form[r][s] = "COMPLETED"
    BY <1>0, <1>3 DEF SignersFollow
  <2> QED
    BY <1>3, <2>2, <2>3, <2>4 DEF RevocableStatuses
<1> QED
  BY <1>0, <1>2, <1>3 DEF Resolved, ActiveStatuses, ClosedStatuses, RevocableStatuses

(* Without overlap, once a request's facts were delivered, in whatever     *)
(* order and however often, it says what the provider says, if it was not  *)
(* revoked.  The provider must say when a signer has signed and when all   *)
(* have: a revocation that is committed late can start over the signers of *)
(* the next request, and then only the second one ends it.                 *)
THEOREM QuietConverged ==
  ASSUME ~Overlap, {"FORM_COMPLETED", "SUBMISSION_COMPLETED"} \subseteq Kinds,
         "webhook" \in Sources
  PROVE  Spec => []Converged
<1>1. SignatureInv /\ FollowInv => Converged
  BY TellsTheSame
<1> QED
  BY <1>1, QuietInvariant, PTL

(* A call that failed left nothing at the provider, if a call that times   *)
(* out is not executed all the same.                                       *)
NothingLost ==
  \A r \in Requests :
    req[r].status = "FAILED" \/ sender[r].pc = "failing" => sub[r].state = "none"

LEMMA NothingLostStep ==
  ASSUME "timeout" \notin Faults, SignatureInv, FollowInv, NothingLost, [Next]_signatureVars
  PROVE  NothingLost'
<1>0. /\ ProviderTold /\ CallsTold /\ req \in [Requests -> Request]
      /\ sub \in [Requests -> SubmissionType]
      /\ sender \in [Requests -> [pc : {"idle", "prepared", "rendered", "created",
                                       "failing", "stopped"}, snap : Row]]
  BY ProviderType DEF FollowInv, SignatureInv, TypeOK
<1>1. CASE UNCHANGED <<req, sender, sub>>
  BY <1>1 DEF NothingLost
<1>2. ASSUME NEW r \in Requests, Prepare(r) PROVE NothingLost'
  <2>1. /\ req'[r].status = "CREATING" /\ sender'[r].pc = "prepared" /\ UNCHANGED sub
        /\ \A q \in Requests \ {r} : req'[q] = req[q] /\ sender'[q] = sender[q]
    BY <1>0, <1>2 DEF Prepare, provider
  <2> QED
    BY <2>1 DEF NothingLost
<1>3. ASSUME NEW r \in Requests, RecordFailure(r) \/ Acknowledge(r) PROVE NothingLost'
  <2>1. /\ sender'[r].pc = "stopped" /\ UNCHANGED sub
        /\ \A q \in Requests \ {r} : req'[q] = req[q] /\ sender'[q] = sender[q]
        /\ req'[r].status = "FAILED" => sender[r].pc = "failing"
    BY <1>0, <1>3 DEF RecordFailure, Acknowledge, SenderTo, provider, Request
  <2> QED
    BY <2>1 DEF NothingLost
<1>4. ASSUME NEW r \in Requests,
             Render(r) \/ HashRejected(r) \/ CreateSubmission(r) \/ CreateFails(r) \/ Crash(r)
      PROVE  NothingLost'
  <2>1. /\ UNCHANGED req /\ sender[r].pc \notin {"idle", "stopped"}
        /\ req[r].status = "CREATING"
        /\ \A q \in Requests \ {r} : sender'[q] = sender[q] /\ sub'[q] = sub[q]
    BY <1>0, <1>4 DEF SignatureInv, SenderCreating, Render, HashRejected, CreateSubmission,
                      CreateFails, Crash, database, provider, SenderTo, Submission
  <2>2. sender'[r].pc = "failing" => UNCHANGED sub /\ sender[r].pc = "rendered"
    BY <1>0, <1>4 DEF Render, HashRejected, CreateSubmission, CreateFails, Crash, SenderTo
  <2> QED
    BY <1>0, <2>1, <2>2 DEF NothingLost, CallsTold
<1>5. ASSUME NEW r \in Requests,
             Expire(r)
               \/ (\E s \in Signers : OpenForm(r, s) \/ CompleteForm(r, s) \/ DeclineForm(r, s))
      PROVE  NothingLost'
  <2>1. /\ UNCHANGED <<req, sender>> /\ sub[r].state = "PENDING"
        /\ \A q \in Requests \ {r} : sub'[q] = sub[q]
    BY <1>0, <1>5 DEF Expire, OpenForm, CompleteForm, DeclineForm, Live, database, processes
  <2> QED
    BY <2>1 DEF NothingLost
<1>6. CASE RevokeValidate \/ RevokeAtProvider \/ RevokeCommit \/ RevokeAbort
  <2>1. UNCHANGED sender /\ \A q \in Requests : sub'[q].state = sub[q].state
    BY <1>0, <1>6 DEF RevokeValidate, RevokeAtProvider, RevokeCommit, RevokeAbort, provider,
                      SubmissionType
  <2>2. \A q \in Requests : req'[q].status = "FAILED" => req[q].status = "FAILED"
    BY <1>0, <1>6 DEF RevokeValidate, RevokeAtProvider, RevokeCommit, RevokeAbort, database,
                      Request
  <2> QED
    BY <2>1, <2>2 DEF NothingLost
<1>7. ASSUME NEW w \in Workers, Apply(w) PROVE NothingLost'
  <2>1. PICK r \in Requests :
          \/ UNCHANGED req
          \/ \E s \in {"PARTIALLY_COMPLETED", "COMPLETED", "DECLINED", "EXPIRED"} :
               req' = [req EXCEPT ![r].status = s]
    BY <1>7, ApplyWrites DEF RequestTo
  <2>2. UNCHANGED <<sender, sub>>
    BY <1>7, ApplyWrites DEF Finish, provider
  <2>3. \A q \in Requests : req'[q].status = "FAILED" => req[q].status = "FAILED"
    BY <1>0, <2>1 DEF Request
  <2> QED
    BY <2>2, <2>3 DEF NothingLost
<1>8. CASE UNCHANGED signatureVars
  BY <1>1, <1>8 DEF signatureVars, database, processes, provider
<1>9. CASE Next
  <2>1. CASE DeskStep
    BY <1>1, <2>1 DEF DeskStep, SaveContent, SubmitForReview, Approve, RequestChanges,
                      SendToClient, ClientAccept, Negotiate, Cancel, Desk, processes, provider
  <2>2. ASSUME NEW w \in Workers, (\E e \in Event : Receive(w, e)) \/ Count(w) \/ Rollback(w)
        PROVE  NothingLost'
    BY <1>1, <2>2 DEF Receive, Count, Rollback, database, provider
  <2> QED
    BY <1>2, <1>3, <1>4, <1>5, <1>6, <1>7, <1>9, <2>1, <2>2 DEF Next, Apply, DeskStep
<1> QED
  BY <1>8, <1>9

(* Without overlap, and if a call that times out is not executed all the   *)
(* same, the signers are never invited to two live submissions.            *)
THEOREM QuietOneLiveSubmission ==
  ASSUME ~Overlap, "timeout" \notin Faults
  PROVE  Spec => []OneLiveSubmission
<1>1. Init => NothingLost
  BY DEF Init, NothingLost
<1>2. SignatureInv /\ FollowInv /\ NothingLost /\ [Next]_signatureVars => NothingLost'
  BY NothingLostStep
<1>3. SignatureInv /\ FollowInv /\ NothingLost => OneLiveSubmission
  <2> SUFFICES ASSUME SignatureInv, FollowInv, NothingLost PROVE OneLiveSubmission
    OBVIOUS
  <2>1. ASSUME NEW r \in Requests, Live(r) PROVE req[r].status \in ActiveStatuses
    <3>1. /\ sub[r].state = "PENDING" /\ ~sub[r].archived
          /\ CallsTold /\ EndsFollow
          /\ req[r].status \in {"none"} \union ActiveStatuses \union ClosedStatuses
      BY <2>1, ProviderType DEF Live, FollowInv, DatabaseFollows, Request
    <3>2. req[r].status \notin {"none", "REVOKED", "FAILED"}
      BY <3>1 DEF CallsTold, NothingLost
    <3>3. req[r].status \notin {"COMPLETED", "DECLINED", "EXPIRED"}
      BY <3>1 DEF EndsFollow
    <3> QED
      BY <3>1, <3>2, <3>3 DEF ClosedStatuses
  <2> QED
    BY <2>1 DEF OneLiveSubmission, SignatureInv, OneActiveRequest
<1> QED
  BY <1>1, <1>2, <1>3, QuietInvariant, PTL DEF Spec
=============================================================================
