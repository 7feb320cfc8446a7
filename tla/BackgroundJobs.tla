----------------------------- MODULE BackgroundJobs -----------------------------
(* The work done after the commit: the capture of the proofs of a signature,  *)
(* the OCR of an imported contract and the alerts of a deadline, with the     *)
(* queue that carries them, the workers that die or lose their lock, and the  *)
(* periodic jobs that are there to catch up.                                  *)
(*                                                                            *)
(* A job touches the row it is named after and nothing else, so a behaviour   *)
(* follows one row, and `subject` says of which kind. The queue is BullMQ,    *)
(* modelled by what the code relies on: an identifier that is already known,  *)
(* be its job waiting, active, completed or failed, is not added again; a     *)
(* finished job is kept until it is pushed out by more recent ones; the job   *)
(* of a worker that is gone goes back to the queue once, then fails.          *)
EXTENDS Naturals, FiniteSets

CONSTANTS
  Workers,        \* jobs that may run at once
  MaxJobs,        \* bound of the model: jobs of one row in the queue
  JobAttempts,    \* attempts of a capture or of an alert in the queue (5)
  OcrAttempts,    \* attempts of an OCR, counted in the row (3)
  MaxFaults,      \* bound of the model, per subject: deaths, lost locks and
                  \* lost enqueues
  MaxChanges      \* bound of the model, per subject: decisions of the desk

Subjects == {"proof", "ocr", "alert"}

ASSUME JobsAssumption ==
  /\ MaxJobs \in Nat \ {0}
  /\ JobAttempts \in Nat \ {0}
  /\ OcrAttempts \in Nat \ {0}
  /\ MaxFaults \in [Subjects -> Nat]
  /\ MaxChanges \in [Subjects -> Nat]

VARIABLES
  subject,        \* the kind of row the behaviour follows
  job,            \* the queue: per slot [state, tries, stalled, owner]
  run,            \* per worker: the job it runs, its step, what it has read
  timer,          \* workers with an OCR retry in memory (bound: one each)
  faults,         \* deaths, lost locks and lost enqueues so far (bound)
  changes,        \* decisions of the desk so far (bound)
  request,        \* the signature request: [status, proof, enqueue]
  import,         \* the import: [status, attempts, documents, enqueue]
  alert,          \* the alert of the deadline: its status
  deadline,       \* the deadline: its status
  wanted,         \* the contract, as it is, has this deadline
  time,           \* 0 before the alert's date, 1 from it, 2 after the deadline
  plan            \* per recomputation under way: what it has read

queue == <<job, run, timer>>
bounds == <<faults, changes>>
capture == <<request>>
ocr == <<import>>
schedule == <<alert, deadline, wanted, time, plan>>
vars == <<subject, queue, bounds, capture, ocr, schedule>>

Slots == 1..MaxJobs
Fixed == 1        \* the slot of a job whose identifier is made from its row
Recomputers == {"desk", "sweep"}

NoJob == [state |-> "none", tries |-> 0, stalled |-> FALSE, owner |-> {}]
Resting == [job |-> 0, step |-> "idle", seen |-> 0]
NoPlan == [wanted |-> FALSE, deadline |-> "unread"]

Init ==
  /\ subject \in Subjects
  /\ job = [s \in Slots |-> NoJob]
  /\ run = [w \in Workers |-> Resting]
  /\ timer = {}
  /\ faults = 0
  /\ changes = 0
  /\ request = [status |-> "SENT", proof |-> FALSE, enqueue |-> FALSE]
  /\ import = [status |-> "NONE", attempts |-> 0, documents |-> {}, enqueue |-> FALSE]
  /\ alert = "NONE"
  /\ deadline = "NONE"
  /\ wanted = TRUE
  /\ time = 0
  /\ plan = [r \in Recomputers |-> NoPlan]

--------------------------------------------------------------------------------
(* The queue.                                                                 *)

Waiting(s) == [job EXCEPT ![s] = [NoJob EXCEPT !.state = "waiting"]]

(* A job with the identifier of its row: nothing happens when it is known.    *)
AddFixed == IF job[Fixed].state = "none" THEN Waiting(Fixed) ELSE job

(* An OCR job has an identifier of its own, with the time in it.              *)
AddNew(j) ==
  \E s \in Slots :
    /\ job[s].state = "none"
    /\ \A t \in 1..(s - 1) : job[t].state # "none"
    /\ j = Waiting(s)

Take(w, s) ==
  /\ run[w] = Resting
  /\ job[s].state = "waiting"
  /\ job' = [job EXCEPT ![s].state = "active", ![s].owner = {w}]
  /\ run' = [run EXCEPT ![w] = [job |-> s, step |-> "start", seen |-> 0]]
  /\ UNCHANGED <<subject, timer, bounds, capture, ocr, schedule>>

(* The worker reports a normal end; one that lost its lock reports in vain.   *)
(* A finished OCR job is kept too, but its identifier never comes back.       *)
Completed(w) ==
  LET s == run[w].job
  IN  IF job[s].owner # {w} THEN job
      ELSE IF subject = "ocr" THEN [job EXCEPT ![s] = NoJob]
      ELSE [job EXCEPT ![s].state = "completed", ![s].owner = {}]

Finish(w) ==
  /\ run' = [run EXCEPT ![w] = Resting]
  /\ job' = Completed(w)

Step(w, step) ==
  /\ run' = [run EXCEPT ![w].step = step]
  /\ UNCHANGED job

(* An exception leaves the handler: the queue tries again, with a delay, as   *)
(* long as attempts are left, and keeps the failed job after the last one.    *)
Throw(w) ==
  /\ run[w].step \in {"loaded", "stored", "planned", "mailed"}
  /\ LET s == run[w].job
     IN  job' = IF job[s].owner # {w} THEN job
                ELSE [job EXCEPT ![s].tries = @ + 1, ![s].owner = {},
                        ![s].state = IF job[s].tries + 1 < JobAttempts
                                       THEN "waiting" ELSE "failed"]
  /\ run' = [run EXCEPT ![w] = Resting]
  /\ UNCHANGED <<subject, timer, bounds, capture, ocr, schedule>>

(* A worker dies with what it holds in memory, its timers included.           *)
Crash(w) ==
  /\ faults < MaxFaults[subject]
  /\ run[w] # Resting \/ w \in timer
  /\ run' = [run EXCEPT ![w] = Resting]
  /\ timer' = timer \ {w}
  /\ faults' = faults + 1
  /\ UNCHANGED <<subject, job, changes, capture, ocr, schedule>>

Restored(s) ==
  [job EXCEPT ![s].state = IF job[s].stalled THEN "failed" ELSE "waiting",
              ![s].stalled = TRUE, ![s].owner = {}]

(* The queue finds an active job whose lock nobody renews: its worker is      *)
(* dead.                                                                      *)
Recover(s) ==
  /\ job[s].state = "active"
  /\ \A w \in job[s].owner : run[w].job # s
  /\ job' = Restored(s)
  /\ UNCHANGED <<subject, run, timer, bounds, capture, ocr, schedule>>

(* Or it is alive and was too busy to renew it: it goes on beside the next.   *)
Stall(s) ==
  /\ faults < MaxFaults[subject]
  /\ job[s].state = "active"
  /\ job' = Restored(s)
  /\ faults' = faults + 1
  /\ UNCHANGED <<subject, run, timer, changes, capture, ocr, schedule>>

(* More recent jobs push a finished one out.                                  *)
Evict(s) ==
  /\ job[s].state \in {"completed", "failed"}
  /\ job' = [job EXCEPT ![s] = NoJob]
  /\ UNCHANGED <<subject, run, timer, bounds, capture, ocr, schedule>>

--------------------------------------------------------------------------------
(* The capture of the proofs.                                                 *)

(* The last webhook of a signature commits; its enqueue comes after.          *)
CompleteRequest ==
  /\ subject = "proof"
  /\ request.status = "SENT"
  /\ request' = [request EXCEPT !.status = "COMPLETED", !.enqueue = TRUE]
  /\ UNCHANGED <<subject, queue, bounds, ocr, schedule>>

(* Mutant: the enqueue is inside the transaction.                             *)
EnqueueInside == request.enqueue \/ request.status = "SENT"

CaptureReady == request.enqueue

EnqueueCapture ==
  /\ subject = "proof"
  /\ CaptureReady
  /\ request' = [request EXCEPT !.enqueue = FALSE]
  /\ job' = AddFixed
  /\ UNCHANGED <<subject, run, timer, bounds, ocr, schedule>>

(* The queue does not answer; the handler logs it and goes on.                *)
LoseCapture ==
  /\ faults < MaxFaults[subject]
  /\ request.enqueue
  /\ request' = [request EXCEPT !.enqueue = FALSE]
  /\ faults' = faults + 1
  /\ UNCHANGED <<subject, queue, changes, ocr, schedule>>

NeedsProof == request.status = "COMPLETED" /\ ~request.proof

(* The hourly job adds the capture of every completed request without proof.  *)
ReconcileProofs ==
  /\ subject = "proof"
  /\ NeedsProof
  /\ AddFixed # job
  /\ job' = AddFixed
  /\ UNCHANGED <<subject, run, timer, bounds, capture, ocr, schedule>>

CaptureLoad(w) ==
  /\ subject = "proof"
  /\ run[w].step = "start"
  /\ IF NeedsProof THEN Step(w, "loaded") ELSE Finish(w)
  /\ UNCHANGED <<subject, timer, bounds, capture, ocr, schedule>>

(* Downloads and writes of the objects, outside any transaction.              *)
CaptureStore(w) ==
  /\ run[w].step = "loaded"
  /\ Step(w, "stored")
  /\ UNCHANGED <<subject, timer, bounds, capture, ocr, schedule>>

CaptureRecord(w) ==
  /\ run[w].step = "stored"
  /\ request' = [request EXCEPT !.proof = TRUE]
  /\ Finish(w)
  /\ UNCHANGED <<subject, timer, bounds, ocr, schedule>>

--------------------------------------------------------------------------------
(* The OCR of an import.                                                      *)

ImportOne ==
  /\ subject = "ocr"
  /\ import.status = "NONE"
  /\ import' = [import EXCEPT !.status = "PENDING", !.enqueue = TRUE]
  /\ UNCHANGED <<subject, queue, bounds, capture, schedule>>

EnqueueOcr ==
  /\ import.enqueue
  /\ import' = [import EXCEPT !.enqueue = FALSE]
  /\ AddNew(job')
  /\ UNCHANGED <<subject, run, timer, bounds, capture, schedule>>

LoseOcr ==
  /\ faults < MaxFaults[subject]
  /\ import.enqueue
  /\ import' = [import EXCEPT !.enqueue = FALSE]
  /\ faults' = faults + 1
  /\ UNCHANGED <<subject, queue, changes, capture, schedule>>

(* The desk starts a failed OCR again, with a new series of attempts.         *)
RetryOcr ==
  /\ changes < MaxChanges[subject]
  /\ import.status = "FAILED"
  /\ import' = [import EXCEPT !.status = "PENDING", !.attempts = 0, !.enqueue = TRUE]
  /\ changes' = changes + 1
  /\ UNCHANGED <<subject, queue, faults, capture, schedule>>

(* Mutant: the sweep leaves out the imports that were already tried.          *)
FirstTriesOnly == import.status = "PENDING" /\ import.attempts = 0

FoundPending == import.status = "PENDING" /\ import.attempts < OcrAttempts

(* The daily job adds the pending imports again.                              *)
SweepOcr ==
  /\ FoundPending
  /\ AddNew(job')
  /\ UNCHANGED <<subject, run, timer, bounds, capture, ocr, schedule>>

FireTimer(w) ==
  /\ w \in timer
  /\ timer' = timer \ {w}
  /\ AddNew(job')
  /\ UNCHANGED <<subject, run, bounds, capture, ocr, schedule>>

(* The reservation is a read and an update by identifier: two jobs may both   *)
(* read PENDING.                                                              *)
OcrRead(w) ==
  /\ subject = "ocr"
  /\ run[w].step = "start"
  /\ IF import.status = "PENDING"
       THEN /\ run' = [run EXCEPT ![w].step = "read", ![w].seen = import.attempts]
            /\ UNCHANGED job
       ELSE Finish(w)
  /\ UNCHANGED <<subject, timer, bounds, capture, ocr, schedule>>

OcrClaim(w) ==
  /\ run[w].step = "read"
  /\ import' = [import EXCEPT !.status = "RUNNING", !.attempts = @ + 1]
  /\ Step(w, "ocr")
  /\ UNCHANGED <<subject, timer, bounds, capture, schedule>>

(* The text and the searchable copy are recorded under the attempt's number.  *)
OcrDone(w) ==
  /\ run[w].step = "ocr"
  /\ run[w].seen + 1 \notin import.documents
  /\ import' = [import EXCEPT !.status = "DONE",
                              !.documents = @ \cup {run[w].seen + 1}]
  /\ Finish(w)
  /\ UNCHANGED <<subject, timer, bounds, capture, schedule>>

(* The service refuses the document, or fails, or the documents of that       *)
(* number exist already: the row goes back to PENDING, with a timer in the    *)
(* worker, or to FAILED.                                                      *)
OcrFail(w, retryable) ==
  /\ run[w].step = "ocr"
  /\ LET again == retryable /\ run[w].seen + 1 < OcrAttempts
     IN  /\ import' = [import EXCEPT !.status = IF again THEN "PENDING" ELSE "FAILED"]
         /\ timer' = IF again THEN timer \cup {w} ELSE timer
  /\ Finish(w)
  /\ UNCHANGED <<subject, bounds, capture, schedule>>

--------------------------------------------------------------------------------
(* The deadline and its alert.                                                *)

(* A date passes. A recomputation has one clock, taken when it starts: it is  *)
(* taken to end on the day it started.                                        *)
Tick ==
  /\ subject = "alert"
  /\ time < 2
  /\ \A r \in Recomputers : plan[r] = NoPlan
  /\ time' = time + 1
  /\ UNCHANGED <<subject, queue, bounds, capture, ocr, alert, deadline, wanted, plan>>

(* A termination, its withdrawal, an amendment: the contract loses its        *)
(* deadline or has it again. The recomputation is another transaction.        *)
ChangeContract ==
  /\ subject = "alert"
  /\ changes < MaxChanges[subject]
  /\ wanted' = ~wanted
  /\ changes' = changes + 1
  /\ UNCHANGED <<subject, queue, faults, capture, ocr, alert, deadline, time, plan>>

(* A recomputation reads the contract and its deadlines; the desk's follows a *)
(* decision, the sweep's is daily.                                            *)
RecomputeRead(r) ==
  /\ subject = "alert"
  /\ plan[r] = NoPlan
  /\ \/ wanted /\ deadline \in {"NONE", "OBSOLETE"}
     \/ wanted /\ deadline = "OPEN" /\ time = 2
     \/ ~wanted /\ deadline = "OPEN"
  /\ plan' = [plan EXCEPT ![r] = [wanted |-> wanted, deadline |-> deadline]]
  /\ UNCHANGED <<subject, queue, bounds, capture, ocr, alert, deadline, wanted, time>>

(* Mutant: every cancelled alert of a deadline that comes back is revived.    *)
AlwaysRevived == alert = "CANCELLED"

(* Only those whose date is still ahead are.                                  *)
Revived == alert = "CANCELLED" /\ time = 0

Status(past) == IF past THEN "DONE" ELSE "OPEN"

(* A deadline that is no longer computed becomes obsolete and its alert is    *)
(* cancelled; one that comes back is opened again; a new one gets its alert,  *)
(* or the record that it was too late for one. A second creation of the same  *)
(* deadline fails on the unique key.                                          *)
RecomputeWrite(r) ==
  /\ plan[r] # NoPlan
  /\ plan' = [plan EXCEPT ![r] = NoPlan]
  /\ CASE ~plan[r].wanted ->
            /\ deadline' = "OBSOLETE"
            /\ alert' = IF alert = "PENDING" THEN "CANCELLED" ELSE alert
       [] plan[r].wanted /\ plan[r].deadline = "OBSOLETE" ->
            /\ deadline' = Status(time = 2)
            /\ alert' = IF Revived THEN "PENDING" ELSE alert
       [] plan[r].wanted /\ plan[r].deadline = "NONE" ->
            IF deadline = "NONE"
              THEN /\ deadline' = Status(time = 2)
                   /\ alert' = CASE time = 0 -> "PENDING"
                                 [] time = 1 -> "SKIPPED_OBSOLETE"
                                 [] time = 2 -> "NONE"
              ELSE UNCHANGED <<deadline, alert>>
       [] plan[r].wanted /\ plan[r].deadline = "OPEN" ->
            /\ deadline' = "DONE"
            /\ UNCHANGED alert
  /\ UNCHANGED <<subject, queue, bounds, capture, ocr, wanted, time>>

DueAlert == alert = "PENDING" /\ time > 0

(* The daily job adds a job for each alert that is due.                       *)
Dispatch ==
  /\ DueAlert
  /\ AddFixed # job
  /\ job' = AddFixed
  /\ UNCHANGED <<subject, run, timer, bounds, capture, ocr, schedule>>

AlertPlan(w) ==
  /\ subject = "alert"
  /\ run[w].step = "start"
  /\ IF alert = "PENDING" THEN Step(w, "planned") ELSE Finish(w)
  /\ UNCHANGED <<subject, timer, bounds, capture, ocr, schedule>>

AlertMail(w) ==
  /\ run[w].step = "planned"
  /\ Step(w, "mailed")
  /\ UNCHANGED <<subject, timer, bounds, capture, ocr, schedule>>

(* The mark is refused to who comes second, and to a cancelled alert.         *)
AlertMark(w) ==
  /\ run[w].step = "mailed"
  /\ alert' = IF alert = "PENDING" THEN "SENT" ELSE alert
  /\ Finish(w)
  /\ UNCHANGED <<subject, timer, bounds, capture, ocr, deadline, wanted, time, plan>>

--------------------------------------------------------------------------------
Handle(w) ==
  \/ CaptureLoad(w) \/ CaptureStore(w) \/ CaptureRecord(w)
  \/ OcrRead(w) \/ OcrClaim(w) \/ OcrDone(w)
  \/ \E retryable \in BOOLEAN : OcrFail(w, retryable)
  \/ AlertPlan(w) \/ AlertMail(w) \/ AlertMark(w)
  \/ Throw(w)

Periodic == ReconcileProofs \/ SweepOcr \/ Dispatch

Recompute(r) == RecomputeRead(r) \/ RecomputeWrite(r)

Next ==
  \/ CompleteRequest \/ EnqueueCapture \/ LoseCapture
  \/ ImportOne \/ EnqueueOcr \/ LoseOcr \/ RetryOcr
  \/ Tick \/ ChangeContract
  \/ Periodic
  \/ \E r \in Recomputers : Recompute(r)
  \/ \E w \in Workers : Handle(w) \/ Crash(w) \/ FireTimer(w)
  \/ \E w \in Workers, s \in Slots : Take(w, s)
  \/ \E s \in Slots : Recover(s) \/ Stall(s) \/ Evict(s)

Spec == Init /\ [][Next]_vars

(* Workers that are up take the jobs and end them, the queue finds the jobs   *)
(* of the dead, the periodic jobs run; nothing else is promised.              *)
FairSpec ==
  /\ Spec
  /\ \A w \in Workers : WF_vars(Handle(w))
  /\ WF_vars(\E w \in Workers, s \in Slots : Take(w, s))
  /\ WF_vars(\E s \in Slots : Recover(s))
  /\ WF_vars(Periodic)

--------------------------------------------------------------------------------
(* A completed signature gets its proof, or its job is among the failed ones  *)
(* that are kept: as long as it is, the hourly job adds nothing. The enqueue  *)
(* may be lost and the workers may die.                                       *)
ProofNotForgotten ==
  NeedsProof ~> (request.proof \/ job[Fixed].state = "failed")

(* The claims nobody will ever end: a worker died in the middle of an OCR, or *)
(* two jobs that read the same PENDING used up the attempts.                  *)
Stranded ==
  \/ /\ import.status = "RUNNING"
     /\ \A w \in Workers : run[w].step # "ocr"
  \/ import.status = "PENDING" /\ import.attempts >= OcrAttempts

(* Apart from those, an OCR comes to an end: a lost enqueue and a timer that  *)
(* died with its worker are made up for by the daily job.                     *)
OcrSettles ==
  import.status = "PENDING" ~> (import.status \in {"DONE", "FAILED"} \/ Stranded)

(* An alert that is due leaves PENDING (it is sent, or its deadline is gone)  *)
(* or its job is among the failed ones: no job of an earlier life of the      *)
(* alert, kept by the queue, stands in its way.                               *)
AlertSettles ==
  DueAlert ~> (~DueAlert \/ job[Fixed].state = "failed")
================================================================================
