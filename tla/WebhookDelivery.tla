---------------------------- MODULE WebhookDelivery ----------------------------
(* The outgoing webhooks of one subscription: the outbox written with the     *)
(* business transaction, the passes of the job `webhooks-deliver`, the manual *)
(* re-delivery and the test of the administration, and the consumer, who may  *)
(* accept or refuse.                                                          *)
(*                                                                            *)
(* A tenant's subscriptions do not share a delivery, so one is followed. An   *)
(* attempt is three steps, as in the code: the reservation (a read, then an   *)
(* UPDATE conditioned on the date read), the request, outside any            *)
(* transaction, and the record of its outcome. Passes overlap: the job starts *)
(* every minute, the worker runs several jobs, and there may be several       *)
(* workers. A date is kept as "past or not": `Elapse` is time passing, and a  *)
(* lease may run out under a sender that is slow to record. `fresh` says that *)
(* the date a process has read is still the one in the row: every write of    *)
(* the column gives it another value.                                         *)
EXTENDS Naturals, FiniteSets

CONSTANTS
  Deliveries,     \* the (event, subscription) rows
  Passes,         \* the runs of the job that may be under way together
  Desks,          \* the administration's requests: redeliver and test
  MaxAttempts,    \* attempts of a series (RETRY_DELAYS_MS.length + 1)
  Threshold,      \* dead deliveries in a row that disable the subscription
  MaxRedeliver,   \* bound of the model: manual re-deliveries and tests
  MaxCrashes      \* bound of the model: processes that die

ASSUME WebhookAssumption ==
  /\ MaxAttempts \in Nat \ {0}
  /\ Threshold \in Nat \ {0}
  /\ MaxRedeliver \in Nat
  /\ MaxCrashes \in Nat
  /\ Passes \cap Desks = {}

VARIABLES
  subscription,   \* [active, failures]: the row of webhook_subscriptions
  delivery,       \* per delivery: [status, attempt, due]
  process,        \* per pass or request: where it is in its attempts
  manual,         \* re-deliveries and tests so far (bound)
  crashes,        \* processes that died so far (bound)
  sends           \* ghost: requests sent for a delivery, up to MaxAttempts

vars == <<subscription, delivery, process, manual, crashes, sends>>

Processes == Passes \cup Desks
Open == {"PENDING", "FAILED"}
Statuses == Open \cup {"NONE", "DELIVERED", "DEAD"}

Idle == [phase |-> "idle", found |-> {}, on |-> {}, fresh |-> FALSE,
         attempt |-> 0, accepted |-> FALSE]

TypeOK ==
  /\ subscription \in [active: BOOLEAN, failures: Nat]
  /\ delivery \in [Deliveries -> [status: Statuses, attempt: 0..MaxAttempts,
                                  due: BOOLEAN]]
  /\ process \in [Processes ->
       [phase: {"idle", "seen", "sending", "answered"},
        found: SUBSET Deliveries, on: SUBSET Deliveries, fresh: BOOLEAN,
        attempt: 0..MaxAttempts, accepted: BOOLEAN]]
  /\ manual \in 0..MaxRedeliver
  /\ crashes \in 0..MaxCrashes
  /\ sends \in [Deliveries -> 0..MaxAttempts]

Init ==
  /\ subscription = [active |-> TRUE, failures |-> 0]
  /\ delivery = [d \in Deliveries |->
                   [status |-> "NONE", attempt |-> 0, due |-> FALSE]]
  /\ process = [p \in Processes |-> Idle]
  /\ manual = 0
  /\ crashes = 0
  /\ sends = [d \in Deliveries |-> 0]

(* The row is rewritten with a new date (or none): whoever had read the old   *)
(* one will not find it again.                                                *)
Rescheduled(d, procs) ==
  [p \in Processes |-> IF procs[p].on = {d} /\ procs[p].phase = "seen"
                         THEN [procs[p] EXCEPT !.fresh = FALSE] ELSE procs[p]]

(* A process goes on to the next delivery of its list.                        *)
MovedOn(p) ==
  [Idle EXCEPT !.found = process[p].found \ process[p].on]

--------------------------------------------------------------------------------
(* The outbox and the administration.                                         *)

(* A business transaction publishes: the delivery exists if the subscription  *)
(* is active when it commits; otherwise nothing is ever written.              *)
Publish(d) ==
  /\ delivery[d].status = "NONE"
  /\ subscription.active
  /\ delivery' = [delivery EXCEPT
                    ![d] = [status |-> "PENDING", attempt |-> 0, due |-> TRUE]]
  /\ UNCHANGED <<subscription, process, manual, crashes, sends>>

(* The request of the "test" button: a ping of its own, attempted at once.    *)
Test(p, d) ==
  /\ process[p] = Idle
  /\ manual < MaxRedeliver
  /\ delivery[d].status = "NONE"
  /\ subscription.active
  /\ delivery' = [delivery EXCEPT
                    ![d] = [status |-> "PENDING", attempt |-> 0, due |-> TRUE]]
  /\ process' = [process EXCEPT ![p].found = {d}]
  /\ manual' = manual + 1
  /\ UNCHANGED <<subscription, crashes, sends>>

(* Manual re-delivery, from any status: a whole series starts again, its      *)
(* first attempt at once.                                                     *)
Redeliver(p, d) ==
  /\ process[p] = Idle
  /\ manual < MaxRedeliver
  /\ delivery[d].status # "NONE"
  /\ subscription.active
  /\ delivery' = [delivery EXCEPT
                    ![d] = [status |-> "PENDING", attempt |-> 0, due |-> TRUE]]
  /\ process' = [Rescheduled(d, process) EXCEPT ![p].found = {d}]
  /\ manual' = manual + 1
  /\ UNCHANGED <<subscription, crashes, sends>>

(* Mutant: a reactivation that keeps the count.                               *)
ReactivatedAsIs(active) ==
  [subscription EXCEPT !.active = active]

(* Reactivation starts from a count of zero; deactivation keeps the count.    *)
Switched(active) ==
  IF active THEN [active |-> TRUE, failures |-> 0]
            ELSE [subscription EXCEPT !.active = FALSE]

SetActive(active) ==
  /\ subscription.active # active
  /\ subscription' = Switched(active)
  /\ UNCHANGED <<delivery, process, manual, crashes, sends>>

Elapse(d) ==
  /\ delivery[d].status \in Open
  /\ ~delivery[d].due
  /\ delivery' = [delivery EXCEPT ![d].due = TRUE]
  /\ UNCHANGED <<subscription, process, manual, crashes, sends>>

--------------------------------------------------------------------------------
(* The passes.                                                                *)

(* Mutant: the retries are not looked for.                                    *)
DuePending ==
  {d \in Deliveries : /\ delivery[d].status = "PENDING"
                      /\ delivery[d].due
                      /\ subscription.active}

Due ==
  {d \in Deliveries : /\ delivery[d].status \in Open
                      /\ delivery[d].due
                      /\ subscription.active}

Discover(p) ==
  /\ process[p] = Idle
  /\ Due # {}
  /\ process' = [process EXCEPT ![p].found = Due]
  /\ UNCHANGED <<subscription, delivery, manual, crashes, sends>>

(* The reservation reads the date. Both callers force the attempt, so that    *)
(* the date is not compared with the clock: a delivery another process has    *)
(* just reserved is seen with the date of its lease.                          *)
Look(p, d) ==
  /\ process[p].phase = "idle"
  /\ d \in process[p].found
  /\ process' = [process EXCEPT ![p] =
       IF delivery[d].status \in Open /\ subscription.active
         THEN [process[p] EXCEPT !.phase = "seen", !.on = {d}, !.fresh = TRUE]
         ELSE [process[p] EXCEPT !.found = process[p].found \ {d}]]
  /\ UNCHANGED <<subscription, delivery, manual, crashes, sends>>

(* The conditional UPDATE: it reserves the delivery if the row still has the  *)
(* date that was read, and skips it otherwise. The row is read again after    *)
(* it, under its lock: the attempt's number comes from that read.             *)
Claim(p) ==
  /\ process[p].phase = "seen"
  /\ \E d \in process[p].on :
       IF process[p].fresh /\ delivery[d].status \in Open
         THEN /\ delivery' = [delivery EXCEPT ![d].due = FALSE]
              /\ process' = [Rescheduled(d, process) EXCEPT
                   ![p].phase = "sending",
                   ![p].attempt = delivery[d].attempt + 1]
         ELSE /\ process' = [process EXCEPT ![p] = MovedOn(p)]
              /\ UNCHANGED delivery
  /\ UNCHANGED <<subscription, manual, crashes, sends>>

(* The request: accepted (2xx), or refused, redirected, failed, timed out.    *)
Send(p) ==
  /\ process[p].phase = "sending"
  /\ \E d \in process[p].on, accepted \in BOOLEAN :
       /\ process' = [process EXCEPT ![p].phase = "answered",
                                     ![p].accepted = accepted]
       /\ sends' = [sends EXCEPT ![d] = IF @ < MaxAttempts THEN @ + 1 ELSE @]
  /\ UNCHANGED <<subscription, delivery, manual, crashes>>

RecordAccepted(p) ==
  /\ process[p].phase = "answered"
  /\ process[p].accepted
  /\ \E d \in process[p].on :
       /\ delivery' = [delivery EXCEPT
            ![d] = [status |-> "DELIVERED", attempt |-> process[p].attempt,
                    due |-> FALSE]]
       /\ process' = [Rescheduled(d, process) EXCEPT ![p] = MovedOn(p)]
  /\ subscription' = [subscription EXCEPT !.failures = 0]
  /\ UNCHANGED <<manual, crashes, sends>>

(* Mutant: no such constraint.                                                *)
NoConstraint(d) == TRUE

(* webhook_deliveries_delivered_ck: a failure leaves delivered_at as it is,   *)
(* so the constraint refuses it on a delivered row and the transaction fails. *)
DeliveredCk(d) == delivery[d].status # "DELIVERED"

(* nextAttemptAfterFailure has no delay left.                                 *)
Exhausted(attempt) == attempt >= MaxAttempts

(* The failure of a last attempt is counted, and the count disables the       *)
(* subscription when it reaches the threshold.                                *)
Counted ==
  LET failures == subscription.failures + 1
  IN  [active |-> subscription.active /\ failures < Threshold,
       failures |-> failures]

RecordFailure(p) ==
  /\ process[p].phase = "answered"
  /\ ~process[p].accepted
  /\ \E d \in process[p].on :
       IF DeliveredCk(d)
         THEN LET dead == Exhausted(process[p].attempt)
              IN  /\ delivery' = [delivery EXCEPT
                       ![d] = [status |-> IF dead THEN "DEAD" ELSE "FAILED",
                               attempt |-> process[p].attempt, due |-> FALSE]]
                  /\ subscription' = IF dead THEN Counted ELSE subscription
                  /\ process' = [Rescheduled(d, process) EXCEPT ![p] = MovedOn(p)]
         ELSE /\ process' = [process EXCEPT ![p] = MovedOn(p)]
              /\ UNCHANGED <<subscription, delivery>>
  /\ UNCHANGED <<manual, crashes, sends>>

(* The process dies: what it had listed and reserved is lost with it.         *)
Crash(p) ==
  /\ crashes < MaxCrashes
  /\ process[p] # Idle
  /\ process' = [process EXCEPT ![p] = Idle]
  /\ crashes' = crashes + 1
  /\ UNCHANGED <<subscription, delivery, manual, sends>>

Attempt(p) ==
  \/ \E d \in Deliveries : Look(p, d)
  \/ Claim(p)
  \/ Send(p)
  \/ RecordAccepted(p)
  \/ RecordFailure(p)

Next ==
  \/ \E d \in Deliveries : Publish(d) \/ Elapse(d)
  \/ \E active \in BOOLEAN : SetActive(active)
  \/ \E p \in Desks, d \in Deliveries : Test(p, d) \/ Redeliver(p, d)
  \/ \E p \in Passes : Discover(p)
  \/ \E p \in Processes : Attempt(p) \/ Crash(p)

Spec == Init /\ [][Next]_vars

(* Time passes, the job is started every minute, and a process that is up     *)
(* goes on: each step ends by itself (the request has a timeout), and the     *)
(* deaths are finitely many.                                                  *)
Fairness ==
  /\ \A d \in Deliveries : WF_vars(Elapse(d))
  /\ \A p \in Passes : WF_vars(Discover(p))
  /\ \A p \in Processes : WF_vars(Attempt(p))

LiveSpec == Spec /\ Fairness

--------------------------------------------------------------------------------
(* A subscription in service has not reached the threshold: the increment,    *)
(* the test and the deactivation are one transaction, other senders and the   *)
(* administrator write the same row, and a reactivation starts from zero, so  *)
(* that the first dead delivery after it does not disable it again.           *)
ActiveBelowThreshold == subscription.active => subscription.failures < Threshold

(* No delivery is given up before the whole series was really sent, whatever  *)
(* the passes that overlap, the leases that run out under a slow sender and   *)
(* the numbers two senders write for their attempts.                          *)
NeverDeadUntried ==
  \A d \in Deliveries : delivery[d].status = "DEAD" => sends[d] >= MaxAttempts

(* An accepted delivery is reopened by the administrator only: the failure a  *)
(* slower sender of the same delivery records after the acceptance is refused *)
(* by the database, no line of the service forbids it.                        *)
DeliveredStays ==
  [][\A d \in Deliveries :
       delivery[d].status = "DELIVERED" =>
         \/ delivery'[d].status = "DELIVERED"
         \/ delivery'[d].status = "PENDING" /\ manual' = manual + 1]_vars

(* The outbox's promise: what was published is delivered or declared dead, as *)
(* long as the subscription stays in service.                                 *)
Settles ==
  \A d \in Deliveries :
    delivery[d].status \in Open ~>
      (delivery[d].status \notin Open \/ ~subscription.active)
================================================================================
