------------------------- MODULE ContractLifecycle -------------------------
(***************************************************************************)
(* A main contract from its signature, or its import, to its end: the      *)
(* daily sweep (LifecycleService), the desk (renewals, terminations,       *)
(* amendments) and the webhook that completes the signature of the         *)
(* contracts made from it, its successors and its amendments.              *)
(*                                                                         *)
(* The sweep is a sequence of phases.  Each one asks the database for the  *)
(* contracts to handle, and handles each in a transaction of its own, that *)
(* reads the contract again: the desk and the clock may move in between.   *)
(* The transactions themselves are single steps; ContractReview studies    *)
(* those that overlap.  Dates are days; the sweep keeps the day it began.  *)
(* Successors and amendments are drafts that are sent for signature like   *)
(* any contract (SignatureFlow); here they keep what their parent reads.   *)
(* The append-only traces (cancellations, lifecycle events) and the        *)
(* reminders, that no step below reads, are left out.                      *)
(***************************************************************************)
EXTENDS ContractMachine, Sequences

CONSTANTS
  MaxDay,      \* bound: the last day of the clock and of the dates entered
  Notice,      \* the notice of the contract, in days
  Period,      \* the length of a renewed period, in days
  CatchUp,     \* periods one sweep may add (50 in the code)
  Successors,  \* bound: contracts made by renew
  Amendments,  \* bound: contracts made by amend
  NoContract   \* the null reference

ASSUME LifecycleAssumption ==
  /\ MaxDay \in Nat \ {0}
  /\ Notice \in Nat
  /\ Period \in Nat \ {0}
  /\ CatchUp \in Nat \ {0}
  /\ Successors \intersect Amendments = {}
  /\ NoContract \notin Successors \union Amendments

VARIABLES
  now,      \* the day
  row,      \* the contracts row
  periods,  \* contract_periods, in the order of period_number
  child,    \* the successors and the amendments
  request,  \* renewal_requests, by successor
  job       \* the sweep

lifecycleVars == <<now, row, periods, child, request, job>>

Day == 1..MaxDay
Children == Successors \union Amendments
Modes == {"NONE", "TACIT", "EXPRESS"}
Phases == <<"activate", "renew", "open", "expire", "complete">>

Row == [status : Statuses, startDate : Nat, endDate : Nat,
        terminationEffectiveDate : Nat, renewalMode : Modes,
        successorContractId : Successors \union {NoContract}]

(* "sent" stands for PENDING_SIGNATURE and PARTIALLY_SIGNED, "open" for    *)
(* the other statuses before the signature; out: a submission is live at   *)
(* the provider, which a cancellation does not change.                     *)
Child == [status : {"none", "open", "sent", "signed", "DECLINED",
                    "CANCELLED", "TERMINATED"},
          out : BOOLEAN, endDate : Nat, keepsTerm : BOOLEAN]

Idle == [phase |-> 0, day |-> 0, candidate |-> FALSE]

Imported ==
  [status |-> "IMPORTED_PENDING_VALIDATION", startDate |-> NoDate,
   endDate |-> NoDate, terminationEffectiveDate |-> NoDate,
   renewalMode |-> "NONE", successorContractId |-> NoContract]

(* A contract that was drafted here has no renewal mode and no period.     *)
Signed(start, end) ==
  [Imported EXCEPT !.status = "SIGNED", !.startDate = start, !.endDate = end]

InOrder(start, end) == end = NoDate \/ start <= end

Init ==
  /\ now = 1
  /\ \/ row = Imported
     \/ \E start \in Day, end \in Day \union {NoDate} :
          InOrder(start, end) /\ row = Signed(start, end)
  /\ periods = <<>>
  /\ child = [d \in Children |-> [status |-> "none", out |-> FALSE,
                                  endDate |-> NoDate, keepsTerm |-> FALSE]]
  /\ request = [d \in Successors |-> "none"]
  /\ job = Idle

Tick ==
  /\ now < MaxDay
  /\ now' = now + 1
  /\ UNCHANGED <<row, periods, child, request, job>>

-----------------------------------------------------------------------------
(* The desk: import, renewal of the period, termination.                   *)

Desk(can, next) ==
  /\ can
  /\ row' = next
  /\ UNCHANGED <<now, child, request, job>>

(* The metadata are written first; the status follows from the dates.      *)
ValidateImport(start, end, mode) ==
  LET c == [row EXCEPT !.startDate = start, !.endDate = end, !.renewalMode = mode]
  IN
  /\ InOrder(start, end)
  /\ Desk(CanValidateImport(c), ImportValidated(c, now))
  /\ periods' = IF end = NoDate THEN periods ELSE <<[start |-> start, end |-> end]>>

Cancel == Desk(CanCancel(row), Cancelled(row)) /\ UNCHANGED periods

NextPeriodEnd(end) == end + Period

RenewPeriod ==
  /\ Desk(CanRenewPeriod(row, NextPeriodEnd(row.endDate)),
          PeriodRenewed(row, NextPeriodEnd(row.endDate)))
  /\ periods' = Append(periods, [start |-> row.endDate + 1,
                                 end |-> NextPeriodEnd(row.endDate)])

CloseRenewal ==
  Desk(CanCloseRenewal(row), RenewalClosed(row)) /\ UNCHANGED periods

NoticeMissed == now + Notice > row.endDate

(* When a termination given today takes effect at the soonest.             *)
TerminationDue ==
  CASE row.endDate = NoDate -> now + Notice
    [] row.endDate # NoDate /\ NoticeMissed /\ row.renewalMode = "TACIT" ->
         NextPeriodEnd(row.endDate)
    [] OTHER -> row.endDate

(* An administrator may ask for any day, and gives a reason.               *)
Terminate(effective, overridden) ==
  /\ Desk(CanTerminate(row, effective, TerminationDue, overridden),
          Terminated(row, effective, now))
  /\ UNCHANGED periods

WithdrawTermination ==
  Desk(CanWithdrawTermination(row), TerminationWithdrawn(row)) /\ UNCHANGED periods

-----------------------------------------------------------------------------
(* Successors and amendments.                                              *)

(* A new draft; the amendments keep the parent's term unless another is    *)
(* given.                                                                  *)
Draft(d, end, keepsTerm) ==
  /\ child[d].status = "none"
  /\ child' = [child EXCEPT ![d] = [status |-> "open", out |-> FALSE,
                                    endDate |-> end, keepsTerm |-> keepsTerm]]

CanRenew == row.status \in {"ACTIVE", "EXPIRED", "RENEWAL_DUE"}

(* renewal_requests_one_pending.                                           *)
OnePending(d) == \A q \in Successors \ {d} : request[q] # "PENDING"

NoSuccessor == row.successorContractId = NoContract

Renew(d) ==
  /\ CanRenew
  /\ NoSuccessor
  /\ OnePending(d)
  /\ Draft(d, NoDate, FALSE)
  /\ row' = [row EXCEPT !.successorContractId = d]
  /\ request' = [request EXCEPT ![d] = "PENDING"]
  /\ UNCHANGED <<now, periods, job>>

Unlinked == [row EXCEPT !.successorContractId = NoContract]

(* The draft successor stays, without a link from its parent.              *)
RefuseRenewal(d) ==
  /\ request[d] = "PENDING"
  /\ child[d].status # "sent"
  /\ request' = [request EXCEPT ![d] = "REFUSED"]
  /\ row' = Unlinked
  /\ UNCHANGED <<now, periods, child, job>>

(* Statuses that leave the amendment's place free; a signed amendment      *)
(* keeps it until it is terminated.                                        *)
ClosedAmendment == {"none", "CANCELLED", "DECLINED", "TERMINATED"}

(* contracts_one_open_amendment.                                           *)
AmendmentSlot(d) ==
  d \in Amendments =>
    \A q \in Amendments \ {d} : child[q].status \in ClosedAmendment

CanAmend ==
  /\ row.status \in {"ACTIVE", "SIGNED", "RENEWAL_DUE"}
  /\ \A q \in Amendments : child[q].status \in ClosedAmendment

Amend(d) ==
  /\ CanAmend
  /\ AmendmentSlot(d)
  /\ \/ Draft(d, row.endDate, TRUE)
     \/ \E end \in Day : InOrder(row.startDate, end) /\ Draft(d, end, FALSE)
  /\ UNCHANGED <<now, row, periods, request, job>>

(* The life of a child until its signature.                                *)
ChildTo(d, from, status, out) ==
  /\ child[d].status \in from
  /\ child' = [child EXCEPT ![d].status = status, ![d].out = out]
  /\ UNCHANGED <<now, row, periods, request, job>>

(* A recall is a revocation, or the expiry of the submission.              *)
SendChild(d)    == ChildTo(d, {"open"}, "sent", TRUE)
RecallChild(d)  == ChildTo(d, {"sent"}, "open", FALSE)
DeclineChild(d) == ChildTo(d, {"sent"}, "DECLINED", FALSE)
ReopenChild(d)  == AmendmentSlot(d) /\ ChildTo(d, {"DECLINED"}, "open", FALSE)

CancelChild(d) ==
  ChildTo(d, {"open", "sent", "DECLINED"}, "CANCELLED", child[d].out)

TerminateAmendment(d) == ChildTo(d, {"signed"}, "TERMINATED", FALSE)

(* completeAll: all have signed.  The child follows if its status admits   *)
(* it; the renewal is accepted and the amendment reported in any case.     *)
CompleteChild(d) ==
  /\ child[d].out
  /\ child' = [child EXCEPT ![d].out = FALSE,
                            ![d].status = IF @ = "sent" THEN "signed" ELSE @]
  /\ request' = IF d \in Successors /\ request[d] = "PENDING"
                  THEN [request EXCEPT ![d] = "ACCEPTED"] ELSE request
  /\ row' = IF d \in Amendments /\ row.status \in {"ACTIVE", "SIGNED"}
              THEN [row EXCEPT !.endDate = child[d].endDate] ELSE row
  /\ UNCHANGED <<now, periods, job>>

-----------------------------------------------------------------------------
(* The sweep.                                                              *)

(* Mutant: the query expires the contracts that have no renewal only.      *)
NeverRenewed == row.renewalMode = "NONE"

MayExpire == row.renewalMode # "TACIT"

PastTerm(day) == row.endDate # NoDate /\ row.endDate < day

(* The queries that find the contracts to handle, at the day they run.     *)
Due(phase) ==
  CASE phase = "activate" -> /\ row.status = "SIGNED"
                             /\ row.startDate # NoDate
                             /\ row.startDate <= now
    [] phase = "renew"    -> /\ row.status \in {"ACTIVE", "RENEWAL_DUE"}
                             /\ row.renewalMode = "TACIT"
                             /\ PastTerm(now)
    [] phase = "open"     -> /\ row.status = "ACTIVE"
                             /\ row.renewalMode = "EXPRESS"
                             /\ row.endDate # NoDate
                             /\ row.endDate <= now + Notice
    [] phase = "expire"   -> /\ row.status \in {"ACTIVE", "RENEWAL_DUE"}
                             /\ MayExpire
                             /\ PastTerm(now)
    [] phase = "complete" -> /\ row.status = "TERMINATION_PENDING"
                             /\ row.terminationEffectiveDate # NoDate
                             /\ row.terminationEffectiveDate <= now

StartSweep ==
  /\ job = Idle
  /\ job' = [phase |-> 1, day |-> now, candidate |-> FALSE]
  /\ UNCHANGED <<now, row, periods, child, request>>

NextPhase ==
  IF job.phase = Len(Phases) THEN Idle
  ELSE [job EXCEPT !.phase = @ + 1, !.candidate = FALSE]

Discover ==
  /\ job.phase # 0
  /\ ~job.candidate
  /\ job' = IF Due(Phases[job.phase]) THEN [job EXCEPT !.candidate = TRUE]
            ELSE NextPhase
  /\ UNCHANGED <<now, row, periods, child, request>>

(* The transaction of a phase: next when what it reads still calls for it, *)
(* nothing otherwise.                                                      *)
Handle(phase, can, next) ==
  /\ job.candidate
  /\ Phases[job.phase] = phase
  /\ row' = IF can THEN next ELSE row
  /\ job' = NextPhase
  /\ UNCHANGED <<now, child, request>>

ActivateDue ==
  /\ Handle("activate", row.status = "SIGNED" /\ CanActivate(row),
            Activated(row, job.day))
  /\ UNCHANGED periods

(* The missed periods, up to CatchUp: the last one ends on or after the    *)
(* day.                                                                    *)
Missed == (job.day - row.endDate + Period - 1) \div Period

Turns == IF Missed < CatchUp THEN Missed ELSE CatchUp

(* Mutant: a contract under notice is renewed too.                         *)
RenewsUnlessEnded == row.status \in {"ACTIVE", "RENEWAL_DUE", "TERMINATION_PENDING"}

(* The state machine admits OPEN_RENEWAL, then RENEW_PERIOD.               *)
Renews == row.status \in {"ACTIVE", "RENEWAL_DUE"}

CanRenewTacit == row.renewalMode = "TACIT" /\ PastTerm(job.day) /\ Renews

(* Mutant: the new period begins on the last day of the one before.        *)
AddedOverlapping ==
  [n \in 1..Turns |-> [start |-> row.endDate + (n - 1) * Period,
                       end |-> row.endDate + n * Period]]

Added ==
  [n \in 1..Turns |-> [start |-> row.endDate + (n - 1) * Period + 1,
                       end |-> row.endDate + n * Period]]

RenewTacit ==
  /\ Handle("renew", CanRenewTacit,
            [row EXCEPT !.status = "ACTIVE", !.endDate = @ + Turns * Period])
  /\ periods' = IF CanRenewTacit THEN periods \o Added ELSE periods

(* The dates that made the contract a candidate are not read again.        *)
OpenExpressRenewal ==
  /\ Handle("open", row.status = "ACTIVE" /\ CanOpenRenewal(row), RenewalOpened(row))
  /\ UNCHANGED periods

(* Mutant: the sweep does not read the successor.                          *)
SuccessorForgotten == FALSE

HasSignedSuccessor ==
  row.successorContractId # NoContract /\ child[row.successorContractId].status = "signed"

ExpireDue ==
  /\ Handle("expire", CanExpire(row, job.day), Expired(row, HasSignedSuccessor))
  /\ UNCHANGED periods

CompleteTermination ==
  /\ Handle("complete", CanCompleteTermination(row, job.day), TerminationCompleted(row))
  /\ UNCHANGED periods

(* The worker dies; the sweep of the next day starts from the beginning.   *)
SweepDies ==
  /\ job # Idle
  /\ job' = Idle
  /\ UNCHANGED <<now, row, periods, child, request>>

-----------------------------------------------------------------------------
Transaction ==
  ActivateDue \/ RenewTacit \/ OpenExpressRenewal \/ ExpireDue \/ CompleteTermination

Next ==
  \/ Tick
  \/ \E start \in Day, end \in Day \union {NoDate}, mode \in Modes :
       ValidateImport(start, end, mode)
  \/ Cancel \/ RenewPeriod \/ CloseRenewal \/ WithdrawTermination
  \/ \E effective \in Day \union {TerminationDue}, overridden \in BOOLEAN :
       Terminate(effective, overridden)
  \/ \E d \in Successors : Renew(d) \/ RefuseRenewal(d)
  \/ \E d \in Amendments : Amend(d) \/ TerminateAmendment(d)
  \/ \E d \in Children :
       \/ SendChild(d) \/ RecallChild(d) \/ DeclineChild(d) \/ ReopenChild(d)
       \/ CancelChild(d) \/ CompleteChild(d)
  \/ StartSweep \/ Discover \/ Transaction \/ SweepDies

Spec == Init /\ [][Next]_lifecycleVars

(* The sweep runs every day: whatever kills some of them, again and again  *)
(* one runs to its end.  Nothing is assumed of users, signers, or the      *)
(* clock.                                                                  *)
SweepEnds == (Discover \/ Transaction) /\ job' = Idle

FairSpec == Spec /\ []<><<SweepEnds>>_lifecycleVars

-----------------------------------------------------------------------------
(* Type invariant.                                                         *)
TypeOK ==
  /\ now \in Day
  /\ row \in Row
  /\ periods \in Seq([start : Nat, end : Nat])
  /\ child \in [Children -> Child]
  /\ request \in [Successors -> {"none", "PENDING", "ACCEPTED", "REFUSED"}]
  /\ job \in [phase : 0..Len(Phases), day : 0..MaxDay, candidate : BOOLEAN]

(* An amendment may have changed the term.                                 *)
Amended == \E d \in Amendments : child[d].status \in {"signed", "CANCELLED", "TERMINATED"}

(* Unless an amendment may have changed the term, the periods of an        *)
(* imported contract follow one another without a gap or an overlap, from  *)
(* its start to its term, however many sweeps were missed and whoever      *)
(* renewed.                                                                *)
PeriodsCoverTerm ==
  periods # <<>> /\ ~Amended =>
    /\ periods[1].start = row.startDate
    /\ periods[Len(periods)].end = row.endDate
    /\ \A n \in 1..Len(periods) - 1 : periods[n + 1].start = periods[n].end + 1

(* A request that is pending or accepted is the one its parent points to;  *)
(* it is accepted as soon as its successor is signed.                      *)
RenewalLinked ==
  \A d \in Successors :
    /\ request[d] \in {"PENDING", "ACCEPTED"} => row.successorContractId = d
    /\ request[d] = "PENDING" => child[d].status # "signed"
    /\ request[d] = "ACCEPTED" => child[d].status \in {"signed", "CANCELLED"}

(* A renewal was signed and its request accepted.                          *)
Renewed == \E d \in Successors : request[d] = "ACCEPTED" /\ child[d].status = "signed"

(* A contract whose renewal was signed never expires: at its term it is    *)
(* RENEWED.                                                                *)
AcceptedRenewalCounts ==
  [][row'.status = "EXPIRED" /\ row.status # "EXPIRED" => ~Renewed]_lifecycleVars

(* A contract that renews itself tacitly does not expire: the sweep renews *)
(* it first, and the query of the expiry leaves it out.                    *)
TacitNeverExpires ==
  [][row.renewalMode = "TACIT" /\ row.status \in {"ACTIVE", "RENEWAL_DUE"}
       => row'.status # "EXPIRED"]_lifecycleVars

(* Once notice is given nothing moves the term, not even a sweep that had  *)
(* found the contract before.                                              *)
TerminationFreezesTerm ==
  [][row.status = "TERMINATION_PENDING"
       => row'.endDate = row.endDate /\ periods' = periods]_lifecycleVars

(* Every date is acted on in the end: a started contract is active, one    *)
(* past its term is renewed or closed, a termination whose day has come is *)
(* complete, unless somebody decides otherwise first.                      *)
SettledInTime ==
  /\ Due("activate") ~> ~Due("activate")
  /\ Due("renew")    ~> ~Due("renew")
  /\ (row.status \in {"ACTIVE", "RENEWAL_DUE"} /\ PastTerm(now))
       ~> ~(row.status \in {"ACTIVE", "RENEWAL_DUE"} /\ PastTerm(now))
  /\ Due("complete") ~> ~Due("complete")

(* A contract whose successor is signed takes no further period.           *)
RenewedNotProlonged == [][Renewed => periods' = periods]_lifecycleVars

(* Only the amendments that modify the term change it.                     *)
AmendmentKeepsTerm ==
  [][\A d \in Amendments :
       child[d].keepsTerm /\ child[d].out /\ child'[d].status = "signed"
         => row'.endDate = row.endDate]_lifecycleVars
=============================================================================
