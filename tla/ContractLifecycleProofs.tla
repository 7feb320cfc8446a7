---------------------- MODULE ContractLifecycleProofs ----------------------
(***************************************************************************)
(* Proofs about ContractLifecycle, for every number of days, successors    *)
(* and amendments, and every notice, period and catch-up.                  *)
(***************************************************************************)
EXTENDS ContractLifecycle, SequenceTheorems, TLAPS

LEMMA StatusList ==
  Statuses = {"DRAFT", "IN_REVIEW", "CHANGES_REQUESTED", "APPROVED",
              "SENT_TO_CLIENT", "IN_NEGOTIATION", "ACCEPTED", "PENDING_SIGNATURE",
              "PARTIALLY_SIGNED", "DECLINED", "SIGNATURE_EXPIRED", "SIGNED",
              "ACTIVE", "RENEWAL_DUE", "TERMINATION_PENDING", "EXPIRED",
              "IMPORTED_PENDING_VALIDATION", "TERMINATED", "RENEWED", "CANCELLED"}
  BY DEF Statuses, Transitions

(* From which statuses the matrix admits the events of this module.        *)
LEMMA EventSources ==
  ASSUME NEW c, c.status \in Statuses
  PROVE  /\ Admits(c, "VALIDATE_IMPORT") => c.status = "IMPORTED_PENDING_VALIDATION"
         /\ Admits(c, "RENEW_PERIOD") => c.status = "RENEWAL_DUE"
         /\ Admits(c, "CLOSE_RENEWAL") => c.status = "RENEWAL_DUE"
         /\ Admits(c, "EXPIRE") => c.status \in {"ACTIVE", "RENEWAL_DUE"}
         /\ Admits(c, "TERMINATE") => c.status \in {"SIGNED", "ACTIVE", "RENEWAL_DUE"}
         /\ Admits(c, "COMPLETE_TERMINATION") => c.status = "TERMINATION_PENDING"
         /\ Admits(c, "WITHDRAW_TERMINATION") => c.status = "TERMINATION_PENDING"
         /\ Admits(c, "CANCEL") =>
              c.status \notin {"SIGNED", "ACTIVE", "RENEWAL_DUE", "TERMINATION_PENDING"}
  BY StatusList DEF Admits, Transitions, Signing

LEMMA Product == \A a, b \in Nat : a * b \in Nat
  OBVIOUS

LEMMA Quotient == \A a \in Nat, b \in Nat \ {0} : a \div b \in Nat
  OBVIOUS

-----------------------------------------------------------------------------
(* The inductive invariant.  A cancelled child may keep a live submission, *)
(* and no other closed one may; nothing has happened to an import before   *)
(* its validation; and what made a contract a candidate of the sweep still *)
(* holds where its transaction does not read it again.                     *)

Outgoing == \A d \in Children : child[d].out => child[d].status \in {"sent", "CANCELLED"}

Unvalidated ==
  row.status = "IMPORTED_PENDING_VALIDATION" => row = Imported /\ periods = <<>>

Candidate ==
  job.candidate =>
    /\ job.phase # 0
    /\ row.status # "IMPORTED_PENDING_VALIDATION"
    /\ job.phase = 3 => row.renewalMode # "NONE"
    /\ job.phase = 4 => row.renewalMode # "TACIT"

(* A contract without a renewal is never in RENEWAL_DUE; one that has a    *)
(* renewal and a term has its periods, unless an amendment gave it a term. *)
Renewable ==
  /\ row.status = "RENEWAL_DUE" => row.renewalMode # "NONE"
  /\ row.renewalMode # "NONE" /\ row.endDate # NoDate /\ ~Amended => periods # <<>>

LifecycleInv ==
  TypeOK /\ RenewalLinked /\ PeriodsCoverTerm /\ Outgoing /\ Unvalidated /\ Candidate /\ Renewable

LEMMA LifecycleInit == Init => LifecycleInv
<1> SUFFICES ASSUME Init PROVE LifecycleInv
  OBVIOUS
<1> USE LifecycleAssumption DEF Init
<1>1. /\ row \in Row
      /\ row.status \in {"IMPORTED_PENDING_VALIDATION", "SIGNED"}
      /\ row.renewalMode = "NONE"
      /\ row.successorContractId = NoContract
  <2>1. CASE row = Imported
    BY <2>1, StatusList DEF Row, Imported, Modes, NoDate
  <2>2. ASSUME NEW start \in Day, NEW end \in Day \union {NoDate}, row = Signed(start, end)
        PROVE  /\ row \in Row
               /\ row.status \in {"IMPORTED_PENDING_VALIDATION", "SIGNED"}
               /\ row.renewalMode = "NONE"
               /\ row.successorContractId = NoContract
    <3>1. start \in Nat /\ end \in Nat
      BY DEF Day, NoDate
    <3> QED
      BY <2>2, <3>1, StatusList DEF Row, Signed, Imported, Modes, NoDate
  <2> QED
    BY <2>1, <2>2
<1>2. TypeOK
  <2>1. child \in [Children -> Child]
    BY DEF Child, NoDate
  <2>2. job \in [phase : 0..Len(Phases), day : 0..MaxDay, candidate : BOOLEAN]
    BY DEF Idle, Phases
  <2>3. periods \in Seq([start : Nat, end : Nat])
    OBVIOUS
  <2>4. now \in Day /\ request \in [Successors -> {"none", "PENDING", "ACCEPTED", "REFUSED"}]
    BY DEF Day
  <2> QED
    BY <1>1, <2>1, <2>2, <2>3, <2>4 DEF TypeOK
<1>3. RenewalLinked /\ PeriodsCoverTerm
  BY DEF RenewalLinked, PeriodsCoverTerm
<1>4. Outgoing /\ Candidate
  BY DEF Outgoing, Candidate, Idle
<1>5. Unvalidated
  BY DEF Unvalidated, Signed, Imported
<1>6. Renewable
  BY <1>1 DEF Renewable
<1> QED
  BY <1>2, <1>3, <1>4, <1>5, <1>6 DEF LifecycleInv

-----------------------------------------------------------------------------
(* A step that changes of the row at most its status and the day of the    *)
(* termination.                                                            *)
LEMMA StatusStep ==
  ASSUME LifecycleInv, UNCHANGED <<periods, child, request>>,
         now' \in Day, row' \in Row,
         row'.startDate = row.startDate, row'.endDate = row.endDate,
         row'.renewalMode = row.renewalMode,
         row'.successorContractId = row.successorContractId,
         row'.status = "IMPORTED_PENDING_VALIDATION" => row' = row,
         row'.status = "RENEWAL_DUE" => row.renewalMode # "NONE",
         job' \in [phase : 0..Len(Phases), day : 0..MaxDay, candidate : BOOLEAN],
         job'.candidate => job' = job /\ (row.status = row'.status
                                          \/ row'.status # "IMPORTED_PENDING_VALIDATION")
  PROVE  LifecycleInv'
<1> USE DEF LifecycleInv
<1>1. TypeOK' /\ RenewalLinked' /\ Outgoing'
  BY DEF TypeOK, RenewalLinked, Outgoing
<1>2. Amended' <=> Amended
  BY DEF Amended
<1>3. PeriodsCoverTerm' /\ Renewable'
  BY <1>2 DEF PeriodsCoverTerm, Renewable
<1>4. Unvalidated' /\ Candidate'
  BY DEF Unvalidated, Candidate
<1> QED
  BY <1>1, <1>3, <1>4

(* The next phase of a sweep has no candidate yet.                         *)
LEMMA NextPhaseType ==
  ASSUME TypeOK
  PROVE  /\ NextPhase \in [phase : 0..Len(Phases), day : 0..MaxDay, candidate : BOOLEAN]
         /\ ~NextPhase.candidate
<1>0. Len(Phases) = 5 /\ MaxDay \in Nat
      /\ job \in [phase : 0..5, day : 0..MaxDay, candidate : BOOLEAN]
  BY LifecycleAssumption DEF TypeOK, Phases
<1>1. CASE job.phase = 5
  BY <1>0, <1>1 DEF NextPhase, Idle
<1>2. CASE job.phase # 5
  <2>1. job.phase + 1 \in 0..5
    BY <1>0, <1>2
  <2> QED
    BY <1>0, <1>2, <2>1 DEF NextPhase
<1> QED
  BY <1>1, <1>2

(* A step of the clock or of the sweep that touches no contract.           *)
LEMMA JobStep ==
  ASSUME LifecycleInv, Tick \/ StartSweep \/ Discover \/ SweepDies
  PROVE  LifecycleInv'
<1> USE LifecycleAssumption DEF LifecycleInv
<1> DEFINE Job == [phase : 0..Len(Phases), day : 0..MaxDay, candidate : BOOLEAN]
<1>0. Len(Phases) = 5 /\ job \in Job /\ now \in Day /\ row \in Row
  BY DEF TypeOK, Phases
<1>1. UNCHANGED <<row, periods, child, request>> /\ now' \in Day
  BY <1>0 DEF Tick, StartSweep, Discover, SweepDies, Day
<1>2. job' \in Job
  <2>1. Idle \in Job /\ now \in 0..MaxDay /\ job.day \in 0..MaxDay
    BY <1>0 DEF Idle, Day
  <2>2. [job EXCEPT !.candidate = TRUE] \in Job
    BY <1>0
  <2>3. NextPhase \in Job
    BY NextPhaseType
  <2>4. [phase |-> 1, day |-> now, candidate |-> FALSE] \in Job
    BY <2>1, <1>0
  <2> QED
    BY <2>1, <2>2, <2>3, <2>4, <1>0 DEF Tick, StartSweep, Discover, SweepDies
<1>3. Amended' <=> Amended
  BY <1>1 DEF Amended
<1>4. /\ TypeOK' /\ RenewalLinked' /\ Outgoing'
      /\ PeriodsCoverTerm' /\ Renewable' /\ Unvalidated'
  BY <1>1, <1>2, <1>3 DEF TypeOK, RenewalLinked, Outgoing, PeriodsCoverTerm, Renewable, Unvalidated
<1>5. Candidate'
  <2>1. CASE Tick
    BY <2>1 DEF Candidate, Tick
  <2>2. CASE StartSweep \/ SweepDies
    BY <2>2 DEF Candidate, StartSweep, SweepDies, Idle
  <2>3. CASE Discover
    <3>1. CASE Due(Phases[job.phase])
      <4>1. job'.phase = job.phase /\ job.phase # 0
        BY <3>1, <2>3, <1>0 DEF Discover
      <4>2. /\ row.status # "IMPORTED_PENDING_VALIDATION"
            /\ job.phase = 3 => row.renewalMode # "NONE"
            /\ job.phase = 4 => row.renewalMode # "TACIT"
        <5>1. job.phase \in 1..5
          BY <2>3, <1>0 DEF Discover
        <5>2. CASE job.phase = 1
          BY <5>2, <3>1 DEF Due, Phases
        <5>3. CASE job.phase = 2
          BY <5>3, <3>1 DEF Due, Phases
        <5>4. CASE job.phase = 3
          BY <5>4, <3>1 DEF Due, Phases
        <5>5. CASE job.phase = 4
          BY <5>5, <3>1 DEF Due, Phases, MayExpire
        <5>6. CASE job.phase = 5
          BY <5>6, <3>1 DEF Due, Phases
        <5> QED
          BY <5>1, <5>2, <5>3, <5>4, <5>5, <5>6
      <4> QED
        BY <4>1, <4>2, <1>1 DEF Candidate
    <3>2. CASE ~Due(Phases[job.phase])
      BY <3>2, <2>3, <1>0 DEF Candidate, Discover, NextPhase, Idle
    <3> QED
      BY <3>1, <3>2
  <2> QED
    BY <2>1, <2>2, <2>3
<1> QED
  BY <1>4, <1>5

(* When a termination may take effect is a day.                            *)
LEMMA TerminationDueType ==
  ASSUME TypeOK
  PROVE  TerminationDue \in Nat
<1>1. now \in Nat /\ row.endDate \in Nat /\ Notice \in Nat /\ Period \in Nat
  BY LifecycleAssumption DEF TypeOK, Row, Day
<1>2. CASE row.endDate = NoDate
  BY <1>1, <1>2 DEF TerminationDue
<1>3. CASE row.endDate # NoDate /\ NoticeMissed /\ row.renewalMode = "TACIT"
  BY <1>1, <1>3 DEF TerminationDue, NextPeriodEnd
<1>4. CASE row.endDate # NoDate /\ ~(NoticeMissed /\ row.renewalMode = "TACIT")
  BY <1>1, <1>4 DEF TerminationDue
<1> QED
  BY <1>2, <1>3, <1>4

(* The desk's operations that leave the term alone.                        *)
LEMMA DeskStep ==
  ASSUME LifecycleInv,
         \/ Cancel \/ CloseRenewal \/ WithdrawTermination
         \/ \E effective \in Day \union {TerminationDue}, overridden \in BOOLEAN :
              Terminate(effective, overridden)
  PROVE  LifecycleInv'
<1>0. TypeOK /\ row \in Row /\ row.status \in Statuses /\ NoDate \in Nat
  BY DEF LifecycleInv, TypeOK, Row, NoDate
<1>1. UNCHANGED <<now, periods, child, request, job>> /\ now \in Day
      /\ job \in [phase : 0..Len(Phases), day : 0..MaxDay, candidate : BOOLEAN]
  BY <1>0 DEF Cancel, CloseRenewal, WithdrawTermination, Terminate, Desk, TypeOK
<1>2. CASE Cancel
  <2>1. row' = [row EXCEPT !.status = "CANCELLED"]
    BY <1>2 DEF Cancel, Desk, Cancelled
  <2>2. row' \in Row
    BY <2>1, <1>0, StatusList DEF Row
  <2> QED
    BY <2>1, <2>2, <1>0, <1>1, StatusStep DEF Row
<1>3. CASE CloseRenewal
  <2>1. row' = [row EXCEPT !.status = "ACTIVE"]
    BY <1>3 DEF CloseRenewal, Desk, RenewalClosed
  <2>2. row' \in Row
    BY <2>1, <1>0, StatusList DEF Row
  <2> QED
    BY <2>1, <2>2, <1>0, <1>1, StatusStep DEF Row
<1>4. CASE WithdrawTermination
  <2>1. row' = [row EXCEPT !.status = "ACTIVE", !.terminationEffectiveDate = NoDate]
    BY <1>4 DEF WithdrawTermination, Desk, TerminationWithdrawn
  <2>2. row' \in Row
    BY <2>1, <1>0, StatusList DEF Row
  <2> QED
    BY <2>1, <2>2, <1>0, <1>1, StatusStep DEF Row
<1>5. ASSUME NEW effective \in Day \union {TerminationDue}, NEW overridden \in BOOLEAN,
             Terminate(effective, overridden)
      PROVE  LifecycleInv'
  <2>0. effective \in Nat
    BY <1>0, TerminationDueType DEF Day
  <2>1. PICK s \in {"TERMINATED", "TERMINATION_PENDING"} :
          row' = [row EXCEPT !.status = s, !.terminationEffectiveDate = effective]
    BY <1>5 DEF Terminate, Desk, Terminated
  <2>2. row' \in Row
    BY <2>0, <2>1, <1>0, StatusList DEF Row
  <2> QED
    BY <2>1, <2>2, <1>0, <1>1, StatusStep DEF Row
<1> QED
  BY <1>2, <1>3, <1>4, <1>5

(* The transactions of the sweep that leave the term alone.                *)
LEMMA SweepStep ==
  ASSUME LifecycleInv,
         ActivateDue \/ OpenExpressRenewal \/ ExpireDue \/ CompleteTermination
  PROVE  LifecycleInv'
<1>0. TypeOK /\ row \in Row /\ row.status \in Statuses
  BY DEF LifecycleInv, TypeOK, Row
<1>1. UNCHANGED <<now, periods, child, request>> /\ now \in Day
      /\ job' = NextPhase /\ job.candidate
  BY <1>0 DEF ActivateDue, OpenExpressRenewal, ExpireDue, CompleteTermination, Handle, TypeOK
<1>2. job' \in [phase : 0..Len(Phases), day : 0..MaxDay, candidate : BOOLEAN]
      /\ ~job'.candidate
  BY <1>0, <1>1, NextPhaseType
<1>3. row.status = "RENEWAL_DUE" => row.renewalMode # "NONE"
  BY DEF LifecycleInv, Renewable
<1>4. CASE row' = row
  BY <1>4, <1>0, <1>1, <1>2, <1>3, StatusStep
<1>5. ASSUME NEW s \in {"ACTIVE", "RENEWED", "EXPIRED", "TERMINATED"},
             row' = [row EXCEPT !.status = s]
      PROVE  LifecycleInv'
  <2>1. row' \in Row
    BY <1>5, <1>0, StatusList DEF Row
  <2> QED
    BY <2>1, <1>5, <1>0, <1>1, <1>2, StatusStep DEF Row
<1>6. CASE ActivateDue
  BY <1>4, <1>5, <1>6 DEF ActivateDue, Handle, Activated
<1>7. CASE OpenExpressRenewal
  <2>1. row.renewalMode # "NONE"
    <3>0. job.phase \in 1..5
      BY <1>0, <1>1 DEF LifecycleInv, Candidate, TypeOK, Phases
    <3>1. job.phase = 3
      BY <3>0, <1>7 DEF OpenExpressRenewal, Handle, Phases
    <3> QED
      BY <3>1, <1>1 DEF LifecycleInv, Candidate
  <2>2. CASE row' = [row EXCEPT !.status = "RENEWAL_DUE"]
    <3>1. row' \in Row
      BY <2>2, <1>0, StatusList DEF Row
    <3> QED
      BY <3>1, <2>1, <2>2, <1>0, <1>1, <1>2, StatusStep DEF Row
  <2> QED
    BY <2>2, <1>4, <1>7 DEF OpenExpressRenewal, Handle, RenewalOpened
<1>8. CASE ExpireDue
  BY <1>4, <1>5, <1>8 DEF ExpireDue, Handle, Expired
<1>9. CASE CompleteTermination
  BY <1>4, <1>5, <1>9 DEF CompleteTermination, Handle, TerminationCompleted
<1> QED
  BY <1>6, <1>7, <1>8, <1>9

-----------------------------------------------------------------------------
(* Whether an amendment may have changed the term is never forgotten.      *)
LEMMA AmendedStays ==
  ASSUME \A d \in Amendments :
           child[d].status \in {"signed", "CANCELLED", "TERMINATED"} =>
             child'[d].status \in {"signed", "CANCELLED", "TERMINATED"}
  PROVE  Amended => Amended'
  BY DEF Amended

(* The steps of a child that do not sign it.                               *)
LEMMA ChildStep ==
  ASSUME LifecycleInv, NEW d \in Children, NEW next \in Child,
         child' = [child EXCEPT ![d] = next],
         UNCHANGED <<now, row, periods, request, job>>,
         next.status # "signed",
         next.out => next.status \in {"sent", "CANCELLED"},
         child[d].status = "signed" => next.status = "TERMINATED" /\ d \in Amendments,
         child[d].status \notin {"CANCELLED", "TERMINATED"}
  PROVE  LifecycleInv'
<1> USE DEF LifecycleInv
<1>0. /\ child \in [Children -> Child] /\ child'[d] = next
      /\ \A q \in Children \ {d} : child'[q] = child[q]
  BY DEF TypeOK
<1>1. TypeOK' /\ Outgoing'
  BY <1>0 DEF TypeOK, Outgoing
<1>2. RenewalLinked'
  <2> SUFFICES ASSUME NEW q \in Successors
               PROVE  /\ request[q] \in {"PENDING", "ACCEPTED"} => row.successorContractId = q
                      /\ request[q] = "PENDING" => child'[q].status # "signed"
                      /\ request[q] = "ACCEPTED" => child'[q].status \in {"signed", "CANCELLED"}
    BY DEF RenewalLinked
  <2>1. q \in Children /\ q \notin Amendments
    BY LifecycleAssumption DEF Children
  <2>2. CASE q # d
    BY <2>1, <2>2, <1>0 DEF RenewalLinked
  <2>3. CASE q = d
    BY <2>1, <2>3, <1>0 DEF RenewalLinked
  <2> QED
    BY <2>2, <2>3
<1>3. Amended => Amended'
  <2>1. \A q \in Amendments : q \in Children
    BY DEF Children
  <2> QED
    BY <2>1, <1>0, AmendedStays
<1>4. PeriodsCoverTerm' /\ Renewable'
  BY <1>3 DEF PeriodsCoverTerm, Renewable
<1>5. Unvalidated' /\ Candidate'
  BY DEF Unvalidated, Candidate
<1> QED
  BY <1>1, <1>2, <1>4, <1>5

LEMMA ChildrenStep ==
  ASSUME LifecycleInv,
         \/ \E d \in Amendments : Amend(d) \/ TerminateAmendment(d)
         \/ \E d \in Children :
              \/ SendChild(d) \/ RecallChild(d) \/ DeclineChild(d)
              \/ ReopenChild(d) \/ CancelChild(d)
  PROVE  LifecycleInv'
<1>0. /\ child \in [Children -> Child] /\ row \in Row /\ Amendments \subseteq Children
      /\ \A d \in Children : child[d].status \in
           {"none", "open", "sent", "signed", "DECLINED", "CANCELLED", "TERMINATED"}
  BY DEF LifecycleInv, TypeOK, Child, Children
<1>1. ASSUME NEW d \in Amendments, Amend(d)
      PROVE  LifecycleInv'
  <2>1. PICK end \in Nat, keeps \in BOOLEAN : Draft(d, end, keeps)
    <3>1. row.endDate \in Nat /\ Day \subseteq Nat
      BY <1>0 DEF Row, Day
    <3> QED
      BY <1>1, <3>1 DEF Amend
  <2> DEFINE next == [status |-> "open", out |-> FALSE, endDate |-> end, keepsTerm |-> keeps]
  <2>2. next \in Child
    BY DEF Child
  <2>3. UNCHANGED <<now, row, periods, request, job>>
    BY <1>1 DEF Amend
  <2>4. child[d].status = "none" /\ child' = [child EXCEPT ![d] = next]
    BY <2>1 DEF Draft
  <2> QED
    BY <2>2, <2>3, <2>4, <1>0, ChildStep
<1>2. ASSUME NEW d \in Children, NEW from, NEW s, NEW out \in BOOLEAN,
             ChildTo(d, from, s, out),
             \/ s \in {"sent", "CANCELLED"} /\ from \subseteq {"open", "sent", "DECLINED"}
             \/ s \in {"open", "DECLINED"} /\ ~out /\ from \subseteq {"open", "sent", "DECLINED"}
             \/ s = "TERMINATED" /\ ~out /\ from = {"signed"} /\ d \in Amendments
      PROVE  LifecycleInv'
  <2> DEFINE next == [child[d] EXCEPT !.status = s, !.out = out]
  <2>1. child[d] \in Child
    BY <1>0
  <2>2. next \in Child /\ next.status = s /\ next.out = out
    BY <2>1, <1>2 DEF Child
  <2>3. child[d].status \in from /\ UNCHANGED <<now, row, periods, request, job>>
    BY <1>2 DEF ChildTo
  <2>4. child' = [child EXCEPT ![d] = next]
    BY <1>0, <1>2 DEF ChildTo
  <2> HIDE DEF next
  <2> QED
    BY <2>2, <2>3, <2>4, <1>2, ChildStep
<1>3. ASSUME NEW d \in Amendments, TerminateAmendment(d)
      PROVE  LifecycleInv'
  BY <1>3, <1>2, <1>0 DEF TerminateAmendment
<1>4. ASSUME NEW d \in Children, SendChild(d) \/ RecallChild(d) \/ DeclineChild(d) \/ ReopenChild(d)
      PROVE  LifecycleInv'
  BY <1>4, <1>2 DEF SendChild, RecallChild, DeclineChild, ReopenChild
<1>5. ASSUME NEW d \in Children, CancelChild(d)
      PROVE  LifecycleInv'
  <2>1. child[d].out \in BOOLEAN
    BY <1>0 DEF Child
  <2> QED
    BY <2>1, <1>5, <1>2 DEF CancelChild
<1> QED
  BY <1>1, <1>3, <1>4, <1>5

(* The end of the submission of a child.                                   *)
LEMMA CompleteStep ==
  ASSUME LifecycleInv, NEW d \in Children, CompleteChild(d)
  PROVE  LifecycleInv'
<1> USE DEF LifecycleInv
<1> DEFINE next == [child[d] EXCEPT !.out = FALSE,
                                    !.status = IF @ = "sent" THEN "signed" ELSE @]
<1>0. /\ child \in [Children -> Child] /\ child[d] \in Child /\ row \in Row
      /\ request \in [Successors -> {"none", "PENDING", "ACCEPTED", "REFUSED"}]
  BY DEF TypeOK
<1>1. child[d].status \in {"sent", "CANCELLED"} /\ UNCHANGED <<now, periods, job>>
  BY DEF CompleteChild, Outgoing
<1>2. /\ child' = [child EXCEPT ![d] = next] /\ next \in Child /\ next.out = FALSE
      /\ next.status \in {"signed", "CANCELLED"}
  BY <1>0, <1>1 DEF CompleteChild, Child
<1> HIDE DEF next
<1>3. /\ child' \in [Children -> Child] /\ child'[d] = next
      /\ \A q \in Children \ {d} : child'[q] = child[q]
  BY <1>0, <1>2
<1>4. /\ row' \in Row
      /\ row' = row \/ (/\ d \in Amendments /\ row.status \in {"ACTIVE", "SIGNED"}
                        /\ \E end \in Nat : row' = [row EXCEPT !.endDate = end])
  <2>1. child[d].endDate \in Nat
    BY <1>0 DEF Child
  <2> QED
    BY <2>1, <1>0 DEF CompleteChild, Row
<1>5. TypeOK'
  BY <1>0, <1>1, <1>3, <1>4 DEF TypeOK, CompleteChild
<1>6. Outgoing'
  BY <1>2, <1>3 DEF Outgoing
<1>7. RenewalLinked'
  <2> SUFFICES ASSUME NEW q \in Successors
               PROVE  /\ request'[q] \in {"PENDING", "ACCEPTED"} => row'.successorContractId = q
                      /\ request'[q] = "PENDING" => child'[q].status # "signed"
                      /\ request'[q] = "ACCEPTED" => child'[q].status \in {"signed", "CANCELLED"}
    BY DEF RenewalLinked
  <2>1. q \in Children /\ row'.successorContractId = row.successorContractId
    BY <1>0, <1>4 DEF Children, Row
  <2>2. CASE q # d
    BY <2>1, <2>2, <1>0, <1>3 DEF RenewalLinked, CompleteChild
  <2>3. CASE q = d
    BY <2>1, <2>3, <1>0, <1>2, <1>3 DEF RenewalLinked, CompleteChild
  <2> QED
    BY <2>2, <2>3
<1>8. /\ Amended => Amended'
      /\ d \in Amendments => Amended'
  <2>1. \A q \in Amendments : q \in Children
    BY DEF Children
  <2>2. Amended => Amended'
    BY <2>1, <1>2, <1>3, AmendedStays
  <2> QED
    BY <2>2, <1>2, <1>3 DEF Amended
<1>9. PeriodsCoverTerm' /\ Renewable'
  <2>1. CASE row' = row
    BY <2>1, <1>1, <1>8 DEF PeriodsCoverTerm, Renewable
  <2>2. CASE row' # row
    BY <2>2, <1>0, <1>4, <1>8 DEF PeriodsCoverTerm, Renewable, Row
  <2> QED
    BY <2>1, <2>2
<1>10. Unvalidated' /\ Candidate'
  BY <1>0, <1>1, <1>4 DEF Unvalidated, Candidate, Row
<1> QED
  BY <1>5, <1>6, <1>7, <1>9, <1>10

(* A step that only changes the link to the successor, and its request.    *)
LEMMA LinkStep ==
  ASSUME LifecycleInv, NEW s \in Successors \union {NoContract},
         row' = [row EXCEPT !.successorContractId = s],
         row.status # "IMPORTED_PENDING_VALIDATION",
         UNCHANGED <<now, periods, job>>,
         child' \in [Children -> Child],
         request' \in [Successors -> {"none", "PENDING", "ACCEPTED", "REFUSED"}],
         \A d \in Amendments : child'[d] = child[d],
         Outgoing', RenewalLinked'
  PROVE  LifecycleInv'
<1> USE DEF LifecycleInv
<1>0. row \in Row /\ row' \in Row
  BY DEF TypeOK, Row
<1>1. TypeOK'
  BY <1>0 DEF TypeOK
<1>2. Amended => Amended'
  BY DEF Amended
<1>3. PeriodsCoverTerm' /\ Renewable'
  BY <1>0, <1>2 DEF PeriodsCoverTerm, Renewable, Row
<1>4. Unvalidated' /\ Candidate'
  BY <1>0 DEF Unvalidated, Candidate, Row
<1> QED
  BY <1>1, <1>3, <1>4

LEMMA RenewalStep ==
  ASSUME LifecycleInv, NEW d \in Successors, Renew(d) \/ RefuseRenewal(d)
  PROVE  LifecycleInv'
<1>0. /\ TypeOK /\ RenewalLinked /\ Outgoing /\ Unvalidated
      /\ child \in [Children -> Child] /\ d \in Children /\ d # NoContract
      /\ d \notin Amendments /\ row \in Row /\ Successors \subseteq Children
      /\ request \in [Successors -> {"none", "PENDING", "ACCEPTED", "REFUSED"}]
  BY LifecycleAssumption DEF LifecycleInv, TypeOK, Children
<1>1. CASE Renew(d)
  <2> DEFINE next == [status |-> "open", out |-> FALSE, endDate |-> NoDate, keepsTerm |-> FALSE]
  <2>1. /\ row.successorContractId = NoContract /\ row.status # "IMPORTED_PENDING_VALIDATION"
        /\ child[d].status = "none" /\ child' = [child EXCEPT ![d] = next]
        /\ row' = [row EXCEPT !.successorContractId = d]
        /\ request' = [request EXCEPT ![d] = "PENDING"]
        /\ UNCHANGED <<now, periods, job>>
    BY <1>1 DEF Renew, CanRenew, NoSuccessor, Draft
  <2>2. next \in Child
    BY DEF Child, NoDate
  <2>3. child' \in [Children -> Child] /\ \A q \in Amendments : child'[q] = child[q]
    BY <2>1, <2>2, <1>0 DEF Children
  <2>4. Outgoing'
    BY <2>1, <1>0 DEF Outgoing
  <2>5. row'.successorContractId = d
    BY <2>1, <1>0 DEF Row
  <2>6. \A q \in Successors \ {d} : request'[q] \notin {"PENDING", "ACCEPTED"}
    <3>1. \A q \in Successors : request[q] \notin {"PENDING", "ACCEPTED"}
      BY <2>1, LifecycleAssumption, <1>0 DEF RenewalLinked
    <3> QED
      BY <3>1, <2>1, <1>0
  <2>7. request'[d] = "PENDING" /\ child'[d].status = "open"
    BY <2>1, <1>0
  <2>8. RenewalLinked'
    BY <2>5, <2>6, <2>7 DEF RenewalLinked
  <2>9. request' \in [Successors -> {"none", "PENDING", "ACCEPTED", "REFUSED"}]
    BY <2>1, <1>0
  <2> QED
    BY <2>1, <2>3, <2>4, <2>8, <2>9, LinkStep
<1>2. CASE RefuseRenewal(d)
  <2>1. /\ request[d] = "PENDING"
        /\ row' = [row EXCEPT !.successorContractId = NoContract]
        /\ request' = [request EXCEPT ![d] = "REFUSED"]
        /\ UNCHANGED <<now, periods, child, job>>
    BY <1>2 DEF RefuseRenewal, Unlinked
  <2>2. row.successorContractId = d
    BY <2>1, <1>0 DEF RenewalLinked
  <2>3. row.status # "IMPORTED_PENDING_VALIDATION"
    BY <2>2, <1>0 DEF Unvalidated, Imported
  <2>4. \A q \in Successors : request'[q] \notin {"PENDING", "ACCEPTED"}
    BY <2>1, <2>2, <1>0 DEF RenewalLinked
  <2>5. RenewalLinked' /\ Outgoing'
    BY <2>1, <2>4, <1>0 DEF RenewalLinked, Outgoing
  <2>6. request' \in [Successors -> {"none", "PENDING", "ACCEPTED", "REFUSED"}]
    BY <2>1, <1>0
  <2> QED
    BY <2>1, <2>3, <2>5, <2>6, <1>0, LinkStep
<1> QED
  BY <1>1, <1>2

-----------------------------------------------------------------------------
Span == [start : Nat, end : Nat]

(* A sequence of periods that follow one another.                          *)
Consecutive(ps) == \A n \in 1..Len(ps) - 1 : ps[n + 1].start = ps[n].end + 1

(* The k periods that follow the day e.                                    *)
Following(e, k) ==
  [n \in 1..k |-> [start |-> e + (n - 1) * Period + 1, end |-> e + n * Period]]

LEMMA FollowingType ==
  ASSUME NEW k \in Nat, NEW e \in Nat
  PROVE  /\ Following(e, k) \in Seq(Span)
         /\ Len(Following(e, k)) = k
         /\ \A n \in 1..k : /\ Following(e, k)[n].start = e + (n - 1) * Period + 1
                            /\ Following(e, k)[n].end = e + n * Period
<1>0. Period \in Nat
  BY LifecycleAssumption
<1>1. \A n \in 1..k : e + (n - 1) * Period + 1 \in Nat /\ e + n * Period \in Nat
  <2> SUFFICES ASSUME NEW n \in 1..k
               PROVE  e + (n - 1) * Period + 1 \in Nat /\ e + n * Period \in Nat
    OBVIOUS
  <2>1. n \in Nat /\ n - 1 \in Nat
    OBVIOUS
  <2>2. (n - 1) * Period \in Nat /\ n * Period \in Nat
    BY <2>1, <1>0, Product
  <2> QED
    BY <2>2
<1>2. \A n \in 1..k : Following(e, k)[n] \in Span
  BY <1>1 DEF Span, Following
<1>3. Following(e, k) \in Seq(Span) /\ Len(Following(e, k)) = k
  BY <1>2 DEF Following
<1> QED
  BY <1>3 DEF Following

(* Adding k periods to such a sequence gives another, whose end is k       *)
(* periods later.                                                          *)
LEMMA PeriodsAdded ==
  ASSUME NEW ps \in Seq(Span), NEW k \in Nat, NEW e \in Nat,
         ps # <<>>, ps[Len(ps)].end = e, Consecutive(ps)
  PROVE  /\ ps \o Following(e, k) # <<>>
         /\ (ps \o Following(e, k))[1] = ps[1]
         /\ (ps \o Following(e, k))[Len(ps \o Following(e, k))].end = e + k * Period
         /\ Consecutive(ps \o Following(e, k))
<1>0. Period \in Nat
  BY LifecycleAssumption
<1> DEFINE added == Following(e, k)
<1> DEFINE all == ps \o added
<1>2. /\ added \in Seq(Span) /\ Len(added) = k
      /\ \A n \in 1..k : /\ added[n].start = e + (n - 1) * Period + 1
                         /\ added[n].end = e + n * Period
  BY FollowingType
<1> HIDE DEF added
<1>3. /\ all \in Seq(Span) /\ Len(all) = Len(ps) + k /\ Len(ps) \in Nat
      /\ \A n \in 1..Len(ps) : all[n] = ps[n]
      /\ \A n \in Len(ps) + 1..Len(ps) + k : all[n] = added[n - Len(ps)]
  <2>1. added \in Seq(Span) /\ Len(added) = k
    BY <1>2
  <2>2. Len(ps) \in Nat
    OBVIOUS
  <2>3. /\ all \in Seq(Span) /\ Len(all) = Len(ps) + k
        /\ \A n \in 1..Len(ps) + k :
             all[n] = IF n <= Len(ps) THEN ps[n] ELSE added[n - Len(ps)]
    BY <2>1, ConcatProperties
  <2> HIDE DEF all
  <2> QED
    BY <2>2, <2>3
<1>4. Len(ps) \in Nat \ {0}
  BY <1>3
<1>5. all # <<>> /\ all[1] = ps[1]
  BY <1>3, <1>4
<1> HIDE DEF all
<1>6. all[Len(all)].end = e + k * Period
  <2>1. CASE k = 0
    <3>1. e + k * Period = e
      BY <2>1, <1>0
    <3> QED
      BY <2>1, <3>1, <1>3, <1>4
  <2>2. CASE k # 0
    <3>0. Len(all) \in Len(ps) + 1..Len(ps) + k /\ Len(all) - Len(ps) = k
      BY <2>2, <1>3, <1>4
    <3>1. all[Len(all)] = added[k]
      BY <3>0, <1>3
    <3> QED
      BY <2>2, <3>1, <1>2
  <2> QED
    BY <2>1, <2>2
<1>7. Consecutive(all)
  <2> SUFFICES ASSUME NEW n \in 1..Len(all) - 1
               PROVE  all[n + 1].start = all[n].end + 1
    BY DEF Consecutive
  <2>1. CASE n < Len(ps)
    <3>1. n \in 1..Len(ps) - 1 /\ all[n] = ps[n] /\ all[n + 1] = ps[n + 1]
      BY <2>1, <1>3, <1>4
    <3> QED
      BY <3>1 DEF Consecutive
  <2>2. CASE n = Len(ps)
    <3>1. all[n] = ps[n] /\ all[n + 1] = added[1] /\ k # 0
      BY <2>2, <1>3, <1>4
    <3>2. added[1].start = e + (1 - 1) * Period + 1
      BY <3>1, <1>2
    <3>3. (1 - 1) * Period = 0
      BY <1>0
    <3> QED
      BY <2>2, <3>1, <3>2, <3>3
  <2>3. CASE n > Len(ps)
    <3> DEFINE m == n - Len(ps)
    <3>0. /\ m \in 1..k /\ m + 1 \in 1..k
          /\ n \in Len(ps) + 1..Len(ps) + k /\ n + 1 \in Len(ps) + 1..Len(ps) + k
          /\ (n + 1) - Len(ps) = m + 1
      BY <2>3, <1>3, <1>4
    <3>1. m \in 1..k /\ m + 1 \in 1..k /\ all[n] = added[m] /\ all[n + 1] = added[m + 1]
      BY <3>0, <1>3
    <3>2. (m + 1) - 1 = m
      BY <3>1
    <3>3. added[m + 1].start = e + m * Period + 1
      BY <3>1, <3>2, <1>2
    <3>4. added[m].end = e + m * Period
      BY <3>1, <1>2
    <3> QED
      BY <3>1, <3>3, <3>4
  <2> QED
    BY <2>1, <2>2, <2>3, <1>3, <1>4
<1> QED
  BY <1>5, <1>6, <1>7 DEF all, added

(* A step that changes the term and the periods.                           *)
LEMMA TermStep ==
  ASSUME LifecycleInv, UNCHANGED <<now, child, request>>,
         row' \in Row, row'.successorContractId = row.successorContractId,
         row'.status \notin {"IMPORTED_PENDING_VALIDATION", "RENEWAL_DUE"},
         periods' \in Seq(Span),
         job' \in [phase : 0..Len(Phases), day : 0..MaxDay, candidate : BOOLEAN],
         job'.candidate => job' = job /\ row'.renewalMode = row.renewalMode,
         periods' # <<>> /\ ~Amended =>
           /\ periods'[1].start = row'.startDate
           /\ periods'[Len(periods')].end = row'.endDate
           /\ Consecutive(periods'),
         row'.renewalMode # "NONE" /\ row'.endDate # NoDate /\ ~Amended => periods' # <<>>
  PROVE  LifecycleInv'
<1> USE DEF LifecycleInv
<1>1. TypeOK' /\ RenewalLinked' /\ Outgoing'
  BY DEF TypeOK, RenewalLinked, Outgoing, Span
<1>2. Amended' <=> Amended
  BY DEF Amended
<1>3. PeriodsCoverTerm' /\ Renewable'
  BY <1>2 DEF PeriodsCoverTerm, Renewable, Consecutive
<1>4. Unvalidated' /\ Candidate'
  BY DEF Unvalidated, Candidate
<1> QED
  BY <1>1, <1>3, <1>4

LEMMA ImportStep ==
  ASSUME LifecycleInv, NEW start \in Day, NEW end \in Day \union {NoDate}, NEW mode \in Modes,
         ValidateImport(start, end, mode)
  PROVE  LifecycleInv'
<1> DEFINE c == [row EXCEPT !.startDate = start, !.endDate = end, !.renewalMode = mode]
<1>0. /\ row \in Row /\ start \in Nat /\ end \in Nat /\ now \in Nat
      /\ job \in [phase : 0..Len(Phases), day : 0..MaxDay, candidate : BOOLEAN]
  BY DEF LifecycleInv, TypeOK, Day, NoDate
<1>1. /\ c \in Row /\ c.status = row.status /\ c.startDate = start /\ c.endDate = end
      /\ c.renewalMode = mode /\ c.successorContractId = row.successorContractId
  BY <1>0 DEF Row
<1> HIDE DEF c
<1>2. /\ Admits(c, "VALIDATE_IMPORT") /\ row' = ImportValidated(c, now)
      /\ UNCHANGED <<now, child, request, job>>
      /\ periods' = IF end = NoDate THEN periods ELSE <<[start |-> start, end |-> end]>>
  BY DEF ValidateImport, Desk, CanValidateImport, c
<1>3. PICK s \in {"EXPIRED", "SIGNED", "ACTIVE"} : row' = [c EXCEPT !.status = s]
  BY <1>2 DEF ImportValidated
<1>4. /\ row' \in Row /\ row'.status = s /\ row'.startDate = start /\ row'.endDate = end
      /\ row'.successorContractId = row.successorContractId
  BY <1>1, <1>3, StatusList DEF Row
<1>5. row.status = "IMPORTED_PENDING_VALIDATION"
  BY <1>0, <1>1, <1>2, EventSources DEF Row
<1>6. periods = <<>> /\ ~job.candidate
  BY <1>5 DEF LifecycleInv, Unvalidated, Candidate
<1>7. periods' \in Seq(Span)
  <2>1. [start |-> start, end |-> end] \in Span
    BY <1>0 DEF Span
  <2>2. <<[start |-> start, end |-> end]>> \in Seq(Span)
    BY <2>1
  <2>3. <<>> \in Seq(Span)
    OBVIOUS
  <2> QED
    BY <2>2, <2>3, <1>2, <1>6
<1>8. periods' # <<>> =>
        /\ periods'[1].start = row'.startDate
        /\ periods'[Len(periods')].end = row'.endDate
        /\ Consecutive(periods')
  BY <1>2, <1>4, <1>6 DEF Consecutive
<1>9. row'.endDate # NoDate => periods' # <<>>
  BY <1>2, <1>4
<1> QED
  BY <1>0, <1>2, <1>4, <1>6, <1>7, <1>8, <1>9, TermStep

(* The renewal of a period, by the desk or by the sweep: k periods more.   *)
LEMMA ProlongStep ==
  ASSUME LifecycleInv, UNCHANGED <<now, child, request>>, NEW k \in Nat,
         row.status \in {"ACTIVE", "RENEWAL_DUE"}, row.endDate # NoDate,
         row.renewalMode # "NONE",
         row' = [row EXCEPT !.status = "ACTIVE", !.endDate = row.endDate + k * Period],
         periods' = periods \o Following(row.endDate, k),
         job' \in [phase : 0..Len(Phases), day : 0..MaxDay, candidate : BOOLEAN],
         job'.candidate => job' = job
  PROVE  LifecycleInv'
<1>0. row \in Row /\ row.endDate \in Nat /\ periods \in Seq(Span)
  BY DEF LifecycleInv, TypeOK, Row, Span
<1> DEFINE end == row.endDate + k * Period
<1>1. end \in Nat
  <2>1. k * Period \in Nat
    BY Product, LifecycleAssumption
  <2> QED
    BY <2>1, <1>0
<1>2. row' \in Row
  <2>1. row' = [row EXCEPT !.status = "ACTIVE", !.endDate = end]
    OBVIOUS
  <2> HIDE DEF end
  <2> QED
    BY <2>1, <1>0, <1>1, StatusList DEF Row
<1>3. /\ row'.status = "ACTIVE" /\ row'.startDate = row.startDate
      /\ row'.endDate = row.endDate + k * Period
      /\ row'.renewalMode = row.renewalMode
      /\ row'.successorContractId = row.successorContractId
  BY <1>0 DEF Row
<1>4. periods' \in Seq(Span)
  BY <1>0, FollowingType
<1>5. ~Amended => periods # <<>>
  BY DEF LifecycleInv, Renewable
<1>6. ~Amended =>
        /\ periods' # <<>>
        /\ periods'[1].start = row'.startDate
        /\ periods'[Len(periods')].end = row'.endDate
        /\ Consecutive(periods')
  <2> SUFFICES ASSUME ~Amended
               PROVE  /\ periods' # <<>>
                      /\ periods'[1].start = row'.startDate
                      /\ periods'[Len(periods')].end = row'.endDate
                      /\ Consecutive(periods')
    OBVIOUS
  <2>1. /\ periods # <<>> /\ periods[1].start = row.startDate
        /\ periods[Len(periods)].end = row.endDate /\ Consecutive(periods)
    BY <1>5 DEF LifecycleInv, PeriodsCoverTerm, Consecutive
  <2>2. /\ periods' # <<>> /\ periods'[1] = periods[1]
        /\ periods'[Len(periods')].end = row.endDate + k * Period
        /\ Consecutive(periods')
    BY <2>1, <1>0, PeriodsAdded
  <2> QED
    BY <2>1, <2>2, <1>3
<1> QED
  BY <1>2, <1>3, <1>4, <1>6, TermStep

LEMMA RenewPeriodStep ==
  ASSUME LifecycleInv, RenewPeriod
  PROVE  LifecycleInv'
<1> DEFINE span == [start |-> row.endDate + 1, end |-> row.endDate + Period]
<1>0. /\ row \in Row /\ row.status \in Statuses /\ row.endDate \in Nat
      /\ periods \in Seq(Span) /\ Period \in Nat
      /\ job \in [phase : 0..Len(Phases), day : 0..MaxDay, candidate : BOOLEAN]
  BY LifecycleAssumption DEF LifecycleInv, TypeOK, Row, Span
<1>1. /\ Admits(row, "RENEW_PERIOD") /\ row.endDate # NoDate
      /\ row' = [row EXCEPT !.status = "ACTIVE", !.endDate = row.endDate + Period]
      /\ periods' = Append(periods, span)
      /\ UNCHANGED <<now, child, request, job>>
  BY DEF RenewPeriod, Desk, CanRenewPeriod, PeriodRenewed, NextPeriodEnd
<1>2. row.status = "RENEWAL_DUE" /\ row.renewalMode # "NONE"
  BY <1>0, <1>1, EventSources DEF LifecycleInv, Renewable
<1>3. row.endDate + 1 * Period = row.endDate + Period
  BY <1>0
<1>4. Following(row.endDate, 1) = <<span>>
  <2>1. row.endDate + (1 - 1) * Period + 1 = row.endDate + 1
    BY <1>0
  <2>2. Following(row.endDate, 1) = [n \in 1..1 |-> span]
    BY <2>1, <1>3 DEF Following
  <2> HIDE DEF span
  <2> QED
    BY <2>2
<1>5. periods' = periods \o Following(row.endDate, 1)
  <2>1. span \in Span
    BY <1>0 DEF Span
  <2> HIDE DEF span
  <2>2. Append(periods, span) = periods \o <<span>>
    BY <2>1, <1>0
  <2> QED
    BY <2>2, <1>1, <1>4
<1>6. row' = [row EXCEPT !.status = "ACTIVE", !.endDate = row.endDate + 1 * Period]
  BY <1>1, <1>3
<1> QED
  BY <1>0, <1>1, <1>2, <1>5, <1>6, ProlongStep

LEMMA RenewTacitStep ==
  ASSUME LifecycleInv, RenewTacit
  PROVE  LifecycleInv'
<1>0. /\ TypeOK /\ row \in Row /\ row.status \in Statuses /\ row.endDate \in Nat
      /\ job \in [phase : 0..Len(Phases), day : 0..MaxDay, candidate : BOOLEAN]
      /\ now \in Day
  BY DEF LifecycleInv, TypeOK, Row
<1>1. UNCHANGED <<now, child, request>> /\ job' = NextPhase
  BY DEF RenewTacit, Handle
<1>2. job' \in [phase : 0..Len(Phases), day : 0..MaxDay, candidate : BOOLEAN]
      /\ ~job'.candidate
  BY <1>0, <1>1, NextPhaseType
<1>3. CASE ~CanRenewTacit
  <2>1. row' = row /\ periods' = periods
    BY <1>3 DEF RenewTacit, Handle
  <2>2. row.status = "RENEWAL_DUE" => row.renewalMode # "NONE"
    BY DEF LifecycleInv, Renewable
  <2> QED
    BY <2>1, <2>2, <1>0, <1>1, <1>2, StatusStep
<1>4. CASE CanRenewTacit
  <2>1. /\ row.renewalMode = "TACIT" /\ row.endDate # NoDate /\ row.endDate < job.day
        /\ row.status \in {"ACTIVE", "RENEWAL_DUE"}
    BY <1>4 DEF CanRenewTacit, PastTerm, Renews
  <2>2. Turns \in Nat
    <3>1. job.day \in Nat /\ Period \in Nat \ {0} /\ CatchUp \in Nat
      BY <1>0, LifecycleAssumption
    <3>2. job.day - row.endDate + Period - 1 \in Nat
      BY <1>0, <2>1, <3>1
    <3>3. Missed \in Nat
      BY <3>1, <3>2, Quotient DEF Missed
    <3> QED
      BY <3>1, <3>3 DEF Turns
  <2>3. row' = [row EXCEPT !.status = "ACTIVE", !.endDate = row.endDate + Turns * Period]
    BY <1>4, <1>0 DEF RenewTacit, Handle, Row
  <2>4. periods' = periods \o Following(row.endDate, Turns)
    BY <1>4 DEF RenewTacit, Added, Following
  <2> QED
    BY <2>1, <2>2, <2>3, <2>4, <1>1, <1>2, ProlongStep
<1> QED
  BY <1>3, <1>4

LEMMA LifecycleStep == LifecycleInv /\ [Next]_lifecycleVars => LifecycleInv'
<1> SUFFICES ASSUME LifecycleInv, [Next]_lifecycleVars PROVE LifecycleInv'
  OBVIOUS
<1>1. ASSUME NEW start \in Day, NEW end \in Day \union {NoDate}, NEW mode \in Modes,
             ValidateImport(start, end, mode)
      PROVE  LifecycleInv'
  BY <1>1, ImportStep
<1>2. CASE RenewPeriod
  BY <1>2, RenewPeriodStep
<1>3. ASSUME NEW d \in Successors, Renew(d) \/ RefuseRenewal(d)
      PROVE  LifecycleInv'
  BY <1>3, RenewalStep
<1>4. ASSUME NEW d \in Children, CompleteChild(d)
      PROVE  LifecycleInv'
  BY <1>4, CompleteStep
<1>5. CASE Transaction
  BY <1>5, SweepStep, RenewTacitStep DEF Transaction
<1>6. CASE UNCHANGED lifecycleVars
  BY <1>6 DEF lifecycleVars, LifecycleInv, TypeOK, RenewalLinked, PeriodsCoverTerm, Amended,
              Outgoing, Unvalidated, Candidate, Renewable
<1> QED
  BY <1>1, <1>2, <1>3, <1>4, <1>5, <1>6, JobStep, DeskStep, ChildrenStep DEF Next

-----------------------------------------------------------------------------
(* What expires a contract: its validation, after its term, or the sweep.  *)
LEMMA ExpiredBy ==
  ASSUME LifecycleInv, Next, row.status # "EXPIRED", row'.status = "EXPIRED"
  PROVE  \/ row.status = "IMPORTED_PENDING_VALIDATION"
         \/ ExpireDue
<1>0. row \in Row /\ row.status \in Statuses
  BY DEF LifecycleInv, TypeOK, Row
<1>1. row' # row
  OBVIOUS
<1>2. ASSUME NEW start \in Day, NEW end \in Day \union {NoDate}, NEW mode \in Modes,
             ValidateImport(start, end, mode)
      PROVE  row.status = "IMPORTED_PENDING_VALIDATION"
  <2> DEFINE c == [row EXCEPT !.startDate = start, !.endDate = end, !.renewalMode = mode]
  <2>1. c.status = row.status
    BY <1>0 DEF Row
  <2> HIDE DEF c
  <2>2. Admits(c, "VALIDATE_IMPORT")
    BY <1>2 DEF ValidateImport, Desk, CanValidateImport, c
  <2> QED
    BY <2>1, <2>2, <1>0, EventSources
<1>3. ~Cancel
  BY <1>0 DEF Cancel, Desk, Cancelled, Row
<1>4. ~RenewPeriod
  BY <1>0 DEF RenewPeriod, Desk, PeriodRenewed, Row
<1>5. ~CloseRenewal /\ ~WithdrawTermination
  BY <1>0 DEF CloseRenewal, WithdrawTermination, Desk, RenewalClosed, TerminationWithdrawn, Row
<1>6. \A effective, overridden : ~Terminate(effective, overridden)
  BY <1>0 DEF Terminate, Desk, Terminated, Row
<1>7. \A d \in Successors : ~Renew(d) /\ ~RefuseRenewal(d)
  BY <1>0 DEF Renew, RefuseRenewal, Unlinked, Row
<1>8. \A d \in Children : ~CompleteChild(d)
  BY <1>0 DEF CompleteChild, Row
<1>9. ~ActivateDue /\ ~OpenExpressRenewal /\ ~CompleteTermination
  BY <1>0 DEF ActivateDue, OpenExpressRenewal, CompleteTermination, Handle, Activated,
              RenewalOpened, TerminationCompleted, Row
<1>10. ~RenewTacit
  BY <1>0 DEF RenewTacit, Handle, Row
<1>11. ~Tick /\ ~StartSweep /\ ~Discover /\ ~SweepDies
  BY <1>1 DEF Tick, StartSweep, Discover, SweepDies
<1>12. \A d \in Amendments : ~Amend(d) /\ ~TerminateAmendment(d)
  BY <1>1 DEF Amend, TerminateAmendment, ChildTo
<1>13. \A d \in Children :
         ~SendChild(d) /\ ~RecallChild(d) /\ ~DeclineChild(d) /\ ~ReopenChild(d) /\ ~CancelChild(d)
  BY <1>1 DEF SendChild, RecallChild, DeclineChild, ReopenChild, CancelChild, ChildTo
<1> QED
  BY <1>2, <1>3, <1>4, <1>5, <1>6, <1>7, <1>8, <1>9, <1>10, <1>11, <1>12, <1>13
     DEF Next, Transaction

(* The transaction of the expiry runs in the phase of the expiry.          *)
LEMMA ExpiryPhase ==
  ASSUME LifecycleInv, ExpireDue
  PROVE  row.renewalMode # "TACIT"
<1>1. job.candidate /\ Phases[job.phase] = "expire"
  BY DEF ExpireDue, Handle
<1>2. job.phase \in 1..5
  BY <1>1 DEF LifecycleInv, Candidate, TypeOK, Phases
<1>3. job.phase = 4
  BY <1>1, <1>2 DEF Phases
<1> QED
  BY <1>1, <1>3 DEF LifecycleInv, Candidate

LEMMA NoSignedRenewalExpires ==
  ASSUME LifecycleInv, Next, row.status # "EXPIRED", row'.status = "EXPIRED"
  PROVE  ~Renewed
<1> SUFFICES ASSUME NEW d \in Successors, request[d] = "ACCEPTED", child[d].status = "signed"
             PROVE  FALSE
  BY DEF Renewed
<1>1. row.successorContractId = d /\ d # NoContract
  BY LifecycleAssumption DEF LifecycleInv, RenewalLinked
<1>2. CASE row.status = "IMPORTED_PENDING_VALIDATION"
  BY <1>1, <1>2 DEF LifecycleInv, Unvalidated, Imported
<1>3. CASE ExpireDue
  <2>1. HasSignedSuccessor
    BY <1>1 DEF HasSignedSuccessor
  <2>2. row' = row \/ row' = [row EXCEPT !.status = "RENEWED"]
    BY <1>3, <2>1 DEF ExpireDue, Handle, Expired
  <2> QED
    BY <2>2 DEF LifecycleInv, TypeOK, Row
<1> QED
  BY <1>2, <1>3, ExpiredBy

LEMMA NoTacitExpires ==
  ASSUME LifecycleInv, Next, row.renewalMode = "TACIT", row.status \in {"ACTIVE", "RENEWAL_DUE"}
  PROVE  row'.status # "EXPIRED"
  BY ExpiredBy, ExpiryPhase

(* No step moves the term of a contract that is under notice.              *)
LEMMA NoticeKeepsTerm ==
  ASSUME LifecycleInv, Next, row.status = "TERMINATION_PENDING"
  PROVE  row'.endDate = row.endDate /\ periods' = periods
<1>0. row \in Row /\ row.status \in Statuses
  BY DEF LifecycleInv, TypeOK, Row
<1>1. ASSUME NEW start \in Day, NEW end \in Day \union {NoDate}, NEW mode \in Modes,
             ValidateImport(start, end, mode)
      PROVE  FALSE
  <2> DEFINE c == [row EXCEPT !.startDate = start, !.endDate = end, !.renewalMode = mode]
  <2>1. c.status = row.status
    BY <1>0 DEF Row
  <2> HIDE DEF c
  <2>2. Admits(c, "VALIDATE_IMPORT")
    BY <1>1 DEF ValidateImport, Desk, CanValidateImport, c
  <2> QED
    BY <2>1, <2>2, <1>0, EventSources
<1>2. ~RenewPeriod
  BY <1>0, EventSources DEF RenewPeriod, Desk, CanRenewPeriod
<1>3. ~CanRenewTacit
  BY DEF CanRenewTacit, Renews
<1>4. CASE RenewTacit
  BY <1>3, <1>4 DEF RenewTacit, Handle
<1>5. CASE Cancel
  BY <1>5, <1>0 DEF Cancel, Desk, Cancelled, Row
<1>6. CASE CloseRenewal \/ WithdrawTermination
  BY <1>6, <1>0 DEF CloseRenewal, WithdrawTermination, Desk, RenewalClosed, TerminationWithdrawn, Row
<1>7. ASSUME NEW effective, NEW overridden, Terminate(effective, overridden)
      PROVE  row'.endDate = row.endDate /\ periods' = periods
  BY <1>7, <1>0 DEF Terminate, Desk, Terminated, Row
<1>8. ASSUME NEW d \in Successors, Renew(d) \/ RefuseRenewal(d)
      PROVE  row'.endDate = row.endDate /\ periods' = periods
  BY <1>8, <1>0 DEF Renew, RefuseRenewal, Unlinked, Row
<1>9. ASSUME NEW d \in Children, CompleteChild(d)
      PROVE  row' = row /\ periods' = periods
  BY <1>9 DEF CompleteChild
<1>10. CASE ActivateDue
  BY <1>10, <1>0 DEF ActivateDue, Handle, Activated, Row
<1>11. CASE OpenExpressRenewal
  BY <1>11, <1>0 DEF OpenExpressRenewal, Handle, RenewalOpened, Row
<1>12. CASE ExpireDue
  BY <1>12, <1>0 DEF ExpireDue, Handle, Expired, Row
<1>13. CASE CompleteTermination
  BY <1>13, <1>0 DEF CompleteTermination, Handle, TerminationCompleted, Row
<1>14. CASE Tick \/ StartSweep \/ Discover \/ SweepDies
  BY <1>14 DEF Tick, StartSweep, Discover, SweepDies
<1>15. ASSUME NEW d \in Amendments, Amend(d) \/ TerminateAmendment(d)
       PROVE  row' = row /\ periods' = periods
  BY <1>15 DEF Amend, TerminateAmendment, ChildTo
<1>16. ASSUME NEW d \in Children,
              SendChild(d) \/ RecallChild(d) \/ DeclineChild(d) \/ ReopenChild(d) \/ CancelChild(d)
       PROVE  row' = row /\ periods' = periods
  BY <1>16 DEF SendChild, RecallChild, DeclineChild, ReopenChild, CancelChild, ChildTo
<1> QED
  BY <1>1, <1>2, <1>4, <1>5, <1>6, <1>7, <1>8, <1>9, <1>10, <1>11, <1>12, <1>13, <1>14, <1>15,
     <1>16 DEF Next, Transaction
-----------------------------------------------------------------------------
(* However many contracts are made from it, days pass and sweeps are       *)
(* missed: the parent points to the renewal that counts, and the periods   *)
(* of a contract cover its term without a gap.                             *)
THEOREM LifecycleSafe == Spec => [](TypeOK /\ RenewalLinked /\ PeriodsCoverTerm)
<1>1. Init => LifecycleInv
  BY LifecycleInit
<1>2. LifecycleInv /\ [Next]_lifecycleVars => LifecycleInv'
  BY LifecycleStep
<1>3. LifecycleInv => TypeOK /\ RenewalLinked /\ PeriodsCoverTerm
  BY DEF LifecycleInv
<1> QED
  BY <1>1, <1>2, <1>3, PTL DEF Spec

(* The parent points to the renewal that counts.                           *)
COROLLARY LinkToRenewalHolds == Spec => []RenewalLinked
  BY LifecycleSafe, PTL

(* A contract whose renewal was signed does not expire.                    *)
THEOREM SignedRenewalCounts == Spec => AcceptedRenewalCounts
<1>1. Init => LifecycleInv
  BY LifecycleInit
<1>2. LifecycleInv /\ [Next]_lifecycleVars => LifecycleInv'
  BY LifecycleStep
<1>3. LifecycleInv /\ [Next]_lifecycleVars =>
        [row'.status = "EXPIRED" /\ row.status # "EXPIRED" => ~Renewed]_lifecycleVars
  BY NoSignedRenewalExpires
<1> QED
  BY <1>1, <1>2, <1>3, PTL DEF Spec, AcceptedRenewalCounts

(* A running contract with tacit renewal never becomes EXPIRED.           *)
THEOREM TacitRenewsForEver == Spec => TacitNeverExpires
<1>1. Init => LifecycleInv
  BY LifecycleInit
<1>2. LifecycleInv /\ [Next]_lifecycleVars => LifecycleInv'
  BY LifecycleStep
<1>3. LifecycleInv /\ [Next]_lifecycleVars =>
        [row.renewalMode = "TACIT" /\ row.status \in {"ACTIVE", "RENEWAL_DUE"}
           => row'.status # "EXPIRED"]_lifecycleVars
  BY NoTacitExpires
<1> QED
  BY <1>1, <1>2, <1>3, PTL DEF Spec, TacitNeverExpires

(* The term of a contract under notice does not move.                      *)
THEOREM NoticeFreezesTerm == Spec => TerminationFreezesTerm
<1>1. Init => LifecycleInv
  BY LifecycleInit
<1>2. LifecycleInv /\ [Next]_lifecycleVars => LifecycleInv'
  BY LifecycleStep
<1>3. LifecycleInv /\ [Next]_lifecycleVars =>
        [row.status = "TERMINATION_PENDING"
           => row'.endDate = row.endDate /\ periods' = periods]_lifecycleVars
  BY NoticeKeepsTerm
<1> QED
  BY <1>1, <1>2, <1>3, PTL DEF Spec, TerminationFreezesTerm
=============================================================================
