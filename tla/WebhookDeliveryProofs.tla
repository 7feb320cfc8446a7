------------------------- MODULE WebhookDeliveryProofs -------------------------
(* What the outgoing webhooks guarantee for any number of deliveries, passes  *)
(* and requests of the administration, any length of the series and any       *)
(* threshold.                                                                 *)
EXTENDS WebhookDelivery, TLAPS

(* The number written for an attempt is never above the number of requests    *)
(* really sent: not in the row, not in the hands of a sender that is about to *)
(* write it, however late. A delivery still open has an attempt left.         *)
AttemptsBacked ==
  /\ \A d \in Deliveries : delivery[d].attempt <= sends[d]
  /\ \A d \in Deliveries :
       delivery[d].status \in Open => delivery[d].attempt < MaxAttempts
  /\ \A d \in Deliveries :
       delivery[d].status = "DEAD" => delivery[d].attempt = MaxAttempts
  /\ \A p \in Processes : \A d \in process[p].on :
       /\ process[p].phase = "sending" => process[p].attempt <= sends[d] + 1
       /\ process[p].phase = "answered" => process[p].attempt <= sends[d]

(* A process in the middle of an attempt is at one delivery.                  *)
OneAtATime ==
  \A p \in Processes :
    process[p].phase # "idle" => \E d \in Deliveries : process[p].on = {d}

IInv == TypeOK /\ AttemptsBacked /\ OneAtATime

(* The shapes of the values the actions write.                                *)
LEMMA RowType ==
  ASSUME NEW s \in Statuses, NEW a \in 0..MaxAttempts, NEW due \in BOOLEAN
  PROVE  [status |-> s, attempt |-> a, due |-> due]
           \in [status: Statuses, attempt: 0..MaxAttempts, due: BOOLEAN]
  OBVIOUS

ProcessType ==
  [phase: {"idle", "seen", "sending", "answered"},
   found: SUBSET Deliveries, on: SUBSET Deliveries, fresh: BOOLEAN,
   attempt: 0..MaxAttempts, accepted: BOOLEAN]

LEMMA IdleType == Idle \in ProcessType
  BY WebhookAssumption DEF Idle, ProcessType

LEMMA MovedOnType ==
  ASSUME TypeOK, NEW p \in Processes
  PROVE  MovedOn(p) \in ProcessType
<1>1. process[p].found \in SUBSET Deliveries
  BY DEF TypeOK
<1>2. process[p].found \ process[p].on \in SUBSET Deliveries
  BY <1>1
<1> QED BY <1>2, IdleType DEF MovedOn, Idle, ProcessType

(* Losing the date keeps everything else of a process.                        *)
LEMMA RescheduledType ==
  ASSUME TypeOK, NEW d \in Deliveries
  PROVE  /\ Rescheduled(d, process) \in [Processes -> ProcessType]
         /\ \A q \in Processes :
              /\ Rescheduled(d, process)[q].phase = process[q].phase
              /\ Rescheduled(d, process)[q].on = process[q].on
              /\ Rescheduled(d, process)[q].attempt = process[q].attempt
<1>1. process \in [Processes -> ProcessType]
  BY DEF TypeOK, ProcessType
<1>2. ASSUME NEW q \in Processes
      PROVE  /\ [process[q] EXCEPT !.fresh = FALSE] \in ProcessType
             /\ [process[q] EXCEPT !.fresh = FALSE].phase = process[q].phase
             /\ [process[q] EXCEPT !.fresh = FALSE].on = process[q].on
             /\ [process[q] EXCEPT !.fresh = FALSE].attempt = process[q].attempt
  <2>1. process[q] \in ProcessType
    BY <1>1
  <2> QED BY <2>1 DEF ProcessType
<1>3. ASSUME NEW q \in Processes
      PROVE  /\ Rescheduled(d, process)[q] \in ProcessType
             /\ Rescheduled(d, process)[q].phase = process[q].phase
             /\ Rescheduled(d, process)[q].on = process[q].on
             /\ Rescheduled(d, process)[q].attempt = process[q].attempt
  BY <1>1, <1>2 DEF Rescheduled
<1> QED BY <1>3 DEF Rescheduled

--------------------------------------------------------------------------------
(* One lemma per group of actions.                                            *)

LEMMA InitInv == Init => IInv
<1> SUFFICES ASSUME Init PROVE IInv
  OBVIOUS
<1>1. TypeOK
  <2>1. process \in [Processes -> ProcessType]
    BY IdleType DEF Init
  <2>2. \A d \in Deliveries : delivery[d] = [status |-> "NONE", attempt |-> 0, due |-> FALSE]
    BY DEF Init
  <2>3. delivery \in [Deliveries -> [status: Statuses, attempt: 0..MaxAttempts, due: BOOLEAN]]
    BY WebhookAssumption, RowType DEF Init, Statuses, Open
  <2> QED BY <2>1, <2>3, WebhookAssumption DEF Init, TypeOK, ProcessType
<1>2. AttemptsBacked
  BY WebhookAssumption DEF Init, AttemptsBacked, Idle, Open
<1>3. OneAtATime
  BY DEF Init, OneAtATime, Idle
<1> QED BY <1>1, <1>2, <1>3 DEF IInv

(* A delivery that is opened, for the first time or again.                    *)
LEMMA OpenedInv ==
  ASSUME IInv, NEW d \in Deliveries,
         delivery' = [delivery EXCEPT
           ![d] = [status |-> "PENDING", attempt |-> 0, due |-> TRUE]],
         process' \in [Processes -> ProcessType],
         \A p \in Processes : process'[p].phase # "idle" =>
            /\ process'[p].phase = process[p].phase
            /\ process'[p].on = process[p].on
            /\ process'[p].attempt = process[p].attempt,
         subscription' = subscription, manual' \in 0..MaxRedeliver,
         crashes' = crashes, sends' = sends
  PROVE  IInv'
<1>1. TypeOK'
  <2>1. [status |-> "PENDING", attempt |-> 0, due |-> TRUE]
          \in [status: Statuses, attempt: 0..MaxAttempts, due: BOOLEAN]
    BY RowType, WebhookAssumption DEF Statuses, Open
  <2>2. delivery' \in [Deliveries -> [status: Statuses, attempt: 0..MaxAttempts, due: BOOLEAN]]
    BY <2>1 DEF IInv, TypeOK
  <2> QED BY <2>2 DEF IInv, TypeOK, ProcessType
<1>2. \A e \in Deliveries : delivery'[e] = IF e = d
          THEN [status |-> "PENDING", attempt |-> 0, due |-> TRUE] ELSE delivery[e]
  BY DEF IInv, TypeOK
<1>3. \A e \in Deliveries : sends[e] \in Nat
  BY DEF IInv, TypeOK
<1>4. /\ \A e \in Deliveries : delivery'[e].attempt <= sends'[e]
      /\ \A e \in Deliveries :
           delivery'[e].status \in Open => delivery'[e].attempt < MaxAttempts
      /\ \A e \in Deliveries :
           delivery'[e].status = "DEAD" => delivery'[e].attempt = MaxAttempts
  BY <1>2, <1>3, WebhookAssumption DEF IInv, AttemptsBacked
<1>5. \A p \in Processes : \A e \in process'[p].on :
        /\ process'[p].phase = "sending" => process'[p].attempt <= sends'[e] + 1
        /\ process'[p].phase = "answered" => process'[p].attempt <= sends'[e]
  BY DEF IInv, AttemptsBacked
<1>6. OneAtATime'
  BY DEF IInv, OneAtATime
<1> QED BY <1>1, <1>4, <1>5, <1>6 DEF IInv, AttemptsBacked

LEMMA PublishInv ==
  ASSUME IInv, NEW d \in Deliveries, Publish(d)
  PROVE  IInv'
  BY OpenedInv DEF Publish, IInv, TypeOK, ProcessType

LEMMA ListedType ==
  ASSUME TypeOK, NEW p \in Processes, process[p] = Idle, NEW S \in SUBSET Deliveries
  PROVE  [process[p] EXCEPT !.found = S] \in ProcessType
  BY IdleType DEF Idle, ProcessType

LEMMA TestInv ==
  ASSUME IInv, NEW p \in Desks, NEW d \in Deliveries, Test(p, d)
  PROVE  IInv'
<1>1. process \in [Processes -> ProcessType] /\ p \in Processes
  BY DEF IInv, TypeOK, ProcessType, Processes
<1>2. [process[p] EXCEPT !.found = {d}] \in ProcessType
  BY <1>1, ListedType DEF IInv, Test
<1>3. process' = [process EXCEPT ![p] = [process[p] EXCEPT !.found = {d}]]
  BY <1>1 DEF Test
<1>4. process' \in [Processes -> ProcessType]
  BY <1>1, <1>2, <1>3
<1>5. process'[p].phase = "idle"
  BY <1>1, <1>3 DEF Test, Idle
<1>6. \A q \in Processes : q # p => process'[q] = process[q]
  BY <1>1, <1>3
<1>7. manual' \in 0..MaxRedeliver
  BY WebhookAssumption DEF Test, IInv, TypeOK
<1> QED BY <1>4, <1>5, <1>6, <1>7, OpenedInv DEF Test

LEMMA RedeliverInv ==
  ASSUME IInv, NEW p \in Desks, NEW d \in Deliveries, Redeliver(p, d)
  PROVE  IInv'
<1>1. p \in Processes /\ process \in [Processes -> ProcessType]
  BY DEF IInv, TypeOK, ProcessType, Processes
<1>2. /\ Rescheduled(d, process) \in [Processes -> ProcessType]
      /\ \A q \in Processes :
           /\ Rescheduled(d, process)[q].phase = process[q].phase
           /\ Rescheduled(d, process)[q].on = process[q].on
           /\ Rescheduled(d, process)[q].attempt = process[q].attempt
  BY RescheduledType DEF IInv
<1>3. PICK R \in [Processes -> ProcessType] :
        /\ process' = [R EXCEPT ![p].found = {d}]
        /\ \A q \in Processes : /\ R[q].phase = process[q].phase
                                 /\ R[q].on = process[q].on
                                 /\ R[q].attempt = process[q].attempt
  BY <1>2 DEF Redeliver
<1>4. [R[p] EXCEPT !.found = {d}] \in ProcessType
  BY <1>1, <1>3 DEF ProcessType
<1>5. process' = [R EXCEPT ![p] = [R[p] EXCEPT !.found = {d}]]
  BY <1>1, <1>3
<1>6. process' \in [Processes -> ProcessType]
  BY <1>3, <1>4, <1>5
<1>7. process[p].phase = "idle"
  BY DEF Redeliver, Idle
<1>8. [R[p] EXCEPT !.found = {d}].phase = "idle"
  BY <1>1, <1>3, <1>7 DEF ProcessType
<1>9. \A q \in Processes : process'[q].phase # "idle" =>
        /\ process'[q].phase = process[q].phase
        /\ process'[q].on = process[q].on
        /\ process'[q].attempt = process[q].attempt
  BY <1>1, <1>3, <1>5, <1>8
<1>10. manual' \in 0..MaxRedeliver
  BY WebhookAssumption DEF Redeliver, IInv, TypeOK
<1> QED BY <1>6, <1>9, <1>10, OpenedInv DEF Redeliver

(* A step of one process that writes no row and does not send.                *)
LEMMA QuietInv ==
  ASSUME IInv, NEW p \in Processes, NEW v \in ProcessType,
         \/ v.phase = "idle"
         \/ v.phase = "seen" /\ \E d \in Deliveries : v.on = {d},
         process' = [process EXCEPT ![p] = v],
         subscription' = subscription, delivery' = delivery, manual' = manual,
         crashes' \in 0..MaxCrashes, sends' = sends
  PROVE  IInv'
<1>1. process \in [Processes -> ProcessType]
  BY DEF IInv, TypeOK, ProcessType
<1>2. process' \in [Processes -> ProcessType]
  BY <1>1
<1>3. TypeOK'
  BY <1>2 DEF IInv, TypeOK, ProcessType
<1>4. \A q \in Processes : process'[q] = IF q = p THEN v ELSE process[q]
  BY <1>1
<1>5. AttemptsBacked'
  BY <1>4 DEF IInv, AttemptsBacked
<1>6. OneAtATime'
  BY <1>4 DEF IInv, OneAtATime
<1> QED BY <1>3, <1>5, <1>6 DEF IInv

LEMMA DiscoverInv ==
  ASSUME IInv, NEW p \in Passes, Discover(p)
  PROVE  IInv'
<1>1. p \in Processes /\ process \in [Processes -> ProcessType]
  BY DEF IInv, TypeOK, ProcessType, Processes
<1>2. Due \in SUBSET Deliveries
  BY DEF Due
<1>3. [process[p] EXCEPT !.found = Due] \in ProcessType
  BY <1>1, <1>2, ListedType DEF IInv, Discover
<1>4. [process[p] EXCEPT !.found = Due].phase = "idle"
  BY DEF Discover, Idle
<1>5. process' = [process EXCEPT ![p] = [process[p] EXCEPT !.found = Due]]
  BY <1>1 DEF Discover
<1>6. crashes' \in 0..MaxCrashes
  BY DEF Discover, IInv, TypeOK
<1> QED BY <1>1, <1>3, <1>4, <1>5, <1>6, QuietInv DEF Discover

LEMMA LookInv ==
  ASSUME IInv, NEW p \in Processes, NEW d \in Deliveries, Look(p, d)
  PROVE  IInv'
<1>1. process[p] \in ProcessType
  BY DEF IInv, TypeOK, ProcessType
<1>2. PICK v : /\ \/ v = [process[p] EXCEPT !.phase = "seen", !.on = {d}, !.fresh = TRUE]
                  \/ v = [process[p] EXCEPT !.found = process[p].found \ {d}]
               /\ process' = [process EXCEPT ![p] = v]
  BY DEF Look, IInv, TypeOK
<1>3. /\ v \in ProcessType
      /\ v.phase = "idle" \/ (v.phase = "seen" /\ v.on = {d})
  <2>1. process[p].phase = "idle"
    BY DEF Look
  <2>2. CASE v = [process[p] EXCEPT !.phase = "seen", !.on = {d}, !.fresh = TRUE]
    BY <1>1, <2>2 DEF ProcessType
  <2>3. CASE v = [process[p] EXCEPT !.found = process[p].found \ {d}]
    BY <1>1, <2>1, <2>3 DEF ProcessType
  <2> QED BY <1>2, <2>2, <2>3
<1>4. crashes' \in 0..MaxCrashes
  BY DEF Look, IInv, TypeOK
<1> QED BY <1>2, <1>3, <1>4, QuietInv DEF Look

LEMMA CrashInv ==
  ASSUME IInv, NEW p \in Processes, Crash(p)
  PROVE  IInv'
<1>1. crashes' \in 0..MaxCrashes
  BY WebhookAssumption DEF Crash, IInv, TypeOK
<1>2. Idle.phase = "idle"
  BY DEF Idle
<1> QED BY <1>1, <1>2, IdleType, QuietInv DEF Crash

(* The reservation: the number of the attempt is one above the row's.         *)
LEMMA ClaimInv ==
  ASSUME IInv, NEW p \in Processes, Claim(p)
  PROVE  IInv'
<1>1. process \in [Processes -> ProcessType]
  BY DEF IInv, TypeOK, ProcessType
<1>2. PICK d \in process[p].on :
        IF process[p].fresh /\ delivery[d].status \in Open
          THEN /\ delivery' = [delivery EXCEPT ![d].due = FALSE]
               /\ process' = [Rescheduled(d, process) EXCEPT
                    ![p].phase = "sending",
                    ![p].attempt = delivery[d].attempt + 1]
          ELSE /\ process' = [process EXCEPT ![p] = MovedOn(p)]
               /\ UNCHANGED delivery
  BY DEF Claim
<1>3. d \in Deliveries
  BY <1>1 DEF ProcessType
<1>4. CASE ~(process[p].fresh /\ delivery[d].status \in Open)
  <2>1. MovedOn(p) \in ProcessType /\ MovedOn(p).phase = "idle"
    BY MovedOnType DEF IInv, MovedOn, Idle
  <2>2. crashes' \in 0..MaxCrashes
    BY DEF Claim, IInv, TypeOK
  <2> QED BY <1>2, <1>4, <2>1, <2>2, QuietInv DEF Claim
<1>5. CASE process[p].fresh /\ delivery[d].status \in Open
  <2>1. /\ Rescheduled(d, process) \in [Processes -> ProcessType]
        /\ \A q \in Processes :
             /\ Rescheduled(d, process)[q].phase = process[q].phase
             /\ Rescheduled(d, process)[q].on = process[q].on
             /\ Rescheduled(d, process)[q].attempt = process[q].attempt
    BY <1>3, RescheduledType DEF IInv
  <2>2. PICK R \in [Processes -> ProcessType] :
          /\ process' = [R EXCEPT ![p].phase = "sending",
                                  ![p].attempt = delivery[d].attempt + 1]
          /\ \A q \in Processes : /\ R[q].phase = process[q].phase
                                   /\ R[q].on = process[q].on
                                   /\ R[q].attempt = process[q].attempt
    BY <1>2, <1>5, <2>1
  <2>3. /\ delivery[d] \in [status: Statuses, attempt: 0..MaxAttempts, due: BOOLEAN]
        /\ delivery[d].attempt + 1 \in 0..MaxAttempts
        /\ delivery[d].attempt <= sends[d]
        /\ sends[d] \in Nat
    BY <1>3, <1>5, WebhookAssumption DEF IInv, TypeOK, AttemptsBacked
  <2>4. PICK v \in ProcessType :
          /\ process' = [R EXCEPT ![p] = v]
          /\ v.phase = "sending" /\ v.on = process[p].on
          /\ v.attempt = delivery[d].attempt + 1
    <3>1. R[p] \in ProcessType
      OBVIOUS
    <3>2. [R[p] EXCEPT !.phase = "sending", !.attempt = delivery[d].attempt + 1]
            \in ProcessType
      BY <3>1, <2>3 DEF ProcessType
    <3>3. process' = [R EXCEPT ![p] =
            [R[p] EXCEPT !.phase = "sending", !.attempt = delivery[d].attempt + 1]]
      BY <2>2
    <3> QED BY <3>1, <3>2, <3>3, <2>2 DEF ProcessType
  <2>5. process' \in [Processes -> ProcessType]
    BY <2>4
  <2>6. delivery' \in [Deliveries -> [status: Statuses, attempt: 0..MaxAttempts, due: BOOLEAN]]
    <3>1. [delivery[d] EXCEPT !.due = FALSE]
            \in [status: Statuses, attempt: 0..MaxAttempts, due: BOOLEAN]
      BY <2>3
    <3>2. delivery' = [delivery EXCEPT ![d] = [delivery[d] EXCEPT !.due = FALSE]]
      BY <1>2, <1>5
    <3> QED BY <3>1, <3>2 DEF IInv, TypeOK
  <2>7. TypeOK'
    BY <2>5, <2>6 DEF Claim, IInv, TypeOK, ProcessType
  <2>8. \A e \in Deliveries : /\ delivery'[e].status = delivery[e].status
                              /\ delivery'[e].attempt = delivery[e].attempt
    BY <1>2, <1>3, <1>5 DEF IInv, TypeOK
  <2>9. sends' = sends
    BY DEF Claim
  <2>10. process[p].on = {d}
    BY <1>2, <1>5 DEF IInv, OneAtATime, Claim
  <2>11. \A q \in Processes : \A e \in process'[q].on :
          /\ process'[q].phase = "sending" => process'[q].attempt <= sends[e] + 1
          /\ process'[q].phase = "answered" => process'[q].attempt <= sends[e]
    <3> TAKE q \in Processes
    <3>1. CASE q = p
      <4>1. process'[q] = v
        BY <2>4, <3>1
      <4> QED BY <4>1, <2>3, <2>4, <2>10
    <3>2. CASE q # p
      <4>1. process'[q] = R[q]
        BY <2>4, <3>2
      <4> QED BY <4>1, <2>2 DEF IInv, AttemptsBacked
    <3> QED BY <3>1, <3>2
  <2>12. AttemptsBacked'
    BY <2>8, <2>9, <2>11 DEF IInv, AttemptsBacked
  <2>13. OneAtATime'
    <3>1. \A q \in Processes :
            process'[q].phase # "idle" => \E e \in Deliveries : process'[q].on = {e}
      <4> TAKE q \in Processes
      <4>1. CASE q = p
        BY <4>1, <1>3, <2>4, <2>10
      <4>2. CASE q # p
        <5>1. process'[q] = R[q]
          BY <2>4, <4>2
        <5> QED BY <5>1, <2>2 DEF IInv, OneAtATime
      <4> QED BY <4>1, <4>2
    <3> QED BY <3>1 DEF OneAtATime
  <2> QED BY <2>7, <2>12, <2>13 DEF IInv
<1> QED BY <1>4, <1>5

LEMMA SendInv ==
  ASSUME IInv, NEW p \in Processes, Send(p)
  PROVE  IInv'
<1>1. process \in [Processes -> ProcessType]
  BY DEF IInv, TypeOK, ProcessType
<1>2. PICK d \in process[p].on, accepted \in BOOLEAN :
        /\ process' = [process EXCEPT ![p].phase = "answered",
                                      ![p].accepted = accepted]
        /\ sends' = [sends EXCEPT ![d] = IF @ < MaxAttempts THEN @ + 1 ELSE @]
  BY DEF Send
<1>3. process[p].on = {d} /\ d \in Deliveries
  BY <1>2 DEF IInv, OneAtATime, Send
<1>4. PICK v \in ProcessType :
        /\ process' = [process EXCEPT ![p] = v]
        /\ v.phase = "answered" /\ v.on = {d} /\ v.attempt = process[p].attempt
  <2>1. process[p] \in ProcessType
    BY <1>1
  <2>2. [process[p] EXCEPT !.phase = "answered", !.accepted = accepted] \in ProcessType
    BY <2>1 DEF ProcessType
  <2>3. process' = [process EXCEPT ![p] =
          [process[p] EXCEPT !.phase = "answered", !.accepted = accepted]]
    BY <1>1, <1>2
  <2> QED BY <2>1, <2>2, <2>3, <1>3 DEF ProcessType
<1>5. \A q \in Processes : process'[q] = IF q = p THEN v ELSE process[q]
  BY <1>1, <1>4
<1>6. \A e \in Deliveries :
        /\ sends[e] \in 0..MaxAttempts
        /\ sends'[e] = IF e = d /\ sends[e] < MaxAttempts THEN sends[e] + 1 ELSE sends[e]
  BY <1>2 DEF IInv, TypeOK
<1>7. sends' \in [Deliveries -> 0..MaxAttempts]
  BY <1>2, <1>3, WebhookAssumption DEF IInv, TypeOK
<1>8. TypeOK'
  <2>1. process' \in [Processes -> ProcessType]
    BY <1>1, <1>4
  <2> QED BY <2>1, <1>7 DEF Send, IInv, TypeOK, ProcessType
<1>9. process[p].phase = "sending" /\ process[p].attempt <= sends[d] + 1
  BY <1>3 DEF Send, IInv, AttemptsBacked
<1>10. v.attempt \in 0..MaxAttempts
  BY DEF ProcessType
<1>11. v.attempt <= sends'[d]
  BY <1>3, <1>4, <1>6, <1>9, <1>10, WebhookAssumption
<1>12. \A e \in Deliveries : delivery[e].attempt \in Nat
  BY DEF IInv, TypeOK
<1>13. AttemptsBacked'
  <2>1. delivery' = delivery
    BY DEF Send
  <2>2. \A e \in Deliveries : delivery'[e].attempt <= sends'[e]
    BY <2>1, <1>6, <1>12, WebhookAssumption DEF IInv, AttemptsBacked
  <2>3. \A q \in Processes : \A e \in process'[q].on :
          /\ process'[q].phase = "sending" => process'[q].attempt <= sends'[e] + 1
          /\ process'[q].phase = "answered" => process'[q].attempt <= sends'[e]
    <3> TAKE q \in Processes
    <3> TAKE e \in process'[q].on
    <3>1. CASE q = p
      BY <3>1, <1>4, <1>5, <1>11
    <3>2. CASE q # p
      <4>1. process'[q] = process[q]
        BY <1>5, <3>2
      <4>2. e \in Deliveries /\ process[q].attempt \in Nat
        BY <1>1, <4>1 DEF ProcessType
      <4>3. sends[e] <= sends'[e] /\ sends[e] \in Nat /\ sends'[e] \in Nat
        BY <4>2, <1>6, WebhookAssumption
      <4>4. /\ process[q].phase = "sending" => process[q].attempt <= sends[e] + 1
            /\ process[q].phase = "answered" => process[q].attempt <= sends[e]
        BY <4>1 DEF IInv, AttemptsBacked
      <4> QED BY <4>1, <4>2, <4>3, <4>4
    <3> QED BY <3>1, <3>2
  <2> QED BY <2>1, <2>2, <2>3 DEF IInv, AttemptsBacked
<1>14. OneAtATime'
  BY <1>3, <1>4, <1>5 DEF IInv, OneAtATime
<1> QED BY <1>8, <1>13, <1>14 DEF IInv

(* The row as a sender records it, and the sender that goes on.               *)
LEMMA RecordedInv ==
  ASSUME IInv, NEW p \in Processes, NEW d \in process[p].on,
         NEW s \in {"DELIVERED", "FAILED", "DEAD"},
         process[p].phase = "answered",
         s = "FAILED" => ~Exhausted(process[p].attempt),
         s = "DEAD" => Exhausted(process[p].attempt),
         delivery' = [delivery EXCEPT
           ![d] = [status |-> s, attempt |-> process[p].attempt, due |-> FALSE]],
         process' = [Rescheduled(d, process) EXCEPT ![p] = MovedOn(p)],
         subscription' \in [active: BOOLEAN, failures: Nat],
         UNCHANGED <<manual, crashes, sends>>
  PROVE  IInv'
<1>1. /\ process[p] \in ProcessType
      /\ d \in Deliveries
      /\ process[p].attempt \in 0..MaxAttempts
      /\ process[p].attempt <= sends[d]
  <2>1. process[p] \in ProcessType
    BY DEF IInv, TypeOK, ProcessType
  <2> QED BY <2>1 DEF ProcessType, IInv, AttemptsBacked
<1>2. PICK R \in [Processes -> ProcessType] :
        /\ process' = [R EXCEPT ![p] = MovedOn(p)]
        /\ \A q \in Processes : /\ R[q].phase = process[q].phase
                                 /\ R[q].on = process[q].on
                                 /\ R[q].attempt = process[q].attempt
  BY <1>1, RescheduledType DEF IInv
<1>3. PICK v \in ProcessType : v.phase = "idle" /\ process' = [R EXCEPT ![p] = v]
  <2>1. MovedOn(p) \in ProcessType /\ MovedOn(p).phase = "idle"
    BY MovedOnType DEF IInv, MovedOn, Idle
  <2> QED BY <2>1, <1>2
<1>4. /\ process' \in [Processes -> ProcessType]
      /\ \A q \in Processes : process'[q] = IF q = p THEN v ELSE R[q]
  BY <1>2, <1>3
<1>5. [status |-> s, attempt |-> process[p].attempt, due |-> FALSE]
        \in [status: Statuses, attempt: 0..MaxAttempts, due: BOOLEAN]
  BY <1>1, RowType DEF Statuses, Open
<1>6. TypeOK'
  <2>1. delivery' \in [Deliveries -> [status: Statuses, attempt: 0..MaxAttempts, due: BOOLEAN]]
    BY <1>5 DEF IInv, TypeOK
  <2> QED BY <1>4, <2>1 DEF IInv, TypeOK, ProcessType
<1>7. \A e \in Deliveries : delivery'[e] = IF e = d
          THEN [status |-> s, attempt |-> process[p].attempt, due |-> FALSE]
          ELSE delivery[e]
  BY DEF IInv, TypeOK
<1>8. /\ \A e \in Deliveries : delivery'[e].attempt <= sends'[e]
      /\ \A e \in Deliveries :
           delivery'[e].status \in Open => delivery'[e].attempt < MaxAttempts
      /\ \A e \in Deliveries :
           delivery'[e].status = "DEAD" => delivery'[e].attempt = MaxAttempts
  BY <1>1, <1>7, WebhookAssumption DEF IInv, AttemptsBacked, Open, Exhausted
<1>9. \A q \in Processes : \A e \in process'[q].on :
        /\ process'[q].phase = "sending" => process'[q].attempt <= sends'[e] + 1
        /\ process'[q].phase = "answered" => process'[q].attempt <= sends'[e]
  BY <1>2, <1>3, <1>4 DEF IInv, AttemptsBacked
<1>10. OneAtATime'
  BY <1>2, <1>3, <1>4 DEF IInv, OneAtATime
<1> QED BY <1>6, <1>8, <1>9, <1>10 DEF IInv, AttemptsBacked

LEMMA RecordAcceptedInv ==
  ASSUME IInv, NEW p \in Processes, RecordAccepted(p)
  PROVE  IInv'
<1>1. PICK d \in process[p].on :
        /\ delivery' = [delivery EXCEPT
             ![d] = [status |-> "DELIVERED", attempt |-> process[p].attempt,
                     due |-> FALSE]]
        /\ process' = [Rescheduled(d, process) EXCEPT ![p] = MovedOn(p)]
  BY DEF RecordAccepted
<1>2. subscription' \in [active: BOOLEAN, failures: Nat]
  BY DEF RecordAccepted, IInv, TypeOK
<1> QED BY <1>1, <1>2, RecordedInv DEF RecordAccepted

LEMMA CountedType ==
  ASSUME TypeOK
  PROVE  Counted \in [active: BOOLEAN, failures: Nat]
<1>1. subscription.active \in BOOLEAN /\ subscription.failures \in Nat
  BY DEF TypeOK
<1>2. (subscription.active /\ subscription.failures + 1 < Threshold) \in BOOLEAN
  OBVIOUS
<1> QED BY <1>1, <1>2 DEF Counted

LEMMA RecordFailureInv ==
  ASSUME IInv, NEW p \in Processes, RecordFailure(p)
  PROVE  IInv'
<1>1. CASE \E d \in process[p].on : ~DeliveredCk(d)
  <2>1. PICK d \in process[p].on : ~DeliveredCk(d)
    BY <1>1
  <2>2. process[p].on = {d}
    BY <2>1 DEF IInv, OneAtATime, RecordFailure
  <2>3. /\ process' = [process EXCEPT ![p] = MovedOn(p)]
        /\ UNCHANGED <<subscription, delivery>>
    BY <2>1, <2>2 DEF RecordFailure
  <2>4. MovedOn(p) \in ProcessType /\ MovedOn(p).phase = "idle"
    BY MovedOnType DEF IInv, MovedOn, Idle
  <2>5. crashes' \in 0..MaxCrashes
    BY DEF RecordFailure, IInv, TypeOK
  <2> QED BY <2>3, <2>4, <2>5, QuietInv DEF RecordFailure
<1>2. CASE \A d \in process[p].on : DeliveredCk(d)
  <2>1. PICK d \in process[p].on :
          /\ delivery' = [delivery EXCEPT
               ![d] = [status |-> IF Exhausted(process[p].attempt) THEN "DEAD" ELSE "FAILED",
                       attempt |-> process[p].attempt, due |-> FALSE]]
          /\ subscription' = IF Exhausted(process[p].attempt) THEN Counted ELSE subscription
          /\ process' = [Rescheduled(d, process) EXCEPT ![p] = MovedOn(p)]
    BY <1>2 DEF RecordFailure
  <2>2. subscription' \in [active: BOOLEAN, failures: Nat]
    BY <2>1, CountedType DEF IInv, TypeOK
  <2>3. CASE Exhausted(process[p].attempt)
    BY <2>1, <2>2, <2>3, RecordedInv DEF RecordFailure
  <2>4. CASE ~Exhausted(process[p].attempt)
    BY <2>1, <2>2, <2>4, RecordedInv DEF RecordFailure
  <2> QED BY <2>3, <2>4
<1> QED BY <1>1, <1>2

LEMMA SetActiveInv ==
  ASSUME IInv, NEW active \in BOOLEAN, SetActive(active)
  PROVE  IInv'
<1>1. Switched(active) \in [active: BOOLEAN, failures: Nat]
  BY DEF Switched, IInv, TypeOK
<1> QED BY <1>1 DEF SetActive, IInv, TypeOK, AttemptsBacked, OneAtATime

LEMMA ElapseInv ==
  ASSUME IInv, NEW d \in Deliveries, Elapse(d)
  PROVE  IInv'
<1>1. delivery[d] \in [status: Statuses, attempt: 0..MaxAttempts, due: BOOLEAN]
  BY DEF IInv, TypeOK
<1>2. delivery' = [delivery EXCEPT ![d] = [delivery[d] EXCEPT !.due = TRUE]]
  BY DEF Elapse
<1>3. \A e \in Deliveries : /\ delivery'[e].status = delivery[e].status
                            /\ delivery'[e].attempt = delivery[e].attempt
  BY <1>1, <1>2 DEF IInv, TypeOK
<1>4. [delivery[d] EXCEPT !.due = TRUE]
        \in [status: Statuses, attempt: 0..MaxAttempts, due: BOOLEAN]
  BY <1>1
<1>5. TypeOK'
  BY <1>2, <1>4 DEF Elapse, IInv, TypeOK
<1> QED BY <1>3, <1>5 DEF Elapse, IInv, AttemptsBacked, OneAtATime

LEMMA NextInv == IInv /\ [Next]_vars => IInv'
<1> SUFFICES ASSUME IInv, [Next]_vars PROVE IInv'
  OBVIOUS
<1>1. CASE UNCHANGED vars
  BY <1>1 DEF vars, IInv, TypeOK, AttemptsBacked, OneAtATime
<1>2. ASSUME NEW d \in Deliveries, Publish(d) \/ Elapse(d) PROVE IInv'
  BY <1>2, PublishInv, ElapseInv
<1>3. ASSUME NEW active \in BOOLEAN, SetActive(active) PROVE IInv'
  BY <1>3, SetActiveInv
<1>4. ASSUME NEW p \in Desks, NEW d \in Deliveries, Test(p, d) \/ Redeliver(p, d)
      PROVE  IInv'
  BY <1>4, TestInv, RedeliverInv
<1>5. ASSUME NEW p \in Passes, Discover(p) PROVE IInv'
  BY <1>5, DiscoverInv
<1>6. ASSUME NEW p \in Processes, Attempt(p) \/ Crash(p) PROVE IInv'
  BY <1>6, LookInv, ClaimInv, SendInv, RecordAcceptedInv, RecordFailureInv, CrashInv
     DEF Attempt
<1> QED BY <1>1, <1>2, <1>3, <1>4, <1>5, <1>6 DEF Next

LEMMA SpecInv == Spec => []IInv
  BY InitInv, NextInv, PTL DEF Spec

--------------------------------------------------------------------------------
(* Whatever overlaps, dies or comes late, every variable keeps its type; in   *)
(* particular no row and no sender ever counts more attempts than the series  *)
(* has (webhook-delivery.service.ts, 141; backoff.ts, 24).                    *)
THEOREM WebhookTypeOK == Spec => []TypeOK
<1>1. IInv => TypeOK
  BY DEF IInv
<1> QED BY <1>1, SpecInv, PTL

(* A delivery declared dead was really sent as many times as the series has   *)
(* attempts, however many passes run at once and whatever leases run out.     *)
THEOREM DeadWasTried == Spec => []NeverDeadUntried
<1>1. IInv => NeverDeadUntried
  <2> SUFFICES ASSUME IInv, NEW d \in Deliveries, delivery[d].status = "DEAD"
               PROVE  sends[d] >= MaxAttempts
    BY DEF NeverDeadUntried
  <2>1. delivery[d].attempt = MaxAttempts /\ delivery[d].attempt <= sends[d]
    BY DEF IInv, AttemptsBacked
  <2>2. sends[d] \in Nat
    BY DEF IInv, TypeOK
  <2> QED BY <2>1, <2>2, WebhookAssumption
<1> QED BY <1>1, SpecInv, PTL

(* A subscription in service is below the threshold at every moment: the      *)
(* sender that brings the count to it takes it out of service, and a          *)
(* reactivation starts from zero (webhooks-admin.service.ts, 88).             *)
THEOREM ActiveIsBelowThreshold == Spec => []ActiveBelowThreshold
<1>1. Init => ActiveBelowThreshold
  BY WebhookAssumption DEF Init, ActiveBelowThreshold
<1>2. IInv /\ ActiveBelowThreshold /\ [Next]_vars => ActiveBelowThreshold'
  <2> SUFFICES ASSUME IInv, ActiveBelowThreshold, [Next]_vars
               PROVE  ActiveBelowThreshold'
    OBVIOUS
  <2>1. CASE subscription' = subscription
    BY <2>1 DEF ActiveBelowThreshold
  <2>2. ASSUME NEW active \in BOOLEAN, SetActive(active)
        PROVE  ActiveBelowThreshold'
    BY <2>2, WebhookAssumption DEF SetActive, Switched, ActiveBelowThreshold, IInv, TypeOK
  <2>3. ASSUME NEW p \in Processes, RecordAccepted(p)
        PROVE  ActiveBelowThreshold'
    BY <2>3, WebhookAssumption DEF RecordAccepted, ActiveBelowThreshold, IInv, TypeOK
  <2>4. ASSUME NEW p \in Processes, RecordFailure(p)
        PROVE  ActiveBelowThreshold'
    <3>1. subscription' = Counted \/ subscription' = subscription
      BY <2>4 DEF RecordFailure
    <3>2. CASE subscription' = Counted
      BY <3>2, WebhookAssumption DEF Counted, ActiveBelowThreshold
    <3> QED BY <3>1, <3>2, <2>1
  <2> QED BY <2>1, <2>2, <2>3, <2>4
        DEF Next, vars, Publish, Elapse, Test, Redeliver, Discover, Attempt, Look,
            Claim, Send, Crash
<1> QED BY <1>1, <1>2, SpecInv, PTL DEF Spec

(* What the consumer accepted stays accepted unless the administrator asks    *)
(* for it again: the failure of a slower sender is refused by the constraint  *)
(* of the table (migration 23, 128).                                          *)
THEOREM AcceptedStays == Spec => DeliveredStays
<1>1. IInv /\ [Next]_vars =>
        [\A d \in Deliveries :
           delivery[d].status = "DELIVERED" =>
             \/ delivery'[d].status = "DELIVERED"
             \/ delivery'[d].status = "PENDING" /\ manual' = manual + 1]_vars
  <2> SUFFICES ASSUME IInv, Next, NEW d \in Deliveries,
                      delivery[d].status = "DELIVERED"
               PROVE  \/ delivery'[d].status = "DELIVERED"
                      \/ delivery'[d].status = "PENDING" /\ manual' = manual + 1
    OBVIOUS
  <2>1. CASE delivery' = delivery
    BY <2>1
  <2>2. ASSUME NEW e \in Deliveries, Publish(e) \/ Elapse(e)
        PROVE  delivery'[d].status = "DELIVERED"
    BY <2>2 DEF Publish, Elapse, Open, IInv, TypeOK
  <2>3. ASSUME NEW p \in Desks, NEW e \in Deliveries, Test(p, e)
        PROVE  delivery'[d].status = "DELIVERED"
    BY <2>3 DEF Test, IInv, TypeOK
  <2>4. ASSUME NEW p \in Desks, NEW e \in Deliveries, Redeliver(p, e)
        PROVE  \/ delivery'[d].status = "DELIVERED"
               \/ delivery'[d].status = "PENDING" /\ manual' = manual + 1
    BY <2>4 DEF Redeliver, IInv, TypeOK
  <2>5. ASSUME NEW p \in Processes, Claim(p)
        PROVE  delivery'[d].status = "DELIVERED"
    <3>1. PICK e \in process[p].on :
            delivery' = [delivery EXCEPT ![e].due = FALSE] \/ delivery' = delivery
      BY <2>5 DEF Claim
    <3> QED BY <3>1 DEF IInv, TypeOK
  <2>6. ASSUME NEW p \in Processes, RecordAccepted(p)
        PROVE  delivery'[d].status = "DELIVERED"
    BY <2>6 DEF RecordAccepted, IInv, TypeOK
  <2>7. ASSUME NEW p \in Processes, RecordFailure(p)
        PROVE  delivery'[d].status = "DELIVERED"
    <3>1. PICK e \in process[p].on :
            \/ /\ DeliveredCk(e)
               /\ delivery' = [delivery EXCEPT
                    ![e] = [status |-> IF Exhausted(process[p].attempt)
                                         THEN "DEAD" ELSE "FAILED",
                            attempt |-> process[p].attempt, due |-> FALSE]]
            \/ delivery' = delivery
      BY <2>7 DEF RecordFailure
    <3>2. CASE delivery' = delivery
      BY <3>2
    <3>3. CASE DeliveredCk(e) /\ delivery' # delivery
      <4>1. e # d
        BY <3>3 DEF DeliveredCk
      <4> QED BY <3>1, <3>3, <4>1 DEF IInv, TypeOK
    <3> QED BY <3>1, <3>2, <3>3
  <2>8. ASSUME NEW p \in Processes, Crash(p) \/ Send(p) \/ \E e \in Deliveries : Look(p, e)
        PROVE  delivery' = delivery
    BY <2>8 DEF Crash, Send, Look
  <2>9. ASSUME NEW p \in Passes, Discover(p)
        PROVE  delivery' = delivery
    BY <2>9 DEF Discover
  <2>10. ASSUME NEW active \in BOOLEAN, SetActive(active)
         PROVE  delivery' = delivery
    BY <2>10 DEF SetActive
  <2> QED BY <2>1, <2>2, <2>3, <2>4, <2>5, <2>6, <2>7, <2>8, <2>9, <2>10
        DEF Next, Attempt
<1> QED BY <1>1, SpecInv, PTL DEF Spec, DeliveredStays
================================================================================
