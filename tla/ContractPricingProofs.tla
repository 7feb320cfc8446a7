------------------------ MODULE ContractPricingProofs ------------------------
(***************************************************************************)
(* Proofs about ContractPricing, for every table, sheet and bound.         *)
(***************************************************************************)
EXTENDS ContractPricing, SequenceTheorems, FiniteSetTheorems, WellFoundedInduction, TLAPS

-----------------------------------------------------------------------------
(* The engine: what an applied override has behind it.                     *)

(* Only an override that is eligible on the day is ever applied.           *)
LEMMA AppliedIsEligible ==
  ASSUME NEW overridesGiven, NEW key, NEW day, NEW computed, NEW using,
         NEW o \in SelectOverride(overridesGiven, key, day, computed, using).applied
  PROVE  /\ o \in overridesGiven
         /\ o.lineKey = key
         /\ NeedsApproval(o.unitPrice, computed, using) => SecondApproved(o)
BY DEF SelectOverride, Eligible

(* A price that is not the computed one is that of the applied override.   *)
LEMMA SoldAtBacked ==
  ASSUME NEW l, NEW env, NEW exact, NEW computed, NEW choice,
         LET p == SoldAt(l, env, exact, computed, choice).line IN p.unitPrice # p.computed
  PROVE  LET p == SoldAt(l, env, exact, computed, choice).line IN
         /\ p.key = l.key /\ p.computed = computed
         /\ \E o \in choice.applied : o.unitPrice = p.unitPrice
<1> DEFINE unitPrice == IF choice.applied = {} THEN computed
                        ELSE (CHOOSE o \in choice.applied : TRUE).unitPrice
           amount == IF l.kind = "TIERED" /\ choice.applied = {}
                       THEN exact ELSE Fraction(unitPrice * QuantityOf(l, env))
<1>1. SoldAt(l, env, exact, computed, choice) =
        [error |-> choice.error,
         line |-> Priced(l, RecurrenceOf(l), computed, unitPrice, ToCents(amount, env.settings))]
  BY DEF SoldAt
<1> HIDE DEF amount
<1>2. /\ SoldAt(l, env, exact, computed, choice).line.unitPrice = unitPrice
      /\ SoldAt(l, env, exact, computed, choice).line.computed = computed
      /\ SoldAt(l, env, exact, computed, choice).line.key = l.key
  BY <1>1 DEF Priced
<1>3. choice.applied # {}
  BY <1>2
<1>4. PICK o \in choice.applied : o = CHOOSE x \in choice.applied : TRUE
  BY <1>3
<1> QED
  BY <1>2, <1>3, <1>4

(* A regular line is priced as computed, or by an eligible override.       *)
LEMMA RegularLineBacked ==
  ASSUME NEW l, NEW env, NEW day,
         RegularLine(l, env, day).line.unitPrice # RegularLine(l, env, day).line.computed
  PROVE  LET p == RegularLine(l, env, day).line IN
         \E o \in env.overrides :
           /\ o.lineKey = p.key /\ o.unitPrice = p.unitPrice
           /\ NeedsApproval(p.unitPrice, p.computed, env.settings) => SecondApproved(o)
<1> DEFINE exact == Adjusted(Revised(BasePrice(l, env), l, day), l, env)
           computed == ComputedPrice(l, exact, QuantityOf(l, env), env.settings)
           choice == SelectOverride(env.overrides, l.key, day, computed, env.settings)
           p == RegularLine(l, env, day).line
<1> HIDE DEF exact, computed, choice
<1>1. LineError(l, env, day) = Ok
  BY DEF RegularLine, Priced
<1>2. RegularLine(l, env, day) = SoldAt(l, env, exact, computed, choice)
  BY <1>1 DEF RegularLine, PricedExactly, Overridden, exact, computed, choice
<1>3. /\ p.key = l.key /\ p.computed = computed
      /\ \E o \in choice.applied : o.unitPrice = p.unitPrice
  BY <1>2, SoldAtBacked
<1>4. PICK o \in choice.applied : o.unitPrice = p.unitPrice
  BY <1>3
<1>5. o \in SelectOverride(env.overrides, l.key, day, computed, env.settings).applied
  BY <1>4 DEF choice
<1>6. /\ o \in env.overrides
      /\ o.lineKey = l.key
      /\ NeedsApproval(o.unitPrice, computed, env.settings) => SecondApproved(o)
  BY <1>5, AppliedIsEligible
<1> QED
  BY <1>3, <1>4, <1>6

(* A discount has no unit price.                                           *)
LEMMA DiscountLineFlat ==
  ASSUME NEW l, NEW regular, NEW env
  PROVE  LET p == DiscountLine(l, regular, env).line IN p.unitPrice = 0 /\ p.computed = 0
BY DEF DiscountLine, Priced

(* The lines of a result are those of the regular and discount lines.      *)
LEMMA LinesOfSchedule ==
  ASSUME NEW lines, NEW env, NEW day, NEW p \in PriceSchedule(lines, env, day).lines
  PROVE  \/ \E l : p = RegularLine(l, env, day).line
         \/ \E l, regular : p = DiscountLine(l, regular, env).line
<1> DEFINE discountLines == [i \in DiscountsOf(lines) |-> lines[i]]
           regular == [i \in RegularOf(lines) |-> RegularLine(lines[i], env, day)]
           priced == {regular[i].line : i \in DOMAIN regular}
           discounts == [i \in DOMAIN discountLines |-> DiscountLine(discountLines[i], priced, env)]
           granted == {discounts[i].line : i \in DOMAIN discounts}
<1>1. p \in Complete(regular, discountLines, env).lines
  <2>1. PriceSchedule(lines, env, day) =
          IF RepeatedKey(lines) THEN NoPrices("INVALID_LINE")
                                ELSE Complete(regular, discountLines, env)
    BY DEF PriceSchedule
  <2> HIDE DEF regular, discountLines
  <2> QED
    BY <2>1 DEF NoPrices
<1>2. p \in WithDiscounts(discountLines, priced, env).lines
  <2> HIDE DEF regular, discountLines
  <2> QED
    BY <1>1 DEF Complete, NoPrices
<1>3. p \in priced \union granted
  <2>1. p \in Discounted(priced, discounts).lines
    <3> HIDE DEF priced
    <3> QED
      BY <1>2 DEF WithDiscounts
  <2> HIDE DEF priced, discounts
  <2> QED
    BY <2>1 DEF Discounted, NoPrices
<1>4. CASE p \in priced
  <2>1. PICK i \in RegularOf(lines) : p = RegularLine(lines[i], env, day).line
    BY <1>4
  <2> QED
    BY <2>1
<1>5. CASE p \in granted
  <2>1. PICK i \in DiscountsOf(lines) : p = DiscountLine(lines[i], priced, env).line
    BY <1>5
  <2> QED
    BY <2>1
<1> QED
  BY <1>3, <1>4, <1>5

(* Whatever the versions, the rules and the overrides: a price that is too *)
(* far from the computed one is that of an override with a second          *)
(* approval (priceAt).                                                     *)
THEOREM EngineBacked ==
  ASSUME NEW versions, NEW env, NEW day, NEW p \in PriceAt(versions, env, day).lines,
         p.unitPrice # p.computed, NeedsApproval(p.unitPrice, p.computed, env.settings)
  PROVE  \E o \in env.overrides :
           o.lineKey = p.key /\ o.unitPrice = p.unitPrice /\ SecondApproved(o)
<1>1. p \in PriceSchedule(SelectSchedule(versions, day).lines, env, day).lines
  BY DEF PriceAt, NoPrices
<1>2. CASE \E l : p = RegularLine(l, env, day).line
  BY <1>2, RegularLineBacked
<1>3. CASE \E l, regular : p = DiscountLine(l, regular, env).line
  BY <1>3, DiscountLineFlat
<1> QED
  BY <1>1, <1>2, <1>3, LinesOfSchedule

(* AppliedIsBacked in every state: the statuses that the service granted   *)
(* when an override was written are never trusted by the engine.           *)
THEOREM PricingBacked == Spec => []AppliedIsBacked
<1>1. AppliedIsBacked
  <2> SUFFICES ASSUME NEW day \in Days, NEW p \in PriceOn(day).lines,
                      p.unitPrice # p.computed,
                      NeedsApproval(p.unitPrice, p.computed, settings)
               PROVE  \E o \in Applicable :
                        o.lineKey = p.key /\ o.unitPrice = p.unitPrice /\ SecondApproved(o)
    BY DEF AppliedIsBacked
  <2> DEFINE engaged == EngineSchedules(schedules)
             env == Env(settings, Applicable, MonthsOn(engaged, day))
  <2>1. p \in PriceAt(engaged, env, day).lines
    BY DEF PriceOn, PriceWith
  <2>2. env.settings = settings /\ env.overrides = Applicable
    BY DEF Env
  <2> QED
    BY <2>1, <2>2, EngineBacked
<1> QED
  BY <1>1, PTL

-----------------------------------------------------------------------------
(* Lists.                                                                  *)

IsList(q) == q \in Seq({q[i] : i \in DOMAIN q})

(* A sequence is a list.                                                   *)
LEMMA SeqIsList ==
  ASSUME NEW S, NEW q \in Seq(S)
  PROVE  IsList(q)
<1>1. PICK n \in Nat : q \in [1..n -> S]
  BY SeqDef
<1>2. q \in [1..n -> {q[i] : i \in DOMAIN q}]
  BY <1>1
<1> QED
  BY <1>2, SeqDef DEF IsList

(* A function with the domain of a list is a list.                         *)
LEMMA SameDomain ==
  ASSUME NEW q, NEW r, IsList(q), DOMAIN r = DOMAIN q, r = [i \in DOMAIN r |-> r[i]]
  PROVE  IsList(r)
<1>1. PICK n \in Nat : q \in [1..n -> {q[i] : i \in DOMAIN q}]
  BY SeqDef DEF IsList
<1> DEFINE R == {r[i] : i \in DOMAIN r}
<1>2. r \in [1..n -> R]
  BY <1>1
<1> HIDE DEF R
<1>3. r \in Seq(R)
  BY <1>2, SeqDef
<1> QED
  BY <1>3, SeqIsList

(* To append keeps the other elements and adds the last one.               *)
LEMMA Appended ==
  ASSUME NEW q, NEW e, IsList(q)
  PROVE  /\ IsList(Append(q, e))
         /\ \A i \in DOMAIN q : i \in DOMAIN Append(q, e) /\ Append(q, e)[i] = q[i]
         /\ \A i \in DOMAIN Append(q, e) : i \in DOMAIN q \/ Append(q, e)[i] = e
<1> DEFINE S == {q[i] : i \in DOMAIN q} \union {e}
<1>1. q \in Seq(S)
  BY SeqMonotonic DEF IsList
<1> HIDE DEF S
<1>2. e \in S
  BY DEF S
<1>3. /\ Append(q, e) \in Seq(S)
      /\ Len(Append(q, e)) = Len(q) + 1
      /\ \A i \in 1..Len(q) : Append(q, e)[i] = q[i]
      /\ Append(q, e)[Len(q) + 1] = e
  BY <1>1, <1>2, AppendProperties
<1>4. /\ Len(q) \in Nat /\ DOMAIN q = 1..Len(q)
      /\ DOMAIN Append(q, e) = 1..(Len(q) + 1)
  BY <1>1, <1>3, LenProperties
<1>5. IsList(Append(q, e))
  BY <1>3, SeqIsList
<1> QED
  BY <1>3, <1>4, <1>5

-----------------------------------------------------------------------------
(* What the rows are: the strengthening of EngagedIsFrozen.                *)

IsVersion(s) ==
  /\ s = [status |-> s.status, validFrom |-> s.validFrom, validTo |-> s.validTo,
          months |-> s.months, note |-> s.note, lines |-> s.lines]
  /\ s.validFrom \in Nat \ {0} /\ s.validTo \in Nat

Versioned == IsList(schedules) /\ \A v \in DOMAIN schedules : IsVersion(schedules[v])

(* A contract that does not exist yet has no version.                      *)
NothingYet == "state" \in DOMAIN sale /\ (HasContract \/ DOMAIN schedules = {})

TasksShaped ==
  /\ DOMAIN task = Users
  /\ \A u \in Users : task[u].op = "activate" => task[u].from \in Nat \ {0}

PInv == Versioned /\ NothingYet /\ TasksShaped

(* A version that is written by the desk or the conversion is a draft.     *)
LEMMA NewVersion ==
  ASSUME NEW lines, NEW from \in Nat \ {0}, NEW to \in Nat, NEW months, NEW note
  PROVE  IsVersion(Version(lines, from, to, months, note))
BY DEF IsVersion, Version

(* A deleted draft is not engaged.                                         *)
LEMMA GoneIsVersion == IsVersion(Gone) /\ ~IsEngaged(Gone)
BY DEF IsVersion, Gone, Version, IsEngaged

(* To close a version keeps its lines, its months and its first day.       *)
LEMMA ClosedVersion ==
  ASSUME NEW s, IsVersion(s), NEW last \in Int, MayClose(s, last)
  PROVE  LET c == Closed(s, last) IN
         /\ IsVersion(c) /\ IsEngaged(c)
         /\ c.lines = s.lines /\ c.validFrom = s.validFrom /\ c.months = s.months
         /\ c.validTo = last /\ last # Forever
         /\ s.validTo = Forever \/ last <= s.validTo
<1>1. last \in Nat \ {0}
  BY DEF MayClose, IsVersion
<1> QED
  BY <1>1 DEF Closed, MayClose, IsVersion, IsEngaged, Forever

(* To activate a version changes its status only.                          *)
LEMMA ActivatedVersion ==
  ASSUME NEW s, IsVersion(s)
  PROVE  IsVersion(Activated(s))
BY DEF IsVersion, Activated

-----------------------------------------------------------------------------
(* Engaging.                                                               *)

(* To engage keeps the shape of the rows, and freezes what is engaged.     *)
LEMMA EngagePreserves ==
  ASSUME PInv, NEW u \in Users, Engage(u)
  PROVE  PInv' /\ FrozenOnceEngaged
<1> DEFINE t == task[u]
           last == PreviousDay(t.from)
<1>1. /\ t.op = "activate" /\ CanEngage(t) /\ schedules' = AfterEngaging(t)
      /\ task' = [task EXCEPT ![u] = Idle] /\ sale' = sale
  BY DEF Engage
<1>2. last \in Int
  BY <1>1 DEF PInv, TasksShaped, PreviousDay
<1>3. DOMAIN schedules' = DOMAIN schedules
  BY <1>1 DEF AfterEngaging
<1>4. ASSUME NEW v \in DOMAIN schedules
      PROVE  schedules'[v] = IF v \in t.closing THEN Closed(schedules[v], last)
                             ELSE IF v = t.version THEN Activated(schedules[v])
                             ELSE schedules[v]
  BY <1>1 DEF AfterEngaging
<1>5. ASSUME NEW v \in DOMAIN schedules
      PROVE  IsVersion(schedules[v]) /\ (v \in t.closing => MayClose(schedules[v], last))
  BY <1>1 DEF PInv, Versioned, CanEngage
<1> HIDE DEF t, last
<1>6. Versioned'
  <2>1. IsList(schedules')
    <3>1. schedules' = [v \in DOMAIN schedules' |-> schedules'[v]]
      BY <1>1 DEF AfterEngaging
    <3> QED
      BY <1>3, <3>1, SameDomain DEF PInv, Versioned
  <2>2. ASSUME NEW v \in DOMAIN schedules
        PROVE  IsVersion(schedules'[v])
    BY <1>2, <1>4, <1>5, ClosedVersion, ActivatedVersion
  <2> QED
    BY <1>3, <2>1, <2>2 DEF Versioned
<1>7. NothingYet' /\ TasksShaped'
  BY <1>1, <1>3 DEF PInv, NothingYet, TasksShaped, HasContract, Idle
<1>8. FrozenOnceEngaged
  <2> SUFFICES ASSUME NEW v \in EngagedVersions
               PROVE  /\ schedules'[v].lines = schedules[v].lines
                      /\ schedules'[v].validFrom = schedules[v].validFrom
                      /\ schedules'[v].months = schedules[v].months
                      /\ IsEngaged(schedules'[v])
                      /\ \/ schedules'[v].validTo = schedules[v].validTo
                         \/ /\ schedules'[v].validTo # Forever
                            /\ \/ schedules[v].validTo = Forever
                               \/ schedules'[v].validTo < schedules[v].validTo
    BY DEF FrozenOnceEngaged
  <2>1. v \in DOMAIN schedules /\ IsEngaged(schedules[v])
    BY DEF EngagedVersions, EngagedAmong
  <2>2. v # t.version
    BY <1>1, <2>1 DEF CanEngage, IsDraft, IsEngaged, t
  <2>3. CASE v \in t.closing
    <3>1. schedules'[v] = Closed(schedules[v], last)
      BY <1>4, <2>1, <2>3
    <3>2. IsVersion(schedules[v]) /\ MayClose(schedules[v], last)
      BY <1>5, <2>1, <2>3
    <3>3. /\ IsEngaged(schedules'[v])
          /\ schedules'[v].lines = schedules[v].lines
          /\ schedules'[v].validFrom = schedules[v].validFrom
          /\ schedules'[v].months = schedules[v].months
          /\ schedules'[v].validTo = last /\ last # Forever
          /\ schedules[v].validTo = Forever \/ last <= schedules[v].validTo
      BY <1>2, <3>1, <3>2, ClosedVersion
    <3>4. schedules[v].validTo \in Nat
      BY <3>2 DEF IsVersion
    <3> QED
      BY <1>2, <3>3, <3>4
  <2>4. CASE v \notin t.closing
    BY <1>4, <2>1, <2>2, <2>4
  <2> QED
    BY <2>3, <2>4
<1> QED
  BY <1>6, <1>7, <1>8 DEF PInv

-----------------------------------------------------------------------------
(* The other writes of a version.                                          *)

(* So does a new draft.                                                    *)
LEMMA CreatePreserves ==
  ASSUME PInv, NEW u \in Users, NEW p \in Periods, NEW lines, CreateDraft(u, p, lines)
  PROVE  PInv' /\ FrozenOnceEngaged
<1> DEFINE e == Version(lines, p.from, p.to, p.months, "desk")
<1>1. /\ schedules' = Append(schedules, e) /\ HasContract
      /\ task' = task /\ sale' = sale
  BY DEF CreateDraft
<1>2. IsVersion(e)
  BY NewVersion, PeriodsAssumption
<1> HIDE DEF e
<1>3. /\ IsList(schedules')
      /\ \A i \in DOMAIN schedules : i \in DOMAIN schedules' /\ schedules'[i] = schedules[i]
      /\ \A i \in DOMAIN schedules' : i \in DOMAIN schedules \/ schedules'[i] = e
  BY <1>1, Appended DEF PInv, Versioned
<1>4. \A i \in DOMAIN schedules' : IsVersion(schedules'[i])
  BY <1>2, <1>3 DEF PInv, Versioned
<1>5. PInv'
  BY <1>1, <1>3, <1>4 DEF PInv, Versioned, NothingYet, TasksShaped, HasContract
<1>6. FrozenOnceEngaged
  BY <1>3 DEF FrozenOnceEngaged, EngagedVersions, EngagedAmong
<1> QED
  BY <1>5, <1>6

(* One draft becomes another version, and the rest stays.                  *)
LEMMA RewritePreserves ==
  ASSUME PInv, NEW v, NEW e, ~IsEngaged(schedules[v]), v \in DOMAIN schedules => IsVersion(e),
         schedules' = [schedules EXCEPT ![v] = e], sale' = sale, TasksShaped'
  PROVE  PInv' /\ FrozenOnceEngaged
<1>1. /\ DOMAIN schedules' = DOMAIN schedules
      /\ schedules' = [i \in DOMAIN schedules' |-> schedules'[i]]
      /\ \A i \in DOMAIN schedules : schedules'[i] = IF i = v THEN e ELSE schedules[i]
  OBVIOUS
<1>2. IsList(schedules')
  BY <1>1, SameDomain DEF PInv, Versioned
<1>3. Versioned'
  BY <1>1, <1>2 DEF PInv, Versioned
<1>4. NothingYet'
  BY <1>1 DEF PInv, NothingYet, HasContract
<1>5. FrozenOnceEngaged
  BY <1>1 DEF FrozenOnceEngaged, EngagedVersions, EngagedAmong
<1> QED
  BY <1>3, <1>4, <1>5 DEF PInv

(* So does an update, which the triggers allow on a draft only.            *)
LEMMA UpdatePreserves ==
  ASSUME PInv, NEW u \in Users, NEW p \in Periods, NEW lines, Update(u, p, lines)
  PROVE  PInv' /\ FrozenOnceEngaged
<1> DEFINE v == task[u].version
           e == [status |-> schedules[v].status, validFrom |-> p.from, validTo |-> p.to,
                 months |-> p.months, note |-> "desk", lines |-> lines]
<1>1. /\ schedules[v].status = "DRAFT"
      /\ schedules' = [schedules EXCEPT ![v] = e]
      /\ task' = [task EXCEPT ![u] = Idle] /\ sale' = sale
  BY DEF Update, Writable, IsDraft
<1>2. IsVersion(e)
  BY PeriodsAssumption DEF IsVersion
<1> HIDE DEF v, e
<1>3. TasksShaped'
  BY <1>1 DEF PInv, TasksShaped, Idle
<1>4. ~IsEngaged(schedules[v])
  BY <1>1 DEF IsEngaged
<1> QED
  BY <1>1, <1>2, <1>3, <1>4, RewritePreserves

(* So does the deletion of a draft.                                        *)
LEMMA DeletePreserves ==
  ASSUME PInv, NEW u \in Users, NEW v, DeleteDraft(u, v)
  PROVE  PInv' /\ FrozenOnceEngaged
<1>1. /\ schedules[v].status = "DRAFT"
      /\ schedules' = [schedules EXCEPT ![v] = Gone] /\ task' = task /\ sale' = sale
  BY DEF DeleteDraft, IsDraft
<1>2. TasksShaped'
  BY <1>1 DEF PInv, TasksShaped
<1>3. ~IsEngaged(schedules[v])
  BY <1>1 DEF IsEngaged
<1> QED
  BY <1>1, <1>2, <1>3, GoneIsVersion, RewritePreserves

(* So does the conversion, which finds no version.                         *)
LEMMA ConvertPreserves ==
  ASSUME PInv, NEW start \in Starts, Convert(start)
  PROVE  PInv' /\ FrozenOnceEngaged
<1>1. /\ sale.state = "accepted" /\ sale' = [sale EXCEPT !.state = "converted"]
      /\ schedules' = <<InitialVersion(start)>> /\ task' = task
  BY DEF Convert
<1>2. DOMAIN schedules = {}
  BY <1>1 DEF PInv, NothingYet, HasContract
<1>3. sale'.state = "converted" /\ "state" \in DOMAIN sale'
  BY <1>1 DEF PInv, NothingYet
<1>4. IsVersion(InitialVersion(start))
  BY PeriodsAssumption, NewVersion DEF InitialVersion, Forever
<1>5. schedules' \in Seq({InitialVersion(start)}) /\ Len(schedules') = 1
  BY <1>1
<1>6. DOMAIN schedules' = 1..1 /\ schedules'[1] = InitialVersion(start)
  BY <1>1
<1>7. Versioned'
  BY <1>4, <1>5, <1>6, SeqIsList DEF Versioned
<1>8. NothingYet' /\ TasksShaped'
  BY <1>1, <1>3 DEF PInv, NothingYet, HasContract, TasksShaped
<1>9. FrozenOnceEngaged
  BY <1>2 DEF FrozenOnceEngaged, EngagedVersions, EngagedAmong
<1> QED
  BY <1>7, <1>8, <1>9 DEF PInv

-----------------------------------------------------------------------------
(* The steps that write no version.                                        *)

(* A step that leaves the versions alone keeps the shape and freezes what  *)
(* is engaged.                                                             *)
LEMMA SameVersions ==
  ASSUME PInv, schedules' = schedules, NothingYet', TasksShaped'
  PROVE  PInv' /\ FrozenOnceEngaged
BY DEF PInv, Versioned, FrozenOnceEngaged, EngagedVersions, EngagedAmong

(* Before the conversion there is no version to change.                    *)
LEMMA SaleSteps ==
  ASSUME PInv, UNCHANGED <<schedules, task>>,
         (\E offer \in Offers : Choose(offer)) \/ Accept
  PROVE  PInv' /\ FrozenOnceEngaged
<1>1. sale.state = "open" /\ "state" \in DOMAIN sale'
  BY DEF Choose, Accept, PInv, NothingYet
<1>2. DOMAIN schedules = {}
  BY <1>1 DEF PInv, NothingYet, HasContract
<1>3. NothingYet' /\ TasksShaped'
  BY <1>1, <1>2 DEF PInv, NothingYet, TasksShaped
<1> QED
  BY <1>3, SameVersions

(* So does the reading of a draft that is to be activated.                 *)
LEMMA BeginActivatePreserves ==
  ASSUME PInv, NEW u \in Users, NEW v \in DOMAIN schedules, BeginActivate(u, v)
  PROVE  PInv' /\ FrozenOnceEngaged
<1>1. /\ schedules' = schedules /\ sale' = sale
      /\ \E closing : task' = [task EXCEPT ![u] =
            [op |-> "activate", version |-> v, from |-> schedules[v].validFrom,
             closing |-> closing]]
  BY DEF BeginActivate
<1>2. schedules[v].validFrom \in Nat \ {0}
  BY DEF PInv, Versioned, IsVersion
<1>3. TasksShaped'
  BY <1>1, <1>2 DEF PInv, TasksShaped
<1> QED
  BY <1>1, <1>3, SameVersions DEF PInv, NothingYet, HasContract

(* A task of another kind, or none.                                        *)
LEMMA OtherTasks ==
  ASSUME PInv, NEW u \in Users, NEW t, t.op # "activate",
         task' = [task EXCEPT ![u] = t], UNCHANGED <<sale, schedules>>
  PROVE  PInv' /\ FrozenOnceEngaged
<1>1. TasksShaped'
  BY DEF PInv, TasksShaped
<1> QED
  BY <1>1, SameVersions DEF PInv, NothingYet, HasContract

(* So does all that is done to the overrides.                              *)
LEMMA OverridingPreserves ==
  ASSUME PInv, NEW u \in Users, Overriding(u)
  PROVE  PInv' /\ FrozenOnceEngaged
<1>1. ASSUME NEW c \in Concessions, BeginOverride(u, c)
      PROVE  PInv' /\ FrozenOnceEngaged
  <2>1. /\ UNCHANGED <<sale, schedules>>
        /\ \E required : task' = [task EXCEPT ![u] =
              [op |-> "override", lineKey |-> c.lineKey, unitPrice |-> c.unitPrice,
               validFrom |-> c.validFrom, validTo |-> c.validTo, required |-> required]]
    BY <1>1 DEF BeginOverride
  <2>2. PICK required : task' = [task EXCEPT ![u] =
              [op |-> "override", lineKey |-> c.lineKey, unitPrice |-> c.unitPrice,
               validFrom |-> c.validFrom, validTo |-> c.validTo, required |-> required]]
    BY <2>1
  <2> QED
    BY <2>1, <2>2, OtherTasks
<1>2. CASE InsertOverride(u)
  <2>1. task' = [task EXCEPT ![u] = Idle] /\ UNCHANGED <<sale, schedules>>
    BY <1>2 DEF InsertOverride
  <2>2. Idle.op # "activate"
    BY DEF Idle
  <2> QED
    BY <2>1, <2>2, OtherTasks
<1>3. ASSUME UNCHANGED <<sale, schedules, task>>
      PROVE  PInv' /\ FrozenOnceEngaged
  BY <1>3, SameVersions DEF PInv, NothingYet, HasContract, TasksShaped
<1>4. ASSUME NEW i, ApproveOverride(u, i) \/ RejectOverride(u, i) \/ CancelOverride(u, i)
      PROVE  UNCHANGED <<sale, schedules, task>>
  BY <1>4 DEF ApproveOverride, RejectOverride, CancelOverride
<1> QED
  BY <1>1, <1>2, <1>3, <1>4 DEF Overriding

(* Every operation on the versions keeps the shape and freezes what is     *)
(* engaged.                                                                *)
LEMMA DraftsPreserve ==
  ASSUME PInv, NEW u \in Users, Drafts(u)
  PROVE  PInv' /\ FrozenOnceEngaged
<1>1. ASSUME NEW v, BeginUpdate(u, v)
      PROVE  PInv' /\ FrozenOnceEngaged
  <2>1. /\ task' = [task EXCEPT ![u] = [op |-> "update", version |-> v]]
        /\ UNCHANGED <<sale, schedules>>
    BY <1>1 DEF BeginUpdate
  <2> QED
    BY <2>1, OtherTasks
<1>2. CASE Refused(u)
  <2>1. task' = [task EXCEPT ![u] = Idle] /\ UNCHANGED <<sale, schedules>>
    BY <1>2 DEF Refused
  <2>2. Idle.op # "activate"
    BY DEF Idle
  <2> QED
    BY <2>1, <2>2, OtherTasks
<1> QED
  BY <1>1, <1>2, CreatePreserves, UpdatePreserves, DeletePreserves, BeginActivatePreserves,
     EngagePreserves DEF Drafts

(* A contract starts without any version.                                  *)
LEMMA InitShaped == Init => PInv
<1> SUFFICES ASSUME Init
             PROVE  PInv
  OBVIOUS
<1>1. schedules = <<>> /\ task = [u \in Users |-> Idle] /\ "state" \in DOMAIN sale
  BY DEF Init, NoSale
<1>2. schedules \in Seq({}) /\ DOMAIN schedules = {}
  BY <1>1
<1>3. Versioned
  BY <1>2, SeqIsList DEF Versioned
<1> QED
  BY <1>1, <1>2, <1>3 DEF PInv, NothingYet, TasksShaped, Idle

(* Every step keeps the shape and freezes what is engaged.                 *)
LEMMA StepShaped == PInv /\ [Next]_vars => PInv' /\ [FrozenOnceEngaged]_vars
<1> SUFFICES ASSUME PInv, [Next]_vars
             PROVE  PInv' /\ [FrozenOnceEngaged]_vars
  OBVIOUS
<1>1. CASE UNCHANGED vars
  BY <1>1, SameVersions DEF vars, PInv, NothingYet, HasContract, TasksShaped
<1>2. CASE (\E offer \in Offers : Choose(offer)) \/ Accept
  <2>1. UNCHANGED <<schedules, task>>
    BY <1>2 DEF Choose, Accept
  <2> QED
    BY <1>2, <2>1, SaleSteps
<1>3. CASE \E start \in Starts : Convert(start)
  BY <1>3, ConvertPreserves
<1>4. CASE \E u \in Users : Drafts(u) \/ Overriding(u)
  BY <1>4, DraftsPreserve, OverridingPreserves
<1>5. CASE \E using \in AllSettings : ChangeSettings(using)
  <2>1. UNCHANGED <<sale, schedules, task>>
    BY <1>5 DEF ChangeSettings
  <2> QED
    BY <2>1, SameVersions DEF PInv, NothingYet, HasContract, TasksShaped
<1> QED
  BY <1>1, <1>2, <1>3, <1>4, <1>5 DEF Next

(* EngagedIsFrozen: an engaged version is immutable whatever the desk read *)
(* before it was engaged, because every write checks the row again.        *)
THEOREM PricingEngagedIsFrozen == Spec => EngagedIsFrozen
<1>1. Spec => []PInv
  BY InitShaped, StepShaped, PTL DEF Spec
<1>2. PInv /\ [Next]_vars => [FrozenOnceEngaged]_vars
  BY StepShaped
<1> QED
  BY <1>1, <1>2, PTL DEF Spec, EngagedIsFrozen

-----------------------------------------------------------------------------
(* The prices of the past.                                                 *)

(* What an activation read to close it was engaged, and so still is.       *)
ClosingEngaged ==
  \A u \in Users : task[u].op = "activate" => task[u].closing \subseteq EngagedVersions

(* What is engaged stays engaged.                                          *)
LEMMA EngagedStay ==
  ASSUME PInv, PInv', FrozenOnceEngaged, DOMAIN schedules \subseteq DOMAIN schedules'
  PROVE  EngagedVersions \subseteq EngagedVersions'
BY DEF FrozenOnceEngaged, EngagedVersions, EngagedAmong

(* No step removes a row: a draft that is deleted keeps its place.         *)
LEMMA RowsStay ==
  ASSUME PInv, Next
  PROVE  DOMAIN schedules \subseteq DOMAIN schedules'
<1>1. ASSUME NEW u \in Users, NEW p \in Periods, NEW lines, CreateDraft(u, p, lines)
      PROVE  DOMAIN schedules \subseteq DOMAIN schedules'
  <2> DEFINE e == Version(lines, p.from, p.to, p.months, "desk")
  <2>1. schedules' = Append(schedules, e)
    BY <1>1 DEF CreateDraft
  <2> HIDE DEF e
  <2> QED
    BY <2>1, Appended DEF PInv, Versioned
<1>2. ASSUME NEW u \in Users, Engage(u)
      PROVE  DOMAIN schedules \subseteq DOMAIN schedules'
  BY <1>2 DEF Engage, AfterEngaging
<1>3. ASSUME NEW start, Convert(start)
      PROVE  DOMAIN schedules \subseteq DOMAIN schedules'
  BY <1>3 DEF Convert, PInv, NothingYet, HasContract
<1>4. ASSUME NEW u \in Users, Drafts(u)
      PROVE  DOMAIN schedules \subseteq DOMAIN schedules'
  <2>1. ASSUME NEW p, NEW lines, Update(u, p, lines)
        PROVE  DOMAIN schedules \subseteq DOMAIN schedules'
    BY <2>1 DEF Update
  <2>2. ASSUME NEW v, \/ DeleteDraft(u, v) \/ BeginUpdate(u, v) \/ BeginActivate(u, v)
        PROVE  DOMAIN schedules \subseteq DOMAIN schedules'
    BY <2>2 DEF DeleteDraft, BeginUpdate, BeginActivate
  <2>3. CASE Refused(u)
    BY <2>3 DEF Refused
  <2> QED
    BY <1>1, <1>2, <1>4, <2>1, <2>2, <2>3 DEF Drafts
<1>5. ASSUME NEW u \in Users, Overriding(u)
      PROVE  schedules' = schedules
  BY <1>5 DEF Overriding, BeginOverride, InsertOverride, ApproveOverride, RejectOverride,
     CancelOverride
<1>6. ASSUME \/ \E offer \in Offers : Choose(offer)
             \/ Accept
             \/ \E using \in AllSettings : ChangeSettings(using)
      PROVE  schedules' = schedules
  BY <1>6 DEF Choose, Accept, ChangeSettings
<1> QED
  BY <1>3, <1>4, <1>5, <1>6 DEF Next

(* Only an activation that begins reads what it will close.                *)
LEMMA OnlyBeginReads ==
  ASSUME TasksShaped, Next, NEW u \in Users, task'[u].op = "activate"
  PROVE  \/ task'[u] = task[u]
         \/ schedules' = schedules /\ task'[u].closing \subseteq EngagedVersions
<1>1. ASSUME NEW w \in Users, NEW v, BeginActivate(w, v)
      PROVE  \/ task'[u] = task[u]
             \/ schedules' = schedules /\ task'[u].closing \subseteq EngagedVersions
  BY <1>1 DEF BeginActivate, TasksShaped
<1>2. ASSUME NEW w \in Users, NEW t, t.op # "activate", task' = [task EXCEPT ![w] = t]
      PROVE  task'[u] = task[u]
  BY <1>2 DEF TasksShaped
<1>3. Idle.op # "activate"
  BY DEF Idle
<1>4. ASSUME NEW w \in Users, Drafts(w)
      PROVE  \/ task'[u] = task[u]
             \/ schedules' = schedules /\ task'[u].closing \subseteq EngagedVersions
  <2>1. ASSUME NEW p, NEW lines, CreateDraft(w, p, lines) \/ Update(w, p, lines)
        PROVE  task'[u] = task[u]
    BY <1>2, <1>3, <2>1 DEF CreateDraft, Update
  <2>2. ASSUME NEW v, BeginUpdate(w, v)
        PROVE  task'[u] = task[u]
    BY <1>2, <2>2 DEF BeginUpdate
  <2>3. ASSUME NEW v, DeleteDraft(w, v)
        PROVE  task'[u] = task[u]
    BY <2>3 DEF DeleteDraft
  <2>4. CASE Engage(w) \/ Refused(w)
    BY <1>2, <1>3, <2>4 DEF Engage, Refused
  <2> QED
    BY <1>1, <1>4, <2>1, <2>2, <2>3, <2>4 DEF Drafts
<1>5. ASSUME NEW w \in Users, Overriding(w)
      PROVE  task'[u] = task[u]
  <2>1. ASSUME NEW c, BeginOverride(w, c)
        PROVE  task'[u] = task[u]
    <3>1. PICK required : task' = [task EXCEPT ![w] =
              [op |-> "override", lineKey |-> c.lineKey, unitPrice |-> c.unitPrice,
               validFrom |-> c.validFrom, validTo |-> c.validTo, required |-> required]]
      BY <2>1 DEF BeginOverride
    <3> QED
      BY <1>2, <3>1
  <2>2. CASE InsertOverride(w)
    BY <1>2, <1>3, <2>2 DEF InsertOverride
  <2>3. ASSUME NEW i, ApproveOverride(w, i) \/ RejectOverride(w, i) \/ CancelOverride(w, i)
        PROVE  task'[u] = task[u]
    BY <2>3 DEF ApproveOverride, RejectOverride, CancelOverride
  <2> QED
    BY <1>5, <2>1, <2>2, <2>3 DEF Overriding
<1>6. ASSUME \/ \E offer \in Offers : Choose(offer)
             \/ Accept
             \/ \E start \in Starts : Convert(start)
             \/ \E using \in AllSettings : ChangeSettings(using)
      PROVE  task'[u] = task[u]
  BY <1>6 DEF Choose, Accept, Convert, ChangeSettings
<1> QED
  BY <1>4, <1>5, <1>6 DEF Next

(* The versions that an activation is to close stay engaged.               *)
LEMMA StepClosing == PInv /\ ClosingEngaged /\ [Next]_vars => ClosingEngaged'
<1> SUFFICES ASSUME PInv, ClosingEngaged, [Next]_vars
             PROVE  ClosingEngaged'
  OBVIOUS
<1>1. CASE UNCHANGED vars
  BY <1>1 DEF vars, ClosingEngaged, EngagedVersions, EngagedAmong
<1>2. CASE Next /\ vars' # vars
  <2>1. PInv' /\ FrozenOnceEngaged
    BY <1>2, StepShaped
  <2>2. EngagedVersions \subseteq EngagedVersions'
    BY <1>2, <2>1, RowsStay, EngagedStay
  <2> SUFFICES ASSUME NEW u \in Users, task'[u].op = "activate"
               PROVE  task'[u].closing \subseteq EngagedVersions'
    BY DEF ClosingEngaged
  <2>3. \/ task'[u] = task[u]
        \/ schedules' = schedules /\ task'[u].closing \subseteq EngagedVersions
    BY <1>2, OnlyBeginReads DEF PInv
  <2> QED
    BY <2>2, <2>3 DEF ClosingEngaged
<1> QED
  BY <1>1, <1>2

(* The versions that the engine finds on a day.                            *)
Covering(versions, day) == {v \in DOMAIN versions : Covers(versions[v], day)}

(* When one version covers the day, the selection has no error.            *)
LEMMA OneCovers ==
  ASSUME NEW versions, NEW day, IsFiniteSet(DOMAIN versions)
  PROVE  SelectError(versions, day) = Ok <=> \E e : Covering(versions, day) = {e}
<1>1. IsFiniteSet(Covering(versions, day))
  BY FS_Subset DEF Covering
<1>2. Cardinality(Covering(versions, day)) = 1 <=> \E e : Covering(versions, day) = {e}
  BY <1>1, FS_Singleton
<1>3. Cardinality(Covering(versions, day)) \in Nat
  BY <1>1, FS_CardinalityType
<1> DEFINE n == Cardinality(Covering(versions, day))
<1>4. SelectError(versions, day) =
        CASE n = 0 -> "NO_SCHEDULE" [] n = 1 -> Ok [] OTHER -> "OVERLAPPING_SCHEDULES"
  BY DEF SelectError, Covering
<1> HIDE DEF n
<1>5. SelectError(versions, day) = Ok <=> n = 1
  BY <1>3, <1>4 DEF Ok
<1> QED
  BY <1>2, <1>5 DEF n

(* And it gives that version.                                              *)
LEMMA SelectsTheOne ==
  ASSUME NEW versions, NEW day, NEW e, Covering(versions, day) = {e}
  PROVE  SelectSchedule(versions, day) = versions[e]
BY DEF SelectSchedule, Covering

(* The price of a day depends on the lines and the months of the version   *)
(* that covers it, and on no other version.                                *)
LEMMA SamePrice ==
  ASSUME NEW before, NEW after, NEW applied, NEW day, NEW e,
         IsFiniteSet(EngagedAmong(before)), IsFiniteSet(EngagedAmong(after)),
         Covering(EngineSchedules(before), day) = {e},
         Covering(EngineSchedules(after), day) = {e},
         after[e].lines = before[e].lines, after[e].months = before[e].months
  PROVE  PriceWith(after, applied, day) = PriceWith(before, applied, day)
<1> DEFINE b == EngineSchedules(before)
           a == EngineSchedules(after)
<1>1. /\ DOMAIN b = EngagedAmong(before) /\ DOMAIN a = EngagedAmong(after)
      /\ e \in DOMAIN a /\ e \in DOMAIN b
  BY DEF EngineSchedules, Covering
<1>2. a[e] = after[e] /\ b[e] = before[e]
  BY <1>1 DEF EngineSchedules
<1>3. PriceWith(after, applied, day) = PriceAt(a, Env(settings, applied, MonthsOn(a, day)), day)
  BY DEF PriceWith
<1>4. PriceWith(before, applied, day) = PriceAt(b, Env(settings, applied, MonthsOn(b, day)), day)
  BY DEF PriceWith
<1>5. Covering(a, day) = {e} /\ Covering(b, day) = {e}
  OBVIOUS
<1>6. IsFiniteSet(DOMAIN a) /\ IsFiniteSet(DOMAIN b)
  BY <1>1
<1> HIDE DEF a, b
<1>7. SelectError(a, day) = Ok /\ SelectError(b, day) = Ok
  BY <1>5, <1>6, OneCovers
<1>8. SelectSchedule(a, day) = after[e] /\ SelectSchedule(b, day) = before[e]
  BY <1>2, <1>5, SelectsTheOne
<1>9. MonthsOn(a, day) = after[e].months /\ MonthsOn(b, day) = before[e].months
  BY <1>7, <1>8 DEF MonthsOn
<1> QED
  BY <1>3, <1>4, <1>7, <1>8, <1>9 DEF PriceAt

(* The engaged versions are finitely many.                                 *)
LEMMA EngagedFinite ==
  ASSUME NEW versions, IsList(versions)
  PROVE  IsFiniteSet(EngagedAmong(versions))
<1>1. PICK n \in Nat : DOMAIN versions = 1..n
  BY SeqDef DEF IsList
<1>2. IsFiniteSet(1..n)
  BY FS_Interval
<1> QED
  BY <1>1, <1>2, FS_Subset DEF EngagedAmong

(* Two versions that cover the same day overlap.                           *)
LEMMA SameDayOverlaps ==
  ASSUME NEW s, NEW t, IsVersion(s), IsVersion(t), NEW day \in Int, Covers(s, day), Covers(t, day)
  PROVE  Overlaps(s, t)
BY DEF Covers, Overlaps, IsVersion

(* Closing a version the day before a later day leaves what it covered.    *)
LEMMA ClosedCovers ==
  ASSUME NEW s, IsVersion(s), NEW last \in Int, MayClose(s, last), NEW day \in Int, day <= last
  PROVE  Covers(Closed(s, last), day) <=> Covers(s, day)
<1>1. s.validFrom \in Nat \ {0} /\ s.validTo \in Nat
  BY DEF IsVersion
<1>2. Closed(s, last).validFrom = s.validFrom /\ Closed(s, last).validTo = last
  BY DEF Closed
<1> QED
  BY <1>1, <1>2 DEF Covers, MayClose

(* What covers an earlier day is what covered it before the activation.    *)
LEMMA SameCovering ==
  ASSUME PInv, ClosingEngaged, NEW u \in Users, Engage(u),
         NEW day \in Int, day < task[u].from,
         NEW e, Covering(EngineSchedules(schedules), day) = {e}
  PROVE  Covering(EngineSchedules(schedules'), day) = {e}
<1> DEFINE t == task[u]
           last == PreviousDay(t.from)
<1>1. /\ t.op = "activate" /\ CanEngage(t) /\ schedules' = AfterEngaging(t)
      /\ ~IsEngaged(schedules[t.version])
  BY DEF Engage, CanEngage, IsDraft, IsEngaged
<1>2. last \in Int /\ day <= last /\ t.closing \subseteq EngagedVersions
  BY <1>1 DEF PInv, TasksShaped, PreviousDay, ClosingEngaged
<1>3. /\ PInv' /\ FrozenOnceEngaged
      /\ DOMAIN schedules' = DOMAIN schedules
  BY <1>1, EngagePreserves DEF AfterEngaging
<1>4. ASSUME NEW v \in DOMAIN schedules
      PROVE  /\ IsVersion(schedules[v]) /\ IsVersion(schedules'[v])
             /\ v \in t.closing => /\ schedules'[v] = Closed(schedules[v], last)
                                   /\ MayClose(schedules[v], last)
             /\ v \notin t.closing /\ v # t.version => schedules'[v] = schedules[v]
  <2>1. IsVersion(schedules[v]) /\ IsVersion(schedules'[v])
    BY <1>3 DEF PInv, Versioned
  <2>2. v \in t.closing => MayClose(schedules[v], last)
    BY <1>1 DEF CanEngage
  <2>3. /\ v \in t.closing => schedules'[v] = Closed(schedules[v], last)
        /\ v \notin t.closing /\ v # t.version => schedules'[v] = schedules[v]
    BY <1>1 DEF AfterEngaging
  <2> QED
    BY <2>1, <2>2, <2>3
<1>5. NoOverlap(schedules')
  BY <1>1 DEF CanEngage
<1> HIDE DEF t, last
<1>6. ASSUME NEW v \in EngagedVersions
      PROVE  /\ v \in DOMAIN schedules /\ v \in EngagedAmong(schedules')
             /\ Covers(schedules'[v], day) <=> Covers(schedules[v], day)
  <2>1. v \in DOMAIN schedules /\ IsEngaged(schedules[v]) /\ v # t.version
    BY <1>1 DEF EngagedVersions, EngagedAmong, t
  <2>2. IsEngaged(schedules'[v])
    BY <1>3 DEF FrozenOnceEngaged
  <2>3. CASE v \in t.closing
    <3>1. /\ schedules'[v] = Closed(schedules[v], last) /\ MayClose(schedules[v], last)
          /\ IsVersion(schedules[v])
      BY <1>4, <2>1, <2>3
    <3>2. Covers(Closed(schedules[v], last), day) <=> Covers(schedules[v], day)
      BY <1>2, <3>1, ClosedCovers
    <3> QED
      BY <1>3, <2>1, <2>2, <3>1, <3>2 DEF EngagedAmong
  <2>4. CASE v \notin t.closing
    BY <1>3, <1>4, <2>1, <2>2, <2>4 DEF EngagedAmong
  <2> QED
    BY <2>3, <2>4
<1>7. /\ e \in EngagedVersions /\ Covers(schedules[e], day)
      /\ \A v \in EngagedVersions : Covers(schedules[v], day) => v = e
  BY DEF Covering, EngineSchedules, EngagedVersions
<1>8. e \in EngagedAmong(schedules') /\ Covers(schedules'[e], day)
  BY <1>6, <1>7
<1>9. ASSUME NEW v \in EngagedAmong(schedules'), Covers(schedules'[v], day)
      PROVE  v = e
  <2>1. CASE v \in EngagedVersions
    BY <1>6, <1>7, <1>9, <2>1
  <2>2. CASE v \notin EngagedVersions
    <3>1. v \in DOMAIN schedules' /\ e \in DOMAIN schedules' /\ IsEngaged(schedules'[v])
          /\ IsEngaged(schedules'[e])
      BY <1>8 DEF EngagedAmong
    <3>2. IsVersion(schedules'[v]) /\ IsVersion(schedules'[e])
      BY <1>3, <1>4, <3>1
    <3>3. Overlaps(schedules'[v], schedules'[e])
      BY <1>8, <1>9, <3>2, SameDayOverlaps
    <3> QED
      BY <1>5, <3>1, <3>3 DEF NoOverlap
  <2> QED
    BY <2>1, <2>2
<1>10. Covering(EngineSchedules(schedules'), day) =
         {v \in EngagedAmong(schedules') : Covers(schedules'[v], day)}
  BY DEF Covering, EngineSchedules
<1> QED
  BY <1>8, <1>9, <1>10

(* To engage changes no price of an earlier day that is covered.           *)
LEMMA EngagingKeepsPrices ==
  ASSUME PInv, ClosingEngaged, NEW u \in Users, Engage(u)
  PROVE  \A day \in Days, after \in {schedules'} :
           day < task[u].from /\ SelectError(EngineSchedules(schedules), day) = Ok =>
             PriceWith(after, Applicable, day) = PriceOn(day)
<1>1. PInv' /\ FrozenOnceEngaged
  BY EngagePreserves
<1>2. IsFiniteSet(EngagedAmong(schedules)) /\ IsFiniteSet(EngagedAmong(schedules'))
  BY <1>1, EngagedFinite DEF PInv, Versioned
<1> SUFFICES ASSUME NEW day \in Days, day < task[u].from,
                    SelectError(EngineSchedules(schedules), day) = Ok
             PROVE  PriceWith(schedules', Applicable, day) = PriceOn(day)
  OBVIOUS
<1>3. day \in Int
  BY PeriodsAssumption DEF Days
<1>4. DOMAIN EngineSchedules(schedules) = EngagedAmong(schedules)
  BY DEF EngineSchedules
<1>5. PICK e : Covering(EngineSchedules(schedules), day) = {e}
  BY <1>2, <1>4, OneCovers
<1>6. Covering(EngineSchedules(schedules'), day) = {e}
  BY <1>3, <1>5, SameCovering
<1>7. e \in EngagedVersions
  BY <1>5 DEF Covering, EngineSchedules, EngagedVersions
<1>8. schedules'[e].lines = schedules[e].lines /\ schedules'[e].months = schedules[e].months
  BY <1>1, <1>7 DEF FrozenOnceEngaged
<1> QED
  BY <1>2, <1>5, <1>6, <1>8, SamePrice DEF PriceOn

(* EngagingKeepsThePast: nothing that others engage, draft or rewrite      *)
(* between the reading of an activation and its write lets that write      *)
(* change the price of an earlier day.  What it closes was engaged when it *)
(* was read and is frozen since, and the exclusion constraint keeps the    *)
(* new version, whatever its dates have become, off the days of the others.*)
THEOREM PricingPastStays == Spec => EngagingKeepsThePast
<1>1. Init => ClosingEngaged
  BY DEF Init, ClosingEngaged, Idle
<1>2. Spec => [](PInv /\ ClosingEngaged)
  BY <1>1, InitShaped, StepShaped, StepClosing, PTL DEF Spec
<1>3. PInv /\ ClosingEngaged => PastPriceStays
  BY EngagingKeepsPrices DEF PastPriceStays
<1> QED
  BY <1>2, <1>3, PTL DEF Spec, EngagingKeepsThePast

-----------------------------------------------------------------------------
(* The least and the greatest of a set of numbers, and the sum of a        *)
(* function over a finite set, taken apart one element at a time.          *)

(* A set of naturals that is not empty has a least element.                *)
LEMMA LeastNatural ==
  ASSUME NEW T \in SUBSET Nat, T # {}
  PROVE  \E m \in T : \A k \in T : m <= k
<1> DEFINE R == OpToRel(<, Nat)
<1>1. IsWellFoundedOn(R, Nat)
  BY NatLessThanWellFounded
<1>2. ASSUME NEW x \in Nat, NEW y \in Nat, y < x
      PROVE  <<y, x>> \in R
  BY <1>2 DEF OpToRel
<1> HIDE DEF R
<1>3. PICK m \in T : \A y \in T : ~(<<y, m>> \in R)
  BY <1>1, WFMin
<1>4. ASSUME NEW k \in T
      PROVE  m <= k
  <2>1. m \in Nat /\ k \in Nat
    OBVIOUS
  <2>2. ~(k < m)
    BY <1>2, <1>3, <2>1
  <2> QED
    BY <2>1, <2>2
<1> QED
  BY <1>3, <1>4

(* Induction over an interval, with a set in place of a predicate.         *)
LEMMA UpTo ==
  ASSUME NEW n \in Nat, NEW T, 0 \in T, \A k \in 1..n : k - 1 \in T => k \in T
  PROVE  0..n \subseteq T
<1> SUFFICES ASSUME 0..n \ T # {}
             PROVE  FALSE
  OBVIOUS
<1>0. 0..n \ T \in SUBSET Nat
  OBVIOUS
<1>1. PICK m \in 0..n \ T : \A k \in 0..n \ T : m <= k
  BY <1>0, LeastNatural
<1>2. m \in 1..n /\ m - 1 \in 0..n /\ m - 1 < m
  BY <1>1
<1>3. m - 1 \in T
  BY <1>1, <1>2
<1> QED
  BY <1>1, <1>2, <1>3

(* The Min of the community modules is the least element.                  *)
LEMMA MinIs ==
  ASSUME NEW S \in SUBSET Nat, S # {}
  PROVE  Min(S) \in S /\ \A k \in S : Min(S) <= k
<1>1. \E m \in S : \A k \in S : m =< k
  BY LeastNatural
<1> QED
  BY <1>1 DEF Min

(* The Max of the community modules is the greatest element.               *)
LEMMA MaxIs ==
  ASSUME NEW S, NEW m \in S, S \subseteq Nat, \A k \in S : k <= m
  PROVE  Max(S) = m
<1>1. \A y \in S : m >= y
  OBVIOUS
<1>2. Max(S) \in S /\ \A y \in S : Max(S) >= y
  BY <1>1 DEF Max
<1>3. Max(S) \in Nat /\ m \in Nat /\ Max(S) >= m /\ m >= Max(S)
  BY <1>1, <1>2
<1> QED
  BY <1>3

(* Induction on a finite set, by the removal of an element.                *)
LEMMA RemoveInduct ==
  ASSUME NEW S, IsFiniteSet(S), NEW P, {} \in P,
         \A s \in SUBSET S : s # {} /\ (\A x \in s : s \ {x} \in P) => s \in P
  PROVE  SUBSET S \subseteq P
<1> SUFFICES ASSUME (SUBSET S) \ P # {}
             PROVE  FALSE
  OBVIOUS
<1> DEFINE T == (SUBSET S) \ P
           R == StrictSubsetOrdering(S)
<1>1. IsWellFoundedOn(R, SUBSET S)
  BY FS_StrictSubsetOrderingWellFounded, FS_FiniteSubsetsOfFinite
<1>2. ASSUME NEW s \in SUBSET S, NEW x \in s
      PROVE  <<s \ {x}, s>> \in R
  <2>1. s \ {x} \in SUBSET S /\ s \ {x} \subseteq s /\ s \ {x} # s
    BY <1>2
  <2> QED
    BY <2>1 DEF StrictSubsetOrdering
<1>3. T \subseteq SUBSET S /\ T # {}
  OBVIOUS
<1> HIDE DEF R, T
<1>4. PICK s \in T : \A t \in T : ~(<<t, s>> \in R)
  BY <1>1, <1>3, WFMin
<1>5. s \in SUBSET S /\ s \notin P
  BY <1>4 DEF T
<1>6. ASSUME NEW x \in s
      PROVE  s \ {x} \in P
  <2>1. s \ {x} \in SUBSET S
    BY <1>5
  <2>2. s \ {x} \notin T
    BY <1>2, <1>4, <1>5
  <2> QED
    BY <2>1, <2>2 DEF T
<1> QED
  BY <1>5, <1>6

(* The sums of the subsets of a set.                                       *)
SumStep(it, f, s) ==
  IF s = {} THEN 0 ELSE f[CHOOSE x \in s : TRUE] + it[s \ {CHOOSE x \in s : TRUE}]

SumRec(it, f, S) == it = [s \in SUBSET S |-> SumStep(it, f, s)]

(* The sum is what the recursive function of its definition gives for the  *)
(* whole set.                                                              *)
LEMMA SumIs ==
  ASSUME NEW f, NEW S
  PROVE  SumFunctionOnSet(f, S) = (CHOOSE it : SumRec(it, f, S))[S]
BY DEF SumFunctionOnSet, FoldFunctionOnSet, MapThenFoldSet, SumRec, SumStep

(* That recursive function exists over a finite set.                       *)
LEMMA SumRecExists ==
  ASSUME NEW f, NEW S, IsFiniteSet(S)
  PROVE  \E it : SumRec(it, f, S)
<1> DEFINE N == Cardinality(S)
           Up(k) == {s \in SUBSET S : Cardinality(s) <= k}
           T == {k \in 0..N : \E it : \A s \in Up(k) : it[s] = SumStep(it, f, s)}
<1>1. N \in Nat /\ S \in Up(N)
  BY FS_CardinalityType
<1>2. ASSUME NEW s \in SUBSET S
      PROVE  IsFiniteSet(s) /\ Cardinality(s) \in Nat /\ Cardinality(s) <= N
  BY FS_Subset, FS_CardinalityType
<1>3. 0 \in T
  <2> DEFINE it == [s \in SUBSET S |-> 0]
  <2>1. ASSUME NEW s \in Up(0)
        PROVE  it[s] = SumStep(it, f, s)
    <3>1. s = {}
      BY <1>2, FS_EmptySet
    <3> QED
      BY <3>1 DEF SumStep
  <2> HIDE DEF it
  <2>2. \E i : \A s \in Up(0) : i[s] = SumStep(i, f, s)
    BY <2>1
  <2> QED
    BY <1>1, <2>2
<1>4. ASSUME NEW k \in 1..N, k - 1 \in T
      PROVE  k \in T
  <2>1. PICK i : \A s \in Up(k - 1) : i[s] = SumStep(i, f, s)
    BY <1>4
  <2> DEFINE it == [s \in SUBSET S |-> IF s \in Up(k - 1) THEN i[s] ELSE SumStep(i, f, s)]
  <2>2. ASSUME NEW s \in Up(k)
        PROVE  it[s] = SumStep(it, f, s)
    <3>1. CASE s = {}
      BY <3>1, <2>1 DEF SumStep
    <3>2. CASE s # {}
      <4> DEFINE c == CHOOSE x \in s : TRUE
      <4>1. c \in s
        BY <3>2
      <4> HIDE DEF c
      <4>2. s \ {c} \in SUBSET S /\ Cardinality(s \ {c}) = Cardinality(s) - 1
        BY <1>2, <4>1, FS_RemoveElement
      <4>3. s \ {c} \in Up(k - 1)
        BY <1>1, <1>2, <4>2
      <4>4. it[s \ {c}] = i[s \ {c}]
        BY <4>3
      <4>5. SumStep(it, f, s) = SumStep(i, f, s)
        BY <4>4 DEF SumStep, c
      <4>6. it[s] = SumStep(i, f, s)
        BY <2>1
      <4> QED
        BY <4>5, <4>6
    <3> QED
      BY <3>1, <3>2
  <2> HIDE DEF it
  <2>3. \E j : \A s \in Up(k) : j[s] = SumStep(j, f, s)
    BY <2>2
  <2> QED
    BY <2>3
<1>5. N \in T
  <2> HIDE DEF T, N
  <2> QED
    BY <1>1, <1>3, <1>4, UpTo
<1>6. PICK i : \A s \in Up(N) : i[s] = SumStep(i, f, s)
  BY <1>5
<1> DEFINE it == [s \in SUBSET S |-> i[s]]
<1>7. ASSUME NEW s \in SUBSET S
      PROVE  it[s] = SumStep(it, f, s)
  <2>1. s \in Up(N)
    BY <1>2
  <2>2. s # {} => s \ {CHOOSE x \in s : TRUE} \in SUBSET S
    OBVIOUS
  <2>3. SumStep(it, f, s) = SumStep(i, f, s)
    BY <2>2 DEF SumStep
  <2> QED
    BY <1>6, <2>1, <2>3
<1>8. it = [s \in SUBSET S |-> it[s]]
  OBVIOUS
<1> HIDE DEF it
<1>9. SumRec(it, f, S)
  BY <1>7, <1>8 DEF SumRec
<1> QED
  BY <1>9

(* One table has the sum of the set and follows the steps on every subset. *)
LEMMA SumTable ==
  ASSUME NEW f, NEW S, IsFiniteSet(S)
  PROVE  \E it : /\ it[S] = SumFunctionOnSet(f, S)
                 /\ \A s \in SUBSET S : it[s] = SumStep(it, f, s)
<1> DEFINE it == CHOOSE i : SumRec(i, f, S)
<1>1. SumRec(it, f, S)
  BY SumRecExists
<1>2. it[S] = SumFunctionOnSet(f, S)
  BY SumIs
<1> HIDE DEF it
<1> QED
  BY <1>1, <1>2 DEF SumRec

(* The table of a set holds the sums of its subsets.                       *)
LEMMA SumTables ==
  ASSUME NEW f, NEW S, IsFiniteSet(S)
  PROVE  \A s \in SUBSET S :
           SumFunctionOnSet(f, s) = SumStep([t \in SUBSET S |-> SumFunctionOnSet(f, t)], f, s)
<1>1. PICK it : /\ it[S] = SumFunctionOnSet(f, S)
                /\ \A s \in SUBSET S : it[s] = SumStep(it, f, s)
  BY SumTable
<1>2. ASSUME NEW s \in SUBSET S
      PROVE  it[s] = SumFunctionOnSet(f, s)
  <2>1. IsFiniteSet(s)
    BY FS_Subset
  <2>2. PICK j : /\ j[s] = SumFunctionOnSet(f, s)
                 /\ \A t \in SUBSET s : j[t] = SumStep(j, f, t)
    BY <2>1, SumTable
  <2> DEFINE P == {t \in SUBSET s : it[t] = j[t]}
  <2>3. {} \in P
    BY <1>1, <2>2 DEF SumStep
  <2>4. ASSUME NEW t \in SUBSET s, t # {}, \A x \in t : t \ {x} \in P
        PROVE  t \in P
    <3>1. (CHOOSE x \in t : TRUE) \in t
      BY <2>4
    <3>2. it[t \ {CHOOSE x \in t : TRUE}] = j[t \ {CHOOSE x \in t : TRUE}]
      BY <2>4, <3>1
    <3>3. SumStep(it, f, t) = SumStep(j, f, t)
      BY <3>2 DEF SumStep
    <3>4. it[t] = SumStep(it, f, t) /\ j[t] = SumStep(j, f, t)
      BY <1>1, <2>2
    <3> QED
      BY <3>3, <3>4
  <2> HIDE DEF P
  <2>5. SUBSET s \subseteq P
    BY <2>1, <2>3, <2>4, RemoveInduct
  <2>6. s \in P
    BY <2>5
  <2> QED
    BY <2>2, <2>6 DEF P
<1> SUFFICES ASSUME NEW s \in SUBSET S
             PROVE  SumFunctionOnSet(f, s) = SumStep([t \in SUBSET S |-> SumFunctionOnSet(f, t)], f, s)
  OBVIOUS
<1> DEFINE g == [t \in SUBSET S |-> SumFunctionOnSet(f, t)]
<1>3. ASSUME s # {}
      PROVE  g[s \ {CHOOSE x \in s : TRUE}] = it[s \ {CHOOSE x \in s : TRUE}]
  <2>1. s \ {CHOOSE x \in s : TRUE} \in SUBSET S
    OBVIOUS
  <2> QED
    BY <1>2, <2>1
<1> HIDE DEF g
<1>4. SumStep(g, f, s) = SumStep(it, f, s)
  BY <1>3 DEF SumStep
<1> QED
  BY <1>1, <1>2, <1>4 DEF g

(* The sum of nothing is zero.                                             *)
LEMMA SumEmpty == \A f : SumFunctionOnSet(f, {}) = 0
<1>1. IsFiniteSet({})
  BY FS_EmptySet
<1> QED
  BY <1>1, SumTables DEF SumStep

(* A sum of integers is an integer, and any element can be set apart.      *)
LEMMA SumApart ==
  ASSUME NEW S, IsFiniteSet(S), NEW f, \A x \in S : f[x] \in Int
  PROVE  /\ SumFunctionOnSet(f, S) \in Int
         /\ \A y \in S : SumFunctionOnSet(f, S) = f[y] + SumFunctionOnSet(f, S \ {y})
<1> DEFINE sum == [t \in SUBSET S |-> SumFunctionOnSet(f, t)]
           I == {s \in SUBSET S : sum[s] \in Int}
           P == {s \in SUBSET S : \A y \in s : sum[s] = f[y] + sum[s \ {y}]}
<1>1. ASSUME NEW s \in SUBSET S
      PROVE  sum[s] = SumStep(sum, f, s)
  BY SumTables
<1> HIDE DEF sum
<1>0. sum[{}] = 0
  <2>1. {} \in SUBSET S
    OBVIOUS
  <2>2. sum[{}] = SumStep(sum, f, {})
    BY <1>1, <2>1
  <2> QED
    BY <2>2 DEF SumStep
<1>2. {} \in P /\ {} \in I
  BY <1>0
<1>6. ASSUME NEW s \in SUBSET S
      PROVE  sum[s] \in Int
  <2>1. ASSUME NEW t \in SUBSET S, t # {}, \A x \in t : t \ {x} \in I
        PROVE  t \in I
    <3> DEFINE c == CHOOSE x \in t : TRUE
    <3>1. c \in t
      BY <2>1
    <3>2. sum[t] = f[c] + sum[t \ {c}]
      BY <1>1, <2>1 DEF SumStep
    <3> HIDE DEF c
    <3>3. f[c] \in Int /\ sum[t \ {c}] \in Int
      BY <2>1, <3>1
    <3> QED
      BY <3>2, <3>3
  <2> HIDE DEF I
  <2>2. SUBSET S \subseteq I
    BY <1>2, <2>1, RemoveInduct
  <2> QED
    BY <2>2 DEF I
<1>3. ASSUME NEW s \in SUBSET S, s # {}, \A x \in s : s \ {x} \in P
      PROVE  s \in P
  <2> DEFINE c == CHOOSE x \in s : TRUE
  <2>1. c \in s
    BY <1>3
  <2>2. sum[s] = f[c] + sum[s \ {c}]
    BY <1>1, <1>3 DEF SumStep
  <2> HIDE DEF c
  <2>3. \A x \in s : f[x] \in Int /\ sum[s \ {x}] \in Int
    BY <1>6
  <2>4. ASSUME NEW y \in s
        PROVE  sum[s] = f[y] + sum[s \ {y}]
    <3>1. CASE y = c
      BY <2>2, <3>1
    <3>2. CASE y # c
      <4>1. sum[s \ {c}] = f[y] + sum[(s \ {c}) \ {y}]
        BY <1>3, <2>1, <3>2
      <4>2. sum[s \ {y}] = f[c] + sum[(s \ {y}) \ {c}]
        BY <1>3, <2>1, <3>2
      <4>3. (s \ {c}) \ {y} = (s \ {y}) \ {c} /\ (s \ {c}) \ {y} \in SUBSET S
        OBVIOUS
      <4>4. s \ {c} \in P
        BY <1>3, <2>1
      <4>5. sum[s \ {c}] \in Int /\ sum[s \ {y}] \in Int /\ f[y] \in Int /\ f[c] \in Int
        BY <2>1, <2>3
      <4>6. sum[(s \ {c}) \ {y}] \in Int
        BY <1>6, <4>3
      <4>7. sum[s \ {y}] = f[c] + sum[(s \ {c}) \ {y}]
        BY <4>2, <4>3
      <4>8. PICK a, b, d \in Int : a = f[y] /\ b = f[c] /\ d = sum[(s \ {c}) \ {y}]
        BY <4>5, <4>6
      <4>9. sum[s] = b + (a + d) /\ f[y] + sum[s \ {y}] = a + (b + d)
        BY <2>2, <4>1, <4>7, <4>8
      <4> QED
        BY <4>8, <4>9
    <3> QED
      BY <3>1, <3>2
  <2> QED
    BY <2>1, <2>2, <2>3, <2>4
<1> HIDE DEF P
<1>4. SUBSET S \subseteq P
  BY <1>2, <1>3, RemoveInduct
<1>5. S \in SUBSET S /\ \A y \in S : S \ {y} \in SUBSET S
  OBVIOUS
<1>7. S \in P /\ sum[S] \in Int
  BY <1>4, <1>5, <1>6
<1> QED
  BY <1>5, <1>7 DEF P, sum

(* The image of a finite set is finite.                                    *)
LEMMA ImageFinite ==
  ASSUME NEW S, IsFiniteSet(S), NEW h
  PROVE  IsFiniteSet({h[x] : x \in S})
<1> DEFINE T == {h[x] : x \in S}
           k == [x \in S |-> h[x]]
<1>1. k \in [S -> T] /\ \A t \in T : \E x \in S : k[x] = t
  OBVIOUS
<1> HIDE DEF k, T
<1>2. k \in Surjection(S, T)
  BY <1>1 DEF Surjection
<1>3. IsFiniteSet(T)
  BY <1>2, FS_Surjection
<1> QED
  BY <1>3 DEF T

(* A sum does not depend on the names of what is added up.                 *)
LEMMA SumReindexed ==
  ASSUME NEW S, IsFiniteSet(S), NEW f, NEW g, NEW h,
         \A x \in S : f[x] \in Int /\ g[h[x]] = f[x],
         \A x, y \in S : h[x] = h[y] => x = y
  PROVE  SumFunctionOnSet(g, {h[x] : x \in S}) = SumFunctionOnSet(f, S)
<1> DEFINE Image(s) == {h[x] : x \in s}
           P == {s \in SUBSET S : SumFunctionOnSet(g, Image(s)) = SumFunctionOnSet(f, s)}
<1>1. {} \in P
  <2>1. Image({}) = {}
    OBVIOUS
  <2> QED
    BY <2>1, SumEmpty
<1>2. ASSUME NEW s \in SUBSET S, s # {}, \A x \in s : s \ {x} \in P
      PROVE  s \in P
  <2>1. PICK y \in s : TRUE
    BY <1>2
  <2>2. SumFunctionOnSet(g, Image(s \ {y})) = SumFunctionOnSet(f, s \ {y})
    BY <1>2, <2>1
  <2>3. Image(s) \ {h[y]} = Image(s \ {y}) /\ h[y] \in Image(s)
    BY <2>1
  <2>4. IsFiniteSet(s) /\ IsFiniteSet(Image(s))
    BY FS_Subset, ImageFinite
  <2>5. \A t \in Image(s) : g[t] \in Int
    OBVIOUS
  <2>6. \A x \in s : f[x] \in Int
    OBVIOUS
  <2> HIDE DEF Image
  <2>7. SumFunctionOnSet(g, Image(s)) = g[h[y]] + SumFunctionOnSet(g, Image(s) \ {h[y]})
    BY <2>3, <2>4, <2>5, SumApart
  <2>8. SumFunctionOnSet(f, s) = f[y] + SumFunctionOnSet(f, s \ {y})
    BY <2>1, <2>4, <2>6, SumApart
  <2>9. g[h[y]] = f[y]
    BY <2>1
  <2> QED
    BY <2>2, <2>3, <2>7, <2>8, <2>9
<1> HIDE DEF P
<1>3. SUBSET S \subseteq P
  BY <1>1, <1>2, RemoveInduct
<1>4. S \in P
  BY <1>3
<1> QED
  BY <1>4 DEF P

(* Two functions with the same values have the same sum.                   *)
LEMMA SumSame ==
  ASSUME NEW S, IsFiniteSet(S), NEW f, NEW g, \A x \in S : f[x] \in Int /\ g[x] = f[x]
  PROVE  SumFunctionOnSet(g, S) = SumFunctionOnSet(f, S)
<1> DEFINE h == [x \in S |-> x]
<1>1. {h[x] : x \in S} = S /\ (\A x \in S : g[h[x]] = f[x]) /\ \A x, y \in S : h[x] = h[y] => x = y
  OBVIOUS
<1> HIDE DEF h
<1>2. SumFunctionOnSet(g, {h[x] : x \in S}) = SumFunctionOnSet(f, S)
  BY <1>1, SumReindexed
<1> QED
  BY <1>1, <1>2

(* What is zero can be left out.                                           *)
LEMMA SumZeros ==
  ASSUME NEW S, IsFiniteSet(S), NEW T \in SUBSET S, NEW f,
         \A x \in S : f[x] \in Int, \A x \in S \ T : f[x] = 0
  PROVE  SumFunctionOnSet(f, S) = SumFunctionOnSet(f, T)
<1> DEFINE P == {s \in SUBSET S : SumFunctionOnSet(f, s) = SumFunctionOnSet(f, s \cap T)}
<1>1. {} \in P
  <2>1. {} \cap T = {}
    OBVIOUS
  <2> QED
    BY <2>1
<1>2. ASSUME NEW s \in SUBSET S, s # {}, \A x \in s : s \ {x} \in P
      PROVE  s \in P
  <2>1. PICK y \in s : TRUE
    BY <1>2
  <2>2. SumFunctionOnSet(f, s \ {y}) = SumFunctionOnSet(f, (s \ {y}) \cap T)
    BY <1>2, <2>1
  <2>3. IsFiniteSet(s) /\ IsFiniteSet(s \cap T)
    <3>1. s \cap T \in SUBSET S
      OBVIOUS
    <3> QED
      BY <3>1, FS_Subset
  <2>4. SumFunctionOnSet(f, s) = f[y] + SumFunctionOnSet(f, s \ {y})
    BY <2>1, <2>3, SumApart
  <2>5. SumFunctionOnSet(f, s \ {y}) \in Int /\ f[y] \in Int
    <3>1. s \ {y} \in SUBSET S
      OBVIOUS
    <3>2. IsFiniteSet(s \ {y})
      BY <3>1, FS_Subset
    <3> QED
      BY <3>1, <3>2, <2>1, SumApart
  <2>6. CASE y \in T
    <3>1. y \in s \cap T /\ (s \cap T) \ {y} = (s \ {y}) \cap T /\ \A x \in s \cap T : f[x] \in Int
      BY <2>1, <2>6
    <3>2. SumFunctionOnSet(f, s \cap T) = f[y] + SumFunctionOnSet(f, (s \cap T) \ {y})
      BY <2>3, <3>1, SumApart
    <3> QED
      BY <2>2, <2>4, <3>1, <3>2
  <2>7. CASE y \notin T
    <3>1. s \cap T = (s \ {y}) \cap T /\ f[y] = 0
      BY <2>1, <2>7
    <3>2. SumFunctionOnSet(f, s) = SumFunctionOnSet(f, s \ {y})
      BY <2>4, <2>5, <3>1
    <3>3. SumFunctionOnSet(f, s \cap T) = SumFunctionOnSet(f, (s \ {y}) \cap T)
      BY <3>1
    <3> QED
      BY <2>2, <3>2, <3>3
  <2> QED
    BY <2>6, <2>7
<1> HIDE DEF P
<1>3. SUBSET S \subseteq P
  BY <1>1, <1>2, RemoveInduct
<1>4. S \in P
  BY <1>3
<1>5. S \cap T = T
  OBVIOUS
<1> QED
  BY <1>4, <1>5 DEF P

(* The sum over two sets with nothing in common is the sum of both.        *)
LEMMA SumUnion ==
  ASSUME NEW S, IsFiniteSet(S), NEW T, IsFiniteSet(T), S \cap T = {}, NEW f,
         \A x \in S \cup T : f[x] \in Int
  PROVE  SumFunctionOnSet(f, S \cup T) = SumFunctionOnSet(f, S) + SumFunctionOnSet(f, T)
<1> DEFINE P == {s \in SUBSET S :
                   SumFunctionOnSet(f, s \cup T) = SumFunctionOnSet(f, s) + SumFunctionOnSet(f, T)}
<1>0. SumFunctionOnSet(f, T) \in Int
  BY SumApart
<1>1. {} \in P
  <2>1. {} \cup T = T
    OBVIOUS
  <2>2. SumFunctionOnSet(f, {}) = 0
    BY SumEmpty
  <2> QED
    BY <1>0, <2>1, <2>2
<1>2. ASSUME NEW s \in SUBSET S, s # {}, \A x \in s : s \ {x} \in P
      PROVE  s \in P
  <2>1. PICK y \in s : TRUE
    BY <1>2
  <2>2. SumFunctionOnSet(f, (s \ {y}) \cup T) = SumFunctionOnSet(f, s \ {y}) + SumFunctionOnSet(f, T)
    BY <1>2, <2>1
  <2>3. IsFiniteSet(s) /\ IsFiniteSet(s \cup T) /\ IsFiniteSet(s \ {y})
    <3>1. IsFiniteSet(s)
      BY FS_Subset
    <3> QED
      BY <3>1, FS_Union, FS_RemoveElement
  <2>4. (s \cup T) \ {y} = (s \ {y}) \cup T /\ y \in s \cup T /\ \A x \in s \cup T : f[x] \in Int
    BY <2>1
  <2>5. SumFunctionOnSet(f, s \cup T) = f[y] + SumFunctionOnSet(f, (s \cup T) \ {y})
    BY <2>3, <2>4, SumApart
  <2>6. /\ SumFunctionOnSet(f, s) = f[y] + SumFunctionOnSet(f, s \ {y})
        /\ SumFunctionOnSet(f, s \ {y}) \in Int /\ f[y] \in Int
    BY <2>1, <2>3, SumApart
  <2> DEFINE a == SumFunctionOnSet(f, s \ {y})
             b == SumFunctionOnSet(f, T)
  <2>7. SumFunctionOnSet(f, s \cup T) = f[y] + (a + b)
    BY <2>2, <2>4, <2>5
  <2>8. SumFunctionOnSet(f, s) = f[y] + a /\ a \in Int /\ b \in Int /\ f[y] \in Int
    BY <1>0, <2>6
  <2> HIDE DEF a, b
  <2>9. SumFunctionOnSet(f, s \cup T) = SumFunctionOnSet(f, s) + b
    BY <2>7, <2>8
  <2> QED
    BY <2>9 DEF b
<1> HIDE DEF P
<1>3. SUBSET S \subseteq P
  BY <1>1, <1>2, RemoveInduct
<1>4. S \in P
  BY <1>3
<1> QED
  BY <1>4 DEF P

(* Naturals add up to a natural.                                           *)
LEMMA SumNatural ==
  ASSUME NEW S, IsFiniteSet(S), NEW f, \A x \in S : f[x] \in Nat
  PROVE  SumFunctionOnSet(f, S) \in Nat
<1> DEFINE P == {s \in SUBSET S : SumFunctionOnSet(f, s) \in Nat}
<1>1. {} \in P
  BY SumEmpty
<1>2. ASSUME NEW s \in SUBSET S, s # {}, \A x \in s : s \ {x} \in P
      PROVE  s \in P
  <2>1. PICK y \in s : TRUE
    BY <1>2
  <2>2. SumFunctionOnSet(f, s \ {y}) \in Nat /\ f[y] \in Nat
    BY <1>2, <2>1
  <2>3. IsFiniteSet(s) /\ \A x \in s : f[x] \in Int
    BY FS_Subset
  <2>4. SumFunctionOnSet(f, s) = f[y] + SumFunctionOnSet(f, s \ {y})
    BY <2>1, <2>3, SumApart
  <2> QED
    BY <2>2, <2>4
<1> HIDE DEF P
<1>3. SUBSET S \subseteq P
  BY <1>1, <1>2, RemoveInduct
<1>4. S \in P
  BY <1>3
<1> QED
  BY <1>4 DEF P

(* The sum over one element is its value.                                  *)
LEMMA SumSingle ==
  ASSUME NEW x, NEW f, f[x] \in Int
  PROVE  SumFunctionOnSet(f, {x}) = f[x]
<1>1. IsFiniteSet({x})
  BY FS_Singleton
<1>2. SumFunctionOnSet(f, {x}) = f[x] + SumFunctionOnSet(f, {x} \ {x})
  BY <1>1, SumApart
<1>3. {x} \ {x} = {}
  OBVIOUS
<1> QED
  BY <1>2, <1>3, SumEmpty

(* The totals of a set of lines.                                           *)
LEMMA SumOfIs ==
  ASSUME NEW lines, IsFiniteSet(lines), NEW f, \A p \in lines : p.total \in Int /\ f[p] = p.total
  PROVE  SumOf(lines) = SumFunctionOnSet(f, lines) /\ SumOf(lines) \in Int
<1> DEFINE g == [p \in lines |-> p.total]
<1>1. SumOf(lines) = SumFunctionOnSet(g, lines)
  BY DEF SumOf, SumFunction
<1>2. \A p \in lines : g[p] \in Int /\ f[p] = g[p] /\ f[p] \in Int
  OBVIOUS
<1> HIDE DEF g
<1>3. SumFunctionOnSet(f, lines) = SumFunctionOnSet(g, lines)
  BY <1>2, SumSame
<1>4. SumFunctionOnSet(g, lines) \in Int
  BY <1>2, SumApart
<1> QED
  BY <1>1, <1>3, <1>4

-----------------------------------------------------------------------------
(* The folds of the community modules over a list, as a sequence of steps. *)

(* Folds over a list: G[k] is the step of the position k.                  *)

(* A set of positions that is not empty has a greatest one.                *)
LEMMA MaxOf ==
  ASSUME NEW n \in Nat, NEW s \in SUBSET (1..n), s # {}
  PROVE  Max(s) \in s
<1> DEFINE M == {n - k : k \in s}
<1>0. \A k \in s : n - k \in Nat
  OBVIOUS
<1>1. M \in SUBSET Nat /\ M # {}
  BY <1>0
<1> HIDE DEF M
<1>2. PICK m \in M : \A k \in M : m <= k
  BY <1>1, LeastNatural
<1>3. PICK j \in s : m = n - j
  BY <1>2 DEF M
<1>4. ASSUME NEW k \in s
      PROVE  j >= k
  <2>1. m <= n - k
    BY <1>2 DEF M
  <2>2. j \in Int /\ k \in Int /\ n \in Int
    OBVIOUS
  <2> QED
    BY <1>3, <2>1, <2>2
<1> QED
  BY <1>4 DEF Max

(* One step of a fold over positions 1 to n: the greatest position is the  *)
(* last applied.                                                           *)
FoldStep(f, base, G, s) == IF s = {} THEN base ELSE G[Max(s)][f[s \ {Max(s)}]]

Folded(f, n, A, base, G) ==
  f \in [SUBSET (1..n) -> A] /\ \A s \in SUBSET (1..n) : f[s] = FoldStep(f, base, G, s)

(* A fold over the steps G has a table of its values over the sets of      *)
(* positions.                                                              *)
LEMMA FoldTable ==
  ASSUME NEW n \in Nat, NEW A, NEW base \in A, NEW G \in [1..n -> [A -> A]]
  PROVE  \E f : Folded(f, n, A, base, G)
<1> DEFINE T == {k \in 0..n : \E f : Folded(f, k, A, base, G)}
<1>1. 0 \in T
  <2> DEFINE f == [s \in SUBSET (1..0) |-> base]
  <2>1. 1..0 = {} /\ SUBSET {} = {{}}
    OBVIOUS
  <2>2. f \in [SUBSET (1..0) -> A] /\ \A s \in SUBSET (1..0) : f[s] = FoldStep(f, base, G, s)
    BY <2>1 DEF FoldStep
  <2> HIDE DEF f
  <2>3. Folded(f, 0, A, base, G)
    BY <2>2 DEF Folded
  <2> QED
    BY <2>3
<1>2. ASSUME NEW k \in 1..n, k - 1 \in T
      PROVE  k \in T
  <2>1. PICK f : Folded(f, k - 1, A, base, G)
    BY <1>2
  <2>0. f \in [SUBSET (1..(k - 1)) -> A] /\ \A s \in SUBSET (1..(k - 1)) : f[s] = FoldStep(f, base, G, s)
    BY <2>1 DEF Folded
  <2> DEFINE g == [s \in SUBSET (1..k) |-> IF k \in s THEN G[k][f[s \ {k}]] ELSE f[s]]
  <2>2. ASSUME NEW s \in SUBSET (1..k), k \notin s
        PROVE  s \in SUBSET (1..(k - 1))
    BY <2>2
  <2>3. ASSUME NEW s \in SUBSET (1..k)
        PROVE  g[s] = FoldStep(g, base, G, s) /\ g[s] \in A
    <3>1. CASE k \in s
      <4>1. Max(s) = k
        <5>1. k \in s /\ s \subseteq Nat /\ \A j \in s : j <= k
          BY <3>1
        <5> QED
          BY <5>1, MaxIs
      <4>2. s \ {k} \in SUBSET (1..k) /\ s # {} /\ k \notin s \ {k}
        BY <3>1
      <4>3. g[s \ {k}] = f[s \ {k}] /\ f[s \ {k}] \in A
        BY <2>0, <4>2, <2>2
      <4>4. g[s] = G[k][f[s \ {k}]] /\ G[k] \in [A -> A]
        BY <3>1
      <4> HIDE DEF g
      <4>5. G[k][f[s \ {k}]] \in A
        BY ONLY <4>3, <4>4
      <4> QED
        BY <4>1, <4>2, <4>3, <4>4, <4>5 DEF FoldStep
    <3>2. CASE k \notin s
      <4>1. s \in SUBSET (1..(k - 1)) /\ s \ {Max(s)} \in SUBSET (1..k) /\ k \notin s \ {Max(s)}
        BY <2>2, <3>2
      <4>2. g[s \ {Max(s)}] = f[s \ {Max(s)}] /\ g[s] = f[s] /\ f[s] \in A
        BY <2>0, <3>2, <4>1
      <4> HIDE DEF g
      <4>3. f[s] = FoldStep(f, base, G, s)
        BY <2>0, <4>1
      <4> QED
        BY <4>2, <4>3 DEF FoldStep
    <3> QED
      BY <3>1, <3>2
  <2>4. g = [s \in SUBSET (1..k) |-> g[s]]
    OBVIOUS
  <2> HIDE DEF g
  <2>5. g \in [SUBSET (1..k) -> A]
    BY <2>3, <2>4
  <2>6. Folded(g, k, A, base, G)
    BY <2>3, <2>5 DEF Folded
  <2> QED
    BY <2>6
<1> HIDE DEF T
<1>3. \A k \in 1..n : k - 1 \in T => k \in T
  BY <1>2
<1>4. 0..n \subseteq T
  BY ONLY <1>1, <1>3, n \in Nat, UpTo
<1>5. n \in T
  BY <1>4
<1> QED
  BY ONLY <1>5 DEF T

(* A table that follows the steps as long as they stay in A is the fold.   *)
Follows(h, n, A, base, G) ==
  /\ h[{}] = base
  /\ \A s \in SUBSET (1..n) : s # {} /\ h[s \ {Max(s)}] \in A =>
                                h[s] = G[Max(s)][h[s \ {Max(s)}]]

(* Every table that follows the steps has the values of the fold.          *)
LEMMA FoldUnique ==
  ASSUME NEW n \in Nat, NEW A, NEW base, NEW G, NEW f, Folded(f, n, A, base, G), NEW h,
         Follows(h, n, A, base, G)
  PROVE  \A s \in SUBSET (1..n) : h[s] = f[s]
<1>0. f \in [SUBSET (1..n) -> A] /\ \A s \in SUBSET (1..n) : f[s] = FoldStep(f, base, G, s)
  BY DEF Folded
<1>f. /\ h[{}] = base
      /\ \A s \in SUBSET (1..n) : s # {} /\ h[s \ {Max(s)}] \in A =>
                                    h[s] = G[Max(s)][h[s \ {Max(s)}]]
  BY DEF Follows
<1> DEFINE P == {s \in SUBSET (1..n) : h[s] = f[s]}
<1>1. {} \in P
  BY <1>0, <1>f DEF FoldStep
<1>2. ASSUME NEW s \in SUBSET (1..n), s # {}, \A x \in s : s \ {x} \in P
      PROVE  s \in P
  <2>1. Max(s) \in s
    BY <1>2, MaxOf
  <2>2. h[s \ {Max(s)}] = f[s \ {Max(s)}] /\ s \ {Max(s)} \in SUBSET (1..n)
    BY <1>2, <2>1
  <2>3. f[s \ {Max(s)}] \in A
    BY <1>0, <2>2
  <2>4. h[s] = G[Max(s)][h[s \ {Max(s)}]]
    BY <1>f, <1>2, <2>2, <2>3
  <2>5. f[s] = G[Max(s)][f[s \ {Max(s)}]]
    BY <1>0, <1>2 DEF FoldStep
  <2> QED
    BY <2>2, <2>4, <2>5
<1> HIDE DEF P
<1>3. PICK S : S = 1..n
  OBVIOUS
<1>4. IsFiniteSet(S)
  BY <1>3, FS_Interval
<1>5. \A s \in SUBSET S : s # {} /\ (\A x \in s : s \ {x} \in P) => s \in P
  BY <1>2, <1>3
<1>6. SUBSET S \subseteq P
  BY ONLY <1>1, <1>4, <1>5, RemoveInduct
<1>7. \A s \in SUBSET (1..n) : s \in P
  BY ONLY <1>3, <1>6
<1> QED
  BY ONLY <1>7 DEF P

(* The steps of a table that is defined by a fold.                         *)
StepsOf(it, n, A, base, G, last) ==
  /\ it[0] = base /\ it[n] = last
  /\ \A k \in 0..n : it[k] \in A
  /\ \A k \in 1..n : it[k] = G[k][it[k - 1]]

(* The values of the fold over 1 to k, for k from 0 to n, are a sequence   *)
(* of steps.                                                               *)
LEMMA FoldSteps ==
  ASSUME NEW n \in Nat, NEW A, NEW base, NEW G, NEW f, Folded(f, n, A, base, G)
  PROVE  \E it : StepsOf(it, n, A, base, G, f[1..n])
<1>0. f \in [SUBSET (1..n) -> A] /\ \A s \in SUBSET (1..n) : f[s] = FoldStep(f, base, G, s)
  BY DEF Folded
<1> DEFINE it == [k \in 0..n |-> f[1..k]]
<1>1. it[0] = base
  <2>1. 1..0 = {} /\ 0 \in 0..n /\ {} \in SUBSET (1..n)
    OBVIOUS
  <2>2. it[0] = f[{}]
    BY <2>1
  <2> HIDE DEF it
  <2> QED
    BY <1>0, <2>1, <2>2 DEF FoldStep
<1>2. ASSUME NEW k \in 1..n
      PROVE  it[k] = G[k][it[k - 1]]
  <2>1. Max(1..k) = k
    <3>1. k \in 1..k /\ 1..k \subseteq Nat /\ \A j \in 1..k : j <= k
      OBVIOUS
    <3> QED
      BY <3>1, MaxIs
  <2>2. /\ (1..k) \ {k} = 1..(k - 1) /\ 1..k # {} /\ 1..k \in SUBSET (1..n)
        /\ k \in 0..n /\ k - 1 \in 0..n
    OBVIOUS
  <2>3. f[1..k] = FoldStep(f, base, G, 1..k)
    BY <1>0, <2>2
  <2>4. f[1..k] = G[k][f[1..(k - 1)]]
    BY <2>1, <2>2, <2>3 DEF FoldStep
  <2> QED
    BY <2>2, <2>4
<1>3. it[n] = f[1..n]
  OBVIOUS
<1>4. ASSUME NEW k \in 0..n
      PROVE  it[k] \in A
  <2>1. 1..k \in SUBSET (1..n)
    OBVIOUS
  <2> QED
    BY <1>0, <2>1
<1> HIDE DEF it
<1>5. StepsOf(it, n, A, base, G, f[1..n])
  BY <1>1, <1>2, <1>3, <1>4 DEF StepsOf
<1> QED
  BY <1>5

(* The two together: a table that follows the steps is a sequence of       *)
(* steps.                                                                  *)
LEMMA FoldFollowed ==
  ASSUME NEW n \in Nat, NEW A, NEW base \in A, NEW G \in [1..n -> [A -> A]], NEW h,
         Follows(h, n, A, base, G)
  PROVE  \E it : StepsOf(it, n, A, base, G, h[1..n])
<1>1. PICK g : Folded(g, n, A, base, G)
  BY FoldTable
<1>2. \A s \in SUBSET (1..n) : h[s] = g[s]
  BY ONLY <1>1, n \in Nat, Follows(h, n, A, base, G), FoldUnique
<1>3. 1..n \in SUBSET (1..n)
  OBVIOUS
<1>4. h[1..n] = g[1..n]
  BY ONLY <1>2, <1>3
<1>5. \E it : StepsOf(it, n, A, base, G, g[1..n])
  BY ONLY <1>1, n \in Nat, FoldSteps
<1> QED
  BY ONLY <1>4, <1>5

-----------------------------------------------------------------------------
(* The elements at some positions.                                         *)

(* The step of AtPositions: the element is appended when its position is   *)
(* kept.                                                                   *)
KeepRec(f, list, kept, s) ==
  IF s = {} THEN <<>>
  ELSE IF [i \in DOMAIN list |-> i][Max(s)] \in kept
         THEN Append(f[s \ {Max(s)}], list[[i \in DOMAIN list |-> i][Max(s)]])
         ELSE f[s \ {Max(s)}]

KeepFun(f, list, kept) == f = [s \in SUBSET DOMAIN list |-> KeepRec(f, list, kept, s)]

(* AtPositions is the fold of these steps.                                 *)
LEMMA AtPositionsIs ==
  ASSUME NEW list, NEW kept
  PROVE  AtPositions(list, kept) = (CHOOSE f : KeepFun(f, list, kept))[DOMAIN list]
<1>1. DOMAIN [i \in DOMAIN list |-> i] = DOMAIN list
  OBVIOUS
<1> QED
  BY ONLY <1>1 DEF AtPositions, FoldLeft, MapThenFoldSet, KeepFun, KeepRec

(* The elements of a list.                                                 *)
Elements(list) == {list[i] : i \in DOMAIN list}

KeepSteps(it, n, list, kept) ==
  /\ it[0] = <<>> /\ it[n] = AtPositions(list, kept)
  /\ \A k \in 0..n : it[k] \in Seq(Elements(list))
  /\ \A k \in 1..n : it[k] = IF k \in kept THEN Append(it[k - 1], list[k]) ELSE it[k - 1]

(* AtPositions as a sequence of lists, one for each position.              *)
LEMMA AtPositionsSteps ==
  ASSUME NEW n \in Nat, NEW list, DOMAIN list = 1..n, NEW kept
  PROVE  \E it : KeepSteps(it, n, list, kept)
<1> DEFINE A == Seq(Elements(list))
           G == [k \in 1..n |-> [out \in A |-> IF k \in kept THEN Append(out, list[k]) ELSE out]]
<1>1. <<>> \in A
  OBVIOUS
<1>2. G \in [1..n -> [A -> A]]
  <2>1. ASSUME NEW k \in 1..n, NEW out \in A
        PROVE  Append(out, list[k]) \in A
    <3>1. list[k] \in Elements(list)
      BY DEF Elements
    <3> QED
      BY <3>1, AppendProperties
  <2> HIDE DEF A
  <2> QED
    BY <2>1
<1>3. ASSUME NEW k \in 1..n, NEW out \in A
      PROVE  G[k][out] = IF k \in kept THEN Append(out, list[k]) ELSE out
  OBVIOUS
<1> HIDE DEF A, G
<1>4. PICK g : Folded(g, n, A, <<>>, G)
  BY <1>1, <1>2, FoldTable
<1>5. ASSUME NEW s \in SUBSET (1..n), s # {}
      PROVE  /\ Max(s) \in 1..n /\ s \ {Max(s)} \in SUBSET (1..n)
             /\ [i \in DOMAIN list |-> i][Max(s)] = Max(s)
  <2>1. Max(s) \in s
    BY <1>5, MaxOf
  <2> QED
    BY <2>1
<1>6. KeepFun(g, list, kept)
  <2>0. g \in [SUBSET (1..n) -> A] /\ \A s \in SUBSET (1..n) : g[s] = FoldStep(g, <<>>, G, s)
    BY <1>4 DEF Folded
  <2>1. ASSUME NEW s \in SUBSET (1..n)
        PROVE  g[s] = KeepRec(g, list, kept, s)
    <3>1. CASE s = {}
      BY <2>0, <3>1 DEF FoldStep, KeepRec
    <3>2. CASE s # {}
      <4>1. g[s \ {Max(s)}] \in A /\ Max(s) \in 1..n
        BY <2>0, <1>5, <3>2
      <4>2. g[s] = G[Max(s)][g[s \ {Max(s)}]]
        BY <2>0, <3>2 DEF FoldStep
      <4>3. g[s] = IF Max(s) \in kept THEN Append(g[s \ {Max(s)}], list[Max(s)]) ELSE g[s \ {Max(s)}]
        BY <1>3, <4>1, <4>2
      <4> QED
        BY <1>5, <3>2, <4>3 DEF KeepRec
    <3> QED
      BY <3>1, <3>2
  <2>2. g = [s \in SUBSET (1..n) |-> g[s]]
    BY <2>0
  <2> QED
    BY <2>1, <2>2 DEF KeepFun
<1> DEFINE f == CHOOSE f : KeepFun(f, list, kept)
<1>7. KeepFun(f, list, kept)
  BY <1>6
<1>8. AtPositions(list, kept) = f[1..n]
  BY AtPositionsIs
<1> HIDE DEF f
<1>9. ASSUME NEW s \in SUBSET (1..n)
      PROVE  f[s] = KeepRec(f, list, kept, s)
  BY <1>7 DEF KeepFun
<1>10. f[{}] = <<>>
  BY <1>9 DEF KeepRec
<1>11. ASSUME NEW s \in SUBSET (1..n), s # {}, f[s \ {Max(s)}] \in A
       PROVE  f[s] = G[Max(s)][f[s \ {Max(s)}]]
  <2>1. f[s] = IF Max(s) \in kept THEN Append(f[s \ {Max(s)}], list[Max(s)]) ELSE f[s \ {Max(s)}]
    BY <1>5, <1>9, <1>11 DEF KeepRec
  <2> QED
    BY <1>3, <1>5, <1>11, <2>1
<1>12. PICK it : StepsOf(it, n, A, <<>>, G, f[1..n])
  <2>1. Follows(f, n, A, <<>>, G)
    BY <1>10, <1>11 DEF Follows
  <2> QED
    BY ONLY <2>1, <1>1, <1>2, n \in Nat, FoldFollowed
<1>13. /\ it[0] = <<>> /\ it[n] = f[1..n]
       /\ \A k \in 0..n : it[k] \in A
       /\ \A k \in 1..n : it[k] = G[k][it[k - 1]]
  BY <1>12 DEF StepsOf
<1>14. ASSUME NEW k \in 1..n
       PROVE  it[k] = IF k \in kept THEN Append(it[k - 1], list[k]) ELSE it[k - 1]
  <2>1. k - 1 \in 0..n
    OBVIOUS
  <2> QED
    BY <1>3, <1>13, <2>1
<1> QED
  BY <1>8, <1>13, <1>14 DEF A, KeepSteps

(* out has the elements of list at the positions of kept, each one once.   *)
Placed(out, list, kept) ==
  \E pos \in [kept -> DOMAIN out] :
    /\ \A i \in kept : out[pos[i]] = list[i]
    /\ \A i, j \in kept : pos[i] = pos[j] => i = j
    /\ \A m \in DOMAIN out : \E i \in kept : pos[i] = m

(* AtPositions gives a list with the elements that are kept, each one      *)
(* once.                                                                   *)
LEMMA AtPositionsList ==
  ASSUME NEW n \in Nat, NEW list, DOMAIN list = 1..n, NEW kept \in SUBSET (1..n)
  PROVE  IsList(AtPositions(list, kept)) /\ Placed(AtPositions(list, kept), list, kept)
<1>0. PICK it : KeepSteps(it, n, list, kept)
  BY AtPositionsSteps
<1>1. /\ it[0] = <<>> /\ it[n] = AtPositions(list, kept)
      /\ \A k \in 0..n : it[k] \in Seq(Elements(list))
      /\ \A k \in 1..n : it[k] = IF k \in kept THEN Append(it[k - 1], list[k]) ELSE it[k - 1]
  BY <1>0 DEF KeepSteps
<1> DEFINE T == {k \in 0..n : Placed(it[k], list, kept \cap (1..k))}
<1>2. 0 \in T
  <2>1. kept \cap (1..0) = {} /\ DOMAIN <<>> = {} /\ 0 \in 0..n
    OBVIOUS
  <2>2. [i \in {} |-> 0] \in [{} -> {}]
    OBVIOUS
  <2>3. Placed(<<>>, list, {})
    BY <2>1, <2>2 DEF Placed
  <2> QED
    BY <1>1, <2>1, <2>3
<1>3. ASSUME NEW k \in 1..n, k - 1 \in T
      PROVE  k \in T
  <2> DEFINE before == kept \cap (1..(k - 1))
             old == it[k - 1]
  <2>0. Placed(old, list, before) /\ k - 1 \in 0..n /\ k \in 0..n
    BY <1>3
  <2>1. PICK pos \in [before -> DOMAIN old] :
               /\ \A i \in before : old[pos[i]] = list[i]
               /\ \A i, j \in before : pos[i] = pos[j] => i = j
               /\ \A m \in DOMAIN old : \E i \in before : pos[i] = m
    BY <2>0 DEF Placed
  <2>2. CASE k \notin kept
    <3>1. kept \cap (1..k) = before /\ it[k] = old
      BY <1>1, <2>2
    <3> QED
      BY <2>0, <3>1
  <2>3. CASE k \in kept
    <3> DEFINE new == Append(old, list[k])
               pos2 == [i \in before \cup {k} |-> IF i = k THEN Len(old) + 1 ELSE pos[i]]
    <3>1. kept \cap (1..k) = before \cup {k} /\ it[k] = new /\ k \notin before
      <4>1. it[k] = new
        BY <1>1, <2>3
      <4>2. kept \cap (1..k) = before \cup {k} /\ k \notin before
        BY <2>3
      <4> QED
        BY <4>1, <4>2
    <3>2. old \in Seq(Elements(list)) /\ list[k] \in Elements(list)
      BY <1>1, <2>0 DEF Elements
    <3>3. /\ Len(old) \in Nat /\ DOMAIN old = 1..Len(old)
          /\ new \in Seq(Elements(list)) /\ Len(new) = Len(old) + 1
          /\ \A i \in 1..Len(old) : new[i] = old[i]
          /\ new[Len(old) + 1] = list[k]
      BY <3>2, AppendProperties, LenProperties
    <3>4. DOMAIN new = 1..(Len(old) + 1)
      BY <3>3, LenProperties
    <3> HIDE DEF new, old, before
    <3>5. pos2 \in [before \cup {k} -> DOMAIN new]
      BY <3>1, <3>3, <3>4
    <3>6. \A i \in before : pos2[i] = pos[i] /\ pos[i] \in 1..Len(old)
      BY <3>1, <3>3
    <3>7. pos2[k] = Len(old) + 1
      OBVIOUS
    <3> HIDE DEF pos2
    <3>8. \A i \in before \cup {k} : new[pos2[i]] = list[i]
      BY <2>1, <3>3, <3>6, <3>7
    <3>9. \A i, j \in before \cup {k} : pos2[i] = pos2[j] => i = j
      BY <2>1, <3>3, <3>6, <3>7
    <3>10. \A m \in DOMAIN new : \E i \in before \cup {k} : pos2[i] = m
      <4> SUFFICES ASSUME NEW m \in DOMAIN new
                   PROVE  \E i \in before \cup {k} : pos2[i] = m
        OBVIOUS
      <4>1. CASE m = Len(old) + 1
        BY <3>7, <4>1
      <4>2. CASE m # Len(old) + 1
        <5>1. m \in DOMAIN old
          BY <3>3, <3>4, <4>2
        <5> QED
          BY <2>1, <3>6, <5>1
      <4> QED
        BY <4>1, <4>2
    <3>11. Placed(new, list, before \cup {k})
      BY <3>5, <3>8, <3>9, <3>10 DEF Placed
    <3> QED
      BY <2>0, <3>1, <3>11
  <2> QED
    BY <2>2, <2>3
<1> HIDE DEF T
<1>4. \A k \in 1..n : k - 1 \in T => k \in T
  BY <1>3
<1>5. 0..n \subseteq T
  BY ONLY <1>2, <1>4, n \in Nat, UpTo
<1>6. n \in T /\ n \in 0..n
  BY <1>5
<1>7. kept \cap (1..n) = kept
  OBVIOUS
<1>8. IsList(it[n])
  BY <1>1, <1>6, SeqIsList
<1> QED
  BY <1>1, <1>6, <1>7, <1>8 DEF T

-----------------------------------------------------------------------------
(* What a configuration is: lines of the table with their quantities.      *)

(* The quantities of some lines of the table.                              *)
Configurations(def) == UNION {[S -> Int] : S \in SUBSET Keys(def)}

(* What it is to be a configuration, without the union.                    *)
LEMMA ConfigurationIs ==
  ASSUME NEW def, NEW c
  PROVE  c \in Configurations(def) <=> c \in [DOMAIN c -> Int] /\ DOMAIN c \subseteq Keys(def)
BY DEF Configurations

(* To add a line gives a configuration with that quantity, the others      *)
(* unchanged.                                                              *)
LEMMA AddLine ==
  ASSUME NEW def, NEW c \in Configurations(def), NEW key \in Keys(def), NEW q \in Int
  PROVE  /\ WithLine(c, key, q) \in Configurations(def)
         /\ DOMAIN WithLine(c, key, q) = DOMAIN c \cup {key}
         /\ WithLine(c, key, q)[key] = q
         /\ \A k \in DOMAIN c : k # key => WithLine(c, key, q)[k] = c[k]
<1>1. c \in [DOMAIN c -> Int] /\ DOMAIN c \subseteq Keys(def)
  BY ConfigurationIs
<1> DEFINE d == WithLine(c, key, q)
<1>2. /\ DOMAIN d = DOMAIN c \cup {key} /\ d = [k \in DOMAIN d |-> d[k]]
      /\ d[key] = q /\ \A k \in DOMAIN c : k # key => d[k] = c[k]
  BY DEF WithLine
<1> HIDE DEF d
<1>3. d \in [DOMAIN d -> Int] /\ DOMAIN d \subseteq Keys(def)
  BY <1>1, <1>2
<1>4. d \in Configurations(def)
  BY <1>3, ConfigurationIs
<1> QED
  BY <1>2, <1>4 DEF d

-----------------------------------------------------------------------------
(* The configuration of a price table: the lines that are kept, pass by    *)
(* pass.                                                                   *)

(* The lines of a validated table.                                         *)

(* A key of the table has a line.                                          *)
LEMMA LineOfKey ==
  ASSUME NEW def, NEW key \in Keys(def)
  PROVE  LineOf(def, key) \in Lines(def) /\ LineOf(def, key).key = key
<1>1. \E l \in Lines(def) : l.key = key
  BY DEF Keys
<1> QED
  BY <1>1 DEF LineOf

(* The lines and the rules of a validated table are lists.                 *)
LEMMA LinesAre ==
  ASSUME NEW def, Validated(def)
  PROVE  \E n \in Nat, m \in Nat :
           /\ DOMAIN def.lines = 1..n /\ DOMAIN def.rules = 1..m
           /\ Lines(def) = Elements(def.lines)
           /\ ToSet(def.rules) = Elements(def.rules)
<1>1. def.lines \in Seq(Lines(def)) /\ def.rules \in Seq(ToSet(def.rules))
  BY DEF Validated
<1>2. DOMAIN def.lines = 1..Len(def.lines) /\ DOMAIN def.rules = 1..Len(def.rules)
      /\ Len(def.lines) \in Nat /\ Len(def.rules) \in Nat
  BY <1>1, LenProperties
<1> QED
  BY <1>2 DEF Lines, ToSet, Elements

(* A line of a validated table is the only one of its key.                 *)
LEMMA LineAlone ==
  ASSUME NEW def, Validated(def), NEW l \in Lines(def)
  PROVE  l.key \in Keys(def) /\ LineOf(def, l.key) = l
<1>1. Lines(def) = Elements(def.lines)
  BY LinesAre
<1>2. l.key \in Keys(def)
  BY DEF Keys
<1>3. LineOf(def, l.key) \in Lines(def) /\ LineOf(def, l.key).key = l.key
  BY <1>2, LineOfKey
<1>4. PICK i \in DOMAIN def.lines, j \in DOMAIN def.lines :
        l = def.lines[i] /\ LineOf(def, l.key) = def.lines[j]
  BY <1>1, <1>3 DEF Elements
<1>5. i = j
  BY <1>3, <1>4 DEF Validated
<1> QED
  BY <1>2, <1>4, <1>5

(* A quantity is an integer: typed, entered, from the headcount or the     *)
(* default.                                                                *)
LEMMA RawQuantityType ==
  ASSUME NEW def, Validated(def), NEW sel, Selectable(sel), NEW l \in Lines(def)
  PROVE  RawQuantity(l, sel) \in Int
<1>1. l.default \in Nat \union {Headcount}
  BY DEF Validated
<1>2. /\ sel.headcount \in Nat \union {Unresolved}
      /\ \A key \in DOMAIN sel.quantities : sel.quantities[key] \in Int
  BY DEF Selectable
<1> DEFINE h == IF sel.headcount = Unresolved THEN 0 ELSE sel.headcount
<1>3. h \in Int
  BY <1>2
<1>4. RawQuantity(l, sel) =
        IF l.key \in DOMAIN sel.quantities THEN sel.quantities[l.key]
        ELSE IF l.default = Headcount THEN h ELSE l.default
  BY DEF RawQuantity
<1> HIDE DEF h
<1>5. CASE l.key \in DOMAIN sel.quantities
  BY <1>2, <1>4, <1>5
<1>6. CASE l.key \notin DOMAIN sel.quantities
  BY <1>1, <1>3, <1>4, <1>6
<1> QED
  BY <1>5, <1>6

(* An included line is added with its own quantity, once, and nothing else *)
(* changes.                                                                *)
LEMMA IncludeType ==
  ASSUME NEW def, Validated(def), NEW sel, Selectable(sel), NEW c \in Configurations(def),
         NEW key \in Keys(def)
  PROVE  /\ Include(def, sel, c, key) \in Configurations(def)
         /\ DOMAIN Include(def, sel, c, key) = DOMAIN c \cup {key}
         /\ \A k \in DOMAIN c : Include(def, sel, c, key)[k] = c[k]
         /\ key \notin DOMAIN c =>
              Include(def, sel, c, key)[key] = RawQuantity(LineOf(def, key), sel)
<1>1. LineOf(def, key) \in Lines(def)
  BY LineOfKey
<1> DEFINE q == RawQuantity(LineOf(def, key), sel)
<1>2. q \in Int
  BY <1>1, RawQuantityType
<1> HIDE DEF q
<1>3. CASE key \in DOMAIN c
  <2>1. Include(def, sel, c, key) = c /\ DOMAIN c \cup {key} = DOMAIN c
    BY <1>3 DEF Include
  <2> QED
    BY <1>3, <2>1
<1>4. CASE key \notin DOMAIN c
  <2>1. Include(def, sel, c, key) = WithLine(c, key, q)
    BY <1>4 DEF Include, q
  <2>2. /\ WithLine(c, key, q) \in Configurations(def)
        /\ DOMAIN WithLine(c, key, q) = DOMAIN c \cup {key}
        /\ WithLine(c, key, q)[key] = q
        /\ \A k \in DOMAIN c : k # key => WithLine(c, key, q)[k] = c[k]
    BY ONLY <1>2, c \in Configurations(def), key \in Keys(def), AddLine
  <2> QED
    BY <1>4, <2>1, <2>2 DEF q
<1> QED
  BY <1>3, <1>4

(* A rule leaves a configuration of the table.                             *)
LEMMA ApplyRuleType ==
  ASSUME NEW def, Validated(def), NEW sel, Selectable(sel), NEW c \in Configurations(def),
         NEW type, NEW r
  PROVE  ApplyRule(type, def, sel, c, r) \in Configurations(def)
<1>1. CASE r.type = type /\ r.line \in Keys(def) /\ Triggered(def, c, r)
  BY <1>1, IncludeType DEF ApplyRule
<1>2. CASE ~(r.type = type /\ r.line \in Keys(def) /\ Triggered(def, c, r))
  BY <1>2 DEF ApplyRule
<1> QED
  BY <1>1, <1>2

(* A set-up line leaves a configuration of the table.                      *)
LEMMA SetUpType ==
  ASSUME NEW def, NEW c \in Configurations(def), NEW l \in Lines(def)
  PROVE  SetUp(c, l) \in Configurations(def)
<1>1. CASE l.kind = "SETUP" /\ l.linkedTo \in DOMAIN c
  <2>1. l.key \in Keys(def) /\ c[l.linkedTo] \in Int
    BY <1>1, ConfigurationIs DEF Keys
  <2> QED
    BY <1>1, <2>1, AddLine DEF SetUp
<1>2. CASE ~(l.kind = "SETUP" /\ l.linkedTo \in DOMAIN c)
  BY <1>2 DEF SetUp
<1> QED
  BY <1>1, <1>2

-----------------------------------------------------------------------------
(* The passes of configure, step by step.                                  *)

(* The step of RulePass over the rules of the table.                       *)
RuleRec(f, type, def, sel, base, s) ==
  IF s = {} THEN base ELSE ApplyRule(type, def, sel, f[s \ {Max(s)}], def.rules[Max(s)])

RuleFun(f, type, def, sel, base) ==
  f = [s \in SUBSET DOMAIN def.rules |-> RuleRec(f, type, def, sel, base, s)]

(* RulePass is the fold of these steps.                                    *)
LEMMA RulePassIs ==
  ASSUME NEW type, NEW def, NEW sel, NEW base
  PROVE  RulePass(type, def, sel, base) =
           (CHOOSE f : RuleFun(f, type, def, sel, base))[DOMAIN def.rules]
BY ONLY DEF RulePass, FoldLeft, MapThenFoldSet, RuleFun, RuleRec

RuleSteps(it, n, type, def, sel, base) ==
  /\ it[0] = base /\ it[n] = RulePass(type, def, sel, base)
  /\ \A k \in 0..n : it[k] \in Configurations(def)
  /\ \A k \in 1..n : it[k] = ApplyRule(type, def, sel, it[k - 1], def.rules[k])

(* RulePass as a sequence of configurations, one for each rule.            *)
LEMMA RulePassSteps ==
  ASSUME NEW def, Validated(def), NEW sel, Selectable(sel), NEW base \in Configurations(def), NEW type,
         NEW n \in Nat, DOMAIN def.rules = 1..n
  PROVE  \E it : RuleSteps(it, n, type, def, sel, base)
<1> DEFINE A == Configurations(def)
           G == [k \in 1..n |-> [c \in A |-> ApplyRule(type, def, sel, c, def.rules[k])]]
<1>1. G \in [1..n -> [A -> A]]
  <2>1. \A k \in 1..n : \A c \in A : ApplyRule(type, def, sel, c, def.rules[k]) \in A
    BY ApplyRuleType
  <2> HIDE DEF A
  <2> QED
    BY <2>1
<1>2. ASSUME NEW k \in 1..n, NEW c \in A
      PROVE  G[k][c] = ApplyRule(type, def, sel, c, def.rules[k])
  OBVIOUS
<1> HIDE DEF G
<1>3. PICK g : Folded(g, n, A, base, G)
  BY <1>1, FoldTable
<1>4. ASSUME NEW s \in SUBSET (1..n), s # {}
      PROVE  Max(s) \in 1..n /\ s \ {Max(s)} \in SUBSET (1..n)
  <2>1. Max(s) \in s
    BY <1>4, MaxOf
  <2> QED
    BY <2>1
<1>5. RuleFun(g, type, def, sel, base)
  <2>0. g \in [SUBSET (1..n) -> A] /\ \A s \in SUBSET (1..n) : g[s] = FoldStep(g, base, G, s)
    BY <1>3 DEF Folded
  <2>1. ASSUME NEW s \in SUBSET (1..n)
        PROVE  g[s] = RuleRec(g, type, def, sel, base, s)
    <3>1. CASE s = {}
      BY <2>0, <3>1 DEF FoldStep, RuleRec
    <3>2. CASE s # {}
      <4>1. g[s \ {Max(s)}] \in A /\ Max(s) \in 1..n
        BY <2>0, <1>4, <3>2
      <4>2. g[s] = G[Max(s)][g[s \ {Max(s)}]]
        BY <2>0, <3>2 DEF FoldStep
      <4>3. g[s] = ApplyRule(type, def, sel, g[s \ {Max(s)}], def.rules[Max(s)])
        BY <1>2, <4>1, <4>2
      <4> QED
        BY <3>2, <4>3 DEF RuleRec
    <3> QED
      BY <3>1, <3>2
  <2>2. g = [s \in SUBSET (1..n) |-> g[s]]
    BY <2>0
  <2> QED
    BY <2>1, <2>2 DEF RuleFun
<1> DEFINE f == CHOOSE f : RuleFun(f, type, def, sel, base)
<1>6. RuleFun(f, type, def, sel, base)
  BY <1>5
<1>7. RulePass(type, def, sel, base) = f[1..n]
  BY RulePassIs
<1> HIDE DEF f, A
<1>8. ASSUME NEW s \in SUBSET (1..n)
      PROVE  f[s] = RuleRec(f, type, def, sel, base, s)
  BY <1>6 DEF RuleFun
<1>9. f[{}] = base
  BY <1>8 DEF RuleRec
<1>10. ASSUME NEW s \in SUBSET (1..n), s # {}, f[s \ {Max(s)}] \in A
       PROVE  f[s] = G[Max(s)][f[s \ {Max(s)}]]
  <2>1. f[s] = ApplyRule(type, def, sel, f[s \ {Max(s)}], def.rules[Max(s)])
    BY <1>8, <1>10 DEF RuleRec
  <2> QED
    BY <1>2, <1>4, <1>10, <2>1
<1>11. PICK it : StepsOf(it, n, A, base, G, f[1..n])
  <2>1. base \in A
    BY DEF A
  <2>2. Follows(f, n, A, base, G)
    BY <1>9, <1>10 DEF Follows
  <2> QED
    BY ONLY <2>1, <2>2, <1>1, n \in Nat, FoldFollowed
<1>12. /\ it[0] = base /\ it[n] = f[1..n]
       /\ \A k \in 0..n : it[k] \in A
       /\ \A k \in 1..n : it[k] = G[k][it[k - 1]]
  BY <1>11 DEF StepsOf
<1>13. ASSUME NEW k \in 1..n
       PROVE  it[k] = ApplyRule(type, def, sel, it[k - 1], def.rules[k])
  <2>1. k - 1 \in 0..n
    OBVIOUS
  <2> QED
    BY <1>2, <1>12, <2>1
<1>14. RuleSteps(it, n, type, def, sel, base)
  BY <1>7, <1>12, <1>13 DEF A, RuleSteps
<1> QED
  BY <1>14

(* The last pass: the set-up lines.                                        *)
SetUpPass(def, base) == FoldLeft(SetUp, base, def.lines)

SetUpRec(f, def, base, s) ==
  IF s = {} THEN base ELSE SetUp(f[s \ {Max(s)}], def.lines[Max(s)])

SetUpFun(f, def, base) ==
  f = [s \in SUBSET DOMAIN def.lines |-> SetUpRec(f, def, base, s)]

(* The pass of the set-up lines is the fold of its steps.                  *)
LEMMA SetUpPassIs ==
  ASSUME NEW def, NEW base
  PROVE  SetUpPass(def, base) =
           (CHOOSE f : SetUpFun(f, def, base))[DOMAIN def.lines]
BY ONLY DEF SetUpPass, FoldLeft, MapThenFoldSet, SetUpFun, SetUpRec

SetUpSequence(it, n, def, base) ==
  /\ it[0] = base /\ it[n] = SetUpPass(def, base)
  /\ \A k \in 0..n : it[k] \in Configurations(def)
  /\ \A k \in 1..n : it[k] = SetUp(it[k - 1], def.lines[k])

(* The pass of the set-up lines as a sequence of configurations.           *)
LEMMA SetUpSteps ==
  ASSUME NEW def, NEW base \in Configurations(def),
         NEW n \in Nat, DOMAIN def.lines = 1..n, Lines(def) = Elements(def.lines)
  PROVE  \E it : SetUpSequence(it, n, def, base)
<1> DEFINE A == Configurations(def)
           G == [k \in 1..n |-> [c \in A |-> SetUp(c, def.lines[k])]]
<1>1. G \in [1..n -> [A -> A]]
  <2>1. \A k \in 1..n : \A c \in A : SetUp(c, def.lines[k]) \in A
    BY SetUpType DEF Elements
  <2> HIDE DEF A
  <2> QED
    BY <2>1
<1>2. ASSUME NEW k \in 1..n, NEW c \in A
      PROVE  G[k][c] = SetUp(c, def.lines[k])
  OBVIOUS
<1> HIDE DEF G
<1>3. PICK g : Folded(g, n, A, base, G)
  BY <1>1, FoldTable
<1>4. ASSUME NEW s \in SUBSET (1..n), s # {}
      PROVE  Max(s) \in 1..n /\ s \ {Max(s)} \in SUBSET (1..n)
  <2>1. Max(s) \in s
    BY <1>4, MaxOf
  <2> QED
    BY <2>1
<1>5. SetUpFun(g, def, base)
  <2>0. g \in [SUBSET (1..n) -> A] /\ \A s \in SUBSET (1..n) : g[s] = FoldStep(g, base, G, s)
    BY <1>3 DEF Folded
  <2>1. ASSUME NEW s \in SUBSET (1..n)
        PROVE  g[s] = SetUpRec(g, def, base, s)
    <3>1. CASE s = {}
      BY <2>0, <3>1 DEF FoldStep, SetUpRec
    <3>2. CASE s # {}
      <4>1. g[s \ {Max(s)}] \in A /\ Max(s) \in 1..n
        BY <2>0, <1>4, <3>2
      <4>2. g[s] = G[Max(s)][g[s \ {Max(s)}]]
        BY <2>0, <3>2 DEF FoldStep
      <4>3. g[s] = SetUp(g[s \ {Max(s)}], def.lines[Max(s)])
        BY <1>2, <4>1, <4>2
      <4> QED
        BY <3>2, <4>3 DEF SetUpRec
    <3> QED
      BY <3>1, <3>2
  <2>2. g = [s \in SUBSET (1..n) |-> g[s]]
    BY <2>0
  <2> QED
    BY <2>1, <2>2 DEF SetUpFun
<1> DEFINE f == CHOOSE f : SetUpFun(f, def, base)
<1>6. SetUpFun(f, def, base)
  BY <1>5
<1>7. SetUpPass(def, base) = f[1..n]
  BY SetUpPassIs
<1> HIDE DEF f, A
<1>8. ASSUME NEW s \in SUBSET (1..n)
      PROVE  f[s] = SetUpRec(f, def, base, s)
  BY <1>6 DEF SetUpFun
<1>9. f[{}] = base
  BY <1>8 DEF SetUpRec
<1>10. ASSUME NEW s \in SUBSET (1..n), s # {}, f[s \ {Max(s)}] \in A
       PROVE  f[s] = G[Max(s)][f[s \ {Max(s)}]]
  <2>1. f[s] = SetUp(f[s \ {Max(s)}], def.lines[Max(s)])
    BY <1>8, <1>10 DEF SetUpRec
  <2> QED
    BY <1>2, <1>4, <1>10, <2>1
<1>11. PICK it : StepsOf(it, n, A, base, G, f[1..n])
  <2>1. base \in A
    BY DEF A
  <2>2. Follows(f, n, A, base, G)
    BY <1>9, <1>10 DEF Follows
  <2> QED
    BY ONLY <2>1, <2>2, <1>1, n \in Nat, FoldFollowed
<1>12. /\ it[0] = base /\ it[n] = f[1..n]
       /\ \A k \in 0..n : it[k] \in A
       /\ \A k \in 1..n : it[k] = G[k][it[k - 1]]
  BY <1>11 DEF StepsOf
<1>13. ASSUME NEW k \in 1..n
       PROVE  it[k] = SetUp(it[k - 1], def.lines[k])
  <2>1. k - 1 \in 0..n
    OBVIOUS
  <2> QED
    BY <1>2, <1>12, <2>1
<1>14. SetUpSequence(it, n, def, base)
  BY <1>7, <1>12, <1>13 DEF A, SetUpSequence
<1> QED
  BY <1>14
(* The configuration is the three passes over the selected lines.          *)
LEMMA IncludedIs ==
  ASSUME NEW def, NEW sel
  PROVE  Included(def, sel) =
           SetUpPass(def, RulePass("AUTO_INCLUDE", def, sel,
                                   RulePass("REQUIRED_IF_ANY", def, sel, Selected(def, sel))))
BY DEF Included, SetUpPass

(* The lines that the selection takes are a configuration.                 *)
LEMMA SelectedType ==
  ASSUME NEW def, Validated(def), NEW sel, Selectable(sel)
  PROVE  Selected(def, sel) \in Configurations(def)
<1> DEFINE S == {l.key : l \in {m \in Lines(def) :
                             m.kind = "REQUIRED" \/ (m.kind = "OPTIONAL" /\ m.key \in sel.options)}}
<1>1. S \subseteq Keys(def)
  BY DEF Keys
<1>2. ASSUME NEW key \in S
      PROVE  RawQuantity(LineOf(def, key), sel) \in Int
  <2>1. LineOf(def, key) \in Lines(def)
    BY <1>1, LineOfKey
  <2> QED
    BY <2>1, RawQuantityType
<1>3. Selected(def, sel) = [key \in S |-> RawQuantity(LineOf(def, key), sel)]
  BY DEF Selected
<1> HIDE DEF S
<1>4. Selected(def, sel) \in [S -> Int] /\ S \in SUBSET Keys(def)
  BY <1>1, <1>2, <1>3
<1> QED
  BY <1>4 DEF Configurations

(* A pass leaves a configuration of the table.                             *)
LEMMA RulePassType ==
  ASSUME NEW def, Validated(def), NEW sel, Selectable(sel), NEW base \in Configurations(def), NEW type
  PROVE  RulePass(type, def, sel, base) \in Configurations(def)
<1>1. PICK m \in Nat : DOMAIN def.rules = 1..m
  BY LinesAre
<1>2. PICK it : RuleSteps(it, m, type, def, sel, base)
  BY <1>1, RulePassSteps
<1>3. m \in 0..m
  OBVIOUS
<1> QED
  BY <1>2, <1>3 DEF RuleSteps

(* What configure keeps are lines of the table, with integer quantities.   *)
LEMMA IncludedType ==
  ASSUME NEW def, Validated(def), NEW sel, Selectable(sel)
  PROVE  Included(def, sel) \in Configurations(def)
<1> DEFINE R == RulePass("AUTO_INCLUDE", def, sel,
                         RulePass("REQUIRED_IF_ANY", def, sel, Selected(def, sel)))
<1>1. R \in Configurations(def)
  BY SelectedType, RulePassType
<1>2. Included(def, sel) = SetUpPass(def, R)
  BY IncludedIs
<1> HIDE DEF R
<1>3. PICK n \in Nat : DOMAIN def.lines = 1..n /\ Lines(def) = Elements(def.lines)
  BY LinesAre
<1>4. PICK it : SetUpSequence(it, n, def, R)
  BY <1>1, <1>3, SetUpSteps
<1>5. n \in 0..n
  OBVIOUS
<1> QED
  BY <1>2, <1>4, <1>5 DEF SetUpSequence

-----------------------------------------------------------------------------
(* The price of a plain line: entered, not tiered, without an override.    *)

(* Arithmetic.                                                             *)

(* A rounded fraction is an integer.                                       *)
LEMMA NearestType ==
  ASSUME NEW n \in Int, NEW d \in Nat \ {0}, NEW mode
  PROVE  Nearest(n, d, mode) \in Int
<1> DEFINE size == IF n < 0 THEN -n ELSE n
<1>1. size \in Nat
  OBVIOUS
<1> HIDE DEF size
<1>2. size \div d \in Int
  BY <1>1
<1> DEFINE q == size \div d
           r == size % d
           up == 2 * r > d \/ (2 * r = d /\ (mode = HalfAway \/ q % 2 = 1))
           rounded == IF up THEN q + 1 ELSE q
<1>3. q \in Int
  BY <1>2
<1> HIDE DEF q, up
<1>4. rounded \in Int
  BY <1>3
<1>5. Nearest(n, d, mode) = IF n < 0 THEN -rounded ELSE rounded
  BY DEF Nearest, size, q, up
<1> HIDE DEF rounded
<1> QED
  BY <1>4, <1>5

(* A whole number is its own nearest.                                      *)
LEMMA NearestWhole ==
  ASSUME NEW n \in Int, NEW d \in {1, 10}, NEW mode
  PROVE  Nearest(d * n, d, mode) = n
<1> DEFINE m == d * n
           size == IF m < 0 THEN -m ELSE m
           abs == IF n < 0 THEN -n ELSE n
<1>1. size = d * abs /\ abs \in Nat /\ m \in Int /\ (m < 0 <=> n < 0)
  OBVIOUS
<1>2. size \div d = abs /\ size % d = 0
  <2>1. \A a \in Nat : (10 * a) \div 10 = a /\ (10 * a) % 10 = 0 /\ (1 * a) \div 1 = a /\ (1 * a) % 1 = 0
    OBVIOUS
  <2> HIDE DEF size, abs, m
  <2> QED
    BY <1>1, <2>1
<1> DEFINE q == size \div d
           r == size % d
           up == 2 * r > d \/ (2 * r = d /\ (mode = HalfAway \/ q % 2 = 1))
           rounded == IF up THEN q + 1 ELSE q
<1>3. q = abs /\ r = 0
  BY <1>2
<1> HIDE DEF q, r
<1>4. ~up
  BY <1>3
<1>5. rounded = abs
  BY <1>3, <1>4
<1>6. Nearest(m, d, mode) = IF m < 0 THEN -rounded ELSE rounded
  BY DEF Nearest, size, q, r
<1> HIDE DEF rounded, m
<1>7. Nearest(m, d, mode) = IF n < 0 THEN -abs ELSE abs
  BY <1>1, <1>5, <1>6
<1>8. Nearest(m, d, mode) = n
  BY <1>7
<1> QED
  BY <1>8 DEF m

(* The step of a scale; from two decimals on it divides a cent.            *)
LEMMA StepIs ==
  ASSUME NEW scale
  PROVE  Step(scale) \in {1000, 100, 10, 1} /\ (scale >= 2 => Step(scale) \in {10, 1})
<1>1. ASSUME scale >= 2
      PROVE  scale # 0 /\ scale # 1
  <2>1. CASE scale = 0
    BY <1>1, <2>1
  <2>2. CASE scale = 1
    BY <1>1, <2>2
  <2> QED
    BY <2>1, <2>2
<1> QED
  BY <1>1 DEF Step

(* A unit price is a whole number of Mills.                                *)
LEMMA RoundToScaleType ==
  ASSUME NEW m \in Int, NEW using
  PROVE  RoundToScale(Fraction(m), using) \in Int
<1> DEFINE step == Step(using.unitPriceScale)
           k == Nearest(m, 1 * step, using.rounding)
<1>1. step \in {1000, 100, 10, 1}
  BY StepIs
<1>2. RoundToScale(Fraction(m), using) = step * k
  BY DEF RoundToScale, Fraction
<1> HIDE DEF step
<1>3. 1 * step \in Nat \ {0}
  BY <1>1
<1>4. k \in Int
  BY <1>3, NearestType
<1> HIDE DEF k
<1>5. step * k \in Int
  BY <1>1, <1>4
<1> QED
  BY <1>2, <1>5

(* A whole number of cents is kept at the scales from two decimals on.     *)
LEMMA RoundToScaleWhole ==
  ASSUME NEW c \in Int, NEW using, using.unitPriceScale >= 2
  PROVE  RoundToScale(Fraction(10 * c), using) = 10 * c
<1> DEFINE step == Step(using.unitPriceScale)
           k == Nearest(10 * c, 1 * step, using.rounding)
<1>1. step \in {10, 1}
  BY StepIs
<1>2. RoundToScale(Fraction(10 * c), using) = step * k
  BY DEF RoundToScale, Fraction
<1> HIDE DEF step
<1>3. CASE step = 10
  <2>1. k = c
    BY <1>3, NearestWhole
  <2> QED
    BY <1>2, <1>3, <2>1
<1>4. CASE step = 1
  <2>1. 10 * c \in Int /\ 1 * (10 * c) = 10 * c
    OBVIOUS
  <2>2. Nearest(1 * (10 * c), 1, using.rounding) = 10 * c
    BY ONLY <2>1, NearestWhole
  <2>3. k = 10 * c
    BY <1>4, <2>1, <2>2
  <2> QED
    BY <1>2, <1>4, <2>3
<1> QED
  BY <1>1, <1>3, <1>4

(* A total is a whole number of cents.                                     *)
LEMMA ToCentsType ==
  ASSUME NEW m \in Int, NEW using
  PROVE  ToCents(Fraction(m), using) \in Int
<1>1. ToCents(Fraction(m), using) = Nearest(m, 10 * 1, using.rounding)
  BY DEF ToCents, Fraction
<1>2. 10 * 1 \in Nat \ {0}
  OBVIOUS
<1> QED
  BY <1>1, <1>2, NearestType

(* Whole cents are not rounded.                                            *)
LEMMA ToCentsWhole ==
  ASSUME NEW m \in Int, NEW using
  PROVE  ToCents(Fraction(10 * m), using) = m
<1>1. ToCents(Fraction(10 * m), using) = Nearest(10 * m, 10, using.rounding)
  BY DEF ToCents, Fraction
<1> QED
  BY <1>1, NearestWhole

-----------------------------------------------------------------------------
(* The price of a line that is entered, in a fixed quantity, while it is   *)
(* not revised.                                                            *)

(* A line whose price is entered and that has no tiers, of a coherent      *)
(* recurrence.                                                             *)
IsFlat(l) ==
  /\ l.mode = "MANUAL" /\ l.kind \in {"UNIT", "SETUP_FEE", "FLAT_MONTHLY"}
  /\ RecurrenceError(l) = Ok
  /\ \E c \in Int : l.unitPrice = 10 * c
  /\ l.quantity \in Nat

(* What such a line is sold for, without a revision and without an         *)
(* override.                                                               *)
Sold(l, using) ==
  LET price == RoundToScale(Fraction(l.unitPrice), using) IN
  Priced(l, RecurrenceOf(l), price, price, ToCents(Fraction(price * l.quantity), using))

(* Without any error, the first error is none.                             *)
LEMMA NoError ==
  ASSUME NEW errors, \A i \in DOMAIN errors : errors[i] = Ok
  PROVE  FirstError(errors) = Ok
BY DEF FirstError

(* A plain line has no error and is sold at its price.                     *)
LEMMA FlatPrice ==
  ASSUME NEW l, IsFlat(l), NEW env, env.overrides = {}, NEW day, ~IsRevised(l, day)
  PROVE  RegularLine(l, env, day) = [error |-> Ok, line |-> Sold(l, env.settings)]
<1>1. l.mode = "MANUAL" /\ l.kind # "TIERED" /\ l.quantity # Provided /\ l.unitPrice # NoPrice
      /\ l.quantity \in Nat /\ l.unitPrice \in Int /\ RecurrenceError(l) = Ok
  BY DEF IsFlat, Provided, NoPrice
<1>2. QuantityError(l, env) = Ok /\ QuantityOf(l, env) = l.quantity
  BY <1>1 DEF QuantityError, QuantityOf
<1>3. BaseError(l, env) = Ok
  BY <1>1 DEF BaseError
<1>4. RevisionError(l, day) = Ok
  BY DEF RevisionError
<1>5. LineError(l, env, day) = Ok
  <2>1. FirstError(<<RecurrenceError(l), QuantityError(l, env)>>) = Ok
    BY <1>1, <1>2, NoError
  <2>2. <<BaseError(l, env), RevisionError(l, day)>> \o <<>> = <<Ok, Ok>>
    BY <1>3, <1>4
  <2>3. FirstError(<<Ok, Ok>>) = Ok
    BY NoError
  <2> QED
    BY <1>1, <2>1, <2>2, <2>3 DEF LineError
<1> DEFINE x == Fraction(l.unitPrice)
           price == RoundToScale(x, env.settings)
<1>6. BasePrice(l, env) = x
  BY <1>1 DEF BasePrice
<1>7. Adjusted(Revised(BasePrice(l, env), l, day), l, env) = x
  BY <1>1, <1>6 DEF Adjusted, Revised
<1>8. ComputedPrice(l, x, QuantityOf(l, env), env.settings) = price
  BY <1>1 DEF ComputedPrice
<1> DEFINE choice == SelectOverride(env.overrides, l.key, day, price, env.settings)
<1>9. choice.applied = {} /\ choice.error = Ok
  <2> DEFINE latest == {o \in {p \in {} : p.lineKey = l.key /\ Eligible(p, day, price, env.settings)} :
                          \A p \in {} : p.validFrom <= o.validFrom}
  <2>1. {p \in env.overrides : p.lineKey = l.key /\ Eligible(p, day, price, env.settings)} = {}
    OBVIOUS
  <2>2. Cardinality({}) = 0
    BY FS_EmptySet
  <2> QED
    BY <2>1, <2>2 DEF SelectOverride
<1> HIDE DEF choice, price, x
<1>10. RegularLine(l, env, day) = SoldAt(l, env, x, price, choice)
  BY <1>5, <1>7, <1>8 DEF RegularLine, PricedExactly, Overridden, choice
<1>11. SoldAt(l, env, x, price, choice) =
         [error |-> Ok, line |-> Priced(l, RecurrenceOf(l), price, price,
                                        ToCents(Fraction(price * l.quantity), env.settings))]
  BY <1>1, <1>2, <1>9 DEF SoldAt
<1> QED
  BY <1>10, <1>11 DEF Sold, price, x

(* A line that is sold keeps its key, rate and recurrence, and has a whole *)
(* total.                                                                  *)
LEMMA SoldType ==
  ASSUME NEW l, IsFlat(l), NEW using
  PROVE  /\ Sold(l, using).key = l.key /\ Sold(l, using).vat = l.vat
         /\ Sold(l, using).recurrence = RecurrenceOf(l)
         /\ Sold(l, using).total \in Int
<1> DEFINE price == RoundToScale(Fraction(l.unitPrice), using)
           total == ToCents(Fraction(price * l.quantity), using)
<1>1. l.unitPrice \in Int /\ l.quantity \in Int
  BY DEF IsFlat
<1>2. price \in Int
  BY <1>1, RoundToScaleType
<1> HIDE DEF price
<1>3. price * l.quantity \in Int
  BY <1>1, <1>2
<1>4. total \in Int
  BY <1>3, ToCentsType
<1> HIDE DEF total
<1>5. Sold(l, using) = Priced(l, RecurrenceOf(l), price, price, total)
  BY DEF Sold, price, total
<1> QED
  BY <1>4, <1>5 DEF Priced

(* In whole cents, the total is the price times the quantity.              *)
LEMMA SoldWhole ==
  ASSUME NEW l, NEW c \in Int, l.unitPrice = 10 * c, l.quantity \in Nat, NEW using,
         using.unitPriceScale >= 2
  PROVE  Sold(l, using) = Priced(l, RecurrenceOf(l), 10 * c, 10 * c, c * l.quantity)
<1>1. RoundToScale(Fraction(l.unitPrice), using) = 10 * c
  BY RoundToScaleWhole
<1>2. PICK q \in Int : q = l.quantity
  OBVIOUS
<1>3. (10 * c) * q = 10 * (c * q) /\ c * q \in Int
  OBVIOUS
<1>4. PICK m \in Int : m = c * q
  BY <1>3
<1>5. ToCents(Fraction(10 * m), using) = m
  BY ToCentsWhole
<1> QED
  BY <1>1, <1>2, <1>3, <1>4, <1>5 DEF Sold

(* A line that only informs has the quantity zero and the total zero.      *)
LEMMA SoldNothing ==
  ASSUME NEW l, IsFlat(l), l.quantity = 0, NEW using
  PROVE  Sold(l, using).total = 0
<1> DEFINE price == RoundToScale(Fraction(l.unitPrice), using)
           total == ToCents(Fraction(price * l.quantity), using)
<1>1. l.unitPrice \in Int
  BY DEF IsFlat
<1>2. price \in Int
  BY <1>1, RoundToScaleType
<1> HIDE DEF price
<1>3. price * l.quantity = 10 * 0
  BY <1>2
<1>4. total = 0
  BY <1>3, ToCentsWhole
<1> HIDE DEF total
<1>5. Sold(l, using) = Priced(l, RecurrenceOf(l), price, price, total)
  BY DEF Sold, price, total
<1> QED
  BY <1>4, <1>5 DEF Priced

-----------------------------------------------------------------------------
(* The schedule that is computed, and its discounts.                       *)

(* The first error is none exactly when there is none.                     *)
LEMMA FirstErrorIs ==
  ASSUME NEW errors, DOMAIN errors \subseteq Nat
  PROVE  FirstError(errors) = Ok <=> \A i \in DOMAIN errors : errors[i] = Ok
<1> DEFINE thrown == {i \in DOMAIN errors : errors[i] # Ok}
<1>1. FirstError(errors) = IF thrown = {} THEN Ok ELSE errors[Min(thrown)]
  BY DEF FirstError
<1>2. thrown # {} => Min(thrown) \in thrown
  <2>1. thrown \in SUBSET Nat
    OBVIOUS
  <2> HIDE DEF thrown
  <2> QED
    BY <2>1, MinIs
<1> QED
  BY <1>1, <1>2

(* The prices of the lines that are no discounts.                          *)
RegularPrices(lines, env, day) == {RegularLine(lines[i], env, day).line : i \in RegularOf(lines)}

DiscountPrices(lines, env, day) ==
  {DiscountLine(lines[i], RegularPrices(lines, env, day), env).line : i \in DiscountsOf(lines)}

(* No key twice, no regular line and no discount in error.                 *)
Computed(lines, env, day) ==
  /\ ~RepeatedKey(lines)
  /\ \A i \in RegularOf(lines) : RegularLine(lines[i], env, day).error = Ok
  /\ \A i \in DiscountsOf(lines) :
       DiscountLine(lines[i], RegularPrices(lines, env, day), env).error = Ok

(* A schedule is computed when every one of its lines is.                  *)
LEMMA ScheduleComputed ==
  ASSUME NEW lines, DOMAIN lines \subseteq Nat, NEW env, NEW day
  PROVE  /\ PriceSchedule(lines, env, day).error = Ok <=> Computed(lines, env, day)
         /\ Computed(lines, env, day) =>
              PriceSchedule(lines, env, day).lines =
                RegularPrices(lines, env, day) \union DiscountPrices(lines, env, day)
         /\ ~Computed(lines, env, day) => PriceSchedule(lines, env, day).lines = {}
<1> DEFINE regular == [i \in RegularOf(lines) |-> RegularLine(lines[i], env, day)]
           entries == [i \in DiscountsOf(lines) |-> lines[i]]
           priced == RegularPrices(lines, env, day)
           discounts == [i \in DiscountsOf(lines) |-> DiscountLine(lines[i], priced, env)]
           regularErrors == [i \in DOMAIN regular |-> regular[i].error]
           discountErrors == [i \in DOMAIN discounts |-> discounts[i].error]
           granted == {discounts[i].line : i \in DOMAIN discounts}
<1>0. DOMAIN regularErrors \subseteq Nat /\ DOMAIN discountErrors \subseteq Nat
  BY DEF RegularOf, DiscountsOf
<1>1. FirstError(regularErrors) = Ok <=>
        \A i \in RegularOf(lines) : RegularLine(lines[i], env, day).error = Ok
  <2>1. FirstError(regularErrors) = Ok <=> \A i \in DOMAIN regularErrors : regularErrors[i] = Ok
    BY ONLY <1>0, FirstErrorIs
  <2> QED
    BY ONLY <2>1
<1>2. FirstError(discountErrors) = Ok <=>
        \A i \in DiscountsOf(lines) : DiscountLine(lines[i], priced, env).error = Ok
  <2>1. FirstError(discountErrors) = Ok <=> \A i \in DOMAIN discountErrors : discountErrors[i] = Ok
    BY ONLY <1>0, FirstErrorIs
  <2> QED
    BY ONLY <2>1
<1>3. PriceSchedule(lines, env, day) =
        IF RepeatedKey(lines) THEN NoPrices("INVALID_LINE") ELSE Complete(regular, entries, env)
  BY DEF PriceSchedule
<1>4. {regular[i].line : i \in DOMAIN regular} = priced
  BY DEF RegularPrices
<1>5. WithDiscounts(entries, priced, env) = Discounted(priced, discounts)
  <2>1. [i \in DOMAIN entries |-> DiscountLine(entries[i], priced, env)] = discounts
    OBVIOUS
  <2> HIDE DEF entries, priced
  <2> QED
    BY <2>1 DEF WithDiscounts
<1>6. granted = DiscountPrices(lines, env, day)
  BY DEF DiscountPrices
<1> HIDE DEF priced, entries
<1>7. Complete(regular, entries, env) =
        IF FirstError(regularErrors) # Ok THEN NoPrices(FirstError(regularErrors))
        ELSE Discounted(priced, discounts)
  <2>1. Complete(regular, entries, env) =
          IF FirstError(regularErrors) # Ok THEN NoPrices(FirstError(regularErrors))
          ELSE WithDiscounts(entries, {regular[i].line : i \in DOMAIN regular}, env)
    BY DEF Complete
  <2> HIDE DEF regular, regularErrors
  <2> QED
    BY <1>4, <1>5, <2>1
<1>8. Discounted(priced, discounts) =
        IF FirstError(discountErrors) # Ok THEN NoPrices(FirstError(discountErrors))
        ELSE [error |-> Ok, lines |-> priced \union granted]
  BY DEF Discounted
<1> HIDE DEF regular, regularErrors, discounts, discountErrors, granted
<1>9. Computed(lines, env, day) <=>
        ~RepeatedKey(lines) /\ FirstError(regularErrors) = Ok /\ FirstError(discountErrors) = Ok
  BY <1>1, <1>2 DEF Computed, priced
<1>10. "INVALID_LINE" # Ok
  BY DEF Ok
<1> QED
  BY <1>3, <1>6, <1>7, <1>8, <1>9, <1>10 DEF NoPrices, priced

(* Two schedules that differ in nothing that the prices depend on.         *)
LEMMA SamePricing ==
  ASSUME NEW lines, NEW others, NEW env, NEW other, NEW day, NEW date,
         DOMAIN others = DOMAIN lines,
         \A i \in DOMAIN lines : others[i].key = lines[i].key /\ others[i].kind = lines[i].kind,
         \A i \in RegularOf(lines) : RegularLine(others[i], other, date) = RegularLine(lines[i], env, day),
         \A i \in DiscountsOf(lines) : others[i] = lines[i],
         other.settings.rounding = env.settings.rounding
  PROVE  PriceSchedule(others, other, date) = PriceSchedule(lines, env, day)
<1>1. RepeatedKey(others) <=> RepeatedKey(lines)
  BY DEF RepeatedKey
<1>2. RegularOf(others) = RegularOf(lines) /\ DiscountsOf(others) = DiscountsOf(lines)
  BY DEF RegularOf, DiscountsOf
<1> DEFINE regular == [i \in RegularOf(lines) |-> RegularLine(lines[i], env, day)]
           entries == [i \in DiscountsOf(lines) |-> lines[i]]
<1>3. [i \in RegularOf(others) |-> RegularLine(others[i], other, date)] = regular
  BY <1>2
<1>4. [i \in DiscountsOf(others) |-> others[i]] = entries
  BY <1>2
<1>5. \A x : ToCents(x, other.settings) = ToCents(x, env.settings)
  BY DEF ToCents
<1>6. \A l, priced : DiscountLine(l, priced, other) = DiscountLine(l, priced, env)
  BY <1>5 DEF DiscountLine
<1>7. PriceSchedule(others, other, date) =
        IF RepeatedKey(lines) THEN NoPrices("INVALID_LINE") ELSE Complete(regular, entries, other)
  BY <1>1, <1>3, <1>4 DEF PriceSchedule
<1>8. PriceSchedule(lines, env, day) =
        IF RepeatedKey(lines) THEN NoPrices("INVALID_LINE") ELSE Complete(regular, entries, env)
  BY DEF PriceSchedule
<1> HIDE DEF regular, entries
<1>9. \A priced : WithDiscounts(entries, priced, other) = WithDiscounts(entries, priced, env)
  BY <1>6 DEF WithDiscounts
<1>10. Complete(regular, entries, other) = Complete(regular, entries, env)
  BY <1>9 DEF Complete
<1> QED
  BY <1>7, <1>8, <1>10

-----------------------------------------------------------------------------
(* A discount in percent is an integer number of cents.                    *)

(* The target that gives its recurrence to the discount.                   *)
AnyOf(T) == CHOOSE p \in T : TRUE

(* A percentage of a base in cents, rounded, as a negative total.          *)
Taken(base, percent, rounding) == -Nearest(10 * base * percent, 10 * (1 * 100), rounding)

TakenError(l, priced) ==
  FirstError(<<TargetError(l, priced), MismatchError(l, DiscountTargets(l, priced)),
               BaseExceeded(l, SumOf(DiscountTargets(l, priced)))>>)

(* The key, rate, total, error and recurrence of a percentage discount.    *)
LEMMA DiscountIs ==
  ASSUME NEW l, NEW priced, NEW env, l.discount.type = "PERCENT"
  PROVE  /\ DiscountLine(l, priced, env).line.key = l.key /\ DiscountLine(l, priced, env).line.vat = l.vat
         /\ DiscountLine(l, priced, env).line.total =
              Taken(SumOf(DiscountTargets(l, priced)), l.discount.value, env.settings.rounding)
         /\ DiscountLine(l, priced, env).error =
              TakenError(l, priced)
         /\ DiscountLine(l, priced, env).error = Ok =>
              DiscountLine(l, priced, env).line.recurrence =
                AnyOf(DiscountTargets(l, priced)).recurrence
<1> DEFINE targets == DiscountTargets(l, priced)
           base == SumOf(targets)
           error == FirstError(<<TargetError(l, priced), MismatchError(l, targets),
                                 BaseExceeded(l, base)>>)
           exact == Scaled(Fraction(10 * base), l.discount.value, 100)
           recurrence == IF error = Ok THEN AnyOf(targets).recurrence
                         ELSE l.recurrence
<1>1. DiscountLine(l, priced, env) =
        [error |-> error, line |-> Priced(l, recurrence, 0, 0, -ToCents(exact, env.settings))]
  BY DEF DiscountLine, AnyOf
<1>2. -ToCents(exact, env.settings) = Taken(base, l.discount.value, env.settings.rounding)
  <2> HIDE DEF base
  <2> QED
    BY DEF ToCents, Scaled, Fraction, Taken
<1> HIDE DEF targets, base, error, exact, recurrence
<1> DEFINE d == DiscountLine(l, priced, env)
<1>3. /\ d.line.key = l.key /\ d.line.vat = l.vat /\ d.line.total = -ToCents(exact, env.settings)
      /\ d.error = error /\ d.line.recurrence = recurrence
  BY <1>1 DEF Priced
<1>4. d.error = Ok => d.line.recurrence = AnyOf(targets).recurrence
  BY <1>3 DEF recurrence
<1> HIDE DEF d
<1> QED
  BY <1>2, <1>3, <1>4 DEF targets, base, error, d, TakenError

-----------------------------------------------------------------------------
(* A schedule whose lines are known by where they come from.               *)

(* The positions of a list.                                                *)
LEMMA ListDomain ==
  ASSUME NEW p, IsList(p)
  PROVE  Len(p) \in Nat /\ DOMAIN p = 1..Len(p)
BY LenProperties DEF IsList

(* Where the elements of two lists are in their concatenation.             *)
LEMMA Joined ==
  ASSUME NEW p, IsList(p), NEW q, IsList(q)
  PROVE  /\ IsList(p \o q)
         /\ \A i \in DOMAIN p : i \in DOMAIN (p \o q) /\ (p \o q)[i] = p[i]
         /\ \A j \in DOMAIN q : /\ Len(p) + j \in DOMAIN (p \o q) /\ Len(p) + j \notin DOMAIN p
                                /\ (p \o q)[Len(p) + j] = q[j]
         /\ \A m \in DOMAIN (p \o q) : m \in DOMAIN p \/ \E j \in DOMAIN q : m = Len(p) + j
<1> DEFINE S == {p[i] : i \in DOMAIN p} \cup {q[i] : i \in DOMAIN q}
<1>1. p \in Seq(S) /\ q \in Seq(S)
  BY SeqMonotonic DEF IsList
<1> HIDE DEF S
<1>2. /\ p \o q \in Seq(S) /\ Len(p \o q) = Len(p) + Len(q)
      /\ \A i \in 1..Len(p) : (p \o q)[i] = p[i]
      /\ \A i \in Len(p) + 1..Len(p) + Len(q) : (p \o q)[i] = q[i - Len(p)]
  <2>1. p \o q \in Seq(S) /\ Len(p \o q) = Len(p) + Len(q)
    BY <1>1, ConcatProperties
  <2>2. \A i \in 1..Len(p) + Len(q) : (p \o q)[i] = IF i <= Len(p) THEN p[i] ELSE q[i - Len(p)]
    BY <1>1, ConcatProperties
  <2>3. Len(p) \in Nat /\ Len(q) \in Nat
    BY <1>1, LenProperties
  <2> QED
    BY <2>1, <2>2, <2>3
<1>3. /\ Len(p) \in Nat /\ DOMAIN p = 1..Len(p) /\ Len(q) \in Nat /\ DOMAIN q = 1..Len(q)
      /\ DOMAIN (p \o q) = 1..(Len(p) + Len(q))
  BY <1>1, <1>2, LenProperties
<1>4. IsList(p \o q)
  BY <1>2, SeqIsList
<1>5. ASSUME NEW i \in DOMAIN p
      PROVE  i \in DOMAIN (p \o q) /\ (p \o q)[i] = p[i]
  BY <1>2, <1>3
<1>6. ASSUME NEW j \in DOMAIN q
      PROVE  /\ Len(p) + j \in DOMAIN (p \o q) /\ Len(p) + j \notin DOMAIN p
             /\ (p \o q)[Len(p) + j] = q[j]
  <2>1. Len(p) + j \in Len(p) + 1..Len(p) + Len(q) /\ (Len(p) + j) - Len(p) = j
    BY <1>3
  <2> QED
    BY <1>2, <1>3, <2>1
<1>7. ASSUME NEW m \in DOMAIN (p \o q), m \notin DOMAIN p
      PROVE  \E j \in DOMAIN q : m = Len(p) + j
  <2>1. m - Len(p) \in DOMAIN q /\ m = Len(p) + (m - Len(p))
    BY <1>3, <1>7
  <2> QED
    BY <2>1
<1> QED
  BY <1>4, <1>5, <1>6, <1>7

(* Two placed lists, joined, place the union of their sources.             *)
LEMMA PlacedJoined ==
  ASSUME NEW p, IsList(p), NEW q, IsList(q), NEW f, NEW S, NEW T,
         Placed(p, f, S), Placed(q, f, T), S \cap T = {}
  PROVE  Placed(p \o q, f, S \cup T)
<1> DEFINE out == p \o q
<1>1. /\ \A i \in DOMAIN p : i \in DOMAIN out /\ out[i] = p[i]
      /\ \A j \in DOMAIN q : /\ Len(p) + j \in DOMAIN out /\ Len(p) + j \notin DOMAIN p
                             /\ out[Len(p) + j] = q[j]
      /\ \A m \in DOMAIN out : m \in DOMAIN p \/ \E j \in DOMAIN q : m = Len(p) + j
  BY Joined
<1>2. PICK x \in [S -> DOMAIN p] :
        /\ \A i \in S : p[x[i]] = f[i]
        /\ \A i, j \in S : x[i] = x[j] => i = j
        /\ \A m \in DOMAIN p : \E i \in S : x[i] = m
  BY DEF Placed
<1>3. PICK y \in [T -> DOMAIN q] :
        /\ \A i \in T : q[y[i]] = f[i]
        /\ \A i, j \in T : y[i] = y[j] => i = j
        /\ \A m \in DOMAIN q : \E i \in T : y[i] = m
  BY DEF Placed
<1>4. Len(p) \in Nat /\ DOMAIN q \subseteq Nat
  <2>1. DOMAIN q = 1..Len(q)
    BY ListDomain
  <2> QED
    BY <2>1, ListDomain
<1> HIDE DEF out
<1> DEFINE pos == [i \in S \cup T |-> IF i \in S THEN x[i] ELSE Len(p) + y[i]]
<1>5. (\A i \in S : pos[i] = x[i]) /\ (\A i \in T : pos[i] = Len(p) + y[i] /\ y[i] \in DOMAIN q)
  OBVIOUS
<1>6. pos \in [S \cup T -> DOMAIN out]
  BY <1>1, <1>5
<1> HIDE DEF pos
<1>7. \A i \in S \cup T : out[pos[i]] = f[i]
  BY <1>1, <1>2, <1>3, <1>5
<1>8. ASSUME NEW i \in S \cup T, NEW j \in S \cup T, pos[i] = pos[j]
      PROVE  i = j
  <2>1. CASE i \in S /\ j \in S
    BY <1>2, <1>5, <1>8, <2>1
  <2>2. CASE i \in T /\ j \in T
    <3>1. y[i] \in Nat /\ y[j] \in Nat /\ Len(p) + y[i] = Len(p) + y[j]
      BY <1>4, <1>5, <1>8, <2>2
    <3>2. y[i] = y[j]
      BY <1>4, <3>1
    <3> QED
      BY <1>3, <2>2, <3>2
  <2>3. CASE i \in S /\ j \in T
    BY <1>1, <1>2, <1>5, <1>8, <2>3
  <2>4. CASE i \in T /\ j \in S
    BY <1>1, <1>2, <1>5, <1>8, <2>4
  <2> QED
    BY <2>1, <2>2, <2>3, <2>4
<1>9. ASSUME NEW m \in DOMAIN out
      PROVE  \E i \in S \cup T : pos[i] = m
  <2>1. CASE m \in DOMAIN p
    BY <1>2, <1>5, <2>1
  <2>2. CASE \E j \in DOMAIN q : m = Len(p) + j
    BY <1>3, <1>5, <2>2
  <2> QED
    BY <1>1, <2>1, <2>2
<1>10. Placed(out, f, S \cup T)
  BY <1>6, <1>7, <1>8, <1>9 DEF Placed
<1> QED
  BY <1>10 DEF out

(* The same elements under other names.                                    *)
LEMMA PlacedAs ==
  ASSUME NEW p, NEW list, NEW kept, Placed(p, list, kept), NEW f, NEW tag,
         \A i \in kept : f[<<tag, i>>] = list[i]
  PROVE  Placed(p, f, {tag} \X kept)
<1>1. PICK x \in [kept -> DOMAIN p] :
        /\ \A i \in kept : p[x[i]] = list[i]
        /\ \A i, j \in kept : x[i] = x[j] => i = j
        /\ \A m \in DOMAIN p : \E i \in kept : x[i] = m
  BY DEF Placed
<1> DEFINE N == {tag} \X kept
           pos == [s \in N |-> x[s[2]]]
<1>2. \A s \in N : s = <<tag, s[2]>> /\ s[2] \in kept
  OBVIOUS
<1>3. \A i \in kept : <<tag, i>> \in N /\ <<tag, i>>[2] = i
  OBVIOUS
<1> HIDE DEF N
<1>4. pos \in [N -> DOMAIN p] /\ \A s \in N : pos[s] = x[s[2]]
  BY <1>2
<1> HIDE DEF pos
<1>5. \A s \in N : p[pos[s]] = f[s]
  BY <1>1, <1>2, <1>4
<1>6. \A s, t \in N : pos[s] = pos[t] => s = t
  BY <1>1, <1>2, <1>4
<1>7. \A m \in DOMAIN p : \E s \in N : pos[s] = m
  <2> SUFFICES ASSUME NEW m \in DOMAIN p
               PROVE  \E s \in N : pos[s] = m
    OBVIOUS
  <2>1. PICK i \in kept : x[i] = m
    BY <1>1
  <2>2. <<tag, i>> \in N /\ pos[<<tag, i>>] = m
    BY <1>3, <1>4, <2>1
  <2> QED
    BY <2>2
<1>8. Placed(p, f, N)
  BY <1>4, <1>5, <1>6, <1>7 DEF Placed
<1> QED
  BY <1>8 DEF N

(* A list of one line is placed.                                           *)
LEMMA PlacedOne ==
  ASSUME NEW f, NEW s
  PROVE  IsList(<<f[s]>>) /\ Placed(<<f[s]>>, f, {s})
<1> DEFINE p == <<f[s]>>
<1>1. p \in Seq({f[s]}) /\ DOMAIN p = {1} /\ p[1] = f[s]
  OBVIOUS
<1> HIDE DEF p
<1> DEFINE pos == [x \in {s} |-> 1]
<1>2. pos \in [{s} -> DOMAIN p] /\ pos[s] = 1
  BY <1>1
<1> HIDE DEF pos
<1>3. Placed(p, f, {s})
  BY <1>1, <1>2 DEF Placed
<1>4. IsList(p)
  BY <1>1, SeqIsList
<1> QED
  BY <1>3, <1>4 DEF p

-----------------------------------------------------------------------------
(* A schedule whose entries are known by where they come from.             *)

IsReduction(l) == l.kind = "DISCOUNT" /\ l.discount.type = "PERCENT" /\ l.discount.value \in Int

Simple(f, S) ==
  \A s \in S : IsReduction(f[s]) \/ (IsFlat(f[s]) /\ f[s].revision = NoRevision)

(* The sources of the regular lines, and those of the discounts.           *)
Flats(f, S) == {s \in S : f[s].kind # "DISCOUNT"}
Reductions(f, S) == {s \in S : f[s].kind = "DISCOUNT"}

SoldOf(f, S, using) == {Sold(f[s], using) : s \in Flats(f, S)}

ReducedOf(f, S, env) == {DiscountLine(f[s], SoldOf(f, S, env.settings), env).line : s \in Reductions(f, S)}

(* The computation has no error: no key twice, no discount in error.       *)
Sound(f, S, env) ==
  /\ \A s, t \in S : f[s].key = f[t].key => s = t
  /\ \A s \in Reductions(f, S) : DiscountLine(f[s], SoldOf(f, S, env.settings), env).error = Ok

(* A placed schedule is computed exactly when it is sound, and its prices  *)
(* are those of its sources, in no order.                                  *)
LEMMA PlacedPrices ==
  ASSUME NEW lines, DOMAIN lines \subseteq Nat, NEW f, NEW S, Placed(lines, f, S), Simple(f, S),
         NEW env, env.overrides = {}, NEW day
  PROVE  /\ PriceSchedule(lines, env, day).error = Ok <=> Sound(f, S, env)
         /\ Sound(f, S, env) =>
              PriceSchedule(lines, env, day).lines =
                SoldOf(f, S, env.settings) \union ReducedOf(f, S, env)
         /\ ~Sound(f, S, env) => PriceSchedule(lines, env, day).lines = {}
<1>1. PICK pos \in [S -> DOMAIN lines] :
        /\ \A i \in S : lines[pos[i]] = f[i]
        /\ \A i, j \in S : pos[i] = pos[j] => i = j
        /\ \A m \in DOMAIN lines : \E i \in S : pos[i] = m
  BY DEF Placed
<1>2. ASSUME NEW s \in Flats(f, S)
      PROVE  /\ RegularLine(f[s], env, day).line = Sold(f[s], env.settings)
             /\ RegularLine(f[s], env, day).error = Ok
  <2>1. IsFlat(f[s]) /\ f[s].revision = NoRevision
    BY DEF Flats, Simple, IsReduction
  <2>2. ~IsRevised(f[s], day)
    BY <2>1 DEF IsRevised, NoRevision
  <2>3. RegularLine(f[s], env, day) = [error |-> Ok, line |-> Sold(f[s], env.settings)]
    BY <2>1, <2>2, FlatPrice
  <2>4. \A x, y : x = [error |-> Ok, line |-> y] => x.line = y /\ x.error = Ok
    OBVIOUS
  <2> QED
    BY ONLY <2>3, <2>4
<1>r. \A s \in Flats(f, S) : /\ RegularLine(f[s], env, day).line = Sold(f[s], env.settings)
                              /\ RegularLine(f[s], env, day).error = Ok
  BY <1>2
<1>3. /\ \A i \in RegularOf(lines) : \E s \in Flats(f, S) : pos[s] = i /\ lines[i] = f[s]
      /\ \A s \in Flats(f, S) : pos[s] \in RegularOf(lines) /\ lines[pos[s]] = f[s]
      /\ \A i \in DiscountsOf(lines) : \E s \in Reductions(f, S) : pos[s] = i /\ lines[i] = f[s]
      /\ \A s \in Reductions(f, S) : pos[s] \in DiscountsOf(lines) /\ lines[pos[s]] = f[s]
  BY <1>1 DEF RegularOf, DiscountsOf, Flats, Reductions
<1>4. RepeatedKey(lines) <=> \E s, t \in S : s # t /\ f[s].key = f[t].key
  <2>1. ASSUME RepeatedKey(lines)
        PROVE  \E s, t \in S : s # t /\ f[s].key = f[t].key
    <3>1. PICK i \in DOMAIN lines, j \in DOMAIN lines : i # j /\ lines[i].key = lines[j].key
      BY <2>1 DEF RepeatedKey
    <3>2. PICK s \in S, t \in S : pos[s] = i /\ pos[t] = j
      BY <1>1
    <3> QED
      BY <1>1, <3>1, <3>2
  <2>2. ASSUME NEW s \in S, NEW t \in S, s # t, f[s].key = f[t].key
        PROVE  RepeatedKey(lines)
    <3>1. pos[s] \in DOMAIN lines /\ pos[t] \in DOMAIN lines /\ pos[s] # pos[t]
      BY <1>1, <2>2
    <3>2. lines[pos[s]].key = lines[pos[t]].key
      BY <1>1, <2>2
    <3> QED
      BY <3>1, <3>2 DEF RepeatedKey
  <2> QED
    BY <2>1, <2>2
<1>5. RegularPrices(lines, env, day) = SoldOf(f, S, env.settings)
  <2>1. ASSUME NEW i \in RegularOf(lines)
        PROVE  RegularLine(lines[i], env, day).line \in SoldOf(f, S, env.settings)
    BY <1>r, <1>3 DEF SoldOf
  <2>2. ASSUME NEW s \in Flats(f, S)
        PROVE  Sold(f[s], env.settings) \in RegularPrices(lines, env, day)
    <3>1. RegularLine(lines[pos[s]], env, day).line = Sold(f[s], env.settings) /\ pos[s] \in RegularOf(lines)
      BY <1>r, <1>3
    <3> QED
      BY <3>1 DEF RegularPrices
  <2> QED
    BY <2>1, <2>2 DEF RegularPrices, SoldOf
<1> DEFINE sold == SoldOf(f, S, env.settings)
<1>6. DiscountPrices(lines, env, day) = ReducedOf(f, S, env)
  <2> HIDE DEF sold
  <2>1. DiscountPrices(lines, env, day) = {DiscountLine(lines[i], sold, env).line : i \in DiscountsOf(lines)}
    BY <1>5 DEF DiscountPrices, sold
  <2>2. ReducedOf(f, S, env) = {DiscountLine(f[s], sold, env).line : s \in Reductions(f, S)}
    BY DEF ReducedOf, sold
  <2> QED
    BY <1>3, <2>1, <2>2
<1>7. \A i \in RegularOf(lines) : RegularLine(lines[i], env, day).error = Ok
  BY <1>r, <1>3
<1>8. (\A i \in DiscountsOf(lines) : DiscountLine(lines[i], sold, env).error = Ok) <=>
        \A s \in Reductions(f, S) : DiscountLine(f[s], sold, env).error = Ok
  <2> HIDE DEF sold
  <2> QED
    BY <1>3
<1>9. Computed(lines, env, day) <=> Sound(f, S, env)
  BY <1>4, <1>5, <1>7, <1>8 DEF Computed, Sound
<1> QED
  BY <1>5, <1>6, <1>9, ScheduleComputed

-----------------------------------------------------------------------------
(* The lines that a quote gives to the engine.                             *)

(* The regular prices are finitely many, with whole totals.                *)
LEMMA SoldTotals ==
  ASSUME NEW f, NEW S, IsFiniteSet(S), Simple(f, S), NEW using
  PROVE  IsFiniteSet(SoldOf(f, S, using)) /\ \A p \in SoldOf(f, S, using) : p.total \in Int
<1>1. IsFiniteSet(Flats(f, S))
  BY FS_Subset DEF Flats
<1> DEFINE g == [s \in Flats(f, S) |-> Sold(f[s], using)]
<1>2. SoldOf(f, S, using) = {g[s] : s \in Flats(f, S)}
  BY DEF SoldOf
<1>3. IsFiniteSet({g[s] : s \in Flats(f, S)})
  BY <1>1, ImageFinite
<1>4. ASSUME NEW s \in Flats(f, S)
      PROVE  Sold(f[s], using).total \in Int
  <2>1. IsFlat(f[s])
    BY DEF Flats, Simple, IsReduction
  <2> QED
    BY <2>1, SoldType
<1> QED
  BY <1>2, <1>3, <1>4 DEF SoldOf

(* The base of a discount is a whole number of cents.                      *)
LEMMA BaseType ==
  ASSUME NEW l, NEW priced, IsFiniteSet(priced), \A p \in priced : p.total \in Int
  PROVE  IsFiniteSet(DiscountTargets(l, priced)) /\ SumOf(DiscountTargets(l, priced)) \in Int
<1> DEFINE T == DiscountTargets(l, priced)
           g == [p \in T |-> p.total]
<1>1. T \subseteq priced
  BY DEF DiscountTargets
<1>2. IsFiniteSet(T)
  BY <1>1, FS_Subset
<1>3. \A p \in T : p.total \in Int /\ g[p] = p.total
  BY <1>1
<1> HIDE DEF T, g
<1>4. SumOf(T) \in Int
  BY <1>2, <1>3, SumOfIs
<1> QED
  BY <1>2, <1>4 DEF T

(* The discounts are finitely many, with whole totals.                     *)
LEMMA ReducedTotals ==
  ASSUME NEW f, NEW S, IsFiniteSet(S), Simple(f, S), NEW env
  PROVE  IsFiniteSet(ReducedOf(f, S, env)) /\ \A p \in ReducedOf(f, S, env) : p.total \in Int
<1> DEFINE sold == SoldOf(f, S, env.settings)
           g == [s \in Reductions(f, S) |-> DiscountLine(f[s], sold, env).line]
<1>1. IsFiniteSet(Reductions(f, S))
  BY FS_Subset DEF Reductions
<1>2. IsFiniteSet(sold) /\ \A p \in sold : p.total \in Int
  BY SoldTotals
<1>3. ReducedOf(f, S, env) = {g[s] : s \in Reductions(f, S)}
  BY DEF ReducedOf
<1> HIDE DEF sold
<1>4. IsFiniteSet({g[s] : s \in Reductions(f, S)})
  BY <1>1, ImageFinite
<1>5. ASSUME NEW s \in Reductions(f, S)
      PROVE  g[s].total \in Int
  <2>1. f[s].discount.type = "PERCENT" /\ f[s].discount.value \in Int
    BY DEF Reductions, Simple, IsReduction, IsFlat
  <2> DEFINE base == SumOf(DiscountTargets(f[s], sold))
  <2>2. base \in Int
    BY <1>2, BaseType
  <2>3. DiscountLine(f[s], sold, env).line.total = Taken(base, f[s].discount.value, env.settings.rounding)
    BY <2>1, DiscountIs
  <2> HIDE DEF base
  <2>4. 10 * base * f[s].discount.value \in Int /\ 10 * (1 * 100) \in Nat \ {0}
    BY <2>1, <2>2
  <2>5. Nearest(10 * base * f[s].discount.value, 10 * (1 * 100), env.settings.rounding) \in Int
    BY <2>4, NearestType
  <2> QED
    BY <2>3, <2>5 DEF Taken
<1> HIDE DEF g
<1> QED
  BY <1>3, <1>4, <1>5

(* So are the prices of a schedule, and its total for each recurrence is   *)
(* whole.                                                                  *)
LEMMA PricesTyped ==
  ASSUME NEW lines, DOMAIN lines \subseteq Nat, NEW f, NEW S, IsFiniteSet(S), Placed(lines, f, S),
         Simple(f, S), NEW env, env.overrides = {}, NEW day
  PROVE  LET priced == PriceSchedule(lines, env, day).lines IN
         /\ IsFiniteSet(priced) /\ \A p \in priced : p.total \in Int
         /\ \A recurrence : OfRecurrence(priced, recurrence) \in Int
<1> DEFINE priced == PriceSchedule(lines, env, day).lines
           sold == SoldOf(f, S, env.settings)
           reduced == ReducedOf(f, S, env)
<1>1. priced = sold \union reduced \/ priced = {}
  BY PlacedPrices
<1>2. /\ IsFiniteSet(sold) /\ \A p \in sold : p.total \in Int
      /\ IsFiniteSet(reduced) /\ \A p \in reduced : p.total \in Int
  BY SoldTotals, ReducedTotals
<1> HIDE DEF sold, reduced, priced
<1>3. IsFiniteSet(sold \union reduced) /\ IsFiniteSet({})
  BY <1>2, FS_Union, FS_EmptySet
<1>4. IsFiniteSet(priced) /\ \A p \in priced : p.total \in Int
  BY <1>1, <1>2, <1>3
<1>5. ASSUME NEW recurrence
      PROVE  OfRecurrence(priced, recurrence) \in Int
  <2> DEFINE T == {p \in priced : p.recurrence = recurrence}
             g == [p \in T |-> p.total]
  <2>1. IsFiniteSet(T)
    BY <1>4, FS_Subset
  <2>2. \A p \in T : p.total \in Int /\ g[p] = p.total
    BY <1>4
  <2> HIDE DEF T, g
  <2>3. SumOf(T) \in Int
    BY <2>1, <2>2, SumOfIs
  <2> QED
    BY <2>3 DEF OfRecurrence, T
<1> QED
  BY <1>4, <1>5 DEF priced

-----------------------------------------------------------------------------
(* What the engine is given for a line of the table.                       *)

(* The unit price of a validated line is an integer, a natural unless it   *)
(* is missing.                                                             *)
LEMMA UnitPriceType ==
  ASSUME NEW def, Validated(def), NEW l \in Lines(def), NEW choices
  PROVE  /\ UnitPriceCents(l, choices) \in Int
         /\ UnitPriceCents(l, choices) # NoPrice => UnitPriceCents(l, choices) \in Nat
<1>1. PriceValidated(def, l)
  BY DEF Validated
<1> QED
  BY <1>1 DEF PriceValidated, UnitPriceCents, NoPrice

(* The recurrence of the engine for that of a line of the table.           *)
Translated(recurrence) ==
  IF recurrence \in {"INFO", "ONE_TIME"} THEN "ONE_OFF" ELSE recurrence

(* The line that the engine is given is plain and has the price in Mills.  *)
LEMMA ToEngineLineIs ==
  ASSUME NEW l, l.recurrence \in {"ONE_TIME", "MONTHLY", "QUARTERLY", "YEARLY", "INFO"},
         NEW quantity \in Nat, NEW cents \in Int, NEW vat
  PROVE  LET e == ToEngineLine(l, quantity, cents, vat) IN
         /\ IsFlat(e) /\ e.revision = NoRevision /\ e.kind # "DISCOUNT"
         /\ e.key = l.key /\ e.unitPrice = 10 * cents /\ e.quantity = quantity /\ e.vat = vat
         /\ RecurrenceOf(e) = Translated(l.recurrence)
<1> DEFINE e == ToEngineLine(l, quantity, cents, vat)
<1>1. CASE l.recurrence = "INFO"
  <2>1. e = ManualLine(l.key, "UNIT", "ONE_OFF", vat, quantity, 10 * cents)
    BY <1>1 DEF ToEngineLine
  <2> HIDE DEF e
  <2> QED
    BY <1>1, <2>1 DEF e, ManualLine, IsFlat, RecurrenceError, RecurrenceOf, ForcedKinds, Translated
<1>2. CASE l.recurrence = "ONE_TIME"
  <2>1. e = ManualLine(l.key, "SETUP_FEE", "default", vat, quantity, 10 * cents)
    BY <1>2 DEF ToEngineLine
  <2> HIDE DEF e
  <2> QED
    BY <1>2, <2>1 DEF e, ManualLine, IsFlat, RecurrenceError, RecurrenceOf, ForcedKinds,
       DefaultRecurrence, Translated
<1>3. CASE l.recurrence \in {"MONTHLY", "QUARTERLY", "YEARLY"}
  <2>1. e = ManualLine(l.key, "UNIT", l.recurrence, vat, quantity, 10 * cents)
    BY <1>3 DEF ToEngineLine, EngineRecurrence
  <2> HIDE DEF e
  <2> QED
    BY <1>3, <2>1 DEF e, ManualLine, IsFlat, RecurrenceError, RecurrenceOf, ForcedKinds, Translated
<1> QED
  BY <1>1, <1>2, <1>3

(* The discount that the engine is given, field by field.                  *)
LEMMA EngineDiscountIs ==
  ASSUME NEW def, NEW included, NEW r, r.percent \in Int
  PROVE  /\ IsReduction(EngineDiscount(def, included, r))
         /\ EngineDiscount(def, included, r).key = r.key
         /\ EngineDiscount(def, included, r).mode = "MANUAL"
         /\ EngineDiscount(def, included, r).recurrence = "default"
         /\ EngineDiscount(def, included, r).vat = def.vat
         /\ EngineDiscount(def, included, r).discount.value = r.percent
         /\ EngineDiscount(def, included, r).discount.lines = DiscountTaken(r, included)
BY DEF EngineDiscount, ManualLine, IsReduction

(* Where a line of the schedule comes from: kept, shown, discount or       *)
(* minimum.                                                                *)
Floor == <<"minimum", 0>>

Sources(def) ==
  ({"kept", "shown"} \X DOMAIN def.lines) \union ({"discount"} \X DOMAIN def.rules) \union {Floor}

KeptLine(def, I, C, i) ==
  ToEngineLine(def.lines[i], Quantity(I, def.lines[i].key), UnitPriceCents(def.lines[i], C), def.vat)

ShownLine(def, C, i) == ToEngineLine(def.lines[i], 0, UnitPriceCents(def.lines[i], C), def.vat)

Entry(def, I, C, extra, s) ==
  CASE s[1] = "kept" -> KeptLine(def, I, C, s[2])
    [] s[1] = "shown" -> ShownLine(def, C, s[2])
    [] s[1] = "discount" -> EngineDiscount(def, I, def.rules[s[2]])
    [] OTHER -> extra

Entries(def, I, C, extra) == [s \in Sources(def) |-> Entry(def, I, C, extra, s)]

BaseSources(def, I, C) ==
  ({"kept"} \X Kept(def, I)) \union ({"shown"} \X Shown(def, C)) \union ({"discount"} \X Granted(def, I))

(* The line of each source.                                                *)
LEMMA EntriesAre ==
  ASSUME NEW def, NEW I, NEW C, NEW extra
  PROVE  /\ \A i \in DOMAIN def.lines : Entries(def, I, C, extra)[<<"kept", i>>] = KeptLine(def, I, C, i)
         /\ \A i \in DOMAIN def.lines : Entries(def, I, C, extra)[<<"shown", i>>] = ShownLine(def, C, i)
         /\ \A i \in DOMAIN def.rules :
              Entries(def, I, C, extra)[<<"discount", i>>] = EngineDiscount(def, I, def.rules[i])
         /\ Entries(def, I, C, extra)[Floor] = extra
<1>1. \A s \in Sources(def) : Entries(def, I, C, extra)[s] = Entry(def, I, C, extra, s)
  BY DEF Entries
<1>2. ASSUME NEW i \in DOMAIN def.lines
      PROVE  <<"kept", i>> \in Sources(def) /\ <<"shown", i>> \in Sources(def)
  BY DEF Sources
<1>3. ASSUME NEW i \in DOMAIN def.rules
      PROVE  <<"discount", i>> \in Sources(def)
  BY DEF Sources
<1>4. Floor \in Sources(def)
  BY DEF Sources
<1>5. ASSUME NEW i
      PROVE  /\ Entry(def, I, C, extra, <<"kept", i>>) = KeptLine(def, I, C, i)
             /\ Entry(def, I, C, extra, <<"shown", i>>) = ShownLine(def, C, i)
             /\ Entry(def, I, C, extra, <<"discount", i>>) = EngineDiscount(def, I, def.rules[i])
  BY DEF Entry
<1>6. Entry(def, I, C, extra, Floor) = extra
  BY DEF Entry, Floor
<1> QED
  BY <1>1, <1>2, <1>3, <1>4, <1>5, <1>6

(* A quantity of a configuration without error is a natural.               *)
LEMMA QuantityType ==
  ASSUME NEW def, NEW I \in Configurations(def), InvalidQuantities(I) = {}, NEW key
  PROVE  Quantity(I, key) \in Nat
<1>1. I \in [DOMAIN I -> Int]
  BY ConfigurationIs
<1>2. ASSUME key \in DOMAIN I
      PROVE  I[key] \in Int /\ ~(I[key] < 0)
  BY <1>1, <1>2 DEF InvalidQuantities
<1> QED
  BY <1>2 DEF Quantity

(* A plain line with its key, that is not revised and is no discount.      *)
IsEntry(e, key) == IsFlat(e) /\ e.revision = NoRevision /\ e.kind # "DISCOUNT" /\ e.key = key
Unsold(e) == e.quantity = 0

(* Where the lines given to the engine come from.                          *)
LEMMA EntriesTyped ==
  ASSUME NEW def, Validated(def), NEW I \in Configurations(def), InvalidQuantities(I) = {}, NEW C,
         NEW extra, NEW f, f = Entries(def, I, C, extra)
  PROVE  /\ \A i \in DOMAIN def.lines :
              /\ IsEntry(f[<<"kept", i>>], def.lines[i].key)
              /\ IsEntry(f[<<"shown", i>>], def.lines[i].key)
              /\ Unsold(f[<<"shown", i>>])
         /\ \A i \in Granted(def, I) : IsReduction(f[<<"discount", i>>])
<1>1. PICK n \in Nat, m \in Nat :
           /\ DOMAIN def.lines = 1..n /\ DOMAIN def.rules = 1..m
           /\ Lines(def) = Elements(def.lines)
           /\ ToSet(def.rules) = Elements(def.rules)
  BY LinesAre
<1>2. ASSUME NEW i \in DOMAIN def.lines, NEW q \in Nat
      PROVE  LET e == ToEngineLine(def.lines[i], q, UnitPriceCents(def.lines[i], C), def.vat) IN
             /\ IsFlat(e) /\ e.revision = NoRevision /\ e.kind # "DISCOUNT"
             /\ e.key = def.lines[i].key /\ e.quantity = q
  <2>1. def.lines[i] \in Lines(def)
    BY <1>1 DEF Elements
  <2>2. def.lines[i].recurrence \in {"ONE_TIME", "MONTHLY", "QUARTERLY", "YEARLY", "INFO"}
    BY <2>1 DEF Validated
  <2>3. UnitPriceCents(def.lines[i], C) \in Int
    BY <2>1, UnitPriceType
  <2> QED
    BY <2>2, <2>3, ToEngineLineIs
<1>3. ASSUME NEW i \in DOMAIN def.lines
      PROVE  /\ IsEntry(f[<<"kept", i>>], def.lines[i].key)
             /\ IsEntry(f[<<"shown", i>>], def.lines[i].key)
             /\ Unsold(f[<<"shown", i>>])
  <2>1. f[<<"kept", i>>] = KeptLine(def, I, C, i) /\ f[<<"shown", i>>] = ShownLine(def, C, i)
    BY EntriesAre
  <2>2. Quantity(I, def.lines[i].key) \in Nat
    BY QuantityType
  <2>3. /\ IsFlat(f[<<"kept", i>>]) /\ f[<<"kept", i>>].revision = NoRevision
        /\ f[<<"kept", i>>].key = def.lines[i].key /\ f[<<"kept", i>>].kind # "DISCOUNT"
    BY <1>2, <2>1, <2>2 DEF KeptLine
  <2>4. /\ IsFlat(f[<<"shown", i>>]) /\ f[<<"shown", i>>].revision = NoRevision
        /\ f[<<"shown", i>>].key = def.lines[i].key /\ f[<<"shown", i>>].kind # "DISCOUNT"
        /\ f[<<"shown", i>>].quantity = 0
    BY <1>2, <2>1 DEF ShownLine
  <2> QED
    BY <2>3, <2>4 DEF IsEntry, Unsold
<1>4. ASSUME NEW i \in Granted(def, I)
      PROVE  IsReduction(f[<<"discount", i>>])
  <2>1. i \in DOMAIN def.rules /\ def.rules[i].type = "DISCOUNT_PERCENT"
    BY DEF Granted, Grants
  <2>2. f[<<"discount", i>>] = EngineDiscount(def, I, def.rules[i])
    BY <2>1, EntriesAre
  <2>3. def.rules[i] \in ToSet(def.rules)
    BY <1>1, <2>1 DEF Elements
  <2>4. def.rules[i].percent \in Int
    <3>1. RuleValidated(def.rules[i])
      BY <2>3 DEF Validated
    <3>2. def.rules[i].percent \in 1..100
      BY <2>1, <3>1 DEF RuleValidated
    <3> QED
      BY <3>2
  <2> QED
    BY <2>2, <2>4, EngineDiscountIs
<1> QED
  BY <1>3, <1>4

-----------------------------------------------------------------------------
(* The schedule of a quote: the lines, the discounts, then the complement. *)

(* The schedule before the complement.                                     *)
BaseList(def, I, C) == PricedLines(def, I, C) \o DiscountLines(def, I)

IsPriced(lines, f, S) ==
  IsList(lines) /\ Placed(lines, f, S) /\ Simple(f, S) /\ IsFiniteSet(S) /\ DOMAIN lines \subseteq Nat

(* The schedule before the complement is placed over its sources.          *)
LEMMA BaseShape ==
  ASSUME NEW def, Validated(def), NEW I \in Configurations(def), InvalidQuantities(I) = {}, NEW C,
         NEW extra
  PROVE  IsPriced(BaseList(def, I, C), Entries(def, I, C, extra), BaseSources(def, I, C))
<1> DEFINE f == Entries(def, I, C, extra)
           Ks == {"kept"} \X Kept(def, I)
           Ss == {"shown"} \X Shown(def, C)
           Ds == {"discount"} \X Granted(def, I)
           klist == EngineLines(def, C, [i \in DOMAIN def.lines |-> Quantity(I, def.lines[i].key)])
           slist == EngineLines(def, C, [i \in DOMAIN def.lines |-> 0])
           dlist == [i \in DOMAIN def.rules |-> EngineDiscount(def, I, def.rules[i])]
           kq == AtPositions(klist, Kept(def, I))
           sq == AtPositions(slist, Shown(def, C))
           dq == AtPositions(dlist, Granted(def, I))
<1>1. PICK n \in Nat, m \in Nat : DOMAIN def.lines = 1..n /\ DOMAIN def.rules = 1..m
  BY LinesAre
<1>2. /\ Kept(def, I) \in SUBSET (1..n) /\ Shown(def, C) \in SUBSET (1..n)
      /\ Granted(def, I) \in SUBSET (1..m)
  BY <1>1 DEF Kept, Shown, Granted
<1>3. /\ DOMAIN klist = 1..n /\ \A i \in 1..n : klist[i] = KeptLine(def, I, C, i)
      /\ DOMAIN slist = 1..n /\ \A i \in 1..n : slist[i] = ShownLine(def, C, i)
      /\ DOMAIN dlist = 1..m /\ \A i \in 1..m : dlist[i] = EngineDiscount(def, I, def.rules[i])
  BY <1>1 DEF EngineLines, KeptLine, ShownLine
<1>4. BaseList(def, I, C) = (kq \o sq) \o dq
  BY DEF BaseList, PricedLines, DiscountLines
<1> HIDE DEF klist, slist, dlist
<1>5. /\ IsList(kq) /\ Placed(kq, klist, Kept(def, I))
      /\ IsList(sq) /\ Placed(sq, slist, Shown(def, C))
      /\ IsList(dq) /\ Placed(dq, dlist, Granted(def, I))
  BY <1>2, <1>3, AtPositionsList
<1> HIDE DEF kq, sq, dq
<1>6. /\ \A i \in Kept(def, I) : f[<<"kept", i>>] = klist[i]
      /\ \A i \in Shown(def, C) : f[<<"shown", i>>] = slist[i]
      /\ \A i \in Granted(def, I) : f[<<"discount", i>>] = dlist[i]
  BY <1>1, <1>2, <1>3, EntriesAre
<1> HIDE DEF f
<1>7. Placed(kq, f, Ks) /\ Placed(sq, f, Ss) /\ Placed(dq, f, Ds)
  BY <1>5, <1>6, PlacedAs
<1>8. Ks \cap Ss = {} /\ (Ks \cup Ss) \cap Ds = {}
  OBVIOUS
<1>9. \A s \in Ks \cup Ss \cup Ds :
        \/ s = <<"kept", s[2]>> /\ s[2] \in DOMAIN def.lines
        \/ s = <<"shown", s[2]>> /\ s[2] \in DOMAIN def.lines
        \/ s = <<"discount", s[2]>> /\ s[2] \in Granted(def, I)
  BY <1>1, <1>2
<1>10. IsFiniteSet(Ks) /\ IsFiniteSet(Ss) /\ IsFiniteSet(Ds)
  <2>1. IsFiniteSet(Kept(def, I)) /\ IsFiniteSet(Shown(def, C)) /\ IsFiniteSet(Granted(def, I))
    <3>1. IsFiniteSet(1..n) /\ IsFiniteSet(1..m)
      BY FS_Interval
    <3> QED
      BY <1>2, <3>1, FS_Subset
  <2>2. IsFiniteSet({"kept"}) /\ IsFiniteSet({"shown"}) /\ IsFiniteSet({"discount"})
    BY FS_Singleton
  <2> QED
    BY <2>1, <2>2, FS_Product
<1>11. BaseSources(def, I, C) = (Ks \cup Ss) \cup Ds
  BY DEF BaseSources
<1> HIDE DEF Ks, Ss, Ds
<1>12. IsList(kq \o sq) /\ Placed(kq \o sq, f, Ks \cup Ss)
  BY <1>5, <1>7, <1>8, Joined, PlacedJoined
<1>13. IsList((kq \o sq) \o dq) /\ Placed((kq \o sq) \o dq, f, (Ks \cup Ss) \cup Ds)
  BY <1>5, <1>7, <1>8, <1>12, Joined, PlacedJoined
<1>14. IsFiniteSet((Ks \cup Ss) \cup Ds)
  BY <1>10, FS_Union
<1>15. /\ \A i \in DOMAIN def.lines :
              /\ IsFlat(f[<<"kept", i>>]) /\ f[<<"kept", i>>].revision = NoRevision
              /\ IsFlat(f[<<"shown", i>>]) /\ f[<<"shown", i>>].revision = NoRevision
       /\ \A i \in Granted(def, I) : IsReduction(f[<<"discount", i>>])
  <2>1. f = Entries(def, I, C, extra)
    BY DEF f
  <2> QED
    BY <2>1, EntriesTyped DEF IsEntry
<1>16. Simple(f, (Ks \cup Ss) \cup Ds)
  BY <1>9, <1>15 DEF Simple
<1>17. DOMAIN BaseList(def, I, C) \subseteq Nat
  <2>1. IsList(BaseList(def, I, C))
    BY <1>4, <1>13
  <2>2. Len(BaseList(def, I, C)) \in Nat /\ DOMAIN BaseList(def, I, C) = 1..Len(BaseList(def, I, C))
    BY <2>1, ListDomain
  <2> QED
    BY <2>2
<1> QED
  BY <1>4, <1>11, <1>13, <1>14, <1>16, <1>17 DEF IsPriced, f

-----------------------------------------------------------------------------
(* The whole schedule, with the complement to the minimum.                 *)

(* The minimum that the engine reaches, the first one.                     *)
FloorRule(def) == def.rules[Min(RulesOf(def, "MINIMUM_MONTHLY"))]

FloorLine(def, monthly) ==
  ManualLine(FloorRule(def).key, "FLAT_MONTHLY", "default", def.vat, 1,
             10 * (FloorRule(def).amount - monthly))

Raised(def, monthly) == RulesOf(def, "MINIMUM_MONTHLY") # {} /\ ~(monthly >= FloorRule(def).amount)

BasePrices(def, I, C, using) == PriceSchedule(BaseList(def, I, C), QuoteEnv(using), 1)

Monthly(def, I, C, using) == OfRecurrence(BasePrices(def, I, C, using).lines, "MONTHLY")

FinalEntries(def, I, C, using) == Entries(def, I, C, FloorLine(def, Monthly(def, I, C, using)))

FinalSources(def, I, C, using) ==
  BaseSources(def, I, C) \union IF Raised(def, Monthly(def, I, C, using)) THEN {Floor} ELSE {}

FinalList(def, I, C, using) == WithMinimum(def, BaseList(def, I, C), using, 1)

FinalPrices(def, I, C, using) == PriceSchedule(FinalList(def, I, C, using), QuoteEnv(using), 1)

(* The first minimum is a rule of the table, with a natural amount.        *)
LEMMA FloorRuleIs ==
  ASSUME NEW def, Validated(def), RulesOf(def, "MINIMUM_MONTHLY") # {}
  PROVE  /\ Min(RulesOf(def, "MINIMUM_MONTHLY")) \in RulesOf(def, "MINIMUM_MONTHLY")
         /\ FloorRule(def) \in ToSet(def.rules)
         /\ FloorRule(def).amount \in Nat
<1>1. PICK n \in Nat, m \in Nat : /\ DOMAIN def.lines = 1..n /\ DOMAIN def.rules = 1..m
                                  /\ ToSet(def.rules) = Elements(def.rules)
  BY LinesAre
<1> DEFINE minima == RulesOf(def, "MINIMUM_MONTHLY")
<1>2. minima \in SUBSET Nat /\ minima # {}
  BY <1>1 DEF RulesOf
<1>3. Min(minima) \in minima
  <2> HIDE DEF minima
  <2> QED
    BY <1>2, MinIs
<1>4. Min(minima) \in DOMAIN def.rules /\ FloorRule(def).type = "MINIMUM_MONTHLY"
  BY <1>3 DEF RulesOf, FloorRule
<1>5. FloorRule(def) \in ToSet(def.rules)
  BY <1>1, <1>4 DEF FloorRule, Elements
<1>6. RuleValidated(FloorRule(def))
  BY <1>5 DEF Validated
<1>7. FloorRule(def).amount \in Nat
  BY <1>4, <1>6 DEF RuleValidated
<1> QED
  BY <1>3, <1>5, <1>7

(* A quote has no override and the settings it is given.                   *)
LEMMA EnvOfQuote ==
  ASSUME NEW using
  PROVE  QuoteEnv(using).overrides = {} /\ QuoteEnv(using).settings = using
BY DEF QuoteEnv

(* The monthly total before the complement is a whole number of cents.     *)
LEMMA MonthlyType ==
  ASSUME NEW def, Validated(def), NEW I \in Configurations(def), InvalidQuantities(I) = {}, NEW C,
         NEW using
  PROVE  Monthly(def, I, C, using) \in Int
<1> DEFINE base == BaseList(def, I, C)
           f == Entries(def, I, C, 0)
           S == BaseSources(def, I, C)
           env == QuoteEnv(using)
<1>1. /\ DOMAIN base \subseteq Nat /\ IsFiniteSet(S) /\ Placed(base, f, S)
      /\ Simple(f, S) /\ env.overrides = {}
  BY BaseShape, EnvOfQuote DEF IsPriced
<1> HIDE DEF base, f, S, env
<1>2. OfRecurrence(PriceSchedule(base, env, 1).lines, "MONTHLY") \in Int
  BY <1>1, PricesTyped
<1> QED
  BY <1>2 DEF Monthly, BasePrices, base, env

(* The final schedule is the former one, with the complement if it is due. *)
LEMMA ComplementIs ==
  ASSUME NEW def, NEW I, NEW C, NEW using
  PROVE  FinalList(def, I, C, using) =
           BaseList(def, I, C) \o
             (IF Raised(def, Monthly(def, I, C, using))
                THEN <<FloorLine(def, Monthly(def, I, C, using))>> ELSE <<>>)
<1> DEFINE base == BaseList(def, I, C)
           monthly == Monthly(def, I, C, using)
<1>1. Totals(BasePrices(def, I, C, using).lines, using).monthly = monthly
  BY DEF Totals, Monthly
<1>2. MinimumLines(def, base, QuoteEnv(using), 1) = Complement(def, monthly)
  BY <1>1, EnvOfQuote DEF MinimumLines, BasePrices
<1> HIDE DEF base, monthly
<1>3. Complement(def, monthly) = IF Raised(def, monthly) THEN <<FloorLine(def, monthly)>> ELSE <<>>
  BY DEF Complement, Raised, FloorLine, FloorRule
<1>4. FinalList(def, I, C, using) = base \o MinimumLines(def, base, QuoteEnv(using), 1)
  BY DEF FinalList, WithMinimum, base
<1> QED
  BY <1>2, <1>3, <1>4 DEF base, monthly

(* The complement is one plain monthly line of the missing amount.         *)
LEMMA FloorLineIs ==
  ASSUME NEW def, Validated(def), NEW monthly \in Int, RulesOf(def, "MINIMUM_MONTHLY") # {}
  PROVE  /\ IsFlat(FloorLine(def, monthly)) /\ FloorLine(def, monthly).revision = NoRevision
         /\ FloorLine(def, monthly).kind # "DISCOUNT"
         /\ FloorLine(def, monthly).key = FloorRule(def).key
         /\ FloorLine(def, monthly).unitPrice = 10 * (FloorRule(def).amount - monthly)
         /\ FloorLine(def, monthly).quantity = 1
         /\ RecurrenceOf(FloorLine(def, monthly)) = "MONTHLY"
<1>1. FloorRule(def).amount - monthly \in Int
  BY FloorRuleIs
<1> QED
  BY <1>1 DEF FloorLine, ManualLine, IsFlat, RecurrenceError, RecurrenceOf, ForcedKinds, DefaultRecurrence

(* The final schedule is placed over its sources.                          *)
LEMMA FinalShape ==
  ASSUME NEW def, Validated(def), NEW I \in Configurations(def), InvalidQuantities(I) = {}, NEW C,
         NEW using
  PROVE  IsPriced(FinalList(def, I, C, using), FinalEntries(def, I, C, using),
                  FinalSources(def, I, C, using))
<1> DEFINE monthly == Monthly(def, I, C, using)
           base == BaseList(def, I, C)
           f == FinalEntries(def, I, C, using)
           S == BaseSources(def, I, C)
<1>1. /\ IsList(base) /\ Placed(base, f, S) /\ Simple(f, S) /\ IsFiniteSet(S)
      /\ DOMAIN base \subseteq Nat
  BY BaseShape DEF IsPriced, FinalEntries
<1>2. FinalList(def, I, C, using) =
        base \o (IF Raised(def, monthly) THEN <<FloorLine(def, monthly)>> ELSE <<>>)
  BY ComplementIs
<1>3. FinalSources(def, I, C, using) = S \cup IF Raised(def, monthly) THEN {Floor} ELSE {}
  BY DEF FinalSources
<1>4. f[Floor] = FloorLine(def, monthly)
  BY EntriesAre DEF FinalEntries
<1>5. monthly \in Int
  BY MonthlyType
<1>6. Floor \notin S
  BY DEF Floor, BaseSources
<1> HIDE DEF base, f, S, monthly
<1>7. CASE ~Raised(def, monthly)
  <2>1. base \o <<>> = base
    <3>1. \A T : \A q \in Seq(T) : q \o <<>> = q
      BY ConcatEmptySeq
    <3> QED
      BY <1>1, <3>1 DEF IsList
  <2>2. FinalList(def, I, C, using) = base /\ FinalSources(def, I, C, using) = S
    BY <1>2, <1>3, <1>7, <2>1
  <2> QED
    BY <1>1, <2>2 DEF IsPriced, f
<1>8. CASE Raised(def, monthly)
  <2>1. IsFlat(f[Floor]) /\ f[Floor].revision = NoRevision
    BY <1>4, <1>5, <1>8, FloorLineIs DEF Raised
  <2> DEFINE q == <<f[Floor]>>
  <2>2. IsList(q) /\ Placed(q, f, {Floor})
    BY PlacedOne
  <2>3. FinalList(def, I, C, using) = base \o q /\ FinalSources(def, I, C, using) = S \cup {Floor}
    BY <1>2, <1>3, <1>4, <1>8
  <2> HIDE DEF q
  <2>4. IsList(base \o q) /\ Placed(base \o q, f, S \cup {Floor})
    <3>1. S \cap {Floor} = {}
      BY <1>6
    <3> QED
      BY <1>1, <2>2, <3>1, Joined, PlacedJoined
  <2>5. Simple(f, S \cup {Floor}) /\ IsFiniteSet(S \cup {Floor})
    BY <1>1, <2>1, FS_AddElement DEF Simple
  <2>6. DOMAIN (base \o q) \subseteq Nat
    <3>1. Len(base \o q) \in Nat /\ DOMAIN (base \o q) = 1..Len(base \o q)
      BY <2>4, ListDomain
    <3> QED
      BY <3>1
  <2> QED
    BY <2>3, <2>4, <2>5, <2>6 DEF IsPriced, f
<1> QED
  BY <1>7, <1>8

-----------------------------------------------------------------------------
(* What a quote without errors says of its configuration.                  *)

(* Every choice of the table is resolved.                                  *)
LEMMA ResolvedDomain ==
  ASSUME NEW def, NEW sel
  PROVE  DOMAIN def.choices \subseteq DOMAIN ResolvedChoices(def, sel)
BY DEF ResolvedChoices, Preselected

(* Without a bad choice, every line of the table has a price.              *)
LEMMA PricedByChoice ==
  ASSUME NEW def, Validated(def), NEW C, DOMAIN def.choices \subseteq DOMAIN C,
         BadChoices(def, C) = {}, NEW l \in Lines(def)
  PROVE  UnitPriceCents(l, C) \in Nat /\ UnitPriceCents(l, C) # NoPrice
<1>1. PriceValidated(def, l)
  BY DEF Validated
<1>2. CASE l.dependsOn = NoLine
  BY <1>1, <1>2 DEF PriceValidated, UnitPriceCents, NoPrice
<1>3. CASE l.dependsOn # NoLine
  <2>1. /\ l.dependsOn \in DOMAIN def.choices
        /\ DOMAIN l.byChoice = OptionValues(def.choices[l.dependsOn])
        /\ \A value \in DOMAIN l.byChoice : l.byChoice[value] \in Nat
    BY <1>1, <1>3 DEF PriceValidated
  <2>2. C[l.dependsOn] \in OptionValues(def.choices[l.dependsOn])
    BY <2>1 DEF BadChoices
  <2>3. UnitPriceCents(l, C) = l.byChoice[C[l.dependsOn]]
    BY <1>3, <2>1, <2>2 DEF UnitPriceCents
  <2> QED
    BY <2>1, <2>2, <2>3 DEF NoPrice
<1> QED
  BY <1>2, <1>3

(* What the absence of errors says of a configuration.                     *)
LEMMA ConfigurationFine ==
  ASSUME NEW def, NEW sel, NEW I, NEW C, ConfigurationErrors(def, sel, I, C) = {}
  PROVE  /\ BadChoices(def, C) = {} /\ InvalidQuantities(I) = {} /\ Unpriced(def, I, C) = {}
         /\ BrokenRules(def, I) = {} /\ DOMAIN sel.choices \subseteq DOMAIN def.choices
         /\ \A key \in sel.options : key \in Keys(def) /\ LineOf(def, key).kind = "OPTIONAL"
         /\ \A key \in DOMAIN I : ~OutOfBounds(def, sel, I, key)
         /\ UnresolvedTags(def, sel, I) = {} /\ DOMAIN sel.quantities \subseteq Keys(def)
<1> DEFINE kinds == [choice |-> BadChoices(def, C) # {},
                unknownChoice |-> ~(DOMAIN sel.choices \subseteq DOMAIN def.choices),
                option |-> \E key \in sel.options :
                             key \notin Keys(def) \/ LineOf(def, key).kind # "OPTIONAL",
                unknownLine |-> ~(DOMAIN sel.quantities \subseteq Keys(def)),
                tag |-> UnresolvedTags(def, sel, I) # {},
                quantity |-> InvalidQuantities(I) # {},
                bounds |-> \E key \in DOMAIN I \ InvalidQuantities(I) : OutOfBounds(def, sel, I, key),
                rule |-> BrokenRules(def, I) # {},
                price |-> Unpriced(def, I, C) # {}]
<1>1. {k \in DOMAIN kinds : kinds[k]} = {}
  BY DEF ConfigurationErrors
<1>2. /\ ~kinds.choice /\ ~kinds.unknownChoice /\ ~kinds.option /\ ~kinds.unknownLine /\ ~kinds.tag
      /\ ~kinds.quantity /\ ~kinds.bounds /\ ~kinds.rule /\ ~kinds.price
  BY <1>1
<1> QED
  BY <1>2

(* The lines of one recurrence that the quote adds up: those that only     *)
(* inform are left out.                                                    *)
OfPart(def, lines, recurrence) ==
  {p \in lines : /\ p.recurrence = recurrence
                 /\ p.key \in Keys(def) => LineOf(def, p.key).kind # "INFO"}

(* A quote without errors is the sums of the final schedule, computed      *)
(* without error.                                                          *)
LEMMA QuoteErrors ==
  ASSUME NEW def, NEW sel, NEW using, Quote(def, sel, using, 1).errors = {}
  PROVE  LET I == Included(def, sel)
             C == ResolvedChoices(def, sel)
             part(r) == Bucket(OfPart(def, FinalPrices(def, I, C, using).lines, r), using)
         IN /\ ConfigurationErrors(def, sel, I, C) = {}
            /\ FinalPrices(def, I, C, using).error = Ok
            /\ Quote(def, sel, using, 1) =
                 Summed({}, CommitmentMonths(def, C), FinalList(def, I, C, using), part("ONE_OFF"),
                        part("MONTHLY"), part("QUARTERLY"), part("YEARLY"))
<1> DEFINE I == Included(def, sel)
           C == ResolvedChoices(def, sel)
           E == ConfigurationErrors(def, sel, I, C)
           months == CommitmentMonths(def, C)
           final == FinalList(def, I, C, using)
           prices == FinalPrices(def, I, C, using)
           part(r) == Bucket(OfPart(def, prices.lines, r), using)
           q == Quote(def, sel, using, 1)
<1>1. q = QuoteIncluded(def, I, C, E, using, 1)
  BY DEF Quote, Configured
<1> HIDE DEF I, C, E, q
<1>2. q = IF E \cap {"quantity", "price", "choice"} # {} THEN EmptyQuote(months, E)
          ELSE QuoteSchedule(def, E, months, final, using, 1)
  BY <1>1 DEF QuoteIncluded, FinalList, BaseList
<1>3. QuoteSchedule(def, E, months, final, using, 1) = QuoteResult(def, E, months, final, prices, using)
  BY DEF QuoteSchedule, FinalPrices
<1> HIDE DEF months, final
<1>4. QuoteResult(def, E, months, final, prices, using) =
        IF prices.error # Ok THEN EmptyQuote(months, E \cup {prices.error})
        ELSE Summed(E, months, final, part("ONE_OFF"), part("MONTHLY"), part("QUARTERLY"), part("YEARLY"))
  BY DEF QuoteResult, OfPart
<1> HIDE DEF prices, part
<1>5. \A errors : EmptyQuote(months, errors).errors = errors
  BY DEF EmptyQuote
<1>6. \A errors, a, b, c, d : errors \subseteq Summed(errors, months, final, a, b, c, d).errors
  BY DEF Summed
<1>7. q.errors = {}
  BY DEF q
<1>8. E \cap {"quantity", "price", "choice"} = {}
  BY <1>2, <1>5, <1>7
<1>9. prices.error = Ok
  BY <1>2, <1>3, <1>4, <1>5, <1>7, <1>8
<1>10. q = Summed(E, months, final, part("ONE_OFF"), part("MONTHLY"), part("QUARTERLY"), part("YEARLY"))
  BY <1>2, <1>3, <1>4, <1>8, <1>9
<1>11. E = {}
  BY <1>6, <1>7, <1>10
<1> QED
  BY <1>9, <1>10, <1>11 DEF I, C, E, months, final, prices, part, q

(* To leave out the lines that only inform changes no total: their         *)
(* quantity is zero.                                                       *)
LEMMA PlainSums ==
  ASSUME NEW def, Validated(def), NEW I \in Configurations(def), InvalidQuantities(I) = {}, NEW C,
         DOMAIN def.choices \subseteq DOMAIN C, BadChoices(def, C) = {}, NEW using,
         FinalPrices(def, I, C, using).error = Ok, NEW recurrence
  PROVE  SumOf(OfPart(def, FinalPrices(def, I, C, using).lines, recurrence)) =
           OfRecurrence(FinalPrices(def, I, C, using).lines, recurrence)
<1> DEFINE final == FinalList(def, I, C, using)
           lines == FinalPrices(def, I, C, using).lines
           f == FinalEntries(def, I, C, using)
           S == FinalSources(def, I, C, using)
           env == QuoteEnv(using)
<1>1. /\ IsList(final) /\ Placed(final, f, S) /\ Simple(f, S) /\ IsFiniteSet(S)
      /\ DOMAIN final \subseteq Nat /\ env.overrides = {}
  BY FinalShape, EnvOfQuote DEF IsPriced
<1>2. /\ PriceSchedule(final, env, 1).error = Ok /\ lines = PriceSchedule(final, env, 1).lines
  BY DEF FinalPrices
<1>d. \A i \in DOMAIN def.lines :
        IsEntry(f[<<"shown", i>>], def.lines[i].key) /\ Unsold(f[<<"shown", i>>])
  <2>1. \E e : f = Entries(def, I, C, e)
    BY DEF FinalEntries
  <2> HIDE DEF f
  <2> QED
    BY <2>1, EntriesTyped
<1>s. \A i \in Shown(def, C) : <<"shown", i>> \in S
  BY DEF FinalSources, BaseSources
<1> HIDE DEF final, lines, f, S, env
<1>3. Sound(f, S, env) /\ lines = SoldOf(f, S, env.settings) \union ReducedOf(f, S, env)
  BY <1>1, <1>2, PlacedPrices
<1>4. IsFiniteSet(lines) /\ \A p \in lines : p.total \in Int
  BY <1>1, <1>2, PricesTyped
<1>5. ASSUME NEW p \in lines, p.key \in Keys(def), LineOf(def, p.key).kind = "INFO"
      PROVE  p.total = 0
  <2>1. PICK i \in DOMAIN def.lines : def.lines[i] = LineOf(def, p.key) /\ def.lines[i].key = p.key
    <3>1. LineOf(def, p.key) \in Lines(def) /\ LineOf(def, p.key).key = p.key
      BY <1>5, LineOfKey
    <3>2. Lines(def) = Elements(def.lines)
      BY LinesAre
    <3> QED
      BY <3>1, <3>2 DEF Elements
  <2>2. i \in Shown(def, C)
    <3>1. LineOf(def, p.key) \in Lines(def)
      BY <1>5, LineOfKey
    <3>2. UnitPriceCents(LineOf(def, p.key), C) # NoPrice
      BY <3>1, PricedByChoice
    <3> QED
      BY <1>5, <2>1, <3>2 DEF Shown
  <2> DEFINE t == <<"shown", i>>
  <2>3. t \in S /\ IsFlat(f[t]) /\ f[t].key = p.key /\ f[t].kind # "DISCOUNT" /\ f[t].quantity = 0
    BY <1>d, <1>s, <2>1, <2>2 DEF IsEntry, Unsold
  <2> HIDE DEF t
  <2>4. CASE p \in SoldOf(f, S, env.settings)
    <3>1. PICK s \in Flats(f, S) : p = Sold(f[s], env.settings)
      BY <2>4 DEF SoldOf
    <3>2. s \in S /\ IsFlat(f[s])
      BY <1>1 DEF Flats, Simple, IsReduction
    <3>3. p.key = f[s].key
      BY <3>1, <3>2, SoldType
    <3>4. s = t
      BY <1>3, <2>3, <3>2, <3>3 DEF Sound
    <3> QED
      BY <2>3, <3>1, <3>4, SoldNothing
  <2>5. CASE p \in ReducedOf(f, S, env)
    <3>1. PICK s \in Reductions(f, S) : p = DiscountLine(f[s], SoldOf(f, S, env.settings), env).line
      BY <2>5 DEF ReducedOf
    <3>2. s \in S /\ f[s].kind = "DISCOUNT" /\ f[s].discount.type = "PERCENT"
      BY <1>1 DEF Reductions, Simple, IsReduction, IsFlat
    <3>3. p.key = f[s].key
      BY <3>1, <3>2, DiscountIs
    <3>4. s = t
      BY <1>3, <2>3, <3>2, <3>3 DEF Sound
    <3> QED
      BY <2>3, <3>2, <3>4
  <2> QED
    BY <1>3, <2>4, <2>5
<1> DEFINE T == {p \in lines : p.recurrence = recurrence}
           U == OfPart(def, lines, recurrence)
           g == [p \in T |-> p.total]
<1>6. U \in SUBSET T /\ \A p \in T \ U : g[p] = 0
  BY <1>5 DEF OfPart
<1>7. IsFiniteSet(T) /\ IsFiniteSet(U)
  <2>1. T \in SUBSET lines /\ U \in SUBSET lines
    BY <1>6
  <2> QED
    BY <1>4, <2>1, FS_Subset
<1>8. /\ \A p \in T : p.total \in Int /\ g[p] = p.total
      /\ \A p \in T : g[p] \in Int
  BY <1>4
<1> HIDE DEF T, U, g
<1>9. SumFunctionOnSet(g, T) = SumFunctionOnSet(g, U)
  BY <1>6, <1>7, <1>8, SumZeros
<1>10. SumOf(T) = SumFunctionOnSet(g, T)
  BY <1>7, <1>8, SumOfIs
<1>11. SumOf(U) = SumFunctionOnSet(g, U)
  <2>1. \A p \in U : p.total \in Int /\ g[p] = p.total
    BY <1>6, <1>8
  <2> QED
    BY <1>7, <2>1, SumOfIs
<1> QED
  BY <1>9, <1>10, <1>11 DEF OfRecurrence, T, U, lines

-----------------------------------------------------------------------------
(* What is frozen of the sale, and what the versions keep of it.           *)

(* What an accepted sale has frozen is the quote of its offer, without     *)
(* errors.                                                                 *)
SaleShaped ==
  /\ "state" \in DOMAIN sale /\ sale.state \in {"none", "open", "accepted", "converted"}
  /\ sale.state # "none" => sale.offer \in Offers
  /\ sale.state = "open" => sale = [state |-> "open", offer |-> sale.offer, settings |-> sale.settings]
  /\ sale.state \in {"accepted", "converted"} =>
       /\ sale = [state |-> sale.state, offer |-> sale.offer, settings |-> sale.settings,
                  quote |-> sale.quote, selection |-> sale.selection]
       /\ sale.quote = QuoteOf(sale.offer, sale.settings) /\ sale.quote.errors = {}
       /\ sale.selection = FrozenSelection(sale.offer)

SignedLines(start) ==
  [i \in DOMAIN sale.quote.schedule |-> Indexed(sale.offer.table, sale.quote.schedule[i], start)]

(* The version of the proposal, once engaged, has the signed lines.        *)
AsSigned ==
  \A v \in DOMAIN schedules :
    schedules[v].note = "proposal" =>
      sale.state = "converted" /\ schedules[v].lines = SignedLines(schedules[v].validFrom)

(* Every version has its dates in order, and engaged versions have no day  *)
(* in common.                                                              *)
IsDated(s) == s.validTo = Forever \/ s.validFrom <= s.validTo

Dated == \A v \in DOMAIN schedules : IsDated(schedules[v])

Apart == NoOverlap(schedules)

(* The invariant: the shape of the rows, and what was signed.              *)
SInv == PInv /\ SaleShaped /\ AsSigned /\ Dated /\ Apart

(* The versions that a step leaves, or those that the desk enters.         *)
Entered(s) == s.note = "desk" /\ ~IsEngaged(s) /\ IsDated(s)

(* A step that only adds or rewrites drafts of the desk keeps the          *)
(* invariant.                                                              *)
LEMMA EnteredStay ==
  ASSUME SInv, sale' = sale,
         \A i \in DOMAIN schedules' :
           Entered(schedules'[i]) \/ (i \in DOMAIN schedules /\ schedules'[i] = schedules[i])
  PROVE  SaleShaped' /\ AsSigned' /\ Dated' /\ Apart'
<1>1. SaleShaped'
  BY DEF SInv, SaleShaped
<1>2. AsSigned'
  BY DEF SInv, AsSigned, SignedLines, Entered
<1>3. Dated'
  BY DEF SInv, Dated, Entered
<1>4. Apart'
  BY DEF SInv, Apart, NoOverlap, Entered
<1> QED
  BY <1>1, <1>2, <1>3, <1>4

(* To engage a version keeps its lines.                                    *)
LEMMA EngageSigned ==
  ASSUME SInv, NEW u \in Users, Engage(u)
  PROVE  SaleShaped' /\ AsSigned' /\ Dated' /\ Apart'
<1> DEFINE t == task[u]
           last == PreviousDay(t.from)
<1>1. CanEngage(t) /\ schedules' = AfterEngaging(t) /\ sale' = sale
  BY DEF Engage
<1>2. DOMAIN schedules' = DOMAIN schedules
  BY <1>1 DEF AfterEngaging
<1>3. ASSUME NEW v \in DOMAIN schedules
      PROVE  schedules'[v] = IF v \in t.closing THEN Closed(schedules[v], last)
                             ELSE IF v = t.version THEN Activated(schedules[v])
                             ELSE schedules[v]
  BY <1>1 DEF AfterEngaging
<1>4. ASSUME NEW v \in DOMAIN schedules
      PROVE  /\ schedules'[v].note = schedules[v].note /\ schedules'[v].lines = schedules[v].lines
             /\ schedules'[v].validFrom = schedules[v].validFrom
             /\ IsDated(schedules'[v])
  <2>1. IsVersion(schedules[v]) /\ IsDated(schedules[v])
    BY DEF SInv, PInv, Versioned, Dated
  <2>2. CASE v \in t.closing
    <3>1. schedules'[v] = Closed(schedules[v], last) /\ MayClose(schedules[v], last)
      BY <1>1, <1>3, <2>2 DEF CanEngage
    <3> HIDE DEF last
    <3> QED
      BY <3>1 DEF Closed, IsDated, MayClose
  <2>3. CASE v \notin t.closing
    <3>1. schedules'[v] = Activated(schedules[v]) \/ schedules'[v] = schedules[v]
      BY <1>3, <2>3
    <3> QED
      BY <2>1, <3>1 DEF Activated, IsVersion, IsDated
  <2> QED
    BY <2>2, <2>3
<1>5. SaleShaped'
  BY <1>1 DEF SInv, SaleShaped
<1>6. AsSigned'
  BY <1>1, <1>2, <1>4 DEF SInv, AsSigned, SignedLines
<1>7. Dated'
  BY <1>2, <1>4 DEF Dated
<1>8. Apart'
  BY <1>1 DEF CanEngage, Apart
<1> QED
  BY <1>5, <1>6, <1>7, <1>8

(* A new draft is one of the desk.                                         *)
LEMMA CreateSigned ==
  ASSUME SInv, NEW u \in Users, NEW p \in Periods, NEW lines, CreateDraft(u, p, lines)
  PROVE  SaleShaped' /\ AsSigned' /\ Dated' /\ Apart'
<1> DEFINE e == Version(lines, p.from, p.to, p.months, "desk")
<1>1. schedules' = Append(schedules, e) /\ sale' = sale
  BY DEF CreateDraft
<1>2. Entered(e)
  BY PeriodsAssumption DEF Entered, Version, IsEngaged, IsDated
<1> HIDE DEF e
<1>3. IsList(schedules)
  BY DEF SInv, PInv, Versioned
<1>4. \A i \in DOMAIN schedules' : i \in DOMAIN schedules \/ schedules'[i] = e
  BY <1>1, <1>3, Appended
<1>5. \A i \in DOMAIN schedules : schedules'[i] = schedules[i]
  BY <1>1, <1>3, Appended
<1> QED
  BY <1>1, <1>2, <1>4, <1>5, EnteredStay

(* An update makes a draft one of the desk, and never an engaged version.  *)
LEMMA UpdateSigned ==
  ASSUME SInv, NEW u \in Users, NEW p \in Periods, NEW lines, Update(u, p, lines)
  PROVE  SaleShaped' /\ AsSigned' /\ Dated' /\ Apart'
<1> DEFINE v == task[u].version
           e == [status |-> schedules[v].status, validFrom |-> p.from, validTo |-> p.to,
                 months |-> p.months, note |-> "desk", lines |-> lines]
<1>1. schedules[v].status = "DRAFT" /\ schedules' = [schedules EXCEPT ![v] = e] /\ sale' = sale
  BY DEF Update, Writable, IsDraft
<1>2. Entered(e)
  BY <1>1, PeriodsAssumption DEF Entered, IsEngaged, IsDated
<1> HIDE DEF e, v
<1> QED
  BY <1>1, <1>2, EnteredStay

(* A deleted draft is none of the proposal's any more.                     *)
LEMMA DeleteSigned ==
  ASSUME SInv, NEW u \in Users, NEW v, DeleteDraft(u, v)
  PROVE  SaleShaped' /\ AsSigned' /\ Dated' /\ Apart'
<1>1. schedules' = [schedules EXCEPT ![v] = Gone] /\ sale' = sale
  BY DEF DeleteDraft
<1>2. Entered(Gone)
  BY DEF Entered, Gone, Version, IsEngaged, IsDated, Forever
<1> QED
  BY <1>1, <1>2, EnteredStay

(* Before the conversion there is no version.                              *)
LEMMA SaleSigned ==
  ASSUME SInv, UNCHANGED <<schedules, task>>, (\E offer \in Offers : Choose(offer)) \/ Accept
  PROVE  SaleShaped' /\ AsSigned' /\ Dated' /\ Apart'
<1>1. sale.state = "open" /\ sale.offer \in Offers
      /\ sale = [state |-> "open", offer |-> sale.offer, settings |-> sale.settings]
  BY DEF Choose, Accept, SInv, SaleShaped
<1>2. DOMAIN schedules' = {}
  BY <1>1 DEF SInv, PInv, NothingYet, HasContract
<1>3. CASE \E offer \in Offers : Choose(offer)
  <2>1. PICK offer \in Offers : sale' = [sale EXCEPT !.offer = offer]
    BY <1>3 DEF Choose
  <2>2. sale' = [state |-> "open", offer |-> offer, settings |-> sale.settings]
    BY <1>1, <2>1
  <2> QED
    BY <1>2, <2>2 DEF SaleShaped, AsSigned, Dated, Apart, NoOverlap
<1>4. CASE Accept
  <2>1. PICK quote : /\ quote = QuoteOf(sale.offer, sale.settings) /\ quote.errors = {}
                     /\ sale' = [state |-> "accepted", offer |-> sale.offer, settings |-> sale.settings,
                                 quote |-> quote, selection |-> FrozenSelection(sale.offer)]
    BY <1>4 DEF Accept
  <2>2. SaleShaped'
    BY <1>1, <2>1 DEF SaleShaped
  <2> QED
    BY <1>2, <2>2 DEF AsSigned, Dated, Apart, NoOverlap
<1> QED
  BY <1>3, <1>4

(* The conversion writes the signed lines.                                 *)
LEMMA ConvertSigned ==
  ASSUME SInv, NEW start \in Starts, Convert(start)
  PROVE  SaleShaped' /\ AsSigned' /\ Dated' /\ Apart'
<1>1. /\ sale.state = "accepted" /\ sale' = [sale EXCEPT !.state = "converted"]
      /\ schedules' = <<InitialVersion(start)>>
  BY DEF Convert
<1>2. /\ sale = [state |-> sale.state, offer |-> sale.offer, settings |-> sale.settings,
                 quote |-> sale.quote, selection |-> sale.selection]
      /\ sale.offer \in Offers
      /\ sale.quote = QuoteOf(sale.offer, sale.settings) /\ sale.quote.errors = {}
      /\ sale.selection = FrozenSelection(sale.offer)
  BY <1>1 DEF SInv, SaleShaped
<1>3. /\ sale' = [state |-> "converted", offer |-> sale.offer, settings |-> sale.settings,
                  quote |-> sale.quote, selection |-> sale.selection]
  BY <1>1, <1>2
<1>4. DOMAIN schedules' = {1} /\ schedules'[1] = InitialVersion(start)
  BY <1>1
<1>5. SaleShaped'
  BY <1>2, <1>3 DEF SaleShaped
<1>6. /\ InitialVersion(start).validFrom = start /\ InitialVersion(start).validTo = Forever
      /\ InitialVersion(start).lines = SignedLines(start)
  BY DEF InitialVersion, Version, SignedLines
<1>7. AsSigned'
  BY <1>3, <1>4, <1>6 DEF AsSigned, SignedLines
<1>8. Dated' /\ Apart'
  BY <1>4, <1>6 DEF Dated, IsDated, Apart, NoOverlap
<1> QED
  BY <1>5, <1>7, <1>8

(* A contract starts without any version.                                  *)
LEMMA InitSigned == Init => SInv
<1> SUFFICES ASSUME Init
             PROVE  SInv
  OBVIOUS
<1>1. PInv
  BY InitShaped
<1>2. DOMAIN schedules = {}
  BY DEF Init
<1>3. SaleShaped
  BY DEF Init, SaleShaped, NoSale
<1> QED
  BY <1>1, <1>2, <1>3 DEF SInv, AsSigned, Dated, Apart, NoOverlap

(* Every step keeps the invariant.                                         *)
LEMMA StepSigned == SInv /\ [Next]_vars => SInv'
<1> SUFFICES ASSUME SInv, [Next]_vars
             PROVE  SInv'
  OBVIOUS
<1>1. PInv'
  BY StepShaped DEF SInv
<1>2. ASSUME schedules' = schedules, sale' = sale
      PROVE  SaleShaped' /\ AsSigned' /\ Dated' /\ Apart'
  BY <1>2, EnteredStay
<1>3. ASSUME NEW u \in Users, Drafts(u)
      PROVE  SaleShaped' /\ AsSigned' /\ Dated' /\ Apart'
  <2>1. CASE \E p \in Periods, lines \in Sheets \union Copyable : CreateDraft(u, p, lines)
    BY <2>1, CreateSigned
  <2>2. CASE \E v \in DOMAIN schedules : BeginUpdate(u, v)
    BY <1>2, <2>2 DEF BeginUpdate
  <2>3. CASE \E v \in DOMAIN schedules : DeleteDraft(u, v)
    BY <2>3, DeleteSigned
  <2>4. CASE \E v \in DOMAIN schedules : BeginActivate(u, v)
    BY <1>2, <2>4 DEF BeginActivate
  <2>5. CASE \E p \in Periods, lines \in Sheets : Update(u, p, lines)
    BY <2>5, UpdateSigned
  <2>6. CASE Engage(u)
    BY <2>6, EngageSigned
  <2>7. CASE Refused(u)
    BY <1>2, <2>7 DEF Refused
  <2> QED
    BY <1>3, <2>1, <2>2, <2>3, <2>4, <2>5, <2>6, <2>7 DEF Drafts
<1>4. ASSUME NEW u \in Users, Overriding(u)
      PROVE  SaleShaped' /\ AsSigned' /\ Dated' /\ Apart'
  <2>1. schedules' = schedules /\ sale' = sale
    BY <1>4 DEF Overriding, BeginOverride, InsertOverride, ApproveOverride, RejectOverride, CancelOverride
  <2> QED
    BY <1>2, <2>1
<1>5. CASE (\E offer \in Offers : Choose(offer)) \/ Accept
  <2>1. UNCHANGED <<schedules, task>>
    BY <1>5 DEF Choose, Accept
  <2> QED
    BY <1>1, <1>5, <2>1, SaleSigned DEF SInv
<1>6. CASE \E start \in Starts : Convert(start)
  BY <1>1, <1>6, ConvertSigned DEF SInv
<1>7. CASE \E u \in Users : Drafts(u) \/ Overriding(u)
  BY <1>1, <1>3, <1>4, <1>7 DEF SInv
<1>8. CASE \E using \in AllSettings : ChangeSettings(using)
  BY <1>1, <1>2, <1>8 DEF ChangeSettings, SInv
<1>9. CASE UNCHANGED vars
  BY <1>1, <1>2, <1>9 DEF vars, SInv
<1> QED
  BY <1>5, <1>6, <1>7, <1>8, <1>9 DEF Next

-----------------------------------------------------------------------------
(* The schedule of the conversion, priced on its first day.                *)

(* The fields that the price of a line comes from.                         *)
Fields == {"key", "kind", "mode", "recurrence", "vat", "quantity", "unitPrice", "revision"}

(* The fields of an entered line.                                          *)
LEMMA ManualFields ==
  ASSUME NEW key, NEW kind, NEW recurrence, NEW vat, NEW quantity, NEW unitPrice
  PROVE  Fields \subseteq DOMAIN ManualLine(key, kind, recurrence, vat, quantity, unitPrice)
BY DEF Fields, ManualLine

(* Every line of the final schedule that is no discount has these fields.  *)
LEMMA EntryFields ==
  ASSUME NEW def, NEW I, NEW C, NEW using, NEW s \in FinalSources(def, I, C, using),
         FinalEntries(def, I, C, using)[s].kind # "DISCOUNT"
  PROVE  Fields \subseteq DOMAIN FinalEntries(def, I, C, using)[s]
<1> DEFINE monthly == Monthly(def, I, C, using)
           e == FloorLine(def, monthly)
           f == Entries(def, I, C, e)
<1>1. /\ \A i \in DOMAIN def.lines : f[<<"kept", i>>] = KeptLine(def, I, C, i)
      /\ \A i \in DOMAIN def.lines : f[<<"shown", i>>] = ShownLine(def, C, i)
      /\ \A i \in DOMAIN def.rules : f[<<"discount", i>>] = EngineDiscount(def, I, def.rules[i])
      /\ f[Floor] = e
  BY EntriesAre
<1>2. f = FinalEntries(def, I, C, using)
  BY DEF FinalEntries
<1>3. \/ s = <<"kept", s[2]>> /\ s[2] \in DOMAIN def.lines
      \/ s = <<"shown", s[2]>> /\ s[2] \in DOMAIN def.lines
      \/ s = <<"discount", s[2]>> /\ s[2] \in DOMAIN def.rules
      \/ s = Floor
  BY DEF FinalSources, BaseSources, Kept, Shown, Granted
<1>4. Fields \subseteq DOMAIN e
  BY ManualFields DEF FloorLine
<1>5. ASSUME NEW l, NEW q, NEW c
      PROVE  Fields \subseteq DOMAIN ToEngineLine(l, q, c, def.vat)
  <2>1. \E key, kind, recurrence : ToEngineLine(l, q, c, def.vat) =
          ManualLine(key, kind, recurrence, def.vat, q, 10 * c)
    BY DEF ToEngineLine
  <2> QED
    BY <2>1, ManualFields
<1>6. \A i : EngineDiscount(def, I, def.rules[i]).kind = "DISCOUNT"
  BY DEF EngineDiscount, ManualLine
<1> HIDE DEF f, e
<1> QED
  BY <1>1, <1>2, <1>3, <1>4, <1>5, <1>6 DEF KeptLine, ShownLine

(* The revision that the conversion adds changes no price of the first     *)
(* days.                                                                   *)
LEMMA RevisionWaits ==
  ASSUME NEW table, NEW l, Fields \subseteq DOMAIN l, IsFlat(l), l.revision = NoRevision,
         NEW start \in Nat
  PROVE  LET x == Indexed(table, l, start) IN
         /\ IsFlat(x) /\ ~IsRevised(x, start)
         /\ x.key = l.key /\ x.kind = l.kind
         /\ \A using : Sold(x, using) = Sold(l, using)
<1> DEFINE x == Indexed(table, l, start)
<1>1. \/ x = l
      \/ \E a, b, c, d :
           x = [l EXCEPT !.revision = [from |-> start + Anniversary, a |-> a, b |-> b, s0 |-> c, s1 |-> d]]
  BY DEF Indexed, RevisedFrom
<1> HIDE DEF x
<1>2. /\ x.key = l.key /\ x.kind = l.kind /\ x.mode = l.mode /\ x.recurrence = l.recurrence
      /\ x.vat = l.vat /\ x.quantity = l.quantity /\ x.unitPrice = l.unitPrice
      /\ x.revision = NoRevision \/ x.revision.from = start + Anniversary
  BY <1>1 DEF Fields
<1>3. ~IsRevised(x, start)
  BY <1>2, PeriodsAssumption DEF IsRevised, NoRevision
<1>4. RecurrenceOf(x) = RecurrenceOf(l)
  BY <1>2 DEF RecurrenceOf
<1>5. IsFlat(x)
  BY <1>2, <1>4 DEF IsFlat, RecurrenceError
<1>6. \A using : Sold(x, using) = Sold(l, using)
  BY <1>2, <1>4 DEF Sold, Priced
<1> QED
  BY <1>2, <1>3, <1>5, <1>6 DEF x

(* A discount is not indexed.                                              *)
LEMMA DiscountsWait ==
  ASSUME NEW table, NEW l, l.kind = "DISCOUNT", NEW start
  PROVE  Indexed(table, l, start) = l
BY DEF Indexed, RevisedFrom

(* The indexed schedule is computed on its first day as the quote was.     *)
LEMMA SignedPrices ==
  ASSUME NEW def, Validated(def), NEW I \in Configurations(def), InvalidQuantities(I) = {}, NEW C,
         NEW using, NEW start \in Nat, NEW env, env.overrides = {}, env.settings = using, NEW others,
         others = [i \in DOMAIN FinalList(def, I, C, using) |->
                     Indexed(def, FinalList(def, I, C, using)[i], start)]
  PROVE  PriceSchedule(others, env, start) = FinalPrices(def, I, C, using)
<1> DEFINE final == FinalList(def, I, C, using)
           f == FinalEntries(def, I, C, using)
           S == FinalSources(def, I, C, using)
           quoted == QuoteEnv(using)
<1>1. /\ IsList(final) /\ Placed(final, f, S) /\ Simple(f, S)
      /\ quoted.overrides = {} /\ quoted.settings = using
  BY FinalShape, EnvOfQuote DEF IsPriced
<1>2. \A s \in S : f[s].kind # "DISCOUNT" => Fields \subseteq DOMAIN f[s]
  BY EntryFields
<1>3. DOMAIN others = DOMAIN final /\ \A i \in DOMAIN final : others[i] = Indexed(def, final[i], start)
  OBVIOUS
<1>p. FinalPrices(def, I, C, using) = PriceSchedule(final, quoted, 1)
  BY DEF FinalPrices
<1> HIDE DEF final, f, S, quoted
<1>4. \A i \in DOMAIN final : \E s \in S : final[i] = f[s]
  BY <1>1 DEF Placed
<1>5. ASSUME NEW i \in DOMAIN final, final[i].kind = "DISCOUNT"
      PROVE  others[i] = final[i]
  BY <1>3, <1>5, DiscountsWait
<1>6. ASSUME NEW i \in DOMAIN final, final[i].kind # "DISCOUNT"
      PROVE  /\ others[i].key = final[i].key /\ others[i].kind = final[i].kind
             /\ RegularLine(others[i], env, start) = RegularLine(final[i], quoted, 1)
  <2>1. PICK s \in S : final[i] = f[s]
    BY <1>4
  <2>2. Fields \subseteq DOMAIN final[i] /\ IsFlat(final[i]) /\ final[i].revision = NoRevision
    BY <1>1, <1>2, <1>6, <2>1 DEF Simple, IsReduction
  <2>3. PICK l, x : l = final[i] /\ x = others[i]
    OBVIOUS
  <2>4. x = Indexed(def, l, start)
    BY <1>3, <2>3
  <2>5. /\ IsFlat(x) /\ ~IsRevised(x, start)
        /\ x.key = l.key /\ x.kind = l.kind
        /\ \A u : Sold(x, u) = Sold(l, u)
    BY <2>2, <2>3, <2>4, RevisionWaits
  <2>6. ~IsRevised(l, 1)
    BY <2>2, <2>3 DEF IsRevised, NoRevision
  <2>7. RegularLine(x, env, start) = [error |-> Ok, line |-> Sold(x, env.settings)]
    BY <2>5, FlatPrice
  <2>8. RegularLine(l, quoted, 1) = [error |-> Ok, line |-> Sold(l, quoted.settings)]
    BY <1>1, <2>2, <2>3, <2>6, FlatPrice
  <2>9. Sold(x, env.settings) = Sold(l, quoted.settings)
    BY <1>1, <2>5
  <2> QED
    BY <2>3, <2>5, <2>7, <2>8, <2>9
<1>7. /\ \A i \in DOMAIN final : others[i].key = final[i].key /\ others[i].kind = final[i].kind
      /\ \A i \in RegularOf(final) : RegularLine(others[i], env, start) = RegularLine(final[i], quoted, 1)
      /\ \A i \in DiscountsOf(final) : others[i] = final[i]
  BY <1>5, <1>6 DEF RegularOf, DiscountsOf
<1>8. PriceSchedule(others, env, start) = PriceSchedule(final, quoted, 1)
  <2>1. DOMAIN others = DOMAIN final
    BY <1>3
  <2>2. env.settings.rounding = quoted.settings.rounding
    BY <1>1
  <2> QED
    BY ONLY <1>7, <2>1, <2>2, SamePricing
<1> QED
  BY <1>8, <1>p

(* The totals of a quote without errors are those of its final schedule.   *)
LEMMA QuoteTotals ==
  ASSUME NEW def, Validated(def), NEW sel, Selectable(sel), NEW using,
         Quote(def, sel, using, 1).errors = {}
  PROVE  LET I == Included(def, sel)
             C == ResolvedChoices(def, sel)
             lines == FinalPrices(def, I, C, using).lines
             q == Quote(def, sel, using, 1)
         IN /\ I \in Configurations(def) /\ InvalidQuantities(I) = {}
            /\ FinalPrices(def, I, C, using).error = Ok
            /\ q.schedule = FinalList(def, I, C, using)
            /\ q.monthly.ht = OfRecurrence(lines, "MONTHLY")
            /\ q.quarterly.ht = OfRecurrence(lines, "QUARTERLY")
            /\ q.yearly.ht = OfRecurrence(lines, "YEARLY")
            /\ q.oneTime.ht = OfRecurrence(lines, "ONE_OFF")
<1> DEFINE I == Included(def, sel)
           C == ResolvedChoices(def, sel)
           lines == FinalPrices(def, I, C, using).lines
           q == Quote(def, sel, using, 1)
           part(r) == Bucket(OfPart(def, lines, r), using)
<1>1. /\ ConfigurationErrors(def, sel, I, C) = {} /\ FinalPrices(def, I, C, using).error = Ok
      /\ q = Summed({}, CommitmentMonths(def, C), FinalList(def, I, C, using), part("ONE_OFF"),
                    part("MONTHLY"), part("QUARTERLY"), part("YEARLY"))
  BY QuoteErrors
<1>2. I \in Configurations(def)
  BY IncludedType
<1>3. DOMAIN def.choices \subseteq DOMAIN C
  BY ResolvedDomain
<1> HIDE DEF I, C, q
<1>4. BadChoices(def, C) = {} /\ InvalidQuantities(I) = {}
  BY <1>1, ConfigurationFine
<1>5. \A r : SumOf(OfPart(def, lines, r)) = OfRecurrence(lines, r)
  BY <1>1, <1>2, <1>3, <1>4, PlainSums
<1> HIDE DEF lines
<1>6. \A r : part(r).ht = OfRecurrence(lines, r)
  BY <1>5 DEF Bucket, Totals
<1> HIDE DEF part
<1>7. /\ q.schedule = FinalList(def, I, C, using) /\ q.monthly = part("MONTHLY")
      /\ q.quarterly = part("QUARTERLY") /\ q.yearly = part("YEARLY") /\ q.oneTime = part("ONE_OFF")
  BY <1>1 DEF Summed
<1> QED
  BY <1>1, <1>2, <1>4, <1>6, <1>7 DEF I, C, lines, q

(* In every state of the invariant, the engaged version of the proposal    *)
(* bills the quote.                                                        *)
LEMMA SignedIsBilled == SInv => SignedPriceIsBilled
<1> SUFFICES ASSUME SInv, NEW v \in EngagedVersions, schedules[v].note = "proposal",
                    settings = sale.settings, Applicable = {}
             PROVE  /\ PriceOn(schedules[v].validFrom).error = Ok
                    /\ \A total \in {Totals(PriceOn(schedules[v].validFrom).lines, settings)} :
                         [monthly |-> total.monthly, quarterly |-> total.quarterly,
                          yearly |-> total.yearly, oneTime |-> total.oneOff] = Totalled(sale.quote)
  BY DEF SignedPriceIsBilled
<1> DEFINE start == schedules[v].validFrom
           versions == EngineSchedules(schedules)
           env == Env(settings, Applicable, MonthsOn(versions, start))
           def == sale.offer.table
           sel == sale.offer.selection
           I == Included(def, sel)
           C == ResolvedChoices(def, sel)
           final == FinalList(def, I, C, settings)
           prices == FinalPrices(def, I, C, settings)
<1>1. v \in DOMAIN schedules /\ IsEngaged(schedules[v]) /\ DOMAIN versions = EngagedAmong(schedules)
      /\ \A w \in DOMAIN versions : /\ versions[w] = schedules[w] /\ w \in DOMAIN schedules
                                    /\ IsEngaged(schedules[w])
  BY DEF EngagedVersions, EngagedAmong, EngineSchedules
<1>2. /\ \A w \in DOMAIN schedules : IsVersion(schedules[w]) /\ IsDated(schedules[w])
      /\ IsList(schedules)
  BY DEF SInv, PInv, Versioned, Dated
<1>3. start \in Nat
  BY <1>1, <1>2 DEF IsVersion
<1>4. Covering(versions, start) = {v}
  <2>1. Covers(schedules[v], start)
    BY <1>1, <1>2 DEF Covers, IsDated, IsVersion
  <2>2. ASSUME NEW w \in DOMAIN versions, Covers(versions[w], start), w # v
        PROVE  FALSE
    <3>1. Overlaps(schedules[v], schedules[w])
      BY <1>1, <1>2, <1>3, <2>1, <2>2, SameDayOverlaps
    <3> QED
      BY <1>1, <2>2, <3>1 DEF SInv, Apart, NoOverlap
  <2>3. v \in DOMAIN versions
    BY <1>1 DEF EngagedAmong
  <2> QED
    BY <1>1, <2>1, <2>2, <2>3 DEF Covering
<1>5. SelectError(versions, start) = Ok /\ SelectSchedule(versions, start) = schedules[v]
  <2>1. IsFiniteSet(DOMAIN versions)
    BY <1>1, <1>2, EngagedFinite
  <2>2. SelectError(versions, start) = Ok
    BY <1>4, <2>1, OneCovers
  <2>3. SelectSchedule(versions, start) = versions[v]
    BY <1>4, SelectsTheOne
  <2> QED
    BY <1>1, <2>2, <2>3 DEF EngagedAmong
<1>6. PriceOn(start) = PriceSchedule(schedules[v].lines, env, start)
  BY <1>5 DEF PriceOn, PriceWith, PriceAt
<1>7. /\ sale.state = "converted" /\ schedules[v].lines = SignedLines(start) /\ sale.offer \in Offers
      /\ sale.quote = QuoteOf(sale.offer, settings) /\ sale.quote.errors = {}
  BY <1>1 DEF SInv, AsSigned, SaleShaped
<1>8. Validated(def) /\ Selectable(sel)
  BY <1>7, OffersAssumption
<1>9. sale.quote = Quote(def, sel, settings, 1)
  BY <1>7 DEF QuoteOf
<1>10. env.overrides = {} /\ env.settings = settings
  BY DEF Env
<1> HIDE DEF start, versions, env, def, sel
<1>11. /\ I \in Configurations(def) /\ InvalidQuantities(I) = {} /\ prices.error = Ok
       /\ sale.quote.schedule = final
       /\ sale.quote.monthly.ht = OfRecurrence(prices.lines, "MONTHLY")
       /\ sale.quote.quarterly.ht = OfRecurrence(prices.lines, "QUARTERLY")
       /\ sale.quote.yearly.ht = OfRecurrence(prices.lines, "YEARLY")
       /\ sale.quote.oneTime.ht = OfRecurrence(prices.lines, "ONE_OFF")
  BY <1>7, <1>8, <1>9, QuoteTotals
<1>12. schedules[v].lines = [i \in DOMAIN final |-> Indexed(def, final[i], start)]
  BY <1>7, <1>11 DEF SignedLines, def
<1> HIDE DEF I, C
<1>13. PriceSchedule(schedules[v].lines, env, start) = prices
  BY <1>3, <1>8, <1>10, <1>11, <1>12, SignedPrices
<1> HIDE DEF prices, final
<1>14. PriceOn(start) = prices
  BY <1>6, <1>13
<1>15. /\ Totals(prices.lines, settings).monthly = OfRecurrence(prices.lines, "MONTHLY")
       /\ Totals(prices.lines, settings).quarterly = OfRecurrence(prices.lines, "QUARTERLY")
       /\ Totals(prices.lines, settings).yearly = OfRecurrence(prices.lines, "YEARLY")
       /\ Totals(prices.lines, settings).oneOff = OfRecurrence(prices.lines, "ONE_OFF")
  BY DEF Totals
<1> QED
  BY <1>11, <1>14, <1>15 DEF Totalled, start

(* The schedule of a converted proposal, once engaged, bills on its first  *)
(* day what the client signed (proposal-conversion.service.ts, price-      *)
(* at.ts), for every table that the schema validates, every selection,     *)
(* every setting and every number of versions.                             *)
THEOREM PricingSignedIsBilled == Spec => []SignedPriceIsBilled
<1>1. Spec => []SInv
  BY InitSigned, StepSigned, PTL DEF Spec
<1> QED
  BY <1>1, SignedIsBilled, PTL

-----------------------------------------------------------------------------
(* The frozen selection, configured again.                                 *)

(* Lines that were chosen or brought by a rule, in the quantity of the     *)
(* selection.                                                              *)
Chosen(def, sel, c) ==
  /\ c \in Configurations(def)
  /\ \A key \in DOMAIN c : /\ LineOf(def, key).kind # "SETUP"
                           /\ c[key] = RawQuantity(LineOf(def, key), sel)

(* The selected lines are chosen.                                          *)
LEMMA SelectedChosen ==
  ASSUME NEW def, Validated(def), NEW sel, Selectable(sel)
  PROVE  Chosen(def, sel, Selected(def, sel))
<1>1. Selected(def, sel) \in Configurations(def)
  BY SelectedType
<1>2. ASSUME NEW key \in DOMAIN Selected(def, sel)
      PROVE  /\ LineOf(def, key).kind # "SETUP"
             /\ Selected(def, sel)[key] = RawQuantity(LineOf(def, key), sel)
  <2>1. PICK m \in Lines(def) : m.key = key /\ m.kind \in {"REQUIRED", "OPTIONAL"}
    BY <1>2 DEF Selected
  <2>2. LineOf(def, key) = m
    BY <2>1, LineAlone
  <2>3. Selected(def, sel)[key] = RawQuantity(LineOf(def, key), sel)
    BY <1>2 DEF Selected
  <2> QED
    BY <2>1, <2>2, <2>3
<1> QED
  BY <1>1, <1>2 DEF Chosen

Passes == {"REQUIRED_IF_ANY", "AUTO_INCLUDE"}

(* A rule keeps the chosen lines and adds chosen ones.                     *)
LEMMA RuleChosen ==
  ASSUME NEW def, Validated(def), Consistent(def), NEW sel, Selectable(sel), NEW c, Chosen(def, sel, c),
         NEW type \in Passes, NEW r \in ToSet(def.rules)
  PROVE  /\ Chosen(def, sel, ApplyRule(type, def, sel, c, r))
         /\ DOMAIN c \subseteq DOMAIN ApplyRule(type, def, sel, c, r)
<1>1. CASE ~(r.type = type /\ r.line \in Keys(def) /\ Triggered(def, c, r))
  BY <1>1 DEF ApplyRule
<1>2. CASE r.type = type /\ r.line \in Keys(def) /\ Triggered(def, c, r)
  <2> DEFINE d == Include(def, sel, c, r.line)
  <2>1. LineOf(def, r.line).kind # "SETUP"
    <3>1. CASE r.type = "REQUIRED_IF_ANY"
      BY <1>2, <3>1 DEF Consistent
    <3>2. CASE r.type = "AUTO_INCLUDE"
      BY <1>2, <3>2 DEF Triggered
    <3> QED
      BY <1>2, <3>1, <3>2 DEF Passes
  <2>2. c \in Configurations(def)
    BY DEF Chosen
  <2>3. /\ d \in Configurations(def) /\ DOMAIN d = DOMAIN c \cup {r.line}
        /\ \A k \in DOMAIN c : d[k] = c[k]
        /\ r.line \notin DOMAIN c => d[r.line] = RawQuantity(LineOf(def, r.line), sel)
    BY <1>2, <2>2, IncludeType
  <2>4. ApplyRule(type, def, sel, c, r) = d
    BY <1>2 DEF ApplyRule
  <2> HIDE DEF d
  <2> QED
    BY <2>1, <2>3, <2>4 DEF Chosen
<1> QED
  BY <1>1, <1>2

(* Each pass only adds lines, in the quantity of the selection.            *)
LEMMA PassChosen ==
  ASSUME NEW def, Validated(def), Consistent(def), NEW sel, Selectable(sel), NEW base,
         Chosen(def, sel, base), NEW type \in Passes,
         NEW n \in Nat, DOMAIN def.rules = 1..n, NEW it, RuleSteps(it, n, type, def, sel, base)
  PROVE  /\ \A k \in 0..n : Chosen(def, sel, it[k]) /\ DOMAIN it[k] \subseteq DOMAIN it[n]
         /\ DOMAIN base \subseteq DOMAIN it[n]
         /\ it[n] = RulePass(type, def, sel, base)
<1>1. /\ it[0] = base /\ it[n] = RulePass(type, def, sel, base)
      /\ \A k \in 1..n : it[k] = ApplyRule(type, def, sel, it[k - 1], def.rules[k])
  BY DEF RuleSteps
<1>2. \A k \in 1..n : def.rules[k] \in ToSet(def.rules)
  BY LinesAre DEF Elements
<1> DEFINE T == {k \in 0..n : Chosen(def, sel, it[k])}
<1>3. \A k \in 0..n : Chosen(def, sel, it[k])
  <2>1. 0 \in T
    BY <1>1
  <2>2. \A k \in 1..n : k - 1 \in T => k \in T
    <3> SUFFICES ASSUME NEW k \in 1..n, k - 1 \in T
                 PROVE  k \in T
      OBVIOUS
    <3>1. Chosen(def, sel, it[k - 1]) /\ k \in 0..n
      OBVIOUS
    <3>2. Chosen(def, sel, ApplyRule(type, def, sel, it[k - 1], def.rules[k]))
      BY <1>2, <3>1, RuleChosen
    <3> QED
      BY <1>1, <3>1, <3>2
  <2>3. 0..n \subseteq T
    <3> HIDE DEF T
    <3> QED
      BY ONLY n \in Nat, <2>1, <2>2, UpTo
  <2> QED
    BY <2>3
<1>4. ASSUME NEW k \in 1..n
      PROVE  DOMAIN it[k - 1] \subseteq DOMAIN it[k]
  <2>1. Chosen(def, sel, it[k - 1])
    BY <1>3
  <2> QED
    BY <1>1, <1>2, <2>1, RuleChosen
<1> DEFINE U == {k \in 0..n : DOMAIN it[n - k] \subseteq DOMAIN it[n]}
<1>5. \A k \in 0..n : DOMAIN it[k] \subseteq DOMAIN it[n]
  <2>1. 0 \in U
    BY n - 0 = n
  <2>2. \A k \in 1..n : k - 1 \in U => k \in U
    <3> SUFFICES ASSUME NEW k \in 1..n, k - 1 \in U
                 PROVE  k \in U
      OBVIOUS
    <3>1. DOMAIN it[n - (k - 1)] \subseteq DOMAIN it[n] /\ k \in 0..n
      OBVIOUS
    <3>2. n - (k - 1) \in 1..n /\ (n - (k - 1)) - 1 = n - k
      OBVIOUS
    <3>3. DOMAIN it[n - k] \subseteq DOMAIN it[n - (k - 1)]
      BY <1>4, <3>2
    <3> QED
      BY <3>1, <3>3
  <2>3. 0..n \subseteq U
    <3> HIDE DEF U
    <3> QED
      BY ONLY n \in Nat, <2>1, <2>2, UpTo
  <2>4. ASSUME NEW k \in 0..n
        PROVE  DOMAIN it[k] \subseteq DOMAIN it[n]
    <3>1. n - k \in 0..n /\ n - (n - k) = k
      OBVIOUS
    <3>2. n - k \in U
      BY <2>3, <3>1
    <3> QED
      BY <3>1, <3>2
  <2> QED
    BY <2>4
<1>6. 0 \in 0..n
  OBVIOUS
<1> QED
  BY <1>1, <1>3, <1>5, <1>6

(* A selection that gives each line of the result the same quantity goes   *)
(* through the same steps.                                                 *)
LEMMA PassReplayed ==
  ASSUME NEW def, Validated(def), Consistent(def), NEW sel, Selectable(sel), NEW base,
         Chosen(def, sel, base), NEW type \in Passes, NEW other, Selectable(other),
         \A key \in DOMAIN RulePass(type, def, sel, base) :
           RawQuantity(LineOf(def, key), other) = RawQuantity(LineOf(def, key), sel)
  PROVE  /\ RulePass(type, def, other, base) = RulePass(type, def, sel, base)
         /\ Chosen(def, sel, RulePass(type, def, sel, base))
         /\ DOMAIN base \subseteq DOMAIN RulePass(type, def, sel, base)
<1>1. PICK n \in Nat : DOMAIN def.rules = 1..n
  BY LinesAre
<1>2. base \in Configurations(def)
  BY DEF Chosen
<1>3. PICK it : RuleSteps(it, n, type, def, sel, base)
  BY <1>1, <1>2, RulePassSteps
<1>4. PICK jt : RuleSteps(jt, n, type, def, other, base)
  BY <1>1, <1>2, RulePassSteps
<1>5. /\ \A k \in 0..n : Chosen(def, sel, it[k]) /\ DOMAIN it[k] \subseteq DOMAIN it[n]
      /\ DOMAIN base \subseteq DOMAIN it[n]
      /\ it[n] = RulePass(type, def, sel, base)
  BY <1>1, <1>3, PassChosen
<1>6. /\ it[0] = base /\ jt[0] = base /\ jt[n] = RulePass(type, def, other, base)
      /\ \A k \in 1..n : it[k] = ApplyRule(type, def, sel, it[k - 1], def.rules[k])
      /\ \A k \in 1..n : jt[k] = ApplyRule(type, def, other, jt[k - 1], def.rules[k])
      /\ \A k \in 0..n : it[k] \in Configurations(def)
  BY <1>3, <1>4 DEF RuleSteps
<1>7. ASSUME NEW k \in 1..n
      PROVE  ApplyRule(type, def, other, it[k - 1], def.rules[k]) = it[k]
  <2> DEFINE r == def.rules[k]
             c == it[k - 1]
  <2>1. it[k] = ApplyRule(type, def, sel, c, r) /\ c \in Configurations(def)
    BY <1>6
  <2>2. DOMAIN it[k] \subseteq DOMAIN it[n]
    BY <1>5
  <2> HIDE DEF r, c
  <2>3. CASE ~(r.type = type /\ r.line \in Keys(def) /\ Triggered(def, c, r))
    BY <2>1, <2>3 DEF ApplyRule, r, c
  <2>4. CASE r.type = type /\ r.line \in Keys(def) /\ Triggered(def, c, r)
    <3>1. it[k] = Include(def, sel, c, r.line)
      BY <2>1, <2>4 DEF ApplyRule
    <3>2. r.line \in DOMAIN it[k]
      <4>1. PICK key \in Keys(def) : key = r.line
        BY <2>4
      <4>2. /\ Include(def, sel, c, key) \in Configurations(def)
            /\ DOMAIN Include(def, sel, c, key) = DOMAIN c \cup {key}
            /\ \A i \in DOMAIN c : Include(def, sel, c, key)[i] = c[i]
            /\ key \notin DOMAIN c =>
                 Include(def, sel, c, key)[key] = RawQuantity(LineOf(def, key), sel)
        <5>1. c \in Configurations(def) /\ Validated(def) /\ Selectable(sel)
          BY <2>1
        <5> QED
          BY ONLY <5>1, key \in Keys(def), IncludeType
      <4> QED
        BY <3>1, <4>1, <4>2
    <3>3. RawQuantity(LineOf(def, r.line), other) = RawQuantity(LineOf(def, r.line), sel)
      BY <1>5, <2>2, <3>2
    <3>4. Include(def, other, c, r.line) = Include(def, sel, c, r.line)
      BY <3>3 DEF Include
    <3>5. ApplyRule(type, def, other, c, r) = Include(def, other, c, r.line)
      BY <2>4 DEF ApplyRule
    <3> QED
      BY <3>1, <3>4, <3>5 DEF r, c
  <2> QED
    BY <2>3, <2>4
<1> DEFINE T == {k \in 0..n : jt[k] = it[k]}
<1>8. 0 \in T
  BY <1>6
<1>9. \A k \in 1..n : k - 1 \in T => k \in T
  <2> SUFFICES ASSUME NEW k \in 1..n, k - 1 \in T
               PROVE  k \in T
    OBVIOUS
  <2>1. jt[k - 1] = it[k - 1] /\ k \in 0..n
    OBVIOUS
  <2> QED
    BY <1>6, <1>7, <2>1
<1>10. 0..n \subseteq T
  <2> HIDE DEF T
  <2> QED
    BY ONLY n \in Nat, <1>8, <1>9, UpTo
<1>11. n \in 0..n
  OBVIOUS
<1>12. jt[n] = it[n]
  BY <1>10, <1>11
<1> QED
  BY <1>5, <1>6, <1>11, <1>12

-----------------------------------------------------------------------------
(* The set-up lines come on top of the others.                             *)

KeptOver(def, base, c) ==
  /\ c \in Configurations(def)
  /\ \A key \in DOMAIN base : key \in DOMAIN c /\ c[key] = base[key]
  /\ \A key \in DOMAIN c \ DOMAIN base : LineOf(def, key).kind = "SETUP"

AddsLine(c, d, key) ==
  DOMAIN d = DOMAIN c \cup {key} /\ \A k \in DOMAIN c : k # key => d[k] = c[k]

(* To add a line, as one step.                                             *)
LEMMA LineAdded ==
  ASSUME NEW def, NEW c \in Configurations(def), NEW key \in Keys(def), NEW q \in Int,
         NEW d, d = WithLine(c, key, q)
  PROVE  d \in Configurations(def) /\ AddsLine(c, d, key)
<1>1. /\ WithLine(c, key, q) \in Configurations(def)
      /\ DOMAIN WithLine(c, key, q) = DOMAIN c \cup {key}
      /\ WithLine(c, key, q)[key] = q
      /\ \A k \in DOMAIN c : k # key => WithLine(c, key, q)[k] = c[k]
  BY ONLY q \in Int, c \in Configurations(def), key \in Keys(def), AddLine
<1> QED
  BY <1>1 DEF AddsLine

(* The pass of the set-up lines keeps every line and its quantity, and     *)
(* adds set-up lines only.                                                 *)
LEMMA SetUpOver ==
  ASSUME NEW def, Validated(def), NEW sel, NEW base, Chosen(def, sel, base)
  PROVE  KeptOver(def, base, SetUpPass(def, base))
<1>1. PICK n \in Nat : DOMAIN def.lines = 1..n /\ Lines(def) = Elements(def.lines)
  BY LinesAre
<1>2. base \in Configurations(def)
  BY DEF Chosen
<1>3. PICK it : SetUpSequence(it, n, def, base)
  BY <1>1, <1>2, SetUpSteps
<1>4. /\ it[0] = base /\ it[n] = SetUpPass(def, base)
      /\ \A k \in 1..n : it[k] = SetUp(it[k - 1], def.lines[k])
  BY <1>3 DEF SetUpSequence
<1>5. ASSUME NEW c, KeptOver(def, base, c), NEW l \in Lines(def)
      PROVE  KeptOver(def, base, SetUp(c, l))
  <2>1. CASE ~(l.kind = "SETUP" /\ l.linkedTo \in DOMAIN c)
    BY <1>5, <2>1 DEF SetUp
  <2>2. CASE l.kind = "SETUP" /\ l.linkedTo \in DOMAIN c
    <3> DEFINE d == WithLine(c, l.key, c[l.linkedTo])
    <3>1. SetUp(c, l) = d
      BY <2>2 DEF SetUp
    <3>2. l.key \in Keys(def) /\ LineOf(def, l.key) = l
      BY LineAlone
    <3>3. c[l.linkedTo] \in Int /\ c \in Configurations(def)
      BY <1>5, <2>2, ConfigurationIs DEF KeptOver
    <3>4. /\ d \in Configurations(def) /\ DOMAIN d = DOMAIN c \cup {l.key}
          /\ \A k \in DOMAIN c : k # l.key => d[k] = c[k]
      <4> HIDE DEF d
      <4>1. d = WithLine(c, l.key, c[l.linkedTo])
        BY DEF d
      <4>2. d \in Configurations(def) /\ AddsLine(c, d, l.key)
        BY <3>2, <3>3, <4>1, LineAdded
      <4> QED
        BY <4>2 DEF AddsLine
    <3> HIDE DEF d
    <3>5. l.key \notin DOMAIN base
      BY <2>2, <3>2 DEF Chosen
    <3> QED
      BY <1>5, <2>2, <3>1, <3>2, <3>4, <3>5 DEF KeptOver
  <2> QED
    BY <2>1, <2>2
<1> DEFINE T == {k \in 0..n : KeptOver(def, base, it[k])}
<1>6. 0 \in T
  BY <1>2, <1>4 DEF KeptOver
<1>7. \A k \in 1..n : k - 1 \in T => k \in T
  <2> SUFFICES ASSUME NEW k \in 1..n, k - 1 \in T
               PROVE  k \in T
    OBVIOUS
  <2>1. KeptOver(def, base, it[k - 1]) /\ k \in 0..n /\ def.lines[k] \in Lines(def)
    BY <1>1 DEF Elements
  <2> QED
    BY <1>4, <1>5, <2>1
<1>8. 0..n \subseteq T
  <2> HIDE DEF T
  <2> QED
    BY ONLY n \in Nat, <1>6, <1>7, UpTo
<1>9. n \in 0..n
  OBVIOUS
<1> QED
  BY <1>4, <1>8, <1>9

(* The configuration of a selection, entered as quantities, configures     *)
(* itself again.                                                           *)
LEMMA IncludedReplayed ==
  ASSUME NEW def, Validated(def), Consistent(def), NEW sel, Selectable(sel), NEW other,
         Selectable(other), other.options = sel.options, other.quantities = Included(def, sel)
  PROVE  /\ Included(def, other) = Included(def, sel)
         /\ \A key \in DOMAIN Included(def, sel) :
              LineOf(def, key).kind # "SETUP" =>
                Included(def, sel)[key] = RawQuantity(LineOf(def, key), sel)
<1> DEFINE A0 == Selected(def, sel)
           A1 == RulePass("REQUIRED_IF_ANY", def, sel, A0)
           A2 == RulePass("AUTO_INCLUDE", def, sel, A1)
           I == Included(def, sel)
<1>1. I = SetUpPass(def, A2)
  BY IncludedIs
<1>2. Chosen(def, sel, A0)
  BY SelectedChosen
<1>p. "REQUIRED_IF_ANY" \in Passes /\ "AUTO_INCLUDE" \in Passes
  BY DEF Passes
<1>o. other.quantities = I
  OBVIOUS
<1> HIDE DEF A0, I
<1>3. Chosen(def, sel, A1) /\ DOMAIN A0 \subseteq DOMAIN A1
  <2> HIDE DEF A1
  <2>1. \A key \in DOMAIN A1 :
           RawQuantity(LineOf(def, key), sel) = RawQuantity(LineOf(def, key), sel)
    OBVIOUS
  <2> USE DEF A1
  <2> QED
    BY <1>2, <1>p, <2>1, PassReplayed
<1>a. A1 = RulePass("REQUIRED_IF_ANY", def, sel, A0)
  OBVIOUS
<1> HIDE DEF A1
<1>4. Chosen(def, sel, A2) /\ DOMAIN A1 \subseteq DOMAIN A2
  BY <1>3, <1>p, PassReplayed
<1>b. A2 = RulePass("AUTO_INCLUDE", def, sel, A1)
  OBVIOUS
<1> HIDE DEF A2
<1>5. KeptOver(def, A2, I)
  BY <1>1, <1>4, SetUpOver
<1>6. ASSUME NEW key \in DOMAIN A2
      PROVE  RawQuantity(LineOf(def, key), other) = RawQuantity(LineOf(def, key), sel)
  <2>1. key \in Keys(def)
    BY <1>4, ConfigurationIs DEF Chosen
  <2>2. LineOf(def, key).key = key
    BY <2>1, LineOfKey
  <2>3. key \in DOMAIN I /\ I[key] = A2[key] /\ A2[key] = RawQuantity(LineOf(def, key), sel)
    BY <1>4, <1>5 DEF KeptOver, Chosen
  <2>4. RawQuantity(LineOf(def, key), other) = I[key]
    <3>1. PICK l : l = LineOf(def, key)
      OBVIOUS
    <3>2. l.key \in DOMAIN other.quantities
      BY <1>o, <2>2, <2>3, <3>1
    <3>3. RawQuantity(l, other) = other.quantities[l.key]
      BY <3>2 DEF RawQuantity
    <3> QED
      BY <1>o, <2>2, <3>1, <3>3
  <2> QED
    BY <2>3, <2>4
<1>7. Selected(def, other) = A0
  <2> DEFINE D == {l.key : l \in {m \in Lines(def) :
                             m.kind = "REQUIRED" \/ (m.kind = "OPTIONAL" /\ m.key \in sel.options)}}
  <2>1. Selected(def, other) = [key \in D |-> RawQuantity(LineOf(def, key), other)]
    BY DEF Selected
  <2>2. A0 = [key \in D |-> RawQuantity(LineOf(def, key), sel)]
    BY DEF Selected, A0
  <2> HIDE DEF D
  <2>3. DOMAIN A0 = D
    BY <2>2
  <2>4. \A key \in D : RawQuantity(LineOf(def, key), other) = RawQuantity(LineOf(def, key), sel)
    BY <1>3, <1>4, <1>6, <2>3
  <2> QED
    BY <2>1, <2>2, <2>4
<1>8. RulePass("REQUIRED_IF_ANY", def, other, A0) = A1
  <2>1. \A key \in DOMAIN RulePass("REQUIRED_IF_ANY", def, sel, A0) :
          RawQuantity(LineOf(def, key), other) = RawQuantity(LineOf(def, key), sel)
    BY <1>a, <1>4, <1>6
  <2> QED
    BY <1>2, <1>a, <1>p, <2>1, PassReplayed
<1>9. RulePass("AUTO_INCLUDE", def, other, A1) = A2
  <2>1. \A key \in DOMAIN RulePass("AUTO_INCLUDE", def, sel, A1) :
          RawQuantity(LineOf(def, key), other) = RawQuantity(LineOf(def, key), sel)
    BY <1>b, <1>6
  <2> QED
    BY <1>3, <1>b, <1>p, <2>1, PassReplayed
<1>10. Included(def, other) = SetUpPass(def, A2)
  BY <1>7, <1>8, <1>9, IncludedIs
<1>11. \A key \in DOMAIN I : LineOf(def, key).kind # "SETUP" => I[key] = RawQuantity(LineOf(def, key), sel)
  BY <1>4, <1>5 DEF KeptOver, Chosen
<1> QED
  BY <1>1, <1>10, <1>11 DEF I

(* The frozen choices are the resolved ones, whatever the context was.     *)
LEMMA ChoicesReplayed ==
  ASSUME NEW def, NEW sel, NEW other, other.headcount = Unresolved,
         other.choices = ResolvedChoices(def, sel)
  PROVE  ResolvedChoices(def, other) = ResolvedChoices(def, sel)
<1> DEFINE C == ResolvedChoices(def, sel)
<1>1. DOMAIN def.choices \subseteq DOMAIN C
  BY ResolvedDomain
<1>2. \E D : C = [key \in D |-> C[key]]
  BY DEF ResolvedChoices
<1>o. other.choices = C
  OBVIOUS
<1> HIDE DEF C
<1>3. \A r : Hits(r, other) = {}
  BY DEF Hits
<1>4. Preselecting(def, other) = {}
  BY <1>3 DEF Preselecting
<1>5. DOMAIN Preselected(def, other) = DOMAIN def.choices
  BY <1>4 DEF Preselected
<1>6. ResolvedChoices(def, other) =
        [key \in DOMAIN C \cup DOMAIN def.choices |->
           IF key \in DOMAIN C THEN C[key] ELSE Preselected(def, other)[key]]
  BY <1>5, <1>o DEF ResolvedChoices
<1>7. ResolvedChoices(def, other) = [key \in DOMAIN C |-> C[key]]
  BY <1>1, <1>6
<1> QED
  BY <1>2, <1>7 DEF C

(* Every resolved choice is one of the table.                              *)
LEMMA ChoicesKnown ==
  ASSUME NEW def, Validated(def), Consistent(def), NEW sel, DOMAIN sel.choices \subseteq DOMAIN def.choices
  PROVE  DOMAIN ResolvedChoices(def, sel) \subseteq DOMAIN def.choices
<1>1. ASSUME NEW i \in Preselecting(def, sel)
      PROVE  def.rules[i].choice \in DOMAIN def.choices
  <2>1. i \in DOMAIN def.rules /\ def.rules[i].type = "PRESELECT_CHOICE"
    BY DEF Preselecting, RulesOf
  <2>2. def.rules[i] \in ToSet(def.rules)
    BY <2>1, LinesAre DEF Elements
  <2> QED
    BY <2>1, <2>2 DEF Consistent
<1>2. DOMAIN Preselected(def, sel) =
        DOMAIN def.choices \cup {def.rules[i].choice : i \in Preselecting(def, sel)}
  BY DEF Preselected
<1>3. DOMAIN Preselected(def, sel) \subseteq DOMAIN def.choices
  BY <1>1, <1>2
<1>4. DOMAIN ResolvedChoices(def, sel) = DOMAIN sel.choices \cup DOMAIN Preselected(def, sel)
  BY DEF ResolvedChoices
<1> QED
  BY <1>3, <1>4

(* A configuration is without error when each check finds nothing.         *)
LEMMA FineConfiguration ==
  ASSUME NEW def, NEW sel, NEW I, NEW C,
         BadChoices(def, C) = {}, InvalidQuantities(I) = {}, Unpriced(def, I, C) = {},
         BrokenRules(def, I) = {}, DOMAIN sel.choices \subseteq DOMAIN def.choices,
         \A key \in sel.options : key \in Keys(def) /\ LineOf(def, key).kind = "OPTIONAL",
         \A key \in DOMAIN I : ~OutOfBounds(def, sel, I, key),
         UnresolvedTags(def, sel, I) = {}, DOMAIN sel.quantities \subseteq Keys(def)
  PROVE  ConfigurationErrors(def, sel, I, C) = {}
<1> DEFINE kinds == [choice |-> BadChoices(def, C) # {},
                unknownChoice |-> ~(DOMAIN sel.choices \subseteq DOMAIN def.choices),
                option |-> \E key \in sel.options :
                             key \notin Keys(def) \/ LineOf(def, key).kind # "OPTIONAL",
                unknownLine |-> ~(DOMAIN sel.quantities \subseteq Keys(def)),
                tag |-> UnresolvedTags(def, sel, I) # {},
                quantity |-> InvalidQuantities(I) # {},
                bounds |-> \E key \in DOMAIN I \ InvalidQuantities(I) : OutOfBounds(def, sel, I, key),
                rule |-> BrokenRules(def, I) # {},
                price |-> Unpriced(def, I, C) # {}]
<1>1. ConfigurationErrors(def, sel, I, C) = {k \in DOMAIN kinds : kinds[k]}
  BY DEF ConfigurationErrors
<1>2. /\ ~kinds.choice /\ ~kinds.unknownChoice /\ ~kinds.option /\ ~kinds.unknownLine /\ ~kinds.tag
      /\ ~kinds.quantity /\ ~kinds.bounds /\ ~kinds.rule /\ ~kinds.price
  OBVIOUS
<1>3. DOMAIN kinds = {"choice", "unknownChoice", "option", "unknownLine", "tag", "quantity", "bounds",
                      "rule", "price"}
  OBVIOUS
<1> HIDE DEF kinds
<1>4. \A k \in DOMAIN kinds : ~kinds[k]
  BY <1>2, <1>3
<1> QED
  BY <1>1, <1>4

(* The frozen selection is configured without an error.                    *)
LEMMA NoErrorReplayed ==
  ASSUME NEW def, Validated(def), Consistent(def), NEW sel, Selectable(sel), NEW I, NEW C,
         I = Included(def, sel), C = ResolvedChoices(def, sel),
         ConfigurationErrors(def, sel, I, C) = {}, NEW other, other.choices = C,
         other.quantities = I, other.options = sel.options, Selectable(other)
  PROVE  ConfigurationErrors(def, other, I, C) = {}
<1>1. /\ BadChoices(def, C) = {} /\ InvalidQuantities(I) = {} /\ Unpriced(def, I, C) = {}
      /\ BrokenRules(def, I) = {} /\ DOMAIN sel.choices \subseteq DOMAIN def.choices
      /\ \A key \in sel.options : key \in Keys(def) /\ LineOf(def, key).kind = "OPTIONAL"
      /\ \A key \in DOMAIN I : ~OutOfBounds(def, sel, I, key)
      /\ UnresolvedTags(def, sel, I) = {} /\ DOMAIN sel.quantities \subseteq Keys(def)
  BY ConfigurationFine
<1>2. DOMAIN other.choices \subseteq DOMAIN def.choices
  BY <1>1, ChoicesKnown
<1>3. DOMAIN I \subseteq Keys(def)
  <2>1. I \in Configurations(def)
    BY IncludedType
  <2> QED
    BY <2>1, ConfigurationIs
<1>4. UnresolvedTags(def, other, I) = {}
  BY DEF UnresolvedTags
<1>5. \A key \in DOMAIN I :
        LineOf(def, key).kind # "SETUP" => I[key] = RawQuantity(LineOf(def, key), sel)
  BY IncludedReplayed
<1>6. ASSUME NEW key \in DOMAIN I
      PROVE  ~OutOfBounds(def, other, I, key)
  <2> DEFINE l == LineOf(def, key)
  <2>1. ~OutOfBounds(def, sel, I, key) /\ l.key = key
    BY <1>1, <1>3, LineOfKey
  <2>2. l.kind # "SETUP" => I[key] = RawQuantity(l, sel)
    BY <1>5
  <2> HIDE DEF l
  <2>3. ASSUME ~l.editable, l.kind # "SETUP", l.default # Headcount
        PROVE  I[key] = l.default
    <3>1. CASE key \in DOMAIN sel.quantities
      BY <2>1, <2>3, <3>1 DEF OutOfBounds, l
    <3>2. CASE key \notin DOMAIN sel.quantities
      BY <2>1, <2>2, <2>3, <3>2 DEF RawQuantity
    <3> QED
      BY <3>1, <3>2
  <2> QED
    BY <2>1, <2>3 DEF OutOfBounds, l
<1>7. other.options = sel.options /\ DOMAIN other.quantities \subseteq Keys(def)
  BY <1>3
<1> QED
  BY <1>1, <1>2, <1>4, <1>6, <1>7, FineConfiguration

-----------------------------------------------------------------------------
(* In whole cents, the prices depend on the rounding alone.                *)

(* A plain line in whole cents is sold alike at every scale from two       *)
(* decimals on.                                                            *)
LEMMA SameSold ==
  ASSUME NEW l, IsFlat(l), NEW using, using.unitPriceScale >= 2, NEW other,
         other.unitPriceScale >= 2
  PROVE  Sold(l, other) = Sold(l, using)
<1>1. PICK c \in Int : l.unitPrice = 10 * c
  BY DEF IsFlat
<1>2. l.quantity \in Nat
  BY DEF IsFlat
<1>3. Sold(l, using) = Priced(l, RecurrenceOf(l), 10 * c, 10 * c, c * l.quantity)
  BY <1>1, <1>2, SoldWhole
<1>4. Sold(l, other) = Priced(l, RecurrenceOf(l), 10 * c, 10 * c, c * l.quantity)
  BY <1>1, <1>2, SoldWhole
<1> QED
  BY <1>3, <1>4

(* A schedule of such lines is priced alike.                               *)
LEMMA SamePrices ==
  ASSUME NEW lines, NEW f, NEW S, IsPriced(lines, f, S), NEW using, using.unitPriceScale >= 2,
         NEW other, other.unitPriceScale >= 2,
         other.rounding = using.rounding
  PROVE  PriceSchedule(lines, QuoteEnv(other), 1) = PriceSchedule(lines, QuoteEnv(using), 1)
<1> DEFINE e == QuoteEnv(using)
           d == QuoteEnv(other)
<1>1. e.overrides = {} /\ e.settings = using /\ d.overrides = {} /\ d.settings = other
  BY EnvOfQuote
<1>2. Placed(lines, f, S) /\ Simple(f, S)
  BY DEF IsPriced
<1> HIDE DEF e, d
<1>3. ASSUME NEW i \in RegularOf(lines)
      PROVE  RegularLine(lines[i], d, 1) = RegularLine(lines[i], e, 1)
  <2>1. PICK s \in S : lines[i] = f[s]
    BY <1>2 DEF RegularOf, Placed
  <2>2. lines[i].kind # "DISCOUNT"
    BY DEF RegularOf
  <2>3. PICK l : l = lines[i]
    OBVIOUS
  <2>4. IsFlat(l) /\ l.revision = NoRevision
    BY <1>2, <2>1, <2>2, <2>3 DEF Simple, IsReduction
  <2>5. ~IsRevised(l, 1)
    BY <2>4 DEF IsRevised, NoRevision
  <2>6. RegularLine(l, e, 1) = [error |-> Ok, line |-> Sold(l, e.settings)]
    BY <1>1, <2>4, <2>5, FlatPrice
  <2>7. RegularLine(l, d, 1) = [error |-> Ok, line |-> Sold(l, d.settings)]
    BY <1>1, <2>4, <2>5, FlatPrice
  <2>8. Sold(l, d.settings) = Sold(l, e.settings)
    BY <1>1, <2>4, SameSold
  <2> QED
    BY <2>3, <2>6, <2>7, <2>8
<1>4. d.settings.rounding = e.settings.rounding
  BY <1>1
<1>5. /\ \A i \in DOMAIN lines : lines[i].key = lines[i].key /\ lines[i].kind = lines[i].kind
      /\ \A i \in RegularOf(lines) : RegularLine(lines[i], d, 1) = RegularLine(lines[i], e, 1)
      /\ \A i \in DiscountsOf(lines) : lines[i] = lines[i]
  BY <1>3
<1>6. PriceSchedule(lines, d, 1) = PriceSchedule(lines, e, 1)
  BY <1>4, <1>5, SamePricing
<1> QED
  BY <1>6 DEF d, e

(* The final schedule is the same, complement included.                    *)
LEMMA SameQuotePrices ==
  ASSUME NEW def, Validated(def), NEW I \in Configurations(def), InvalidQuantities(I) = {}, NEW C,
         NEW using, using.unitPriceScale >= 2, NEW other, other.unitPriceScale >= 2,
         other.rounding = using.rounding
  PROVE  /\ FinalList(def, I, C, other) = FinalList(def, I, C, using)
         /\ FinalPrices(def, I, C, other) = FinalPrices(def, I, C, using)
<1>1. IsPriced(BaseList(def, I, C), Entries(def, I, C, 0), BaseSources(def, I, C))
  BY BaseShape
<1>3. BasePrices(def, I, C, other) = BasePrices(def, I, C, using)
  BY <1>1, SamePrices DEF BasePrices
<1>4. Monthly(def, I, C, other) = Monthly(def, I, C, using)
  BY <1>3 DEF Monthly
<1>5. FinalList(def, I, C, other) = FinalList(def, I, C, using)
  BY <1>4, ComplementIs
<1> DEFINE lines == FinalList(def, I, C, using)
<1>6. IsPriced(lines, FinalEntries(def, I, C, using), FinalSources(def, I, C, using))
  BY FinalShape
<1>9. PriceSchedule(lines, QuoteEnv(other), 1) = PriceSchedule(lines, QuoteEnv(using), 1)
  <2> HIDE DEF lines
  <2> QED
    BY <1>6, SamePrices
<1>10. FinalPrices(def, I, C, other) = FinalPrices(def, I, C, using)
  BY <1>5, <1>9 DEF FinalPrices
<1> QED
  BY <1>5, <1>10

(* The VAT depends on the rounding only.                                   *)
LEMMA SameBucket ==
  ASSUME NEW lines, NEW using, NEW other, other.rounding = using.rounding
  PROVE  Bucket(lines, other) = Bucket(lines, using)
<1>1. Vat(lines, other) = Vat(lines, using)
  BY DEF Vat
<1> QED
  BY <1>1 DEF Bucket, Totals

-----------------------------------------------------------------------------
(* What a configuration without error is quoted.                           *)
LEMMA FineQuote ==
  ASSUME NEW def, NEW sel, NEW using, NEW I, I = Included(def, sel),
         NEW C, C = ResolvedChoices(def, sel), ConfigurationErrors(def, sel, I, C) = {},
         FinalPrices(def, I, C, using).error = Ok, NEW lines, lines = FinalPrices(def, I, C, using).lines
  PROVE  Quote(def, sel, using, 1) =
           Summed({}, CommitmentMonths(def, C), FinalList(def, I, C, using),
                  Bucket(OfPart(def, lines, "ONE_OFF"), using), Bucket(OfPart(def, lines, "MONTHLY"), using),
                  Bucket(OfPart(def, lines, "QUARTERLY"), using), Bucket(OfPart(def, lines, "YEARLY"), using))
<1> DEFINE months == CommitmentMonths(def, C)
           final == FinalList(def, I, C, using)
           prices == FinalPrices(def, I, C, using)
<1>1. Quote(def, sel, using, 1) = QuoteIncluded(def, I, C, {}, using, 1)
  BY DEF Quote, Configured
<1>2. QuoteIncluded(def, I, C, {}, using, 1) = QuoteSchedule(def, {}, months, final, using, 1)
  BY DEF QuoteIncluded, FinalList, BaseList
<1>3. QuoteSchedule(def, {}, months, final, using, 1) = QuoteResult(def, {}, months, final, prices, using)
  BY DEF QuoteSchedule, FinalPrices
<1> HIDE DEF months, final, prices
<1>4. QuoteResult(def, {}, months, final, prices, using) =
        Summed({}, months, final,
                  Bucket(OfPart(def, lines, "ONE_OFF"), using), Bucket(OfPart(def, lines, "MONTHLY"), using),
                  Bucket(OfPart(def, lines, "QUARTERLY"), using), Bucket(OfPart(def, lines, "YEARLY"), using))
  BY DEF QuoteResult, OfPart, prices
<1> QED
  BY <1>1, <1>2, <1>3, <1>4 DEF months, final

(* The frozen selection gives the same quote.                              *)
LEMMA QuoteReplayed ==
  ASSUME NEW def, Validated(def), Consistent(def), NEW sel, Selectable(sel),
         NEW using, using.unitPriceScale >= 2, NEW other, other.unitPriceScale >= 2,
         other.rounding = using.rounding, Quote(def, sel, using, 1).errors = {},
         NEW frozen, frozen.choices = ResolvedChoices(def, sel), frozen.quantities = Included(def, sel),
         frozen.options = sel.options, frozen.headcount = Unresolved
  PROVE  Quote(def, frozen, other, 1) = Quote(def, sel, using, 1)
<1> DEFINE I == Included(def, sel)
           C == ResolvedChoices(def, sel)
           lines == FinalPrices(def, I, C, using).lines
<1>1. ConfigurationErrors(def, sel, I, C) = {} /\ FinalPrices(def, I, C, using).error = Ok
  BY QuoteErrors
<1>2. I \in Configurations(def)
  BY IncludedType
<1>3. Selectable(frozen)
  <2>1. I \in [DOMAIN I -> Int]
    BY <1>2, ConfigurationIs
  <2> HIDE DEF I
  <2>2. frozen.quantities = I
    BY DEF I
  <2> QED
    BY <2>1, <2>2 DEF Selectable
<1>4. Included(def, frozen) = I
  BY <1>3, IncludedReplayed
<1>5. ResolvedChoices(def, frozen) = C
  BY ChoicesReplayed
<1>c. I = Included(def, sel) /\ C = ResolvedChoices(def, sel)
  OBVIOUS
<1> HIDE DEF I, C
<1>6. ConfigurationErrors(def, frozen, I, C) = {}
  BY <1>1, <1>3, <1>c, NoErrorReplayed
<1>7. InvalidQuantities(I) = {}
  BY <1>1, ConfigurationFine
<1>8. /\ FinalList(def, I, C, other) = FinalList(def, I, C, using)
      /\ FinalPrices(def, I, C, other) = FinalPrices(def, I, C, using)
  BY <1>2, <1>7, SameQuotePrices
<1> HIDE DEF lines
<1>9. Quote(def, sel, using, 1) =
           Summed({}, CommitmentMonths(def, C), FinalList(def, I, C, using),
                  Bucket(OfPart(def, lines, "ONE_OFF"), using), Bucket(OfPart(def, lines, "MONTHLY"), using),
                  Bucket(OfPart(def, lines, "QUARTERLY"), using), Bucket(OfPart(def, lines, "YEARLY"), using))
  BY <1>1, <1>c, FineQuote DEF lines
<1>10. Quote(def, frozen, other, 1) =
           Summed({}, CommitmentMonths(def, C), FinalList(def, I, C, other),
                  Bucket(OfPart(def, lines, "ONE_OFF"), other), Bucket(OfPart(def, lines, "MONTHLY"), other),
                  Bucket(OfPart(def, lines, "QUARTERLY"), other), Bucket(OfPart(def, lines, "YEARLY"), other))
  BY <1>1, <1>4, <1>5, <1>6, <1>8, FineQuote DEF lines
<1> QED
  BY <1>8, <1>9, <1>10, SameBucket

(* In every state of the invariant, the snapshot shows the frozen quote.   *)
LEMMA SnapshotIsReplayed == SInv => SnapshotReplays
<1> SUFFICES ASSUME SInv, sale.state = "accepted", sale.settings.rounding = DefaultSettings.rounding,
                    sale.settings.unitPriceScale >= 2
             PROVE  SnapshotQuote.errors = {} /\ SnapshotQuote = sale.quote
  BY DEF SnapshotReplays
<1>1. /\ sale.offer \in Offers /\ sale.selection = FrozenSelection(sale.offer)
      /\ sale.quote = QuoteOf(sale.offer, sale.settings) /\ sale.quote.errors = {}
  BY DEF SInv, SaleShaped
<1> DEFINE def == sale.offer.table
           sel == sale.offer.selection
           frozen == sale.selection
<1>2. Validated(def) /\ Consistent(def) /\ Selectable(sel)
  BY <1>1, OffersAssumption, TablesAssumption
<1>3. /\ frozen.choices = ResolvedChoices(def, sel) /\ frozen.quantities = Included(def, sel)
      /\ frozen.options = sel.options /\ frozen.headcount = Unresolved
  BY <1>1 DEF FrozenSelection
<1>4. sale.quote = Quote(def, sel, sale.settings, 1) /\ SnapshotQuote = Quote(def, frozen, DefaultSettings, 1)
  BY <1>1 DEF QuoteOf, SnapshotQuote
<1>5. DefaultSettings.unitPriceScale >= 2
  BY DEF DefaultSettings
<1> HIDE DEF def, sel, frozen
<1>6. Quote(def, frozen, DefaultSettings, 1) = Quote(def, sel, sale.settings, 1)
  BY <1>1, <1>2, <1>3, <1>4, <1>5, QuoteReplayed
<1> QED
  BY <1>1, <1>4, <1>6

(* The page of the signature, which configures the frozen selection again  *)
(* and without the context of the proposal, shows exactly the frozen price *)
(* (snapshotQuote), for every coherent table, every selection and every    *)
(* number of versions.                                                     *)
THEOREM PricingSnapshotReplays == Spec => []SnapshotReplays
<1>1. Spec => []SInv
  BY InitSigned, StepSigned, PTL DEF Spec
<1> QED
  BY <1>1, SnapshotIsReplayed, PTL

-----------------------------------------------------------------------------
(* The engine and the executable specification add up the same lines.      *)

(* Sums of the totals of lines.                                            *)

(* Finitely many lines with whole totals.                                  *)
Totalling(T) == IsFiniteSet(T) /\ \A p \in T : p.total \in Int

(* Their total is whole.                                                   *)
LEMMA TotalType ==
  ASSUME NEW T, Totalling(T)
  PROVE  SumOf(T) \in Int
<1> DEFINE g == [p \in T |-> p.total]
<1>1. \A p \in T : p.total \in Int /\ g[p] = p.total
  BY DEF Totalling
<1> HIDE DEF g
<1> QED
  BY <1>1, SumOfIs DEF Totalling

(* The total of two sets of lines with nothing in common.                  *)
LEMMA TotalUnion ==
  ASSUME NEW T, Totalling(T), NEW U, Totalling(U), T \cap U = {}
  PROVE  Totalling(T \cup U) /\ SumOf(T \cup U) = SumOf(T) + SumOf(U)
<1> DEFINE g == [p \in T \cup U |-> p.total]
<1>1. \A p \in T \cup U : p.total \in Int /\ g[p] = p.total /\ g[p] \in Int
  BY DEF Totalling
<1>2. IsFiniteSet(T) /\ IsFiniteSet(U) /\ IsFiniteSet(T \cup U)
  BY FS_Union DEF Totalling
<1> HIDE DEF g
<1>3. SumOf(T) = SumFunctionOnSet(g, T) /\ SumOf(U) = SumFunctionOnSet(g, U)
  BY <1>1, <1>2, SumOfIs
<1>4. SumOf(T \cup U) = SumFunctionOnSet(g, T \cup U)
  <2> DEFINE W == T \cup U
  <2>1. \A p \in W : p.total \in Int /\ g[p] = p.total
    BY <1>1
  <2>2. IsFiniteSet(W)
    BY <1>2
  <2> HIDE DEF W
  <2>3. SumOf(W) = SumFunctionOnSet(g, W)
    BY <2>1, <2>2, SumOfIs
  <2> QED
    BY <2>3 DEF W
<1>5. SumFunctionOnSet(g, T \cup U) = SumFunctionOnSet(g, T) + SumFunctionOnSet(g, U)
  BY <1>1, <1>2, SumUnion
<1> QED
  BY <1>1, <1>2, <1>3, <1>4, <1>5 DEF Totalling

(* Lines of total zero may be left out.                                    *)
LEMMA TotalPart ==
  ASSUME NEW T, Totalling(T), NEW U \in SUBSET T, \A p \in T \ U : p.total = 0
  PROVE  Totalling(U) /\ SumOf(T) = SumOf(U)
<1> DEFINE g == [p \in T |-> p.total]
<1>1. \A p \in T : p.total \in Int /\ g[p] = p.total /\ g[p] \in Int
  BY DEF Totalling
<1>2. \A p \in T \ U : g[p] = 0
  OBVIOUS
<1>3. IsFiniteSet(T) /\ IsFiniteSet(U)
  BY FS_Subset DEF Totalling
<1> HIDE DEF g
<1>4. SumFunctionOnSet(g, T) = SumFunctionOnSet(g, U)
  BY <1>1, <1>2, <1>3, SumZeros
<1>5. SumOf(T) = SumFunctionOnSet(g, T)
  BY <1>1, <1>3, SumOfIs
<1>6. \A p \in U : p.total \in Int /\ g[p] = p.total
  BY <1>1
<1>7. SumOf(U) = SumFunctionOnSet(g, U)
  BY <1>3, <1>6, SumOfIs
<1> QED
  BY <1>3, <1>4, <1>5, <1>6, <1>7 DEF Totalling

(* The total by key, when no key is there twice.                           *)
LEMMA TotalKeyed ==
  ASSUME NEW T, Totalling(T), \A p, q \in T : p.key = q.key => p = q,
         NEW g, \A p \in T : g[p.key] = p.total
  PROVE  SumOf(T) = SumFunctionOnSet(g, {p.key : p \in T})
<1> DEFINE e == [p \in T |-> p.total]
           h == [p \in T |-> p.key]
<1>1. \A p \in T : e[p] \in Int /\ g[h[p]] = e[p] /\ p.total \in Int /\ e[p] = p.total
  BY DEF Totalling
<1>2. \A p, q \in T : h[p] = h[q] => p = q
  OBVIOUS
<1>3. {h[p] : p \in T} = {p.key : p \in T}
  OBVIOUS
<1>4. IsFiniteSet(T)
  BY DEF Totalling
<1> HIDE DEF e, h
<1>5. SumFunctionOnSet(g, {h[p] : p \in T}) = SumFunctionOnSet(e, T)
  BY <1>1, <1>2, <1>4, SumReindexed
<1>6. SumOf(T) = SumFunctionOnSet(e, T)
  BY <1>1, <1>4, SumOfIs
<1> QED
  BY <1>3, <1>5, <1>6

(* The total of one line.                                                  *)
LEMMA TotalOne ==
  ASSUME NEW p, p.total \in Int
  PROVE  Totalling({p}) /\ SumOf({p}) = p.total
<1> DEFINE g == [q \in {p} |-> q.total]
<1>1. g[p] = p.total /\ g[p] \in Int /\ \A q \in {p} : q.total \in Int /\ g[q] = q.total
  OBVIOUS
<1>2. IsFiniteSet({p})
  BY FS_Singleton
<1> HIDE DEF g
<1>3. SumFunctionOnSet(g, {p}) = g[p]
  BY <1>1, SumSingle
<1>4. SumOf({p}) = SumFunctionOnSet(g, {p})
  BY <1>1, <1>2, SumOfIs
<1> QED
  BY <1>1, <1>2, <1>3, <1>4 DEF Totalling

(* The total of nothing.                                                   *)
LEMMA TotalNone == Totalling({}) /\ SumOf({}) = 0
<1>1. IsFiniteSet({})
  BY FS_EmptySet
<1> DEFINE g == [p \in {} |-> 0]
<1>2. SumOf({}) = SumFunctionOnSet(g, {})
  BY <1>1, SumOfIs
<1> QED
  BY <1>1, <1>2, SumEmpty DEF Totalling

-----------------------------------------------------------------------------
(* What the engine is given for a line of the table.                       *)
IsOffered(e, l, quantity, cents, vat) ==
  /\ IsFlat(e) /\ e.kind # "DISCOUNT" /\ e.key = l.key /\ e.vat = vat
  /\ e.unitPrice = 10 * cents /\ e.quantity = quantity
  /\ RecurrenceOf(e) = Translated(l.recurrence)

(* The lines of the engine for one line of the table: in its quantity, or  *)
(* in none.                                                                *)
LEMMA EntriesOffered ==
  ASSUME NEW def, Validated(def), NEW I \in Configurations(def), InvalidQuantities(I) = {}, NEW C,
         NEW extra, NEW f, f = Entries(def, I, C, extra), NEW i \in DOMAIN def.lines
  PROVE  /\ UnitPriceCents(def.lines[i], C) \in Int /\ Quantity(I, def.lines[i].key) \in Nat
         /\ IsOffered(f[<<"kept", i>>], def.lines[i], Quantity(I, def.lines[i].key),
                      UnitPriceCents(def.lines[i], C), def.vat)
         /\ IsOffered(f[<<"shown", i>>], def.lines[i], 0, UnitPriceCents(def.lines[i], C), def.vat)
<1>1. def.lines[i] \in Lines(def)
  BY LinesAre DEF Elements
<1>2. def.lines[i].recurrence \in {"ONE_TIME", "MONTHLY", "QUARTERLY", "YEARLY", "INFO"}
  BY <1>1 DEF Validated
<1>3. UnitPriceCents(def.lines[i], C) \in Int
  BY <1>1, UnitPriceType
<1>4. Quantity(I, def.lines[i].key) \in Nat
  BY QuantityType
<1>5. f[<<"kept", i>>] = KeptLine(def, I, C, i) /\ f[<<"shown", i>>] = ShownLine(def, C, i)
  BY EntriesAre
<1>6. ASSUME NEW q \in Nat
      PROVE  IsOffered(ToEngineLine(def.lines[i], q, UnitPriceCents(def.lines[i], C), def.vat),
                       def.lines[i], q, UnitPriceCents(def.lines[i], C), def.vat)
  BY <1>2, <1>3, ToEngineLineIs DEF IsOffered
<1>7. IsOffered(f[<<"kept", i>>], def.lines[i], Quantity(I, def.lines[i].key),
                UnitPriceCents(def.lines[i], C), def.vat)
  BY <1>4, <1>5, <1>6 DEF KeptLine
<1>8. IsOffered(f[<<"shown", i>>], def.lines[i], 0, UnitPriceCents(def.lines[i], C), def.vat)
  BY <1>5, <1>6 DEF ShownLine
<1> QED
  BY <1>3, <1>4, <1>7, <1>8

(* The line that the engine prices for a line of the table that is kept.   *)
IsBought(p, def, I, C, i) ==
  /\ p.key = def.lines[i].key /\ p.vat = def.vat
  /\ p.recurrence = Translated(def.lines[i].recurrence)
  /\ p.key \in DOMAIN I /\ I[p.key] \in Nat /\ I[p.key] > 0
  /\ p.total = UnitPriceCents(def.lines[i], C) * I[p.key] /\ p.total \in Int

(* A line that is kept is sold for its price in cents times its quantity.  *)
LEMMA KeptIsBought ==
  ASSUME NEW def, Validated(def), NEW I \in Configurations(def), InvalidQuantities(I) = {}, NEW C,
         NEW extra, NEW f, f = Entries(def, I, C, extra), NEW using, using.unitPriceScale >= 2,
         NEW i \in Kept(def, I)
  PROVE  IsBought(Sold(f[<<"kept", i>>], using), def, I, C, i)
<1>1. i \in DOMAIN def.lines /\ Quantity(I, def.lines[i].key) # 0
  BY DEF Kept
<1>2. PICK e, l, q, c : /\ e = f[<<"kept", i>>] /\ l = def.lines[i]
                        /\ q = Quantity(I, def.lines[i].key) /\ c = UnitPriceCents(def.lines[i], C)
  OBVIOUS
<1>3. c \in Int /\ q \in Nat /\ IsOffered(e, l, q, c, def.vat)
  BY <1>1, <1>2, EntriesOffered
<1>4. /\ e.unitPrice = 10 * c /\ e.quantity = q /\ e.key = l.key /\ e.vat = def.vat
      /\ RecurrenceOf(e) = Translated(l.recurrence)
  BY <1>3 DEF IsOffered
<1>5. Sold(e, using) = Priced(e, RecurrenceOf(e), 10 * c, 10 * c, c * e.quantity)
  BY <1>3, <1>4, SoldWhole
<1>6. /\ Sold(e, using).key = l.key /\ Sold(e, using).vat = def.vat
      /\ Sold(e, using).recurrence = Translated(l.recurrence) /\ Sold(e, using).total = c * q
  BY <1>4, <1>5 DEF Priced
<1>7. l.key \in DOMAIN I /\ q = I[l.key] /\ q > 0
  BY <1>1, <1>2, <1>3 DEF Quantity
<1>8. c * q \in Int
  BY <1>3
<1> QED
  BY <1>2, <1>3, <1>6, <1>7, <1>8 DEF IsBought

(* A price that is only displayed adds nothing.                            *)
LEMMA ShownIsFree ==
  ASSUME NEW def, Validated(def), NEW I \in Configurations(def), InvalidQuantities(I) = {}, NEW C,
         NEW extra, NEW f, f = Entries(def, I, C, extra), NEW using, NEW i \in DOMAIN def.lines
  PROVE  /\ Sold(f[<<"shown", i>>], using).total = 0
         /\ Sold(f[<<"shown", i>>], using).recurrence = Translated(def.lines[i].recurrence)
<1>1. IsOffered(f[<<"shown", i>>], def.lines[i], 0, UnitPriceCents(def.lines[i], C), def.vat)
  BY EntriesOffered
<1> QED
  BY <1>1, SoldNothing, SoldType DEF IsOffered

(* The prices of the kept lines with one of the keys.                      *)
BoughtOf(def, I, f, using, keys) ==
  {Sold(f[<<"kept", i>>], using) : i \in {j \in Kept(def, I) : def.lines[j].key \in keys}}

(* The keys that the reference adds up.                                    *)
ChargedKeys(I, keys) == {key \in keys \intersect DOMAIN I : I[key] > 0}

(* The engine and the reference add up the same lines.                     *)
LEMMA BoughtSum ==
  ASSUME NEW def, Validated(def), NEW I \in Configurations(def), InvalidQuantities(I) = {}, NEW C,
         NEW extra, NEW f, f = Entries(def, I, C, extra), NEW using, using.unitPriceScale >= 2,
         NEW keys, \A key \in keys \cap Keys(def) : LineOf(def, key).kind # "INFO"
  PROVE  /\ Totalling(BoughtOf(def, I, f, using, keys))
         /\ SumOf(BoughtOf(def, I, f, using, keys)) = ReferenceSum(def, I, C, keys)
         /\ \A p \in BoughtOf(def, I, f, using, keys) : p.vat = def.vat
<1> DEFINE J == {j \in Kept(def, I) : def.lines[j].key \in keys}
           h == [i \in J |-> Sold(f[<<"kept", i>>], using)]
           T == BoughtOf(def, I, f, using, keys)
           K == ChargedKeys(I, keys)
           g == [key \in K |-> UnitPriceCents(LineOf(def, key), C) * I[key]]
<1>1. T = {h[i] : i \in J}
  BY DEF BoughtOf
<1>2. ASSUME NEW i \in J
      PROVE  IsBought(h[i], def, I, C, i) /\ i \in DOMAIN def.lines /\ def.lines[i] \in Lines(def)
  <2>1. i \in DOMAIN def.lines
    BY DEF Kept
  <2>2. def.lines[i] \in Lines(def)
    BY <2>1, LinesAre DEF Elements
  <2> QED
    BY <2>1, <2>2, KeptIsBought
<1>3. IsFiniteSet(J)
  <2>1. PICK n \in Nat : DOMAIN def.lines = 1..n
    BY LinesAre
  <2>2. IsFiniteSet(1..n)
    BY FS_Interval
  <2>3. J \in SUBSET (1..n)
    BY <2>1 DEF Kept
  <2> QED
    BY <2>2, <2>3, FS_Subset
<1>k. \A i \in J : def.lines[i].key \in keys
  OBVIOUS
<1>j. \A i \in DOMAIN def.lines :
        /\ def.lines[i].kind # "INFO" /\ Quantity(I, def.lines[i].key) # 0
        /\ def.lines[i].key \in keys
        => i \in J
  BY DEF Kept
<1> HIDE DEF h, J
<1>4. Totalling(T)
  <2>1. IsFiniteSet({h[i] : i \in J})
    BY <1>3, ImageFinite
  <2>2. \A p \in T : p.total \in Int
    BY <1>1, <1>2 DEF IsBought
  <2> QED
    BY <1>1, <2>1, <2>2 DEF Totalling
<1>5. ASSUME NEW p \in T, NEW q \in T, p.key = q.key
      PROVE  p = q
  <2>1. PICK i \in J, j \in J : p = h[i] /\ q = h[j]
    BY <1>1
  <2>2. def.lines[i].key = def.lines[j].key
    BY <1>2, <1>5, <2>1 DEF IsBought
  <2>3. i = j
    BY <1>2, <2>2 DEF Validated
  <2> QED
    BY <2>1, <2>3
<1>6. ASSUME NEW p \in T
      PROVE  g[p.key] = p.total /\ p.key \in K /\ p.vat = def.vat
  <2>1. PICK i \in J : p = h[i]
    BY <1>1
  <2>2. LineOf(def, def.lines[i].key) = def.lines[i]
    BY <1>2, LineAlone
  <2>3. IsBought(p, def, I, C, i)
    BY <1>2, <2>1
  <2>4. p.key \in K
    BY <1>k, <2>3 DEF IsBought, ChargedKeys
  <2>5. g[p.key] = UnitPriceCents(LineOf(def, p.key), C) * I[p.key]
    BY <2>4
  <2> QED
    BY <2>2, <2>3, <2>4, <2>5 DEF IsBought
<1>7. {p.key : p \in T} = K
  <2>1. ASSUME NEW key \in K
        PROVE  \E p \in T : p.key = key
    <3>1. key \in keys /\ key \in DOMAIN I /\ I[key] > 0
      BY DEF ChargedKeys
    <3>2. key \in Keys(def)
      BY <3>1, ConfigurationIs
    <3>3. LineOf(def, key) \in Lines(def) /\ LineOf(def, key).key = key /\ LineOf(def, key).kind # "INFO"
      BY <3>1, <3>2, LineOfKey
    <3>4. PICK i \in DOMAIN def.lines : def.lines[i] = LineOf(def, key)
      BY <3>3, LinesAre DEF Elements
    <3>5. Quantity(I, key) # 0
      <4>1. \A x : x > 0 => x # 0
        <5> SUFFICES ASSUME NEW x, x > 0, x = 0
                     PROVE  FALSE
          OBVIOUS
        <5> QED
          OBVIOUS
      <4> QED
        BY <3>1, <4>1 DEF Quantity
    <3>6. i \in J
      BY <1>j, <3>1, <3>3, <3>4, <3>5
    <3>7. h[i].key = key
      BY <1>2, <3>3, <3>4, <3>6 DEF IsBought
    <3> QED
      BY <1>1, <3>6, <3>7
  <2> HIDE DEF T, K, g
  <2>2. \A p \in T : p.key \in K
    BY <1>6
  <2> QED
    BY <2>1, <2>2
<1>8. ReferenceSum(def, I, C, keys) = SumFunctionOnSet(g, K)
  BY DEF ReferenceSum, SumFunction, ChargedKeys
<1> HIDE DEF T, g, K
<1>9. \A p \in T : g[p.key] = p.total
  BY <1>6
<1>10. \A p, q \in T : p.key = q.key => p = q
  BY <1>5
<1>11. SumOf(T) = SumFunctionOnSet(g, {p.key : p \in T})
  BY <1>4, <1>9, <1>10, TotalKeyed
<1> QED
  BY <1>4, <1>6, <1>7, <1>8, <1>11 DEF T

(* A percentage of whole cents, rounded by the engine and by the reference.*)
LEMMA NearestPercent ==
  ASSUME NEW x \in Nat
  PROVE  Nearest(10 * x, 10 * (1 * 100), HalfAway) = (2 * x + 100) \div 200
<1> DEFINE n == 10 * x
           q == n \div 1000
           r == n % 1000
           up == 2 * r > 1000 \/ (2 * r = 1000 /\ (HalfAway = HalfAway \/ q % 2 = 1))
<1>1. n \in Nat /\ ~(n < 0) /\ 10 * (1 * 100) = 1000
  OBVIOUS
<1>2. q \in Nat /\ r \in 0..999 /\ n = 1000 * q + r
  OBVIOUS
<1>3. Nearest(n, 1000, HalfAway) = IF up THEN q + 1 ELSE q
  BY <1>1 DEF Nearest
<1>4. up <=> 2 * r >= 1000
  BY <1>2
<1> HIDE DEF q, r, up
<1>5. 20 * x = 2000 * q + 2 * r
  BY <1>2
<1>6. (2 * x + 100) \div 200 = IF 2 * r >= 1000 THEN q + 1 ELSE q
  <2>1. CASE 2 * r >= 1000
    <3>1. 200 * (q + 1) <= 2 * x + 100 /\ 2 * x + 100 < 200 * (q + 1) + 200
      BY <1>2, <1>5, <2>1
    <3>2. (2 * x + 100) \div 200 = q + 1
      BY <1>2, <3>1
    <3> QED
      BY <2>1, <3>2
  <2>2. CASE ~(2 * r >= 1000)
    <3>1. 200 * q <= 2 * x + 100 /\ 2 * x + 100 < 200 * q + 200
      BY <1>2, <1>5, <2>2
    <3>2. (2 * x + 100) \div 200 = q
      BY <1>2, <3>1
    <3> QED
      BY <2>2, <3>2
  <2> QED
    BY <2>1, <2>2
<1> QED
  BY <1>1, <1>3, <1>4, <1>6

(* A validated table has finitely many keys.                               *)
LEMMA KeysFinite ==
  ASSUME NEW def, Validated(def)
  PROVE  IsFiniteSet(Keys(def)) /\ IsFiniteSet(DOMAIN def.lines) /\ IsFiniteSet(DOMAIN def.rules)
<1>1. PICK n \in Nat, m \in Nat : /\ DOMAIN def.lines = 1..n /\ DOMAIN def.rules = 1..m
                                  /\ Lines(def) = Elements(def.lines)
  BY LinesAre
<1>2. IsFiniteSet(1..n) /\ IsFiniteSet(1..m)
  BY FS_Interval
<1> DEFINE h == [i \in 1..n |-> def.lines[i].key]
<1>3. IsFiniteSet({h[i] : i \in 1..n})
  BY <1>2, ImageFinite
<1>4. Keys(def) = {h[i] : i \in 1..n}
  BY <1>1 DEF Keys, Elements
<1> QED
  BY <1>1, <1>2, <1>3, <1>4

(* A sum of the reference is a natural.                                    *)
LEMMA ReferenceSumNatural ==
  ASSUME NEW def, Validated(def), NEW I \in Configurations(def), NEW C, Unpriced(def, I, C) = {},
         NEW keys
  PROVE  ReferenceSum(def, I, C, keys) \in Nat
<1> DEFINE K == ChargedKeys(I, keys)
           g == [key \in K |-> UnitPriceCents(LineOf(def, key), C) * I[key]]
<1>1. I \in [DOMAIN I -> Int] /\ DOMAIN I \subseteq Keys(def)
  BY ConfigurationIs
<1>2. IsFiniteSet(K)
  <2>1. K \in SUBSET Keys(def)
    BY <1>1 DEF ChargedKeys
  <2> QED
    BY <2>1, KeysFinite, FS_Subset
<1>3. ASSUME NEW key \in K
      PROVE  g[key] \in Nat
  <2>1. key \in DOMAIN I /\ I[key] \in Int /\ I[key] > 0 /\ key \in Keys(def)
    BY <1>1 DEF ChargedKeys
  <2>2. LineOf(def, key) \in Lines(def) /\ LineOf(def, key).key = key
    BY <2>1, LineOfKey
  <2>3. Quantity(I, key) > 0
    BY <2>1 DEF Quantity
  <2>4. UnitPriceCents(LineOf(def, key), C) # NoPrice
    BY <2>2, <2>3 DEF Unpriced
  <2>5. PICK c \in Nat, q \in Nat : c = UnitPriceCents(LineOf(def, key), C) /\ q = I[key]
    BY <2>1, <2>2, <2>4, UnitPriceType
  <2>6. c * q \in Nat
    OBVIOUS
  <2> QED
    BY <2>5, <2>6
<1>4. ReferenceSum(def, I, C, keys) = SumFunctionOnSet(g, K)
  BY DEF ReferenceSum, SumFunction, ChargedKeys
<1> HIDE DEF K, g
<1>5. SumFunctionOnSet(g, K) \in Nat
  BY <1>2, <1>3, SumNatural
<1> QED
  BY <1>4, <1>5

-----------------------------------------------------------------------------
(* What the engine is given, with or without the complement.               *)

(* The sources S are those of a quote without errors, with or without the  *)
(* complement.                                                             *)
Deal(def, I, C, f, S, using) ==
  /\ Validated(def) /\ Consistent(def)
  /\ I \in Configurations(def) /\ InvalidQuantities(I) = {} /\ Unpriced(def, I, C) = {}
  /\ \E extra : f = Entries(def, I, C, extra)
  /\ using.unitPriceScale >= 2
  /\ BaseSources(def, I, C) \subseteq S /\ S \subseteq BaseSources(def, I, C) \union {Floor}
  /\ Simple(f, S) /\ IsFiniteSet(S) /\ f[Floor].kind # "DISCOUNT"

(* No key is there twice.                                                  *)
DistinctKeys(f, S) == \A s, t \in S : f[s].key = f[t].key => s = t

(* A discount is on monthly lines that are kept.                           *)
LEMMA DiscountOnKept ==
  ASSUME NEW def, NEW I, NEW C, NEW f, NEW S, NEW using, Deal(def, I, C, f, S, using),
         NEW i \in Granted(def, I)
  PROVE  /\ i \in DOMAIN def.rules /\ def.rules[i].type = "DISCOUNT_PERCENT"
         /\ def.rules[i].percent \in 1..100
         /\ DiscountTaken(def.rules[i], I) # {}
         /\ \A key \in def.rules[i].appliesTo \cap Keys(def) : LineOf(def, key).recurrence = "MONTHLY"
         /\ \A key \in DiscountTaken(def.rules[i], I) :
              \E j \in Kept(def, I) : def.lines[j].key = key
<1>1. i \in DOMAIN def.rules /\ def.rules[i].type = "DISCOUNT_PERCENT" /\ DiscountTaken(def.rules[i], I) # {}
  BY DEF Granted, Grants
<1>2. Validated(def) /\ Consistent(def) /\ I \in Configurations(def)
  BY DEF Deal
<1>3. def.rules[i] \in ToSet(def.rules)
  BY <1>1, <1>2, LinesAre DEF Elements
<1>4. def.rules[i].percent \in 1..100
  <2>1. RuleValidated(def.rules[i])
    BY <1>2, <1>3 DEF Validated
  <2> QED
    BY <1>1, <2>1 DEF RuleValidated
<1>5. \A key \in def.rules[i].appliesTo \cap Keys(def) : LineOf(def, key).recurrence = "MONTHLY"
  BY <1>1, <1>2, <1>3 DEF Consistent
<1>6. ASSUME NEW key \in DiscountTaken(def.rules[i], I)
      PROVE  \E j \in Kept(def, I) : def.lines[j].key = key
  <2>1. key \in def.rules[i].appliesTo /\ Quantity(I, key) > 0
    BY DEF DiscountTaken
  <2>2. key \in DOMAIN I /\ Quantity(I, key) # 0
    BY <2>1 DEF Quantity
  <2>3. key \in Keys(def)
    BY <1>2, <2>2, ConfigurationIs
  <2>4. LineOf(def, key) \in Lines(def) /\ LineOf(def, key).key = key
    BY <2>3, LineOfKey
  <2>5. LineOf(def, key).kind # "INFO"
    BY <1>2, <1>5, <2>1, <2>3, <2>4 DEF Consistent
  <2>6. PICK j \in DOMAIN def.lines : def.lines[j] = LineOf(def, key)
    BY <1>2, <2>4, LinesAre DEF Elements
  <2> QED
    BY <2>2, <2>4, <2>5, <2>6 DEF Kept
<1> QED
  BY <1>1, <1>4, <1>5, <1>6

(* The entries of such a schedule, by source.                              *)
LEMMA DealEntries ==
  ASSUME NEW def, NEW I, NEW C, NEW f, NEW S, NEW using, Deal(def, I, C, f, S, using)
  PROVE  /\ \A i \in Kept(def, I) : /\ IsBought(Sold(f[<<"kept", i>>], using), def, I, C, i)
                                    /\ IsEntry(f[<<"kept", i>>], def.lines[i].key)
                                    /\ <<"kept", i>> \in S
         /\ \A i \in Shown(def, C) : /\ Sold(f[<<"shown", i>>], using).total = 0
                                     /\ f[<<"shown", i>>].kind # "DISCOUNT"
         /\ \A i \in Granted(def, I) :
              f[<<"discount", i>>] = EngineDiscount(def, I, def.rules[i]) /\ <<"discount", i>> \in S
         /\ \A s \in S :
              \/ s = <<"kept", s[2]>> /\ s[2] \in Kept(def, I)
              \/ s = <<"shown", s[2]>> /\ s[2] \in Shown(def, C)
              \/ s = <<"discount", s[2]>> /\ s[2] \in Granted(def, I)
              \/ s = Floor
<1>1. /\ Validated(def) /\ I \in Configurations(def) /\ InvalidQuantities(I) = {}
      /\ using.unitPriceScale >= 2
      /\ BaseSources(def, I, C) \subseteq S /\ S \subseteq BaseSources(def, I, C) \union {Floor}
  BY DEF Deal
<1>2. PICK extra : f = Entries(def, I, C, extra)
  BY DEF Deal
<1>3. /\ \A i \in Kept(def, I) : i \in DOMAIN def.lines
      /\ \A i \in Shown(def, C) : i \in DOMAIN def.lines
  BY DEF Kept, Shown
<1>4. \A i \in Granted(def, I) : i \in DOMAIN def.rules
  BY DEF Granted
<1>5. \A i \in Kept(def, I) : IsBought(Sold(f[<<"kept", i>>], using), def, I, C, i)
  BY <1>1, <1>2, KeptIsBought
<1>6. \A i \in Kept(def, I) : IsEntry(f[<<"kept", i>>], def.lines[i].key)
  BY <1>1, <1>2, <1>3, EntriesTyped
<1>7. \A i \in Granted(def, I) : f[<<"discount", i>>] = EngineDiscount(def, I, def.rules[i])
  <2>1. /\ \A i \in DOMAIN def.lines : Entries(def, I, C, extra)[<<"kept", i>>] = KeptLine(def, I, C, i)
        /\ \A i \in DOMAIN def.lines : Entries(def, I, C, extra)[<<"shown", i>>] = ShownLine(def, C, i)
        /\ \A i \in DOMAIN def.rules :
             Entries(def, I, C, extra)[<<"discount", i>>] = EngineDiscount(def, I, def.rules[i])
        /\ Entries(def, I, C, extra)[Floor] = extra
    BY ONLY EntriesAre
  <2> QED
    BY <1>2, <1>4, <2>1
<1>8. /\ \A i \in Kept(def, I) : <<"kept", i>> \in S
      /\ \A i \in Granted(def, I) : <<"discount", i>> \in S
  BY <1>1 DEF BaseSources
<1>9. \A s \in S :
              \/ s = <<"kept", s[2]>> /\ s[2] \in Kept(def, I)
              \/ s = <<"shown", s[2]>> /\ s[2] \in Shown(def, C)
              \/ s = <<"discount", s[2]>> /\ s[2] \in Granted(def, I)
              \/ s = Floor
  BY <1>1 DEF BaseSources
<1>10. ASSUME NEW i \in Shown(def, C)
       PROVE  Sold(f[<<"shown", i>>], using).total = 0
  <2>1. i \in DOMAIN def.lines
    BY <1>3
  <2>2. /\ Sold(f[<<"shown", i>>], using).total = 0
        /\ Sold(f[<<"shown", i>>], using).recurrence = Translated(def.lines[i].recurrence)
    BY <1>1, <1>2, <2>1, ShownIsFree
  <2> QED
    BY <2>2
<1>11. \A i \in Shown(def, C) : f[<<"shown", i>>].kind # "DISCOUNT"
  <2>1. \A i \in DOMAIN def.lines : IsEntry(f[<<"shown", i>>], def.lines[i].key)
    BY <1>1, <1>2, EntriesTyped
  <2> QED
    BY <1>3, <2>1 DEF IsEntry
<1> QED
  BY <1>5, <1>6, <1>7, <1>8, <1>9, <1>10, <1>11

(* A discount is taken on the kept lines that it is on, and on nothing     *)
(* else.                                                                   *)
LEMMA TargetsAre ==
  ASSUME NEW def, NEW I, NEW C, NEW f, NEW S, NEW using, Deal(def, I, C, f, S, using),
         DistinctKeys(f, S), NEW i \in Granted(def, I), NEW l, l = f[<<"discount", i>>]
  PROVE  /\ DiscountTargets(l, SoldOf(f, S, using)) = BoughtOf(def, I, f, using, def.rules[i].appliesTo)
         /\ l.discount.lines \subseteq {p.key : p \in SoldOf(f, S, using)}
         /\ BoughtOf(def, I, f, using, def.rules[i].appliesTo) # {}
<1> DEFINE r == def.rules[i]
           taken == DiscountTaken(r, I)
           sold == SoldOf(f, S, using)
           bought == BoughtOf(def, I, f, using, r.appliesTo)
<1>1. /\ r.percent \in 1..100 /\ taken # {}
      /\ \A key \in taken : \E j \in Kept(def, I) : def.lines[j].key = key
  BY DiscountOnKept
<1>2. /\ \A j \in Kept(def, I) : /\ IsBought(Sold(f[<<"kept", j>>], using), def, I, C, j)
                                 /\ IsEntry(f[<<"kept", j>>], def.lines[j].key)
                                 /\ <<"kept", j>> \in S
      /\ l = EngineDiscount(def, I, r)
  BY DealEntries
<1>3. l.discount.lines = taken
  <2>1. r.percent \in Int
    BY <1>1
  <2> QED
    BY <1>2, <2>1, EngineDiscountIs
<1>4. \A key \in taken : key \in r.appliesTo
  BY DEF DiscountTaken
<1>5. ASSUME NEW j \in Kept(def, I)
      PROVE  Sold(f[<<"kept", j>>], using) \in sold
  <2>1. <<"kept", j>> \in S /\ f[<<"kept", j>>].kind # "DISCOUNT"
    BY <1>2 DEF IsEntry
  <2> QED
    BY <2>1 DEF SoldOf, Flats
<1>6. ASSUME NEW j \in Kept(def, I), def.lines[j].key \in r.appliesTo
      PROVE  def.lines[j].key \in taken
  <2>1. PICK p : IsBought(p, def, I, C, j)
    BY <1>2
  <2>2. Quantity(I, def.lines[j].key) > 0
    BY <2>1 DEF IsBought, Quantity
  <2> QED
    BY <1>6, <2>2 DEF DiscountTaken
<1>7. ASSUME NEW p \in sold, p.key \in taken
      PROVE  p \in bought
  <2>1. PICK s \in Flats(f, S) : p = Sold(f[s], using)
    BY DEF SoldOf
  <2>2. s \in S /\ IsFlat(f[s])
    BY <2>1 DEF Flats, Deal, Simple, IsReduction
  <2>3. p.key = f[s].key
    BY <2>1, <2>2, SoldType
  <2>4. PICK j \in Kept(def, I) : def.lines[j].key = p.key
    BY <1>1, <1>7
  <2>5. <<"kept", j>> \in S /\ f[<<"kept", j>>].key = p.key
    BY <1>2, <2>4 DEF IsEntry
  <2>6. s = <<"kept", j>>
    BY <2>2, <2>3, <2>5 DEF DistinctKeys
  <2>7. def.lines[j].key \in r.appliesTo
    BY <1>4, <1>7, <2>4
  <2> QED
    BY <2>1, <2>6, <2>7 DEF BoughtOf
<1>8. ASSUME NEW p \in bought
      PROVE  p \in sold /\ p.key \in taken
  <2>1. PICK j \in Kept(def, I) : def.lines[j].key \in r.appliesTo /\ p = Sold(f[<<"kept", j>>], using)
    BY DEF BoughtOf
  <2>2. p.key = def.lines[j].key
    BY <1>2, <2>1 DEF IsBought
  <2> QED
    BY <1>5, <1>6, <2>1, <2>2
<1>9. taken \subseteq {p.key : p \in sold} /\ bought # {}
  <2>1. ASSUME NEW key \in taken
        PROVE  \E p \in bought : p.key = key
    <3>1. PICK j \in Kept(def, I) : def.lines[j].key = key
      BY <1>1
    <3>2. Sold(f[<<"kept", j>>], using) \in bought /\ Sold(f[<<"kept", j>>], using).key = key
      BY <1>2, <1>4, <3>1 DEF BoughtOf, IsBought
    <3> QED
      BY <3>2
  <2> QED
    BY <1>1, <1>8, <2>1
<1> HIDE DEF taken, sold, bought
<1>10. DiscountTargets(l, sold) = {p \in sold : p.key \in taken}
  BY <1>1, <1>3 DEF DiscountTargets
<1>11. DiscountTargets(l, sold) = bought
  BY <1>7, <1>8, <1>10
<1> QED
  BY <1>3, <1>9, <1>11 DEF sold, bought

(* A discount depends on its targets only.                                 *)
LEMMA SameDiscount ==
  ASSUME NEW l, NEW sold, NEW others, NEW env,
         DiscountTargets(l, sold) = DiscountTargets(l, others),
         l.discount.lines \subseteq {p.key : p \in sold},
         l.discount.lines \subseteq {p.key : p \in others}
  PROVE  DiscountLine(l, sold, env) = DiscountLine(l, others, env)
<1>1. TargetError(l, sold) = TargetError(l, others)
  BY DEF TargetError
<1> QED
  BY <1>1 DEF DiscountLine

(* A discount that is granted is the one of the reference.                 *)
LEMMA DiscountIsReference ==
  ASSUME NEW def, NEW I, NEW C, NEW f, NEW S, NEW using, Deal(def, I, C, f, S, using),
         DistinctKeys(f, S), NEW i \in Granted(def, I), using.rounding = HalfAway,
         NEW env, env.settings = using, NEW l, l = f[<<"discount", i>>],
         DiscountLine(l, SoldOf(f, S, using), env).error = Ok
  PROVE  /\ DiscountLine(l, SoldOf(f, S, using), env).line.key = def.rules[i].key
         /\ DiscountLine(l, SoldOf(f, S, using), env).line.recurrence = "MONTHLY"
         /\ ReferenceDiscount(def, I, C, def.rules[i]) \in Int
         /\ DiscountLine(l, SoldOf(f, S, using), env).line.total =
              -ReferenceDiscount(def, I, C, def.rules[i])
<1> DEFINE r == def.rules[i]
           sold == SoldOf(f, S, using)
           bought == BoughtOf(def, I, f, using, r.appliesTo)
<1>1. /\ r.percent \in 1..100
      /\ \A key \in r.appliesTo \cap Keys(def) : LineOf(def, key).recurrence = "MONTHLY"
  BY DiscountOnKept
<1>2. /\ Validated(def) /\ Consistent(def) /\ I \in Configurations(def) /\ InvalidQuantities(I) = {}
      /\ Unpriced(def, I, C) = {} /\ using.unitPriceScale >= 2
  BY DEF Deal
<1>3. DiscountTargets(l, sold) = bought /\ bought # {}
  BY TargetsAre
<1>4. l = EngineDiscount(def, I, r)
  BY DealEntries
<1>5. l.discount.type = "PERCENT" /\ l.discount.value = r.percent /\ l.key = r.key
  <2>1. r.percent \in Int
    BY <1>1
  <2> QED
    BY <1>4, <2>1, EngineDiscountIs DEF IsReduction
<1>6. \A key \in r.appliesTo \cap Keys(def) : LineOf(def, key).kind # "INFO"
  <2> SUFFICES ASSUME NEW key \in r.appliesTo \cap Keys(def)
               PROVE  LineOf(def, key).kind # "INFO"
    OBVIOUS
  <2>1. LineOf(def, key) \in Lines(def) /\ LineOf(def, key).recurrence = "MONTHLY"
    BY <1>1, LineOfKey
  <2> QED
    BY <1>2, <2>1 DEF Consistent
<1>7. PICK base \in Nat : base = SumOf(bought) /\ base = ReferenceSum(def, I, C, r.appliesTo)
  <2>1. PICK extra : f = Entries(def, I, C, extra)
    BY DEF Deal
  <2>2. SumOf(bought) = ReferenceSum(def, I, C, r.appliesTo)
    BY <1>2, <1>6, <2>1, BoughtSum
  <2>3. ReferenceSum(def, I, C, r.appliesTo) \in Nat
    BY <1>2, ReferenceSumNatural
  <2> QED
    BY <2>2, <2>3
<1>8. ASSUME NEW p \in bought
      PROVE  p.recurrence = "MONTHLY"
  <2>1. PICK j \in Kept(def, I) : def.lines[j].key \in r.appliesTo /\ p = Sold(f[<<"kept", j>>], using)
    BY DEF BoughtOf
  <2>2. IsBought(p, def, I, C, j) /\ j \in DOMAIN def.lines
    BY <2>1, DealEntries DEF Kept
  <2>3. def.lines[j] \in Lines(def)
    BY <1>2, <2>2, LinesAre DEF Elements
  <2>4. def.lines[j].key \in Keys(def) /\ LineOf(def, def.lines[j].key) = def.lines[j]
    BY <1>2, <2>3, LineAlone
  <2>5. def.lines[j].recurrence = "MONTHLY"
    BY <1>1, <2>1, <2>4
  <2> QED
    BY <2>2, <2>5 DEF IsBought, Translated
<1> HIDE DEF r, sold, bought
<1>9. AnyOf(bought) \in bought
  BY <1>3 DEF AnyOf
<1> DEFINE d == DiscountLine(l, sold, env)
<1>10. /\ d.line.key = l.key
       /\ d.line.total = Taken(SumOf(DiscountTargets(l, sold)), l.discount.value, env.settings.rounding)
       /\ d.error = Ok => d.line.recurrence = AnyOf(DiscountTargets(l, sold)).recurrence
  BY <1>5, DiscountIs
<1>11. d.error = Ok
  BY DEF sold
<1> HIDE DEF d
<1>12. d.line.key = r.key /\ d.line.recurrence = "MONTHLY"
  BY <1>3, <1>5, <1>8, <1>9, <1>10, <1>11
<1>13. d.line.total = Taken(base, r.percent, HalfAway)
  BY <1>3, <1>5, <1>7, <1>10
<1>14. PICK percent \in Nat : percent = r.percent
  BY <1>1
<1>15. PICK x \in Nat : x = base * percent
  OBVIOUS
<1>16. Taken(base, percent, HalfAway) = -((2 * x + 100) \div 200)
  <2>1. 10 * base * percent = 10 * x
    BY <1>15
  <2>2. Nearest(10 * x, 10 * (1 * 100), HalfAway) = (2 * x + 100) \div 200
    BY NearestPercent
  <2> QED
    BY <2>1, <2>2 DEF Taken
<1>17. ReferenceDiscount(def, I, C, r) = (2 * x + 100) \div 200
  <2>1. 2 * base * percent = 2 * x
    BY <1>15
  <2> QED
    BY <1>7, <1>14, <2>1 DEF ReferenceDiscount
<1>18. (2 * x + 100) \div 200 \in Int
  OBVIOUS
<1> QED
  BY <1>12, <1>13, <1>14, <1>16, <1>17, <1>18 DEF r, d, sold

(* The sum of the opposites is the opposite of the sum.                    *)
LEMMA SumNegated ==
  ASSUME NEW S, IsFiniteSet(S), NEW f, NEW g, \A x \in S : f[x] \in Int /\ g[x] = -f[x]
  PROVE  SumFunctionOnSet(g, S) = -SumFunctionOnSet(f, S)
<1> DEFINE P == {s \in SUBSET S : SumFunctionOnSet(g, s) = -SumFunctionOnSet(f, s)}
<1>1. {} \in P
  BY SumEmpty
<1>2. ASSUME NEW s \in SUBSET S, s # {}, \A x \in s : s \ {x} \in P
      PROVE  s \in P
  <2>1. PICK y \in s : TRUE
    BY <1>2
  <2>2. SumFunctionOnSet(g, s \ {y}) = -SumFunctionOnSet(f, s \ {y}) /\ f[y] \in Int /\ g[y] = -f[y]
    BY <1>2, <2>1
  <2>3. IsFiniteSet(s) /\ (\A x \in s : f[x] \in Int) /\ \A x \in s : g[x] \in Int
    BY FS_Subset
  <2>4. SumFunctionOnSet(f, s) = f[y] + SumFunctionOnSet(f, s \ {y})
    BY <2>1, <2>3, SumApart
  <2>5. SumFunctionOnSet(g, s) = g[y] + SumFunctionOnSet(g, s \ {y})
    BY <2>1, <2>3, SumApart
  <2>6. SumFunctionOnSet(f, s \ {y}) \in Int
    <3>1. IsFiniteSet(s \ {y}) /\ \A x \in s \ {y} : f[x] \in Int
      BY <2>3, FS_Subset
    <3> QED
      BY <3>1, SumApart
  <2>7. SumFunctionOnSet(g, s) = -SumFunctionOnSet(f, s)
    BY <2>2, <2>4, <2>5, <2>6
  <2> QED
    BY <2>7
<1> HIDE DEF P
<1>3. SUBSET S \subseteq P
  BY <1>1, <1>2, RemoveInduct
<1>4. S \in P
  BY <1>3
<1> QED
  BY <1>4 DEF P

(* Where the entries of a schedule without the complement come from.       *)
LEMMA DealSources ==
  ASSUME NEW def, NEW I, NEW C, NEW f, NEW S, NEW using, Deal(def, I, C, f, S, using)
  PROVE  /\ \A s \in Reductions(f, S) : \E i \in Granted(def, I) : s = <<"discount", i>>
         /\ \A i \in Granted(def, I) : <<"discount", i>> \in Reductions(f, S)
         /\ \A i \in Kept(def, I) : <<"kept", i>> \in Flats(f, S)
<1>1. /\ \A i \in Kept(def, I) : IsEntry(f[<<"kept", i>>], def.lines[i].key) /\ <<"kept", i>> \in S
      /\ \A i \in Shown(def, C) : f[<<"shown", i>>].kind # "DISCOUNT"
      /\ \A i \in Granted(def, I) :
           f[<<"discount", i>>] = EngineDiscount(def, I, def.rules[i]) /\ <<"discount", i>> \in S
      /\ \A s \in S :
              \/ s = <<"kept", s[2]>> /\ s[2] \in Kept(def, I)
              \/ s = <<"shown", s[2]>> /\ s[2] \in Shown(def, C)
              \/ s = <<"discount", s[2]>> /\ s[2] \in Granted(def, I)
              \/ s = Floor
  BY DealEntries
<1>2. f[Floor].kind # "DISCOUNT"
  BY DEF Deal
<1>3. \A i : EngineDiscount(def, I, def.rules[i]).kind = "DISCOUNT"
  BY DEF EngineDiscount, ManualLine
<1> QED
  BY <1>1, <1>2, <1>3 DEF Reductions, Flats, IsEntry

Recurrences == {"MONTHLY", "QUARTERLY", "YEARLY", "ONE_TIME"}

(* The keys of the lines of one recurrence.                                *)
KeysOf(def, recurrence) == {l.key : l \in {m \in Lines(def) : m.recurrence = recurrence}}

(* A key belongs to the recurrence of its line.                            *)
LEMMA KeysOfAre ==
  ASSUME NEW def, Validated(def), NEW recurrence
  PROVE  /\ \A key \in KeysOf(def, recurrence) :
              key \in Keys(def) /\ LineOf(def, key).recurrence = recurrence
         /\ \A l \in Lines(def) : l.key \in KeysOf(def, recurrence) <=> l.recurrence = recurrence
<1>1. ASSUME NEW key \in KeysOf(def, recurrence)
      PROVE  key \in Keys(def) /\ LineOf(def, key).recurrence = recurrence
  <2>1. PICK l \in Lines(def) : l.recurrence = recurrence /\ key = l.key
    BY DEF KeysOf
  <2> QED
    BY <2>1, LineAlone
<1>2. ASSUME NEW l \in Lines(def)
      PROVE  l.key \in KeysOf(def, recurrence) <=> l.recurrence = recurrence
  <2>1. LineOf(def, l.key) = l
    BY LineAlone
  <2>2. l.recurrence = recurrence => l.key \in KeysOf(def, recurrence)
    BY DEF KeysOf
  <2> QED
    BY <1>1, <2>1, <2>2
<1> QED
  BY <1>1, <1>2

(* The lines of one recurrence, before the discounts.                      *)
LEMMA SoldSum ==
  ASSUME NEW def, NEW I, NEW C, NEW f, NEW using,
         Deal(def, I, C, f, BaseSources(def, I, C), using), NEW recurrence \in Recurrences,
         NEW T, T = {p \in SoldOf(f, BaseSources(def, I, C), using) : p.recurrence = Translated(recurrence)}
  PROVE  Totalling(T) /\ SumOf(T) = ReferenceSum(def, I, C, KeysOf(def, recurrence))
<1> DEFINE B == BaseSources(def, I, C)
           sold == SoldOf(f, B, using)
           keys == KeysOf(def, recurrence)
           U == BoughtOf(def, I, f, using, keys)
<1>1. /\ Validated(def) /\ Consistent(def) /\ I \in Configurations(def) /\ InvalidQuantities(I) = {}
      /\ using.unitPriceScale >= 2 /\ IsFiniteSet(B) /\ Simple(f, B)
  BY DEF Deal
<1>2. PICK extra : f = Entries(def, I, C, extra)
  BY DEF Deal
<1>3. /\ \A key \in keys : key \in Keys(def) /\ LineOf(def, key).recurrence = recurrence
      /\ \A l \in Lines(def) : l.key \in keys <=> l.recurrence = recurrence
  BY <1>1, KeysOfAre
<1>4. /\ \A i \in Kept(def, I) : IsBought(Sold(f[<<"kept", i>>], using), def, I, C, i)
      /\ \A i \in Shown(def, C) : Sold(f[<<"shown", i>>], using).total = 0
      /\ \A s \in B :
              \/ s = <<"kept", s[2]>> /\ s[2] \in Kept(def, I)
              \/ s = <<"shown", s[2]>> /\ s[2] \in Shown(def, C)
              \/ s = <<"discount", s[2]>> /\ s[2] \in Granted(def, I)
              \/ s = Floor
  BY DealEntries
<1>5. /\ \A s \in Reductions(f, B) : \E i \in Granted(def, I) : s = <<"discount", i>>
      /\ \A i \in Granted(def, I) : <<"discount", i>> \in Reductions(f, B)
      /\ \A i \in Kept(def, I) : <<"kept", i>> \in Flats(f, B)
  BY DealSources
<1>6. Floor \notin B
  BY DEF BaseSources, Floor
<1>7. \A key \in keys \cap Keys(def) : LineOf(def, key).kind # "INFO"
  <2> SUFFICES ASSUME NEW key \in keys
               PROVE  LineOf(def, key).kind # "INFO"
    OBVIOUS
  <2>1. LineOf(def, key) \in Lines(def) /\ LineOf(def, key).recurrence # "INFO"
    BY <1>3, LineOfKey DEF Recurrences
  <2> QED
    BY <1>1, <2>1 DEF Consistent
<1>8. Totalling(U) /\ SumOf(U) = ReferenceSum(def, I, C, keys)
  BY <1>1, <1>2, <1>7, BoughtSum
<1>9. Totalling(sold)
  BY <1>1, SoldTotals DEF Totalling
<1>10. Totalling(T)
  <2>1. T \in SUBSET sold
    OBVIOUS
  <2> QED
    BY <1>9, <2>1, FS_Subset DEF Totalling
<1>11. ASSUME NEW i \in Kept(def, I)
       PROVE  /\ i \in DOMAIN def.lines /\ def.lines[i] \in Lines(def)
              /\ def.lines[i].kind # "INFO"
              /\ Translated(def.lines[i].recurrence) = Translated(recurrence) <=>
                   def.lines[i].recurrence = recurrence
  <2>1. i \in DOMAIN def.lines /\ def.lines[i].kind # "INFO"
    BY DEF Kept
  <2>2. def.lines[i] \in Lines(def)
    BY <1>1, <2>1, LinesAre DEF Elements
  <2>3. def.lines[i].recurrence \in Recurrences
    BY <1>1, <2>1, <2>2 DEF Consistent, Validated, Recurrences
  <2> QED
    BY <2>1, <2>2, <2>3 DEF Recurrences, Translated
<1>t. \A p \in T : p \in sold /\ p.recurrence = Translated(recurrence)
  OBVIOUS
<1>u. \A p \in sold : p.recurrence = Translated(recurrence) => p \in T
  OBVIOUS
<1> HIDE DEF B, sold, keys
<1>12. ASSUME NEW p \in U
       PROVE  p \in T
  <2>1. PICK i \in Kept(def, I) : def.lines[i].key \in keys /\ p = Sold(f[<<"kept", i>>], using)
    BY DEF BoughtOf
  <2>2. def.lines[i].recurrence = recurrence
    BY <1>3, <1>11, <2>1
  <2>3. p.recurrence = Translated(recurrence)
    BY <1>4, <2>1, <2>2 DEF IsBought
  <2>4. p \in sold
    BY <1>5, <2>1 DEF SoldOf, sold
  <2> QED
    BY <1>u, <2>3, <2>4
<1>13. ASSUME NEW p \in T, p \notin U
       PROVE  p.total = 0
  <2>1. PICK s \in Flats(f, B) : p = Sold(f[s], using)
    BY <1>t DEF SoldOf, sold
  <2>2. s \in B /\ s \notin Reductions(f, B)
    BY <2>1 DEF Flats, Reductions
  <2>3. CASE s = <<"kept", s[2]>> /\ s[2] \in Kept(def, I)
    <3>1. def.lines[s[2]].recurrence = recurrence
      BY <1>4, <1>11, <1>t, <2>1, <2>3 DEF IsBought
    <3>2. def.lines[s[2]].key \in keys
      BY <1>3, <1>11, <2>3, <3>1
    <3> QED
      BY <1>13, <2>1, <2>3, <3>2 DEF BoughtOf
  <2>4. CASE s = <<"shown", s[2]>> /\ s[2] \in Shown(def, C)
    BY <1>4, <2>1, <2>4
  <2> QED
    BY <1>4, <1>5, <1>6, <2>2, <2>3, <2>4
<1>14. U \in SUBSET T /\ \A p \in T \ U : p.total = 0
  BY <1>12, <1>13
<1> HIDE DEF U
<1>15. SumOf(T) = SumOf(U)
  BY <1>10, <1>14, TotalPart
<1> QED
  BY <1>8, <1>10, <1>15 DEF keys

(* The discounts.                                                          *)
LEMMA ReducedSum ==
  ASSUME NEW def, NEW I, NEW C, NEW f, NEW B, NEW using, Deal(def, I, C, f, B, using),
         using.rounding = HalfAway, NEW env, env.settings = using, Sound(f, B, env)
  PROVE  /\ Totalling(ReducedOf(f, B, env))
         /\ \A p \in ReducedOf(f, B, env) : p.recurrence = "MONTHLY"
         /\ SumOf(ReducedOf(f, B, env)) = -ReferenceDiscounts(def, I, C)
         /\ ReferenceDiscounts(def, I, C) \in Int
<1> DEFINE G == Granted(def, I)
           D == {j \in RulesOf(def, "DISCOUNT_PERCENT") : def.rules[j].when \in DOMAIN I}
           e == [i \in D |-> ReferenceDiscount(def, I, C, def.rules[i])]
           sold == SoldOf(f, B, using)
           h == [i \in G |-> DiscountLine(f[<<"discount", i>>], sold, env).line]
           R == ReducedOf(f, B, env)
<1>1. Validated(def) /\ I \in Configurations(def)
  BY DEF Deal
<1>2. DistinctKeys(f, B) /\ \A s \in Reductions(f, B) : DiscountLine(f[s], sold, env).error = Ok
  BY DEF Sound, DistinctKeys
<1>3. /\ \A s \in Reductions(f, B) : \E i \in G : s = <<"discount", i>>
      /\ \A i \in G : <<"discount", i>> \in Reductions(f, B)
  BY DealSources
<1>4. G \in SUBSET D
  BY DEF Granted, Grants, RulesOf
<1>5. IsFiniteSet(D) /\ IsFiniteSet(G)
  <2>1. D \in SUBSET DOMAIN def.rules
    BY DEF RulesOf
  <2>2. IsFiniteSet(DOMAIN def.rules)
    BY <1>1, KeysFinite
  <2>3. IsFiniteSet(D)
    BY <2>1, <2>2, FS_Subset
  <2> QED
    BY <1>4, <2>3, FS_Subset
<1>6. ASSUME NEW i \in G
      PROVE  /\ h[i].key = def.rules[i].key /\ h[i].recurrence = "MONTHLY"
             /\ e[i] \in Int /\ h[i].total = -e[i]
  <2>1. PICK l : l = f[<<"discount", i>>]
    OBVIOUS
  <2>2. DiscountLine(l, sold, env).error = Ok
    BY <1>2, <1>3, <2>1
  <2>3. /\ DiscountLine(l, sold, env).line.key = def.rules[i].key
        /\ DiscountLine(l, sold, env).line.recurrence = "MONTHLY"
        /\ ReferenceDiscount(def, I, C, def.rules[i]) \in Int
        /\ DiscountLine(l, sold, env).line.total = -ReferenceDiscount(def, I, C, def.rules[i])
    BY <1>2, <2>1, <2>2, DiscountIsReference
  <2>4. e[i] = ReferenceDiscount(def, I, C, def.rules[i])
    BY <1>4
  <2>5. h[i] = DiscountLine(l, sold, env).line
    BY <2>1
  <2> QED
    BY <2>3, <2>4, <2>5
<1>7. ASSUME NEW i \in D, i \notin G
      PROVE  e[i] = 0
  <2>1. i \in DOMAIN def.rules /\ def.rules[i].type = "DISCOUNT_PERCENT" /\ def.rules[i].when \in DOMAIN I
    BY DEF RulesOf
  <2>2. DiscountTaken(def.rules[i], I) = {}
    BY <1>7, <2>1 DEF Granted, Grants
  <2>3. def.rules[i] \in ToSet(def.rules)
    BY <1>1, <2>1, LinesAre DEF Elements
  <2>4. RuleValidated(def.rules[i])
    BY <1>1, <2>3 DEF Validated
  <2>5. def.rules[i].percent \in 1..100
    BY <2>1, <2>4 DEF RuleValidated
  <2>6. ChargedKeys(I, def.rules[i].appliesTo) = {}
    BY <2>2 DEF ChargedKeys, DiscountTaken, Quantity
  <2>7. ReferenceSum(def, I, C, def.rules[i].appliesTo) = 0
    <3> DEFINE K == ChargedKeys(I, def.rules[i].appliesTo)
               g == [key \in K |-> UnitPriceCents(LineOf(def, key), C) * I[key]]
    <3>1. ReferenceSum(def, I, C, def.rules[i].appliesTo) = SumFunctionOnSet(g, K)
      BY DEF ReferenceSum, SumFunction, ChargedKeys
    <3>2. K = {}
      BY <2>6
    <3> HIDE DEF g, K
    <3> QED
      BY <3>1, <3>2, SumEmpty
  <2>8. PICK percent \in Nat : percent = def.rules[i].percent
    BY <2>5
  <2>9. (2 * 0 * percent + 100) \div 200 = 0
    OBVIOUS
  <2>10. ReferenceDiscount(def, I, C, def.rules[i]) = 0
    BY <2>7, <2>8, <2>9 DEF ReferenceDiscount
  <2> QED
    BY <2>10
<1>8. ReferenceDiscounts(def, I, C) = SumFunctionOnSet(e, D)
  BY DEF ReferenceDiscounts, SumFunction
<1>9. ReducedOf(f, B, env) = {h[i] : i \in G}
  <2>1. \A i \in G : h[i] = DiscountLine(f[<<"discount", i>>], sold, env).line
    OBVIOUS
  <2>2. ReducedOf(f, B, env) = {DiscountLine(f[s], sold, env).line : s \in Reductions(f, B)}
    BY DEF ReducedOf
  <2> HIDE DEF h, G, sold
  <2>3. ASSUME NEW p \in ReducedOf(f, B, env)
        PROVE  \E i \in G : p = h[i]
    <3>1. PICK s \in Reductions(f, B) : p = DiscountLine(f[s], sold, env).line
      BY <2>2
    <3>2. PICK i \in G : s = <<"discount", i>>
      BY <1>3
    <3> QED
      BY <2>1, <3>1, <3>2
  <2>4. ASSUME NEW i \in G
        PROVE  h[i] \in ReducedOf(f, B, env)
    <3>1. <<"discount", i>> \in Reductions(f, B)
      BY <1>3
    <3> QED
      BY <2>1, <2>2, <3>1
  <2> QED
    BY <2>3, <2>4
<1>10. ASSUME NEW i \in G, NEW j \in G, h[i] = h[j]
       PROVE  i = j
  <2>1. def.rules[i].key = def.rules[j].key
    <3> HIDE DEF G, D, e, sold, h, R
    <3>1. h[i].key = def.rules[i].key
      BY <1>6
    <3>2. h[j].key = def.rules[j].key
      BY <1>6
    <3> QED
      BY <1>10, <3>1, <3>2
  <2>2. /\ f[<<"discount", i>>] = EngineDiscount(def, I, def.rules[i])
        /\ f[<<"discount", j>>] = EngineDiscount(def, I, def.rules[j])
    BY DealEntries
  <2>3. \A r : EngineDiscount(def, I, r).key = r.key
    BY DEF EngineDiscount, ManualLine
  <2>4. f[<<"discount", i>>].key = f[<<"discount", j>>].key
    BY <2>1, <2>2, <2>3
  <2>5. <<"discount", i>> \in B /\ <<"discount", j>> \in B
    BY <1>3 DEF Reductions
  <2>6. <<"discount", i>> = <<"discount", j>>
    BY <1>2, <2>4, <2>5 DEF DistinctKeys
  <2> QED
    BY <2>6
<1>11. \A i \in D : e[i] \in Int
  <2> SUFFICES ASSUME NEW i \in D
               PROVE  e[i] \in Int
    OBVIOUS
  <2> HIDE DEF D, e, h, G, sold
  <2> QED
    BY <1>6, <1>7
<1> HIDE DEF D, e, h, G, sold
<1>12. SumFunctionOnSet(e, D) = SumFunctionOnSet(e, G)
  BY <1>4, <1>5, <1>7, <1>11, SumZeros
<1>13. SumFunctionOnSet(e, D) \in Int
  BY <1>5, <1>11, SumApart
<1> DEFINE n == [i \in G |-> -e[i]]
           t == [p \in R |-> p.total]
<1>14. \A i \in G : e[i] \in Int /\ n[i] = -e[i] /\ n[i] \in Int /\ t[h[i]] = n[i]
  BY <1>6, <1>9
<1>15. Totalling(R) /\ \A p \in R : p.recurrence = "MONTHLY"
  <2>1. IsFiniteSet({h[i] : i \in G})
    BY <1>5, ImageFinite
  <2> QED
    BY <1>6, <1>9, <2>1 DEF Totalling
<1>r. R = {h[i] : i \in G}
  BY <1>9
<1>s. \A p \in R : p.total \in Int /\ t[p] = p.total
  BY <1>15 DEF Totalling
<1> HIDE DEF n, t, R
<1>16. SumFunctionOnSet(n, G) = -SumFunctionOnSet(e, G)
  BY <1>5, <1>14, SumNegated
<1>17. SumFunctionOnSet(t, {h[i] : i \in G}) = SumFunctionOnSet(n, G)
  BY <1>5, <1>10, <1>14, SumReindexed
<1>18. SumOf(R) = SumFunctionOnSet(t, R)
  BY <1>15, <1>s, SumOfIs DEF Totalling
<1> QED
  BY <1>8, <1>12, <1>13, <1>15, <1>16, <1>17, <1>18, <1>r DEF R

(* The complement changes neither the other lines nor their discounts.     *)
LEMMA SoundWithout ==
  ASSUME NEW def, NEW I, NEW C, NEW f, NEW using, NEW B, B = BaseSources(def, I, C),
         NEW S, S = B \cup {Floor}, Deal(def, I, C, f, S, using), IsFlat(f[Floor]),
         NEW env, env.settings = using, Sound(f, S, env)
  PROVE  /\ Deal(def, I, C, f, B, using) /\ Sound(f, B, env)
         /\ SoldOf(f, S, using) = SoldOf(f, B, using) \cup {Sold(f[Floor], using)}
         /\ ReducedOf(f, S, env) = ReducedOf(f, B, env)
         /\ \A p \in SoldOf(f, B, using) : p.key # f[Floor].key
<1> DEFINE sold == SoldOf(f, B, using)
           others == SoldOf(f, S, using)
<1>1. Floor \notin B
  BY DEF BaseSources, Floor
<1>2. Deal(def, I, C, f, B, using)
  <2>1. IsFiniteSet(B)
    BY FS_Subset DEF Deal
  <2>2. Simple(f, B)
    BY DEF Deal, Simple
  <2> QED
    BY <2>1, <2>2 DEF Deal
<1>3. DistinctKeys(f, S) /\ DistinctKeys(f, B)
  BY DEF Sound, DistinctKeys
<1>4. f[Floor].kind # "DISCOUNT"
  BY DEF Deal
<1>5. Reductions(f, S) = Reductions(f, B) /\ Flats(f, S) = Flats(f, B) \cup {Floor}
  BY <1>4 DEF Reductions, Flats
<1>6. others = sold \cup {Sold(f[Floor], using)}
  BY <1>5 DEF SoldOf
<1>7. ASSUME NEW s \in Reductions(f, B)
      PROVE  DiscountLine(f[s], others, env) = DiscountLine(f[s], sold, env)
  <2>1. PICK i \in Granted(def, I) : s = <<"discount", i>>
    BY <1>2, DealSources
  <2>2. PICK l : l = f[<<"discount", i>>]
    OBVIOUS
  <2>3. /\ DiscountTargets(l, SoldOf(f, S, using)) = BoughtOf(def, I, f, using, def.rules[i].appliesTo)
        /\ l.discount.lines \subseteq {p.key : p \in SoldOf(f, S, using)}
        /\ BoughtOf(def, I, f, using, def.rules[i].appliesTo) # {}
    <3>1. Deal(def, I, C, f, S, using) /\ DistinctKeys(f, S)
      BY <1>3
    <3> QED
      BY ONLY <3>1, <2>2, i \in Granted(def, I), TargetsAre
  <2>4. /\ DiscountTargets(l, SoldOf(f, B, using)) = BoughtOf(def, I, f, using, def.rules[i].appliesTo)
        /\ l.discount.lines \subseteq {p.key : p \in SoldOf(f, B, using)}
        /\ BoughtOf(def, I, f, using, def.rules[i].appliesTo) # {}
    BY ONLY <1>2, <1>3, <2>2, i \in Granted(def, I), TargetsAre
  <2>a. DiscountTargets(l, others) = DiscountTargets(l, sold)
    BY <2>3, <2>4
  <2>b. l.discount.lines \subseteq {p.key : p \in others} /\ l.discount.lines \subseteq {p.key : p \in sold}
    BY <2>3, <2>4
  <2> HIDE DEF sold, others
  <2>5. DiscountLine(l, others, env) = DiscountLine(l, sold, env)
    BY ONLY <2>a, <2>b, SameDiscount
  <2> QED
    BY <2>1, <2>2, <2>5
<1>8. Sound(f, B, env)
  BY <1>3, <1>5, <1>7 DEF Sound, DistinctKeys
<1>9. ReducedOf(f, S, env) = ReducedOf(f, B, env)
  <2>1. /\ ReducedOf(f, S, env) = {DiscountLine(f[s], others, env).line : s \in Reductions(f, S)}
        /\ ReducedOf(f, B, env) = {DiscountLine(f[s], sold, env).line : s \in Reductions(f, B)}
    BY DEF ReducedOf
  <2> HIDE DEF sold, others
  <2>2. \A s \in Reductions(f, B) : DiscountLine(f[s], others, env).line = DiscountLine(f[s], sold, env).line
    BY <1>7
  <2>3. PICK R : R = Reductions(f, B)
    OBVIOUS
  <2>4. {DiscountLine(f[s], others, env).line : s \in R} = {DiscountLine(f[s], sold, env).line : s \in R}
    BY <2>2, <2>3
  <2> QED
    BY <1>5, <2>1, <2>3, <2>4
<1>10. ASSUME NEW p \in SoldOf(f, B, using)
       PROVE  p.key # f[Floor].key
  <2>1. PICK s \in Flats(f, B) : p = Sold(f[s], using)
    BY DEF SoldOf
  <2>2. s \in B /\ IsFlat(f[s])
    BY <1>2, <2>1 DEF Flats, Deal, Simple, IsReduction
  <2>3. p.key = f[s].key
    BY <2>1, <2>2, SoldType
  <2>4. s # Floor /\ s \in S /\ Floor \in S
    BY <1>1, <2>2
  <2> QED
    BY <1>3, <2>3, <2>4 DEF DistinctKeys
<1> QED
  BY <1>2, <1>6, <1>8, <1>9, <1>10

(* The totals of the engine before the complement.                         *)
LEMMA BaseTotals ==
  ASSUME NEW def, NEW I, NEW C, NEW f, NEW using, NEW B, B = BaseSources(def, I, C),
         Deal(def, I, C, f, B, using), using.rounding = HalfAway,
         NEW env, env.settings = using, Sound(f, B, env), NEW lines,
         lines = SoldOf(f, B, using) \cup ReducedOf(f, B, env)
  PROVE  /\ Totalling(lines)
         /\ OfRecurrence(lines, "MONTHLY") =
              ReferenceSum(def, I, C, KeysOf(def, "MONTHLY")) - ReferenceDiscounts(def, I, C)
         /\ OfRecurrence(lines, "QUARTERLY") = ReferenceSum(def, I, C, KeysOf(def, "QUARTERLY"))
         /\ OfRecurrence(lines, "YEARLY") = ReferenceSum(def, I, C, KeysOf(def, "YEARLY"))
         /\ OfRecurrence(lines, "ONE_OFF") = ReferenceSum(def, I, C, KeysOf(def, "ONE_TIME"))
<1> DEFINE sold == SoldOf(f, B, using)
           reduced == ReducedOf(f, B, env)
           Part(T, r) == {p \in T : p.recurrence = r}
<1>1. /\ Totalling(reduced) /\ \A p \in reduced : p.recurrence = "MONTHLY"
      /\ SumOf(reduced) = -ReferenceDiscounts(def, I, C) /\ ReferenceDiscounts(def, I, C) \in Int
  BY ReducedSum
<1>2. Totalling(sold)
  BY SoldTotals DEF Deal, Totalling
<1>3. sold \cap reduced = {}
  <2> SUFFICES ASSUME NEW p \in sold, p \in reduced
               PROVE  FALSE
    OBVIOUS
  <2>1. PICK s \in Flats(f, B) : p = Sold(f[s], using)
    BY DEF SoldOf
  <2>2. s \in B /\ IsFlat(f[s])
    BY <2>1 DEF Flats, Deal, Simple, IsReduction
  <2>3. PICK t \in Reductions(f, B) : p = DiscountLine(f[t], SoldOf(f, B, env.settings), env).line
    BY DEF ReducedOf
  <2>4. t \in B /\ f[t].discount.type = "PERCENT"
    BY <2>3 DEF Reductions, Deal, Simple, IsReduction, IsFlat
  <2>a. p.key = f[s].key
    BY <2>1, <2>2, SoldType
  <2>b. p.key = f[t].key
    BY <2>3, <2>4, DiscountIs
  <2>5. p.key = f[s].key /\ p.key = f[t].key
    BY <2>a, <2>b
  <2>6. s = t
    BY <2>2, <2>4, <2>5 DEF Sound
  <2> QED
    BY <2>1, <2>3, <2>6 DEF Flats, Reductions
<1>4. Totalling(lines)
  <2> HIDE DEF sold, reduced
  <2>1. Totalling(sold \cup reduced)
    BY <1>1, <1>2, <1>3, TotalUnion
  <2> QED
    BY <2>1 DEF sold, reduced
<1>5. /\ Totalling(Part(sold, "MONTHLY"))
      /\ SumOf(Part(sold, "MONTHLY")) = ReferenceSum(def, I, C, KeysOf(def, "MONTHLY"))
  BY SoldSum DEF Recurrences, Translated
<1>6. /\ SumOf(Part(sold, "QUARTERLY")) = ReferenceSum(def, I, C, KeysOf(def, "QUARTERLY"))
      /\ SumOf(Part(sold, "YEARLY")) = ReferenceSum(def, I, C, KeysOf(def, "YEARLY"))
      /\ SumOf(Part(sold, "ONE_OFF")) = ReferenceSum(def, I, C, KeysOf(def, "ONE_TIME"))
  BY SoldSum DEF Recurrences, Translated
<1> HIDE DEF sold, reduced
<1>7. Part(lines, "MONTHLY") = Part(sold, "MONTHLY") \cup reduced
  BY <1>1 DEF sold, reduced
<1>8. \A r : r # "MONTHLY" => Part(lines, r) = Part(sold, r)
  BY <1>1 DEF sold, reduced
<1>9. Part(sold, "MONTHLY") \cap reduced = {}
  BY <1>3
<1>10. \A r : OfRecurrence(lines, r) = SumOf(Part(lines, r))
  BY DEF OfRecurrence
<1>11. ReferenceSum(def, I, C, KeysOf(def, "MONTHLY")) \in Int
  BY <1>5, TotalType
<1> HIDE DEF Part
<1>12. SumOf(Part(lines, "MONTHLY")) = SumOf(Part(sold, "MONTHLY")) + SumOf(reduced)
  BY <1>1, <1>5, <1>7, <1>9, TotalUnion
<1> QED
  BY <1>1, <1>4, <1>5, <1>6, <1>8, <1>10, <1>11, <1>12

(* The greatest of an amount and of the minimum, if the table has one.     *)
LEMMA GreatestIs ==
  ASSUME NEW S \in SUBSET Int, NEW m \in S, \A k \in S : k <= m
  PROVE  Max(S) = m
<1>1. \E x \in S : \A y \in S : x >= y
  OBVIOUS
<1>2. Max(S) \in S /\ \A y \in S : Max(S) >= y
  BY <1>1 DEF Max
<1>3. PICK x \in Int : x = Max(S)
  BY <1>2
<1>4. x >= m /\ x <= m
  BY <1>2, <1>3
<1> QED
  BY <1>3, <1>4

(* The amounts of the monthly minima.                                      *)
Minima(def) == {def.rules[i].amount : i \in RulesOf(def, "MINIMUM_MONTHLY")}

(* With one minimum at most, the greatest amount is the minimum when the   *)
(* complement is due.                                                      *)
LEMMA RaisedIs ==
  ASSUME NEW def, Validated(def), Consistent(def), NEW monthly \in Int
  PROVE  Max({monthly} \cup Minima(def)) =
           IF Raised(def, monthly) THEN FloorRule(def).amount ELSE monthly
<1> DEFINE R == RulesOf(def, "MINIMUM_MONTHLY")
           S == {monthly} \cup Minima(def)
<1>1. CASE R = {}
  <2>1. S = {monthly} /\ ~Raised(def, monthly)
    BY <1>1 DEF Minima, Raised
  <2> HIDE DEF S
  <2>2. Max(S) = monthly
    BY <2>1, GreatestIs
  <2> QED
    BY <2>1, <2>2 DEF S
<1>2. CASE R # {}
  <2>1. Min(R) \in R /\ FloorRule(def).amount \in Nat /\ FloorRule(def) = def.rules[Min(R)]
    BY <1>2, FloorRuleIs DEF FloorRule
  <2>2. \A i \in R : i = Min(R)
    BY <2>1 DEF Consistent
  <2>3. PICK a \in Nat : a = FloorRule(def).amount
    BY <2>1
  <2>4. S = {monthly, a}
    BY <2>1, <2>2, <2>3 DEF Minima
  <2>5. Raised(def, monthly) <=> ~(monthly >= a)
    BY <1>2, <2>3 DEF Raised
  <2> HIDE DEF S
  <2>6. CASE monthly >= a
    <3>1. Max(S) = monthly
      BY <2>4, <2>6, GreatestIs
    <3> QED
      BY <2>5, <2>6, <3>1 DEF S
  <2>7. CASE ~(monthly >= a)
    <3>1. Max(S) = a
      BY <2>4, <2>7, GreatestIs
    <3> QED
      BY <2>3, <2>5, <2>7, <3>1 DEF S
  <2> QED
    BY <2>6, <2>7
<1> QED
  BY <1>1, <1>2

(* The engine is given the quote: its lines, and the complement.           *)
LEMMA QuoteDeal ==
  ASSUME NEW def, Validated(def), Consistent(def), NEW I \in Configurations(def),
         InvalidQuantities(I) = {}, NEW C, Unpriced(def, I, C) = {}, NEW using,
         using.unitPriceScale >= 2
  PROVE  Deal(def, I, C, FinalEntries(def, I, C, using), FinalSources(def, I, C, using), using)
<1> DEFINE f == FinalEntries(def, I, C, using)
           S == FinalSources(def, I, C, using)
<1>1. Simple(f, S) /\ IsFiniteSet(S)
  BY FinalShape DEF IsPriced
<1>2. \E extra : f = Entries(def, I, C, extra)
  BY DEF FinalEntries
<1>3. BaseSources(def, I, C) \subseteq S /\ S \subseteq BaseSources(def, I, C) \cup {Floor}
  BY DEF FinalSources
<1>4. f[Floor].kind # "DISCOUNT"
  <2>1. f[Floor] = FloorLine(def, Monthly(def, I, C, using))
    BY EntriesAre DEF FinalEntries
  <2>2. \A m : FloorLine(def, m).kind = "FLAT_MONTHLY"
    BY DEF FloorLine, ManualLine
  <2> QED
    BY <2>1, <2>2
<1> QED
  BY <1>1, <1>2, <1>3, <1>4 DEF Deal

(* The totals of the engine are those of the reference, minimum included.  *)
LEMMA FinalTotals ==
  ASSUME NEW def, Validated(def), Consistent(def), NEW I \in Configurations(def),
         InvalidQuantities(I) = {}, NEW C, Unpriced(def, I, C) = {}, NEW using,
         using.unitPriceScale >= 2, using.rounding = HalfAway,
         FinalPrices(def, I, C, using).error = Ok, NEW lines, lines = FinalPrices(def, I, C, using).lines
  PROVE  /\ ReferenceSum(def, I, C, KeysOf(def, "MONTHLY")) - ReferenceDiscounts(def, I, C) \in Int
         /\ OfRecurrence(lines, "MONTHLY") =
              Max({ReferenceSum(def, I, C, KeysOf(def, "MONTHLY")) - ReferenceDiscounts(def, I, C)}
                    \cup Minima(def))
         /\ OfRecurrence(lines, "QUARTERLY") = ReferenceSum(def, I, C, KeysOf(def, "QUARTERLY"))
         /\ OfRecurrence(lines, "YEARLY") = ReferenceSum(def, I, C, KeysOf(def, "YEARLY"))
         /\ OfRecurrence(lines, "ONE_OFF") = ReferenceSum(def, I, C, KeysOf(def, "ONE_TIME"))
<1> DEFINE f == FinalEntries(def, I, C, using)
           S == FinalSources(def, I, C, using)
           B == BaseSources(def, I, C)
           env == QuoteEnv(using)
           base == BaseList(def, I, C)
           final == FinalList(def, I, C, using)
           monthly == Monthly(def, I, C, using)
           before == BasePrices(def, I, C, using).lines
           due == ReferenceSum(def, I, C, KeysOf(def, "MONTHLY")) - ReferenceDiscounts(def, I, C)
<1>1. Deal(def, I, C, f, S, using)
  BY QuoteDeal
<1>2. env.overrides = {} /\ env.settings = using
  BY EnvOfQuote
<1>3. /\ Placed(final, f, S) /\ Simple(f, S) /\ DOMAIN final \subseteq Nat
      /\ Placed(base, f, B) /\ Simple(f, B) /\ DOMAIN base \subseteq Nat
  <2>1. IsPriced(final, f, S)
    BY FinalShape
  <2>2. IsPriced(base, f, B)
    BY BaseShape DEF FinalEntries
  <2> HIDE DEF final, base, f, S, B
  <2> QED
    BY <2>1, <2>2 DEF IsPriced
<1>4. PriceSchedule(final, env, 1).error = Ok /\ lines = PriceSchedule(final, env, 1).lines
  BY DEF FinalPrices
<1>5. before = PriceSchedule(base, env, 1).lines
  BY DEF BasePrices
<1>6. monthly \in Int
  BY MonthlyType
<1>7. S = B \cup IF Raised(def, monthly) THEN {Floor} ELSE {}
  BY DEF FinalSources
<1>8. f[Floor] = FloorLine(def, monthly)
  BY EntriesAre DEF FinalEntries
<1>m. monthly = OfRecurrence(before, "MONTHLY")
  BY DEF Monthly
<1>b. B = BaseSources(def, I, C)
  OBVIOUS
<1> HIDE DEF f, S, B, env, base, final, monthly, before
<1>9. Sound(f, S, env) /\ lines = SoldOf(f, S, using) \cup ReducedOf(f, S, env)
  <2>1. /\ PriceSchedule(final, env, 1).error = Ok <=> Sound(f, S, env)
        /\ Sound(f, S, env) =>
             PriceSchedule(final, env, 1).lines = SoldOf(f, S, env.settings) \union ReducedOf(f, S, env)
    BY <1>2, <1>3, PlacedPrices
  <2> QED
    BY <1>2, <1>4, <2>1
<1>10. Sound(f, B, env) => before = SoldOf(f, B, using) \cup ReducedOf(f, B, env)
  <2>1. Sound(f, B, env) =>
             PriceSchedule(base, env, 1).lines = SoldOf(f, B, env.settings) \union ReducedOf(f, B, env)
    BY <1>2, <1>3, PlacedPrices
  <2> QED
    BY <1>2, <1>5, <2>1
<1>11. ASSUME Deal(def, I, C, f, B, using), Sound(f, B, env)
       PROVE  /\ Totalling(before) /\ OfRecurrence(before, "MONTHLY") = due
              /\ OfRecurrence(before, "QUARTERLY") = ReferenceSum(def, I, C, KeysOf(def, "QUARTERLY"))
              /\ OfRecurrence(before, "YEARLY") = ReferenceSum(def, I, C, KeysOf(def, "YEARLY"))
              /\ OfRecurrence(before, "ONE_OFF") = ReferenceSum(def, I, C, KeysOf(def, "ONE_TIME"))
  <2>1. before = SoldOf(f, B, using) \cup ReducedOf(f, B, env)
    BY <1>10, <1>11
  <2> QED
    BY <1>2, <1>11, <1>b, <2>1, BaseTotals
<1> DEFINE amount == FloorRule(def).amount
<1>12. CASE ~Raised(def, monthly)
  <2>1. S = B
    BY <1>7, <1>12
  <2>2. lines = before
    BY <1>9, <1>10, <2>1
  <2>3. Deal(def, I, C, f, B, using) /\ Sound(f, B, env)
    BY <1>1, <1>9, <2>1
  <2>4. due \in Int /\ due = monthly
    BY <1>6, <1>m, <1>11, <2>3
  <2>5. Max({due} \cup Minima(def)) = due
    BY <1>12, <2>4, RaisedIs
  <2> HIDE DEF due
  <2> QED
    BY <1>11, <2>2, <2>3, <2>4, <2>5 DEF due
<1>13. CASE Raised(def, monthly)
  <2> DEFINE extra == Sold(f[Floor], using)
  <2>1. S = B \cup {Floor}
    BY <1>7, <1>13
  <2>2. /\ IsFlat(f[Floor]) /\ f[Floor].unitPrice = 10 * (amount - monthly) /\ f[Floor].quantity = 1
        /\ RecurrenceOf(f[Floor]) = "MONTHLY" /\ amount \in Nat
    BY <1>6, <1>8, <1>13, FloorLineIs, FloorRuleIs DEF Raised
  <2>3. /\ Deal(def, I, C, f, B, using) /\ Sound(f, B, env)
        /\ SoldOf(f, S, using) = SoldOf(f, B, using) \cup {Sold(f[Floor], using)}
        /\ ReducedOf(f, S, env) = ReducedOf(f, B, env)
        /\ \A p \in SoldOf(f, B, using) : p.key # f[Floor].key
    BY <1>1, <1>2, <1>9, <1>b, <2>1, <2>2, SoundWithout
  <2>4. lines = before \cup {extra}
    BY <1>9, <1>10, <2>3
  <2>5. extra.recurrence = "MONTHLY" /\ extra.total = amount - monthly /\ extra.key = f[Floor].key
    <3>1. PICK c \in Int : c = amount - monthly
      BY <1>6, <2>2
    <3>2. extra = Priced(f[Floor], RecurrenceOf(f[Floor]), 10 * c, 10 * c, c * f[Floor].quantity)
      BY <2>2, <3>1, SoldWhole
    <3>3. c * f[Floor].quantity = c
      BY <2>2
    <3> QED
      BY <2>2, <3>1, <3>2, <3>3 DEF Priced
  <2>6. extra \notin before
    <3> SUFFICES ASSUME extra \in before
                 PROVE  FALSE
      OBVIOUS
    <3>1. extra \in ReducedOf(f, B, env)
      BY <1>10, <2>3, <2>5
    <3>2. PICK t \in Reductions(f, B) : extra = DiscountLine(f[t], SoldOf(f, B, env.settings), env).line
      BY <3>1 DEF ReducedOf
    <3>3. t \in B /\ f[t].kind = "DISCOUNT" /\ f[t].discount.type = "PERCENT"
      BY <1>3, <3>2 DEF Reductions, Simple, IsReduction, IsFlat
    <3>4. extra.key = f[t].key
      BY <3>2, <3>3, DiscountIs
    <3>5. t = Floor
      BY <1>9, <2>1, <2>5, <3>3, <3>4 DEF Sound
    <3> QED
      BY <1>1, <3>3, <3>5 DEF Deal
  <2>7. due \in Int /\ due = monthly
    BY <1>6, <1>m, <1>11, <2>3
  <2>8. Max({due} \cup Minima(def)) = amount
    BY <1>13, <2>7, RaisedIs
  <2> DEFINE Part(T, r) == {p \in T : p.recurrence = r}
  <2>9. \A T, r : OfRecurrence(T, r) = SumOf(Part(T, r))
    BY DEF OfRecurrence
  <2> HIDE DEF extra
  <2>10. /\ Part(lines, "MONTHLY") = Part(before, "MONTHLY") \cup {extra}
         /\ \A r : r # "MONTHLY" => Part(lines, r) = Part(before, r)
         /\ Part(before, "MONTHLY") \cap {extra} = {}
    BY <2>4, <2>5, <2>6
  <2>11. Totalling(Part(before, "MONTHLY"))
    <3>1. Part(before, "MONTHLY") \in SUBSET before
      OBVIOUS
    <3> QED
      BY <1>11, <2>3, <3>1, FS_Subset DEF Totalling
  <2>12. Totalling({extra}) /\ SumOf({extra}) = amount - monthly
    <3>1. extra.total \in Int /\ extra.total = amount - monthly
      BY <1>6, <2>2, <2>5
    <3>2. Totalling({extra}) /\ SumOf({extra}) = extra.total
      BY ONLY <3>1, TotalOne
    <3> QED
      BY <3>1, <3>2
  <2> HIDE DEF Part, due, amount
  <2>13. SumOf(Part(lines, "MONTHLY")) = SumOf(Part(before, "MONTHLY")) + (amount - monthly)
    BY <2>10, <2>11, <2>12, TotalUnion
  <2>14. SumOf(Part(before, "MONTHLY")) = monthly
    BY <1>m, <2>9
  <2>15. OfRecurrence(lines, "MONTHLY") = amount
    BY <1>6, <2>2, <2>9, <2>13, <2>14 DEF amount
  <2>16. \A r : r # "MONTHLY" => OfRecurrence(lines, r) = OfRecurrence(before, r)
    BY <2>9, <2>10
  <2> QED
    BY <1>11, <2>3, <2>7, <2>8, <2>15, <2>16 DEF due
<1> QED
  BY <1>12, <1>13

(* What the evaluator kept beside the seed computes, part by part.         *)
LEMMA EvaluateIs ==
  ASSUME NEW def, NEW sel, NEW I, I = Included(def, sel), NEW C, C = ResolvedChoices(def, sel),
         NEW m, m = Max({ReferenceSum(def, I, C, KeysOf(def, "MONTHLY")) - ReferenceDiscounts(def, I, C)}
                          \cup Minima(def)),
         NEW q, q = ReferenceSum(def, I, C, KeysOf(def, "QUARTERLY")),
         NEW y, y = ReferenceSum(def, I, C, KeysOf(def, "YEARLY"))
  PROVE  /\ Evaluate(def, sel).monthly = m /\ Evaluate(def, sel).quarterly = q
         /\ Evaluate(def, sel).yearly = y
         /\ Evaluate(def, sel).oneTime = ReferenceSum(def, I, C, KeysOf(def, "ONE_TIME"))
         /\ Evaluate(def, sel).commitment =
              m * CommitmentMonths(def, C) + q * (CommitmentMonths(def, C) \div 3)
                + y * (CommitmentMonths(def, C) \div 12)
BY DEF Evaluate, KeysOf, Minima

(* The commitment adds up the periods of the three recurrences.            *)
LEMMA CommitmentIs ==
  ASSUME NEW errors, NEW months, NEW schedule, NEW o, NEW m, NEW q, NEW y
  PROVE  Summed(errors, months, schedule, o, m, q, y).commitment.ht =
           m.ht * months + q.ht * (months \div 3) + y.ht * (months \div 12)
<1>1. Summed(errors, months, schedule, o, m, q, y).commitment = Over(months, m, q, y)
  BY DEF Summed
<1>2. Over(months, m, q, y)["ht"] = m["ht"] * months + q["ht"] * (months \div 3) + y["ht"] * (months \div 12)
  BY DEF Over
<1> QED
  BY <1>1, <1>2

(* A quote without errors has the totals and the commitment of the         *)
(* reference.                                                              *)
LEMMA QuoteIsReference ==
  ASSUME NEW def, Validated(def), Consistent(def), NEW sel, Selectable(sel), NEW using,
         using.unitPriceScale >= 2, using.rounding = HalfAway, NEW q, q = Quote(def, sel, using, 1),
         q.errors = {}, NEW r, r = Evaluate(def, sel)
  PROVE  /\ q.monthly.ht = r.monthly /\ q.quarterly.ht = r.quarterly /\ q.yearly.ht = r.yearly
         /\ q.oneTime.ht = r.oneTime /\ q.commitment.ht = r.commitment
<1>1. PICK I, C : I = Included(def, sel) /\ C = ResolvedChoices(def, sel)
  OBVIOUS
<1>2. PICK lines : lines = FinalPrices(def, I, C, using).lines
  OBVIOUS
<1>3. /\ I \in Configurations(def) /\ InvalidQuantities(I) = {}
      /\ FinalPrices(def, I, C, using).error = Ok
      /\ q.monthly.ht = OfRecurrence(lines, "MONTHLY")
      /\ q.quarterly.ht = OfRecurrence(lines, "QUARTERLY")
      /\ q.yearly.ht = OfRecurrence(lines, "YEARLY")
      /\ q.oneTime.ht = OfRecurrence(lines, "ONE_OFF")
  BY <1>1, <1>2, QuoteTotals
<1>4. /\ ConfigurationErrors(def, sel, I, C) = {}
      /\ \E part : q = Summed({}, CommitmentMonths(def, C), FinalList(def, I, C, using), part["ONE_OFF"],
                              part["MONTHLY"], part["QUARTERLY"], part["YEARLY"])
  <2> DEFINE part == [s \in {"ONE_OFF", "MONTHLY", "QUARTERLY", "YEARLY"} |->
                        Bucket(OfPart(def, lines, s), using)]
  <2>1. ConfigurationErrors(def, sel, I, C) = {}
    BY <1>1, QuoteErrors
  <2>2. q = Summed({}, CommitmentMonths(def, C), FinalList(def, I, C, using),
                   Bucket(OfPart(def, lines, "ONE_OFF"), using), Bucket(OfPart(def, lines, "MONTHLY"), using),
                   Bucket(OfPart(def, lines, "QUARTERLY"), using),
                   Bucket(OfPart(def, lines, "YEARLY"), using))
    BY <1>1, <1>2, <1>3, <2>1, FineQuote
  <2>3. /\ part["ONE_OFF"] = Bucket(OfPart(def, lines, "ONE_OFF"), using)
        /\ part["MONTHLY"] = Bucket(OfPart(def, lines, "MONTHLY"), using)
        /\ part["QUARTERLY"] = Bucket(OfPart(def, lines, "QUARTERLY"), using)
        /\ part["YEARLY"] = Bucket(OfPart(def, lines, "YEARLY"), using)
    OBVIOUS
  <2> HIDE DEF part
  <2>4. q = Summed({}, CommitmentMonths(def, C), FinalList(def, I, C, using), part["ONE_OFF"],
                   part["MONTHLY"], part["QUARTERLY"], part["YEARLY"])
    BY <2>2, <2>3
  <2> QED
    BY <2>1, <2>4
<1>5. PICK part : q = Summed({}, CommitmentMonths(def, C), FinalList(def, I, C, using), part["ONE_OFF"],
                             part["MONTHLY"], part["QUARTERLY"], part["YEARLY"])
  BY <1>4
<1>6. Unpriced(def, I, C) = {}
  BY <1>4, ConfigurationFine
<1>7. PICK m, k, y, o :
        /\ m = Max({ReferenceSum(def, I, C, KeysOf(def, "MONTHLY")) - ReferenceDiscounts(def, I, C)}
                     \cup Minima(def))
        /\ k = ReferenceSum(def, I, C, KeysOf(def, "QUARTERLY"))
        /\ y = ReferenceSum(def, I, C, KeysOf(def, "YEARLY"))
        /\ o = ReferenceSum(def, I, C, KeysOf(def, "ONE_TIME"))
  OBVIOUS
<1>8. /\ OfRecurrence(lines, "MONTHLY") = m /\ OfRecurrence(lines, "QUARTERLY") = k
      /\ OfRecurrence(lines, "YEARLY") = y /\ OfRecurrence(lines, "ONE_OFF") = o
  BY <1>2, <1>3, <1>6, <1>7, FinalTotals
<1>9. /\ r.monthly = m /\ r.quarterly = k /\ r.yearly = y /\ r.oneTime = o
      /\ r.commitment = m * CommitmentMonths(def, C) + k * (CommitmentMonths(def, C) \div 3)
                          + y * (CommitmentMonths(def, C) \div 12)
  BY <1>1, <1>7, EvaluateIs
<1>10. q.monthly = part["MONTHLY"] /\ q.quarterly = part["QUARTERLY"] /\ q.yearly = part["YEARLY"]
  BY <1>5 DEF Summed
<1>11. q.commitment.ht = part["MONTHLY"].ht * CommitmentMonths(def, C)
                          + part["QUARTERLY"].ht * (CommitmentMonths(def, C) \div 3)
                          + part["YEARLY"].ht * (CommitmentMonths(def, C) \div 12)
  BY <1>5, CommitmentIs
<1> QED
  BY <1>3, <1>8, <1>9, <1>10, <1>11

(* In every state of the invariant, the open quote agrees with the         *)
(* reference.                                                              *)
LEMMA QuoteIsAgreed == SInv => QuoteAgrees
<1> SUFFICES ASSUME SInv, sale.state = "open", sale.settings.rounding = HalfAway,
                    sale.settings.unitPriceScale >= 2, NEW q, q = QuoteOf(sale.offer, sale.settings),
                    NEW r, r = Evaluate(sale.offer.table, sale.offer.selection), q.errors = {}
             PROVE  /\ q.monthly.ht = r.monthly /\ q.quarterly.ht = r.quarterly /\ q.yearly.ht = r.yearly
                    /\ q.oneTime.ht = r.oneTime /\ q.commitment.ht = r.commitment
  BY DEF QuoteAgrees, Totalled
<1>1. sale.offer \in Offers
  BY DEF SInv, SaleShaped
<1> DEFINE def == sale.offer.table
           sel == sale.offer.selection
<1>2. Validated(def) /\ Consistent(def) /\ Selectable(sel)
  BY <1>1, OffersAssumption, TablesAssumption
<1>3. q = Quote(def, sel, sale.settings, 1) /\ r = Evaluate(def, sel)
  BY DEF QuoteOf
<1> HIDE DEF def, sel
<1> QED
  BY <1>2, <1>3, QuoteIsReference

(* What the client reads is what the executable specification computes in  *)
(* plain cents, whatever he chooses (proposal.ts against reference-        *)
(* pricing.ts): for every coherent table, every selection, every quantity  *)
(* and percentage, in whole cents and with the rounding of the reference.  *)
THEOREM PricingQuoteAgrees == Spec => []QuoteAgrees
<1>1. Spec => []SInv
  BY InitSigned, StepSigned, PTL DEF Spec
<1> QED
  BY <1>1, QuoteIsAgreed, PTL
=============================================================================
