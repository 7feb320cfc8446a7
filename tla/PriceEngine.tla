----------------------------- MODULE PriceEngine -----------------------------
(***************************************************************************)
(* priceAt, the pure computation behind every price: the version of the    *)
(* price schedule in force, the price of each line (entered, from a rule   *)
(* of the catalogue or from tiers), its revision by an index, its          *)
(* adjustments, its override, then the discounts and the totals.           *)
(*                                                                         *)
(* A unit price is a number of Mills, thousandths of a euro, a total a     *)
(* number of cents, and an exact intermediate value a fraction of Mills,   *)
(* for the 40 digits of the code's decimals.  Percentages are integers.    *)
(* Days are integers.  A result carries the error that was thrown, or Ok.  *)
(* Left out: formulas, the lookup of an index value (the two values are in *)
(* the line), hour packs, whose rate only informs, and the trace.          *)
(***************************************************************************)
EXTENDS Integers, Sequences, FiniteSets, SequencesExt, FiniteSetsExt

Ok == "ok"
NoRule == "none"
NoPrice == -1       \* a missing unit price
Provided == -1      \* a quantity that a QuantityProvider measures
Unlimited == 0      \* the upper bound of the last tier
Never == 0          \* no revision
Unpublished == 0    \* an index value that is not there yet
Forever == 0        \* no end of validity
Nobody == "nobody"

NoTiers == [mode |-> "GRADUATED", tiers |-> <<>>]
NoRevision == [from |-> Never, a |-> 100, b |-> 0, s0 |-> 1, s1 |-> 1]
NoDiscount == [type |-> "PERCENT", value |-> 0, lines |-> {}]

(* A line whose price is entered.                                          *)
ManualLine(key, kind, recurrence, vat, quantity, unitPrice) ==
  [key |-> key, kind |-> kind, mode |-> "MANUAL", recurrence |-> recurrence, vat |-> vat,
   quantity |-> quantity, unitPrice |-> unitPrice, tiers |-> NoTiers, rule |-> NoRule,
   adjustments |-> <<>>, revision |-> NoRevision, discount |-> NoDiscount]

-----------------------------------------------------------------------------
(* money.ts *)

HalfAway == "HALF_AWAY_FROM_ZERO"
HalfEven == "HALF_EVEN"

(* The fraction n/d as an integer: the nearest, a half away from zero or   *)
(* to the even neighbour.                                                  *)
Nearest(n, d, mode) ==
  LET size == IF n < 0 THEN -n ELSE n
      q == size \div d
      r == size % d
      up == 2 * r > d \/ (2 * r = d /\ (mode = HalfAway \/ q % 2 = 1))
      rounded == IF up THEN q + 1 ELSE q
  IN IF n < 0 THEN -rounded ELSE rounded

Fraction(n) == [num |-> n, den |-> 1]
Scaled(x, n, d) == [num |-> x.num * n, den |-> x.den * d]

(* The Mills of one unit of the last decimal kept.                         *)
Step(scale) == CASE scale = 0 -> 1000 [] scale = 1 -> 100 [] scale = 2 -> 10 [] OTHER -> 1

RoundToScale(x, settings) ==
  LET step == Step(settings.unitPriceScale) IN
  step * Nearest(x.num, x.den * step, settings.rounding)

ToCents(x, settings) == Nearest(x.num, 10 * x.den, settings.rounding)

-----------------------------------------------------------------------------
(* schedule.ts *)

Covers(s, day) == s.validFrom <= day /\ (s.validTo = Forever \/ day <= s.validTo)

(* Which of the versions applies: exactly one, or an error.                *)
SelectError(schedules, day) ==
  LET n == Cardinality({v \in DOMAIN schedules : Covers(schedules[v], day)}) IN
  CASE n = 0 -> "NO_SCHEDULE" [] n = 1 -> Ok [] OTHER -> "OVERLAPPING_SCHEDULES"

SelectSchedule(schedules, day) ==
  schedules[CHOOSE v \in DOMAIN schedules : Covers(schedules[v], day)]

-----------------------------------------------------------------------------
(* tiers.ts: a tier goes from the former bound, excluded, to its own.      *)

Lower(tiers, i) == IF i = 1 THEN 0 ELSE tiers[i - 1].upTo

WellFormed(tiers) ==
  /\ tiers # <<>>
  /\ \A i \in DOMAIN tiers : IF tiers[i].upTo = Unlimited THEN i = Len(tiers)
                                                          ELSE tiers[i].upTo > Lower(tiers, i)

WithinTiers(tiers, quantity) ==
  Last(tiers).upTo = Unlimited \/ quantity <= Last(tiers).upTo

Reaches(tier, quantity) == tier.upTo = Unlimited \/ quantity <= tier.upTo

(* GRADUATED: each unit at the price of its tier.  VOLUME: all of them at  *)
(* the price of the tier that is reached.                                  *)
Tiered(table, quantity) ==
  LET tiers == table.tiers
      band(i) == LET top == IF Reaches(tiers[i], quantity) THEN quantity ELSE tiers[i].upTo
                 IN IF quantity > Lower(tiers, i) THEN top - Lower(tiers, i) ELSE 0
  IN IF table.mode = "VOLUME"
       THEN quantity * tiers[Min({i \in DOMAIN tiers : Reaches(tiers[i], quantity)})].unitPrice
       ELSE MapThenSumSet(LAMBDA i : band(i) * tiers[i].unitPrice, DOMAIN tiers)

-----------------------------------------------------------------------------
(* rules.ts: the thresholds of a volume or commitment discount.            *)

(* The highest threshold that is reached gives the percentage.             *)
Threshold(rule, basis) ==
  LET reached == {t \in rule.thresholds : t.min <= basis} IN
  IF reached = {} THEN 0
  ELSE (CHOOSE t \in reached : \A u \in reached : u.min <= t.min).percent

AdjustmentPercent(rule, quantity, months) ==
  Threshold(rule, IF rule.type = "VOLUME_DISCOUNT" THEN quantity ELSE months)

AdjustmentError(name, env) ==
  CASE name \notin DOMAIN env.catalog -> "RULE_NOT_FOUND"
    [] name \in DOMAIN env.catalog /\ env.catalog[name].type = "VOLUME_DISCOUNT" -> Ok
    [] name \in DOMAIN env.catalog /\ env.catalog[name].type = "COMMITMENT_DISCOUNT" ->
         IF env.months = 0 THEN "MISSING_CONTEXT" ELSE Ok
    [] OTHER -> "INVALID_LINE"

-----------------------------------------------------------------------------
(* overrides.ts *)

(* The gap is strictly above the threshold; it is infinite when the        *)
(* computed price is zero and the other one is not.                        *)
NeedsApproval(price, computed, settings) ==
  LET gap == IF price > computed THEN price - computed ELSE computed - price IN
  IF computed = 0 THEN gap # 0
  ELSE 100 * gap > settings.overrideApprovalThresholdPercent * computed

SecondApproved(o) == o.approvedBy \notin {Nobody, o.author}

(* Mutant: the status granted at the writing is trusted.                   *)
EligibleAsWritten(o, day, computed, settings) ==
  o.validFrom <= day /\ day <= o.validTo

Eligible(o, day, computed, settings) ==
  /\ o.validFrom <= day /\ day <= o.validTo
  /\ NeedsApproval(o.unitPrice, computed, settings) => SecondApproved(o)

(* The latest of the eligible overrides of a line, if it is the only one.  *)
SelectOverride(overrides, key, day, computed, settings) ==
  LET eligible == {o \in overrides : o.lineKey = key /\ Eligible(o, day, computed, settings)}
      latest == {o \in eligible : \A p \in eligible : p.validFrom <= o.validFrom}
  IN [error |-> IF Cardinality(latest) > 1 THEN "AMBIGUOUS_OVERRIDE" ELSE Ok,
      applied |-> latest]

-----------------------------------------------------------------------------
(* price-at.ts: one line, whose settings, catalogue, measured quantities,  *)
(* months of commitment and overrides are in env.                          *)

DefaultRecurrence ==
  [FLAT_MONTHLY |-> "MONTHLY", FLAT_YEARLY |-> "YEARLY", SETUP_FEE |-> "ONE_OFF",
   UNIT |-> "MONTHLY", TIERED |-> "MONTHLY", HOURLY |-> "ONE_OFF"]
ForcedKinds == {"FLAT_MONTHLY", "FLAT_YEARLY", "SETUP_FEE"}

RecurrenceOf(l) == IF l.recurrence = "default" THEN DefaultRecurrence[l.kind] ELSE l.recurrence

RecurrenceError(l) ==
  IF l.kind \in ForcedKinds /\ RecurrenceOf(l) # DefaultRecurrence[l.kind]
    THEN "INVALID_LINE" ELSE Ok

QuantityError(l, env) ==
  IF l.quantity = Provided /\ l.key \notin DOMAIN env.quantities THEN "MISSING_QUANTITY" ELSE Ok

QuantityOf(l, env) == IF l.quantity = Provided THEN env.quantities[l.key] ELSE l.quantity

TableOf(l, env) == IF l.mode = "MANUAL" THEN l.tiers ELSE env.catalog[l.rule].table

(* The price of a line comes from the line or from a rule of its kind.     *)
BaseError(l, env) ==
  LET found == l.rule \in DOMAIN env.catalog
      rule == env.catalog[l.rule]
      priced == IF l.mode = "MANUAL" THEN l.unitPrice # NoPrice ELSE rule.type = "GRID"
      tiered == /\ l.mode = "RULE" => rule.type = "TIERS"
                /\ WellFormed(TableOf(l, env).tiers)
                /\ WithinTiers(TableOf(l, env).tiers, QuantityOf(l, env))
  IN CASE l.mode = "RULE" /\ l.rule # NoRule /\ ~found -> "RULE_NOT_FOUND"
       [] l.mode = "RULE" /\ l.rule = NoRule -> "INVALID_LINE"
       [] OTHER -> IF ~(IF l.kind = "TIERED" THEN tiered ELSE priced) THEN "INVALID_LINE"
                   ELSE IF l.mode = "RULE" /\ l.kind # "TIERED" /\ l.key \notin DOMAIN rule.entries
                          THEN "RULE_NOT_FOUND"
                   ELSE Ok

BasePrice(l, env) ==
  Fraction(IF l.kind = "TIERED" THEN Tiered(TableOf(l, env), QuantityOf(l, env))
           ELSE IF l.mode = "MANUAL" THEN l.unitPrice
           ELSE env.catalog[l.rule].entries[l.key])

(* P0 x (a + b x S1 / S0), from the day of the revision on.                *)
IsRevised(l, day) == l.revision.from # Never /\ l.revision.from <= day

RevisionError(l, day) ==
  CASE ~IsRevised(l, day) -> Ok
    [] IsRevised(l, day) /\ l.revision.a + l.revision.b # 100 -> "INVALID_REVISION_COEFFICIENTS"
    [] OTHER -> IF l.revision.s1 = Unpublished THEN "INDEX_VALUE_NOT_FOUND" ELSE Ok

Revised(x, l, day) ==
  LET r == l.revision IN
  IF IsRevised(l, day) THEN Scaled(x, r.a * r.s0 + r.b * r.s1, 100 * r.s0) ELSE x

Adjusted(x, l, env) ==
  IF l.mode = "MANUAL" THEN x
  ELSE FoldLeft(LAMBDA y, name :
         Scaled(y, 100 - AdjustmentPercent(env.catalog[name], QuantityOf(l, env), env.months), 100),
         x, l.adjustments)

FirstError(errors) ==
  LET thrown == {i \in DOMAIN errors : errors[i] # Ok} IN
  IF thrown = {} THEN Ok ELSE errors[Min(thrown)]

LineError(l, env, day) ==
  LET before == FirstError(<<RecurrenceError(l), QuantityError(l, env)>>) IN
  IF before # Ok THEN before
  ELSE FirstError(<<BaseError(l, env), RevisionError(l, day)>> \o
         IF l.mode = "MANUAL" THEN <<>>
         ELSE [i \in DOMAIN l.adjustments |-> AdjustmentError(l.adjustments[i], env)])

Priced(l, recurrence, computed, unitPrice, total) ==
  [key |-> l.key, recurrence |-> recurrence, vat |-> l.vat, computed |-> computed,
   unitPrice |-> unitPrice, total |-> total]

(* A tiered line shows the average price of its units.                     *)
ComputedPrice(l, exact, quantity, settings) ==
  LET average == IF quantity = 0 THEN Fraction(0) ELSE Scaled(exact, 1, quantity) IN
  RoundToScale(IF l.kind = "TIERED" THEN average ELSE exact, settings)

(* The exact amount of the tiers is kept unless an override makes the line *)
(* flat; anything else is its rounded unit price times its quantity.       *)
SoldAt(l, env, exact, computed, choice) ==
  LET unitPrice == IF choice.applied = {} THEN computed
                   ELSE (CHOOSE o \in choice.applied : TRUE).unitPrice
      amount == IF l.kind = "TIERED" /\ choice.applied = {}
                  THEN exact ELSE Fraction(unitPrice * QuantityOf(l, env))
  IN [error |-> choice.error,
      line |-> Priced(l, RecurrenceOf(l), computed, unitPrice, ToCents(amount, env.settings))]

Overridden(l, env, day, exact, computed) ==
  SoldAt(l, env, exact, computed,
         SelectOverride(env.overrides, l.key, day, computed, env.settings))

PricedExactly(l, env, day, exact) ==
  Overridden(l, env, day, exact, ComputedPrice(l, exact, QuantityOf(l, env), env.settings))

RegularLine(l, env, day) ==
  LET error == LineError(l, env, day) IN
  IF error # Ok THEN [error |-> error, line |-> Priced(l, l.recurrence, 0, 0, 0)]
  ELSE PricedExactly(l, env, day, Adjusted(Revised(BasePrice(l, env), l, day), l, env))

(* A discount takes the rate and the recurrence of its targets, which must *)
(* be the same for all, and a part of their rounded totals.  A discount of *)
(* no line in particular is one of the subtotal.                           *)
DiscountTargets(l, regular) ==
  {p \in regular : l.discount.lines = {} \/ p.key \in l.discount.lines}

TargetError(l, regular) ==
  IF \/ l.mode # "MANUAL"
     \/ ~(l.discount.lines \subseteq {p.key : p \in regular})
     \/ DiscountTargets(l, regular) = {}
    THEN "INVALID_LINE" ELSE Ok

MismatchError(l, targets) ==
  IF \/ \E s, t \in targets : s.vat # t.vat \/ s.recurrence # t.recurrence
     \/ \E t \in targets : t.vat # l.vat \/ l.recurrence \notin {"default", t.recurrence}
    THEN "DISCOUNT_TARGET_MISMATCH" ELSE Ok

(* A percentage of at most 100, an amount of at most the base, in cents.   *)
BaseExceeded(l, base) ==
  IF l.discount.value > (IF l.discount.type = "PERCENT" THEN 100 ELSE 10 * base)
    THEN "DISCOUNT_EXCEEDS_BASE" ELSE Ok

SumOf(lines) == SumFunction([p \in lines |-> p.total])

DiscountLine(l, regular, env) ==
  LET targets == DiscountTargets(l, regular)
      base == SumOf(targets)
      error == FirstError(<<TargetError(l, regular), MismatchError(l, targets),
                            BaseExceeded(l, base)>>)
      exact == IF l.discount.type = "PERCENT" THEN Scaled(Fraction(10 * base), l.discount.value, 100)
                                              ELSE Fraction(l.discount.value)
  IN [error |-> error,
      line |-> Priced(l, IF error = Ok THEN (CHOOSE p \in targets : TRUE).recurrence
                                       ELSE l.recurrence, 0, 0,
                      -ToCents(exact, env.settings))]

-----------------------------------------------------------------------------
(* computeTotals: the VAT is rounded once for each rate.  The totals by    *)
(* month and by year that only inform are left out.                        *)

OfRecurrence(lines, recurrence) == SumOf({p \in lines : p.recurrence = recurrence})

Vat(lines, settings) ==
  LET base(rate) == SumOf({p \in lines : p.vat = rate}) IN
  SumFunction([rate \in {p.vat : p \in lines} |->
                 Nearest(base(rate) * rate, 100, settings.rounding)])

Totals(lines, settings) ==
  [ht |-> SumOf(lines), vat |-> Vat(lines, settings),
   monthly |-> OfRecurrence(lines, "MONTHLY"), quarterly |-> OfRecurrence(lines, "QUARTERLY"),
   yearly |-> OfRecurrence(lines, "YEARLY"), oneOff |-> OfRecurrence(lines, "ONE_OFF")]

-----------------------------------------------------------------------------
(* priceAt for one version: the discounts after the other lines.           *)

RepeatedKey(lines) == \E i, j \in DOMAIN lines : i # j /\ lines[i].key = lines[j].key

RegularOf(lines) == {i \in DOMAIN lines : lines[i].kind # "DISCOUNT"}
DiscountsOf(lines) == DOMAIN lines \ RegularOf(lines)

NoPrices(error) == [error |-> error, lines |-> {}]

(* The discounts are taken on the lines that are priced.                   *)
Discounted(priced, discounts) ==
  LET error == FirstError([i \in DOMAIN discounts |-> discounts[i].error]) IN
  IF error # Ok THEN NoPrices(error)
  ELSE [error |-> Ok, lines |-> priced \union {discounts[i].line : i \in DOMAIN discounts}]

WithDiscounts(lines, priced, env) ==
  Discounted(priced, [i \in DOMAIN lines |-> DiscountLine(lines[i], priced, env)])

(* The first regular line that fails stops the computation.                *)
Complete(regular, discountLines, env) ==
  LET error == FirstError([i \in DOMAIN regular |-> regular[i].error]) IN
  IF error # Ok THEN NoPrices(error)
  ELSE WithDiscounts(discountLines, {regular[i].line : i \in DOMAIN regular}, env)

PriceSchedule(lines, env, day) ==
  IF RepeatedKey(lines) THEN NoPrices("INVALID_LINE")
  ELSE Complete([i \in RegularOf(lines) |-> RegularLine(lines[i], env, day)],
                [i \in DiscountsOf(lines) |-> lines[i]], env)

PriceAt(schedules, env, day) ==
  IF SelectError(schedules, day) # Ok THEN NoPrices(SelectError(schedules, day))
  ELSE PriceSchedule(SelectSchedule(schedules, day).lines, env, day)
=============================================================================
