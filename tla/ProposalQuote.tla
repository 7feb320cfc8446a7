---------------------------- MODULE ProposalQuote ----------------------------
(***************************************************************************)
(* The interactive price table of a proposal: the client's choices decide  *)
(* which lines are kept and in what quantity (configure), the price engine *)
(* prices them (quoteProposal), and the evaluator kept beside the seed as  *)
(* an executable specification gives the totals they should have           *)
(* (reference-pricing.ts).                                                 *)
(*                                                                         *)
(* A price table is a record of its choices (by key: options in order,     *)
(* which one is the default, their months of commitment), its lines and    *)
(* its rules, in order.  Prices are in cents.  A selection gives explicit  *)
(* choices and quantities, the options that are ticked and the headcount   *)
(* that a tag or a preselection reads.  Labels, statuses of validation and *)
(* codes of the price grid are left out.                                   *)
(***************************************************************************)
EXTENDS PriceEngine

NoMonths == -1      \* an option that says nothing of the commitment
NoMaximum == -1
NoLine == "none"
Headcount == -2     \* a default quantity: the tag that the context resolves
Unresolved == -1    \* the context has no headcount

Lines(def) == ToSet(def.lines)
Keys(def) == {l.key : l \in Lines(def)}
LineOf(def, key) == CHOOSE l \in Lines(def) : l.key = key
RulesOf(def, type) == {i \in DOMAIN def.rules : def.rules[i].type = type}

(* The elements of a list at the positions that are kept, in order.        *)
AtPositions(list, kept) ==
  FoldLeft(LAMBDA out, i : IF i \in kept THEN Append(out, list[i]) ELSE out,
           <<>>, [i \in DOMAIN list |-> i])

-----------------------------------------------------------------------------
(* What is saved: PricingDefinitionSchema and SelectionSchema.             *)

OptionValues(c) == {c.options[i].value : i \in DOMAIN c.options}

(* Every value of the choice has a price, and only they do.                *)
PriceValidated(def, l) ==
  IF l.dependsOn = NoLine THEN l.unitPriceCents \in Nat
  ELSE /\ l.dependsOn \in DOMAIN def.choices
       /\ DOMAIN l.byChoice = OptionValues(def.choices[l.dependsOn])
       /\ \A value \in DOMAIN l.byChoice : l.byChoice[value] \in Nat

RuleValidated(r) ==
  /\ r.type = "MINIMUM_MONTHLY" => r.amount \in Nat
  /\ r.type = "DISCOUNT_PERCENT" => r.percent \in 1..100

Validated(def) ==
  /\ def.lines \in Seq(Lines(def)) /\ def.rules \in Seq(ToSet(def.rules))
  /\ \A i, j \in DOMAIN def.lines : def.lines[i].key = def.lines[j].key => i = j
  /\ \A l \in Lines(def) :
       /\ l.kind \in {"REQUIRED", "OPTIONAL", "SETUP", "INFO"}
       /\ l.recurrence \in {"ONE_TIME", "MONTHLY", "QUARTERLY", "YEARLY", "INFO"}
       /\ l.default \in Nat \union {Headcount}
       /\ PriceValidated(def, l)
  /\ \A r \in ToSet(def.rules) : RuleValidated(r)

Selectable(sel) ==
  /\ \A key \in DOMAIN sel.quantities : sel.quantities[key] \in Int
  /\ sel.headcount \in Nat \union {Unresolved}

(* What crossCheck requires of the tables of the seed, and the schema of   *)
(* the API does not: a rule names a choice of the table, or a line that is *)
(* no set-up; a discount is on monthly prices, and there is one monthly    *)
(* minimum; a line that informs has the recurrence INFO (the converse,     *)
(* which it leaves out, is true of the four tables).                       *)
Consistent(def) ==
  /\ \A r \in ToSet(def.rules) :
       /\ r.type = "PRESELECT_CHOICE" => r.choice \in DOMAIN def.choices
       /\ r.type = "REQUIRED_IF_ANY" /\ r.line \in Keys(def) => LineOf(def, r.line).kind # "SETUP"
       /\ r.type = "DISCOUNT_PERCENT" =>
            \A key \in r.appliesTo \intersect Keys(def) : LineOf(def, key).recurrence = "MONTHLY"
  /\ \A l \in Lines(def) : l.kind = "INFO" <=> l.recurrence = "INFO"
  /\ \A i, j \in RulesOf(def, "MINIMUM_MONTHLY") : i = j

-----------------------------------------------------------------------------
(* resolveProposalChoices: the default of the table, then the preselection *)
(* by headcount, then the explicit choice.                                 *)

DefaultChoice(c) ==
  LET marked == {i \in DOMAIN c.options : c.options[i].default} IN
  c.options[IF marked = {} THEN 1 ELSE Min(marked)].value

(* The ranges of a rule that have the headcount.                           *)
Hits(r, sel) ==
  {i \in DOMAIN r.ranges : /\ sel.headcount # Unresolved
                           /\ r.ranges[i].min <= sel.headcount
                           /\ sel.headcount <= r.ranges[i].max}

Preselecting(def, sel) ==
  {i \in RulesOf(def, "PRESELECT_CHOICE") : Hits(def.rules[i], sel) # {}}

(* The last rule of a choice wins; a rule may set one that is not there.   *)
Preselected(def, sel) ==
  LET setting(key) == {i \in Preselecting(def, sel) : def.rules[i].choice = key}
      value(r) == r.ranges[Min(Hits(r, sel))].value
  IN [key \in DOMAIN def.choices \union {def.rules[i].choice : i \in Preselecting(def, sel)} |->
        IF setting(key) = {} THEN DefaultChoice(def.choices[key])
                             ELSE value(def.rules[Max(setting(key))])]

ResolvedChoices(def, sel) ==
  LET preselected == Preselected(def, sel) IN
  [key \in DOMAIN sel.choices \union DOMAIN preselected |->
     IF key \in DOMAIN sel.choices THEN sel.choices[key] ELSE preselected[key]]

(* One choice of the table at most sets the months of commitment.          *)
CommitmentMonths(def, choices) ==
  LET months == {o.months : o \in UNION {{p \in ToSet(def.choices[key].options) :
                                            p.value = choices[key] /\ p.months # NoMonths} :
                                         key \in DOMAIN def.choices}}
  IN IF months = {} THEN 0 ELSE CHOOSE n \in months : TRUE

(* The price of a line may depend on a choice; NoPrice for a value that    *)
(* has none.                                                               *)
UnitPriceCents(l, choices) ==
  IF l.dependsOn = NoLine THEN l.unitPriceCents
  ELSE IF l.dependsOn \in DOMAIN choices /\ choices[l.dependsOn] \in DOMAIN l.byChoice
    THEN l.byChoice[choices[l.dependsOn]]
  ELSE NoPrice

-----------------------------------------------------------------------------
(* configure: the lines that are kept, with their quantities.              *)

RawQuantity(l, sel) ==
  CASE l.key \in DOMAIN sel.quantities -> sel.quantities[l.key]
    [] l.key \notin DOMAIN sel.quantities /\ l.default = Headcount ->
         IF sel.headcount = Unresolved THEN 0 ELSE sel.headcount
    [] OTHER -> l.default

Quantity(included, key) == IF key \in DOMAIN included THEN included[key] ELSE 0

Selected(def, sel) ==
  [key \in {l.key : l \in {m \in Lines(def) :
                             m.kind = "REQUIRED" \/ (m.kind = "OPTIONAL" /\ m.key \in sel.options)}}
     |-> RawQuantity(LineOf(def, key), sel)]

WithLine(included, key, quantity) ==
  [k \in DOMAIN included \union {key} |-> IF k = key THEN quantity ELSE included[k]]

Include(def, sel, included, key) ==
  IF key \in DOMAIN included THEN included
  ELSE WithLine(included, key, RawQuantity(LineOf(def, key), sel))

(* What makes a rule of inclusion add its line.                            *)
Triggered(def, included, r) ==
  \/ r.type = "REQUIRED_IF_ANY" /\ \E key \in r.ifAny : Quantity(included, key) > 0
  \/ /\ r.type = "AUTO_INCLUDE" /\ LineOf(def, r.line).kind # "SETUP"
     /\ r.when \in DOMAIN included

ApplyRule(type, def, sel, included, r) ==
  IF r.type = type /\ r.line \in Keys(def) /\ Triggered(def, included, r)
    THEN Include(def, sel, included, r.line) ELSE included

(* One loop over the rules, for those of one type.                         *)
RulePass(type, def, sel, included) ==
  FoldLeft(LAMBDA inc, r : ApplyRule(type, def, sel, inc, r), included, def.rules)

SetUp(included, l) ==
  IF l.kind = "SETUP" /\ l.linkedTo \in DOMAIN included
    THEN WithLine(included, l.key, included[l.linkedTo]) ELSE included

(* The rules of inclusion, then the set-up lines, in the quantity of the   *)
(* line they go with.                                                      *)
Included(def, sel) ==
  FoldLeft(SetUp,
           RulePass("AUTO_INCLUDE", def, sel,
                    RulePass("REQUIRED_IF_ANY", def, sel, Selected(def, sel))),
           def.lines)

InvalidQuantities(included) == {key \in DOMAIN included : included[key] < 0}

(* The bounds of one line, checked on the server.                          *)
OutOfBounds(def, sel, included, key) ==
  LET l == LineOf(def, key)
      q == included[key]
  IN \/ l.kind # "SETUP" /\ q < l.min
     \/ l.max # NoMaximum /\ q > l.max
     \/ l.maxFrom # NoLine /\ q > Quantity(included, l.maxFrom)
     \/ /\ ~l.editable /\ l.kind # "SETUP" /\ key \in DOMAIN sel.quantities
        /\ l.default # Headcount /\ q # l.default

BrokenRules(def, included) ==
  {r \in ToSet(def.rules) :
     \/ /\ r.type = "REQUIRES" /\ r.line \in DOMAIN included
        /\ ~(r.requires \subseteq DOMAIN included)
     \/ r.type = "AT_LEAST_ONE" /\ \A key \in r.lines : Quantity(included, key) = 0}

Unpriced(def, included, choices) ==
  {l \in Lines(def) : Quantity(included, l.key) > 0 /\ UnitPriceCents(l, choices) = NoPrice}

BadChoices(def, choices) ==
  {key \in DOMAIN def.choices : choices[key] \notin OptionValues(def.choices[key])}

UnresolvedTags(def, sel, included) ==
  {l \in Lines(def) : /\ l.key \in DOMAIN included /\ l.kind # "SETUP" /\ l.default = Headcount
                      /\ l.key \notin DOMAIN sel.quantities /\ sel.headcount = Unresolved}

(* The kinds of error that a configuration has.                            *)
ConfigurationErrors(def, sel, included, choices) ==
  LET kinds == [choice |-> BadChoices(def, choices) # {},
                unknownChoice |-> ~(DOMAIN sel.choices \subseteq DOMAIN def.choices),
                option |-> \E key \in sel.options :
                             key \notin Keys(def) \/ LineOf(def, key).kind # "OPTIONAL",
                unknownLine |-> ~(DOMAIN sel.quantities \subseteq Keys(def)),
                tag |-> UnresolvedTags(def, sel, included) # {},
                quantity |-> InvalidQuantities(included) # {},
                bounds |-> \E key \in DOMAIN included \ InvalidQuantities(included) :
                             OutOfBounds(def, sel, included, key),
                rule |-> BrokenRules(def, included) # {},
                price |-> Unpriced(def, included, choices) # {}]
  IN {k \in DOMAIN kinds : kinds[k]}

-----------------------------------------------------------------------------
(* quoteProposal: the engine prices what is kept.                          *)

EngineRecurrence == [MONTHLY |-> "MONTHLY", QUARTERLY |-> "QUARTERLY", YEARLY |-> "YEARLY"]

ToEngineLine(l, quantity, cents, vat) ==
  CASE l.recurrence = "INFO" ->
         ManualLine(l.key, "UNIT", "ONE_OFF", vat, quantity, 10 * cents)
    [] l.recurrence = "ONE_TIME" ->
         ManualLine(l.key, "SETUP_FEE", "default", vat, quantity, 10 * cents)
    [] OTHER -> ManualLine(l.key, "UNIT", EngineRecurrence[l.recurrence], vat, quantity, 10 * cents)

Kept(def, included) ==
  {i \in DOMAIN def.lines : /\ def.lines[i].kind # "INFO"
                            /\ Quantity(included, def.lines[i].key) # 0}

Shown(def, choices) ==
  {i \in DOMAIN def.lines : /\ def.lines[i].kind = "INFO"
                            /\ UnitPriceCents(def.lines[i], choices) # NoPrice}

EngineLines(def, choices, quantity) ==
  [i \in DOMAIN def.lines |->
     ToEngineLine(def.lines[i], quantity[i], UnitPriceCents(def.lines[i], choices), def.vat)]

(* The lines that are kept, then the displayed prices, in quantity zero.   *)
PricedLines(def, included, choices) ==
  AtPositions(EngineLines(def, choices,
                          [i \in DOMAIN def.lines |-> Quantity(included, def.lines[i].key)]),
              Kept(def, included))
  \o AtPositions(EngineLines(def, choices, [i \in DOMAIN def.lines |-> 0]), Shown(def, choices))

(* Mutant: a discount as soon as the line it depends on could be taken.    *)
GrantsAlways(r, included) == r.type = "DISCOUNT_PERCENT"

Grants(r, included) == r.type = "DISCOUNT_PERCENT" /\ r.when \in DOMAIN included

DiscountTaken(r, included) == {key \in r.appliesTo : Quantity(included, key) > 0}

EngineDiscount(def, included, r) ==
  [ManualLine(r.key, "DISCOUNT", "default", def.vat, 1, NoPrice)
     EXCEPT !.discount = [type |-> "PERCENT", value |-> r.percent,
                          lines |-> DiscountTaken(r, included)]]

Granted(def, included) ==
  {i \in DOMAIN def.rules : /\ Grants(def.rules[i], included)
                            /\ DiscountTaken(def.rules[i], included) # {}}

DiscountLines(def, included) ==
  AtPositions([i \in DOMAIN def.rules |-> EngineDiscount(def, included, def.rules[i])],
              Granted(def, included))

(* The complement to the first monthly minimum is a line that the engine   *)
(* prices with the others.                                                 *)
Complement(def, monthly) ==
  LET minima == RulesOf(def, "MINIMUM_MONTHLY")
      minimum == def.rules[Min(minima)]
  IN IF minima = {} THEN <<>>
     ELSE IF monthly >= minimum.amount THEN <<>>
     ELSE <<ManualLine(minimum.key, "FLAT_MONTHLY", "default", def.vat, 1,
                       10 * (minimum.amount - monthly))>>

MinimumLines(def, lines, env, day) ==
  Complement(def, Totals(PriceSchedule(lines, env, day).lines, env.settings).monthly)

(* The environment of a quote: no catalogue, no override, fixed quantities.*)
QuoteEnv(settings) ==
  [settings |-> settings, catalog |-> [n \in {} |-> 0], quantities |-> [k \in {} |-> 0],
   months |-> 0, overrides |-> {}]

Bucket(lines, settings) ==
  LET totals == Totals(lines, settings) IN [ht |-> totals.ht, vat |-> totals.vat]

EmptyBucket == [ht |-> 0, vat |-> 0]

(* Each period is billed with its VAT, rounded for each bill.              *)
Over(months, monthly, quarterly, yearly) ==
  [part \in {"ht", "vat"} |->
     monthly[part] * months + quarterly[part] * (months \div 3) + yearly[part] * (months \div 12)]

DurationErrors(months, quarterly, yearly) ==
  IF (quarterly.ht # 0 /\ months % 3 # 0) \/ (yearly.ht # 0 /\ months % 12 # 0)
    THEN {"duration"} ELSE {}

EmptyQuote(months, errors) ==
  [errors |-> errors, months |-> months, schedule |-> <<>>, oneTime |-> EmptyBucket,
   monthly |-> EmptyBucket, quarterly |-> EmptyBucket, yearly |-> EmptyBucket,
   commitment |-> EmptyBucket]

(* The quote of the lines that the engine has priced, by recurrence.       *)
Summed(errors, months, schedule, oneTime, monthly, quarterly, yearly) ==
  [errors |-> errors \union DurationErrors(months, quarterly, yearly), months |-> months,
   schedule |-> schedule, oneTime |-> oneTime, monthly |-> monthly, quarterly |-> quarterly,
   yearly |-> yearly, commitment |-> Over(months, monthly, quarterly, yearly)]

QuoteResult(def, errors, months, schedule, result, settings) ==
  LET of(recurrence) ==
        Bucket({p \in result.lines : /\ p.recurrence = recurrence
                                     /\ p.key \in Keys(def) => LineOf(def, p.key).kind # "INFO"},
               settings)
  IN IF result.error # Ok THEN EmptyQuote(months, errors \union {result.error})
     ELSE Summed(errors, months, schedule, of("ONE_OFF"), of("MONTHLY"), of("QUARTERLY"),
                 of("YEARLY"))

QuoteSchedule(def, errors, months, schedule, settings, day) ==
  QuoteResult(def, errors, months, schedule,
              PriceSchedule(schedule, QuoteEnv(settings), day), settings)

WithMinimum(def, lines, settings, day) ==
  lines \o MinimumLines(def, lines, QuoteEnv(settings), day)

QuoteIncluded(def, included, choices, errors, settings, day) ==
  LET months == CommitmentMonths(def, choices)
      lines == PricedLines(def, included, choices) \o DiscountLines(def, included)
  IN IF errors \intersect {"quantity", "price", "choice"} # {} THEN EmptyQuote(months, errors)
     ELSE QuoteSchedule(def, errors, months, WithMinimum(def, lines, settings, day), settings, day)

Configured(def, sel, included, choices, settings, day) ==
  QuoteIncluded(def, included, choices, ConfigurationErrors(def, sel, included, choices),
                settings, day)

Quote(def, sel, settings, day) ==
  Configured(def, sel, Included(def, sel), ResolvedChoices(def, sel), settings, day)

-----------------------------------------------------------------------------
(* reference-pricing.ts: evaluate.  It keeps the lines by the same rules,  *)
(* and adds up cents.  Left out: a discount on another discount.           *)

ReferenceSum(def, included, choices, keys) ==
  SumFunction([key \in {k \in keys \intersect DOMAIN included : included[k] > 0} |->
                 UnitPriceCents(LineOf(def, key), choices) * included[key]])

(* Math.round of a positive amount. *)
ReferenceDiscount(def, included, choices, r) ==
  (2 * ReferenceSum(def, included, choices, r.appliesTo) * r.percent + 100) \div 200

ReferenceDiscounts(def, included, choices) ==
  SumFunction([i \in {j \in RulesOf(def, "DISCOUNT_PERCENT") :
                        def.rules[j].when \in DOMAIN included} |->
                 ReferenceDiscount(def, included, choices, def.rules[i])])

(* Every minimum is reached in turn. *)
Evaluate(def, sel) ==
  LET choices == ResolvedChoices(def, sel)
      included == Included(def, sel)
      months == CommitmentMonths(def, choices)
      of(recurrence) ==
        ReferenceSum(def, included, choices,
                     {l.key : l \in {m \in Lines(def) : m.recurrence = recurrence}})
      discounted == of("MONTHLY") - ReferenceDiscounts(def, included, choices)
      monthly == Max({discounted} \union
                     {def.rules[i].amount : i \in RulesOf(def, "MINIMUM_MONTHLY")})
  IN [monthly |-> monthly, quarterly |-> of("QUARTERLY"), yearly |-> of("YEARLY"),
      oneTime |-> of("ONE_TIME"),
      commitment |-> monthly * months + of("QUARTERLY") * (months \div 3)
                       + of("YEARLY") * (months \div 12)]
=============================================================================
