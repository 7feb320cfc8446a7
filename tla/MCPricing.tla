----------------------------- MODULE MCPricing -----------------------------
(* ContractPricing with one price table, the selections of a client, and   *)
(* a few sheets and overrides of the desk.  Prices are in cents in a table *)
(* and in Mills on a line.                                                 *)
EXTENDS ContractPricing, TLC

CONSTANTS u1, u2

Symmetry == Permutations(Users)

None == [key \in {} |-> 0]

Item(key, kind, recurrence, cents) ==
  [key |-> key, kind |-> kind, recurrence |-> recurrence, unitPriceCents |-> cents,
   dependsOn |-> NoLine, byChoice |-> None, default |-> 1, min |-> 0, max |-> NoMaximum,
   maxFrom |-> NoLine, editable |-> TRUE, linkedTo |-> NoLine]

(* The rent of a site depends on the term, the backup goes with a set-up   *)
(* and a discount on the sites, the audit brings the backup.               *)
Table ==
  [choices |-> "term" :> [options |-> <<[value |-> "year", default |-> FALSE, months |-> 12],
                                        [value |-> "two", default |-> TRUE, months |-> 24],
                                        [value |-> "month", default |-> FALSE, months |-> 1]>>],
   vat |-> 20,
   lines |-> <<
     [Item("site", "REQUIRED", "MONTHLY", NoPrice) EXCEPT !.dependsOn = "term",
        !.byChoice = ("year" :> 105) @@ ("two" :> 95) @@ ("month" :> 125),
        !.default = Headcount, !.min = 1, !.max = 5],
     [Item("backup", "OPTIONAL", "MONTHLY", 35) EXCEPT !.maxFrom = "site"],
     [Item("setup", "SETUP", "ONE_TIME", 250) EXCEPT !.linkedTo = "backup"],
     [Item("audit", "OPTIONAL", "YEARLY", 999) EXCEPT !.editable = FALSE],
     [Item("report", "OPTIONAL", "QUARTERLY", 50) EXCEPT !.editable = FALSE],
     Item("hotline", "INFO", "INFO", 90)>>,
   rules |-> <<
     [type |-> "PRESELECT_CHOICE", choice |-> "term",
      ranges |-> <<[min |-> 1, max |-> 2, value |-> "year"], [min |-> 3, max |-> 9, value |-> "two"]>>],
     [type |-> "REQUIRED_IF_ANY", line |-> "report", ifAny |-> {"audit"}],
     [type |-> "AUTO_INCLUDE", line |-> "backup", when |-> "report"],
     [type |-> "REQUIRES", line |-> "audit", requires |-> {"site"}],
     [type |-> "AT_LEAST_ONE", lines |-> {"site", "backup"}],
     [type |-> "DISCOUNT_PERCENT", key |-> "bundle", when |-> "backup", appliesTo |-> {"site"},
      percent |-> 15],
     [type |-> "MINIMUM_MONTHLY", key |-> "floor", amount |-> 250]>>,
   indexed |-> "site" :> [from |-> Never, a |-> 20, b |-> 80, s0 |-> 100, s1 |-> 125]]

ChoicesTried == {None, "term" :> "year", "term" :> "month", "term" :> "weekly"}
QuantitiesTried == {None, "site" :> 3, ("site" :> 2) @@ ("backup" :> 2), "backup" :> 3, "site" :> 0,
               "audit" :> 2}

Pick(choices, quantities, options, headcount) ==
  [table |-> Table,
   selection |-> [choices |-> choices, quantities |-> quantities, options |-> options,
                  headcount |-> headcount]]

MCOffers ==
  {Pick(c, q, o, h) : c \in ChoicesTried, q \in QuantitiesTried,
                      o \in {{}, {"backup"}, {"audit"}, {"audit", "backup"}},
                      h \in {Unresolved, 2, 4}}

MCFollowed == {Pick(None, None, {"audit"}, 4),
               Pick("term" :> "year", ("site" :> 2) @@ ("backup" :> 2), {"backup"}, Unresolved)}

(* A flat price that an index revises on day 3, from 1.00 to 1.24; prices  *)
(* of the catalogue; a schedule that cannot be computed from day 3 on.     *)
Flat == <<[ManualLine("site", "UNIT", "default", 20, 2, 1000) EXCEPT
             !.revision = [from |-> 3, a |-> 20, b |-> 80, s0 |-> 100, s1 |-> 130]]>>
Usage ==
  <<[ManualLine("calls", "TIERED", "default", 20, Provided, NoPrice) EXCEPT
       !.mode = "RULE", !.rule = "bands"],
    [ManualLine("site", "UNIT", "default", 20, 2, NoPrice) EXCEPT
       !.mode = "RULE", !.rule = "grid", !.adjustments = <<"loyalty">>]>>
Broken == <<[ManualLine("site", "UNIT", "default", 20, 2, 1000) EXCEPT
               !.revision = [from |-> 3, a |-> 20, b |-> 90, s0 |-> 100, s1 |-> 130]]>>

MCSheets == {Flat, Usage, Broken}

MCCatalog ==
  [bands |-> [type |-> "TIERS",
              table |-> [mode |-> "GRADUATED", tiers |-> <<[upTo |-> 10, unitPrice |-> 30],
                                                           [upTo |-> Unlimited, unitPrice |-> 15]>>]],
   grid |-> [type |-> "GRID", entries |-> [site |-> 1205]],
   loyalty |-> [type |-> "COMMITMENT_DISCOUNT",
                thresholds |-> {[min |-> 12, percent |-> 5], [min |-> 24, percent |-> 10]}]]

MCMeasured == [calls |-> 17]

MCPeriods == {[from |-> 1, to |-> Forever, months |-> 12], [from |-> 3, to |-> Forever, months |-> 24],
              [from |-> 2, to |-> 3, months |-> 0]}

MCConcessions == {[lineKey |-> "site", unitPrice |-> 1090, validFrom |-> 2, validTo |-> 4],
                  [lineKey |-> "site", unitPrice |-> 500, validFrom |-> 1, validTo |-> 4]}

MCSettings ==
  {[rounding |-> HalfAway, unitPriceScale |-> 2, overrideApprovalThresholdPercent |-> 10],
   [rounding |-> HalfEven, unitPriceScale |-> 6, overrideApprovalThresholdPercent |-> 0]}
=============================================================================
