-------------------------------- MODULE AiGateway --------------------------------
(* The one way to a provider of text generation: the flag of the tenant, the  *)
(* provider it chose, its monthly budget, read before a call, and the line of *)
(* ai_usage written after it.  The requests of the users of one tenant are    *)
(* under way together, each read is a transaction of its own, and nothing is  *)
(* reserved: the budget of a month is compared with what is already written.  *)
(*                                                                            *)
(* A budget is a set: {} for none, {b} for b.  A cost is a whole number of    *)
(* units.  What the call sends and gives back is in Pseudonyms.               *)
EXTENDS Naturals, FiniteSets

CONSTANTS
  Callers,        \* the requests that may be under way together
  Configured,     \* the providers whose key is set
  Limits,         \* the budgets an administrator may set
  MaxCost,        \* the cost of a call
  MaxMonth,       \* bound of the model: months
  MaxSpent        \* bound of the model: units written in a month

ASSUME GatewayAssumption ==
  /\ IsFiniteSet(Callers) /\ Callers # {}
  /\ Configured \subseteq {"perplexity", "claude"}
  /\ Limits \subseteq Nat
  /\ MaxCost \in Nat \ {0}
  /\ MaxMonth \in Nat \ {0}
  /\ MaxSpent \in Nat

VARIABLES
  setting,        \* [enabled, provider, budget]: the tenant's flag and settings
  month,          \* the calendar month
  call,           \* per request: where it is in AiGateway.call, and what it read
  costs,          \* per month: the sum of cost_usd in ai_usage
  since,          \* per month: the sum of its lines and of all those after them
  allowed,        \* ghost, per month: the highest budget a call was checked against
  unlimited       \* ghost: the months of a call that no budget held

gatewayVars == <<setting, month, call, costs, since, allowed, unlimited>>

Providers == {"perplexity", "claude"}
Calendar == 1..MaxMonth
Budgets == {{}} \cup {{b} : b \in Limits}

Quiet == [phase |-> "idle", month |-> 1, provider |-> "perplexity", budget |-> {}, cost |-> 0]

GatewayTypeOK ==
  /\ setting \in [enabled: BOOLEAN, provider: Providers, budget: Budgets]
  /\ month \in Calendar
  /\ call \in [Callers ->
       [phase: {"idle", "asked", "open", "read", "out", "answered"}, month: Calendar,
        provider: Providers, budget: Budgets, cost: 0..MaxCost]]
  /\ costs \in [Calendar -> Nat]
  /\ since \in [Calendar -> Nat]
  /\ allowed \in [Calendar -> Nat]
  /\ unlimited \subseteq Calendar

GatewayInit ==
  /\ setting = [enabled |-> FALSE, provider |-> "perplexity", budget |-> {}]
  /\ month = 1
  /\ call = [u \in Callers |-> Quiet]
  /\ costs = [m \in Calendar |-> 0]
  /\ since = [m \in Calendar |-> 0]
  /\ allowed = [m \in Calendar |-> 0]
  /\ unlimited = {}

--------------------------------------------------------------------------------
(* The administrator and the calendar.                                        *)

SetFlag ==
  /\ setting' = [setting EXCEPT !.enabled = ~@]
  /\ UNCHANGED <<month, call, costs, since, allowed, unlimited>>

SetProvider(p) ==
  /\ setting' = [setting EXCEPT !.provider = p]
  /\ UNCHANGED <<month, call, costs, since, allowed, unlimited>>

SetBudget(b) ==
  /\ setting' = [setting EXCEPT !.budget = b]
  /\ UNCHANGED <<month, call, costs, since, allowed, unlimited>>

NextMonth ==
  /\ month < MaxMonth
  /\ month' = month + 1
  /\ UNCHANGED <<setting, call, costs, since, allowed, unlimited>>

--------------------------------------------------------------------------------
(* A call.                                                                    *)

(* The controller takes the time: it is the month of the check and that of    *)
(* the line, however long the call lasts.  The second call of a proposal's    *)
(* draft has the time of the first, and a month that may be over.             *)
TakeMonth(u, m) ==
  /\ call[u].phase = "idle"
  /\ call' = [call EXCEPT ![u] = [Quiet EXCEPT !.phase = "asked", !.month = m]]
  /\ UNCHANGED <<setting, month, costs, since, allowed, unlimited>>

(* Disabled: nothing leaves and nothing is written.                           *)
ReadFlag(u) ==
  /\ call[u].phase = "asked"
  /\ call' = [call EXCEPT ![u] = IF setting.enabled THEN [@ EXCEPT !.phase = "open"]
                                                    ELSE Quiet]
  /\ UNCHANGED <<setting, month, costs, since, allowed, unlimited>>

(* The settings; the budget read is the one that holds for the call.  Each    *)
(* setting is read on its own; the changes of two of them commute, and one    *)
(* read stands for all.                                                       *)
ReadSettings(u) ==
  /\ call[u].phase = "open"
  /\ call' = [call EXCEPT ![u].phase = "read", ![u].provider = setting.provider,
                          ![u].budget = setting.budget]
  /\ allowed' = [allowed EXCEPT ![call[u].month] =
                   CHOOSE a \in {@} \cup setting.budget : \A b \in {@} \cup setting.budget : a >= b]
  /\ unlimited' = IF setting.budget = {} THEN unlimited \cup {call[u].month} ELSE unlimited
  /\ UNCHANGED <<setting, month, costs, since>>

(* Mutant: a budget that is just reached lets one more call go.               *)
UnderOrAt(u) == \A b \in call[u].budget : since[call[u].month] <= b

(* The sum since the first of the month of the call is compared with the      *)
(* budget, if there is one.                                                   *)
UnderBudget(u) == \A b \in call[u].budget : since[call[u].month] < b

(* The call leaves.  A provider without a key is replaced by one that always  *)
(* fails, never by the other.                                                 *)
Go(u) ==
  /\ call[u].phase = "read"
  /\ call' = [call EXCEPT ![u] =
                IF ~UnderBudget(u) THEN Quiet
                ELSE IF call[u].provider \in Configured THEN [@ EXCEPT !.phase = "out"]
                ELSE [@ EXCEPT !.phase = "answered"]]
  /\ UNCHANGED <<setting, month, costs, since, allowed, unlimited>>

(* An answer, with its cost when the provider tells it: Claude does not.      *)
Reply(u, cost) ==
  /\ call[u].phase = "out"
  /\ call[u].provider = "claude" => cost = 0
  /\ call' = [call EXCEPT ![u].phase = "answered", ![u].cost = cost]
  /\ UNCHANGED <<setting, month, costs, since, allowed, unlimited>>

(* The line of the call: a failure is written without a cost, and a line that *)
(* cannot be written fails nothing.                                           *)
Write(u, cost) ==
  /\ call[u].phase = "answered"
  /\ cost \in {0, call[u].cost}
  /\ costs[call[u].month] + cost <= MaxSpent
  /\ costs' = [costs EXCEPT ![call[u].month] = @ + cost]
  /\ since' = [m \in Calendar |-> IF m <= call[u].month THEN since[m] + cost ELSE since[m]]
  /\ call' = [call EXCEPT ![u] = Quiet]
  /\ UNCHANGED <<setting, month, allowed, unlimited>>

(* The guard of the texts, a timeout, an answer that is refused, or the death *)
(* of the process: no cost is written.                                        *)
Fail(u) ==
  /\ call[u].phase = "out"
  /\ call' = [call EXCEPT ![u] = Quiet]
  /\ UNCHANGED <<setting, month, costs, since, allowed, unlimited>>

GatewayNext ==
  \/ SetFlag
  \/ \E p \in Providers : SetProvider(p)
  \/ \E b \in Budgets : SetBudget(b)
  \/ NextMonth
  \/ \E u \in Callers :
       \/ \E m \in 1..month : TakeMonth(u, m)
       \/ ReadFlag(u)
       \/ ReadSettings(u)
       \/ Go(u)
       \/ \E cost \in 0..MaxCost : Reply(u, cost)
       \/ \E cost \in 0..MaxCost : Write(u, cost)
       \/ Fail(u)

GatewaySpec == GatewayInit /\ [][GatewayNext]_gatewayVars

--------------------------------------------------------------------------------

(* The calls of a month that may still be written.                            *)
Unwritten(m) == {u \in Callers : call[u].month = m /\ call[u].phase \in {"out", "answered"}}

(* In a month whose calls were all held by a budget, what is written passes   *)
(* the highest of these budgets by less than the cost of one call for each    *)
(* request that can be under way: the check reserves nothing, and calls that  *)
(* were checked before the others are written all go.                         *)
OverspendingBounded ==
  \A m \in Calendar \ unlimited : costs[m] < allowed[m] + MaxCost * Cardinality(Callers)
================================================================================
