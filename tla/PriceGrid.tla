------------------------------- MODULE PriceGrid -------------------------------
(* One code of a price grid: its versions per commitment, their dated prices, *)
(* and the import and export of the grid:                                     *)
(* PriceGridService, price-grid-csv.ts and price-grid.ts.                     *)
(*                                                                            *)
(* A price is a row that is never rewritten; the one in force on a day is the *)
(* one with the latest date of effect, and the last entered of those. A sheet *)
(* is what a request or a line of the CSV file says per commitment: a price,  *)
(* or EmptyCell when it is not offered; a commitment that is not in its       *)
(* domain is left as it is. ContractKinds gives the codes.                    *)
EXTENDS Naturals, Sequences, FiniteSets, SequencesExt

CONSTANTS
  Months,         \* commitments
  Amounts,        \* prices, with the purchase price
  EmptyCell,
  LastDay,        \* bound of the model: days are 1..LastDay
  MaxEntries      \* bound of the model: prices entered

ASSUME GridAssumption ==
  /\ EmptyCell \notin Amounts
  /\ IsFiniteSet(Months)
  /\ LastDay \in Nat \ {0}
  /\ MaxEntries \in Nat

VARIABLES
  aside,          \* what is archived: "kind", "item", commitments
  offer,          \* per commitment: the version of the code
  rows,           \* price_grid_prices, in the order of entry: [months, from, amount]
  entries,        \* history: every price the desk entered, written as a row or not
  today

gridVars == <<aside, offer, rows, entries, today>>

Days == 1..LastDay
Sheets == UNION {[S -> Amounts \cup {EmptyCell}] : S \in SUBSET Months}

GridInit ==
  /\ aside = {}
  /\ offer = [m \in Months |-> "none"]
  /\ rows = << >>
  /\ entries = << >>
  /\ today = 1

--------------------------------------------------------------------------------
(* The price in force.                                                        *)

Started(history, m, day) ==
  {i \in DOMAIN history : history[i].months = m /\ history[i].from <= day}

(* Mutant: the last entered decides, whatever its date.                       *)
LastEntered(history, m, day) ==
  {i \in Started(history, m, day) : \A j \in Started(history, m, day) : j <= i}

InForce(history, m, day) ==
  {i \in Started(history, m, day) :
     \A j \in Started(history, m, day) :
       \/ history[j].from < history[i].from
       \/ history[j].from = history[i].from /\ j <= i}

PriceAt(history, m, day) ==
  LET best == InForce(history, m, day)
  IN  IF best = {} THEN EmptyCell ELSE history[CHOOSE i \in best : TRUE].amount

--------------------------------------------------------------------------------
(* A sheet is applied.                                                        *)

Priced(sheet) == {m \in DOMAIN sheet : sheet[m] # EmptyCell}

(* A version that exists is offered again, with its code.                     *)
Offers(offers, sheet) ==
  [m \in Months |->
     IF m \in Priced(sheet) THEN "offered"
     ELSE IF m \in DOMAIN sheet /\ offers[m] = "offered" THEN "withdrawn" ELSE offers[m]]

(* A price that is already in force on its date is not written again.         *)
New(history, sheet, from) ==
  {m \in Priced(sheet) : PriceAt(history, m, from) # sheet[m]}

Entered(history, sheet, from) ==
  history \o SetToSeq({[months |-> m, from |-> from, amount |-> sheet[m]] :
                         m \in New(history, sheet, from)})

(* The same with the prices that were in force, for the properties.           *)
Noted(sheet, from) ==
  entries \o SetToSeq({[months |-> m, from |-> from, amount |-> sheet[m],
                        written |-> m \in New(rows, sheet, from)] : m \in Priced(sheet)})

Apply(sheet, from) ==
  /\ Priced(sheet) \cap aside = {}
  /\ Len(entries) + Cardinality(Priced(sheet)) <= MaxEntries
  /\ rows' = Entered(rows, sheet, from)
  /\ entries' = Noted(sheet, from)
  /\ offer' = Offers(offer, sheet)
  /\ UNCHANGED <<aside, today>>

(* By hand, with any date of effect.                                          *)
SetPrices(sheet, from) ==
  /\ "item" \notin aside
  /\ Apply(sheet, from)

(* A file has a column per commitment that is in use.                         *)
ImportCsv(sheet, from) ==
  /\ {"kind", "item"} \cap aside = {}
  /\ DOMAIN sheet \cap aside = {}
  /\ Apply(sheet, from)

(* Types, codes and commitments are archived and come back.                   *)
Archive(what) ==
  /\ aside' = IF what \in aside THEN aside \ {what} ELSE aside \cup {what}
  /\ UNCHANGED <<offer, rows, entries, today>>

Midnight ==
  /\ today < LastDay
  /\ today' = today + 1
  /\ UNCHANGED <<aside, offer, rows, entries>>

GridNext ==
  \/ \E sheet \in Sheets, from \in Days : SetPrices(sheet, from) \/ ImportCsv(sheet, from)
  \/ \E what \in {"kind", "item"} \cup Months : Archive(what)
  \/ Midnight

GridSpec == GridInit /\ [][GridNext]_gridVars

--------------------------------------------------------------------------------
(* What the file of the grid shows.                                           *)

(* The cell of a version that is not offered, or has no price yet, is empty.  *)
Export ==
  [m \in Months \ aside |->
     IF offer[m] = "offered" THEN PriceAt(rows, m, today) ELSE EmptyCell]

--------------------------------------------------------------------------------
(* A later price: its date is after that of entry i, or it is the same.       *)
Replaced(i, day) ==
  \E j \in DOMAIN entries :
    /\ entries[j].months = entries[i].months /\ entries[j].from <= day
    /\ \/ entries[j].from > entries[i].from
       \/ entries[j].from = entries[i].from /\ j > i

(* Entry i was not written, being in force, and the price is one that was     *)
(* entered since with an earlier date.                                        *)
Overtaken(i, price) ==
  /\ ~entries[i].written
  /\ \E j \in DOMAIN entries :
       /\ j > i /\ entries[j].months = entries[i].months
       /\ entries[j].from < entries[i].from /\ price = entries[j].amount

(* Of all the prices that the desk ever entered for a commitment, the one with*)
(* the latest date holds from that date on, and of those with the same date   *)
(* the last: an earlier date changes neither the past that documents were     *)
(* priced with nor what is scheduled. The exception is a price that was not   *)
(* written because it was in force: a price entered later with an earlier     *)
(* date takes its days. Before the first date there is no price, and the same *)
(* entry played again finds nothing to write.                                 *)
EnteredPriceHolds ==
  /\ \A i \in DOMAIN entries, day \in Days :
       LET price == PriceAt(rows, entries[i].months, day) IN
       entries[i].from <= day /\ ~Replaced(i, day)
         => price = entries[i].amount \/ Overtaken(i, price)
  /\ \A m \in Months, day \in Days :
       Started(entries, m, day) = {} => PriceAt(rows, m, day) = EmptyCell
  /\ \A m \in Months, amount \in Amounts, from \in Days :
       LET sheet == [k \in {m} |-> amount]
           after == Entered(rows, sheet, from)
       IN  Entered(after, sheet, from) = after

(* The same without the exception: nothing has to be written for a price that *)
(* is in force. It fails.                                                     *)
EveryPriceHolds ==
  \A i \in DOMAIN entries, day \in Days :
    entries[i].from <= day /\ ~Replaced(i, day)
      => PriceAt(rows, entries[i].months, day) = entries[i].amount

(* The file of the grid, imported as it is on the day it was exported,        *)
(* changes nothing. It fails: a version whose first price is scheduled has an *)
(* empty cell, and the import withdraws it.                                   *)
ExportReplays ==
  {"kind", "item"} \cap aside = {} =>
    /\ Entered(rows, Export, today) = rows
    /\ Offers(offer, Export) = offer
================================================================================
