--------------------------- MODULE ContractPricing ---------------------------
(***************************************************************************)
(* The price of one contract: the proposal it may come from, the versions  *)
(* of its price schedule, the manual overrides of a line and their second  *)
(* approval.                                                               *)
(*                                                                         *)
(* A version is DRAFT, then ACTIVE, then SUPERSEDED; only the engaged ones *)
(* (not DRAFT) and the ACTIVE overrides reach the engine.  A call of the   *)
(* desk reads, computes and writes: task[u] is what user u has read and    *)
(* not yet written, under READ COMMITTED, without any row lock.            *)
(*                                                                         *)
(* Days are integers from 1 to Horizon.  A version is known by its order   *)
(* of creation.  Left out: the number and the note of the desk, the        *)
(* deadlines and the events that follow a change.                          *)
(***************************************************************************)
EXTENDS ProposalQuote

CONSTANTS
  Users,         \* the users of the desk
  Offers,        \* what clients try: a price table and a selection
  Followed,      \* bound: the offers that are followed after the acceptance
  Catalog,       \* the rules of the tenant, by code
  Measured,      \* what the quantity provider measures, by line
  Sheets,        \* the lists of lines that the desk enters
  Periods,       \* the validity and the commitment that the desk enters
  Starts,        \* the first days that a proposal may ask for
  Concessions,   \* the line, price and validity of the overrides
  AllSettings,   \* the price settings that the tenant may choose
  Horizon,       \* the last day
  Anniversary,   \* the days after which an indexed line is revised
  MaxSchedules,  \* bound: the versions that are ever created
  MaxOverrides   \* bound: the overrides that are ever created

(* valid_from and valid_to are dates in order, and the day 0 is Forever.   *)
ASSUME PeriodsAssumption ==
  /\ Horizon \in Nat
  /\ \A p \in Periods : /\ p.from \in Nat \ {0} /\ p.to \in Nat
                        /\ p.to = Forever \/ p.from <= p.to
  /\ Starts \subseteq Nat \ {0}
  /\ Anniversary \in Nat \ {0}

(* A table is validated when it is saved, and a selection when it is sent. *)
ASSUME OffersAssumption ==
  \A offer \in Offers : Validated(offer.table) /\ Selectable(offer.selection)

(* The tables are those of the seed, or as coherent.                       *)
ASSUME TablesAssumption == \A offer \in Offers : Consistent(offer.table)

VARIABLES
  sale,        \* the proposal: its table, its selection, what was frozen
  settings,    \* the price settings of the tenant
  schedules,   \* the versions, in order of creation
  overrides,   \* the overrides, in order of creation
  task         \* what each user has read and not yet written

vars == <<sale, settings, schedules, overrides, task>>

Days == 1..Horizon
Idle == [op |-> "idle"]

-----------------------------------------------------------------------------
(* The snapshot of a contract that the engine is given.                    *)

IsEngaged(s) == s.status \in {"ACTIVE", "SUPERSEDED"}

EngagedAmong(versions) == {v \in DOMAIN versions : IsEngaged(versions[v])}
EngagedVersions == EngagedAmong(schedules)

EngineSchedules(versions) == [v \in EngagedAmong(versions) |-> versions[v]]

(* A pending override is never given to the engine.                        *)
Applicable == {o \in ToSet(overrides) : o.status = "ACTIVE"}

Env(using, applied, months) ==
  [settings |-> using, catalog |-> Catalog, quantities |-> Measured, months |-> months,
   overrides |-> applied]

(* The commitment of the version that applies on the day, if one does.     *)
MonthsOn(versions, day) ==
  IF SelectError(versions, day) = Ok THEN SelectSchedule(versions, day).months ELSE 0

PriceWith(versions, applied, day) ==
  LET engaged == EngineSchedules(versions) IN
  PriceAt(engaged, Env(settings, applied, MonthsOn(engaged, day)), day)

PriceOn(day) == PriceWith(schedules, Applicable, day)

(* The prices without any override.                                        *)
ComputedOn(day) == PriceWith(schedules, {}, day)

-----------------------------------------------------------------------------
(* The proposal: every choice of the client is quoted again, and the       *)
(* acceptance freezes the quote of the server.                             *)

(* The settings of the tenant were copied with the version.                *)
QuoteOf(offer, using) == Quote(offer.table, offer.selection, using, 1)

(* Mutant: the selection is kept as the client sent it.                    *)
FrozenAsSent(offer) == [offer.selection EXCEPT !.headcount = Unresolved]

(* The frozen selection has the resolved choices and every quantity, and   *)
(* is read without the context of the merge.                               *)
FrozenSelection(offer) ==
  [choices |-> ResolvedChoices(offer.table, offer.selection),
   quantities |-> Included(offer.table, offer.selection),
   options |-> offer.selection.options, headcount |-> Unresolved]

Choose(offer) ==
  /\ sale.state = "open"
  /\ offer.table = sale.offer.table
  /\ sale' = [sale EXCEPT !.offer = offer]
  /\ UNCHANGED <<settings, schedules, overrides, task>>

Accept ==
  /\ sale.state = "open" /\ sale.offer \in Followed
  /\ \E quote \in {QuoteOf(sale.offer, sale.settings)} :
       /\ quote.errors = {}
       /\ sale' = [state |-> "accepted", offer |-> sale.offer, settings |-> sale.settings,
                   quote |-> quote, selection |-> FrozenSelection(sale.offer)]
  /\ UNCHANGED <<settings, schedules, overrides, task>>

(* The page of the signature quotes the snapshot again, with the default   *)
(* settings.                                                               *)
DefaultSettings ==
  [rounding |-> HalfAway, unitPriceScale |-> 6, overrideApprovalThresholdPercent |-> 10]

SnapshotQuote == Quote(sale.offer.table, sale.selection, DefaultSettings, 1)

(* The line with its revision of the table, from a day on.                 *)
RevisedFrom(table, line, day) ==
  LET r == table.indexed[line.key] IN
  IF line.key \in DOMAIN table.indexed /\ line.kind \in {"UNIT", "FLAT_MONTHLY"}
    THEN [line EXCEPT !.revision = [from |-> day, a |-> r.a, b |-> r.b, s0 |-> r.s0, s1 |-> r.s1]]
    ELSE line

(* Mutant: the revision applies from the first day.                        *)
IndexedAtOnce(table, line, start) == RevisedFrom(table, line, start)

(* The indexed lines of the table are revised at the anniversary.          *)
Indexed(table, line, start) == RevisedFrom(table, line, start + Anniversary)

Version(lines, from, to, months, note) ==
  [status |-> "DRAFT", validFrom |-> from, validTo |-> to, months |-> months, note |-> note,
   lines |-> lines]

InitialVersion(start) ==
  LET schedule == sale.quote.schedule IN
  Version([i \in DOMAIN schedule |-> Indexed(sale.offer.table, schedule[i], start)],
          start, Forever, sale.quote.months, "proposal")

(* The conversion of the signed proposal: the schedule waits as a draft.   *)
Convert(start) ==
  /\ sale.state = "accepted"
  /\ sale' = [sale EXCEPT !.state = "converted"]
  /\ schedules' = <<InitialVersion(start)>>
  /\ UNCHANGED <<settings, overrides, task>>

-----------------------------------------------------------------------------
(* PricingSchedulesService: drafts.                                        *)

HasContract == sale.state \in {"none", "converted"}

CreateDraft(u, p, lines) ==
  /\ HasContract /\ task[u] = Idle /\ Len(schedules) < MaxSchedules
  /\ schedules' = Append(schedules, Version(lines, p.from, p.to, p.months, "desk"))
  /\ UNCHANGED <<sale, settings, overrides, task>>

(* A copy keeps the keys of the lines, and so the overrides.               *)
Copyable == {s.lines : s \in {t \in ToSet(schedules) : t.status # "DELETED"}}

IsDraft(v) == schedules[v].status = "DRAFT"

BeginUpdate(u, v) ==
  /\ task[u] = Idle /\ IsDraft(v)
  /\ task' = [task EXCEPT ![u] = [op |-> "update", version |-> v]]
  /\ UNCHANGED <<sale, settings, schedules, overrides>>

(* The triggers check the status of the row that is written.               *)
Writable(v) == IsDraft(v)

Update(u, p, lines) ==
  /\ task[u].op = "update" /\ Writable(task[u].version)
  /\ schedules' = [schedules EXCEPT ![task[u].version] =
       [status |-> @.status, validFrom |-> p.from, validTo |-> p.to, months |-> p.months,
        note |-> "desk", lines |-> lines]]
  /\ task' = [task EXCEPT ![u] = Idle]
  /\ UNCHANGED <<sale, settings, overrides>>

Gone == [Version(<<>>, 1, 1, 0, "desk") EXCEPT !.status = "DELETED"]

DeleteDraft(u, v) ==
  /\ task[u] = Idle /\ IsDraft(v)
  /\ schedules' = [schedules EXCEPT ![v] = Gone]
  /\ UNCHANGED <<sale, settings, overrides, task>>

-----------------------------------------------------------------------------
(* PricingSchedulesService.activate.                                       *)

StructuralErrors ==
  {"INVALID_LINE", "RULE_NOT_FOUND", "MISSING_CONTEXT", "INVALID_REVISION_COEFFICIENTS",
   "DISCOUNT_TARGET_MISMATCH", "DISCOUNT_EXCEEDS_BASE"}

(* The version alone on its first day, with one unit of what is measured.  *)
CheckError(s) ==
  LET measured == {l.key : l \in {m \in ToSet(s.lines) : m.quantity = Provided}}
      env == [settings |-> settings, catalog |-> Catalog, months |-> s.months,
              quantities |-> [key \in measured |-> 1], overrides |-> {}]
  IN PriceSchedule(s.lines, env, s.validFrom).error

Computable(s) == s.lines # <<>> /\ CheckError(s) \notin StructuralErrors

(* The two versions have a day in common.                                  *)
Overlaps(s, t) ==
  /\ t.validTo = Forever \/ s.validFrom <= t.validTo
  /\ s.validTo = Forever \/ t.validFrom <= s.validTo

BeginActivate(u, v) ==
  LET s == schedules[v]
      overlapped == {e \in EngagedVersions : Overlaps(schedules[e], s)}
  IN /\ task[u] = Idle /\ IsDraft(v) /\ Computable(s)
     /\ \A e \in overlapped : schedules[e].validFrom < s.validFrom
     /\ task' = [task EXCEPT ![u] = [op |-> "activate", version |-> v, from |-> s.validFrom,
                                     closing |-> overlapped]]
     /\ UNCHANGED <<sale, settings, schedules, overrides>>

(* Mutant: the former version ends the day before the day before.          *)
PreviousDayTwice(day) == day - 2

PreviousDay(day) == day - 1

Closed(s, last) ==
  [status |-> "SUPERSEDED", validFrom |-> s.validFrom, validTo |-> last, months |-> s.months,
   note |-> s.note, lines |-> s.lines]

Activated(s) == [s EXCEPT !.status = "ACTIVE"]

AfterEngaging(t) ==
  [v \in DOMAIN schedules |->
     IF v \in t.closing THEN Closed(schedules[v], PreviousDay(t.from))
     ELSE IF v = t.version THEN Activated(schedules[v])
     ELSE schedules[v]]

(* The end of an engaged version is set or brought forward, never put off. *)
MayClose(s, last) == (s.validTo = Forever \/ last <= s.validTo) /\ s.validFrom <= last

(* The exclusion constraint, over the engaged versions.                    *)
NoOverlap(versions) ==
  \A v, w \in DOMAIN versions :
    v # w /\ IsEngaged(versions[v]) /\ IsEngaged(versions[w]) => ~Overlaps(versions[v], versions[w])

CanEngage(t) ==
  /\ IsDraft(t.version)
  /\ \A v \in t.closing : MayClose(schedules[v], PreviousDay(t.from))
  /\ NoOverlap(AfterEngaging(t))

(* Only the status of the draft is written, whatever its dates are by now. *)
Engage(u) ==
  /\ task[u].op = "activate" /\ CanEngage(task[u])
  /\ schedules' = AfterEngaging(task[u])
  /\ task' = [task EXCEPT ![u] = Idle]
  /\ UNCHANGED <<sale, settings, overrides>>

(* A write that the database refuses undoes the whole transaction.         *)
Refused(u) ==
  /\ \/ task[u].op = "update" /\ ~Writable(task[u].version)
     \/ task[u].op = "activate" /\ ~CanEngage(task[u])
  /\ task' = [task EXCEPT ![u] = Idle]
  /\ UNCHANGED <<sale, settings, schedules, overrides>>

-----------------------------------------------------------------------------
(* PriceOverridesService.                                                  *)

(* The price of reference is read before the row is written, and decides   *)
(* whether somebody else must approve it.                                  *)
BeginOverride(u, c) ==
  /\ task[u] = Idle /\ Len(overrides) < MaxOverrides
  /\ \E p \in ComputedOn(c.validFrom).lines :
       /\ p.key = c.lineKey
       /\ task' = [task EXCEPT ![u] =
            [op |-> "override", lineKey |-> c.lineKey, unitPrice |-> c.unitPrice,
             validFrom |-> c.validFrom, validTo |-> c.validTo,
             required |-> NeedsApproval(c.unitPrice, p.computed, settings)]]
  /\ UNCHANGED <<sale, settings, schedules, overrides>>

InsertOverride(u) ==
  LET t == task[u] IN
  /\ t.op = "override" /\ Len(overrides) < MaxOverrides
  /\ overrides' = Append(overrides,
       [id |-> Len(overrides) + 1, lineKey |-> t.lineKey, unitPrice |-> t.unitPrice,
        validFrom |-> t.validFrom, validTo |-> t.validTo, author |-> u, approvedBy |-> Nobody,
        status |-> IF t.required THEN "PENDING_APPROVAL" ELSE "ACTIVE"])
  /\ task' = [task EXCEPT ![u] = Idle]
  /\ UNCHANGED <<sale, settings, schedules>>

(* Also for an active one, whose price has drifted since.                  *)
ApproveOverride(u, i) ==
  /\ task[u] = Idle
  /\ overrides[i].author # u /\ overrides[i].approvedBy = Nobody
  /\ overrides[i].status \in {"PENDING_APPROVAL", "ACTIVE"}
  /\ overrides' = [overrides EXCEPT ![i].status = "ACTIVE", ![i].approvedBy = u]
  /\ UNCHANGED <<sale, settings, schedules, task>>

RejectOverride(u, i) ==
  /\ task[u] = Idle
  /\ overrides[i].author # u /\ overrides[i].status = "PENDING_APPROVAL"
  /\ overrides' = [overrides EXCEPT ![i].status = "REJECTED"]
  /\ UNCHANGED <<sale, settings, schedules, task>>

CancelOverride(u, i) ==
  /\ task[u] = Idle
  /\ overrides[i].status \in {"PENDING_APPROVAL", "ACTIVE"}
  /\ overrides' = [overrides EXCEPT ![i].status = "CANCELLED"]
  /\ UNCHANGED <<sale, settings, schedules, task>>

(* The administrator of the tenant.                                        *)
ChangeSettings(using) ==
  /\ settings' = using
  /\ UNCHANGED <<sale, schedules, overrides, task>>

-----------------------------------------------------------------------------
(* A contract has no schedule and no override when the desk creates it,    *)
(* or comes from a proposal whose version copied the settings.             *)
NoSale == [state |-> "none"]

Init ==
  /\ settings \in AllSettings
  /\ \/ sale = NoSale
     \/ \E offer \in Offers : sale = [state |-> "open", offer |-> offer, settings |-> settings]
  /\ schedules = <<>> /\ overrides = <<>>
  /\ task = [u \in Users |-> Idle]

Drafts(u) ==
  \/ \E p \in Periods, lines \in Sheets \union Copyable : CreateDraft(u, p, lines)
  \/ \E v \in DOMAIN schedules : \/ BeginUpdate(u, v)
                                 \/ DeleteDraft(u, v)
                                 \/ BeginActivate(u, v)
  \/ \E p \in Periods, lines \in Sheets : Update(u, p, lines)
  \/ Engage(u)
  \/ Refused(u)

Overriding(u) ==
  \/ \E c \in Concessions : BeginOverride(u, c)
  \/ InsertOverride(u)
  \/ \E i \in DOMAIN overrides : \/ ApproveOverride(u, i)
                                 \/ RejectOverride(u, i)
                                 \/ CancelOverride(u, i)

Next ==
  \/ \E offer \in Offers : Choose(offer)
  \/ Accept
  \/ \E start \in Starts : Convert(start)
  \/ \E u \in Users : Drafts(u) \/ Overriding(u)
  \/ \E using \in AllSettings : ChangeSettings(using)

Spec == Init /\ [][Next]_vars

-----------------------------------------------------------------------------
(* Properties.                                                             *)

Totalled(q) == [monthly |-> q.monthly.ht, quarterly |-> q.quarterly.ht,
                yearly |-> q.yearly.ht, oneTime |-> q.oneTime.ht]

(* What the client reads is what the executable specification of the price *)
(* tables computes in plain cents, whatever he chooses: the two keep the   *)
(* same lines, round the same discounts and reach the same minimum.  It    *)
(* holds for the rounding of the reference and whole cents (proposal.ts    *)
(* against reference-pricing.ts).                                          *)
QuoteAgrees ==
  sale.state = "open" /\ sale.settings.rounding = HalfAway /\ sale.settings.unitPriceScale >= 2 =>
    \A q \in {QuoteOf(sale.offer, sale.settings)},
       r \in {Evaluate(sale.offer.table, sale.offer.selection)} :
      q.errors = {} =>
        /\ Totalled(q) = [monthly |-> r.monthly, quarterly |-> r.quarterly, yearly |-> r.yearly,
                          oneTime |-> r.oneTime]
        /\ q.commitment.ht = r.commitment

(* The page of the signature shows exactly the frozen price: the snapshot, *)
(* configured again from its own result and without the context of the     *)
(* proposal, gives the same totals and no error (snapshotQuote; its        *)
(* settings are the default ones, so only for their rounding and whole     *)
(* cents).                                                                 *)
SnapshotReplays ==
  (/\ sale.state = "accepted"
   /\ sale.settings.rounding = DefaultSettings.rounding
   /\ sale.settings.unitPriceScale >= 2) =>
    \A q \in {SnapshotQuote} :
      /\ q.errors = {}
      /\ Totalled(q) = Totalled(sale.quote)
      /\ q.commitment = sale.quote.commitment

(* The schedule of a converted proposal, once engaged as it was created,   *)
(* bills on its first day what the client signed, line of revision and     *)
(* discounts included (proposal-conversion.service.ts, price-at.ts).       *)
SignedPriceIsBilled ==
  \A v \in EngagedVersions :
    schedules[v].note = "proposal" /\ settings = sale.settings /\ Applicable = {} =>
      \A billed \in {PriceOn(schedules[v].validFrom)} :
        /\ billed.error = Ok
        /\ \A total \in {Totals(billed.lines, settings)} :
             [monthly |-> total.monthly, quarterly |-> total.quarterly,
              yearly |-> total.yearly, oneTime |-> total.oneOff] = Totalled(sale.quote)

(* To engage a version changes no price of an earlier day that a version   *)
(* already covers, whatever other versions were engaged, drafted or        *)
(* rewritten since the activation read its draft (activate: the former     *)
(* versions end the day before).                                           *)
PastPriceStays ==
  \A u \in Users : Engage(u) =>
    \A day \in Days, after \in {schedules'} :
      day < task[u].from /\ SelectError(EngineSchedules(schedules), day) = Ok =>
        PriceWith(after, Applicable, day) = PriceOn(day)
EngagingKeepsThePast == [][PastPriceStays]_vars

(* A price that is too far from the computed one on that very day was      *)
(* approved by somebody else than its author, even when the distance comes *)
(* from a revision, a later version or a new threshold.                    *)
AppliedIsBacked ==
  \A day \in Days :
    \A p \in PriceOn(day).lines :
      p.unitPrice # p.computed /\ NeedsApproval(p.unitPrice, p.computed, settings) =>
        \E o \in Applicable : o.lineKey = p.key /\ o.unitPrice = p.unitPrice /\ SecondApproved(o)

(* An engaged version keeps its lines and its first day, is never a draft  *)
(* again, and its end is only set or brought forward, even against an      *)
(* update that found it a draft (updateDraft and the triggers).            *)
FrozenOnceEngaged ==
  \A v \in EngagedVersions :
    /\ schedules'[v].lines = schedules[v].lines
    /\ schedules'[v].validFrom = schedules[v].validFrom
    /\ schedules'[v].months = schedules[v].months
    /\ IsEngaged(schedules'[v])
    /\ \/ schedules'[v].validTo = schedules[v].validTo
       \/ /\ schedules'[v].validTo # Forever
          /\ schedules[v].validTo = Forever \/ schedules'[v].validTo < schedules[v].validTo
EngagedIsFrozen == [][FrozenOnceEngaged]_vars
=============================================================================
