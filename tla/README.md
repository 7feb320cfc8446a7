# A TLA+ model of the contract life cycle

This directory holds TLA+ specifications of the contract management application, the TLC
configurations that check them and TLAPS proofs about them. They follow the code as it is
written; where the code and a document of the repository disagree, the model does what the code
does and a run shows the disagreement.

Paths are relative to the repository; `A/` stands for `apps/api/src/`.

## 1. The system

The application drafts contracts between a managed service provider (LSI) and its customers, has
them reviewed, presented to the client, signed electronically with DocuSeal, and then follows them
until they expire, are renewed or are terminated. The code is a NestJS API and a worker over one
PostgreSQL database, with Redis/BullMQ as the queue. What makes it hard:

- every handler is one transaction at the default level, READ COMMITTED. It reads the contract,
  gives that snapshot to a pure state machine, and writes the result by id. Neither a row lock nor
  a version column ties the write to the read; what serialises is a handful of unique and partial
  indexes;
- calls of the outside (rendering, DocuSeal) are made between two transactions, and the process
  may die, or the call fail or time out, at each point;
- DocuSeal repeats, reorders, delays and loses its webhooks, and a job that reads the provider's
  state is a second source of the same facts;
- the daily sweep finds its candidates in one query and handles each in a later transaction,
  while the desk and the clock move; it may die, or not run for days;
- parent and child contracts (successors, amendments) have lives of their own and meet when the
  child is signed.

### Inventory

| Part | State | Operations | Talks to | What must hold | Where |
|---|---|---|---|---|---|
| State machine (`packages/domain/src/contract`) | none | 20 statuses, 24 events: guard and next snapshot | called by every service | the rules of `docs/contrats/02-cycle-de-vie.md` | ContractMachine |
| Contracts, review (`A/contracts/contracts.service.ts`) | contracts row, approvals, cancellations, renewal requests | create, submit, approve, request changes, cancel, terminate, renew, refuse, amend | state machine | separation of duties, approval bound to a version, one live renewal | ContractReview, ContractLifecycle |
| Content, signers (`content.service.ts`, `signers.service.ts`) | versions, signers | save, add, remove | state machine | the current version is the newest | ContractReview |
| Acceptance, negotiation (`A/negotiation`) | acceptances | present, accept, negotiate | state machine | what is accepted is what was approved, with its proof | ContractReview |
| Sending (`A/signature/send-for-signature.service.ts`) | signature requests | send | renderer, storage, DocuSeal | one live request and one live submission | SignatureFlow |
| Revocation (`signature-actions.service.ts`) | request, contract | revoke | DocuSeal | the request closes once | SignatureFlow |
| Webhooks, reconciliation (`A/webhooks`) | signature events, signers, requests | process, reconcile | DocuSeal, parents of the contract | the final state does not depend on the order of facts | SignatureFlow, ContractLifecycle |
| Life cycle sweep (`A/jobs/lifecycle.service.ts`) | contracts, periods | activate, renew tacitly, open a renewal, expire, complete a termination | discovery queries of the migrations | every date is acted on, once | ContractLifecycle |
| Renewal desk (`A/renewal`) | contracts, periods | renew a period, close, withdraw a termination | state machine | periods without a gap | ContractLifecycle |
| Imports (`A/imports`) | imports | upload, OCR with attempts and timers, retry, validate | OCR service, queue, state machine | an OCR ends; an import is validated once | BackgroundJobs, ContractLifecycle |
| Proof capture, queue (`proof-capture.service.ts`, `bullmq-job-queue.ts`) | stored proof, jobs | capture, enqueue, hourly reconciliation | DocuSeal, storage | every completed request gets its proof | BackgroundJobs |
| Reminders, deadlines | reminders, deadlines | recompute, dispatch, send | e-mail, queue | a due alert leaves PENDING | BackgroundJobs |
| Proposals (`packages/domain/src/proposal`, `A/proposals`) | proposals, versions, links, follow-ups, signatures | compose, review, send, revise, read, accept, sign, convert, expire | DocuSeal, queue, contracts, pricing | what is signed is what the client accepted, and becomes one contract | ProposalMachine, ProposalFlow |
| Outgoing webhooks (`A/webhooks-out`) | deliveries, subscriptions | publish, discover, lease, attempt, re-deliver, disable | subscribers | every delivery settles; a failing subscriber is switched off | WebhookDelivery |
| Pricing (`packages/pricing`, `A/pricing`) | schedules, overrides | quote, price at a date, draft, engage, override | proposals, contracts | the price signed is the price billed; engaged prices do not change | PriceEngine, ProposalQuote, ContractPricing |
| Structure, clauses (`A/structure/structure.service.ts`) | clauses of a version, their reviews, two counts of the row | save clauses, draft by AI, review a clause, free text | content, state machine | only a reviewed and complete text is submitted | StructuredContent |
| Clause library, templates (`A/structure/clause-library.service.ts`, `A/templates`) | clauses, versions of a template | new clause version, archive, compose, write, publish, deprecate | creation of a contract | a contract is made of what was published | ContractTemplates |
| Kinds and grids (`A/contract-kinds`, migration 34) | kinds, codes, dated prices | create, rename, remove, archive a kind; create a code; set, import and export prices | proposals | a code designates one kind; a price holds from its date, whatever is entered next | ContractKinds, PriceGrid |
| Audit chain, journal (migrations 14, 15, 17, `A/audit`, `contract-producers.ts`) | entries chained by their digests, published events | a trigger records a status, the interceptor a request; verify | every service | an unbroken chain per tenant, a journal without a hole | TransitionLog |
| AI drafting (`packages/domain/src/pseudonymization`, `A/ai-drafting`, `A/tenant`) | table of tokens of a request; flag, provider, budget, lines of `ai_usage` | recode, guard, send, give back; read the settings, compare, call, write | providers outside, structure, proposals | nothing that identifies somebody leaves, the answer comes back whole, a month's overspending is bounded | Pseudonyms, AiGateway |
| Authentication, row-level security, portal, public API, customers, notifications, front-end, deployment | | | | no protocol with the contract's life, or input and output only | not modelled |

`PROJECT.json` repeats the list with the sources of each part, and lists the hazards of the code
at their lines with the properties aimed at them.

## 2. The modules

```
ContractMachine          the pure state machine, no variables
  ContractReview         drafting, review, acceptance; overlapping transactions
    ContractReviewProofs
  StructuredContent      clauses, variables and their review, up to the submission
  SignatureFlow          send, revoke, webhooks, reconciliation, the provider
    implements RequestLifecycle (abstract)
    SignatureFlowProofs
  ContractLifecycle      sweep, desk, successors and amendments after signature
    ContractLifecycleProofs
ProposalMachine          the pure state machine of a proposal
  ProposalFlow           desk, links, signature and conversion of a proposal
    ProposalFlowProofs
PriceEngine              priceAt, no variables
  ProposalQuote          configuration and quote of a price table, and its reference
    ContractPricing      schedules and overrides of a contract
      ContractPricingProofs
ContractTemplates        clause library, one template, the contracts made from it
ContractKinds            types of contracts and the codes of their grids
PriceGrid                the dated prices of one code
TransitionLog            the audit chain, the journal and the events that a status leaves (on ContractMachine)
  TransitionLogProofs
Pseudonyms               one request to a provider of text: recoded, guarded, given back
AiGateway                the calls of one tenant, its settings and its monthly budget
  DocumentsProofs        on StructuredContent, ContractTemplates, ContractKinds, PriceGrid,
                         Pseudonyms and AiGateway, which share no variable
WebhookDelivery          the outgoing webhooks of one subscription
  WebhookDeliveryProofs
BackgroundJobs           queue, captures, OCR, alerts
MCReview, MCSignature, MCLifecycle, MCProposal, MCPricing, MCWebhook, MCJobs, MCTransitionLog,
MCPseudonyms, MCDocuments
                         model values, bounds and symmetry for TLC
```

**ContractMachine** translates `state-machine.ts`: `Transitions` is its matrix, `CanX` the guard of
an event, and the operator named by the participle (`Approved`, `Expired`, ...) its effect on the
snapshot. Texts, e-mail formats and mandatory clauses become one Boolean, `complete`. Versions and
days are numbers from 1, and 0 is null.

**ContractReview** is one contract until its acceptance. `row`, `approvals`, `acceptances` are the
tables; `versions` and `signers` are abstracted to a count and the set of parties. A handler is a
`Begin` (all it reads, and the guards) and a `Commit` (all it writes), and `request` holds the
snapshot in between. `Persisted` writes the columns `persistTransition` writes and no others. The
unique index on version numbers rolls back the second of two saves.

**StructuredContent** is the text of one contract as clauses. `contract` holds the two counts that
the guard of the submission reads, `draft` the current version, `decided` what the history of the reviews
says last about a text under a key (decisions are rows about a clause of a version; the code finds them
again by key and body). An AI clause gets a new key, since the code draws it at random. A handler is a
`Fetch...` and a write, as in ContractReview. A variable is a text that needs a value.

**ContractTemplates** is the clause library, one template and its contracts, each handler one step.
A composition is a function from clause keys to texts, the free text is the composition with the key
`Corps`, as `templateClauses` makes it. Titles belong to the library and not to its versions.

**ContractKinds** is what two requests of the administration do to kinds and codes: `Ask...` is what
the service reads and checks, the next step what it writes under the triggers, the unique keys and the
foreign key of migration 34. **PriceGrid** is one code: `rows` are the dated prices in the order of
entry, `offer` the version of each commitment, and a `sheet` is what a request or a line of the file says.
`entries` only remembers everything that was entered, written or not: the code writes no row for a price
that is in force, and the properties speak of what was entered.

**SignatureFlow** is the signature of one contract. `send` is `Prepare` (first transaction),
`Render` and `CreateSubmission` or `CreateFails` outside any transaction, then `Acknowledge`
(second transaction) or `RecordFailure`; `Crash` stops it anywhere. `revoke` is `RevokeValidate`,
`RevokeAtProvider`, `RevokeCommit`. `DocusealWebhookService.process` is `Receive` (event id and
guards), for a completed form `Count` (the signer's row is locked and the others are counted as
committed), and an `Apply`. `sub` and `form` are the provider, external to the repository, modelled
from what the adapter reads. The desk's handlers are single steps here, and the editing of signers is
left out. **RequestLifecycle** is what the component promises: one active request, forward only,
closed once. SignatureFlow implements it with `status <- [r |-> req[r].status]`.

**ContractLifecycle** is a main contract after its signature or import. The sweep (`job`) is five
phases; `Discover` asks the query of the phase (`Due`), and the transaction of the phase reads the
row again and checks what the code checks again, no more. The day of the sweep is the day it began;
the queries use the day they run. `child` is what a parent reads of its successors and amendments;
`CompleteChild` is the end of `completeAll` that accepts a renewal and reports an amendment. The
transactions are single steps. Months are abstracted to a number of days (`Period`), the notice to
days (`Notice`), the price and the reminders are left out, and so are the rows nothing reads back
(cancellations, lifecycle events).

**ProposalMachine** translates the state machine of a proposal, with the readiness that `computeState`
finds as a parameter. **ProposalFlow** is one proposal from its draft to the contract it becomes. A
handler of the desk is one transaction. A call of the public page reads in one transaction and writes in
another (`call`), and anything may happen in between. The start of a signature and the capture of its
proofs are two transactions each around calls that may fail, time out or die. The webhook that closes a
request enqueues the capture after its commit (`enqueuing`, then `Enqueue`, or `EnqueueFails`, which the
code only logs). A capture is run by its job, which has so many runs (`jobs`), or by the sweep, for the
requests its query finds (`Runners`, `capturing`). `Convert` is the conversion under its unique index,
`Expire` and `FollowUp` the sweep's. Of a configuration of the price table only whether its amount is
above the thresholds is kept, and of the content whether it can be presented and one section that may be
drafted by AI.

**PriceEngine** is `priceAt`: the schedule in force, the price of a line (entered, from a rule or
from tiers), its revision, adjustments and override, then discounts and totals; the errors the
code throws are values. A unit price is in Mills, a total in cents, and intermediate values are exact
fractions, as the code's decimals of 40 digits. A schedule where a key comes twice has no price
(`RepeatedKey`). **ProposalQuote** is the configuration of a price table by a client's choices (its loops
over the rules and the lines are folds, one step per operator: `ApplyRule`, `SetUp`) and its quote by the engine, with
`Reference...`, the evaluator the repository keeps beside the seed as an executable specification
(`reference-pricing.ts`), on the same configuration. `Validated` and `Selectable` are what the schemas of the API check of
a table and of a selection, `Consistent` what `crossCheck` requires besides of the tables of the seed.
**ContractPricing** is one contract: the proposal it may come from, the versions of its schedule, and the
overrides with their second approval. `task[u]` is what a user's call has read and not yet written.

**WebhookDelivery** is one subscription: the outbox, the passes of the job, the administration's
requests, and a consumer that accepts or refuses. An attempt is a reservation (a read, then an update
conditioned on the date that was read), a request and a record. A date is kept as past or not,
and `fresh` says that the date a process has read is still in the row.

**BackgroundJobs** is what runs after a commit: a proof's capture, the OCR of an import, a
deadline's alert. `subject` says which kind of row the behaviour follows, since a job touches only the
row it is named after. The queue is BullMQ by what the code relies on: a known identifier is not
added again, the job of a lost worker goes back once, a finished job is kept until pushed out.

**TransitionLog** is what a change of status leaves behind, in transactions cut at each statement.
`Writers` are connections. A service moves a contract (`Move`, `ReadBefore`: decided on what is
committed, without a lock), and its `Update` takes the row lock; the trigger then takes the lock of the
tenant's chain (`LockChain`), reads the newest entry (`ReadLink`) and inserts (`InsertEntry`). Locks go
with the transaction (`CommitTx`, `RollbackTx`). `Record` is the interceptor, which appends an entry in
a transaction of its own after the answer. A digest is the list of what it chains, so two digests are
equal only for equal contents; `verifyAuditChain` is the verification of migration 15. The table
lifecycle_events is written by the same statement, with the same contents, and is read off the chain.

**Pseudonyms** is one request with its fields. A text is a sequence of words, and a word has the class
that the patterns of `pseudonymize.ts` tell apart; an operator such as `Street` says where a pattern that
begins at a word ends, and sees the words as far as the next token. `RunPass` is one pass over a text,
`Passes` their order, `TokenTable` and `TokenFor` the table shared by the fields. `Recode` is one field,
`Send` the guard on what is joined, and `Answer` copies fields in any order and gives them their values back.

**AiGateway** is `AiGateway.call` for the requests of one tenant, cut where it reads and writes: the flag,
the settings, the sum of the lines since the first of the month, the call, the line. A request keeps the time
it began with. `allowed` and `unlimited` only remember the budgets that calls were checked against.

## 3. The runs

| Run | Instance | Distinct states | What it shows |
|---|---|---|---|
| Documents | ContractReview with 2 users, 1 transaction, 3 versions, 3 submissions; StructuredContent with 1 editor, 2 keys, 2 texts, 3 versions; ContractTemplates with 2 clauses, 2 texts, 2 versions, 1 contract; ContractKinds with 2 requests, 2 kinds, 2 prefixes; PriceGrid with 2 commitments, 2 amounts, 3 days, 3 entries; TransitionLog with 3 contracts of 2 tenants, 2 connections, 3 transactions of up to 2 moves; Pseudonyms with 8.7 k requests of two fields; AiGateway with 2 requests, 2 months, 1 budget, 1 provider of 2 configured | 1.68 M | approvals and presentations are of the version that was reviewed; only a reviewed text is submitted; a contract keeps what was published; a code designates one kind; a price holds from its date; the chain of a tenant verifies, and the journal of a contract has no hole and ends at its status; nothing recognisable leaves, an answer comes back whole; a month passes its budget by less than a call for each request |
| ReviewStaleApproval | 2 users, 2 transactions, 2 versions | counterexample | an overlapping edit takes the approval of another version |
| SignatureQuiet | 2 signers, 2 sends, 1 worker, crash, refusal, other bytes | 336 k | one live submission, signed by all on one submission, convergence whatever the order of facts, refinement of RequestLifecycle |
| SignatureSync | 1 send, webhooks and reconciliation, views, timeout | 238 k | signatures are never undone by a late fact; the job catches up (liveness) |
| LifecycleRenewals | 2 successors, 4 days, notice 1, catch-up 2 | 2.7 M | periods without a gap, a signed renewal is never forgotten |
| LifecycleTerms | 1 amendment, 3 days, notice 1, catch-up 1 | 415 k | a notice freezes the term; every date is acted on (liveness) |
| ProposalVersions | 2 users, 1 call, 2 versions, 1 acceptance, 2 starts, refusal | 2.5 M | what is accepted is in force; a link opens the current version; a draft of the AI was read; one submission per acceptance |
| ProposalSignature | 1 version, 2 calls, refusals, timeouts, crashes, 2 runs of a capture job | 265 k | the contract has the terms that were signed; an open proposal expires and a signed one is converted (liveness), except when a capture dies between its transactions and no job is left |
| ProposalAsContract | the option `signedProposalIsContract` | counterexample | a signed proposal that never becomes a contract |
| PricingLife | 1 price table, 3 sheets, 2 users, 2 versions, 1 override, 4 days | 582 k | the quote agrees with the reference, the frozen selection replays, the price signed is billed, engaged prices stay |
| WebhookDelivery | 1 delivery, 2 passes, 1 desk, 3 attempts, threshold 2, 1 crash | 177 k | the switch-off, what was accepted stays, every delivery settles (liveness) |
| BackgroundJobs | 2 workers, 2 jobs, 2 attempts | 692 k | proofs, OCR and alerts reach their end (liveness), with the exceptions that the properties name |

MCDocuments puts eight modules that share no variable in one run. `part` says which one a behaviour
follows, the others stay where they start, so the run explores the sum of their states.

Every property of a passing run has a mutant: an operator defined next to the one it replaces,
commented "Mutant", that makes the property fail in the same run.

### Bounds

Two users are enough for an author and a colleague, two transactions for every race of a read and a
write, and three versions for an approval, its loss and another one, or for a clause that is reworded and
comes back to a text already judged. Two versions of a template are a published one and the next; three
days and three entries a price, the same one scheduled or confirmed while it is in force, and another
entered with an earlier date or the same. Two connections are one that waits for a
lock and one that holds it, and three transactions let the waiting one start first, append two entries,
and be followed by the entry of a request; one contract of another tenant takes numbers in between. Two signers tell "one" from
"all". Two sends are a request and its successor. Four days with a catch-up of two let a sweep add
no period, one, two, and be stopped by its own limit (50 in the code). Two successors are needed
for the second to take the place of the first. Two versions of a proposal are a version and the
revision that replaces it, two calls a reader and the one who accepts meanwhile. Two runs of a capture
job are one and the last one (BullMQ gives two to a job whose worker dies, and 8 attempts to one that fails). Two passes and one
administrator are a sender, the one who takes over its lease and a re-delivery between them; three
attempts are a first, a middle and a last. Two workers let a job run twice. Pricing enumerates 288
offers (choices, quantities, settings) at the acceptance, follows two of them, and then lets the desk
enter three sheets, three validities, two overrides and two settings: two schedules are one
engaged and the next, and four days hold a start, a revision, an override with its end and a gap.
The requests to a provider have a title of one word and a text of two, a text of three, or of four among
figures and streets: a value, what cuts it and what follows it. Two requests under way are one that was
checked and one that is written meanwhile, two months a call that outlives its own.
`MaxVersions`, `MaxApprovals`, `MaxRequests`, `MaxDay` and the others bound what users, faults and the clock
may do; the proofs below do not depend on them. Model values are symmetric only in the runs without
liveness.

`CHECK_DEADLOCK` is off: contracts end, and the bounds end the rest.

### Fairness

- SignatureFlow: a transaction that is possible again and again commits in the end (BullMQ and the
  provider retry those that abort), and the job scheduled every 30 minutes finds the requests that
  await the provider.
- ContractLifecycle: again and again one sweep runs to its end (`SweepEnds`); BullMQ schedules it
  every day, and any number of them may die.
- ProposalFlow (all weak): the sweep runs every five minutes, so what is due expires, and what it finds is
  reconciled, captured or converted; a job is run as long as it has runs; a process that has committed
  goes on to enqueue, unless that fails or it dies. A job may fail at each of its runs; only the sweep, which
  tries again for ever, is assumed to succeed in the end.
- WebhookDelivery: the job runs every minute and its passes go on, time passes, and finitely many
  processes die.
- BackgroundJobs: workers handle their jobs, the queue recovers stalled ones, the periodic jobs
  run.

Nothing is assumed of users, signers, clients, the provider, the webhooks or the clock.

## 4. What is proved

`tlapm` checks these for every value of the constants that the modules' assumptions admit; TLC
evaluates the assumptions.

**ContractReviewProofs.** `ReviewSafe`: with any number of users and overlapping transactions,
type correctness, separation of duties, the current version is the newest, and an accepted version has
its row (`CurrentStaysNewest`, `AcceptanceStaysBacked` single out the last two). These are not
inductive: a transaction in flight writes what it read earlier. `ReviewInv` adds
`Justified`: what a snapshot will write back was true when it was read, and its evidence (an
acceptance row, the author of an approval) is never deleted. `SerialReviewSafe`, its parts
`SerialPresentedApproved` and `SerialPendingMatches`,
`SerialTerminalIsFinal` and `SerialDecisionIsFinal` (with the separation of duties, no run repeats
these two) need the assumption that transactions do not overlap (`Serial`), and an invariant
(`SerialInv`) that adds that the snapshot in flight is still the row.

**ContractLifecycleProofs.** `LifecycleSafe`: types, `RenewalLinked` (`LinkToRenewalHolds`; no run repeats it) and
`PeriodsCoverTerm`. `SignedRenewalCounts`, `TacitRenewsForEver` and `NoticeFreezesTerm` are the three
action properties. They share `LifecycleInv`, which adds to the first three:

- `Outgoing`: only a child that is sent, or was cancelled while sent, has a live submission, so a
  completion never finds a child it would sign twice;
- `Unvalidated`: nothing has happened to an import before its validation, so its first period is
  the first;
- `Candidate`: what made the contract a candidate still holds where the transaction does not read it
  again. `ExpireDue` does not read the renewal mode again, and is right only because the mode is
  written once, by the validation, from a status that no query selects;
- `Renewable`: a contract in RENEWAL_DUE has a renewal mode and, unless an amendment gave it its
  term, periods to continue.

`PeriodsAdded` is the lemma about the catch-up: k periods appended to a sequence without a gap give
one without a gap, k periods longer.

**SignatureFlowProofs.** Under every fault and with overlapping transactions: `SignatureTypeOK`,
`SignatureOneActiveRequest`, and `SignatureOnlyCallEndsCreating` (a request leaves CREATING through its
own call or never, so that the request of a dead call stays there). Without overlapping
writers (`~Overlap`, the setting of the run SignatureQuiet): `QuietRequestsRefined`, the refinement of
RequestLifecycle, and `QuietClosedStaysClosed`. The refinement needs that what a pending event was
received for still holds when it is applied, which is true only while nobody else writes the request.

Also without overlap, for any number of signers, sends and workers, any of the faults and with facts
lost, late, repeated or out of order: `QuietSignedByAll`, `QuietCompletedIsSigned`,
`QuietSignedStaysSigned`, `QuietConverged` and `QuietOneLiveSubmission`. They share `FollowInv`, which says
how far each party follows the one before it:

- `ProviderTold`: what the provider holds of a submission (completed exactly when every form is);
- `CallsTold`: a request that waits or has ended has a submission, and a revoked one an archived one;
- `SignersFollow`, `EndsFollow`: a signer is SIGNED only when the form of the request that waits is
  completed, and a request ends as its submission did;
- `ReadStillTrue`: what an open transaction has read of the signers and of the provider still holds;
- `JournalTold`, `ContractFollows`: an event that was recorded was taken into account, and the contract is
  with its request.

`SignersFollow` has no converse, and this is a finding of the proof: a revocation is committed after its call
to the provider, possibly when its request has ended and the next one is under way, and it starts over the
signers of that one (`signature-actions.service.ts:67`). A form completed at the provider may then stay
unsigned here, so `QuietConverged` needs that the provider reports the completion of the submission besides that
of the form (`{"FORM_COMPLETED", "SUBMISSION_COMPLETED"} \subseteq Kinds`, and webhooks among the
sources). `QuietOneLiveSubmission` needs that a call that fails left nothing at the provider (`"timeout" \notin Faults`); with timeouts it is false (section 5).

**ProposalFlowProofs.** With any number of users, calls, versions, links and submissions, overlapping or not, and
every fault: `ProposalTypes`, `DecidedOnCurrent`, `LinksOpenCurrent`, `SentTextWasRead` and `OneSubmission`.
The first four share `ProposalInv`: a version is frozen when it is sent and only then (`SentOnly`), what is open
or decided was sent (`OpenIsLocked`, `AcceptanceFrozen`), and a text of the AI loses its mark unread only
through a revision, from a version that had it (`MarkOfAi`). `OneSubmission` needs `KeyInv`: a request holds the
key of its acceptance before anything exists at the provider, and no two hold the same.
`ContractBillsTheSigned` needs that no revision overlaps the start of a signature (`~Overlap`), and `SignedInv`:
the start under way, the request that waits and the one that ended are those of the acceptance in force
(`StartOfAcceptance`, `RequestOfAcceptance`), and what is signed or captured was signed by every party. The steps are
sorted by what they disturb (`Moved`, `Redrafted`, `Selected`, `SignatureMoved`), so that an action is expanded once for all of them.

**DocumentsProofs.** Six parts, about six modules.

- Codes: `KindsTypeCorrect` and `CodesDesignateForEver`: whatever requests race, a code stays under a kind that
  exists with its prefix, and is unique. `KindsInv` adds that the numbers of a kind do not exceed its counter, that
  no two kinds share a prefix, with codes or without, and that a kind that exists had its identifier drawn.
- Prices: `EnteredPricesHold`, for any history of entries. `GridInv` relates the history to the rows: a row was
  entered (`RowWasEntered`), an entry that was written is a row in its place (`WrittenIsRow`), and the last
  entry on a day is in force there, unless it was not written and an earlier date came later
  (`EntryInForceHolds`). The work is in the lemmas about the price in force on each day after a sheet adds
  its rows (`ForceOfAdded`, `PriceOfAdded`, `StillInForce`).
- Templates: `IssuedHasItsTexts`. A contract was copied from a version that no editor reaches any more (`TemplatesInv`).
- Text: `OnlyFitIsSubmitted`, with one editor at a time (with two it is false, section 5). `ContentInv` says that
  the two counts of the row are those of the version in force against the whole history of decisions
  (`CountsRight`), and that what a transaction read is what is stored when it writes (`ReadIsStored`).
- Budget: `OverspendingIsBounded`, for any budgets, costs and number of requests. What is written says nothing of
  the calls that have left: `GatewayInv` counts those, each for the highest cost, and a call that leaves is below
  its own budget, whatever the others do. `MonthInSince` is why the sum since the first of a month bounds what
  the month has cost.
- Prompts: `NothingKnownGoesOut` and `AnswersAreRestored`, for texts of any length. The first rests on the guard:
  its patterns find every word that a reader would recognise in what is joined, and what leaves is what it saw
  (`GuardHeld`). The second is about the passes: each replaces only what no earlier one replaced
  (`Scan`, `RunPass`, `Passes` in the lemmas), a token stands for one value in all the fields, and a field recoded later
  gives no token another value. `RestoreInv` says so: every token of a recoded field is in the table, the
  counters of the table are not behind its tokens, and each field says what was typed, up to the spelling of a name.

A pass is a fold over a text, of any length. The library's induction theorems take an operator as a parameter,
so the module proves such facts through the least index where they fail (`LeastNatural`, `UpTo`), with the
partial results of the fold as a function (`ScanFun`, `PassFun`, `FlatFun`).

**TransitionLogProofs.** `LogChainVerifies` and `LogJournalReplays`, for any number of contracts, tenants
and transactions. The chain's invariant says that an entry a transaction carries is numbered above all the
committed ones of its tenant, which only the holder of the chain's lock may do, and that what it has read
as the newest digest still is. The journal's (`JournalInv`) says the same of the row lock: the holder's
carried entries continue the committed journal up to the status it will write.

**WebhookDeliveryProofs.** `WebhookTypeOK`, `DeadWasTried` (a delivery declared dead was sent as many
times as the series has attempts), `ActiveIsBelowThreshold`, `AcceptedStays`. The invariant relates
the attempt a process has read to the row's and to the number of requests that were sent.

**ContractPricingProofs.** `EngineBacked`: whatever the versions, catalogue, settings and overrides,
a price that the engine gives too far from the computed one comes from an eligible override with a second
approval; it is a statement about `priceAt`, whose operators are expanded by lemmas.
`PricingBacked` makes it an invariant of the contract and `PricingEngagedIsFrozen` is an action property that no run repeats.
Their invariant is `PInv`, that is `Versioned /\ NothingYet /\ TasksShaped`: versions are numbered in order and
have a status, nothing exists before the contract, and a task holds what its kind of call reads.
`PricingPastStays`: engaging a version leaves every price of the days it does not cover. It needs `ClosingEngaged`
besides, for the versions that an activation read, without a lock, to close them: they were engaged, and so still are.

`PricingSignedIsBilled`, `PricingSnapshotReplays` and `PricingQuoteAgrees` compare two computations over a whole price
table, of any length, with any prices, quantities and percentages. Their invariant is `SInv`, which adds to `PInv`:
`SaleShaped` (what an accepted sale has frozen is the quote of its offer, without errors, and its resolved selection),
`AsSigned` (a version that still has the note of the conversion has the signed lines, whatever was drafted,
rewritten or engaged since), `Dated` and `Apart` (engaged versions have no day in common, so that exactly one covers the first
day of an engaged one). The rest is about the operators:

- a fold over a list is a sequence of steps (`FoldSteps`), and a sum over a finite set is taken apart one element at
  a time; both are proved through the least number where they fail, as in DocumentsProofs;
- a schedule is known by where its lines come from: `Placed(lines, f, S)` says that the list holds `f[s]` exactly once
  for each source `s`, and the sources of a quote are the kept lines, the displayed prices, the discounts that are
  granted and the complement (`BaseShape`, `FinalShape`). Sums then go over sources, and the order no longer counts;
- a plain line (entered, not tiered, not yet revised, without an override) costs its rounded unit price times its
  quantity.

*Signed is billed*: `Indexed` only sets a revision that begins a year after the first day, so each line has on that day
the price it had in the quote. *The snapshot replays*: the frozen quantities hold every included line, so each pass
of `configure` goes through the same configurations, and the frozen choices are total; in whole cents a price no longer depends
on the scale. *The quote agrees*: the sources that the engine sums for a period are the keys that the reference
sums; a discount is on the same lines, and the half of a cent is rounded the same way; the complement reaches the minimum.

**Assumptions.** On the constants: finite sets of keys and of commitments (`ContentAssumption`, `GridAssumption`), a natural
horizon (`PeriodsAssumption`), price tables and selections that passed the schemas of the API (`OffersAssumption`:
`PricingDefinitionSchema`, `SelectionSchema`), tables that are coherent as `crossCheck` of the seed's loader requires
(`TablesAssumption`; `PricingSignedIsBilled` does without it, and section 5 says what happens to tables edited
otherwise), prompts that are two texts of known words and names that are not empty
(`PromptsAssumption`, `NamesAssumption`), and those of the modules above. On the environment, always as the `ASSUME` of
the theorem that needs it: no overlap, no timeout that is executed all the same, what the provider reports, one editor.

**Only model-checked.** Eight temporal properties under fairness (`SyncCatchesUp`, `SettledInTime`,
`ExpiryIsApplied`, `SignedIsConverted`, `Settles`, `ProofNotForgotten`, `OcrSettles`, `AlertSettles`), since the prover
handles neither fairness with ENABLED nor leads-to over it; all of BackgroundJobs is in them. Every invariant and
every action property of the runs is a theorem.

## 5. Where code and documents disagree

Shown by a run:

1. **ReviewStaleApproval.** `submitForReview` records the version of its snapshot
   (`contracts.service.ts:384`) while an edit that began at the same time makes another one current;
   the approval marks that other one. Rule: `docs/contrats/02-cycle-de-vie.md:103`.
2. **ProposalAsContract.** With `signedProposalIsContract` the conversion sets the first schedule
   ACTIVE without a user (`proposal-conversion.service.ts:157`), which `pricing_schedules_activation_ck`
   (migration 21) refuses: the transaction is undone each time. `docs/contrats/11-propositions.md:262`
   announces an active contract with an active schedule.

Kept as configurations beside the runs:

3. An amendment is drafted with a copy of its parent's term, and its signature writes it back
   (`docuseal-webhook.service.ts:415`), over a renewal that happened in between:
   `tlc -config LifecycleAmended.cfg MCLifecycle` finds `AmendmentKeepsTerm` violated.
4. The tacit renewal does not read the successor and the expiry leaves tacit contracts out: a parent
   whose successor is signed goes on renewing itself, beside it:
   `tlc -config LifecycleProlonged.cfg MCLifecycle` finds `RenewedNotProlonged` violated.

5. Two handlers of one text that overlap: an AI clause saved between the read and the write of a
   submission goes to review unread, and of two reviews the older count may be written last
   (`structure.service.ts:436`): `tlc -config ContentOverlap.cfg StructuredContent` finds
   `SubmittedIsReviewed` violated.
6. `tlc -continue -config TemplateDeviations.cfg ContractTemplates` finds three: a new clause version may
   rename the clause in the library, and every contract made before shows a deviation of title in its
   review (`UntouchedShowsNoDeviation`); a free text saved over a composition that is not published
   replaces the preview and leaves the clauses that contracts copy (`PreviewIsIssued`); a composition
   does not declare the variables of its clauses, so a published version may refuse every contract
   (`PublishedIsUsable`).
7. `tlc -continue -config GridDeviations.cfg PriceGrid` finds two. The file of a grid imported as it was
   exported withdraws a commitment whose first price is scheduled, since its cell is empty
   (`price-grid.service.ts:273`), while the code calls an empty cell "not offered" (`ExportReplays`). And
   nothing is written for a price that is in force, as there is « rien à écrire » (`price-grid.service.ts:379`):
   p from the first day, p from the second, then q from the first make the second day q, although p was
   entered for it (`EveryPriceHolds`). `EnteredPriceHolds` has that case as its exception, and only it.
8. `persistTransition` reads the status before without a lock (`snapshot.ts:86`) and the UPDATE waits for
   one. Two activations that overlap publish twice, though `contract-producers.ts:46` has no event without
   a change of status (`PublishedOnlyIfChanged`); the withdrawal of a termination that lands on a contract
   terminated meanwhile publishes nothing, though `contract-producers.ts:10` lets no transition escape
   (`NoTransitionEscapes`): `tlc -continue -config LogPublished.cfg MCTransitionLog`. The journal has both.

9. `tlc -continue -config GuardRefuses.cfg MCPseudonyms` finds two. The guard refuses what the passes
   leave (`GuardIsSilent`): nine digits before a group that a later pass makes part of an address
   are not isolated when the pass of the SIREN looks, and are when the guard does; and a number that ends
   the title of a clause is followed, once joined, by the first word of the text. `05-ia-perplexity.md:600` has
   the output of `pseudonymize` always pass, and `pseudonymize.ts:504` makes it idempotent; nothing leaves,
   the request fails. And a token that somebody typed in a field comes back as the client's name
   (`AnswerRestoredAsTyped`), which the condition of `pseudonymize.ts:30` does not except.

10. A capture that could not be enqueued is « rattrapée par le balayage »
   (`proposal-signature.service.ts:270`; `proposal-jobs.service.ts:43` and `proposal-jobs.port.ts:57` too). The
   sweep looks for completed requests without their signed PDF (migration 32, lines 13 to 25), and the
   capture stores it in a first transaction: if its process dies before the second one, nothing finds
   the request again and the proposal stays PENDING_SIGNATURE, with the queue or without.
   `tlc -config ProposalStranded.cfg MCProposal` finds `LostCaptureIsCaughtUp` violated; the exception of
   `SignedIsConverted` (`Stranded`) is that one.

In the models, and described here without a run:

- an answer that was paid for and is refused (`perplexity-contract-drafter.ts:271` to 285) is written without
  its cost, although `ai-gateway.service.ts:30` announces the cost of every call, succeeded or not: the sum that is
  compared with the budget is short of it. Two requests that ask at once both pass
  (`OverspendingBounded` says by how much), whatever `05-ia-perplexity.md:748` says of a ceiling;

- a clause may be rejected while its contract is in review, which does not stop the approval
  (`reviewClause` has no guard on the status); a client's save may declare an AI clause CUSTOM, which
  takes it out of the count; after an AI draft in append mode the contract keeps its origin and the free
  editor stays open;
- a price entered with an earlier date than a scheduled one that was written holds only until that one, without
  a word to the user;

- the revocation of a signature writes the status itself (`signature-actions.service.ts:72`): its entry in the
  journal has no event, although `contract-producers.ts:8` calls `persistTransition` the only place;
- a request whose `send` died between its transactions stays CREATING: the synchronisation
  selects SENT and PARTIALLY_COMPLETED (migration 24), whatever `send-for-signature.service.ts:48` says, and
  the partial index then refuses every later send (`SignatureOnlyCallEndsCreating` is the proof that
  nothing else ends it);
- a timeout is recorded FAILED and the next send creates a second submission; the search for the first
  that `docuseal.adapter.ts:208` announces has no caller;
- an edit between the two transactions of a send leaves a version under signature that is no longer the current one;
- a second send of a version that does not render to the same bytes is refused by the write-once
  hash, and its request stays CREATING (part of SignatureQuiet);
- two webhooks at once may each count the other as missing, and the last signature then leaves the
  request PARTIALLY_COMPLETED until the synchronisation repairs it;
- a cancellation does not revoke the submission: signers may complete it, the contract stays
  CANCELLED, but its renewal is accepted, or its parent's term changed;
- a revocation whose request ended meanwhile is committed all the same (`signature-actions.service.ts:66` does not read
  the request again) and sets every signer of the contract, those of a later send included, to PENDING;
- a revocation always gives back APPROVED: the snapshot it builds has no versions
  (`signature-actions.service.ts:85`), while `02-cycle-de-vie.md:85` restores ACCEPTED;
- a signed amendment is not reported on a parent in RENEWAL_DUE or TERMINATION_PENDING, which the
  comment at `docuseal-webhook.service.ts:435` takes for terminal;
- CLOSE_RENEWAL is undone by the next sweep, which finds the same dates; the expiry ends it;
- no service emits MARK_RENEWED, so a successor signed after the expiry does not make its parent RENEWED;
- a termination withdrawn before the start leaves a contract ACTIVE before its start;
- a proposal's signature that failed cannot be started again for the same acceptance: the unique key
  is kept, while `docs/contrats/11-propositions.md:237` says that it can;
- a pass of the outgoing webhooks that listed a delivery before another leased it takes the
  lease by force, and both send, although the comment at `webhook-delivery.service.ts:17` excludes it; a late record may reopen
  a DEAD delivery as FAILED;
- a failed capture is kept by the queue under its fixed identifier, so the hourly reconciliation
  enqueues a job that BullMQ ignores, until the failed job is pushed out; migration 10 says the
  reconciliation catches it up;
- an import whose worker died stays RUNNING, or PENDING without an attempt left, and neither the
  sweep nor the manual retry takes it (`Stranded`);
- the frozen snapshot of an acceptance is quoted again with the default settings and not
  with those of its version (`proposal-signature.service.ts:175`); `SnapshotReplays` is therefore
  about the default rounding, and two decimals of unit price at least;
- `PricingDefinitionSchema` does not repeat the cross checks of the seed's loader (`load.ts:159`). A table edited in the
  interface may preselect a choice it does not have, or require a set-up line: the frozen selection then names an unknown
  choice, or starts with the quantity that the set-up line took from its linked line, which may bring one more line, and
  the replay is not the quote. These are the cases that `TablesAssumption` leaves out of `PricingSnapshotReplays`;
- the same key for a rule of discount or minimum and for a line is not refused when the table is saved, only when it
  is priced (`price-at.ts:586`);
- the activation of a schedule writes the status of a draft it read without a lock: an
  update that lands in between is engaged unchecked, after the former versions were closed for
  other dates, whatever the header of `schedules.service.ts` says;
- `assertComputable` stops at the first error, so an error of data that is tolerated hides a
  structural one behind it, and a revision's coefficients are checked only once it is effective;
- an override or its cancellation dated in the past changes past prices, while the event
  `pricing.revised` says that they change today (`overrides.service.ts:201`); two overrides with
  the same first day make the line ambiguous, without a price;
- with 0 or 1 decimals of unit price, or another rounding, the quote of a price table is not the
  reference's: `QuoteAgrees` is restricted to the others. Neither is it for a one-off discount, or for a second minimum (the
  engine reaches the first one, `proposal.ts:471`, the reference each in turn), which `TablesAssumption` leaves out.

## 6. Not modelled, and why

Text, layout, e-mail formats, calendar months, authentication, visibility of rows: data that
no property above tells apart. In each modelled part:

- ContractLifecycle: overlapping transactions, so the race of a refusal and the signature of the
  successor (`contracts.service.ts:594`) is not covered; many contracts, and the limit of a query.
- Proposals: one-time codes, tracking, e-mails, numbering, the fixed expiry date, `conversionError`,
  the journal of events; a transaction of the desk is atomic.
- Pricing: formulas, the lookup of an index value, hour packs, the simulator, the catalogue, rules
  and index editing, the endpoint that quotes.
- Outgoing webhooks: contents, the signature header, the rotation of secrets; one subscription.
- BackgroundJobs: the dates of deadlines, several thresholds, the text of an OCR.

- StructuredContent: the origin IMPORTED, attachments, the names of variables, the rendering; a version's
  clauses are a set, without their order.
- ContractTemplates: overlapping handlers, attachments, mandatory clauses.
- PriceGrid: overlapping entries, purchase prices, the creation of codes by a file.

- TransitionLog: the transitions of proposals, which append the same way; the injectivity of the digest is taken
  for granted, and the rows' immutability (REVOKE in migration 4) is the model's.

- AI drafting: the patterns of phones, IBAN and VAT numbers, the 60 characters of a street, the wording of
  the prompts, the cleaning of addresses and sources; and `importExtract`, which merges the answer into
  an extraction read before the call, so that of two at once the later one wins
  (`contract-ai.service.ts:161`). The clauses that are saved are in StructuredContent.

Left out whole: comments, users, customers and the other settings (edited one request at a time),
the portal and the public API (reads, and calls of services that are modelled), the front-end, the
deployment.

## 7. Running it

```
tlc -workers 2 -config LifecycleRenewals.cfg MCLifecycle     # any run: its cfg and module
tlapm ContractLifecycleProofs.tla                            # all proofs of a module
```

The longest runs take two to three minutes on two cores, the proofs about a minute per module and
four to five minutes for DocumentsProofs and ContractPricingProofs.
