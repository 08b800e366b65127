# A TLA+ model of the accounting system

This directory holds TLA+ specifications of the server in `src/apps/api`, the
TLC configurations that check them, and proofs for TLAPS. Paths below are
relative to `src/apps/api/src` unless they begin with `docs/` or `apps/`.

## 1. The system

A multi-tenant accounting server: an HTTP API (Express) over one MySQL database
(Prisma), used by a React client. Every command is a database transaction.
Nearly all of them run at isolation `Serializable` through
`platform/transaction-executor.ts`, which retries deadlocks, lock waits and write
conflicts until a deadline; commands with an idempotency key go through
`platform/idempotent-command-executor.ts`. Rows carry a `version`, and a command
names the version its user read. What is hard is therefore seldom two threads in
one object. It is long histories of legal commands by several users, each
prepared on what was true then; what happens between the transactions of one
request; and what happens when a process, a client or an answer is lost.

### Components

| Component | State | Operations | Talks to | What is hard | What makes it correct |
|---|---|---|---|---|---|
| Sales invoices, credit notes (`sales/`) | document header, lines, source invoice | create, update, cancel, post, reverse | posting engine, receivable items, inventory, POS, professional billing | drafts posted long after they were written; rounding per line | posted once, reversed once, never beyond what is outstanding |
| Receipts (`receipts/`) | header, allocations and their carrying amounts | the same | posting engine, receivable items | allocations of several drafts to one item; rounded shares of the base value | allocations fit, reversals give back exactly what was taken |
| Receivable items (`receivables/`) | original and outstanding, in document and base currency | apply and reverse receipt and credit, reverse invoice | invoices, receipts | the order of settlements and reversals | outstanding = original - settled, in both currencies |
| Posting engine (`core-accounting/`) | document status, journal entries | postPlan, postExisting, reverse | every document type, fiscal periods | periods that close meanwhile | balanced, once, into open periods only |
| Fiscal periods (`fiscal/fiscal-service.ts`) | year and periods | create, edit, close, reopen | every document | drafts on the way | closed in order, nothing added after |
| Financial close (`fiscal/financial-close-service.ts`) | close runs, checklist, pack, closing entry | start, refresh, request, approve, reject, return, close, reopen | approvals, posting engine, readiness of every context | books that move under a review | a period closes on the documents and class totals that were approved |
| Approvals (`approvals/`) | requests, decisions | request, approve, reject | subjects of four kinds | a subject that moves under its request | every pending request can be decided; maker is not checker |
| Outbox (`outbox/`) | `outbox_events` | append, claim, complete, fail, clean up | mail and security handlers | leases, clocks, crashes, shutdown | at least once, verdicts are final, something is decided |
| Idempotent commands (`platform/`) | `idempotency_records` | execute, finalize a rejection | POS, documents, reconciliation | races on a key, retries, lost commits | done once, and every answer follows from it |
| POS (`pos/`) | none of its own | checkout, recover | invoices, inventory, receipts, executor | a cashier who does not know whether the sale was made | recovery tells the truth |
| Inventory (`inventory/`) | balances, movements, counts | receive, issue, transfer, reverse, value, count, settle | documents, posting engine | moving average, reversal at exact cost, snapshots that age | stock, value and ledger agree; a settled count leaves what was counted |
| Bank reconciliation (`treasury/reconciliation/`) | imports, lines, matches, sessions | import, suggest, match, release, classify, close | ledger | documents reversed after they were matched, statements that overlap | matching is one to one; the difference of a closed session is what was left open |
| Platform payments, billing (`platform-operations/`) | attempts, checkouts, webhooks, invoices | checkout, cancel, refund, webhook, issue, pay, void | payment provider | calls to a provider between transactions; events duplicated, late, out of order | an invoice never holds more than its total; money taken or given back is followed |
| Platform subscriptions (`platform-subscriptions/`) | plans, versions, changes | draft, publish, schedule, decide, apply | billing, entitlements | changes that overlap | one plan in force |
| Purchases, payments, payables | as sales, receipts, receivables | the same | posting engine | the same | the same |
| Professional projects (`projects/`) | projects, time, contracts, billing runs | plan, record, approve, bill | approvals, sales | time corrected while it is billed | time is billed once |
| Others: HR, payroll, expenses, CRM, catalogues, tax, treasury accounts, users, auth, registration, imports, reports, printing, audit | records | create, update, list | | few interactions | |

`PROJECT.json` lists the same parts with their files and says of each what is
modelled. Its hazards name, at their lines, the things in this code that are
hard to test, and the properties that would catch them.

### How the modelled parts interact

A document command (invoice, credit note, receipt) locks its fiscal period, asks
the posting engine to mark the document posted and write its journal entries, and
changes receivable items in the same transaction; `Settlement` models the three
together, because what matters is that they agree. The close of a period looks at
the documents, and in turn stops them; `Settlement` has the plain rule of
`FiscalService`, and `FinancialClose`, the path the server is wired to
(`server.ts`), has the run, the review and the annual closing entry. Approvals
decide a close run by a call in the same transaction. Events for handlers are
appended to the outbox in the transaction of their command. A request with an
idempotency key wraps any of this in `IdempotentCommand`.

Posting an invoice or a note that moves stock records the movement and its line
on the inventory account in the same transaction; `Inventory` has both, seen from
the stock. The bank reconciliation reads the posted lines of a bank account and
locks them while it approves or closes, and documents are posted and reversed in
between; `BankReconciliation` has both. A platform invoice is paid by hand, or
through a provider that is called between two transactions and calls back with
events; `PlatformPayments` has the service, the billing desk and the provider.

## 2. Modules

| Module | What it is |
|---|---|
| `Totals` | sums over finite sets, defined by cardinality so that they can be reasoned about |
| `Settlement` | invoices, credit notes, receipts, items, control account, periods |
| `FinancialClose` | the close run of a period, its approval, close and reopening |
| `OutboxWorker` | outbox rows and workers |
| `CommandOnce` | abstract: what an idempotency key promises |
| `IdempotentCommand` | the executor's transactions; implements `CommandOnce` |
| `Inventory` | stock, its value, the inventory account, and stock counts |
| `BankReconciliation` | statements, matches and sessions beside posted documents |
| `Collection` | abstract: what the collection of a platform invoice promises |
| `PlatformPayments` | attempts, checkouts, refunds, webhooks, the provider; implements `Collection` |
| `MC*` | instances for TLC: symmetry and values of constants |
| `*_proofs` | theorems and their proofs |

A definition commented as a mutant is not part of a specification: it is a
plausible mistake in the operator named beside it, kept to show that a property
would notice.

### Settlement

One action per command: `CreateInvoice`, `UpdateReceipt`, `Cancel`, `PostCreditNote`,
`ReverseReceipt` and so on. A command is atomic because its transaction is
serializable and takes its rows FOR UPDATE; the exception, `cancel`, is one
compare-and-set. The version the user read is a parameter, and a stale one is
refused. `docs` is `accounting_documents`, `items` is `receivable_items`,
`receipt[r].carrying` the `carrying_base_amount` of the allocations, `journal`
the posted lines on the control account.

- Money is a whole number of minor units, rounded half up as `toDecimalPlaces(4,
  ROUND_HALF_UP)` does. The posted base total of a document is a sum of rounded
  lines; one or two lines are enough for it to differ from the rounded total
  (`BaseTotals`).
- A credit note posts at the rate of its source invoice. The rate of a
  receipt is chosen when it is posted; only whether its allocations' base amounts
  are positive depends on it, for the difference goes to realized exchange
  gain or loss and not to the control account.
- A reversal may be dated in any open period, also an earlier one: the code
  does not compare the two dates.
- Left out: tax and discount (they enter as the total), the quantities a credit
  note returns, stock movements, account resolution, document numbers. `create`
  of a receipt reserves its number in an earlier transaction, so numbers may
  have gaps. The compare-and-set on an item cannot fail under its row lock.
- Items written before base amounts were kept are filled in on first use
  (`initializeBaseAmounts`); no command makes such an item, and there are none here.

### FinancialClose

One action per command of `FinancialCloseService` and of the approval engine for
this subject, and the bookkeeping of others as its environment. The hashes of
checklist and pack are modelled by the facts they are hashes of, so comparing
them is comparing hashes. `closings` is the documents of type `PERIOD_CLOSE`
in the order of their ids. The checks of ledger, subledgers, bank, stock and rates
are one number of issues that others raise and settle. `startRun` on a period with
an unclosed run answers that run, which is a stuttering step. A command with a
stale version is refused before it does anything, so versions appear only where
one is stored. The retained earnings line, the period's dates and more than one
year are left out.

A document does something to the result accounts (`Effects`) as a whole, since its
lines may touch several. The balances of a year are looked at in two ways. The
closing entry closes each account by its own balance (`YearToDate`). A close pack
folds them into the revenue and the expense of the year (`ClassTotals`), beside the
counts and totals of the period itself, of which the count of documents stands for
all: entries, lines, debit and credit of a period change only with a new document.
So what an approval freezes of the earlier periods is two totals. If one of them is
reopened after the approval and documents are posted that cancel out within each
class, the checklist and the pack are as approved and the close goes through; the
closing entry then takes the balances as they are. `ClosedBooksWereApproved` says
no more than that, and the run `FinancialCloseYear` contains the case.

### OutboxWorker

One action per statement on `outbox_events`. A worker reads the clock, selects a
candidate (`Select`), claims it with the same condition (`Claim`, or `Collide`
when another was first), runs the handler under its timeout, and finishes with an
update conditional on its lease (`Complete`, `FinishFailure`). Time is relative:
`available` and `locked` count to and from now, `Tick` moves them, and a worker that
is not stalled lets no tick pass before its next statement. Crashes, stalls,
stops and lost answers are faults with a bound. A cycle that fails with a database
error loses its claim like a crash. Clocks of processes are taken to agree. A worker
waits for its handler no longer than the timeout and aborts it; a handler that
ignores the abort goes on by itself, outside the lease. Its effect is the delivery the
model already allows before a failure, so `LeaseLostOnlyWhenLate` is about workers
and does not say that two handlers never overlap.

### IdempotentCommand and CommandOnce

Actions are the statements of `execute` and `finalizeRejection` on one key.
`holder` is the transaction with an uncommitted record: other inserts of the key
wait for it, as on InnoDB's unique index. Any statement may be the victim of a
deadlock (`Abort`), any moment the deadline may pass (`Expire`) or the process die
(`Crash`, leaving an orphan transaction until the database rolls it back), and a
commit may succeed and be answered with an error (`Return`). An IN_PROGRESS record is
never visible to others, for it is completed in the transaction that inserts it.
Records are never deleted by the code (`expires_at` is a floor for retention), so
a decided key stays decided.

`CommandOnce` has the key's decision, the bodies sent and the answers given, under
the same names, so the refinement mapping is the identity.

### PlatformPayments and Collection

One invoice. A transaction is an action; a request that talks to the provider is a
`call` that goes from one step to the next, with any number of other calls, desk
operations and events in between, and may be lost at each (`Lose`). `createCheckout`
is `Reserve`, `Host` (the provider) and `Finalize`, with the three ways its second
transaction may end and the compensations that follow; cancelling is `AskCancel`,
`Withdraw` (the provider) and `Cancel` with its compare-and-set on the version; a
refund is `ReserveRefund`, `AskRefund`, and `NameRefund` or `GiveUpRefund`. A
webhook is `Deliver(a, type)`, one transaction with all its branches.

The provider is outside the repository. `provider[a]` is the set of facts it knows
of an attempt, which only grows; `Capture`, `Process`, `Lapse` and `Repay` add to
it, and so do the calls. An event tells a fact, at any later time and as often as
the provider likes. What is assumed of it is what the service relies on: one
checkout for one merchant reference, amounts that are those asked for, one event
id for one fact, and nobody can pay before the session (and with it the URL) is
saved. `TakenIsBooked` has one premise more, `CancelsOnlyUnpaid`: a checkout whose
cancellation the provider accepted takes no money. Nothing in the service
enforces it, so it is stated in the property; `Collects` does not need it, and the
rows stay sound for a provider that breaks it. The version of the invoice, which a
command with an old one is refused for, is left out; so are currencies and the
texts of errors.

`Collection` has what was paid by hand, what was booked for each attempt and what
was given back. The mapping computes `booked` from the payment rows and the
attempts' amounts, `returned` from the refunds.

### Inventory

One item in the warehouses of a company; items share nothing but the ledger
account. Every command goes through `Move`, as every command of the code goes
through `createInTransaction`: balances, movement, average and journal line
together, or nothing. `movements` is in the order of `created_at`, which under
the warehouse locks is the order of commit (two transactions on a warehouse are
at least a millisecond apart). The checks of a settlement and of a credit note
look at the movements that are `POSTED`, as the code does, so one that was reversed
no longer counts, and its opposite does.

- Costs are whole numbers in the last decimal and unit costs finer by `Scale`; both
  are rounded half up. `Scale` is 10 in the runs, unit cost 4 and net 5, which round
  in both directions and to zero; the proofs hold for any.
- `Legacy` warehouses have stock from before valuation, with movements that carry no
  cost. `Initialize` values it, at any unit cost and also at none; the code lets such a movement be reversed before, at
  cost zero, and so does the model.
- Counts are entered as totals; single entries and sheets are left out.

### BankReconciliation

One bank account, with matching one to one; statements that may overlap; documents
that are posted and reversed while sessions are open and after they were closed.
`Proposed` is what `LocalReconciliationMatcher` proposes, rule after rule and line
after line, stated as the one solution of an equation and not as a loop. Released
matches are history no guard reads, and are dropped. The balances a statement may
carry are shown beside the difference and never compared; they are left out.

The snapshot of a session takes documents that are `POSTED`
(`docs/architecture/BANK_RECONCILIATION_BACKEND_AR.md`, section 3). After a reversal the
original is out and its opposite is in, so the book side of that session moves by
twice the amount when both fall into its dates. Other queries of the
ledger count posted and reversed documents together. The model follows the code.
A closed session is never looked at again, and a manual journal that reversed
another may be reversed in turn.

## 3. Runs

| Run | Instance | Distinct states | Shows |
|---|---|---|---|
| `Settlement` | 2 invoices, 1 credit note, 2 receipts, 1 period, amounts 1 and 3, rates 1/2 and 3/2 | 348,696 | items, documents and control account agree; posted documents can be reversed |
| `SettlementPeriods` | 1 of each document, 2 periods, one update each, a period reopened twice | 68,659 | closing and drafting do not trap or slip past each other |
| `FinancialCloseReview` | 1 period, 2 users, 2 runs of 4 versions, 2 documents, 1 draft, 1 issue | 401,320 | requests and runs stay together |
| `FinancialCloseYear` | 2 periods, 2 users, 2 runs each, 2 revenue accounts and 1 of expense | 535,120 | documents and class totals of a closed period are as approved; the year; the first closing entry |
| `FinancialCloseReopened` | 1 period, closed twice | (violation) | the second close of a year |
| `OutboxWorker` | 1 event, 2 workers, lease 2, timeout 1, 3 attempts, 2 faults | 176,384 | delivery, verdicts, attempts, decision |
| `OutboxAttempts` | the same, 2 attempts, 1 fault | (violation) | attempts beyond the limit |
| `PlatformPayments` | 2 attempts, 2 calls, a total of 2 units, no unasked reports | 1,064,764 | nothing taken is turned away; implements `Collection` |
| `PlatformPaymentsAttempt` | 1 attempt, 2 calls, every report | 27,102 | closed here is closed there; money is followed in the end |
| `Inventory` | 2 warehouses, one with old stock, 1 count, 4 movements | 1,290,986 | stock, value and account agree; credit notes and counts |
| `BankReconciliation` | 2 statements, 2 days, 2 lines, 2 documents | 517,655 | one to one; the difference is what is open |
| `IdempotentCommand` | 2 requests, 2 bodies, 3 attempts | 23,065 | once or not at all; refinement; recovery; an answer |

Why the bounds are enough:

- Amounts 1 and 3 with rates of one half and three halves make every rounding
  case: shares that round up, down, to zero, and to everything that is left. Two
  receipts and a credit note on one item give settlements and reversals in every
  order, two invoices an allocation over two items. Two credit notes at once
  are in no run; the proofs cover any number of them.
- Two periods show the order of closing; the proofs cover any number.
- Two close runs are the least with an old approval, a new run and a second
  close. `MaxVersion` 4 lets a run be requested, returned, refreshed and
  requested again. In the first run an income and its reversal cancel out, so that
  equal totals with different documents are reached. In the second, one document
  moves a revenue and an expense account at once, which changes both totals and not
  the net income, and another moves a unit from one revenue account to the other,
  which changes neither total.
- Two workers are what a takeover needs, and two faults a stall during a
  takeover, or a crash and a lost answer. The lease is longer than the timeout,
  as `config.ts` demands, by the least there is. Events meet only in the batch,
  which orders them and nothing more; one event is checked, with batches of one.
- Two requests are a winner and a loser of a race, with equal or different
  bodies, each with all its retries. Three requests (809,000 states) were run for
  the safety properties once and showed nothing new; the proofs cover any number.

- Two attempts are an old one whose events are late and a new one; two calls race
  on either of them; two units let a payment by hand take a part of the room. The
  second run takes one attempt and adds what a provider reports by itself, which
  multiplies the states of each attempt and not what they do to each other.
- Four movements, of which the first is the old stock's: once that is valued, a sale
  with two credit notes, or with one and its reversal; a receipt, a transfer and a
  reversal; or any of them between the snapshot of a count and its settlement. A
  credit note that is reversed and made again needs a fifth; it is covered by the
  proof of `CreditsGiveBackTheCost` alone.
- Two lines and two documents on two days are a match that is nearest and one that
  is not, a tie, a reversal with its opposite, and statements that overlap.

Deadlock checking is off: documents, events and requests are finite, and a system
with nothing left to do stops.

### The two violations

`FinancialCloseReopened`. Closing the last period of a year makes a document
of type `PERIOD_CLOSE`; reopening reverses it with `PostingEngine.reverse`, which
makes another posted document of that type. The next close looks for a posted
`PERIOD_CLOSE` document of the period (`financial-close-service.ts:628`), finds the
reversal, and makes no closing entry. The year is closed and its result accounts
are not zero, against section 5 of `docs/architecture/FINANCIAL_CLOSE_WORKFLOW_AR.md`.
`FirstCloseEntryStandsWithClose` shows the property up to the first reversal.

`OutboxAttempts`. `docs/production-operations.md` says an event is retried up to
`OUTBOX_MAX_ATTEMPTS`. An expired lease is taken over whatever the count
(`outbox-worker.ts:192`), so each crash may cost an attempt more, which is what
`AttemptsWithinFaults` states and the run `OutboxWorker` checks.

### Fairness

- `OutboxWorker`: `WF(Progress(w))`, for a process runs what is due and its manager
  starts it again (`ecosystem.config.cjs` has `autorestart`; a stalled process
  resumes), and `WF(Tick)`. Handlers owe nothing: one that never answers is ended
  by its timeout.
- `IdempotentCommand`: `WF(Progress(r) \/ Abort(r))`, for a transaction ends, at the
  latest by its timeout, and a waiting insert ends by the lock wait timeout, and
  `WF(RollBackOrphan)`, for the database rolls back a lost connection.
- `PlatformPayments`: `WF(Deliver(a, type))` for each fact: a provider delivers again
  what was answered 5xx until it is accepted, which
  `docs/architecture/PLATFORM_ELECTRONIC_PAYMENTS_SUB4_AR.md` demands of every adapter. Nothing is
  assumed of calls, which may all be lost, or of users.
- `Settlement`, `FinancialClose`, `Inventory` and `BankReconciliation` promise only
  safety: nothing obliges a user.

## 4. Proofs

TLAPS checks every proof. The assumptions are those stated on the constants
(finite sets of documents, positive amounts and rates, a lease longer than a
timeout, and so on); nothing else is assumed.

- `Totals_proofs`: a total over a finite set changes by the difference when one
  element changes, is zero when all are, is bounded below by its parts, and is a
  natural number; a total of sums is the sum of the totals (`TotalSum`), also over a
  set that grows by one element (`TotalAdd`). A total is the cardinality of a set of
  units, so these follow from the library's theorems on finite sets, with no induction.
- `Settlement_proofs`: `TypeOK`, `OutstandingIsUnsettled`,
  `OutstandingBaseIsUnsettled`, `ReversedInvoiceUnsettled`, `PostedCanBeReversed`,
  `SubledgerReconciled`, `LedgerMatchesSubledger`, `NoDraftInClosedPeriod`,
  `ClosedInOrder`, `ClosedPeriodFrozen`. The inductive invariant adds to them
  that an item exists exactly when its invoice was posted and is gone exactly when
  that was reversed (`ItemFollowsInvoice`), that what a posted document settled
  belongs to live items (`SettledIsPosted`), that posted allocations carry a
  positive base amount (`PostedCarriesBase`), and `Balanced`: for each item both
  currencies add up, and an amount is whole in one exactly when it is in the other.
  `Balanced` is what makes `PostedCanBeReversed` true: a restore in document currency
  reaches the original exactly when the base amounts do, because the other
  documents' shares are then all zero. The rounding itself never has to be
  computed: the proofs use only that a carrying amount passed its guards.
  For `SubledgerReconciled` a live item has the status of its amounts and is empty in
  both currencies or in neither, and any other item is empty (`ItemsSound`).
  For `LedgerMatchesSubledger` a posted document has exactly one line, of what it is
  worth now, and one that was never posted has none (`JournalFollows`); so a posting
  adds to the ledger what it adds to the items, and the reversal, which copies the
  line with the opposite sign, takes back what the restored items get, though it
  never looks at the document. `ClosedPeriodFrozen` needs no more than the types:
  every action that writes a line looks at the period it dates it in.
- `FinancialClose_proofs`: `TypeOK`, `PendingMatchesRun`, `ReviewedWasApproved`,
  `OneLiveRun`, `YearFollowsPeriods`, `ClosedBooksWereApproved`,
  `FirstCloseEntryStandsWithClose`.
  The invariant adds that the closing document a run names exists (`ClosingsExist`).
  A decision raises the version of its run, so an older approval never matches a
  newer pack, even one with the same facts. On top of it, `CloseInv` holds the close
  properties together, for each needs the others: that documents and class totals stay as
  approved needs that earlier periods are closed while this one is
  (`YearFollowsPeriods`) and that only the last run is live; and `ClosingEntry` says, while no closing document was reversed, that there is
  one, named by the last run of the last period and opposite to the year to date,
  exactly while that period is closed with something to close. After a
  reversal the next close makes no entry, which is the violation of section 3.
- `IdempotentCommand_proofs`: `TypeOK`, `DoneOnceIffSucceeded`, `RecoveryIsProof`, and
  `KeepsPromise`, the refinement of `CommandOnce`: initial states map to initial
  states and every step to a step or a stutter. The invariant adds that whoever
  has inserted holds the key while it is undecided (`HolderIsInserter`), that a
  request is asked when it starts and answered only once (`Conversation`), and that
  what is about to be answered follows from the record (`FollowsRecord`).

- `OutboxWorker_proofs`: `TypeOK`, `ProcessedWasDelivered`, `LeaseLostOnlyWhenLate`,
  `VerdictIsFinal`, `AttemptsWithinFaults`. The invariant adds that a worker past its selection holds an
  event (`HoldsEvent`), that what it is about to mark processed was dealt with
  (`CompletingDelivered`), and `OnTime`: for a worker that is not late, the time
  since its claim and what is left of its timeout make up the timeout. As the lease
  is longer (`OutboxAssumption`, from `config.ts`), nobody else's claim condition
  holds of its row, and no finishing update of another carries its token.
  `AttemptsWithinFaults` is proved by counting (`CountInv`). An attempt is not accounted
  for when a late worker claims what it selected before others did, or when the lease
  of a worker that is late or gone expires. So the attempts of an event, plus the late
  workers whose claim of it would still succeed (`LateOn`), plus one when it is
  processing and nobody who keeps time holds it (`Kept`), stay within the maximum and
  the faults (`Counted`); and a worker's own number of the attempt is behind the row by
  at most the faults (`Fresh`), so a failure that reschedules leaves room for the next
  claim. A late worker costs a fault when it stalls (`LateFew`), no step but that one
  makes an event claimable for a late worker, and rescheduling sets `availableAt`
  ahead of every clock that was read before.
- `PlatformPayments_proofs`: `TypeOK`, `ClosedIsWithdrawn`, `TakenIsBooked`, and `Collects`,
  the refinement of `Collection`. The invariant has two parts. `Rows` holds for any
  provider: calls refer to reserved attempts, payments and refunds are where the
  states say, only one attempt is active, whoever is about to close one has closed
  its checkout or will find a newer version. `Room` needs the premise
  `CancelsOnlyUnpaid`: there is room for the active attempt, and what was taken
  belongs to an attempt that is active or booked.
- `Inventory_proofs`: `TypeOK`, `LedgerAgreesWithStock`, `CreditsGiveBackTheCost`,
  `SettledAsCounted`. The invariant adds that every movement is booked at its cost
  (`AllBookedAtCost`), stock without valuation is carried at nothing (`Unvalued`), notes
  come after their invoice and return no more than was sold (`NotesFollow`,
  `NotesFit`), and `Counts`: what a session took down is on hand unless its warehouse
  moved since. A movement of after the snapshot that is reversed leaves a posted
  opposite, also after the snapshot, so a warehouse that moved stays moved. Rounding
  is used only as a function into the naturals.
- `BankReconciliation_proofs`: `TypeOK`, `OneToOne`, `DifferenceIsWhatIsOpen`. The invariant
  adds that matched lines belong to their session and that matched amounts are equal
  (`Paired`). The difference follows by sums over disjoint sets: the approved
  matches of a session are a bijection between its matched lines and matched
  documents that keeps amounts, so those cancel and the rest is what is open.

Every invariant and action property of the passing runs and both refinements are
theorems. Checked by TLC only are the liveness properties, `EventuallyDecided`,
`EventuallyAnswered` and `MoneyIsFollowed`, and they stay so, as the prover does not
treat fairness and ENABLED. So would facts by induction over data, and anything about
recursive operators: sums are therefore defined without recursion, and no module has
a RECURSIVE operator.

## 5. What is left

1. Proofs: an abstract specification of the outbox (delivery at least once) and of the
   receivables that `OutboxWorker` and `Settlement` implement, from the invariants above.
2. Time billed once (`projects/professional-billing-service.ts`), with the approval of
   time entries and their correction while a billing run is prepared.
3. Changes of platform subscriptions: overlapping scheduled changes, decided and
   applied by a clock.
4. POS checkout as a composition of `Settlement`, `Inventory` and `IdempotentCommand`.
5. Compositions with the ledger: reversal of a document that a closed bank session
   matched, and stock movements dated into a period that closes.

## 6. Not modelled

- The web client, its locales and types, and the request guards generated from the
  OpenAPI description: more than half of the lines of the repository, without state
  that outlives a screen or a request.
- Reports, printing, media and parsing: read only, layout, or pure conversions.
- Master data (parties, accounts, tax, catalogues, HR, CRM, general projects): rows with
  an optimistic version and no guard that reads another row's history.
- Organization commands repeat the protocol of `IdempotentCommand` on another
  table, and payments and payable items repeat `Settlement` on the payable side. The
  code is separate, so nothing is claimed of it.
- Authentication and registration: sessions and tokens; what they send goes through
  the outbox.

The definitions stand for the parts of the server in which commands meet. That is
a small share of all lines, and it would stay well below a third if all of section 5
were done, for most of the lines carry no state of the kind described here.
