# A verification project for ERPCloud

ERPCloud is a multi-tenant ERP: a NestJS API (`src/apps/api`), a Postgres
database reached through Drizzle (`src/packages/database`), BullMQ workers on
Redis, and four web applications. This directory holds TLA+ models of the parts
of the API whose correctness depends on *when* things happen, the TLC runs that
check them, and proofs for every size of instance of the properties that matter
most.

Every business operation of the API is one database transaction opened by
`withTenantTx` (`packages/database/src/client.ts:80-89`) at READ COMMITTED, the
default of Postgres: a statement sees what was committed when it began, plus what
its own transaction wrote; a row written or selected `FOR UPDATE` stays locked to
the end of the transaction; two transactions that wait for each other are told
apart by the deadlock detector. Many services decide from a row they read
without locking it. That is where the models look.

## 1. Inventory of the system

| Component | State | Operations | Interacts with | Hard behaviour | What makes it correct |
|---|---|---|---|---|---|
| Stock ledger (`inventory.service.ts`, `recordInTx` ff.) | `inventory_transactions` (append-only), `stock_balances` (cache) | `record`, `transfer`, `adjust`, `recomputeBalances` | called by every document that moves stock | row locks in document order, deadlock, counts and recomputes that read in another transaction | cache = sum of the ledger; nothing oversold; a count leaves what was counted; a recompute repairs |
| Stock transfers (same file) | `stock_transfers`, lines, the in-transit account | `createTransfer`, `sendTransfer`, `receiveTransfer`, `closeTransfer`, `cancelTransfer` | ledger, journal, numbering | status read unlocked; partial receipts; requests submitted twice | goods are at the source, on the road, at the destination or settled; the in-transit account is worth the goods on the road |
| Stock documents (same file, `warehouse-documents`, `production-orders`) | vouchers, counts, serials, lots | create, post, cancel | ledger, journal | unlocked status check, journal key as the only fence | a document is posted once, its stock and its entry together |
| Fiscal periods and posting (`accounting.service.ts`) | `fiscal_periods`, `period_module_locks`, `journal_entries` | create, update, activate, delete, close, reopen, lock, post, reverse | every posting document | every rule of a period is checked with an unlocked read | no entry in a closed or locked period, one active period, disjoint dates, one reversal per entry |
| Chart of accounts (`accounting.service.ts:595-762`) | `accounts`: parent, depth, path | create, update (rename, move a branch), delete | posting | a branch is moved by a search for paths read earlier; an update writes back the whole row it read | paths are the tree of the parents, depths agree with paths, posted accounts keep their meaning |
| Document numbering (`sequences.service.ts`) | `document_sequences` | `next`/`allocate`, `configure`, `preview` | every document | the number row is locked to the end of the business transaction | numbers of committed documents have no gap and no duplicate |
| Idempotency keys (`idempotency.store.ts`, the interceptor) | `idempotency_keys` | `begin`, `complete`, `release`, `purgeExpired` | every mutating route that is sent a key | retries against a running, answered, failed or dead attempt | one effect per life of a key, a replay is the answer |
| Outbox and jobs (`outbox.service.ts`, `outbox.publisher.ts`, `queue.service.ts`, `worker.runner.ts`, `job-handlers.ts`, the console) | `outbox_jobs`, BullMQ | `enqueueInTx`, `drainOnce`, handlers, `retryJob`, `cancelJob` | any transaction, Redis, the mailer | two stores with no common transaction; overlapping passes; stalled workers | only committed work is handed over, each row by one pass, a redelivery is one job, every row ends |
| Sales (`sales.service.ts`) | invoices, returns, payments, their entries and movements | post, void, pay, return, edit a draft | ledger, journal, numbering, gateway, e-invoicing | voids, payments and returns decided in a transaction before the one that writes | status, entry, movements and payments of an invoice agree; no return is accepted beyond what was sold |
| Payments gateway (`payments.service.ts`, the two adapters) | `payment_gateway_transactions` | `sale`, `refresh`, settlement | the gateways, `addPayment` of sales | charged before recorded; lost and late answers; a crash between four transactions | the money of a card reaches the invoice at most once |
| E-invoicing chain (`einvoicing.service.ts`) | `einvoice_submissions`, `einvoice_chain`, the status on the invoice | submit, sync, retry, next to the void | the tax authority, sales | filing outside any transaction; settings that change; retries | the chain has no fork and no gap; an invoice is filed once; nothing that knows of an acceptance undoes it |
| Treasury (`treasury.service.ts`) | vouchers, cheques, cash transfers, shifts, balances of safes | create, edit, post, void, settle a cheque; send, receive, cancel; open, close, enter a shift | journal | transitions decided from unlocked reads, whole rows written back | balances and ledger tell the documents; the money of a transfer is in one place; a shift takes what was posted while it was open |
| Platform billing (`platform-billing.service.ts`, the review queue of `platform-admin.service.ts`) | `tenant_subscriptions`, `platform_invoices`, payments, `dunning_attempts` | grant, review, change plan, pause, resume, cancel; draft, issue, pay, void, dun | – | every operation decides from an unlocked read and writes by id | one live licence per tenant; documents tell the money received; numbers and attempts in sequence |
| Purchases, point of sale, tenants, sign-up, leads | as sales; orders; tenants | draft, post, void, hand over; provision | ledger, journal, outbox | as sales; several transactions per click | documents, stock and entries move together, once |
| Payroll, backups, campaigns, integrations, verticals | a status each | calculate/pay/reverse, run/restore, send | journal, mailer, outside services | timers and retries | each document follows its life cycle |
| Authentication, roles, master data, reporting, content, web applications, migrator | records, queries, screens | create, edit, read | – | little | – |

`PROJECT.json` lists the components with their sources and status, and 40
hazards: the lines where an order of steps, a stale read, a crash or a retry can
go wrong and where an ordinary test would hardly arrive.

## 2. The modules

| Module | Models | Checked by | Proved in |
|---|---|---|---|
| `StockLedger` | the ledger and its cache under concurrent requests | `MCStockLedger` | `StockProofs` |
| `StockTransfer` | one transfer document, its goods and the in-transit account | `MCStockTransfer` | `OnceProofs` |
| `StockDocument` | vouchers and counts of a warehouse, posted and voided | `MCStockDocument` | `StockProofs` |
| `FiscalPeriod` | the period card, module locks, posting, reversing | `MCFiscalPeriod` | `AccountingProofs` |
| `AccountTree` | the chart of accounts and the move of a branch | `MCAccountTree` | `AccountingProofs` |
| `NumberBook` | *abstract*: a book of numbers without gaps | | |
| `DocumentSequence` | `sequences.service.ts`; implements `NumberBook` | `MCDocumentSequence` | `SeriesProofs` |
| `IdempotencyKey` | one key, its store and its interceptor | `MCIdempotencyKey` | `OnceProofs` |
| `Outbox` | the row, the pass, the queue, the worker, the console | `MCOutbox` | `OnceProofs` |
| `SalesInvoice` | invoices, their returns, entries, movements and payments | through `MCCardPayment` | `CardPaymentProofs` |
| `CardPayment` | card sales at two gateways, composed with `SalesInvoice` | `MCCardPayment` | `CardPaymentProofs` |
| `HashChain` | *abstract*: one growing chain of documents per environment | | |
| `EInvoiceChain` | filing with the tax authority; implements `HashChain` | `MCEInvoiceChain` | `SeriesProofs` |
| `Treasury` | vouchers, cheques, transfers and the shifts of the cashiers of a branch | `MCTreasury` | `TreasuryProofs` |
| `PlatformBilling` | licences of one tenant and the documents that bill them | `MCPlatformBilling` | `PlatformBillingProofs` |

`SumTheorems` holds the lemmas about sums over finite sets that `CardPaymentProofs`,
`TreasuryProofs`, `StockProofs` and `OnceProofs` share. Where a proof module is about several
models (`AccountingProofs`, `OnceProofs`, `SeriesProofs`, `StockProofs`) it extends them all, and
the models give their definitions names of their own (`PeriodInit`, `KeySpec`, `SequenceNext`,
`DocSpec`, `TransferSpec`).

`map` in `PROJECT.json` gives the lines behind every definition. Operators whose
comment starts with *Fault* are not part of a model: each is a plausible bug of
the definition that follows it, and the property named with it in `PROJECT.json`
fails when the one replaces the other.

### How a transaction is cut into steps

A step ends where another transaction can come between: after every read the
code decides from, after every statement that may wait for a row. What a
transaction has written and not committed is kept apart (`ownBalance`, `draft`,
`own`, `mine`), so that nobody else sees it, and vanishes with a rollback. A
rollback stands for every refusal, crash and lost connection, and may come at any
point. The unique indexes and foreign keys the code relies on are guards of the
statement that meets them.

A request that decides from an unlocked read can be *overtaken*: another commits a
row it works from before it commits itself. What holds then is what a lock or an
index sees to, and most properties come in two parts: one under every interleaving,
one as long as no overtaken request has written the rows in question. The history
variables `overtaken`, `stale`, `late`, `torn`, `drifted` and `blurred` keep account of
that and of nothing else; no guard reads them.

### StockLedger

`balance` is `stock_balances.quantity`; `movements` is the running sum of
`inventory_transactions` by cell, a cell being an (item, warehouse) pair. A
request runs one of the jobs of `Jobs`: a document (`record`, `transfer`, and
every posted document), a count (`adjust`), a recompute. `RecordLine` is one
iteration of the loop of `recordInTx`: wait for the row, lock it, check
`STOCK_INSUFFICIENT`, insert the movement, update the row. `ReadLevel` and
`ReadValuation` are the reads that happen in an earlier transaction.
`DeadlockVictim` is the detector of Postgres.

History variables: `overtaken` (cells another request has committed since this
one read them), `drifted` (cells a stale recompute has overwritten), `overdrawn`
(cells an `allowNegative` document has moved). They name the only ways out of
each property, and each is necessary: without `drifted`, three requests over one
cell violate `BalanceMatchesLedger`.

### StockTransfer

One document, two or more request slots that are used again. `Load` is
`loadTransfer` with the checks of the four operations; `Move`, `Post`,
`UpdateLines` and `Commit` are the stretches between the row locks each takes
(stock rows, journal number, lines, the document). `goods[way][line]` adds up the
movements of each document type; `transit` is the posted balance of the
goods-in-transit account. Documents are taken through partial receipts, both
closing modes and cancellation. `stale` says that a request which had loaded the
document before another changed it has committed: the properties that relate the
document to the goods hold while no one has.

### StockDocument

Receipts, issues, openings and counts of one warehouse. `Load`, `ReadStock`,
`MoveStock`, `PostEntry` and `CommitDoc` cut `postVoucher`, `postAdjustment` and
`voidVoucher` where they read or wait. Nothing locks the document: `CommitDoc` updates
its status only where it is still the one read (`Accepts`), and commits the rest all
the same. What keeps a second post out is the key of the journal entry (`keys`), what
keeps a second void out is the unique index of the movements (`Unmirrored`).
`worthless` holds the documents posted without an entry, which have no such fence;
`outdated` the items committed by others since a request read them. A request is in `Slots`;
`held` are the row locks. Those of a document are taken at once here and line by line in
`StockLedger`.

A line has the unit cost typed on it or, if none is, the average the request read without a
lock (`LineCost`). What comes in is worth that; what goes out is worth the average its row
shows once it is locked (`MoveCost`), another read. The moving average is arithmetic and left
out: a row may show any of `Prices` at any time, independently at the two reads. `worth` adds
up what the movements were worth, `account` what the entries say: for a voucher the value of
its movements, for a count the variances at `LineCost`, whatever the movement takes out.
`repriced` holds the counts in which the two differ.

### FiscalPeriod

The rows of `fiscal_periods` with status, flag and dates, the accounting lock of
each period, and the entries requests commit. `ReadPeriod`, `ReadOriginal`,
`CheckRules` and `ResolvePeriod` are the unlocked reads; `Deactivate` takes the
snapshot of `deactivateAll`; the rest write and commit. `UniqueActive` is the
partial index of migration 0048; `DeletePeriod` has the foreign key of
`journal_entries`. A request is in `Calls`, its job in `Tasks`, how far it has come in `stage`;
`outrun` and `late` are the histories, as `overtaken` and `stale` are elsewhere.

### AccountTree

`chart` holds the committed rows, `draft` what an open request has written, `lock` who
holds a row. `Load` and `BeginCreate` are the first reads; `CheckLines`, `CheckChildren`
and `ReadParent` the decisions that follow. The statement that moves a branch is two
steps, as Postgres runs it: `FindBranch` is its snapshot, `MoveBranch` waits for the rows
others hold and rewrites those that still lie below the path the request has read.
`WriteCard` then writes back every field of the row as it was read (`Card`). `nature`
stands for code, type and normal balance together. Two requests that wait for each other
are ended by `Fail`, as every other failure is.

`overtaken` holds the open requests that work from a row which another has committed
since, or which stand in a branch another has moved; `torn` says that one of these has
committed.

### NumberBook and DocumentSequence

`NumberBook` promises: a commit enters into the book, for some scopes, the numbers
that follow the last one. `DocumentSequence` models what `allocate` does instead:
an upsert that bumps a locked row inside the business transaction, in any order of
scopes, with rollbacks and deadlocks, next to `configure`. `BookSpec` states that
it implements the book (`counter` and the committed numbers are the mapping).

### IdempotencyKey

One key. `Begin` is the interceptor up to its decision (claimed, conflict, still
running, replay), `HandlerCommit` is one transaction of the handler,
`Answer`/`HandlerThrows` its end. A handler may throw whatever it has committed, after its last
transaction too: a read of the result fails, or the acknowledgement of the COMMIT is lost.
`Complete` and `Release` are the *late* calls that store
the answer or free the key after the response has gone out, and which may be lost.
`life` is the set of attempts that claimed the key since it was last purged or
taken over.

### Outbox

Two stores. `row` is the committed row, `draft` what the pass that holds it has
written; `queue` is the state of the job in BullMQ, `sent` how many mails its
handler has sent. `Publish`/`PublishThrows` reach Redis at once, the row follows
only at `CommitDrain`, or never (`CrashDrain`). A handler that throws may have sent its mail
all the same (`Throw`): the mailer can time out after the server took it. `forgotten` counts the
mails nobody knows of. BullMQ itself, Postgres and the
mailer are external and modelled by how the code uses them.

### SalesInvoice and CardPayment

`docs` holds the invoices in the order of their creation, each with what it has left
elsewhere: its entry and the mirrors of it, the units moved and put back, what it says is
paid. `payments` is `invoice_payments` by key. A post numbers the document (`PostNumber`),
moves stock (`PostMove`), writes the entry (`PostJournal`) and commits, a cash sale with its
payment (`PostCommit`); a void puts back, mirrors the entry and commits; a payment reads
the invoice in one transaction, inserts in the next and updates the balance it had read;
a return counts what has come back and creates a draft; an edit empties the old draft and
creates another. `lock` holds the rows a transaction keeps to its end: number rows, the
stock row, the journal number, the entry, the header and the key of a payment. `stale`
collects the kinds of the requests that committed after they were overtaken.

A post may be given its journal lines or its stock lines by hand (`ByHand`), and an invoice may
be for nothing. Only an entry made from an invoice that costs something has a key (`Keyed`), and
only lines moved by the module itself meet the index of the movements. `CreatePlain` is the
plain endpoint, which inserts any body, returns of any quantity among them; `counted` marks
the returns that went through the return endpoint instead.

`CardPayment` extends it with the card button: `Press`, `CheckReference`, the charge or the
session, the record of the answer, and the settlement, which is a payment of `SalesInvoice`
under the reference; `refresh` asks an open session how it ended. A crash may come between any
two of the four transactions, and any answer may be lost, or be `unknown`. A reference is unique
with its gateway only, so that `sales` and `charged` are kept by gateway and reference, while
the payment key is the bare reference. `unsure` holds the references where an answer was lost,
an operation broke off or two met; `unbacked` those a clerk paid under himself, or of which a
gateway answered approved beside an error message, having charged nothing. `CardSpec` is the
composition that is checked: the operations of both modules share the slots of requests.

### HashChain and EInvoiceChain

`HashChain` promises that the documents of an environment form one chain that only grows
at its end. `EInvoiceChain` models a submission in its transactions (`Context`, `Check`,
`Reserve`, `Prepare`), the filing outside any transaction (`File`), and the recording of an
answer that may never come (`Record`); a sync is a list of them, a retry files the document
of an earlier submission again, and a void stands beside. `Reserve` locks the chain row of
the environment; `Prepare` extends it and commits. The settings are read anew by every
request and may be any. `ChainSpec` maps the submissions of an environment, in the order
of their places, to the log of `HashChain`; `born` is the environment a place belongs to,
which a retry may not change although it may rewrite `env`.

### Treasury

Money is kept twice, as the balance of each safe and in the ledger, and the properties
compare both with the documents. `Begin` is the unlocked read of a request, `PostEntry` the
journal entry under its key, `SafeMoves` says whether a method moves the safe at once; the
commits write by id what follows from the row as it was read. The number row of the journal,
held to the end, is the only lock.

The accounts of an entry are looked up when it is written: in the cash location, in the party,
in the posting profile of the kind of voucher. A member of `Charts` says which account stands
for each role, and every entry is written under any of them, so that settings may change
between the posting and the settlement of one cheque, cheques in hand may be set for receipts
only, and two roles, custody and counterpart for example, may be one account. `ledger` keeps
what the entries of each document come to on each account (an account's balance is their sum),
`under` the charts they were written under, with `None` for an entry the caller gave by hand.

`OpenShift` lets every cashier have one shift open in the branch; `clock` counts the openings
and closings and stamps the vouchers. A close computes its takings in one transaction, of all
the vouchers of the branch, and writes them in the next. `stale` holds the documents an
overtaken request wrote, `late` the vouchers that were posted or voided while a drawer was
being closed.

### PlatformBilling

`licence` and `document` are the rows of one tenant. Each request reads its row (`ReadLicence`,
`ReadDocument`, `BeginGrant`, `BeginReview`), some look at other rows in a second statement
(`FindRetired`, `FindDuplicate`, `FindOverdue`, `AddUp`), and then write by id and commit
(`Grant`, `Reject`, `Transition`, `ChangePlan`, `CreateInvoice`, `Issue`, `Pay`, `Void`,
`RunDunning`). Two indexes take part: the one on live licences, which leaves out every row
with a `canceled_at` (`OneLive`), and the one on the numbers of attempts. `late` holds the
rows an overtaken request has written.

## 3. The runs

| Run | Bounds | Shows |
|---|---|---|
| `stockledger` | 3 requests, 2 cells, 8 jobs | cache and ledger, overselling, counts and recomputes, every request ends |
| `stocktransfer` | 2 requests at once, 5 in all, lines of 1 and 2 units | document, goods, account; a request submitted twice |
| `stockdocument` | 2 requests at once, 5 in all; 3 documents over 2 items, one at an average of 1 or 2, one without a cost; typed costs | status, stock and inventory account of a document; what a count leaves |
| `fiscalperiod` | 3 requests at once, 2 cards and a third to create, 6 days | one active period, no entry of a deleted one; of what nobody overtook, disjoint open periods, the rules of posting and of closed periods, one reversal |
| `accounttree` | 2 requests at once, 3 in all, 9 jobs; 5 accounts, 3 deep | path, depth and parents agree; posted accounts keep their meaning |
| `sequence` | 3 documents, 2 scopes, counter up to 4 | no gap, no duplicate, refinement, progress |
| `idempotency` | 3 attempts, 2 payloads, handlers of two transactions | one effect but for what throwing attempts committed, right replays, freed keys |
| `outbox` | 1 row, 2 passes, 2 attempts, 2 tries, 1 crash, 1 command | agreement of the stores, one job, every row ends |
| `cardpayment` | 2 requests at once, 4 in all; up to 3 invoices of up to 2 units, for money or for nothing, one reference at both gateways | status, payments, voids and returns of an invoice; the money of a card, at most once |
| `einvoice` | 2 requests at once, 3 in all; 2 invoices, 2 environments, 2 submissions | the hash chain; filed once; no request that read an acceptance undoes it |
| `treasury` | 2 requests at once, 4 in all; 2 vouchers, 1 transfer, 2 safes, 2 cashiers, 2 shifts, 2 charts of accounts, 1 entry by hand | balances, ledger, transit, takings |
| `platformbilling` | 2 requests at once, 6 in all; 2 licences, 2 documents of 1 period worth 2, 2 attempts | money, numbers, attempts and periods of the documents; one live licence |

Why the bounds are enough. Two transactions and a third that commits between the reads of one of
them are all a race of these models needs; three requests over two rows locked in both orders
give every cycle of waits. Quantities of 1 and 2 distinguish a part from the whole. In the
outbox one row is enough for the agreement of two stores, because passes treat rows
independently but for the batch they commit together; a second attempt, a second try and a
second pass are needed for each kind of redelivery. Of the two charts of `treasury`, one gives
each role an account of its own and sets cheques in hand for receipts only, the other has roles
share accounts and sets them for payments only. `MaxRequests`, `MaxInFlight`, `MaxDocs`,
`MaxSubs`, `MaxShifts`, `MaxCrashes`, `MaxCommands`, `MaxSafe` and `HandlerCommits` are the
bounds; `MaxSafe` is a limit of the code itself, made small, and so is `MaxAttempts` of
`PlatformBilling` (3 in the code, 2 in the run). Four to six requests in all leave room for a
document's whole life (draft, post or issue, pay, void or return) with one more to race each
step; two submissions are a chain with a predecessor, in one environment or one in each. Longer
histories of the modules with proofs are covered by these. `fiscalperiod`, `einvoice`,
`treasury` and `platformbilling` use symmetry over requests (`platformbilling` also over
licences and documents, `treasury` over cashiers), which every job names alike or not at all; no
run with liveness uses symmetry. The largest runs visit 2.4 (`einvoice`), 1.5 (`treasury`), 1.4
(`cardpayment`) and 0.9 million distinct states (`platformbilling`).

Fairness. A request that has started goes on as long as its next statement can
run, and the deadlock detector of Postgres runs (`stockledger`, `sequence`);
a handler that does not die goes on (`idempotency`); timers start passes for
ever, a pass and a worker that do not die go on, and the backoff elapses
(`outbox`; `setInterval` in `worker.runner.ts:58-66`). No fairness is assumed of
clients, of Redis accepting a job, of a suspended tenant coming back, or of any
failure.

Deadlock is checked in every run but three; the stuttering actions `AllEnded`, `Finished`,
`AllAnswered` and `Quiet` mark the states in which everything has ended. `cardpayment`,
`einvoice` and `treasury` switch it off, for there clients simply stop when the number of
requests, of invoices or of submissions is used up, and a transaction that waits for a row
can always be ended by a failure.

## 4. What is proved

Every theorem below holds for any values of the constants that satisfy the assumptions of
its module; each names the inductive invariant behind it and why the property alone does not
do.

`StockProofs`, of `StockLedger`, for any number of requests, any finite set of cells and any
jobs:

- `TypeCorrect`: `Spec => []TypeOK`;
- `CacheAgreesWithLedger`, `NoOverselling`: the cache equals the ledger off the
  drifted cells, and no cell is oversold off the drifted and overdrawn ones;
- `RecomputeIsARepair`: a recompute leaves every cell it rewrites, and that
  nobody overtook, equal to the ledger, *whatever the cache said before*;
- `CountIsSettled`: a count that nobody overtook leaves the counted quantity on the row,
  although it books a difference it computed from an unlocked read in an earlier transaction.

None of these is inductive. The strengthening says what an open transaction knows:
what it has written over a row it holds is the row plus the movements it has not
committed; a recompute that is not overtaken carries, for each cell it still has
to write, the sum that is committed now; and only the holder of a row has
uncommitted writes of it. `CountIsSettled` adds `CountInv`: until a count has written its
line, the row and the difference it books make up the quantity counted, and afterwards what it
has written is that quantity.

`StockProofs`, of `StockDocument`, for any requests, documents, kinds, lines, items, typed costs
and averages: `StatusTellsGoods`, `AccountTellsGoods` and `CountedIsLeft`, that is the three
properties of the run. `Written` says what one has locked and worked out: whoever has an entry
to post holds the journal number and found no key of its document, and whoever has moved stock
holds the rows of what it moves. `Undoes` says that a void works from all the movements its
document has, and once it has moved has found no mirrors. `DocOK` ties status, key and movements
together; that a document with an entry has moved *something* is a part of it, since two voids
that moved nothing would not meet on any row. With it, of two posts the second finds the key,
and of two voids the second waits for a row and then finds the mirrors, although neither looks
at the status again. What a document moves is a sum over its lines or its movements (`NetOf`),
by item. For the account it adds what a request that has moved goods knows of their worth
(`Priced`): the movements of a voucher have the sign of its kind, those of a count are worth its
variances unless it reprices, and the entry is worth the same; and that the movements of a
voucher without an entry are worth nothing (`Unpriced`), so that its entry, which adds up all
movements of the document, counts its own only.

`SeriesProofs`, of `DocumentSequence`, for any transactions, scopes and jobs:

- `NumbersWithoutGaps`, `NumbersWithoutDuplicates`: the committed numbers of a
  scope are 1 to its counter, each on one document; `NumbersAreInOrder`,
  `SequenceTypeCorrect`;
- `ImplementsNumberBook`: `SequenceSpec => BookSpec`, every step being an entry in the book
  or a stutter.

The invariant: who has drawn a number holds the row (`WriterInv`); its drafts lie
above the committed counter and up to what it has drawn (`DraftInv`), and fill that
interval (`DrawnInv`); the committed numbers fill 1 to the counter (`IssuedInv`).

`OnceProofs`, of `IdempotencyKey`, for any attempts and payloads: `KeyTypeCorrect`, `OneHandler`,
`ReplaysAreAnswers` and `EffectAtMostOnce`, whatever the number of transactions of a handler;
what attempts committed before they threw is not counted (section 5). The invariant says whose
the key is: while a handler runs or its late call is under way, the row is its claimant's,
unanswered and unexpired (`OpenInv`); a stored answer is the claimant's own (`RowInv`); and
what a label has committed (`CommitInv`).

`OnceProofs`, of `Outbox`, for any rows, tenants, passes and limits: `OutboxTypeCorrect`,
`RowsAndQueueAgree`, `OneJobPerRow`. The invariant: passes hold disjoint sets of pending rows
(`ClaimInv`); what a pass has written and not committed says published only of a job the
queue was given (`DraftInv`); rows and jobs that can be tried have tries left (`LimitInv`);
the mails sent are told by the state of the job and those nobody knows of (`MailInv`).

`OnceProofs`, of `StockTransfer`, for any lines, quantities, costs, stocks and requests:
`TransferTypeCorrect`, `TransferTellsGoods`, `TransitTellsRoad` and `SubmittedOnce`, two arguments
of different kinds. `TransferInv` is about order: a request that nobody overtook could load the
document again, and what it has moved, priced and added up would come out the same (`Knows`); so
its commit changes status, quantities, goods and account together as if nothing had come between
(`GoodsInv`, `TransitInv`). Both speak of a document no overtaken request has written. The worth
of the goods is a sum over the lines, and each commit adds to it line by line. `OnceInv` is about
the fence, and holds under every interleaving: who has an entry to commit holds the journal number
and found its key free, a cancellation holds the rows of the source and found no mirror on them
(`Fenced`); whatever was carried out has left its key. `SubmittedOnce` assumes that every line
costs something, since a request that moves no value posts no entry, and has no fence but the
status it read (`inventory.service.ts:1268`).

`SeriesProofs`, of `EInvoiceChain`, for any requests, invoices, environments and submissions:
`FilingTypeCorrect`, `OneUnbrokenChain` (`Spec => ChainSpec`, the refinement of `HashChain`),
`AcceptedForGood` (of requests that read the submission after its acceptance; the late answer of
one that read it before may still write over it) and `OneFiling` (`FiledOnce`). The invariant:
who is about to extend a chain holds its row and has read it as it still is (`SlotInv`); the row
tells the last of the documents, and every place is taken by exactly one (`ChainInv`).
`OneFiling` adds `FiledInv`. Of an invoice about which nothing is in doubt but what is under
way, it says that whatever the authority has is accepted or has its answer on the way to a
request, that two submissions of it are never accepted, that the invoice tells it, that a
request which goes on with it rightly found it posted and not accepted, and that only one has a
submission of it in hand. The last part is what makes one filing of two submits at the same
moment: the second finds the first overtaking it.

`AccountingProofs`, of `FiscalPeriod`, for any requests, periods, dates and jobs:
`PeriodTypeCorrect`, `CardsAndLedgerAgree`, `NoSecondReversal`, `PostsIntoOpenPeriods`,
`ClosedPeriodsAreFrozen`. That one period at most is active and no entry is left without its
period holds under every interleaving; that the active period is open, that periods do not
overlap, and the other three theorems hold of the periods and entries no overtaken request has
written, and the code breaks them for the others (section 5). The invariant: what a request
works on (`TaskInv`), and that a request nobody overtook still knows the card it read, the rules
it checked and that the entry had no reversal (`ReadInv`).

`PlatformBillingProofs`, for any requests, licences, documents, periods, amounts and attempts:
`BillingTypeCorrect`, `AtMostOneLiveLicence`, `DocumentsTellTheMoney`. Unique numbers and the
sequence of the attempts hold under every interleaving, the rest for the rows no overtaken
request has written. The invariant: a request
nobody overtook still knows the licence, or the document, it has read, what it has added up
and that the period it found free is free (`ReadInv`); `canceled_at` tells the status of every
licence no overtaken request has written (`CanceledTells`), which with the index leaves one
live licence; attempts run from 1 without a gap and no dunning run has counted more than
there are (`AttemptsInv`, `DunningInv`); a series has given out the numbers up to its counter,
none twice (`NumbersInv`, `SeriesInv`).

`AccountingProofs`, of `AccountTree`, for any chart that is a tree to begin with, any requests
and jobs: `ChartTypeCorrect`, `ChartStaysATree` and `IdentityIsFrozen`. Every row that is read,
written or committed has a path that leads to its own account and is as long as the account is
deep (`Sound`); what a request has written it holds, and has computed from the row as it still
is (`DraftInv`); one that nobody overtook still knows its card, the new parent, the whole branch
it moves and, for a deletion, that the account has no children (`Knows`). The tree of the
parents then rests on two facts about paths, for every length: re-rooting a path and the one
above it leaves the one below the other (`RerootAppend`), and whoever lies below the path of the
branch goes through its root (`BelowIsLonger`).

`CardPaymentProofs`, for any requests, keys, references, gateways and number of invoices, of
the composition `CardSpec`: `StatusTells`, `PaidTells`, `VoidedAlone`, `ReturnsWithin` and
`CardMoney`, that is the five properties of the run and the types. The invariant has two
halves, for two reasons. `SalesInv` has to say, beside what the status of each document tells
(`DocOK`, with `PostsTell`: which documents can have been posted twice) and what it may refer to
(`Origins`), what a request under way has locked and found, whoever overtook it (`Holds`: who
has written a keyed entry still holds the journal number, and the document had none; who has put
goods back holds the stock row, and none had been put back), and what one nobody overtook still
knows (`Current`: the status, the balance, the number of units that have come back). `CardInv`
has to say what each till knows of the charge (`TillOK`) and how far charge, row and payment of a
reference have come (`ReferenceOK`). Off `unbacked`, what a till or a row says is approved was
charged (`BackedOK`), so that a payment presupposes a charge; off `unsure` one till at most is at
work on a reference, and before it has recorded an answer nothing is charged but by it
(`SureOK`). `PaidTellsPayments` and `ReturnsWithinSale` compare a row with a sum over the keys
of payments and over the returns of a sale; each commit changes the sum at one element.

`TreasuryProofs`, for any requests, vouchers, transfers, safes, shifts, cashiers and charts of
accounts: `TreasuryTypeCorrect`, `SafesTellDocuments`, `AccountsTellDocuments`,
`TransfersLoseNothing` and `TakingsCounted`. The invariant is `Slots`, `Clocks` and the first three
properties; the fourth follows from `Slots` and `Clocks`. By
`Slots`, a request nobody overtook still has the row as it read it, and one that has written
its entry has read a document its operation accepts; without that, a commit could not be told
to book what the documents change by. By `Clocks`, a shift closes after it opened (`ShiftOK`) and
the shifts of one cashier do not overlap (`InTurn`), each voucher was posted at a moment that has
passed (`VoucherOK`), a close that has added up its takings would still add up the same but for
the late ones (`ClosingOK`), and a closed shift has taken what it should (`Told`). The balances
are then kept step by step: every commit changes one document, hence every sum by what that
document tells, and the same amount goes to the safe, or the document goes to `stale`. The ledger
is kept document by document. Each entry moves the money from where the status said it was to
where it says it will be, and if all were written under one chart these two places of successive
entries cancel out, whichever accounts they are.

`SumTheorems` holds the algebra: a sum over a finite set (`MapThenSumSet` of the community
modules) of a function that changes at one element, grows by one element, is split in two, is
restricted by a condition, or is compared with another element by element. The library's
induction rules for finite sets take an operator, which the provers cannot instantiate; the
lemmas that need induction are shown of a smallest counterexample instead, which exists
because the strict subsets of a finite set are well founded.

Assumptions are those of the modules: `JobsAssumption` of the ledger, of numbers and accounts,
`TasksAssumption` of periods, `CellsAssumption`, `StockAssumption`, `DocumentsAssumption`,
`NoneAssumption` (of the ledger and of keys), `NamesAssumption` (of numbers and accounts),
`ChartAssumption`, `DatesAssumption`, `RowsAssumption`, `FirstRowsAssumption`,
`HandlerAssumption`, `TenantAssumption`, `LimitAssumption`, `TransferAssumption`,
`ChainAssumption`, `BillingAssumption`, `SalesAssumption`, `CardAssumption` and
`TreasuryAssumption`. They say which shape jobs and first rows have and that `None` is none of
the values it stands beside; TLC evaluates each in the passing runs. Two say more, each with its
reason in the code:

- `SalesAssumption`: the clients' keys of payments are finitely many, and none of them is a
  key the server makes for a cash sale (`sales-settle:<id>`, `sales.service.ts:756`).
- `TreasuryAssumption`: vouchers and transfers are finitely many, and vouchers, transfers and
  shifts have different ids (rows of three tables, which the model puts into one set of
  targets).

Model-checked only: liveness (`EveryRequestEnds` of the ledger and of numbering,
`EveryRowSettles`, `FailureFreesTheKey`), which is beyond the prover. Every invariant and every
action property the runs check is the subject of a theorem.

## 5. Where the code and its documents disagree

No run is kept only to show a disagreement. These were seen while modelling; most are
the reason for an exception in a property:

- An entry lands in a period that was closed after the check (`accounting.service.ts:1822`;
  `docs/ACCOUNTING_ARCHITECTURE.md:15-16` calls it impossible at the level of database and
  service): `CheckedPostIntoOpenPeriod` speaks of requests nobody overtook.
- Every receipt of a transfer posts the value of all its receipts so far, so that two
  partial receipts clear the in-transit account more than once (`inventory.service.ts:1406`,
  `:2133`, against the comment at `:1331`); cancelling a sent transfer mirrors the entry and
  marks it void, so that a balance of posted entries loses its value twice (`:2187`,
  `accounting.service.ts:1107`). `TransitTellsGoods` leaves out both.
- A count of two lots of an item compares each line with the whole item (`:3143`; "every
  line is brought from its book quantity to the counted one", `:3083`): `CountLeavesCounted`
  speaks of items on one line.
- `adjust` (`:683`) and `postAdjustment` (`:3115`) compute the variance from an
  unlocked read, so a movement that commits in between is counted twice; the
  comment at `:3083` says "every line is brought from its book quantity to the
  counted one" (exception `overtaken` of `AdjustSettlesCount`).
- `recomputeBalances` writes a valuation read in an earlier transaction (`:589`), so
  it erases a movement committed in between from the cache; the module's README says
  at line 13 that it "repairs the cache from the ledger" (exception `drifted`).
- A voucher without value, or a count whose differences cancel out, posts no entry
  and so has no key: two posts at once both move the stock (`:2776`, `:3101`; "A second
  post is refused", `:2773`) (exception `worthless`).
- The void of a voucher takes the value out of the account twice, as the cancellation
  of a transfer does (`:2187`): `AccountTellsStock` stops at the first void.
- The entry of a count values a shortage at the cost typed on its line, or at the average it
  read unlocked (`:3161`, `:3193`), the movement at the average of the locked row (`:3167`,
  `:285`): account and stock differ even if nothing runs beside the count, while the comment at
  `:3083` has "the net value of the difference" posted (exception `repriced` of
  `AccountTellsStock`). Average costs below zero, which a void of goods since sold can leave, are
  left out.
- A handler that throws frees its key and a retry runs it again in full, though the comment
  says "nothing happened" (`idempotency.interceptor.ts:112`): one of several transactions that
  fails after the first, such as `sendToInvoice` (`pos.service.ts:491`), but also one whose only
  transaction is committed and whose read-back fails (`accounting.service.ts:625`) or whose
  COMMIT is not acknowledged. `EffectOnce` leaves out what attempts committed before they threw.
- A mailer that times out after the server took the mail throws (`mailer.ts:232-233`, `:267`),
  and the attempts of the queue send it again (`queue.service.ts:121`): `RedeliveryIsOneJob`
  counts it among the `forgotten`.
- A receipt on a row that an override took below zero is refused unless it covers
  the whole deficit (`:297`).
- Two requests over one transfer, both loaded before either commits: a
  cancellation of a draft that is being sent, a receipt and a return of the same
  goods (`:1606`; "Two honest endings, and no third one", `:1578`), a transfer
  without value sent twice (`:1102`) (exception `stale`).
- Cancelling a partially received transfer leaves the rest on the road: the goods are
  mirrored only when nothing was received (`:1800`; "otherwise the stock has simply
  disappeared", `:1793`).
- A receipt that names a line twice is checked entry by entry against the loaded
  line, so it may take in more than the transfer carries (`:1353`).
- The journal key of a receipt is made of its lines and quantities, so a second
  partial receipt of equal content is refused (`:1452`).
- `activatePeriod` and `closePeriod` at once leave a closed active period
  (`accounting.service.ts:930`; migration 0048 line 40: "never a closed one"); a
  period closed after the check is edited or deleted (`:869`, `:912`); overlapping
  periods are created at once (`:1000`); an entry is reversed twice (`:1076`)
  (exceptions `late` and `overtaken`).
- `docs/DOMAIN_MODEL.md:109` asks of a close that all modules be locked and no
  drafts be left; `closePeriod` looks at drafts only.
- Two moves of branches through one another, an account created under a branch that is
  being moved, and a rename that races a move tear paths from parents
  (`accounting.service.ts:671`, `:715`); two moves at once even make a cycle, which
  `:661` refuses to one (exception `torn`). `docs/DATABASE_DESIGN.md:133` speaks of a
  "path integrity trigger" that no migration creates.
- `postJournalInTx` asks neither whether an account is postable nor whether it is
  deleted (`:1854`); `docs/DOMAIN_MODEL.md:101` and `ACCOUNTING_ARCHITECTURE.md:45`
  require both. `PostLines` posts to any row there is.
- `updateCostCenter` refuses a centre only as its own parent (`:2277`), so a cycle of two
  passes.
- An outbox row whose every attempt is refused ends `dead` and is never delivered,
  though `outbox.service.ts:27` guarantees delivery; a row cancelled from the
  console may be in Redis already (`platform-operations.service.ts:155`); a
  published row is taken for one that ran (`:191`); a stalled job sends its mail
  again (`job-handlers.ts:75`).
- Sales: a draft emptied by an edit that then fails can still be posted, with its old total
  and no movement (`sales.service.ts:381`); it, like a service, may be voided twice by voids
  that meet, since only movements have an index (`:1243`) (exception of
  `StatusTellsEffects`). A post with journal lines given by hand has no key (`:632`), so that two
  that meet on a document without stock lines write two entries; so do two posts of an invoice
  for nothing with no lines to move, without an entry (`:642`). A return created by the plain
  endpoint is not compared with its sale (`:297`, `:301`; `sales.controller.ts:29`), though it is
  counted against later ones: `ReturnsWithinSale` holds the return endpoint to the sale, and
  nobody else. Two payments on one balance pay more than the total, and the header
  keeps one of them (`:1387`).
- Card sales: a settlement that fails or dies after an approval is not tried again, for
  `refresh` refuses a final status (`payments.service.ts:415`); two presses of one reference
  can charge twice (`:276`) (exception `unsure`). A reference is unique per provider and the
  payment key is the bare reference (`:423`), so that two gateways which charge one reference
  share one payment: the second row is marked settled by the payment of the first. An
  `approved` beside an error message is settled although no card was charged
  (`neoleap.ts:143`, "no card was ever charged"), and a clerk who pays under a reference makes
  its settlement a replay (exception `unbacked`). An answer the code does not know is `unknown`,
  which NeoLeap cannot be asked about again (`neoleap.ts:153`).
- E-invoicing: a retry looks neither at other submissions of the invoice nor at its void, and
  under other settings rewrites the environment of the row; a retry that fails writes its
  status over that of an invoice already accepted (exceptions `blurred` and `stale`).
- Treasury: voiding a voucher gives the safe its money back and leaves the entry posted
  (`treasury.service.ts:673`); an edit of a draft leaves `net_amount`, and the state of the
  cheque when the method becomes cheque; voiding a voucher whose cheque was cleared leaves the
  money in. `LedgerTellsDocuments` says so in its definition. A cheque posted under one setting
  and settled under another leaves its amount on the account it waited on (`:693` against
  `:854-858`), and lines given by hand (`:744`) need not be of the voucher at all: the ledger
  properties speak of documents whose entries were made by the module under one chart. Posts,
  voids and settlements of one document that meet are done twice; a cancellation that overtakes
  a send leaves the money in transit; two closings of the books of one shift post two entries
  (exception `stale`). Each cashier of a branch may have a shift open (`:1221-1230`) and each
  counts every voucher of the branch (`:1286-1297`), so that two shifts may take one voucher; a
  voucher posted between two shifts, or while one is being closed, is in none (exception
  `late`). Custody is cleared by a receipt voucher on it (`README.md:28-29` of the module), and
  a cash location may have the account of the till (`:13`, `:21`): the charts of the model let
  roles share accounts.
- Platform billing: payments that meet record more than the total and `paid_amount` keeps one
  of them; issues of one document that meet leave a gap in the series; a void and a payment
  that meet void a paid invoice or revive a void one; a pause, resume, change of plan or
  dunning run that a cancellation overtakes revives a licence the index no longer sees
  (exception `late`). A partly paid invoice may be voided. A licence that is past due does not
  become active by being paid. `handleStripeWebhook` of `billing.service.ts` writes outside
  `withPlatformAdminTx`.

## 6. Not modelled, and why

Of about 200,000 lines, the models stand for the services in which several requests, workers
or outside systems meet over the same rows and money, goods or numbers depend on the order.
The rest is left out for one of these reasons:

- *The same pattern over other tables.* `purchases.service.ts` posts, voids, pays and returns
  as `sales.service.ts` does; the verticals (tailoring, marina, optics, contracting,
  installments) post documents of their own over the same ledger, journal and numbering. A
  second module would repeat `SalesInvoice` with other names.
- *Several transactions in one handler.* `sendToInvoice` of the point of sale, sign-up with its
  provisioning and the seeding of a tenant are chains of transactions under one idempotency
  key. The point they share, that a failure after the first frees the key, is in section 5, in
  `HandlerThrows` and in the constant `HandlerCommits`; the handlers themselves are not modelled.
- *A life cycle of one actor.* Payroll runs, backups, campaigns, onboarding and support
  tickets: one status, moved by one administrator or one timer.
- *Data, not control.* How the average cost moves, rounding and valuation; batches, lots,
  serials and units; tax; price lists and currencies; the arithmetic of billing periods; the
  layout of numbers, documents and e-invoices.
- *No state of their own.* Reports, print templates, searches, the four web applications.
- *Other questions.* Authentication, roles, row-level security; the one-off migrator.

The components marked `not_modelled` in `PROJECT.json` say which reason is theirs.

## 7. Plan

Done: the stock ledger, transfers, vouchers and counts; numbering; idempotency keys; the
outbox; periods, posting and the chart of accounts; sales with card payments; e-invoicing;
treasury; platform billing.

Next, in this order:

1. An abstract specification of a posted document (its goods, its entry and its number appear
   together, and leave together), implemented by `StockDocument` and by `SalesInvoice`.
2. The hand-over from the point of sale to an invoice, as a handler of several transactions
   under `IdempotencyKey`; the same composition serves sign-up and provisioning.
3. Serial numbers of vouchers and sales (one piece, one place).
4. Payroll, if its reversal is ever opened to two users at once.
