# Formal models of sys_api

`sys_api` is the backend of a point of sale: a FastAPI application on PostgreSQL
(asynchronous SQLAlchemy, READ COMMITTED) and RabbitMQ (aio-pika), served by two
worker processes (`Dockerfile.prod`, `--workers 2`). Sellers post invoices;
invoices are decided a little later, by a timer or by messages, and confirmed
ones take their units out of stock.

This directory holds TLA+ models of the system, the TLC configurations that check
them on small instances, and TLAPS proofs of what holds for any number of requests,
products, messages and rows. `PROJECT.json` maps every definition to the source lines
it models and lists the components, hazards, runs, theorems and findings. Paths
below are relative to `src/app/`.

## 1. The system

### Components

| Component | State | Operations | What makes it correct | Modules |
|---|---|---|---|---|
| Invoice numbering (`invoice_repository.py`, `invoices/handlers.py`) | `invoices.invoice_number` (unique), the id sequence | read the last number, INSERT, commit, roll back | no gaps, no duplicates, in order, nobody waits for ever | `InvoiceNumbering`, `NumberBook` |
| Invoice status and stock (`invoices/handlers.py`, `consumer.py`, `product_repository.py`, `products/handlers.py`) | invoice status, product stock and `is_active`, movement rows | create, timer confirmation, validated, rejected, status endpoint, product edits | legal status steps, one sale per confirmed invoice, the stock agrees with its movement rows | `InvoiceStock`, `InvoiceStatus`, `StockBook` |
| Invoice events and consumer (`consumer.py`, `publishers.py`, `rabbit.py`, `main.py`) | queue, deliveries, `processed_events`, timers in memory | publish, receive, look up, mark, act, acknowledge | no message lost, no event acted on twice, every invoice decided | `InvoiceEvents` |
| Totals and tax snapshots (`invoices/handlers.py`, `money.py`) | columns of an invoice, copied from the catalogue | computed on creation, read back | row, reply, XML and PDF agree; later edits change nothing | `Amounts`, `Documents` |
| SRI access key, XML, PDF (`core/sri.py`, `infrastructure/pdf/service.py`) | none of their own | check digit, key, document | a key names its invoice, a mistyped digit shows | `CheckDigits`, `Identifiers`, `Documents` |
| Login, lockout, registration (`auth/login_command.py`, `unlock_command.py`) | `failed_login_attempts`, `blocked_at` | login, unlock, register | enough wrong passwords block, a right one resets | `Accounts`, `Requests` |
| Refresh tokens (`auth/__init__.py`) | token rows | issue, exchange, log out, expire | a spent token is not taken again | `Accounts` |
| Access tokens and roles (`core/security.py`, `presentation/deps.py`) | claims held by clients | mint, check a claim, expire | what was taken away ends | `Accounts`, `Routes` |
| Users, clients (`users/handlers.py`, `clients/handlers.py`) | user, role and client rows | create, update, deactivate, unlock, assign roles | unique cedula, email and username; roles are the ones last asked for | `Handlers`, `Requests`, `Accounts` |
| Catalogue and taxes (`products/handlers.py`, `taxes/handlers.py`) | product and tax rows | create, update, deactivate, delete | edits do not undo sales, invoices keep what they said | `InvoiceStock`, `Documents`, `Requests` |
| Units of work and the pool (`uow.py`, `session.py`) | sessions, at most fifteen connections | begin, commit, roll back | all or nothing, no request waits for ever | `Requests` |
| Audit and error log (`presentation/routers/*.py`, `core/exceptions.py`) | append-only rows | add, list | no row about a change that was undone, none missing behind a success | `Routes`, `Requests`, `Readers` |
| Lists, reports (`infrastructure/repositories/*.py`, `core/pagination.py`) | none of their own | page, count, aggregate | what a reader misses is bounded by what moved | `Readers` |
| Seed scripts (`scripts/seed.py`, `seed_large.py`) | every table | wipe and fill, clear and bulk insert | no dangling references, numbering goes on, others' rows are spared | `Seeds` |
| Rate limiting, health | library counters; none | count; ping | | not modelled |

### How they interact

Routers open a unit of work, build repositories on it and pass them to a
handler; the handler rebuilds the repositories on a unit of work **of its own**,
which commits first. The router's outer one then writes the audit row. So a
request is two transactions on two connections, and the first is visible before
the second ends.

`POST /invoices` checks the products, reads the taxes line by line, computes totals,
reads the last invoice number, inserts the invoice with its XML, publishes
`invoice.created` and arms a two-second timer, all before it commits. The consumer of
each worker reads that message from the shared queue, records its event id in
`processed_events` (a transaction of its own), sleeps two seconds and publishes
`invoice.validated` itself (the "bypass"); the external validator `sys_invoice_check`
may answer the same `invoice.created` with `invoice.validated` or `invoice.rejected`.
The timer confirms the invoice without asking the broker. An administrator may set a
status through an endpoint and edit the catalogue at any time. Login and token exchange
copy a user's roles into access tokens, which requests trust until they expire.

### What is hard

* Up to four actors decide one invoice, each reading its status with a plain
  SELECT and writing the result later, without row locks or version checks.
* Stock is read, computed in Python and written back as an absolute number; it is
  checked when an invoice is accepted and taken when it is confirmed.
* The ledger is written before the action it stands for; timers live in memory;
  publishing happens before the commit; messages can be redelivered or dropped.
* Two transactions per request share a bounded pool; between their two commits
  anything may fail.
* Checks for duplicates, token exchange and role replacement read first and write later.
* An invoice copies prices, rates and names while others edit them, and its session
  keeps some objects and forgets others.
* Lists and workbooks are made of several statements, each of another moment.

The full list, each item at its line, is `hazards` in `PROJECT.json`.

## 2. The modules

### InvoiceNumbering (abstract specification: NumberBook)

One POST is a process: `NextInvoiceNumber` (the number of the committed row with
the greatest id, plus one), `Insert` (the id comes from the sequence *first*, then
the unique index decides), `Wake` after waiting for another transaction's entry,
`Commit`, `Rollback`. `IndexVerdict` models PostgreSQL's unique index: a committed
duplicate aborts, an uncommitted one blocks. Nothing is retried: an
`IntegrityError` ends the request. `NumberBook` says what the table promises its
readers: the issued numbers are `1 .. n` and grow by `n + 1`.

Although nothing locks the last row, numbering is sound: a transaction that read an
old number runs into the unique index and is rolled back. It is the price of
concurrent POSTs that some fail with an error.

### InvoiceStock (abstract specification: StockBook; InvoiceStatus)

`InvoiceStatus` is the transition table. `StockBook` says what is meant: accept,
confirm, reject, cancel, move by hand and edit as indivisible steps. `InvoiceStock` splits them
into the statements the handlers execute and lets them interleave without any
restriction. A *job* is one transaction (create, timer, validated, rejected, admin, edit):

| Action | Code |
|---|---|
| `BeginLines`, `CheckLine` | the product loop of `CreateInvoiceHandler` |
| `ReadInvoice` with `Proceeds` | `find_by_id` and the status test of `_auto_confirm_invoice`, `_on_validated`, `_on_rejected`, `ChangeInvoiceStatusHandler` |
| `ReadLine`, `WriteLine` | SELECT and UPDATE of a product in `decrement_stock`, the cancellation loop, the product handlers |
| `WriteStatus` | `update_status` or the INSERT of the invoice, flushed last |
| `Commit`, `Abort` | the end of `session_scope` |

`writes[j]` holds the uncommitted UPDATEs. The ORM sends absolute values, only for
columns it changed; another transaction's UPDATE of the same row blocks
(`RowBusy`) and then overwrites. `saw[j]` and `rows[j]` are the status and the product
rows a job has read. `exits` and `entries` add up the committed
movement rows, `sold` and `restored` count per invoice the commits that moved its
stock, `byHand` the times an administrator set it CONFIRMED, and `unseen` the decisions
committed over a status that was no longer the one their job had read. `Abort` stands for every exception, including being the victim of a
PostgreSQL deadlock, which two invoices naming the same products in opposite
order do run into: the blocked states are in the model and `Abort` leaves them.

What the code does not promise is in the model too: two confirmations at once lose a
stock update (`product_repository.py:75`), the last unit is sold twice because nothing
is reserved between acceptance and confirmation (`invoices/handlers.py:189`), two
`invoice.validated` of one invoice can both take stock (`consumer.py:57`), a later commit
overwrites an earlier status (`invoice_repository.py:86`), and the status endpoint can
confirm an invoice without taking stock (`invoices/handlers.py:622`). The properties say
what remains true in spite of that, and trace the rest to its cause: a step outside the
transition table, a sale too many, is always a commit over a row that had changed since it
was read, which the version columns would show if anybody asked for the comparison that
`update_status` offers (`expected_version`). So `db/models/invoice.py:5` ("Transitions are enforced in the
application layer") is true of decisions that do not overlap, and of no others.

### InvoiceEvents

The broker is a set of messages ready and a set of deliveries in progress; a
delivery goes through `CheckLedger`, `Mark`, `Act`, `Ack`, or is discarded when
its handler raises (`process(requeue=False)`; no queue names the dead-letter
exchange, so a discarded message is gone). `Crash` kills a worker: deliveries,
timers and open transactions vanish, unacknowledged messages return to the queue,
and the worker comes back, with its consumer or, if the broker is unreachable at
startup, without (`main.py:55`): `listening` has the workers that consume. `LoseConnection` returns messages to the queue while the handlers
keep running, which is how an event can be acted on twice (`ActedOncePerLoss` says how
often). `Announce` publishes (or swallows the failure) and arms the timer,
`EndPost` commits or rolls back. A decision is one step here; its
interleaving with other decisions is InvoiceStock's subject. The broker and the
validator are external, modelled from how the code uses them. A crash between ledger
and action, with the timer in the same worker, leaves an invoice pending for ever: the
liveness property speaks of invoices that somebody has yet to look for after the last crash.
Where no worker listens nobody is to look for a message that is still in the queue: the
invoice depends on its timer alone, and the queue waits for a restart.

### Accounts

Who may act as whom. `account` holds the columns of `users`, `roles` the rows of
`user_roles`, `tokens` the refresh tokens, `access` the claims of access tokens not yet
expired. A request in flight is a *slot* of `calls` that moves from statement to
statement and commits last.

| Action | Code |
|---|---|
| `LoginFails`, `LoginSucceeds`, `IssueRefreshToken` | `LoginHandler`, then the router's own transactions |
| `ExchangeFinds`, `ExchangeReadsUser`, `ExchangeRevokes`, `ExchangeCommits` | `RefreshAccessTokenHandler`: look up, read the roles, revoke, add the successor |
| `LogoutRevokes`, `LogoutCommits` | the log-out |
| `AssignStarts`, `AssignDeletes`, `AssignInserts`, `AssignCommits` | `AssignRolesHandler`: a DELETE of what its snapshot shows, then INSERTs |
| `SetActive`, `Unlock` | the user handlers that change the account row |
| `TokenExpires`, `AccessExpires` | `expires_at` and the `exp` claim |
| `Fails` | any exception before the commit |

`LoginFails` applies `AfterRaise`: the handler counts the failure and raises inside the
unit of work that wrote the count, so nothing of it stays. `streak` counts wrong
passwords as the user does, `asked` what the last replacement of a user's roles asked for and,
apart, what each that committed while it was under way did; both are there for the properties. Two exchanges of one token
that both found it alive both succeed, and an account blocked or deactivated keeps
exchanging, since `find_by_id` looks at neither column: the properties do not claim otherwise.

### Handlers, Routes, Requests

`Handlers` describes each use-case handler by four facts: its table, what it writes,
whether it needs its row, and the columns it searches for a duplicate. `Routes`
describes every endpoint as a program of steps (`before`, `handle`, `inner`, `audit`,
`reread`, `outer`), with the role it asks for and whether it writes an audit row.
`Requests` runs them: a request `Arrives` with a route and payload, takes connections from
one pool (`InUse`, `Free`, `Waits`, `TimesOut`), passes its handler's checks
(`HandlerChecks`), locks and unique indexes (`Blocked`, `FlushRaises`), commits its
inner transaction (`HandlerCommits`), then its outer one (`Replies`), and may be broken by
the database (`Breaks`) or a crash (`Crashes`) at any step. `LogsError` is the global
exception handler.

The routes that always fail are modelled as they are: `POST /products` and `POST /taxes`
commit the row and then raise while they encode a `Decimal` for the audit
(`DetailFails`: `routers/products.py:96`, `routers/taxes.py:69`); `PUT /taxes/{id}` reads a column
taxes lack (`BeforeFails`: `routers/taxes.py:92`). Deleting what does not exist answers 204 and
audits it. Once a cedula is there twice, every search for it raises (`CheckRaises`). A
caller without the role a route asks for is refused on arrival.

### CheckDigits, Identifiers

`CheckDigits` holds the check digits of cedulas (modulo 10) and access keys (modulo
11), the cleaning of a typed cedula and the layout of the key. `Identifiers` types
digits one by one and compares: the loop from the left with the standard's weights from
the right, and every single typo and swap of neighbours with the digit that should show it.

### Amounts, Documents

`Amounts` holds the arithmetic: line subtotals, tax amounts rounded half up, the sums,
the groups and details of the XML, the PDF's breakdown with and without an XML. Amounts are
integers (cents, hundredths of a percent), rounding is explicit.
`Documents` composes it with `CheckDigits`: a creation is `Begins`, `ReadsProduct`,
`ReadsTax`, `ReadsClient`, `Stores`, one SELECT each, while `EditProduct`, `EditTax`,
`EditClient` and `DeleteTax` commit in between. A client may lack a name, a cedula or both;
an edit sets what its payload names and keeps the rest (`clients/handlers.py:116-128`). `RateSeen` and `ClientSeen` say what the
SQLAlchemy session does with an object it still references: the old one is returned.
`DeleteTax` models `ON DELETE SET NULL` on the tax rows of stored invoices. `PdfHeader` takes each
field from the XML, else from the row, else the words for a buyer unknown (`pdf/service.py:173`). The PDF and the
reply are operators on the stored row, since they are made anew for each request.

Left as it is in the code and excluded by the properties' conditions: lines without
a tax are not in any group of the XML when another line is taxed, a line with two taxes
counts in two, a line with a tax of 0% is under another subtotal with the XML than without
(`pdf/service.py:385` and `400-407`), and a cart that comes back to a tax after another one may carry two rates for
it. Default taxes of a product never apply, because `product_taxes` is loaded with
`lazy="noload"`; an item has the taxes the payload names.

### Readers

A row is its id; it *comes* into a list (a commit, a status, a reactivation) or *leaves*
it. A product may be renamed (`Renames`) under the list that is sorted by name: a shown one leaves its
place and comes to another, which counts as one of each. Rows that sort alike (products
without a name, entries of the error log of one moment) fall either way, and another way for
the next page (`Firsts`, `PagesOf`). A reader either pages through a list until a page is empty (`BeginsListing`,
`ReadsPage`, `ReadsCount`) or downloads the sales workbook (`BeginsWorkbook`,
`ReadsSheet`, six statements). Each list is its order, its scope and whether it refuses a limit out
of bounds, as the audit log does with bounds of its own, or `ParseLimit` clamps it. An
aggregate stands as the rows it is made of, per group: the totals, clients and days are over the
invoices confirmed in the window, `CountsByStatus` over every invoice (`reports/__init__.py:50`),
`TopProducts` and `TopSellers` are inner joins that leave out invoices without lines or without a
seller (`:84`, `:207`). Which groups are at the top depends on amounts, and may be any. An
invoice's lines, client, seller and day do not change while the workbook is read.

### Seeds

`seed.py` is one transaction that deletes every table and fills it;
`seed_large.py` clears its last rows, commits, and inserts products, clients and
invoices in a transaction each. `job` is the script under way, phase by phase;
`doomed` and `fresh` are what its open transaction deleted and inserted. Meanwhile
creations go on, one SELECT or INSERT at a time: `ReadProduct`, `ReadClient`, `ReadSeller`,
`ReadNumber` lock nothing, `Insert` and `Wake` are the invoice under its unique index and foreign
keys, `InsertsLine` the line under that of its product, then `Commit` or `Rollback`. A script's
DELETE waits only for rows whose foreign keys were checked: `DeletesPeople` for inserted
invoices, `DeletesProducts` for inserted lines. Three series share one
`next_invoice_number`: it reads the suffix of the newest row whatever its series.

### Fault operators

Some modules define a variant of an operator, marked "Fault": what the code would
do with a plausible mistake in it. No specification uses them; they are there to
show that each property fails when the code is wrong.

## 3. The runs

| Run | Configuration | Shows | Bounds |
|---|---|---|---|
| `numbering` | `MCInvoiceNumbering.cfg` | numbers are gapless, follow the ids, are issued one at a time; every POST ends | 5 POSTs: a holder, waiters, and readers before and after the holder's end |
| `stock_overlap` | `MCInvoiceStockOverlap.cfg` | what no interleaving breaks: movements come in whole invoices, confirmed means sold or confirmed by hand, the stock stays within the trail; and what explains the rest: a sale too many or a step outside the table is a decision over a status that had changed, and a commit whose reads still hold is one step of StockBook | 2 invoices that share a product, 9 transactions, all overlapping: timer, message and cancellation of one, timer, rejection and CONFIRMED by hand of the other, an edit of the stock; of one product one unit, so that acceptance can fail |
| `stock_duplicates` | `MCInvoiceStockDuplicates.cfg` | *violation*: timer and messages of one invoice overlap, and its units leave more than once | one invoice, its timer, two messages |
| `events_safety` | `MCInvoiceEventsSafety.cfg` | no message disappears unnoticed; no event is acted on more than once per lost connection, plus once | one invoice, 2 workers, one crash, one lost connection, one exception, and a commit that may outlast the grace period |
| `events_live` | `MCInvoiceEventsLive.cfg` | timer and bypass make up for each other: a committed invoice is decided if more of them have yet to look for it than exceptions are to come; every handler ends, and where a worker listens the queue drains | one invoice, 2 workers, two crashes, two exceptions (so that the broker may be down when both workers start), POSTs that may outlast the two seconds |
| `accounts` | `MCAccounts.cfg` | no exchange that begins after a token was spent is served; roles are exactly those of the last replacement, or these and all those of some that overlapped it; privileges taken away end | one user, 2 roles (one or the other is assigned, so the union is nobody's wish), 2 requests at a time, 2 refresh tokens, a limit of one attempt |
| `lockout` | `MCAccountsLockout.cfg` | *violation*: three wrong passwords in a row and the account is not blocked | the limit of `config.py` |
| `requests` | `MCRequests.cfg` | replies and audit rows are true, a cedula is doubled by overlap only, no more connections than the pool has, every request ends | any 2 routes of one table (or reads) at a time, 2 connections, one failure or crash |
| `identifiers` | `MCIdentifiers.cfg` | the check digits are the standard's and show every single typo | a thousand cedulas with every last digit, a couple of hundred access keys, every typo of each |
| `documents` | `MCDocuments.cfg` | row, reply, XML and PDF agree on amounts, buyer and number; later edits change nothing but a deleted tax's name | 2 creations, 5 carts (untaxed lines, two taxes on one line, a tax on two lines, no client, the same product twice), rates of 0% and 15%, 2 edits, one client whose name and cedula may be there or missing |
| `readers` | `MCReaders.cfg` | what a reader misses, sees twice or is told is off by no more than what moved; the sheets of a workbook likewise | 4 rows, 3 moves (a rename is two), pages of one to three, every list order, ties, invoices without lines, client or seller |
| `seeds` | `MCSeeds.cfg` | no dangling reference, numbering goes on but for two named cases, a completed stress run is whole and spares others | 3 script runs, each writing 2 invoices, 2 creators, 8 ids |

### Why the bounds are enough

Events are checked with one invoice: two, with a crash and liveness, are out of TLC's reach (over
seventeen million states with two workers). Invoices share the broker and the prefetch limit; that
one's verdicts wait behind another's handler is met only as one invoice's verdicts waiting
behind its own, with one delivery per worker. Two workers are what the deployment has and what it takes
for a handler and a redelivery to run at once; two exceptions are what it takes to leave both
without a consumer. In `stock_overlap` two invoices compete for one product, each with
its own deciders; more transactions of a kind repeat what two do. One unit per line suffices because quantities enter as a
sum only.

In `accounts` the actors of one user meet, users share nothing; two requests are enough for two
exchanges of one token, for an exchange and a log-out, and for two role replacements.
Spent tokens are drawn again, so the run goes through any number of rotations. In `requests`
two connections and two requests give the circular wait that fifteen and fifteen give: each
holds one and wants another. Requests on different tables meet in the pool only, where a
route counts by its steps, so combining the routes of one table is enough. In `identifiers`
the digit depends on the weighted sum; the free places cover every weight and every
remainder. In `documents` two edits are a change before and one after a read; prices of zero
and a third of a dollar make the rounding matter. In `readers` three moves can
shift rows over both boundaries of a page, or a rename and another row. In `seeds` three runs are an old run, one
that stops half way and one after it.

Where instances end (requests, jobs, creators and edits are finite in number, an
identifier has an end), deadlock checking is off: a state in which everything has ended is
not a deadlock. That waiting itself is never circular for ever is `EveryCreateEnds` for the
unique index and `EveryRequestEnds` for the pool.

### Properties that need a condition

Each states a condition that a reader should know of:

* `ExtraSalesAreUnseen`, `OnlyUnseenStepsLeaveTheTable` and `CurrentCommitsAreBookSteps` hold in every
  interleaving, and say of which commits the double sales, forbidden steps and lost updates
  come; the code does not keep these from happening. `WithinTrail` speaks of a product until an
  administrator's edit of its stock has begun.
* `DecidedWhileChancesLast`: an exception may use up the last chance, a crash both at once, and a
  late commit may come after both. A bypass that is still in the queue is a chance only where
  a worker listens; `QueueDrains` asks the queue to be empty only there.
* `CedulaTwiceOnlyByOverlap`: a registration does not look for the cedula, and of two
  overlapping writers neither sees the other. Deactivated rows count as duplicates.
* `RolesAsAsked`: of overlapping replacements the user may end up with the union, each taken whole.
* `SpentTokensAreRefused` speaks of exchanges that begin after the token was spent.
* `PrivilegesEnd` is eventual: until they expire, tokens keep what was taken away.
* `OneRatePerTax` holds for carts that do not come back to a tax after another;
  `BasesMakeTheSubtotal` where each line has one tax, which is not of 0%, or none has any.
  `BuyersAgree`: a client without a cedula is Consumidor final in the PDF, whatever the row's name.
* `MissesOnlyWhatMoved`, `RepeatsOnlyWhatMoved` and `TotalIsNearby` speak of readings in which no two rows
  in the list sorted alike (`InOneOrder`): the code sorts by nothing else, and where two products have no
  name, or two errors one moment, pages may overlap although nobody writes.
* `SheetsDifferByWhatMoved` compares two sheets on the invoices both are over; the counts by status
  are over all of them.
* `TotalIsNearby` excludes a seller's list, whose total is the length of the page
  (`routers/invoices.py:68`).
* `NumbersGoOn` excludes two states in which every `POST /invoices` may fail until a script
  is run again: after `seed_large.py`, whose numbers start at zero with the greatest ids, and after an
  invoice was committed between two DELETEs of `seed.py` and outlived its seller.
* `StressSparesOthers` speaks of invoices. The clients and products named `Stress...` the script deletes
  whoever made them (`seed_large.py:46-47`), and an invoice that refers to them loses the reference.

### The findings

`login_command.py:7` promises that a failed login increments the counter and blocks at the
maximum. The exception raised after the UPDATEs leaves through the unit of work that made
them (`login_command.py:67`), and `session_scope` rolls back; `lockout` reaches three wrong
passwords with the counter at zero. (The rate limit on the login is what slows a
guesser down.)

`consumer.py:112-114` says of the bypass that publishing a duplicate `invoice.validated` is a
no-op, because the ledger blocks it. The ledger goes by event ids, and each message has its own; what
is left is the look at the status, a plain SELECT. `stock_duplicates` has the timer
and two messages read PENDING_VALIDATION before one of them commits (they are due at the same moment, two
seconds after the POST), and each takes the units out. With `ExtraSalesAreUnseen`, each sale
too many overwrites a status its transaction had not seen.

Smaller disagreements that the models contain as the code has them: `assign_roles`
returns and audits the roles from before as those after (`users/handlers.py:205`);
`seed_large.py` announces lines for its invoices and inserts none; the default taxes
described at `invoices/dto.py:13` never apply.

### Fairness

Liveness assumes weak fairness of:

* a transaction that was begun: the event loop resumes it and PostgreSQL answers
  (`Progress` of each creator in `InvoiceNumbering`, `Step` of each request in `Requests`, where
  the pool's timeout is one of the steps);
* the broker delivering to a listening consumer, handlers going on, timers that were armed, and
  the end of a POST (`InvoiceEvents`);
* `AccessExpires(a)`: time passes (`Accounts`). Nothing else there has to happen.

None is assumed of a request's arrival, of the validator, of crashes, lost connections or
exceptions. Nor is it assumed that a POST commits within the two seconds after which timer
and bypass look for the invoice, which the code does not enforce: `DecidedWhileChancesLast` counts
which of the two have yet to look. An invoice committed after both have looked stays pending,
because neither looks again.

## 4. The proofs

TLAPS checks these for every value of the constants.

| Theorem | Statement | Assumes |
|---|---|---|
| `InvoiceNumberingProofs!TypeCorrect` | `TypeOK` is invariant | |
| `InvoiceNumberingProofs!NoGaps` | `Gapless` is invariant | |
| `InvoiceNumberingProofs!IdOrder` | `IdsFollowNumbers` is invariant | |
| `InvoiceNumberingProofs!UniqueNumbers` | no two committed rows share a number | |
| `InvoiceNumberingProofs!ImplementsBook` | `Spec` implements `NumberBook` | |
| `InvoiceStockProofs!TypeCorrect` | `TypeOK` is invariant | `JobsAreTyped` |
| `InvoiceStockProofs!StockWithinTrail` | `WithinTrail` is invariant | `JobsAreTyped` |
| `InvoiceStockProofs!ConfirmedMeansSold` | `SoldIfConfirmed` is invariant | `JobsAreTyped` |
| `InvoiceStockProofs!UnseenExplainExtraSales` | `ExtraSalesAreUnseen` is invariant | `JobsAreTyped` |
| `InvoiceStockProofs!TableLeftUnseen` | `OnlyUnseenStepsLeaveTheTable`, an action property | `JobsAreTyped` |
| `InvoiceStockProofs!CurrentCommitsFollowTheBook` | `CurrentCommitsAreBookSteps`, an action property | `JobsAreTyped` |
| `InvoiceStockProofs!MovementsAreWhole` | `WholeInvoices` is invariant | `JobsAreTyped`, finitely many invoices |
| `InvoiceEventsProofs!TypeCorrect` | `TypeOK` is invariant | `Budgets` |
| `InvoiceEventsProofs!NothingLost` | `AccountedFor` is invariant | |
| `InvoiceEventsProofs!ActsOncePerLoss` | `ActedOncePerLoss` is invariant | `Budgets` |
| `AccountsProofs!TypeCorrect` | `TypeOK` is invariant | `AccountConstants` |
| `AccountsProofs!RolesFollowRequests` | `RolesAsAsked` is invariant | `AccountConstants` |
| `AccountsProofs!SpentRefused` | `SpentTokensAreRefused`, an action property | `AccountConstants` |
| `RequestsProofs!TypeCorrect` | `TypeOK` is invariant, the pool's limit included | `RequestConstants` |
| `RequestsProofs!AuditsNeverLie` | `AuditsAreTrue` is invariant | `RequestConstants` |
| `RequestsProofs!AnswersAreTrue` | `RepliesAreTrue` is invariant | `RequestConstants` |
| `RequestsProofs!TwiceOnlyByOverlap` | `CedulaTwiceOnlyByOverlap` is invariant | `RequestConstants` |
| `ReadersProofs!TypeCorrect` | `TypeOK` is invariant | `ReaderConstants` |
| `ReadersProofs!SheetsStayClose` | `SheetsDifferByWhatMoved` is invariant | `ReaderConstants` |
| `ReadersProofs!FewMissed` | `MissesOnlyWhatMoved` is invariant | `ReaderConstants`, `KeysAreNumbers` |
| `ReadersProofs!FewRepeated` | `RepeatsOnlyWhatMoved` is invariant | `ReaderConstants`, `KeysAreNumbers` |
| `ReadersProofs!TotalStaysNear` | `TotalIsNearby` is invariant | `ReaderConstants`, `KeysAreNumbers` |
| `DocumentsProofs!TypeCorrect` | `TypeOK` is invariant | `DocumentConstants` |
| `DocumentsProofs!OneBuyer` | `BuyersAgree` is invariant | `DocumentConstants`, `NothingPrints` |
| `DocumentsProofs!InvoicesKeepTheirWord` | `InvoicesStand`, an action property | `DocumentConstants` |
| `DocumentsProofs!OneRateOfATax` | `OneRatePerTax` is invariant | `DocumentConstants` |
| `DocumentsProofs!KeysTellInvoicesApart` | `KeysNameTheInvoice` is invariant | `DocumentConstants`, `KeyFields`, finitely many creations, numbers of nine digits |
| `DocumentsProofs!AmountsAgreeAlways` | `AmountsAgree` is invariant | `DocumentConstants` |
| `DocumentsProofs!BasesAreWhole` | `BasesMakeTheSubtotal` is invariant | `DocumentConstants` |
| `DocumentsProofs!VerificatorIsRight` | `VerificatorIsTheStandard` is invariant | what is typed are digits |
| `DocumentsProofs!TyposOfKeysShow` | `KeyTyposShow` is invariant | what is typed are digits |
| `DocumentsProofs!TyposOfCedulasShow` | `CedulaTyposShow` is invariant | what is typed are digits |
| `SeedsProofs!TypeCorrect` | `TypeOK` is invariant | `Sizes` |
| `SeedsProofs!NothingDangles` | `ReferencesResolve` is invariant | `Sizes` |
| `SeedsProofs!RunsAreWhole` | `StressIsWhole` is invariant | `Sizes` |
| `SeedsProofs!OthersAreSpared` | `StressSparesOthers`, an action property | `Sizes` |
| `SeedsProofs!NumbersAreFree` | `NumbersGoOn` is invariant | `Sizes` |

The three theorems about `Identifiers` are in `DocumentsProofs`, because keys and cedulas stand on
the documents and the loops over their digits are sums, whose lemmas are there.

### What the theorems assume

* `JobsAreTyped`: no product is on two lines of an invoice (`invoices/handlers.py:162-169` refuses it).
* `KeysAreNumbers`: names and moments can be ordered, a missing name comes last, and two
  products have different names if any. That two rows sort alike is no assumption but a condition of
  the properties (`InOneOrder`).
* `NothingPrints`: the absence of a name or a cedula is not the word the PDF has for it.
* `KeyFields`: date and RUC are 8 and 13 digits, and numbers begin at one. `KeysTellInvoicesApart`
  needs the numbers below 10^9: the sequential of a key has nine digits, and a larger number
  would be cut (`FirstNumber + Cardinality(Cashiers) <= 1000000000`).
* `None` is no number and no tax that was read (`DocumentConstants`): the code's `None` is neither.
* Finiteness of invoices and creations: every database is finite. A sum over infinitely many
  rows would be none.
* An identifier consists of digits: `cedula.py:31` refuses anything else before it computes, and
  keys are written by the program.

### The arguments

*Numbering.* None of the invariants is inductive alone. The strengthening adds that
a number a transaction holds has all its predecessors committed (`Backed`), that an
entry in the index is held by one transaction (`Exclusive`), that ids are fresh
(`Fresh`) and that the id a transaction drew is above those of all committed rows
with smaller numbers (`IdAbove`). The last one is the heart of the matter: the id is drawn
after the number was computed from a committed row, so it is larger than that row's.
Refinement follows: at a commit the table holds exactly `1 .. num - 1`.

*Stock.* All six hold in every interleaving. `WithinTrail` bounds the stock by the movement rows
on each side. It is preserved only if every value read and every value about to be written is
within bounds that move with the trail: `ReadsInTrail` and `WritesInTrail`. A lost update can only
lose movements, never invent them. For `ConfirmedMeansSold` the strengthening follows what each
cancellation under way has seen: one that proceeds has read CONFIRMED, so the invoice was sold, or
confirmed by hand, which stays so (`SoldInv`).
`WholeInvoices`: an open job that moves stock has written exactly the lines it has passed, and has
passed them all when it commits (`PassedRows`), so its movement rows are those of a whole invoice; a
sum over invoices changes by that invoice's term.
The others rest on `PathInv`, what an open job knows from its own reads: it was let through with the
status it saw, the lines it has passed were on sale and in stock *in the rows it read*, and what it has
written was computed from them (`OnPath`). If the status it saw still is the committed one, its decision is a
step of the table, and `Tally` counts the sale against it; if not, `unseen` counts. If all rows it read are
the committed ones as well, what it writes is what one indivisible step of `StockBook` would.

*Events.* `AccountedFor` needs that a delivery past `Mark` has its event in
the ledger (`MarkedFirst`): only then may its acknowledgement forget the message.
`ActedOncePerLoss` needs a count: the deliveries of a message that passed the look-up before its
entry are at most as many as the connections lost since, plus one, because the broker hands it out
again only after letting go of the one before (`Apart`, `LetGoOf`); what acted and what
still may act are counted together (`Counted`).

*Accounts.* `IInv` adds what each call in flight holds (`CallsWellformed`), that a live token
was never spent (`LiveIsUnspent`), and that a user's rows fall into batches, each what one replacement
inserted, of which a DELETE sees all or nothing (`InBatches`): what it does not see was
committed beside it and stays. That the rows about to be inserted are in no other batch
(`InsertsAreFree`) is the primary key's doing.

*Requests.* `RInv` ties a request's place in its program to what is committed: the handler's
change from the step after `handle` on, the audit row pending from the step after
`audit` on (`Place`), a reply to both (`Answered`), and a row just inserted to its being found
again (`Stays`). `CInv` says who wrote each cedula (`WrittenBy`) and that what a writer saw when
it checked contained no namesake but its own row (`Looked`): two namesakes whose writers both
checked can then only come from writers that did not see each other. `TInv` counts connections;
the bound needs that one request takes at most one connection per step, which every action checks.

*Readers.* A sheet differs from the rows now shown by at most what moved since it was read
(`SheetsAreNear`); two sheets differ by the sum of two distances, of which the later one's
was zero when it was read. What a listing missed or repeated speaks of its end, so it is not
inductive: `ReadInOrder` compares what was seen with the rows behind the pages already read
(`Rest`). All of it is said for any sort key, so that a rename is the old row's leaving and the new one's
coming. A row that comes pushes at most one seen row back behind them, a row that leaves pulls at
most one unseen row before them; the ranks of rows in a list, counted as a
cardinality, say that a page takes the first rows of the rest.

*Documents.* `DInv` types the creations in progress (`HasRead`: lines read so far, and taxes of the last
one, do not run ahead of the cart) and says of a stored invoice that its XML names the buyer of
its row (`IsInvoice`). That `DeleteTax` keeps the word of an invoice is a lemma about
sequences of sequences: forgetting a name and then hiding all names is hiding all names.
One rate of a tax: the session holds the tax of the last line read (`LastHeld`), so a tax is
either found there with its old rate or the cart came back to it. Keys: the invoices are at
most as many as the creations that ended (`KeyInv`), and nine decimal digits tell numbers below
10^9 apart.
Amounts: `AmountsInv` says that each tax row carries the rounded tax of its line and that what is
stored was made from the lines. The rest is arithmetic of sums, for invoices of any
length: the XML's groups add up the tax rows by rate (`TotalByClass`), its details by line,
the bases are the lines under the names of their only tax row (`TotalRenamed`), and each rounding
errs by half a cent at most (`TotalsApart`).

*Identifiers.* The loop from the left is the sum of digits times weights (`AdditionIs`), and the
standard's loop from the right is the same sum under other names when the rounds are whole. A
wrong digit changes one term by a multiple of 2 to 7 of a difference below ten, a swap
changes two by once or five times such a difference: never a multiple of eleven
(`RemaindersApart`). In a cedula the terms of different digits differ modulo ten, and the
verifier counts as a tenth term (`ValidIsWhole`).

*Seeds.* `RefInv` adds that a row about to be committed refers to rows that stay, its line's product once the
line is inserted (`Linked`): the waits for foreign keys are all there is to it, since what was read is not locked;
`WholeInv` follows the stress script phase by phase: what the clearing will remove, and which
numbers have been inserted so far. `TurnInv`, for `NumbersGoOn`, says which numbers the creations
under way have read and which ids they drew, and that one whose number is of before a wipe has a
seller of before it (`SellersPast`), on whose foreign key its INSERT fails: while rows are numbered in turn, the newest has the
greatest number (`LastIsGreatest`).

*Induction.* The induction theorems of the library take a predicate as a parameter, which the
provers cannot instantiate. Where a sum or a loop over data of any size is needed (movements,
amounts, check digits) the induction is over a *set* instead: the numbers, or the subsets of a finite
set, for which the claim holds; were any missing, there would be a least one
(`NumbersFromZero`, `SubsetsFromEmpty`). `SumFunction` of the community modules, and the models'
recursive functions, are shown to be such sums first (`SumFunctionIsTotal`, `AddsUpToTotal`).

Only model-checked: liveness (`EveryCreateEnds`, `DecidedWhileChancesLast`, `QueueDrains`, `PrivilegesEnd`,
`EveryRequestEnds`), which is beyond the prover. Every invariant and every other action property
of the passing runs has a theorem.

## 5. What is left out

Inside the modelled parts: `UpdateInvoiceHandler`'s recomputation (it edits DRAFT invoices
only, and no code creates one; its refusal of every other status is a route of `Requests`);
malformed messages and unknown event types (acknowledged without effect); the module-level
cache of the broker connection (concurrent reconnections may leak one, which no model could
see); the audit rows written along with a movement (same transaction as the movement row);
invoice lines whose product row was removed; `LogoutAllHandler`, which no route calls; log messages. `VALIDATED` is written and
overwritten within one transaction, so no reader sees it. Dates enter as the days of a report
and the date of a key only. Buyer types 04 and 06 are in `BuyerType` and are never reached
through the API, which lets valid cedulas in only.

Not modelled at all:

* Layout of PDF and spreadsheet, the text of the XML, hashing, signing: formatting and library code.
* Rate limiting: a library counts before the handler runs.
* Health probes: they change no state.
* Migrations: they run on a stopped system; the constraints they create are in the models that
  depend on them.
* `seed_realistic.py`: it passes columns that `Role` and `Product` do not have and stops
  at the first one.

What a further step could add: the composition of `InvoiceStock` and `InvoiceEvents`, which today
share their decision step by description only, and crashes of one worker among two in
`Requests`, whose pools are per process.
