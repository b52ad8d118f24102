# TLA+ specifications of the point-of-sale backend

The repository holds the server of a mobile cash register: small shops sell
offline on phones and push their sales, customer returns and catalogue edits to
a FastAPI service that stores them in PostgreSQL. These modules specify what the
code does when several phones push at once, answers get lost, requests are
repeated, transactions roll back and processes die. Paths below are relative to
`src/`.

## 1. Inventory

| Component | State it keeps | Operations | What makes it hard | Correct when |
|---|---|---|---|---|
| Push of sales: `sync/service.py`, `sync/router.py`, `sales/*` | `sales`, `sale_items`, `stores.next_receipt_number` | `POST /sync/sales` (a SAVEPOINT per sale), `POST /sales` | two open requests with the same sale; numbers taken by a trigger; errors swallowed after a rollback; commit after the response | a sale is stored once, under a number of its own, with its stock movements; what a phone was told is true |
| Customer returns: `returns/*` | `sale_returns`, `sale_return_items`, `stores.next_return_number` | `POST /sync/returns` | concurrent returns of one line; refusals are final; deadlocks between batches; rounding | never more units or francs back than the sale had; restocked units have a movement; refusals stay right |
| Inventory: `inventory/*` | `products.current_stock`, `stock_movements` | movements of sales, returns, manual adjustments, catalogue updates | read-modify-write without a lock | the movements explain the stock |
| Catalogue: `catalog/*` | `products`, `categories`, images | CRUD, soft deletion, detaching a category, bulk import | unique barcodes and names checked before they are written; an import of many lines in one transaction; product and image read apart; lock order | a unique index decides races only; an import stores what it says; the version is that of the image |
| Catalogue sync: `sync/service.py` | the same rows, with client time stamps | `PUT /sync/products`, `PUT /sync/categories` | two clocks, last write wins, retries | phones and server agree after conflicts are solved |
| Pull: `sync/service.py` `get_changes`, `sync/repository.py` | cursor and `since` kept by the phone | `GET /sync/changes` | time stamps of transactions that commit later; pages | no change is missed |
| Authentication: `auth/*`, `core/security.py` | users, verification and reset tokens | register, login, refresh, verify, change of address, reset, deletion | tokens used or replaced by concurrent requests | one valid link; a link confirms the address it was sent to |
| Rate limiting: `core/rate_limit.py` | hits per key, in the process | `hit`, `hit_many`, `clear`, sweep | several keys counted atomically; sweep in the middle | counted on all keys or on none |
| Administration: `admin/*` | `platform_admins`, audit log, suspension | login with lockout, suspension, reset link by support | counter and lock under bursts; two clocks at the end of a lock | a burst does not get past the lock; each action in the log |
| Stores and purge: `stores/*`, migration `e5b2c8d4f1a6` | `stores`, all rows of a store | creation, suspension, deletion of the account | purge while a push is open | all of a store is deleted or nothing |
| Sessions: `core/db.py` | one transaction per request | `get_db`, `get_tenant_db` | commit after the response; suspension read once | |
| Schema: `alembic/versions` | triggers, unique keys, counters | number triggers, immutability, purge | a trigger runs before `ON CONFLICT` | |
| Images, PDF receipts, bulk import, e-mail, logging, configuration, scripts | none of their own | parsing, conversion, layout | a file or an image that does not parse inside a transaction | the rest of the request is not harmed |
| Mobile application (not in the repository) | outbox `sync_queue` | sends, repeats, drops what was acknowledged (`docs/architecture.md` 207-227) | | |

How they interact: the phone keeps a queue and calls the sync routes; a route
opens one database session (`get_tenant_db`) and calls `SyncService`, which opens
one SAVEPOINT per sale or return and calls `SaleService.create_sale` or
`ReturnService.create_return`; these read the catalogue, insert rows, whose
triggers update the row of the store, and call `InventoryService`, which updates
products and inserts movements. Everything sessions share is in PostgreSQL at
READ COMMITTED: they meet through row locks, unique keys and what has committed.

The hazards this code is exposed to are listed in `PROJECT.json` at the line
where they bite, with the properties that cover them.

## 2. Modules

| Module | What it is |
|---|---|
| `SaleLedger` | abstract: an append-only ledger of sales (or returns) with increasing numbers |
| `SalePush` | outboxes, the two requests that push sales, their transactions, deletions of products and of a category; refines `SaleLedger` |
| `SalePushProofs` | all safety properties of `SalePush`, and the refinement |
| `MCSalePush` | two phones, three sales, two products |
| `RefundRules` | `allocate_paid_amounts` and `refund_for` as operators |
| `RefundSequence` | one sale returned in every possible way, over many sales |
| `SumTheorems` | lemmas about sums over finite sets, least numbers and minimal sets |
| `SaleReturns` | outboxes and requests of returns, the lock on the sale, the checks, restocking; refines `SaleLedger` |
| `SaleReturnsProofs` | all safety properties of `SaleReturns` and of `RefundSequence`, that the allocation adds up and is fair, and the refinement |
| `MCSaleReturns` | two phones, two sales, four returns |
| `Catalogue` | products, categories, images and the ledger of stock movements; the routes of `catalog` and `inventory` and the two `PUT /sync` routes |
| `CatalogueProofs` | the properties of `Catalogue` but `IndexNeverSurprises` |
| `MCCatalogue` | nineteen requests on two products and two categories, with clocks that are late, right and ahead |
| `ProductImport` | the two imports of products statement by statement, a SAVEPOINT a line, beside other writers |
| `MCProductImport` | two imports of three lines that fail at every stage |
| `ChangesPull` | `GET /sync/changes`: pages, phases and cursors, against writers and a phone |
| `ChangesPullProofs` | nothing is missed, parents come first but for those committed behind the pull |
| `MCChangesPull` | five rows, pages of two |
| `Accounts` | accounts, stores, tokens and the links sent by e-mail |
| `AdminDesk` | the back office composed with `Accounts`: login with its lock, suspension, support links, audit log, lists |
| `AdminDeskProofs` | all properties of `AdminDesk`, and the two invariants of `Accounts` |
| `MCBackOffice` | four accounts; a pool of requests about links, and a larger one with sales, tokens and the administrator |
| `StorePurge` | the rows of one account by table, `purge_store` against requests that write; refines `AccountLife` |
| `AccountLife` | abstract: the data of an account, which grows by whole units and goes at once |
| `StorePurgeProofs` | a deletion takes everything or nothing, nothing comes back; the refinement of `AccountLife` |
| `MCStorePurge` | seventeen rows, two requests of the owner, a batch of sales and an image |
| `RateLimiter` | the limiter of requests, its sweep, the count of logins |
| `RateLimiterProofs` | all properties of `RateLimiter` |
| `MCRateLimiter` | logins to one account from two addresses, and a key counted alone |

### SalePush

A *session* is a request with its database connection. `txn[s]` holds what it has
written and not committed (rows, numbers taken, movements) and the row locks it
holds; `saved[s]` is a copy at the last SAVEPOINT, to which a failed statement
returns the transaction (PostgreSQL gives the locks taken since back too).
Readers see committed state plus their own writes. `pc[s]` is the statement
`create_sale` is about to execute:

| Action | Code |
|---|---|
| `Send`, `Timeout` | the phone: sends its outbox in any order, or one sale to `POST /sales`; stops waiting |
| `Look` | `begin_nested`, `get_by_id`, resolution of the products (`sales/service.py` 47-79) |
| `InsertSale` | `create_sale_atomic`: the trigger `generate_receipt_number`, then `ON CONFLICT DO NOTHING` (`OnConflict`) |
| `TrackLine`, `UpdateStock` | `record_sale_movements` for one line: re-read of the product, UPDATE, movement; any exception is swallowed |
| `DeadlockFailsUpdate`, `DetachEnd` | PostgreSQL fails one of the two statements of a deadlock |
| `SaleFails` | the INSERT of a sale or of its lines raises: back to the SAVEPOINT, `failed`, and the next sale |
| `FinishSale` | the end of `create_sale` and the result of the sale |
| `Respond`, `Commit` | the response, then the commit of `get_db` |
| `Crash`, `LoseConnection` | the process or the connection dies; where `record_sale_movements` swallows the error, the sale in hand is reported as created all the same (`SaidOfBroken`) |
| `DeleteProduct`, `DetachBegin/Update/End` | `delete_product`; `soft_delete_and_detach_products`, in primary key order |

`InsertSale` waits for the row of the store, since the trigger updates it, and
keeps it until the end of the transaction; a duplicate therefore waits for the
first request and finds the row committed. `get_db` commits after its `yield`;
with the locked FastAPI version (0.136, `uv.lock`) the code after a `yield` runs once
the response has been sent, hence `Respond` before `Commit`.

### SaleReturns

The same sessions with `create_return`: `Look`, `LockSale` (`FOR UPDATE`),
`Check` (the second look, then the refusals of the lines), `InsertReturn`,
`Restock` (one line at a time, an error fails the return), `FinishReturn`.
What the returns of a line add up to (units, francs, units marked as restocked,
units moved) is kept as sums, in `totals` once committed and in `txn` before. The
payload fixes the amount the phone computed: `known` says how many units it
believed to be back. A refused return gets its code and leaves the outbox, any
other exception leaves it there. `Deadlocked` describes circles of sessions that wait
for the rows of sales and of the store. `SaleCommits` is the commit of a sale
whose acknowledgement has already reached the phone (`SalePush`). Row locks on products
are not modelled here; what a deadlock on them does is what `ErrorInReturn` does.

### RefundRules, RefundSequence

The operators are the two functions of `returns/refund.py` in integers.
`RefundSequence` takes every sale of three lines over a few amounts, quantities,
discounts and the centime `validate_sale` tolerates, and returns its units in
every order and grouping. Its behaviours are those of `SequenceSpec` over `Items`: the names
are its own because `SaleReturnsProofs` is about this module and `SaleReturns` together.

### RateLimiter

`hit_many` takes an `asyncio.Lock` and awaits nothing before it gives it back,
so that a call is one action: `Grant` or `Refuse`. Inside it the lookups follow
one another, each may sweep, and the deques found by each lookup are what the rest of
the call reads and extends, even if a later lookup has dropped them from the table. The
model has what the lookups leave in closed form: `Found` is the deque a lookup of a key
gets (what has not expired, `Live`), `SweptIn` the lookups that sweep, and `LookedUp` the
table after the call: a sweep takes the deques that are `Stale` unless the call looks
them up after it. `Second` is the number of ticks in a second, since the clock reads
fractions of a second and `Retry-After` is rounded up to whole ones (`RetryAfter`).
`Succeed` and `Fail` are the end of a login; the two `clear` of a success find the lock
free and run at once.
`granted`, `torn`, `sweptAt`, `fresh` and `retryAt` are history variables.
A restart of the process forgets everything (the docstring says so) and is the
beginning of another behaviour.

### Catalogue

Two steps make a request: `Begin` opens the session (`tx[w]`: the time of its
transaction and the rows it reads), the action of the route runs its checks on
these rows, writes and commits. Requests overlap between the two steps; a row that
is written stays locked until the commit, hence one step for both. The routes of images
have a step between the two: `LoadImage` is the SELECT of the image row, after
that of the product, and other requests may commit between them. What the ORM does
is part of the model, since the interesting cases come from it: an UPDATE names
only the attributes that differ from what was read (`Dirty`), a trigger stamps
`updated_at` (`Flushed`), `adjust_stock` computes from the stock of the session
(`StockSet`), and a unique index undoes the transaction at the end (`Save`, `Clashing`).

| Actions | Code |
|---|---|
| `CreateProduct`, `CreateProductsBulk` | `POST /products`, the two imports, in one step: the lines of a file that count (`Kept`) are the good ones (`Usable`), the first of a barcode; `Imported` is what they leave. How the SAVEPOINTs bring this about is the subject of `ProductImport` |
| `UpdateProduct`, `DeleteProduct` | `PATCH`, `DELETE` |
| `LoadImage`, `UploadImage`, `DeleteImage` | `ProductImageRepository.get`, `upsert`, `delete` |
| `ManualAdjustment`, `SoldOrReturned` | the movements of `inventory/service.py`; one line of a sale or of a return |
| `CreateCategory`, `RenameCategory`, `DeleteCategory` | `CategoryService` |
| `SyncProductState`, `SyncCategoryState` | `PUT /sync/products`, `PUT /sync/categories`: `Verdict` is the table of last write wins |

`raced` is a history variable: the fields written over a change the session had not
seen, and the images of requests whose two reads did not agree. The code accepts lost
updates of the stock (`adjust_stock` says so) and does nothing against the others, so the
properties leave these fields out and nothing else; for images the run `ImageVersion` shows what
happens to them. `by` is the request that last changed a product. `unforeseen` has the
requests that an index refused although nothing in their way had changed since they looked.

### ProductImport

An import is a transaction with a program counter (`run[i].pc`), the rows it has written
(`draft`) and a copy of them at the SAVEPOINT of its line (`saved`). A line opens its
SAVEPOINT (`OpenLine`), looks its barcode up (`LookUpBarcode`), resolves its category
(`ResolveCategory`), inserts the product (`InsertProduct`), updates its stock (`SetStock`) and
inserts the movement (`InsertMovement`). Whatever fails, the line goes back to its SAVEPOINT and has a
result (`Fail`), and the next one begins. An INSERT waits for the transaction that holds its barcode
(`WaitsFor`), which may be a circle (`DeadlockDetected`). The answer precedes the `Commit`; the
connection may go at any moment (`Lose`). Other devices create and delete products and categories.

### ChangesPull

A page is one query per phase (`ListPhase`) until it is full, and a writer may commit
between two of them. A row holds the writing transaction (`by`, which stands for its
columns) and the time it is sorted by (`ts`): the start of that transaction, or the
clock of a phone for a row created by `PUT`. `DeleteRow` takes `deleted_at` from
the clock of the statement and detaches the products of a category. `late` is a history
variable: the rows committed under a `server_time` already handed out, by a transaction
that began before the page and commits after it, or by a phone whose clock is behind.
The phone never gets these, and no property claims that it does. `fresh` is another: the rows
committed after the pull under way had asked for their phase, which a later query of
this pull may find the children of. A row leaves `fresh` when a query finds it.

The phone is not in the repository. The one modelled keeps the `server_time` of the
first page of a pull as its next `since`, asks for a lost page again and may give up a
pull and begin anew.

### Accounts, AdminDesk

Requests as in `Catalogue`, with one step more where earlier links are invalidated
(`Invalidate`): that UPDATE finds the links committed when it runs, and the new link
is committed later. `ResetPassword` is one conditional UPDATE, `VerifyEmail` reads and
then writes. `UpdateEmail` writes only the attributes that changed, which is what
the run `EmailVerified` is about. `TenantWrite` stands for every write of a route of a store,
as a sale. `DeleteMe` purges the store and the account; a write of the store committed in
between may make the purge fail (`PurgeMayFail`). `confirmed` remembers the
addresses whose links were opened, `raced` the accounts two overlapping requests
worked on.

`AdminDesk` EXTENDS `Accounts` and runs its actions (`AccountSteps`) beside those of the
administrator, over the same stores, tokens and links. `wrong` counts wrong passwords in a
row, `owed` the rows a list still has to show. The lists are read without filters and
in their default order: `Above` are the rows that `ORDER BY ... DESC, id` puts before a row,
and `OFFSET`, `LIMIT` take the rows by how many these are (`Page`). `Id` is the order of the
ids that were drawn.

A lock ends at two moments of a login: `login` compares `locked_until` with the clock of the
application after its SELECT (`admin/service.py` 61-62, `Judged`), `register_failed_login` with
`now()`, the start of the transaction (`admin/repository.py` 81-89, `StillLocked`). `early` has the logins
open when the last lock ended (`LockExpires`): they may find the administrator locked or not, and are
not counted when they fail. `missed` counts those failures.

Assumed: the role of the database sees the stores of everybody, which the login needs
(`docs/adr/0012`, "Point ouvert"); the administrator has logged in once before `Init`; the clocks
of the application and of the database agree to within the time from the start of a login to its
check, so that no login lies wholly between the two moments a lock ends at. No route clears `is_active`, so it is left out.

### StorePurge

A row is an id with its table and the rows it refers to; `ForeignKeys` is the
`ON DELETE` of every key, from the migrations. A request inserts the rows of its units one
by one, each unit in a SAVEPOINT, and holds what they refer to until it ends; a unit that is
there already is passed over (`PassOver`, `already_exists`), a row like any other it finds; the purge
runs one `DELETE` per table of `_PURGE_TABLES` in two steps: `StartDelete` finds the committed
rows, `FinishDelete` has waited for the transactions in the way, takes what is left of them
with what cascades, and fails on a key that restricts or would update an immutable row.
`BreakDeadlock` undoes a unit or the purge. `stored` remembers every row ever committed, so
that `AllOrNothing` can say that nothing was lost by a purge that failed.

## 3. Runs

| Run | Question | Result |
|---|---|---|
| `SalePush` | numbers, stock and ledger through timeouts, crashes, a sale that fails, a category deletion, a deleted product; is an acknowledged sale kept as long as no process died and no category was deleted (`AckedSaleIsKeptUnlessFailure`)? are numbers without a hole as long as no phone repeated a sale while a request for it was open (`GapsNeedRetries`)? does every sale leave the outbox (`OutboxDrains`)? | holds |
| `RefundSequence` | are the shares fair, and do the refunds of all units add up to what was paid? | yes |
| `SaleReturns` | quantities, amounts, ledger and the agreement of movements, numbers and counts (`BooksAgree`) through timeouts, crashes, errors, a sale that commits late and a deleted product; as long as no process died, is a refusal for quantity still right when everything has committed, and never of a return that is stored (`QuantityRefusalIsFinal`)? is every return answered (`ReturnsSettle`)? | holds |
| `Catalogue` | does a unique index refuse only what changed after the check of the route (`IndexNeverSurprises`); do the movements explain the stock; does a deleted category keep no product; do images and versions agree; is a retry without effect; does an older edit never replace a newer one? | holds, where no overlapping request wrote over a field it had not seen, nor read a product and its image in different states |
| `ImageVersion` | `image_version` is "le `sha256`, `null` si pas d'image" (`docs/adr/0008` 64, `docs/api.md` 177) | violated: an upload commits between the read of the product and that of its image; the image is deleted and the version stays |
| `ProductImport` | is what each line of an import was told what is stored once it is committed: whole products with their stock and its movement, nothing of a line that failed, no barcode refused for a line that was undone (`ImportTellsTruth`)? | yes |
| `ChangesPull` | does a phone miss nothing, does no row come before its category or its sale, and does the phone end up with everything once the writers stop? | the first and the last hold for all rows but those committed under a `server_time` already given; the second but for these and for parents committed after the pull asked for their phase |
| `ChangesOrder` | "une catégorie arrive toujours avant ses produits" (`sync/service.py` 41, `docs/api.md` 200) | violated: both commit between the query of the categories and that of the products |
| `EmailVerified` | "la nouvelle adresse repart non vérifiée" (`auth/repository.py` 58) | violated: a verification commits between the read and the UPDATE, which then does not name `email_verified_at` |
| `BackOffice` | does a reset link work once, has an account one link, is a verified address one whose link was opened; does the lock of the administrator stop a burst; does the log tell which stores are suspended; is a suspended store out; do the pages of a list skip no row? | holds; one link and the verified address where no two requests on the links of an account overlapped, the lock but for logins that began before a lock ended and are judged after it |
| `Purge` | does the deletion of an account leave nothing or take nothing while requests still write (`AllOrNothing`), are pushed sales stored whole, beside all they refer to (`AccountSpec`); and does it succeed in the end (`GoneAtLast`)? | yes, the last unless devices push forever |
| `RateLimiter` | limits, refusals, `Retry-After` and sweeps | holds, with one request more for each sweep inside a call |

The type invariant of `StorePurge` is not in a run: `PurgeTyped` proves it.
Every property of a passing run has a mutant in `PROJECT.json`: a change of one
definition, as a plausible bug of that code, under which TLC finds the property
violated.

The conditions in the properties mark what the code does not guarantee: a deadlock of
the stock update of a sale with the deletion of a category rolls back the SAVEPOINT and the
sale with it, while `record_sale_movements` swallows the exception and the sale is reported as
created (`inventory/service.py` 86, against "un échec de traçabilité ne doit jamais faire
échouer une vente" at line 67); a retry that overtakes the first request burns a receipt number; a process that
dies between the response and the commit loses an acknowledged sale; a return pushed
before its sale has committed is refused for good, and so may be one whose amount becomes
right again by the cumulative rounding; a sweep inside `hit_many` loses the
hit of the first key; a transaction that commits after a pull but began before it stays
unseen by that phone, and a category that commits after its phase was asked for comes after
its products; a wrong password is not counted when a lock ends during the login, so that more of them than
the limit may follow each other without a lock (against "5 échecs = blocage 15 min", `docs/api.md` 207); an image that
changes between two reads of one request may part from its version.

**Bounds.** Two sessions are enough for every pair of requests to interleave, and
three for nothing new where conflicts are over one row at a time. Three sales on two
phones give a batch of two and a sale whose lines are in the opposite order of the
primary keys, so that it deadlocks with the category deletion. One timeout, crash, failed sale, category deletion
and deleted product, any two in a behaviour (`MaxEvents`), are enough for a retry to overtake, to follow a
crash and to meet a deadlock; the safety properties are proved for any number. In `MCSaleReturns` line 1 has four units that paid 1002 francs, so that
rounding matters; two phones return units of both sales in opposite orders, which
gives the deadlock of two batches; one of them is right only if the other phone's return came first
(`MCKnowledge`). In `MCRateLimiter` limits are one and two and windows
two and four ticks of half a second, so that eight lookups in six ticks fill a window,
let it expire, are told to wait for a fraction of a second and meet a sweep in the middle of
a call (`SweepEvery` is 1000 in the code: only which lookup sweeps depends on it). In `Catalogue`
five requests make a row, change it in two overlapping sessions, delete it and bring
it back; the clock advances by 2 and the tolerance is 1, so that times on both sides of
it occur. In `ChangesPull` three transactions and pages of two rows let a batch of two
sales with one `synced_at` be cut by a page, a row move behind the cursor and a
category go away between two pages; `ChangesOrder` has the same rows. `ImageVersion` needs
three requests. In `ProductImport` each of two imports takes one of three files of three
lines, so that lines fail after and before lines that are written, on the same barcodes in opposite
orders, and an import is torn at any statement by the other, a product and a category. In
`BackOffice` three requests, two at a time, and pages of one row make a list several pages long (the list of accounts, which is
ordered like stores that never sell, is left to the theorem); the requests are a link
and two uses, or a change of address between a link and its use; a burst of logins on a limit
(`MaxFailed`) of two, 5 in the code, or a login that straddles the end of a lock; a suspension, and its end, that overlap a sale
or a login. In `Purge` a batch of two sales and an
image are written while the owner asks twice: a row can commit before, between and after the
`DELETE`s that concern it, a return and its movement already stored use every foreign key,
and both requests of the owner can meet a writer in a deadlock.

The constants `MaxCalls`, `MaxTime`, `MaxTimeouts`, `MaxCrashes`, `MaxDetaches`,
`MaxErrors`, `MaxFailures`, `MaxEvents`, `Deletable`, `MaxSends`, `MaxWrites` and `MaxLost` are the bounds; nothing else
is cut off. `CHECK_DEADLOCK FALSE` is set because the system stops when the outboxes are
empty and the faults used up, or the lookups and ticks, or the requests a behaviour may
send, or the imports. `ChangesPull` is checked for deadlock: the phone can always pull.

**Fairness.** A request that can go on does (asyncio and PostgreSQL run every
statement to its end); PostgreSQL breaks a deadlock after `deadlock_timeout`;
a freed row goes to the transaction that waits for it, which is a queue in
PostgreSQL and hence strong fairness of the statements that wait; the phone sends
again while its outbox is not empty, and goes on pulling (`WF_vars(Pull)`); an owner asks
again until the account is gone. Faults and
writers are not fair: they may happen, within their bound, and need not.

## 4. Proofs

Checked by TLAPS for all values of the constants that satisfy the named assumptions: any
number of phones, sessions, sales, lines, rows, requests and faults. Every safety property
and action property of the passing runs is proved but `IndexNeverSurprises` and
`ImportTellsTruth`, and every refinement. Each argument
needs an inductive invariant stronger than the property; the invariants were
checked with TLC on the instances of the runs before they were proved.

| Module | Invariant | What it adds, and why the property does not carry itself |
|---|---|---|
| `SalePushProofs` | `JobOK` | a session that processes something has something to process, which `Head` needs |
| | `NumbersInv` | numbers taken by open transactions: at most one session has some, the one that holds the row of the store, and they follow the counter; the same for its SAVEPOINT |
| | `MovesInv` | the sale in hand: absent at the SAVEPOINT, inserted without movements, moved line by line, gone again after a rollback |
| | `AcksInv` | what a session is about to answer is in its transaction or stored, as long as nothing is rolled back |
| | `SentInv` | what is in an outbox is not stored, and a device waits for one request, as long as no phone repeats one |
| `SaleReturnsProofs` | `Inv` | stored units plus those a transaction adds stay within the units sold, the francs are `Due` of the units; only the session that holds the sale adds to its lines |
| | `Books` | what is marked as restocked is moved, but for the lines in hand; numbers follow the counter; the units of a line are the sum over its stored returns |
| | `Refused` | a return refused for quantity is in no transaction, and is beyond the sale in the transaction and in its SAVEPOINT |
| | `RefundInv` | what was refunded for a line is what is due for the units that are back, however they came back |
| `CatalogueProofs` | `CatalogueInv` | rows never go away, what a session read is still a row, ids it drew are its own (`SessionInv`); a row carries the time and the fields of the request that changed it last (`StampInv`) |
| `ChangesPullProofs` | `PullInv` | in a pull under way, each row is had, changed since the pull began, late, or ahead of the cursor; the same of the page being made; each row of an earlier phase is had in some version, fresh or late (`Brought`), and a row refers to one of an earlier phase (`LinksBack`) |
| `AdminDeskProofs` | `LockInv` | the count is never behind the wrong passwords it should have unless the account is locked; until a lock that has ended meets a login that began after its end, no wrong password is counted |
| | `TypeInv`, `LinksInv`, `RowsInv`, `VerifyInv` | what open requests have read of links, addresses and accounts, and what of it is still so |
| | `AuditInv`, `OutInv` | the log is in order and tells of each store; requests begun after a suspension have read it |
| | `WalkInv` | a row a list owes was shown or has at least `offset` rows before it |
| `StorePurgeProofs` | `PurgeInv` | a deletion past the store has taken all but the account; what a writer inserted lies in a store that is there; deletions and writers hold different rows |
| | `UnitsInv` | what an open request has finished are whole units, and of the others only the first is begun; what it inserted refers to rows that are there |
| `RateLimiterProofs` | `RateInv` | the properties count the window that ends now; the invariant counts the requests after any time not before that window, which only moves forward, so that expired hits and ticks of the clock disturb nothing (`Tallied`, `WithinLimit`, `RoomLater`) |

**Refinement.** `SalePushProofs!ImplementsLedger` and `SaleReturnsProofs!ImplementsLedger`:
`Commit` is a step of `SaleLedger` and every other action a stutter; they use the invariants of
the numbers for the order in which entries are appended.
`StorePurgeProofs!ImplementsAccount`: the two commits of `StorePurge` are the two steps of
`AccountLife`, and rows that come one by one or go table by table are not seen. A unit
(a sale with its lines and movements) is stored whole although some of its `INSERT`s may have been
undone with the SAVEPOINT, and beside all it refers to although a deletion may have run
between the `INSERT` and the commit.

**Sums and orders.** Sums over lines or returns are folds, and "the last row of a query" is a
maximum over a finite set. The induction theorems of the library take an operator and cannot
be used here, but its theorems on well-founded relations take sets: the facts are
proved by minimal counterexample (`LeastNatural`, `MinimalSubset`, `SetInduction` in
`SumTheorems`). `SaleReturnsProofs!AllocationCorrect` is the largest-remainder method: the
remainders add up to the subtotal times the francs left over (`LeftoverFits`), the ranks of
the lines are a bijection, so exactly as many lines get a franc as francs are left (`FirstOnes`).
`AdminDeskProofs!RowAt` says that the ranks of a list have no gap, so that an empty page is
the end of the list.

**Catalogue.** Every route ends in `Answer`, which writes nothing, or in `Save`. The proofs say
of each route that the tables it asks to save are `Good`, and once of `Save` that it keeps
the invariant when they are. From `Good` also follow the action properties `NewerEditWins`
and `RetryIsQuiet`. A route says of the images it changes that they and their versions change
together, unless its two reads did not agree (`raced`).

**Assumptions.** They are the only things taken from outside, TLC evaluates them in the runs, and
the code justifies them:

* `SalePushAssumption`, `SaleReturnsAssumption`: types of the payloads (quantities and amounts are
  checked by the schemas), finitely many, each sent by one device; a line belongs to one
  sale. Nothing about who sends what in which order.
* `RefundAssumption`: amounts are naturals and quantities positive (`schemas.py` of sales).
* `RequestsAssumption` of `Catalogue`: the fields of the schemas; the ids the server draws
  for a `POST` differ, as UUIDs do, and are not the id of a `PUT`. `NoneAssumption`: NULL is no value.
  `ClockAssumption`: the bounds are naturals.
* `PullAssumption`: row ids are ordered, no row is in two phases, a page has room for a row.
* `AccountsAssumption`, `RequestsAssumption` of `Accounts`, `DeskAssumption`: rows of `Init` satisfy the
  unique indexes; the fields of the schemas; `MaxFailed` and the size of a page are positive; ids
  of different rows differ.
* `FilesAssumption`, `StockAssumption` of `ProductImport`: a file is a sequence of lines, what a column
  can hold is bounded.
* `RateLimiterAssumption`: a call names different keys and at least one; limits, windows and the
  distance of two sweeps are positive.
* `PurgeAssumption`, `SchemaAssumption`: rows follow the foreign keys of the migrations, every table but
  accounts and stores refers to the store, of which there is one. The theorems are about any rows that
  follow these keys, not about other schemas.

**What the proofs found.** Two arms of the `CASE` of `Catalogue!Verdict` overlapped (a deleted
row pushed for a product that is not there), so that TLA+ left open which one applies, while
TLC takes the first: they exclude each other now, as the early returns of the code do. The
lists of the back office had rows with equal times in an order that was not defined; the
code breaks ties by id, and so does the model now. A unit that a
writer of `StorePurge` pushes again was not passed over. The import of `Catalogue` and the
lookups of `RateLimiter` are now stated in closed form, since what a recursive definition computes
for every input is an induction over data. `Retry-After` was modelled in ticks of the clock; it is in
whole seconds, rounded up, of which `RetryAfterIsEnough` needs the direction.

**Model-checked only.**

* Liveness: `OutboxDrains`, `ReturnsSettle`, `PullConverges`, `GoneAtLast`. The prover has no
  `ENABLED`, which fairness is made of.
* `IndexNeverSurprises`: that the checks of the routes and the partial unique indexes have the same rows
  in view is a statement about each route and two tables; TLC goes through the routes.
* `ImportTellsTruth`: the statements of an import, on the files of `MCProductImport`.
* What `Verdict` and the other operators compute beyond the properties above.

## 5. Not modelled

* One store in the modules of sales, returns and catalogue: other tenants are separated
  by row-level security (ADR-0002), and no operation there reads another store. The
  policies themselves are not modelled.
* Names, prices, payment methods and the validations of a payload, except the ones the
  refunds depend on: a payload that is refused with 422 never reaches a transaction.
* Errors of single statements other than deadlocks, lost connections, unique indexes, a sale or a
  stock the database refuses and, for returns, any unexpected error.
* Reads that change nothing: lists, searches, summaries, receipts, metrics, detail views.
* Settings and logo of a store, the display name of a profile: one row, written by its
  owner. In `Accounts` a purge is one step (`PurgeMayFail`); its tables one by one are in
  `StorePurge`. Tables there that hold no row of a store (tokens, audit log) are left out.
* Conversion of images, layout of PDF receipts, formats of imported files, wording of
  e-mails, logging, configuration, scripts: no state that several actors share. That an
  image or a line does not parse is modelled (`Decodes`, `Parses`), that an e-mail is lost
  too: the link is then never opened.

## 6. Plan

Done: all modules of section 2, the proofs of their safety properties and action
properties but the two of section 4, and the three refinements.

Left:

1. the locks: that a session that waits is waiting for one that is not itself waiting for it,
   but for the circles `Deadlocked` describes;
2. `DeleteMe` of `Accounts` as the same step as `AccountLife!Delete`, so that `Accounts` and
   `StorePurge` are views of one deletion;
3. the proofs of `IndexNeverSurprises` and `ImportTellsTruth`;
4. e-mails that leave before the commit of the link they carry: a property of what a
   merchant sees, which the models have no state for.
