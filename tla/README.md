# A TLA+ model of the Enviable backend

The repository is the backend of a vehicle importer and assembler: a NestJS
application over PostgreSQL (Prisma) that follows two- and three-wheelers from
the purchase order to a supplier, through receipt as kits, assembly, sale and
delivery, to returns.  It has no test suite.  Its correctness claims are the
numbered invariants of `prisma/README.md` (I-1 to I-15), the comments of the
services and `docs/engineering-notes.md`.  This directory states those claims as
properties of TLA+ modules translated from the services, checks them with TLC on
small instances and proves the most important ones with TLAPS for every instance.

Paths below are relative to the repository root.

## How the backend behaves, and what is hard about it

One request is one asynchronous handler.  Almost every handler has the same
shape: it reads rows and validates them **outside** a transaction, then opens an
interactive transaction, sometimes reads again, writes **by primary key** and
commits.  The database runs at READ COMMITTED; only proforma creation takes an
explicit row lock, and the document-number generators take advisory locks.  So

* what was validated may be stale when it is acted on (check-then-act);
* a transaction can read a row that another one is about to overwrite, and
  overwrite that write in turn;
* `deleteMany` and `updateMany` act on the rows of their own snapshot;
* partial unique indexes are the only conditions the database itself enforces;
* several handlers touch the same rows: a unit is moved by receiving, assembly,
  adjustments, sales, returns and the sync intake, each looking at its own table.

The modules keep exactly that shape: an action named after the endpoint does the
outside validation, `Begin...`/`Read...` actions the reads inside the
transaction, `Commit...` actions the writes, `Refuse` the 409s inside the
transaction, and `Lose` the process that dies (the database rolls back).  The
constant `Requests` is the set of requests in service at one time: with one
element requests are serialised, with two every interleaving of two is explored.

## Inventory

| Component (source) | State it keeps | Operations | Interactions | What is hard | What makes it correct |
|---|---|---|---|---|---|
| Unit state machine and ledger (`src/units/unit-state-machine.ts`, `transition-unit.ts`, `adjustment-map.ts`) | `Unit.status`, `StockMovement` rows | `transitionUnit`, called by five services inside their transactions | every workflow that moves a unit | unlocked read, write by id | a status changes along a legal edge, and one movement of the same transaction records it (I-2, I-3) |
| Units (`src/units/units.service.ts`) | as above | `adjust` | ledger | movement type chosen from an older read | adjustments never take a workflow's edge |
| Assembly (`src/assembly/assembly.service.ts`) | `AssemblyJob` | `startAssembly` (batch), `startUpgrade`, `complete`, `fail`, `cancel` | ledger, variants | job status checked outside, batches locked in request order | a unit in assembly has exactly one open job; a job closes once; cancel undoes its start |
| Sales orders (`src/sales-orders/sales-orders.service.ts`, `state-machine.ts`) | `SalesOrder`, `SalesOrderLine`, `Invoice`, `ReleaseAuthorisation` | create, update, submit, invoice, release, cancel | units, payments, pricing | soft reservation by `unitId` on a line; pre-flight and index (I-11); derived totals; cancel against release | I-4, I-11, the order state machine, total = lines, released = sold, cancelled = free |
| Payments (`src/payments/payments.service.ts`) | `Payment`, `paymentReceivedTotal` | record, confirm, reject | sales orders | SUM on a snapshot, stale PENDING | the stored total is the SUM of confirmed payments; goods leave only when it covers the order |
| Delivery (`src/sales-orders/delivery.service.ts`) | delivery note, waybill, proof of delivery | the five steps after release | sales orders | stale status reads | papers and status in order |
| Purchase orders (`src/purchase-orders/*`) | `PurchaseOrder`, lines | create, update, submit, approve | proforma invoices, shipments | status written by three services | order state machine, editable only as draft |
| Supplier proforma invoices (`src/proforma-invoices/*`) | `ProformaInvoice` revisions | create, approve (supersedes), reject | purchase orders | MAX+1 under a row lock, stale PENDING_REVIEW | I-5, revision numbers unique per order |
| Shipments and receiving (`src/shipments/shipments.service.ts`) | `Shipment`, `ManifestLine`, new units | create, update, receive, resolve variance, complete, close | purchase orders, ledger | absolute counter writes, manifest replacement, exhaustive duplicate pre-flight | I-6, I-7, engine and chassis numbers unique, counters equal units |
| Landed costs (`src/shipments/landed-cost*.ts`) | `LandedCost`, `Unit.landedCost` | create, allocate | shipments | equal shares, rounding | shares add up |
| Returns (`src/returns/returns.service.ts`) | `Return`, `SupplierWarrantyClaim` | initiate, inspect, resolve | units, sales order lines | SOLD and INSPECTING checked outside | I-15, one open return per unit |
| Sync intake (`src/sync/sync-{merge,idempotency,conflicts,actions}*`) | idempotency records, conflicts | push field changes and actions, resolve conflicts | most services | work and its idempotency record are two commits; last-writer-wins on a stale read | an operation is applied once; a newer value is never lost |
| Sync pull (`src/sync/sync-pull.service.ts`) | client cursors | windowed and incremental pulls | every table | rows that become visible after a later timestamp was served; pages between which rows change | what the device believes it has is what it has; the mirror catches up |
| Number allocation (`*-number.ts`) | document numbers | next number under an advisory lock | orders, shipments, papers | MAX of a string column | numbers unique, always available |
| Pricing (`src/pricing/pricing.service.ts`) | price history | `setPrice`, `resolvePrice` | sales orders | close-and-insert race | one current price per variant and tier |
| Users and roles (`src/users`, `src/roles`) | users, roles, grants | create, update, delete, forced reset; roles | guards | management coverage is a predicate over many rows, counted on a snapshot | someone who can manage users remains |
| Authentication and guards (`src/auth`, `src/common/guards`) | sessions | login, logout, own password reset; three guards before every request | every request | what the guards saw may be stale when the service writes | only live, active accounts with a password of their own act |
| Products and variants (`src/products`) | variants, status | create, update, auto-create with a similarity check | orders, loads, assembly | stale active checks, likely typos | no unconfirmed variant with a near twin |
| Historical load (`src/historical-load`) | opening stock | batched load of a CSV | variants, units | variants and batches commit separately | a load that stopped can be finished |
| Customers, counterparties, spare parts, stock-movement queries | single rows | create, update, read | sync intake | an update competes with synced changes | - |
| Audit, documents, reports, controllers | - | append-only or read-only | - | audit is fire-and-forget | - |

## Modules

| Module | Models | Variables (code) |
|---|---|---|
| `UnitStates` | the unit state machine, the adjustment map, movement rows | none: operators only |
| `StockLedger` | abstract specification: what the ledger promises | `status`, `lastMove` |
| `UnitLifecycle` | adjustments, assembly, synced statuses through `transitionUnit` | `status` (Unit.status), `lastMove` (newest StockMovement), `jobs` (AssemblyJob), `discontinued` (ProductVariant.status), `req` (what each handler has read and locked) |
| `UnitLifecycleProofs` | theorems about `UnitLifecycle` | |
| `SalesOrders` | sales orders, payments, delivery, and the moves of their units by other workflows and pushed statuses | `unit`, `sale` (the unit's latest SALE movement and what wrote it since), `moves` (what each mover has read), `status`, `lines`, `total`, `received`, `papers`, `invoiced`, `pay`, `req` |
| `SalesOrdersProofs` | theorems about `SalesOrders` | |
| `SupplyChain` | purchase orders, supplier proformas, shipments and their receipt | `order` (PurchaseOrder), `pi` (ProformaInvoice), `ship` (Shipment), `line` (ManifestLine), `units` (engine and chassis numbers received), `req` |
| `SupplyChainProofs` | theorems about `SupplyChain` | |
| `ActionDelivery` | abstract specification: what a device that keeps sending an action is promised | `effects`, `doubts`, `acknowledged` |
| `SyncIntake` | batches of offline actions, idempotency, field merges, the review queue, the staff's own edits | `record`, `updatedAt` (a row's values and time), `processed` (ProcessedSyncAction), `reviews` (ConflictReviewItem), `requests`, `clock`, `faults`, and what devices have learned |
| `SyncPull` | the pull endpoint and the mirror of one device | `now`, `stamp` and `pending` (`updatedAt` of committed and of open versions), `since`, `pull`, `mirror` |
| `SyncProofs` | theorems about `SyncIntake` and `SyncPull` | |
| `Returns` | returns of sold units, with the order lines, adjustments and pushed statuses of the same units | `stock`, `lineOf`, `orderIs`, `returns`, `claims`, `asking`, `moving` (what each mover has read) and the histories `sales`, `strayed` |
| `PriceBook` | price changes of a variant and tier | `entries` (ProductPrice), `active`, `setting`, `time` |
| `Numbering` | document numbers and id ranges | `issued`, `odd` (those that are not numbers), `ranges` (IdRangeAllocation), `numbering` |
| `AccessControl` | users, roles, sessions, guards | `role`, `user`, `sessions`, `access` |
| `HistoricalLoad` | the variant catalogue, its similarity check and the loads of units | `catalogue`, `parked`, `loading`, `stopped` |
| `LandedCosts` | components of a shipment's cost and their allocation | `received`, `component`, `landed`, `allocating` |
| `EditDistance` | the Levenshtein distance, cell by cell | the two strings, two rows of the table, the place in it |
| `ReturnsProofs` | theorems about `Returns` | |
| `CalculationProofs` | theorems about `LandedCosts` and `EditDistance` | |
| `ProductProofs` | theorems about `PriceBook` and `HistoricalLoad` | |
| `AdministrationProofs` | theorems about `AccessControl` and `Numbering` | |
| `MCUnitLifecycle`, `MCSalesOrders`, `MCSupplyChain`, `MCSync`, `MCBackOffice` | values of the constants for TLC; `MCSync` lets a behaviour push or pull, `MCBackOffice` lets it work at one of seven desks, because these modules share no rows | |

`UnitLifecycle` implements `StockLedger` (property `ImplementsLedger`, theorem
`SerialRefinement`) when requests are serialised.  `SalesOrders` reuses
`UnitStates` for the SALE edges; whatever else moves its units is a *mover*, since
nothing in the other workflows looks at order lines.  `Returns` does the reverse:
orders, adjustments and pushed statuses appear in it as far as they hold and move
the units that come back.  `SyncIntake` implements `ActionDelivery`
(`ImplementsDelivery`) and sends a synced status through the state machine of
`UnitStates`.  Variables whose comment says history exist for the properties only.

### UnitLifecycle against the code

| Action | Code |
|---|---|
| `Adjust`, `StartAssembly`, `StartUpgrade`, `CompleteJob`, `FailJob`, `CancelJob`, `SyncStatus` | the part of each handler before its transaction: the checks, the target status and the movement type, all fixed from what is read there |
| `ReadUnit` | `tx.unit.findUnique` and `assertUnitTransition` in `transitionUnit`; for a start also the job insert before it, which the partial unique index may make wait |
| `LockUnit` | `tx.unit.update`, which holds the row lock until commit |
| `Commit` | the commit: statuses, movements and jobs of the batch together |
| `Refuse`, `Lose`, `AbortDeadlock` | a 409 or unique violation, a dead process or a timeout, the victim of a deadlock |
| `SetVariantStatus` | `ProductVariantsService.update` |

Abstracted: warehouses, actors, notes and references of a movement; the
reclassification of a variant's product type (`ThreeWheelers` is a constant);
only the newest movement of a unit is kept.

### SalesOrders against the code

Each endpoint has a validation action and a commit; update, confirm, release and
cancel also read inside their transaction and have a `Begin` action for it.
`covers` records that the rows a `deleteMany` or `updateMany` saw are still the
order's lines; a concurrent replacement of the lines clears it.  A release is one
`Begin` (all its reads and checks) and one `Commit`.

A mover is a request of another workflow or a pushed `unit.status`.  `ReadMove` is
the unlocked read and the assertion of `transitionUnit`, `WriteMove` its update by
id, which may come long after and over a sale.  A mover of kind `workflow` takes any
legal edge that does not sell (more than assembly, adjustments and returns do); one
of kind `push` (`apply-entity-field.ts:25`) takes any legal edge, SOLD included, with
no order.  `sale` is read off the unit's movements: which order sold it last, and
whether a workflow or a push has written the unit since.

Abstracted: prices, VAT and discounts are a total per set of units (`TotalOf`);
trust and kind of customer, the single-product-type and discontinued checks of
lines, how an overpayment is resolved, document numbers and audit entries are left
out.  A request that names a unit twice is not modelled.

### SupplyChain against the code

| Action | Code |
|---|---|
| `CreateOrder` ... `CloseShipment` | what each endpoint reads and checks before its transaction |
| `BeginReplace` | the `deleteMany` with which update of an order or of a manifest starts |
| `BeginProforma` | `SELECT ... FOR UPDATE` on the order, then MAX of its revisions |
| `BeginApprove` | the supersede and activate updates of `approve` and its read of the order; it waits for rows another approval has updated |
| `BeginReceive`, `BeginComplete`, `CountReceipts` | the reads of the receipt transactions; `CountReceipts` sums after the shipment's row is updated, hence locked |
| `Commit...` | the writes of each endpoint |
| `Refuse`, `Lose` | a 409, a unique violation or a row that is gone; a process that dies |

One module because three services write the status of a purchase order: its
own, `approve` of a proforma (pulls it forward to PI_RECEIVED) and
`completeReceipt` (PARTIALLY or FULLY_RECEIVED).

Abstracted: the lines of an order are a set of baskets with a total and a
quantity; variants, counterparties, currency, dates and references are left out,
so are updates of an order's header only.  A received unit is its two numbers and
its shipment; what happens to it next is `UnitLifecycle`.  A receipt request that
names one manifest line twice is not modelled: there the handler computes both
counts from one read and keeps the last (`shipments.service.ts:369`).

### SyncIntake against the code

| Action | Code |
|---|---|
| `Push`, `Respond` | a batch of a device enters and is answered; the device sends what is unanswered again, in order, one batch at a time |
| `LookUp`, `Record` | the idempotency service before and after the work |
| `Load` | `loadCurrent` of the merge, outside the transaction that applies it |
| `ApplyWork` | the transaction of the work: fields that did not collide, later writes, and review items; or the transaction of another workflow |
| `FailWork` | the work throws, for good (`Hopeless`) or once; the batch goes on |
| `Lose` | the process dies or the answer is lost; between work and record an effect is forgotten (`doubts`) |
| `StaffEdit` | a customer's update or an adjustment by the staff |
| `BeginResolve`, `CommitResolve`, `RefuseResolve` | a supervisor's decision; a status is applied through `transitionUnit` and may be refused |

Abstracted: payloads; the work of an action that is not a field change is one
effect that can fail.  The device is outside this repository and does what the
comments of the intake expect of it.

### SyncPull against the code

`Update` and `Commit` are the statements and the commit of any other transaction:
a row is stamped with the time of its statement and becomes visible later.
`StartPull` and `StartWindow` are the device's two modes, `ReadClock` is the
`serverNow` taken at the start of each page's request, `ReadPage` the queries and
what the device does with the answer, `LosePage` an answer that never arrives.
Every transaction gets a millisecond of its own, and a window ends at a time of
which no row has the stamp.  Deleted rows send nothing and are left out.

### The back office against the code

* `Returns`: `AskInitiate`, `AskInspect`, `AskResolve` are the checks before the
  transactions, `ReadUnit` the read and assertion of `transitionUnit`,
  `WriteInitiate`, `WriteResolve`, `Inspect` the writes.  `AskAdjust`, `ReadAdjust`
  and `WriteMove` are an adjustment's check, read and write by id, `ReadPush` the read
  of a pushed status.  `strayed` collects the units that a push has moved, or an
  adjustment whose check was overtaken.  `Reserve`, `Sell` and `CancelOrder` are one
  step each; `SalesOrders` has their detail.
* `PriceBook`: `SetPrice` checks, `ReadTime` reads the time of both entries,
  `PickCurrent` is where the `updateMany` chooses its row, `CloseCurrent` where it
  gets the row's lock and looks at it again, `OpenPrice` the insert, the partial
  unique index and the commit.
* `Numbering`: `Lock` is `pg_advisory_xact_lock`, `ReadNumber`/`ReadRange` the MAX,
  `InsertNumber`/`InsertRange` the insert and commit, `BringNumber` a historical
  shipment that comes with its own number and `BringText` one whose own number is a
  text of letters: MAX finds it, parseInt makes NaN of it, and from then on every draw
  is the same `0NaN` (`ReadNaN`, `InsertNaN`).  Left out: a text that begins with
  digits, of which parseInt reads those.  Numbers are compared as the strings of
  digits they are; digits are of base `Radix`, one of them standing for four.
* `AccessControl`: `Begin` is the guards and the checks of a service, `CountManagers`
  the writes and the count of managers in the transaction of an account change,
  `CommitAccount` its commit; the other requests commit in one step.  Hashes,
  tokens and expiry are left out.  Overlapping changes of one user's roles would
  merge (`deleteMany` sees its snapshot); here they wait for one another.
* `HistoricalLoad`: `Accept` is the validation of a file, `CreateVariants` the first
  transaction, `LoadBatch` each batch, `StopLoad` a death between them, `Resume` the
  rest brought in again.  `OrderLine`, `StaffCreate`, `SetVariantStatus` are the
  other writers of the catalogue.  Requests do not overlap here.
* `LandedCosts`: `ReadComponents`, `ReadUnits`, `Allocate` are the three awaits of
  `allocate`; units arrive and components change between them.
* `EditDistance`: one step per cell of the table, the two rows reused as in the code.

## Runs

| Run | Instance | Shows |
|---|---|---|
| `units_serial` | a three-wheeler and a two-wheeler, one request at a time, batches of up to 2, one job each | jobs hold their units, close once, cancel restores; `StockLedger` is implemented |
| `units_concurrent` | two three-wheelers, two requests, batches of up to 2, one job each; starts, completions and synced statuses; `FairSpec` | no stranded unit, one open job, ledger agrees with status, requests end although batches deadlock |
| `units_race_transition` | one three-wheeler, two requests | violation: two transactions that read the same status make an edge nobody asserted |
| `sales_serial` | two orders, two units, two payments (1 and 2), one sales request; beside it one mover, which may send a unit to assembly or push CBU or SOLD_AS_CKD | payments, reservations, totals and the state machine agree; sales are those of released orders, whatever else moves the units |
| `sales_concurrent` | two orders, two units, one payment, two requests | I-11 whatever interleaves |
| `supply_serial` | one order, two proformas, two shipments and lines, two engines and two chassis, baskets of 1 and 2, one request, receipts of up to 2 | agreed orders stand, proformas are decided once, shipments close settled and their order knows |
| `supply_concurrent` | one order, two proformas, one shipment, two lines, two requests of any kind | one ACTIVE proforma, revisions 1, 2, ... |
| `supply_close` | one of everything, one request | violation: a shipment of which nothing was received closes |
| `supply_replaced` | two lines, one request | violation: a manifest replaced after a receipt leaves a complete order PARTIALLY_RECEIVED |
| `sync` | push: two devices with four actions (one that always fails, two changes of one phone number with different times, a status), one request in service, two ticks, one fault. Pull: two units, one reference row, pages of 1, three transactions, one lost answer | actions take effect as often as promised, no later write and no change for review is lost, everything is answered; what the device believes current is current, and the mirror catches up |
| `sync_pages` | the pull half | violation: a reference row written between two pages is in none of them |
| `back_office` | seven desks, one per behaviour: two users, three roles and two requests; one price, two requests, three instants; two units, two orders, two returns, one request and one mover; four SKUs, five files, batches of 1, two stops; numbers of radix 3, two clerks, two devices; three engines, two allocations; strings of up to 3 of two letters | accounts keep a manager, price histories are continuous, returns and units agree, nothing is sold twice, stopped loads can be finished, unconfirmed variants have no twin, numbers do not clash, id blocks are disjoint, shares add up, the distance is the distance |

Bounds.  Two units give batches that overlap and lock in opposite orders; two
orders compete for a unit; payments of 1 and 2 against totals of 1 and 2 give
under-, exact and overpayment.  Two concurrent requests are enough for every
check-then-act race, which needs one reader and one writer.  `Targets` and
`MoveTargets` name the statuses other clients ask for; in `sales_serial` the pushes
are a sale and what undoes one, in the returns desk RETURNED and stock.  Two shipments of one order
give partial and full receipts, two lines a manifest of which one is settled, two
engines with two chassis receipts that share one number and not the other;
`MaxReceipt` bounds the units of one receipt request.

In `sync` the failing action is queued before the two it must not hold up; the two
phone changes come from two devices, before and after an edit of the staff, and
with a tie; one fault (`MaxFaults`) is a crash at any point of any batch, a lost
answer or a transient failure.  With pages of 1, two units make every pull of
both truncated; three transactions (`MaxWrites`) are one before, one during and one
after a pull, of which any may commit late.  The back office needs little: an
account change that races another, a price change that waits for another, two
returns of one unit, a load that stops twice, a number with a digit more
(`Radix` 3) or with none, a total that does not divide by its units.  Three letters on each side
are the least in which an insertion, a substitution and a deletion meet in one
table.

`CHECK_DEADLOCK FALSE` in the sales, supply and back office runs: the sets of
orders, payments, lines, returns and so on are bounded, so a run in which all are
used up and closed stops.

Fairness.  `FairSpec` asks strong fairness of every request's transaction steps:
the event loop resumes what a handler awaits, PostgreSQL grants row locks in
arrival order and its deadlock detector aborts one of a cycle, so a request that
can again and again proceed does.  Nothing is asked of clients.  `IntakeFairness`
asks the same of what the intake serves (weak fairness is enough: nothing waits
for a lock there), that the clock goes on, and that a device which still has
something to send gets through in the end; without the last a request slot may be
taken for ever by the staff's decisions.  `PullFairness` asks that open
transactions end, that the device pulls regularly and that the endpoint answers;
the bound on lost answers is the assumption that the network does not lose all.

### What the serial runs do not promise

The serial properties hold when one request runs at a time.  With two (the same
configuration, `Requests = {r1, r2}`, or two requests at the `Counter`) TLC refutes
several; each is a race the code leaves open.  One is kept as a run; the others,
reproduced the same way:

| Property | The race |
|---|---|
| `OutcomesAreFinal` | complete and cancel of one job both pass `loadInProgressJob`; the second overwrites the outcome (`assembly.service.ts:253`) |
| `SoldUnitsBelongToReleases` | cancel and release both read PAYMENT_RECEIVED (`sales-orders.service.ts:525`) |
| `OrdersFollowStateMachine` | submit writes by id after a cancel (`sales-orders.service.ts:344`) |
| `PaidOrdersAreCovered` | reject has read PENDING and overwrites a payment confirmed meanwhile, even of a released order (`payments.service.ts:220`) |
| `ReceivedIsDerived` | each of two confirms sums without the other (`payments.service.ts:186`) |
| `TotalsAgree`, `CancelledOrdersHoldNothing`, `ReleasedUnitsAreSold` | an update replaces lines of a snapshot, or of an order no longer DRAFT (`sales-orders.service.ts:254`, `:279`, `:543`) |
| `AgreedOrdersStand`, `ReceiptsReachOrder` | a submit or approve of the order that has checked DRAFT or PENDING_APPROVAL writes after a proforma approval pulled the order forward (`purchase-orders.service.ts:163`); an approval writes PI_RECEIVED after a receipt completed (`proforma-invoices.service.ts:144`) |
| `ProformasAreDecidedOnce` | approve and reject both read PENDING_REVIEW (`proforma-invoices.service.ts:115`, `:173`) |
| `ShipmentsFollowStateMachine`, `ClosedShipmentsSettled` | a PATCH that checked the status or the open manifest writes after the receipt was completed (`shipments.service.ts:209`) |
| `FullyReceivedMeansUnits` | besides the replaced manifest: a receipt that has read CLEARED commits after `completeReceipt` has summed (`shipments.service.ts:540`), or two receipts of a line each write a count computed without the other (`:372`) |
| `OpenReturnsMatchUnits` | two returns of one sold unit, or two dispositions of one return, pass their checks together (`returns.service.ts:182`) |

The total of a purchase order parts from its lines for the same reason as that of a
sales order (`TotalsAgree`).  With a synced status of IN_ASSEMBLY among the `Targets`,
`AssemblyHasOpenJob` fails as well: `applyEntityField` asserts the edge but creates
no job.  The movement type of an adjustment belongs to a status read before the
transaction (`units.service.ts:163`), and a variant discontinued between the check
and the commit still starts a job (`assembly.service.ts:50`).  The adjustment map
lets a two-wheeler kit that was on demo become SKD (`adjustment-map.ts:70`), which
`schema.prisma:146` reserves for assembled three-wheelers.

### What some properties leave out

A property that carries an exception names the case the code does not cover; TLC
refutes it without the exception.

* `AccountChangesKeepAManager` excepts a commit behind whose count another account
  or role changed: two managers may deactivate one another at once
  (`users.service.ts:270`).  It says nothing of role requests: taking `user.manage`
  from the one role that grants it leaves no manager (`roles.service.ts:73`),
  although `users.service.ts:19` says that must never happen.
* `NumbersNeverClash` excepts numbers after 9999, where MAX of the strings stays
  9999 and every next draw is taken (`so-number.ts:13`), and a number a historical
  shipment brings between the draw and the insert.  After a text among them the
  second draw of `0NaN` always clashes, and no number of the kind is drawn again until
  the next year.
* `SoldUnitsBelongToReleases` and `ReleasedUnitsAreSold` are about what sales do.  A
  pushed status sells a unit with no order, or takes a sold one back with no return
  (`apply-entity-field.ts:25`), and a workflow that read the unit before its sale
  writes over it (`transition-unit.ts:51`): then the properties still say which order
  sold the unit last, that it holds it and is released, and that nothing but a push
  makes a unit SOLD without one.
* `OpenReturnsMatchUnits` excepts the units a pushed status has moved, and those of an
  adjustment that wrote over a status it had not checked.
* `NeverSoldTwice` counts releases; a status pushed as SOLD is none.
* `HistoryIsChained` does not say that an entry ends after it starts: the time is read
  before the transaction (`pricing.service.ts:109`).
* `MirrorIsCurrent` excepts rows of a transaction that was open while a pull read
  the clock (`sync-pull.service.ts:120`), and reference rows written between two
  pages, the case of `sync_pages`.
* `ImplementsDelivery` allows one effect more for each crash between an action's
  work and its record (`sync-idempotency.service.ts:50`).
* `LaterWriteStands` is about fields settled by time; the merge compares with the
  time of the whole record, so a change may also lose to a newer edit of another
  field.
* `StoppedLoadsCanBeFinished` excepts rows that another file brought in meanwhile.

Met while modelling and not a property: a supervisor who decides that a unit's
status stands as the server has it gets a 409, because keeping a status is a
transition from it to itself (`sync-conflicts.service.ts:58`; the DTO calls it
"Keep version A"); PENDING payments do not count against the overpayment check, so
their sum may exceed the total (`payments.service.ts:74`); payments confirmed on a
draft do not advance it later (`:196`); deleted rows and deleted roles never reach
a device's mirror (`sync-pull.service.ts:399`); two requests that overlap may create
two variants of one SKU, which has no unique index (`variant-auto-create.ts`).

## Proofs

TLAPS checks the theorems below for any units, orders, rows, amounts and bounds.
Every safety property of a passing run is the conclusion of one.  *Concurrent*
theorems hold for any number of overlapping requests; *serial* ones assume
`OneAtATime` (`\A p, q \in Requests : p = q`), because the runs of overlapping
requests show that the code does not keep those properties otherwise.

| Module | Concurrent | Serial |
|---|---|---|
| `UnitLifecycleProofs` | `TypeCorrect`; `LedgerAlwaysAgrees` (I-3); `OneOpenJobAtATime`; `NoStrandedUnits` (*) | `SerialRefinement` (`Spec => ImplementsLedger`); `OutcomesStand`; `JobsKeepTheirUnits` (*); `CancelPutsBack` (*) |
| `SalesOrdersProofs` | `TypeCorrect`; `UnitsAreReservedOnce` (I-11); `PaidMeansCovered` when clients neither edit nor reject | `SerialOrders` (the invariant); `PaidStaysCovered` (I-4, with edits and rejections); `ReceivedStaysDerived`; `TotalsStayEqual`; `CancelledLetGo`; `SoldIsReleased` (+); `ReleasedIsSold` (+); `OrdersMoveLegally` |
| `SupplyChainProofs` | `TypeCorrect`; `ProformasAreExclusive` (I-5); `RevisionsAreCounted`; `IdentitiesAreKept` | `SerialSupply` (the invariant); `AgreedOrders`; `ClosedAreSettled`; `ReceiptsArrive`; `DecidedOnce`; `ShipmentsMoveLegally` |
| `SyncProofs` | `IntakeImplementsDelivery`; `NothingAcknowledgedIsLost`; `MirrorStaysCurrent` | `LaterWrites` (**) |
| `ProductProofs` | `PriceHistoriesAreChained`; `StoppedLoadsAreHarmless`; `LikelyTyposAreHeldBack` | |
| `CalculationProofs` | `SharesSumBack`; `DistanceFound` (one string pair at a time) | |
| `AdministrationProofs` | `RecountKeepsAManager`; `DrawnNumbersAreFree`; `BlocksPartitionIds` | |
| `ReturnsProofs` | `SoldAtMostOnce` | `ReturnsMatchUnits` (I-15) |

(*) with no status pushed through the sync endpoint (`"syncStatus" \notin Endpoints`):
it moves a unit without looking at its job.  (+) one sales
request, with any number of movers beside it; so is `ReturnsMatchUnits`: one request
at the counter, any number of movers.  (**) with
`OneChangePerField`, that an action names a field once: `UpdateEntityPayloadDto` lets
its `changes` name one twice, and then the second is compared with the row as it was
before the first.

### Why they hold

**Units.** The type invariant is not inductive alone: `UnitLifecycleProofs` adds that a
request has read every unit it has locked and that the edge it read is asserted; I-3
follows because `Commit` writes status and movement from the same record.
Stranding needs that the transaction closing a job is a move out of IN_ASSEMBLY it
has read, and that starts insert their job with the move.  Serially, what a request
read when it began still stands when it writes, so a cancel puts the unit back
where its job says it came from and a finished job is not finished again.

**Sales.** I-11 rests on `Admitted` alone, the index: the pre-flight is not needed,
which is what the comment at `findI11Conflicts` says of it.  `PaidMeansCovered` says
of a confirm or a release that has begun that it holds a sum no larger than the
confirmed one at its commit: without edits and rejections, payments are only ever
added, so a stale sum is a lower bound.  `SerialInv` has two parts.  `Stands(r)`: what
request `r` has checked and read is still so when it writes (a begun confirm holds
the sum with its payment, a begun release the order's lines, and so on).
`Agrees(o)`: the rows of order `o` agree with each other, where cover, `received`,
`total`, the invoice and the units held are one conjunct each.  Neither is inductive
without the other: that an edited order is not paid comes from `Stands`, that the
amount an invoice prints is the order's comes from `Agrees`.  `Goods` (a unit's latest
sale is that of the released order that holds it, and what the unit is now is that
sale's doing or a mover's) is preserved on top of it, because a line of a released
order never changes again and the index keeps every other order off its units; a
mover only ever has a move that is allowed for its kind (`MovesAllowed`), so it makes a
unit SOLD as a push or not at all.

**Supply.** The invariant adds that every row a request, a proforma, a shipment or a
line refers to exists and that the row about to be inserted does not.  I-5 then
rests on the partial index alone (`Admitted`), the identities on the unique indexes
at the commit.  For revisions it says that a transaction that has read MAX + 1 still
holds one more than the number of the order's proformas: nobody else can number one
for the same order while the lock is held.  `SerialInv` again says that what a
request has checked stands (`Stands`), next to the three invariants (`Upheld`), which
need one another: receipt advances an order only as far as its agreed lines reach,
and an order advances along `Lifecycle` only, so it never falls behind its shipments.

**Sync.** The invariant of the intake says that a device has one batch in service,
that an action whose work is being done has not been recorded, and that an action's
effects are one more than its doubts exactly while it is recorded or about to be.
The middle one needs the first: it is the devices' replaying in order, not the
idempotency table, that keeps one action from being done twice at once.
`AccountInv` says that an action is accounted for from the moment its work commits,
before the action is recorded and acknowledged, and that an applied value leaves the
record only through a write that is itself in the history.  `TimesInv`: the time of a
row is never before the write of any of its fields, and a merge still sees what it
has loaded.  `PullInv` ties the mirror to the cursor: what a pull has sent is all
there is up to the place of its cursor (`UnitsUpToCursor`, from the total order on
(`updatedAt`, id) and from pages being beginnings of what was found), the first page
has the references (`ReferencesOfFirstPage`), and a version still open is either
younger than the pull's clock or counted late (`OpenIsYounger`).

**Products.** For prices, an entry being closed is still current and nobody else is
closing it (the row lock); with the index this makes the current entry the last.
`LoadInv` says that the rows of a load that creates variants were validated, and that
from the moment it creates units, and in every stopped load, the SKUs of its rows
are in the catalogue and no number repeats: what is left of such a file needs no
confirmation the second time.  That a variant has no twin follows from the guard on
what is created together with what the check compared it with.

**Costs.** Whatever total and units an allocation has read, the shares it writes sum
to that total (`AllocationAddsUp`); `settled` says they are what is current.  The sum
is an induction over data.  The library's induction theorems take an operator, so
`CalculationProofs` proves its own with sets in its place (`Counting`: a set with 0
and every successor has all of Nat, by `WFMin`; `SetInduction` for finite sets), and
from them that `SumFunctionOnSet` is a number that does not depend on the order of
adding.  That engine numbers have an order at all is proved from their ranks
(`OrderExists`).

**Edit distance.** `TableInv` says that `prev` is the row before the current one and
`curr` the current one up to `column`, and that a cell is the least number of edits
of a *plan*: one which goes through both strings once, from left to right.  Plans are
the least set closed under the three steps, so that every plan has a last edit
(`PlansEnd`), which is what the minimum of three neighbours is about.  The property
speaks of edits in any order and at any place instead (`Within`).  That these are not
fewer is the lemma `PlanOfEdit`: one edit of the second string makes a plan at most
one edit longer, wherever the edit is.  That a plan can be carried out is `MixSteps`:
each of its steps is an edit of a string which begins like the second and ends like
the first.

**Administration.** For accounts, a count which nothing was committed behind still
stands.  For numbers, a lock has one holder, what was read under it is still so, and
a nonempty set of numbers has a greatest string.

**Returns.** A unit which was sold is on the line of its released order for ever; a
request which has checked its return finds it so.  `MoverInv` says that an
adjustment in service is one of the adjustment map, from the status it checked: in
time, it takes no unit into or out of RETURNED or a SOLD state.

TLC has checked each of the serial invariants, `AccountInv`, `TimesInv`, `PullInv`,
`LoadInv` and `CostsInv` as an invariant of the run of its module.  It cannot evaluate
`TableInv`, whose plans are an intersection of infinite sets.

### Assumptions

`UnitsAssumption`, `SalesAssumption`, `SupplyAssumption`, `IntakeAssumption`,
`PullAssumption`, `PriceAssumption`, `LoadAssumption`, `CostsAssumption`, `DistanceAssumption`,
`NumberingAssumption`, `ReturnsAssumption` and `AccessAssumption`, which TLC evaluates in
every run of their module:

* the types of the constants, and that rows, changes, components and the like are
  finite sets with times and amounts in Nat;
* `SumOf` grows with its set, since amounts are not negative, and is 0 of no payment
  (`agg._sum.amount ?? 0` in `payments.service.ts`);
* movers other than pushed statuses do not sell (`MoveTargets["workflow"]`);
* an action is queued on one device (clientIds are unique);
* the strings compared are at most some number of letters long;
* document numbers stay below the square of `Radix`, so that at most one digit is
  added;
* files are sequences of rows with known kinds of SKUs and numbers, and
  the variants and order lines there are at the start are of those SKUs.  Nothing is
  assumed of `Distance` but that it is a number.

### Model-checked only

* Liveness (`RequestsEnd`, `PushesAreAnswered`, `PullsConverge`): the installed provers
  do not reason about fairness and ENABLED.

## Not modelled

* Audit: a fire-and-forget insert after each request that no workflow reads.
* Documents and reports: read-only queries and page layout.
* Controllers, DTOs and modules: routing, shape checks and wiring.
* The load of spare parts (`historical-load.service.ts:373-436`): one transaction
  over one table.
* Customers, counterparties and spare parts beyond the edits that compete with
  synced changes: single rows without a state machine.

## Plan

Done: every component with a state machine, a lock, an index or a race of its own,
and a theorem for every safety property of a passing run.

Left: the abstract ledger for `SyncIntake`'s status changes, which go through
`transitionUnit` as well.
