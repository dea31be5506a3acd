# MilkKart backend: models, checks and proofs

MilkKart is a Django REST backend for a dairy delivery service: catalogue, cart,
checkout, payments through a gateway or a wallet, rider delivery, daily
subscriptions and a back office. This directory holds TLA+ models of the parts
whose correctness depends on what happens *between* requests, the TLC
configurations that check them and the TLAPS proofs about them. Paths below are
relative to `src/apps/` unless they say otherwise.

## 1. The system

### Execution model

Gunicorn runs several worker processes, Celery others; each executes one handler
or task at a time. `ATOMIC_REQUESTS` is off: outside `transaction.atomic()` every
statement commits by itself, and a value read into a Python object stays as it was
read. The database is MySQL/InnoDB at Django's default isolation, READ COMMITTED. A
row is held from `SELECT ... FOR UPDATE` or the first `UPDATE` to the end of the
block. Webhooks arrive at least once and in any order; Celery tasks run at any time
after they were queued. A process may die between two statements: what was
committed stays, the open block is rolled back, nothing resumes the handler.

All models therefore share one shape. `req[p]` is what worker `p` is executing,
with what it read so far; a handler is cut into steps where another process can
come in between (at its reads, its lock waits and its commits); an atomic block
becomes visible in one step, and holds row locks until then. Reads that follow
each other with no wait between them are one step, and the guard of a step comes
from the code's conditions on what was *read*, not on what is true when it writes.

### Components

| Component | State | Operations | Talks to | Hard behaviour | What makes it correct |
|---|---|---|---|---|---|
| wallet (`wallet/`) | balance, ledger rows, top-ups | credit, debit, create / verify / mock-pay a top-up | payments (webhooks), orders (spend, refund), support | concurrent postings to a row; two confirmations of a top-up; death between save and credit | the ledger explains the balance; a top-up is credited once and only if paid |
| payments (`payments/`) | Payment, webhook log | initiate, verify, mock-pay, webhook, refund task | gateway, wallet, orders | callback and events in any order, repeated | SUCCESS only if the money was taken; captured payments recorded; refunds issued once |
| orders: lifecycle (`orders/cancellation.py`, `admin_views.py`, `tasks.py`) | Order.status | cancel, confirm, assign | payments, wallet, delivery, inventory | stale statuses; late tasks | forward only; a cancelled order is settled once |
| orders: checkout (`orders/views.py`) | orders, slot, redemptions | checkout | cart, inventory, promotions, delivery | checks before the block, writes in it | nothing oversold; slot and coupon counts |
| inventory (`inventory/`) | variant stock, movements | adjust_stock, restock, adjust | checkout, cancellation, delivery, import, subscriptions | row locks, unlocked writes | stock is what its movements add up to |
| delivery (`delivery/`) | assignment, rider | accept, pickup, deliver, return, assign, auto-assign, earnings | orders, payments, inventory | two commits per handler; task after cancel | rider's and customer's view agree |
| cart and billing (`cart/`) | cart lines, coupon | add, change, delete, coupon, compute_bill | checkout | two requests on one item; rounding, thresholds, caps | bill adds up; stock covers what was asked for |
| promotions (`promotions/`) | coupons, redemptions | eligibility, discount | cart, checkout | limits checked early | counter = redemptions; limits |
| subscriptions (`subscriptions/`) | subscription, vacation, delivery rows | generate, replay, create, pause, resume, change, cancel, vacation, skip, set a quantity | orders, wallet, inventory, delivery | task and replay overlap; requests that save what they loaded; cutoff; crash between block and rider | one order a day, debited once; only what is wanted; the forecast is what is drawn |
| catalogue and cache (`catalog/`) | products, variants, cache version | edit, list | inventory, cart, support (ratings) | version bump against a slow response or an open block | no stale page outlives its version |
| support (`support/`) | tickets, ratings, reviews | file, resolve, replace, refund, mark in progress, rate | wallet, catalogue | two agents resolve at once; ratings summed at once | one refund per ticket; totals are those of the ratings |
| invoices (`invoices/`) | invoices | issue, number, mail | orders | number from id in two saves | one numbered invoice per order |
| core (`core/`) | store settings, import jobs | order window, bulk import | inventory, accounts | import thread dies | jobs end; window at midnight |
| addresses (`addresses/`) | addresses | create, change, delete, geocode | checkout, import | two saves at once; a slow geocoder | one default, the one chosen |
| serviceability (`serviceability/`) | zones, areas, waiting list | point in polygon, zone for a point, check | checkout | vertices, edges, holes; nothing switched on | a shared border belongs to one zone |
| accounts (`accounts/`) | users, one-time codes, profiles | send, verify, onboard a rider | import | two verifications; spellings of a number | one account a person; a code works once |
| notifications, realtime, reports | messages | notify, broadcast, aggregate | all | best effort | nothing else depends on them |

`PROJECT.json` lists the same components with their status, and under `hazards`
every place where this code is hard to test, with the property that watches it.

## 2. Modules

| Module | Models | Role |
|---|---|---|
| `Ledger` | an account that changes only by recorded postings | abstract specification, refined by wallets and by variants' stock |
| `Wallet` | wallet, top-ups, their callback and webhooks | component |
| `WalletProofs` | – | theorems about `Wallet` for all constants |
| `OrderLife` | payments + cancellation + assignment of one order | composition of payments, orders and delivery |
| `OrderLifeProofs` | – | theorems about `OrderLife` for all constants |
| `Checkout` | stock, slot, coupon, cart; everything that changes stock | composition of checkout, inventory, promotions, cancellation, import, editor |
| `CheckoutProofs` | – | theorems about `Checkout` for all constants |
| `DeliveryDay` | one day of one subscription, as its customer sees it | abstract specification, refined by subscriptions |
| `Subscriptions` | schedules, the nightly task and its replays, generated orders, stock and wallets | composition of subscriptions, orders, inventory and wallet |
| `SubscriptionsProofs` | – | theorems about `Subscriptions` for all constants |
| `Tickets` | support tickets and their credits | component |
| `ProductPages` | catalogue pages in the cache, ratings and their totals | composition of catalogue, support and the checkout's writes |
| `Invoices` | issue, numbering and mailing of invoices | component |
| `Accounts` | one-time codes, accounts, bulk imports of people | composition of accounts, import and the ops board |
| `Addresses` | default flag and coordinates of a customer's addresses | component |
| `RiderDay` | assignment of orders, the rider's screens and earnings | component |
| `Cart` | cart items, coupon, bill | component |
| `Zones` | polygons, areas, serviceability | component |
| `StorefrontProofs` | – | theorems about `Invoices`, `ProductPages`, `Cart` for all constants |
| `CustomersProofs` | – | theorems about `Accounts`, `Addresses` for all constants |
| `StaffProofs` | – | theorems about `Tickets`, `RiderDay`, `Zones` for all constants |
| `Sums` | what the database adds up with `SUM` | operator shared by the components |
| `SumLemmas` | – | how a sum changes, for every finite set |
| `Services` | the eight components before, one at a time | for model checking |
| `MCWallet`, `MCOrderLife`, `MCCheckout`, `MCSubscriptions`, `MCServices` | – | instances for TLC |

The decisions a handler rests on are
operators of their own (`AlreadyCaptured`, `Cancellable`, `InStock`, ...). Before each
stands a faulty twin (`CapturedIgnored`, `AnythingOpen`, `AnyStock`, ...) that no
specification uses: putting the twin in the decision's place must break the
property the decision is there for, which shows that the property can fail.

### Wallet

State: `balance`/`txns` are the wallet rows and their `WalletTransaction`s, `status`
the `WalletTopup`s, `processed` the webhook log, `gateway`/`emitted` the gateway
(external), `req`/`rowLock` the workers. `Verify`..`VerifyFail` are
`wallet_topup_verify`, `MockPay` the mock gateway's, `Webhook`..`Finish` the webhook view with
`capture` and `mark_failed`, `LockWallet`, `Commit` and `Insufficient` the steps of
`Wallet._apply`; `CaptureLock` is `_capture_topup`, whose block writes the top-up before
it credits and so holds both rows. `Crash` ends a request anywhere. The histories
`credits`, `overlapped` and `lost` only observe.

`wallet_topup_status` only reads (although `docs/ARCHITECTURE.md:86` has it poll the
gateway), so there is no action for it.

### OrderLife

One order, already placed, with its payment attempts, assignment and items. The
stock and the slot are represented by how often they were given back
(`restocked`, `slotFreed`); the amounts by how often money moved (`debits`,
`cancelCredits`, `lineCredits`, `refunds`). `Initiate`/`InitiateCommit` are
`initiate_payment`, which deletes the earlier payment; `Verify`, `MockPay`, `Webhook`,
`Capture`, `MarkPayment`, `Acknowledge` the ways a payment is confirmed or fails;
`Cancel`/`Settle`/`CancelCommit`/`EnqueueRefund` the two `cancel_order` views around
`perform_cancellation`; `StartRefund`/`RefundAtGateway` the Celery task; `ConfirmOrder`,
`AssignRider` and `AutoAssign` ops and the task; `RiderStarts`, `SaveAssignment` and
`SaveOrder` the rider's pickup and delivery (two commits), `ReturnItems`/`ReturnCommit`
the refusal at the door. `marks` records what happened out of the usual order, so
that a property can say exactly when it does not hold.

### Checkout

Many customers, one slot, one coupon. A handler is a list of changes to variants:
`Checkout` (delta -1 for each cart line), `Cancel` (+1), `Adjust` (restock, adjustment, a
refused item), `SetStock` (bulk import: the delta comes from an unlocked read), `Edit`
(the back office saves the whole row). `TakeRow` is `adjust_stock` up to the row lock and
the check, `OutOfStock` the rollback, `Commit` the end of the block. With `lock=False`
(`perform_cancellation`) the stock written is computed from what was read before:
at the start (prefetched) in the customer's view, or line by line in ops' (`Fetch`). The
slot is written back from the value read before the block (`orders/views.py:164`), the
coupon's counter by `F("times_used") + 1`. `DeadlockVictim` is InnoDB's rollback of one
of the blocks that wait for each other in a circle. `blind` counts the writes that
overwrote a stock they had not locked; `overlapped` says that two customers'
handlers ran at once.

### DeliveryDay and Subscriptions

`DeliveryDay` says what a day may do: before the cutoff it can be skipped and taken
up again, afterwards it can only be decided, and an order stays an order. In
`Subscriptions` `sub`, `vacations` and `row` are the three tables, `orders` the orders
generated, `stock` and `wallet` what they draw on, `queue` the Celery queue. `Clock` is
the evening: `CutoffPasses`, `Beat` (the scheduled task), `Midnight`, and `Replay` (ops'
command). A task is `StartTask` (loads the active rows once), `Decide` (`is_due`, the day's
row, stock and balance), then `Generate`, or `RollBack` and `RecordFailure`, then
`AssignRider`; `todo` are the subscriptions the task has still to visit, newest first (`Newer`). Customers' requests are one step
where they read and write in one statement or block (`Create`, `CancelSub`, `AddVacation`, `EndVacation`) and
two where they load a row and save all of it later (`AskStatus`/`AskPlan` and `SavePlan`,
`AskDay` and `SaveDay`). `raced` marks days that two handlers decided at once, `reverted`
subscriptions saved from a stale row, `changed` in a task's request those that were
changed after it had loaded them; the properties hold for all the others.

`AssignRider` finds a rider or nobody: `assign_order` raises `NoRiderAvailable` when nobody is on duty,
and `_on_generated` only logs it, so that the order stays without one (`rider = "nobody"`; "untried" is an order
whose assignment has not run).

`OneOrderADay`: overlapping or repeated generation bills a day once unless raced, and an
order is untried only while its task is about to assign it, or after that task died. `BooksBalance`: failed generations leave no
trace; every debit is an order. `StopsWhenAsked`: what is ordered was wanted, by the
schedule, the vacations and the last quantity set. `ForecastIsDrawn`: after a task,
ops' forecast is what was ordered and what failed.

### Tickets

`ticket` holds the columns an agent decides about, `credits` the ledger's rows for each ticket, `agent[a]` the
copies a request has loaded. `AskResolve` (API) and `AskReplaceAll` (admin action) load and test;
`Resolve` is the block, which tests nothing again; `MarkInProgress` is one UPDATE whatever
the status, `EditTicket` the admin form. `RefundedOnce` is exact: a refund that is
recorded was paid, once and alone unless two resolutions crossed or a resolved ticket
was sent back to work.

### ProductPages

`pages[v]` is the page stored under version `v`, `visit[b]` what a worker has read. `Rate`..`SaveRating`
are `product_rating` and its recomputation of the totals; `LoadProduct` and `SaveProduct` the back office's PATCH, which
saves the whole product row and with it the totals it loaded; `AdminRates` and `TypeTotals` the admin site's forms for ratings and
products; `Restock` and `SellInBlock`/`CommitSale` writes of stock outside and inside a block. `Bump` is the signal, which in a
block runs before the commit; `Browse`, `Query`, `LookUp`, `StorePage` a cached view, which reads the version again when it
stores. `get_version` and `bump_version` both miss an absent counter in one command and set it to 1 in the next:
`SetToOne`, which may come late and move the counter back. `Expire` and `DropVersion` are Redis forgetting.

`PagesTellTheTruth` names every way to a page that is not the product (`tainted`, `owed`) and to totals that are not
those of the ratings (`lagged`, `doubled`): a page computed before the write its version stands for, by a slow reader or
between a block's bump and its commit; a counter lost, or set back to 1 by somebody who had missed it; a bump that is still
to come or was lost with its worker; totals saved from a sum, or with a product row, that a rating had overtaken; and what
the admin site changes without a recomputation.

### Invoices

`Issue`, `NumberIt`, `Mail`, `Stamp` are the statements of issuing and mailing in order, none in a
transaction; `ReduceTotal` is a change of the order behind them. `InvoiceNumbered`: numbers
are unique, an invoice without one is about to get it or lost it to a crash, and any later
mail repairs it.

### Accounts

An account's number is `<<person, spelling>>`, a spelling being whether a plus was typed and which digits stand before
the ten of the number (`Dialled`: none, the country code, a trunk zero; the theorems take any set with the first two).
Login rewrites it (`Canonical`, `normalize_phone`): ten digits get the country code, and any others are taken to have one, so
that "0" and the ten digits, which the validator accepts, become another account. An import keeps what the sheet says,
the ops board (`OnboardRider`) and the admin site (`AdminAddsUser`) what was typed. `AskVerify`, `AcceptCode`, `SignIn` are the
statements of `verify_otp`; `Upload`, `RunnerBegins`, `RunRow`, `ReportProgress`, `RunnerFinishes`,
`RunnerFails` the job and its daemon thread, `WebRestart` its end.

`AccountPerPerson` says of people who log in with one of the spellings that `normalize_phone` documents (`Documented`), and
whom everybody else wrote in full, that they have one account; `misspelt` are the others. `ImportAccounted` says what the
panel's counts are worth.

### Addresses

`ClearOthers` and `WriteRow` are the two statements of `Address.save`, preceded by the read of `PatchAddress`
or, much earlier, by the geocoding task (`StartGeocode`, `WriteCoordinates`); `BackfillForOrder` is the inline
lookup at checkout, `ImportAddress` the import's block. `DefaultIsChosen`: the default is the
address last chosen, alone, until a save cut short, a repeated import, or an object loaded before another
change of defaults (`Outdated`) disturbs it; overlaps that change no default are not excused.

### RiderDay

`AssignOrder` and `AutoAssign` pick a rider, `CreateTask` inserts the row; the rider's handlers are one step each here
(`OrderLife` has them in parts). `DaySummary`, `ByProduct` and the lists are functions of the rows;
`RiderScreensAgree` relates them: days to all days, lists to summaries, shares to earnings. An order's fee
is split over its lines by quantity (`Share`), in units of 1/`Scale` of a paisa, which make every share a whole
number, and rounded only when it is shown, so that the difference between what the products show and what the rider
earned is bounded from both sides. `TopProducts` is the set of the lists the database may return, since it
breaks ties as it likes.

### Cart

`AddToCart`, `SetQuantity` load an item, `SaveItem` saves it; `Bill` is `compute_bill` in paise, with percentages of two decimals and its
rounding. `rowOf` is the row's key: a save puts a deleted row back, but not beside one inserted since. `CartAddsUp` ties the bill together: its lines sum to its total, the discount
exceeds neither the goods nor the coupon's cap, no fee is asked from its threshold on, tax is exact to half a
paisa, a lapsed coupon takes nothing off; and the cart holds what was asked for, request after request,
unless two requests on one item passed each other or one broke off.

### Zones

`PointInRing`, `PointInPolygon`, `Inside`, `ZoneForPoint`, `Check` are the functions of the same names, on integer
points. A ring is a list of corners; the stored ones repeat the first at the end, an edge of no length that no ray crosses.
`SwitchZone`, `SwitchArea` and `JoinWaitlist` the tables. Both properties take every point of
a grid. `BordersTile`: a zone cut in two along a straight border serves the points it served before, each by exactly one
of the halves, the points on the border and on slanted or re-entrant sides included (`CutInTwo` says what a cut is: it knows
corners, not rays). `ZonesAgree`: a rectangle holds its lower and left sides and not the others,
priority and age decide between zones, and switching one more zone or area on excludes nobody.

## 3. Runs

| Run | Question | States |
|---|---|---|
| `wallet` | One top-up, a spend and a refund on two workers, one death: ledger exact, credit only if paid, twice only if two confirmations overlapped; every paid top-up credited (liveness); refines `Ledger` | 257 k |
| `wallet_double` | Counterexample: two confirmations that read the same top-up credit it twice | – |
| `orders` | One order, two items, two attempts by any method, handlers in series, tasks and events late, one death | 1.7 M |
| `orders_live` | Owed refunds reach the gateway, paid attempts are recorded | 51 k |
| `orders_race` | Two handlers of one order at once: what survives | 2.9 M |
| `orders_refund` | Counterexample: a REFUNDED payment is captured again or failed | – |
| `orders_queue` | Counterexample: auto-assign after a cancellation | – |
| `checkout` | Two customers, opposite carts, cancellations, warehouse, import, editor | 482 k |
| `checkout_live` | Every handler ends in spite of waits, sold-out lines and deadlocks | 61 k |
| `checkout_drift` | Counterexample: a cancellation overwrites a sale | – |
| `subscriptions` | A wallet and a cash subscription of one scarce variant, task and replay, changes of mind around the cutoff, one death | 1.28 M |
| `services` | Tickets, pages, invoices, accounts, addresses, riders, cart, zones: what each promises and what breaks it | 841 k |

The four counterexamples are the project's findings; each contradicts a sentence
of the repository (quoted in `PROJECT.json`). The passing runs state what does hold
beside them: `DoubleCreditOnlyIfOverlapped` (two overlapping confirmations are the
*only* way to a double credit), `DriftOnlyByBlindWrites` (unlocked writes are the *only*
way stock and movements come apart), `CancelledIsSettled` and the others up to
`late_assign` and `late_capture`. `SlotCountsOrders` and the limits in `CouponCounted` are
claims about customers served one after the other, because the code reads both
before its block; that the coupon's counter equals its redemptions, and that no
stock is ever negative, hold in every interleaving.

### Bounds

- Two workers are enough for every two-handler race; the races of this code are
  between a reader and one writer of the same row. `orders` uses one worker, because it
  asks for guarantees that only hold for handlers in series; delays of tasks and
  events are still arbitrary.
- One wallet, so that everything contends for its row; two entries bound *new*
  requests, not those already running, so the ledger grows further.
- `Opening = 2`, `Capacity = 1`, `UsageLimit = 1`: a slot and a coupon that are used up by one
  order, and stock that two orders use up, so that the limits are reached and an
  import target can be above and below the stock. `checkout_live` has a slot with two
  places, so that both customers can be in their blocks and deadlock.
- `MaxMoves` stops the warehouse and the import (not checkouts and cancellations) once
  a variant has two movements; `MaxFills = 1` gives each customer one cart, which a
  double submit can still read twice; `MaxEdits = 1`.
- `MaxAttempts = 2`: a second initiation deletes the payment of the first.
- `MaxCrashes = 1`: one death at any step; a second death only repeats the first on
  another handler.
- Items cost one unit and quantities are one: no property speaks of amounts.
- Workers are symmetric in `orders_race` and `checkout`: no definition compares them.
- `subscriptions`: one delivery date, so that task, replay and customers meet on it; the
  date is the first and the last of its vacation, so `<=` and `<` differ; stock for three units and a plan of
  two, so that one of two subscriptions can find too little; a wallet that does not cover
  the plan until it is topped up; three changes by customers, enough for a change, its
  opposite, and one more between them; one replay and one death. The evening of the last day is
  left out: it concerns a day that is not there. The two workers are symmetric.
- `services`: two of nearly everything that can meet, and in each component two requests at once. Only
  one component moves in a behaviour (`scene`, one of `Scenes`): they share no row that their properties
  speak of, so a joint behaviour would only interleave independent steps. `MaxWrites = 2`
  writes pass a slow page, `MaxAsks = 3` requests lose, repair and mail an invoice's number.
  `ReportEvery = 2`, `KeepErrors = 1`, `Top = 1` stand for the code's 5, 500 and 8: each is
  reached and passed. Requests of one kind change places (`Symmetry`): no definition compares them. `MaxEdits = 2`
  requests are enough for one to save a row that another deleted or put back. One upload: that two sheets never make or count a rider twice is
  proved (`ImportsAreAccounted`), since two threads beside the logins are too many states. Tax is
  5.25% and a coupon 12.5%, so that both are rounded. `Scale = 6` makes the shares of the two orders' lines whole. Polygons on a 7 x 7 grid have slanted, horizontal and vertical
  sides, a re-entrant corner and a hole; one zone is cut along an upright border and along a slanted one; every
  grid point is asked.
- Deadlock is not checked: with every bound used up a model has nothing to do.

### Fairness

`SF` on each worker's `Continue`: a process that started a handler goes on, InnoDB
grants row locks in turn and resolves deadlocks. Strong, because a row that is
free again and again is granted in the end. `SF` on each queued task and on each
emitted event: Celery workers take tasks from the queue, the gateway repeats an
event until it is acknowledged; with all workers busy now and then, only strong
fairness expresses that. Nothing is assumed about customers, riders, ops or the
gateway's verdict, and `Crash` is never fair. `Subscriptions` and `Services` state no
fairness: their properties are about what a step or a state may be. What *should*
happen eventually there mostly does not, by the code's design: an import whose
thread died is never resumed, an order generated just before a crash never gets a
rider, a cached page lives until its time is up; the safety properties name these cases.

## 4. Proofs

`WalletProofs` proves, for any sets of wallets, top-ups and workers, any amounts and
any bounds (from `WalletAssumption` alone):

| Theorem | Establishes |
|---|---|
| `TypeCorrect` | `TypeOK`: no wallet is overdrawn |
| `LedgerCorrect` | `LedgerExplainsBalance` |
| `WalletImplementsLedger` | every wallet refines `Ledger` (`ImplementsLedger`) |
| `OnlyPaidIsCredited` | `CreditedOnlyIfPaid` |
| `SerialConfirmationsCreditOnce` | `DoubleCreditOnlyIfOverlapped` |
| `SuccessIsBacked` | `SuccessIsCredited` |

None of these is inductive alone. The argument adds, in this order:

1. `ReqOK`: a request is of the shape its step implies (a confirmation carries its
   top-up, that top-up's wallet and a positive delta; an event it handles was emitted).
2. `LockOK`: whoever is in step `locked` holds the wallet's row, and what it read is the
   balance; no other worker is there. This is what `select_for_update` buys, and with it
   every commit is a posting from the current balance (`CommitPosts`), from which
   `LedgerCorrect` and `WalletImplementsLedger` follow.
3. `PaidOK`: a request that is going to credit a top-up has `gateway = "paid"`, as has
   every top-up with a `captured` event, a SUCCESS status or a credit.
4. `OnceOK`: while no two confirmations of a top-up overlapped, at most one is in
   flight, one that has passed the check of the status has seen it uncredited, and a
   credit leaves SUCCESS behind, which the next one reads.
5. `SuccessIsCredited` is inductive relative to 1, 2.

`CheckoutProofs` proves, from `CheckoutAssumption` alone:

| Theorem | Establishes |
|---|---|
| `CheckoutTypeCorrect` | `TypeOK`: no stock and no recorded movement is negative |
| `StockPostsUnlessBlind` | each step of a variant's stock is a posting of `Ledger`, or is counted in `blind` |
| `StockLedger` | `StockIsLedger`, the same with the interval of changes TLC enumerates, as long as no stock exceeds `MaxStock` |
| `StockDriftsOnlyByBlindWrites` | `DriftOnlyByBlindWrites`: the stock is its opening and the sum of its movements |
| `SlotCountsItsOrders` | `SlotCountsOrders` |
| `CouponIsCounted` | `CouponCounted` |

The invariant adds `ReqOK` (what a request is at each stage), `HeldOK` (the rows a block has
changed are its own, the change leaves no negative stock, and a stock read under the
lock is still the row's) and `LiveOK` (no more orders of a customer are being cancelled
than are live, which keeps `live` a natural number). `HeldOK` is inductive because
every write of a stock needs the row free or held (`EndOK`, `CommitRows`). `StockPostsUnlessBlind` instantiates
`Ledger` with all integers as changes; the run's `StockIsLedger` is the same formula with
the interval that TLC can enumerate.

`DriftOnlyByBlindWrites` is a sum over a sequence that grows by one (`SumAppend`); it is inductive with `IInv`,
because only a posting adds a movement. For the counters, `ShopInv` says in every interleaving that the coupon's
counter is the sum of its redemptions, because `F("times_used") + 1` reads what it writes; and, as long as no two
customers overlapped, that the slot counts the live orders and that what a handler decided on (`Decided`) still
holds when it commits. Without the last the slot is wrong: it is written back from what was read.

`OrderLifeProofs` proves, from `OrderLifeAssumption` alone, for any number of workers, so for
every overlap of handlers, and with any number of crashes:

| Theorem | Establishes |
|---|---|
| `OrderTypeCorrect` | `TypeOK`: in particular a payment's status fits its method |
| `OrderPaidOnlyIfTaken` | `PaidOnlyIfTaken` |
| `OrderCreditedBackOnce` | `CreditedBackOnce` |
| `OrderReturnedOnce`, `OrderPaidBackOnce` | `ReturnedOnce`, `PaidBackOnce`, with one worker |
| `OrderCancelledIsSettled`, `OrderConfirmedIsBacked` | `CancelledIsSettled`, `ConfirmedIsBacked`, with one worker |
| `OrderAssignmentAgrees`, `OrderForwardOnly` | `AssignmentAgrees`, `ForwardOnly`, with one worker |

`PaidOnlyIfTaken` speaks of the payment's row, but the rows that decide it were read
earlier, by handlers that may have been overtaken. The invariant therefore states
`Backed` of every row that is still in some handler's hands, and `Fits` says what each
handler may rely on between its two steps: a capture or a refund under way was paid for
at the gateway (`GatewayOK`: the gateway knows only online attempts, and speaks of
captures and refunds only when it has the money); a row that has been replaced is told
by its id; and a cancellation that holds the variants (`stockLock`) still sees the
wallet's payment as it read it, unless it was replaced. The last is why two cancellations
cannot both credit (`CreditsOK`); the credit rests on the rows of the variants being
locked before the payment is read, since the payment itself is read without a lock.

The last six need handlers in series, which the theorems say by `OneAtATime`: all workers are one. That is what the
run `orders` checks, and `orders_race` shows that it cannot be dropped. Tasks and events still come at any time and a
handler may die at any of its steps. The invariant is `SInv`, relative to `IInv`: `StillSo`
(what the handler read is still so), `CancelOnce` and `StockOK` (what a cancellation and a refusal at the door gave
back), `RowsAgree` (which order statuses each assignment status allows, exactly if nobody died between two saves),
`WalletOK`, and `RefundsOK`, which counts a refund that is queued, about to be queued or with the task as one on its
way (`OnItsWay`) and allows one for each attempt. What the marks excuse (`late_assign`, `late_capture`,
`ops_confirmed`) is excused there too, and only there.

`SubscriptionsProofs` proves, from `SubscriptionsAssumption` alone, for any subscriptions, plans,
dates, queue and number of workers:

| Theorem | Establishes |
|---|---|
| `SubscriptionsTypeCorrect` | `TypeOK` |
| `SubscriptionsOneOrderADay` | `OneOrderADay` |
| `SubscriptionsImplementDay` | `ImplementsDay`: every day refines `DeliveryDay` until it is raced |
| `SubscriptionsStopWhenAsked` | `StopsWhenAsked` |
| `SubscriptionsBooksBalance` | `BooksBalance` |
| `SubscriptionsForecastIsDrawn` | `ForecastIsDrawn` |

Neither a task nor a customer's change of a day locks the day's row, so nothing in the
tables says that a row is still as a handler read it. The invariant says so of the days
that are not `raced`: `DayOK` states that at most one handler is deciding the day, that the row
this handler read has not been settled since and, for a change, that the cutoff it passed has not
passed since, and that the row's order is the only order of the day. `RowOK` and `ReqOK` fix the shape of
rows and requests, `RidersOK` follows each order for which no rider was sought to the task that is about to seek one,
or to a crash. With it the abstract day is a function of the row and its order (`DayShown`), and
every step, the late answers of overtaken handlers included, maps to a step of
`DeliveryDay` or to a stutter (`NextDaysMove`). Steps that touch no day (`AllKept`, `ClockStep`) and
steps of one worker (`OneWorker`) are dealt with once.

`StopsWhenAsked` needs to know that a task acts on what a customer last said. `KInv` says so: what a handler loaded of a
subscription is what there is, unless it was told of a change (`changed`); and a task that is in its block found the
day due, for as many units as are wanted now. `BooksBalance` is five sums over orders and ledgers
(`BInv`); one lemma says what the order generated in a block adds to each of them, and that no other step changes
one side of an equation only.

`ForecastIsDrawn` is about a whole run of a task. `DInv` carries it from step to step: whatever subscription the task
has dealt with (`Dealt`) and nobody changed or raced since has its day decided if it is due, and every row that has an
order asks for the units of that order. A decided day is opened again by a customer's change alone, of which the task is
told; the task ends with the last of its list (`EndsWithTheLast`), so that then every due day is decided, and on
decided days the forecast and what was drawn are sums of the same numbers (`DecidedIsDrawn`).

`StorefrontProofs` proves, from `BillsAssumption`, `PagesAssumption` and `CartAssumption`:

| Theorem | Establishes |
|---|---|
| `InvoicesAreNumbered` | `InvoiceNumbered` |
| `PagesAreTrue` | `PagesTellTheTruth` |
| `CartIsRight` | `CartAddsUp` |

Invoices: a key is one above all others (`KeysInTurn`), a number is the key of its row, and a row without
one has a request that is about to write it, or lost it (`Followed`). Pages: a page that will be stored in
time (`Timely`) holds the product as it is; versions not bumped yet outnumber no writes (`VersionsBounded`); a counter that is moved back to 1
taints what was stored and overtakes what is in hand, so that no page in time can be under it; the totals are
those of the rows, and a product row in hand has the product's totals, unless a rating is under way or overtook them
(`TotalsFollow`). Cart: the item is as wanted when
no request holds it, and if one holds it alone it is going to write what is wanted (`ItemFollows`); that the bill adds up
needs no invariant but the types, and lemmas about rounding to the paisa and about the cap, in ten-thousandths of one.

`CustomersProofs` proves, from `AccountsAssumption`, `DialledAssumption` and `NowhereAssumption`:

| Theorem | Establishes |
|---|---|
| `OneAccountPerPerson` | `AccountPerPerson` |
| `ImportsAreAccounted` | `ImportAccounted` |
| `DefaultIsTheChoice` | `DefaultIsChosen` |

The account of a login with a documented spelling is in full, because its code was sent to a full number (`SpeltInFull`,
`SentInFull`); a code is accepted before anyone
signs in with it (`HeldByOne`). An import's counts follow its rows, and what the panel saw of them trails by less than a
report (`Counted`); the riders that sheets made are, as a sum over all uploads, the riders there are but for those
the ops board added (`RidersInv`). What a request holds of an address agrees
with the rows on the defaults, unless a default has changed since (`Fresh`, `OthersFresh`). An address is the default if it was the last choice, or the request that chose it
has yet to write its row (`Choosing`); an address without coordinates has a task or a request that minds it (`LocatedOK`).

`StaffProofs` proves, from `TypedAssumption`, `RiderDayAssumption`, `ZonesAssumption` and `BordersAssumption`:

| Theorem | Establishes |
|---|---|
| `TicketsPaidOnce` | `RefundedOnce` |
| `RiderScreensAreRight` | `RiderScreensAgree` |
| `ZonesAreRight` | `ZonesAgree` |
| `BordersAreTiled` | `BordersTile` |

Tickets: beside the types, what an agent has loaded was open and its refund had been paid (`CopiesOK`); ledger rows stay
where they are. Riders: a row has its rider from the start and its day when it is finished, and what was not all
returned has lines left (`TaskOK`); the rest is arithmetic on sums, which are swapped (orders by lines against
products by orders), grouped by day and by product, and rounded one product at a time. Zones: the ray to the right of a
point crosses the two upright sides of a rectangle only, and both or neither unless the point is inside.

Borders: the test for an edge says the same whichever way the edge is drawn (`CrossesEitherWay`), so the border's edges are
crossed as often in one half as in the other. The other edges of the halves are those of the whole, at other places of
their lists; counting them by one-to-one maps makes a point inside the whole exactly if it is inside one half and not the
other (`CutParity`). It is not inside both (`SidesSeparate`): a point right of the border's line crosses nothing of the half on the
left; one left of it crosses every edge of the right half that reaches over its level, and a ring goes up over a level as
often as down (`StraddlesEven`), so that is an even number. A level border has one half below the ray or the other above it.
No induction is needed; the products of variables are confined to identities of polynomials (`EdgeFromLine`).

`SumLemmas` has what these proofs need of sums. `SumOf` folds a function over its domain in an order that `CHOOSE`
makes; the lemmas show that the recursive function behind it exists and that the order does not matter. Both are
inductions over finite sets. The library's induction theorems have an operator parameter; here the set of those
subsets (or numbers) that have the property stands in the property's place, and a smallest one outside that set gives the
contradiction (`SubsetsInSet`, `NaturalsInSet`).

### Assumptions

Each is named in the module that declares the constants, and TLC evaluates it in the runs. Most say that a bound is a
number and a set of rows is finite. Those that say something of the shop:

- `CartAssumption`: prices, fees, tax and coupon values are not negative; they have two decimals, as their columns. No validator of
  `StoreConfig` or `Coupon` keeps out a negative one; an operator who enters it gets a bill that no property here is about.
- `DialledAssumption`: among the prefixes typed before a number are none and the country code.
- `RiderDayAssumption`: an order has lines and a line a positive quantity, as checkout makes them. `Scale` is any
  common multiple of the quantities that occur; one exists because an order's lines are finite.
- `ZonesAssumption`: the zones of `Rectangle` are drawn through their four corners; other polygons are
  any lists of points. Coordinates are whole numbers of whatever unit is small enough.
- `BordersAssumption`: each entry of `Borders` is a zone of one ring and the two rings that a straight border with any number
  of corners on it, none included, cuts it into. The store does not compute cuts; ops draw them.
- `TypedAssumption`, `AccountsAssumption`: what is typed into the admin form and what a sheet holds are values of their columns.
- `SubscriptionsAssumption`: a plan has a positive quantity, as `SubscriptionSerializer` demands, and vacations do not end
  before they begin.

### Only model-checked

- Liveness: `PaidIsCredited`, `RefundReachesGateway`, `PaidIsCaptured`, `HandlersEnd`. Fairness and ENABLED are
  outside the prover.

## 5. Not modelled

- In `OrderLife`: items whose variant was deleted from the catalogue. A cancellation skips them
  (`orders/cancellation.py:46`), and one with no other items locks no row before it reads the payment, so
  that what `CreditedBackOnce` rests on is missing. The early return of `process_refund` when the payment is gone
  (`payments/tasks.py:39`) does nothing and is left out.
- An account whose number is changed in the admin site; seeding commands, whose `.update()` sends no signal.
- The order's half of `change_order_address` (its geocoding half is in `Addresses`) and the
  status override of the Django admin (`orders/admin.py:13-22`), which bypasses every
  rule of the lifecycle.
- `capture("")`: a webhook whose gateway order id is blank would match rows whose id is
  still blank. The gateway always sends one.
- A cart that changes between a checkout's read and its end; a worker that dies in
  `Checkout`'s handlers (its block is rolled back as by `DeadlockVictim`, and nothing of the
  handler is outside the block but queued notifications and the auto-assign task, which
  `OrderLife` lets come late).
- In `Subscriptions`: several variants, prices that change between days, low-balance
  reminders. A unit costs one.
- The next-day order window and the cutoff clock of `core/`; parsing of spreadsheets; the
  monthly statement; messages of a ticket and reviews of an order, which only add rows.
- MultiPolygons and the distance formula behind a geofence: an area's fence is given as
  the points in it. Zones use exact arithmetic on integers, the code floats, so that a
  point within rounding of a slanted side may fall on the other side of it.
- Profiles and tokens, notifications, receipts, low-stock alerts, WebSocket messages and
  reports, which nothing reads back; routing of requests and permissions; settings,
  except as what the models assume of the database and the schedule.

### Seen while modelling

Besides the findings, where a comment or a document and the code differ and a passing
property already says what holds:

- `subscriptions/services.py:180` says cash subscriptions "are collected by the rider on
  delivery"; a generated order has no Payment row, so `delivery/services.py:168` gives the
  rider nothing to collect.
- A generated order for which nobody is on duty gets no rider, and no later run looks for one: replays pass over the day.
- `generate_for_subscription` says "Idempotent: a day already skipped or already generated is left untouched"
  (`subscriptions/services.py:151`); it reads the day without a lock, so that two overlapping tasks both order it and both
  debit the wallet. Those days are `raced`.
- The customers' sheet says "Existing customers (matched by phone) are updated, not duplicated" and offers
  "+919876500001 or 9876500001" (`core/import_service.py:45`, `:37`). `_clean_phone` (265-269) adds no country code as
  login does, so a row with the ten digits makes a second account beside the one in full. `AccountPerPerson` names
  such people `misspelt`.
- `normalize_phone` and `phone_validator` disagree about a leading zero: the one lets it through, the other takes it for a
  country code.
- The schedule is treated as settled after the cutoff, but pausing, vacations and changes of plan
  do not look at it; only single days do.
- The cache's docstring promises that a write orphans every older page; `tainted` lists the
  pages it does not.
- `mark_in_progress` reopens a resolved ticket, which can then be refunded again.
- Switching off the last zone and area opens the service everywhere.

## 6. Plan

Done: all modules of section 2; every safety invariant of the passing runs is proved for all constants, and
so are their action properties and the refinements of `Ledger` and `DeliveryDay`.

Next:

1. `change_order_address` with the order's status, in `OrderLife`.
2. A cart that changes during its checkout, in `Checkout`.
3. The order window at midnight.

## Running

    tlc -config Wallet.cfg MCWallet.tla      # any .cfg with its MC module
    tlapm WalletProofs.tla                   # the other *Proofs modules, and SumLemmas
