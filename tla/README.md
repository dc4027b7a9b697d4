# A verification project for joat_stores

joat_stores is a multi-tenant commerce backend (`src/backend`: Django REST
framework, Celery, Redis, PostgreSQL) for shops, restaurants, bars and
contractors that are paid over M-Pesa. This directory holds TLA+ modules
translated from its source, TLC configurations that model-check them on small
instances, and theorems that the TLA+ proof system checks for every value of
the constants. `PROJECT.json` maps every definition to the lines it models,
lists the runs, one mutant per property, the findings, the hazards of the code
and the theorems.

## The system

How things run, which is what makes them hard:

* **Requests.** In production `ATOMIC_REQUESTS` is on: a request is one READ
  COMMITTED transaction. What it writes is seen by others only when it ends; a
  *returned* 4xx or 5xx commits, an exception rolls back. A view that reads a
  row, checks its status and saves it holds no lock in between unless it asks
  for one, and only `initiate_payment` and the M-Pesa callback do.
* **Celery tasks** run without a surrounding transaction: each query commits by
  itself. The payment tasks are acknowledged when fetched (a dead worker loses
  them) and retried up to five times. Tasks built on `DLQTask` are acknowledged
  late (a dead worker repeats them); `TaskQueue` models both.
* **Beat** starts the periodic tasks. Two runs of one task may overlap.
* **Signals.** `payment_confirmed` is sent after the commit of a confirmation.
  The receivers of order, bar, restaurant, loyalty, saas and contracting run in
  the callback's worker, find their object by the prefix of the payment's
  reference, and do not deduplicate.

### Inventory

| Component | State | Operations | Hard parts | What makes it correct | Modules |
|---|---|---|---|---|---|
| payment, M-Pesa push | `MpesaTransaction.status`, reference, age | initiate, webhook callback, expire (5 min), reconcile (daily), reverse | duplicate, late, early and lost webhooks; expiry against answer; stale reconciliation save; idempotency lock on no row | confirmed iff paid; announced once; announced stays true; refunds are due; no row stays open | Payment, PaymentLedger, PaymentRefinement |
| payment, till and paybill (C2B) | receipts, what they name | register, validate, record, match, announce, reverse | repeated posts, tasks that fail between two queries, a receipt posted again after its reversal | announced once unless reversed; what it names is marked | Till |
| payment, card | `CardTransaction.status` | intent, Stripe webhook | unordered webhooks written unconditionally, with a date that was read before | a success that was saved is seen, unless an earlier event was saved after it | Card |
| payment, access token of Daraja | token and lock in Redis | get, fetch, poll, fall back | a lock without an owner, which expires under a fetch | one process fetches | AccessToken |
| order, checkout | `Order.status`, `Variant.inventory_count`, `Coupon.times_used` | checkout, staff confirm, receiver | stock and coupon checked without a lock; variant locks held over the Daraja call | bounded oversell and coupon overuse; no paid order missed; no lock wait without end | RetailOrder |
| order, cart | items under a Redis key | add, remove, merge at login, snapshot | get-then-set; a read that fails is an empty cart | what was added is there | Cart |
| bar | `Tab.status`, rounds and items, `TabShare.status` | open, add round, remove item, request bill, split, receiver | rounds racing the bill; overlapping receivers; stale requests for the bill; refused pushes | settled iff paid; settled is final (it is not: bounded); rounds in sequence | BarTab |
| restaurant, table | `TableSession`, `DineInOrder`, `KitchenTicket`, `BillShare`, `Reservation` | open, order, update ticket, bill, pay whole or split, close, reserve, confirm, seat, no show; receiver | orders racing the bill; stale sessions saved; seating | order and ticket agree; never open again; few late orders | TableSession |
| restaurant, pre-orders | `PendingOrder.status`, expiry | create, pay, convert, purge | double conversion; purge against payment and conversion | bounded conversion; paid ones are kept (not all of them) | PreOrder |
| restaurant, takeaway | order, pickup reference | place, pay, name | a number that is a count | the reference is unique (it is not) | Takeaway |
| loyalty | balance and ledger, stamps, profile | award, reward, redeem | repeated tasks, read-modify-write | balance equals ledger | Loyalty |
| saas, subscription | `StoreSubscription.status`, period, trial end | trial, renewal, reminder, past due, suspension, erasure | renewal races the daily tasks; one reference for all renewals | data erased only of stores long cancelled | Subscription |
| saas, limits | number of products, of orders of a month | check, insert | the check is not repeated | bounded excess | PlanLimit |
| contracting | slot and booking, quote request, quote, job, invoice | book, ask, quote, accept, reject, work, invoice, pay; PDF task, receiver | decisions that overlap; two writers of one invoice | work only on decided requests | Contract |
| product and inventory | `Variant`, alerts, import | create, edit, delete, sell, alert | full-row saves over decrements | stock agrees with sales | Stock, PlanLimit |
| core, tasks | queue, processes, dead letters in Redis | publish, take, retry, fail, acknowledge | deaths of the worker, of a process, of Redis | no call of a `DLQTask` vanishes | TaskQueue |
| analytics | hourly and daily summaries, first order | fill, replace, record | an hour is counted when it begins; runs that fail half way | hours add up to days and days to orders | Analytics |
| store | `Store.status`, settings, theme, logo | provision, change status, configure | rows created when first opened | typed only | StoreAdmin |
| users | accounts, refresh tokens | create, edit, sign in, refresh, log out | a refresh that overlaps another or a logout | no more sessions than sign-ins | Account |
| notifications; tenancy, permissions, throttling; menu; customer hub, ai; frontends | log rows, read models | CRUD, sending | | requests see one store | not modelled |

Components meet in three ways. A **payment** is opened by one of them and told
to it through `payment_confirmed`: the modules that take payments are built on
`PaymentLedger`, which `Payment` implements. A **task** is published by a view or
receiver and runs later: its steps are actions of the module of its component,
and what may be lost or repeated in between follows `TaskQueue`. A **row** of
another component is written directly only by the checkout (stock, coupon,
limits), which is part of `RetailOrder`, `Stock` and `PlanLimit`.

## Plan

In order of importance; the last column is the state of the work.

| # | Modules | Composes | Promise | |
|---|---|---|---|---|
| 1 | `Payment`, `PaymentLedger`, `PaymentRefinement`, `PaymentProofs` | rows, Daraja, tasks | the ledger: settled once, told once, refunded if paid | checked, proved |
| 2 | `RetailOrder`, `RetailOrderProofs` | checkout on the ledger | bounded overselling; no announced payment missed | checked, proved |
| 3 | `BarTab`, `BarTabProofs` | tab on the ledger; with 2 in `MCSale` | settled iff paid; taken back a bounded number of times | checked, proved |
| 4 | `TableSession` | table, orders, tickets, bills on the ledger | tickets and orders agree; sessions stay ended | checked, proved |
| 5 | `PreOrder`, `Takeaway`; 4, 5 and `PaymentRefinement` in `MCRestaurant`, 4 and 5 in `RestaurantProofs` | on the ledger | bounded conversion; paid pre-orders are kept | checked, proved |
| 6 | `TaskQueue` | Celery, Redis | no call of a `DLQTask` vanishes | checked, proved |
| 7 | `Till`, `AccessToken`, `Card` | Safaricom, Redis, Stripe | announced once unless reversed; one fetcher; success is seen | checked, proved |
| 8 | `Contract`, `ContractProofs` | on the ledger | work was decided | checked, proved |
| 9 | `Subscription`, `PlanLimit`, `Loyalty`, `Analytics`, `Cart`, `Stock`, `Account`, `StoreAdmin`; 6 to 9 in `MCServices`, `StoreProofs`, `ServicesProofs`, on `SumLemmas` | | see the runs | checked, proved |

Every safety and action property of the passing runs is proved. What is left:
an abstract ledger that lets a reference be pushed again, which the modules that
reopen a closed push would refine; the password reset of users; milestones of a
job.

## Modules

### Payment

One row per CheckoutRequestID. `row` is the committed status, `prompt` what the
customer did with the push (not visible to the code but through webhooks and
queries), `age` the class of ages the code tells apart (below 5 minutes, below
an hour, below 2 hours, older). A request is `trying` from the rate limit to its
commit and has `pushed` from Daraja's acceptance to it. `snapshot` are the rows
a reconciliation has read and not yet saved; `accepted` are reversal tasks
between Daraja's acceptance and the save.

| Code | Actions |
|---|---|
| `initiate_payment` | `CountAttempts`, then `ReturnExisting`, `PushRejected`, or `PushPrompt` and `SaveTransaction`; `LoseRequest` |
| `MpesaCallbackView` | `PostCallback` |
| `process_mpesa_callback` | `SettleByCallback`, `IgnoreCallback`, `LoseCallback`; the on_commit hook is `SendConfirmed` or `LoseConfirmed` |
| `expire_stale_stk_pushes` | `ExpireStale` (one UPDATE) |
| `reconcile_payments` | `ReconcileRead`, `ReconcileSave`, `ReconcileSkip` per row |
| `ReversePaymentView`, `initiate_reversal`, `reverse_payment` | `RequestReversal`, `CallReversal`, `SkipReversal`, `FailReversal`, `SaveReversal` |
| customer, Daraja, clock | `Answer`, `GrowOlder` (external) |

Abstracted: phones, amounts, receipts, and malformed payloads (which change
nothing). It is assumed that Daraja answers a status query of a closed prompt
with its result; a query it rejects is `ReconcileSkip`.

`PaymentLedger` is what this component promises: a payment is opened, then paid
or closed for good, refunded only if paid, and told once. `PaymentRefinement`
states that `Payment` implements it when no reconciliation runs. With one, the
unconditional save can turn an expired or reversed row into a confirmed one, so
the ledger is the promise of the webhook path only; that is the path that sends
the signal, so it is the one the receivers' modules use.

### RetailOrder

A checkout is in phase cart, writing (validated, updating rows), done, refused
or aborted. `Validate` and `Refuse` read committed stock and coupon use.
`UpdateRow` updates the next row of `Rows(o)`, the coupon and then the variants
in cart order, and waits while another request has it locked; the changes become
visible with `Commit`, which opens the push in the ledger or, when the push was
refused, does not. `BreakDeadlock` is PostgreSQL's victim. `Receive` and
`ConfirmPaid` are the two halves of the receiver, `StaffRead` and `StaffSave`
those of `OrderConfirmView`. `Retry` is a new push of an order's reference.
The cart is fixed per checkout and prices are left out. An order that is paid to
the till is confirmed by `Till!MatchRetailOrder`, with the same transition.

### BarTab

`Begin*` is a view's read and check of the tab, `Commit*` its commit, with the
round number read in between (`NumberRound`). `CommitSplit` creates any set of
shares of which Daraja refuses any part. The receiver is `Receive` (share and
tab read together), `MarkPaid`, `CheckUnpaid`, `SettleTab`, each a transaction
of its own, with `LoseReceiver` at any point. `Repush` is a push made by a
share's reference after a refusal, or after the one before was closed. A round
carries one item. `CommitBill` saves the status that was checked in memory, over
whatever the tab has become: `unsettled` counts how often it was settled.

### TableSession

The sessions of one table. `session` is the committed status, `order` and
`ticket` the two rows of a dine-in order, `doing[q]` what a request has read and
is about to commit: a job names the view, its rows and, where the view keeps it,
the status it checked. `Begin*` is the read and check, the action with the job's
name the commit (all fields of the row, as `save()` writes them), `Leave` a
refusal or an exception.

| Code | Actions |
|---|---|
| `TableSessionView`, assign a waiter, request the bill, close | `OpenSession`, `AssignWaiter`, `RequestBill`, `CloseSession` |
| dine-in orders, `KitchenTicket.transition_status` | `PlaceOrder`, `UpdateTicket` (the ticket and its order in one commit) |
| `Reservation` views | `Reserve`, `ConfirmBooking`, `Seat` (which opens a session), `NoShow` |
| pay the bill whole, split it | `PayBill`, `SplitBill` with any part of the pushes refused, `Payment` |
| receiver, `bill-share-` references | `Receive`, `MarkPaid`, `CheckUnpaid`, `AutoClose` with the session as it was read, `LoseReceiver` |

That a table has one open session is a constraint of the database
(`rst_tsess_one_open`), so `OpenSession` and `Seat` need a vacant table; the
constraint says nothing of a session that would be opened again, which is
`NeverReopened`. `late` relates orders to the
session that was no longer open when they were committed.

### PreOrder and Takeaway

`PreOrder`: `Create`, `Push`, `Payment`; `ReadToConvert` and `Convert` of a
waiter's request; `Receive` and `MarkPaid` of the receiver, which saves PAID over
whatever there is by then; `Expire` of the clock and the three queries of
`purge_expired_pending_orders` (`PurgeMark`, `PurgeRead`, `PurgeDelete` row by
row, `PurgeEnd`), between any of which the worker dies (`PurgeDies`). The PIN
that names a row is abstracted to the row. `kept` are the rows to which the
receiver wrote PAID while no purge had read them as expired; what it writes later
is deleted with the row.

`Takeaway`: `Place`, `Push`, `Payment`, `Receive`, and the task that names the
order, `CountOrders` then `SaveReference`; `LoseTask`.

### Contract

A work `j` is a quote request with its quote, job and invoice, related one to one
by the database. Clerks `Begin` an errand and `Finish` or `Abandon` it:
`ConfirmBooking`, `CreateQuote`, `AcceptQuote`, `RejectQuote`, `MoveJob`,
`CreateInvoice`. `BookSlot` and `AskQuote` are single steps (the first is under a
lock). The task of the PDF is `ReadInvoice` and `SaveInvoice`, which saves the
whole row as read; the receiver is `ReceiveInvoice` and `SettleJob`.

### Subscription and PlanLimit

`Subscription` counts days. The daily tasks read (`ReadSuspend`, `ReadExpire`,
`ReadErase`), an administrator reads (`ReadAdmin`), the receiver reads
(`ReadPaid`), and each saves a moment later (`SaveStatus`, `SavePaid`, `Erase`);
`writing` is what each has in hand. `StartTrial`, `AssignPlan`, `Renew`,
`Remind`, `Answered` and `Tomorrow` are single steps. All pushes share one
reference, so `push` is one row.

`PlanLimit` is about one limit per behaviour (`limited`): `CheckLimit` counts,
the inserts (`CreateProduct`, `ImportProducts`, `CheckoutOrder`, `TableOrder`)
come later or never (`GiveUp`). Restaurant orders are stopped by the limit and
not counted by it, as in the code.

### Loyalty and Analytics

`Loyalty`: a behaviour is about points, stamps or profiles. `Read`, `Save` and
`Append` are the queries of `earn`, `add_stamp` and `record_order`, `Reward` a
full card, `Repeat` an exception or death after any of them, `Redeem` the view,
which locks the account.

`Analytics`: `PopulateCurrentHour` counts the hour that has just begun, `SumUpDay`
and `SumUpHours` replace the rows of the day before, `FailRun` repeats or gives
up, `CheckFirst` and `RecordFirst` are the task of the first order.

### TaskQueue

`ready` counts the messages of a call by its number of retries, `child` is what a
process has taken and how far it has come. `Take`, `Succeed`, `Retry`, `Fail`
(with `Record`, the dead letter list and its cap, or Redis down) and
`Acknowledge` are a process; `WorkerDies` returns what was not acknowledged,
`ChildDies` does not, because the worker acknowledges for it.

### Till, Card and AccessToken

`Till`: `Register`; `PostC2B` any number of times; `RecordReceipt` (get or
create), one of the `Match*` actions, `Announce` (a receiver may raise, and the
task begins again); `RetryReceipt` after a query that failed, `DropReceipt` when
the worker dies. `ReverseReceipt` is a reversal that Daraja accepted. A receipt
that is posted again is "already processed" only while it is CONFIRMED: after a
reversal the execution goes on, matches and announces it once more (`resumed`).

`Card`: `InitiateCard`, `StripePosts` (external), `ReceiveEvent` and `SaveStatus`
of a webhook, `FailHook`. The webhook holds whether `completed_at` was set when
it read the row, and `SaveDate` writes that back unless it dates a success: a
webhook of an earlier event takes a committed date away.

`AccessToken`: the branches of `get_access_token` (`Ask`, `Acquire`,
`StoreToken`, `FetchFails`, `Poll`, `RedisFails`, `FetchDirectly`), `CallDaraja`,
`Die`, and the expiry of token and lock. Deleting the lock does not look whose
it is.

### Cart, Stock, Account and StoreAdmin

`Cart`: `Open` reads a key (or takes a failure for an empty cart), `Add` and
`Remove` write it back, `MergeRead`, `MergeWrite` and `MergeClear` are the login,
`CheckOut` leaves a snapshot, `Expire` is Redis.

`Stock`: `ReadVariant` and `SaveVariant` (an edit with or without a count, or a
soft delete, which a stale edit undoes), `ReadToSell` and `Sell`, which
decrements what is there; `CheckLowStock`, `SendAlert`. `due` is a history
variable.

`Account`: `CreateStaff`, `ReadStaff`, `PatchStaff`, `DeactivateStaff`;
`BeginSignIn` (the account is active) and `ObtainToken`, `GoogleCallback`;
`BeginRefresh`, `BeginBlacklist`, `Refresh`; `BeginLogout`, `BlacklistAll`.

`StoreAdmin`: `Provision`, `SendWelcome`, `UpdateStatus`; `OpenTable`, `SaveRow`
and `FailRow` of settings, theme and logo.

### The sums

The parts of `MCSale` (checkout and tab), those of `MCRestaurant` (the pushes of
`PaymentRefinement`, the table, pre-orders, takeaway) and those of `MCServices`
share no state. Their product would only be larger, so that a behaviour is one of
them: `part` says which, and the others stand still in their initial state. The
fairness of one part asks nothing of a behaviour of another, as no action it
names is enabled in an initial state.

## Runs

| Run | Instance | Shows |
|---|---|---|
| `payment` | 2 checkouts of one reference, 1 request, 1 reconciliation, 2 reversal tasks, 2 posts per result | `ConfirmedWasPaid`, `AnnouncedOnce`, `AnnouncedStaysPaid`, `ReversalWasDue`; `OpenPushSettles` |
| `payment_late` | 1 checkout, nothing is lost | a late payment is never confirmed (violation) |
| `payment_race` | 2 checkouts, 2 requests | a reference is pushed twice (violation) |
| `sale` | 4 carts, 2 variants, 2 at a time, coupon with one use, one retry; or a tab with 2 rounds, 2 requests, 2 shares | `OversellBound`, `CouponBound`, `AnnouncedIsConfirmed`, `ConfirmedHasCause`, `CheckoutEnds`; `SettledWasPaid`, `LateRounds`, `RoundsInSequence`, `UnsettledBound`, `PaidTabSettles` |
| `bar_failed_share` | 1 round, 1 request, 2 shares | a tab is settled with a failed share (violation) |
| `bar_unsettled` | 1 round, 2 requests, 1 share | a settled tab is taken back (violation) |
| `restaurant` | 3 checkouts, 2 requests, rate limit 1, no reconciliation; or a session, an order, a share, a reservation, 2 requests; 2 pre-orders, 2 requests, one death of the purge; 3 takeaway orders | `RateLimitOvershoot`, `PushOvershoot`, `ImplementsLedger`; `TicketMirrorsOrder`, `LateOrders`, `NeverReopened`; `ConvertBound`, `PaidIsKept` |
| `paid_purged` | 1 pre-order, 1 request | a pre-order that says PAID is deleted (violation) |
| `services` | the thirteen parts of `MCServices`, below | one property for each part but the store |
| `subscription_renewal` | a trial of a day, periods of a day, 3 days | a renewal is answered and nothing pushed (violation) |
| `till_missing` | 1 receipt, 2 tasks | a receipt is recorded and applied to nothing (violation) |
| `pickup_reference` | 2 takeaway orders | two orders have one pickup reference (violation) |

| Part of `services` | Instance | Shows |
|---|---|---|
| queue | 1 late and 1 early call, 2 processes, 2 retries, 2 deaths, a list of one | `NeverLost` |
| contract | 1 slot, 1 work, 2 clerks | `WorkWasDecided` |
| subscription | every delay a day, erasure after 2, 2 days | `ErasedWasCancelled` |
| loyalty | 3 orders, 2 stamps a card, 1 repetition, 2 points redeemed | `LedgerAddsUp` |
| limit | limit 2, 3 requests, files of 2 rows | `LimitBound` |
| till | 1 receipt, 4 executions | `ReceiptAnnouncedOnce` |
| analytics | 2 orders, days of 2 hours, 4 hours | `DaysAddUp` |
| cart | 1 variant, 2 requests, 2 items | `ItemsAddUp` |
| stock | counts to 2, 2 requests, threshold 1 | `StockAddsUp` |
| card | 1 intent, 2 webhooks, 3 events | `SuccessIsSeen` |
| account | 3 tokens, 2 requests | `SessionsBound` |
| store | 3 requests | its type only |
| token | 3 processes, 2 locks that expire too early | `OneFetcher` |

Why the bounds are enough. Interference in `Payment` is between writers of one
row, and between pushes of one reference: two checkouts and two posts give a
duplicate beside an original, one reconciliation overlaps each writer, two
reversal tasks overlap each other, and `MaxCalls` only stops new reversals once
one was accepted. In `restaurant` `RateLimit` is 1 so that the limit is met with
three checkouts; two requests overshoot it by one. In `sale` two carts lock in
opposite order, three want the one coupon use, and the demand for `a` is five
against a stock of two, so the bounds are reached and one request more than two
at a time would exceed them. On the tab two requests reach every pair of
overlapping views, two requests for the bill among them, and two shares every
pair of overlapping receivers; two rounds let a late round follow a regular one,
and two requests compute the same number. At the table two requests and a
receiver meet on one session, and its reservation is what may open it; that
sessions do not disturb each other is left to the theorems, which are about any
number. Each of two pre-orders can be read by two waiters, the receiver and the
purge at once; a third takeaway order lets two tasks overlap while another is
placed. Requests are interchangeable, and so are checkouts and pre-orders, which
the symmetry set uses; no temporal property of that run compares states further
apart than a step. In `services` every part has one actor more than a race needs
or one value more than the limit it meets: a limit of 2 is exceeded by 2 of 3
requests, a list of one drops its oldest entry, a card of 2 stamps is filled and
begun again by 3 orders, two locks may expire among 3 processes, and 4 hours
hold two days, one of which is over and summed up. The store is cancelled on day
0 at the earliest, so day 2 is the first one on which it may be erased. Receipts
of the till do not meet one another; four executions of one receipt can be two
that overlap and two more that come after its reversal. Every property has a
mutant of the modelled code that breaks it under the same bounds.

Some bounds say by how much a check that is not repeated under a lock can be
exceeded. That is the property: `LimitBound`, `ConvertBound`, `LateOrders`,
`OversellBound`, `CouponBound`, `LateRounds` and `UnsettledBound` are what the
code does guarantee, and the mutants break them by one. `LedgerAddsUp`,
`ItemsAddUp`, `StockAddsUp` and `SuccessIsSeen` except the meetings of two
writers that the code does not prevent, through history variables that record
that moment and no other; that these meetings lose data is listed under
`hazards`. `SuccessIsSeen` excepts a payment only while the event saved last is
an earlier one than the success; `ReceiptAnnouncedOnce` excepts the executions
that found the payment reversed.

CHECK_DEADLOCK is off: all these systems stop when every payment and request
there may be has been made.

### Fairness

* `Payment!FairSpec`: `ExpireStale` (beat, every two minutes; the project's
  production compose file runs beat), the passing of time, and that a prompt is
  answered or closed in the end. No webhook, task or reconciliation is assumed
  to arrive or finish.
* `Payment!ReliableSpec` (violation run only) assumes all that can be hoped for,
  so that the violation does not rest on a loss.
* `RetailOrder!Fairness`: a request that is not waiting for a lock goes on (the
  push has a timeout), and the database resolves deadlocks.
* `BarTab!Fairness`: a receiver that has started goes on or its worker dies.

The other runs check safety only: their tasks may be lost or given up at any
step, and nothing in the code promises that they are run again.

### What the violations mean

1. **Two pushes for one reference** (`payment_race`). `SELECT ... FOR UPDATE` locks
   nothing when there is no row, and no unique constraint backs it. Acceptance
   criterion 5 of story 2.2 promises one transaction per reference.
   `PushOvershoot` is what does hold: as many as there are concurrent requests,
   so that the criterion holds where there is one (`OneRequestPushesOnce`).
2. **A late payment is lost** (`payment_late`). The expiry leaves nothing for
   the reconciliation to find, and the callback ignores expired rows.
3. **A tab is settled with an unpaid share** (`bar_failed_share`). Only PENDING
   shares are looked for; FAILED ones are neither paid nor pending.
4. **A subscription cannot be renewed twice** (`subscription_renewal`). The
   reference is that of the store, and `initiate_payment` returns the confirmed
   row of the first renewal for ever; the view answers "STK Push sent".
5. **A receipt of the till is applied to nothing** (`till_missing`). The match of
   pre-orders, table orders and tabs imports names that `apps.restaurant.models`
   and `apps.bar.models` do not define, after the receipt was recorded; the retry
   takes it for processed.
6. **A settled tab is taken back** (`bar_unsettled`). Two requests for the bill
   read OPEN; one commits, the tab is split, paid and settled, and the other
   saves BILL_REQUESTED, which `transition` had checked in memory. `UnsettledBound`
   is what does hold: only such requests do it, fewer times than there are at
   once. `PaidTabSettles` does not speak of a tab that was taken back. The same
   happens to a closed table session: `NeverReopened` says that nothing but a
   stale request for its bill changes it.
7. **A paid pre-order is deleted** (`paid_purged`). The receiver reads a row as
   PENDING, the purge marks it EXPIRED and reads it, the receiver saves PAID, and
   the purge deletes the row as it was read. `PaidIsKept` is what does hold: PAID
   that is written before a purge has read the row is safe, though the row was
   marked.
8. **Two takeaway orders have one pickup reference** (`pickup_reference`). It is
   the number of takeaway orders there are when the task runs, not the place of
   the order among them.

## Proofs

The seven modules whose names end in `Proofs`, and `SumLemmas`, are checked by
tlapm for any sets of checkouts, references, requests, sessions, orders, calls,
receipts, variants, tokens and processes. They use the named assumptions
`BoundsAssumption`, `CheckoutAssumption`, `TabAssumption`,
`RestaurantAssumption`, `QueueAssumption` and `ServicesAssumption`, which TLC
also evaluates: the sets that are counted or added up are finite, bounds are
natural numbers, and there is an order, a request, a caller, a row in a file.
Four theorems state more themselves: `Reconcilers = {}`
(`PaymentImplementsLedger`, `PushesAreBounded`, `OneRequestPushesOnce`), because
a reconciliation confirms a row that had expired; finite checkouts and requests
(`RateLimitIsBounded`, `PushesAreBounded`) and one request
(`OneRequestPushesOnce`).

| Module | About |
|---|---|
| `PaymentProofs` | `Payment`, its bounds, its refinement of the ledger |
| `RetailOrderProofs` | `RetailOrder` |
| `BarTabProofs` | `BarTab`, and its sum with `RetailOrder` |
| `RestaurantProofs` | `TableSession`, `PreOrder`, `Takeaway`, their composition |
| `ContractProofs` | `Contract` |
| `StoreProofs` | `Subscription`, `PlanLimit`, `Loyalty`, `Stock`, `Card`, `Account`, `StoreAdmin` |
| `ServicesProofs` | `TaskQueue`, `AccessToken`, `Till`, `Cart`, `Analytics`, the composition of all services |
| `SumLemmas` | sums over finite sets |

* **Payment.** `TypeOK` is inductive by itself. The four safety properties are
  not. `IInv` adds what each later step relies on: a pushed checkout has no row
  yet and is held by one request (`PushedIsFresh`), so a commit cannot overwrite
  a settled row; a row has a push (`RowWasPrompted`); old rows, queued callbacks
  and snapshots are about prompts with a result, which no longer changes
  (`ResultIsKnown`, `SnapshotHasRow`), so a stale save writes what the callback
  wrote; and a reversal was accepted, of a paid row, before it is saved
  (`AcceptedWasCalled`, `ReversingWasPaid`). One proof step per action.
  `PaymentImplementsLedger` assumes `Reconcilers = {}` and maps each action to a
  ledger step or a stutter. The two bounds count rows and requests in flight
  together: a commit turns one request into one row (`AttemptsMove`), for which
  the row must be of the reference its request tried (`PushedIsTried`), and what
  a reconciliation saves must be older than what the rate limit counts
  (`SnapshotIsOld`). What remains is the request that passes the check, and it
  passes only where there is room.
* **RetailOrder.** `IInv` adds that an order exists only once its checkout has
  committed (`OrderIsCommitted`), that a push which is not absent has an order
  (`PushHasOrder`: they commit together, which is why the receiver finds it),
  that only paid pushes are told (`ToldWasPaid`), and that receivers at work were
  told. `CouponIsBounded` is an argument on cardinalities: the coupon's uses
  plus the requests in flight that carry it grow only in `Validate`, which
  requires a use left and a free worker. `OversellIsBounded` is the same on sums:
  a variant's `Slack` is the stock, less what requests in flight will take, plus
  what all workers but one can take at most. An update moves an amount from the
  sum to the stock, a refusal or a rollback gives it back, and `Validate` finds
  stock for its own demand.
* **BarTab.** `TabInv` has a part per property. `PaidInv`: a receiver is at work
  only on a share it was told of (`ReceiverWasTold`), and looks at the tab only
  after it has marked its share (`MarkedIsPaid`). `NumberInv`: a request holds at
  most the number after the last one taken (`NumberIsNext`), so a number that is
  free when it commits is the next. `SeenIsPast`: the tab never is open again, so
  what a receiver read is not contradicted. `LateInv`: there are no late rounds
  while the tab is open, and afterwards each takes away one of the requests that
  had a round in hand. `BillInv` is the same count of the requests for the
  bill: the first to commit is one of them.
* **TableSession** (`RestaurantProofs`). `OrderIsMirrored` rests on the two rows
  being written in one commit. `SessionsStayEnded` rests on every action: a
  session moves only from none to open and on to an ended status, because a
  receiver closes only a session that it has seen with its bill requested, and
  such a session has not been open since (`Past`); a share that was not created
  has no receiver (`Opened`). `LateOrdersAreBounded` is a count: while a session
  is open nothing of it is late, the commit that requests the bill is itself a
  request, which leaves one request less to have an order in hand, and every
  order committed afterwards takes away one of these (`LateInv`). That the order
  is counted once needs that late orders exist (`Placed`).
* **PreOrder, Takeaway.** A row is read for conversion while it is PENDING or
  PAID, so that the requests that convert it have read it before the first of
  them committed; the receiver's PAID, which may overwrite CONVERTED, happens
  once for a row (`PaidWasTold`). The bound is therefore that of `Most`, which
  doubles when the receiver is done. A row to which PAID was written while no
  purge had read it as expired is neither gone nor doomed: the purge expires
  PENDING rows only and deletes what it read as expired. Takeaway orders are
  only typed. The two and the table make steps of their own specifications
  (`RestaurantIsItsParts`).
* **TaskQueue.** A call waits, runs, or is settled, that is completed, killed or
  recorded. A message that was retried or has ended is of no more use: its call
  is accounted for elsewhere, so that acknowledging it, or returning it when
  the worker dies, changes nothing. That an entry leaves the dead letter list
  only when the list is full is the lemma `RecordKeeps`.
* **Contract.** `JobStays`: a job, once there, stays, and every errand, PDF,
  receiver and push that needs a job or invoice has it. The relations one to one
  refuse a second quote and a second job at the commit, and a rejection that is
  saved over an acceptance leaves a request that is closed and a job that remains.
* **Till.** An execution that has taken a receipt up and not yet announced it owes
  the announcement (`Owes`); it claims the receipt when it owes or has made the
  announcement and did not find the payment reversed (`Claims`). Only the one that
  creates the row comes to claim it: every other one ends, or is one of `resumed`.
* **AccessToken.** The processes that fetch without being the owner of the lock
  (`Stray`) are no more than the locks that expired under a fetch. A process
  that ends its fetch may delete the lock of another, who is a stray from then
  on; it was a stray itself, so that their number does not grow.
* **Subscription, PlanLimit** (`StoreProofs`, as the next five). That data are
  erased when it is due rests on the day of the cancellation being saved with
  the status: the task that is about to erase has seen both at once, and what
  others write in between does not matter. In `PlanInv` a request counts for the
  most rows it may insert from its check on, so that an insert moves what was
  counted before, and a check adds one request where the limit is not reached.
* **Loyalty.** A saved value that has no row yet is that of an order in `saved`;
  `OneTaskMoves` says that this set gains or loses one order in a step. A task
  that saves over another, or again, tears the ledger, and nothing else does.
* **Stock, Card.** What is due is kept by every step: a sale takes from the count
  that is there, an edit sets it or writes back what it has read. An event that a
  webhook holds is one that Stripe has posted, and a date it holds was of a success
  that had been saved (`HookHolds`); the list only grows, and a success is its last
  event, so that none is newer (`CardPlaces`).
* **Account, StoreAdmin.** A refresh takes one live token for the one that it
  issues; if it does not, another has taken it, which is a fork. Sign-ins and
  forks are no more than the tokens issued, which bounds the counters. Rows of
  settings and the requests about to create one are as many as requests at most.
* **Cart.** A request that finds on its key what it has read there changes the sum
  of the carts by what is expected of it (`OneWrites`); a merge between its two
  queries holds the guest's items twice, which `Doubled` adds on the other side.
  The sums are over variants and over requests.
* **Analytics.** The rows of a day that is over are those of orders that can no
  longer change (`AnaInv`): the run of the night counts the day that has ended,
  hours after the day, and an order is confirmed in the present hour only. The
  rows of the hours add up to the day because their sets of orders are disjoint
  (`HoursAddUp`).
* **Sums.** `SumFunctionOnSet` folds over a set in an order of its own, and the
  induction theorems of the library are out of the provers' reach. `SumLemmas`
  takes a smallest set for which a claim would be false instead (`SmallestSet`),
  and shows what the proofs above need: what one element adds, that the sum
  depends on the values only, and that it is bounded by the largest.
* **The composition.** A behaviour of `ServicesSpec` is one of each of its thirteen
  parts (`ServicesAreTheirParts`), so that the properties of its parts hold of it
  (`ServicesAreSafe`, `ServicesTypes`).

Model-checked only: liveness (`OpenPushSettles`, `CheckoutEnds`,
`PaidTabSettles`), which needs fairness and ENABLED, beyond the prover.

## Not modelled

* Notifications: effects outside the system, with one log row per attempt that
  nothing reads. Where a component publishes one, the message is left out.
* Tenancy, permissions, throttling: checks of one request. Every model is of one
  store, so isolation between stores is not examined.
* Menu, tables and floor; categories, images, QR codes; milestones and photos of
  a job; themes: one row and one query each.
* Prices and amounts, so that it is not examined whether shares add up to the
  bill. Nothing in the code relates the two either.
* Password reset and registration; reports, digests and exports, which read only;
  customer hub and ai; frontends and deployment.
* Numbers that no serializer checks: `order/views.py:68` takes a negative quantity
  for a cart and `loyalty/views.py:104` negative points; the models add and redeem
  positive ones.
* The filter of the summaries on active stores (`analytics/tasks.py:53,152`): a
  store that is not active is one whose run was given up.
* How long a token is valid at Daraja, and its 401; `reconcile_payment` and
  `send_low_stock_alert_for_order`, which nothing calls.

`PROJECT.json` lists under `hazards` what can go wrong in this code and the
properties about it. Four have none: a row that reconciliation confirms is told
to no one (`payment/tasks.py:228`); the queues of the purge and of the
restaurant's notifications have no worker in `docker-compose.yml`
(`restaurant/tasks.py:17`); a paid trial that ends is to become past due, which
the table of transitions does not allow, and the exception is swallowed
(`saas/tasks.py:238`); and the task that renders an invoice saves the whole row it
read, over a payment that came between (`contracting/tasks.py:99`). The models do
all of this but the second; no property of theirs claims otherwise.
Reading the code has shown more, which are of a kind with those listed:

* a cart may be checked out twice, since nothing clears it (`order/views.py:169`);
* a refused push leaves stock and coupon taken (`order/views.py:302`);
* a share whose push expires leaves its tab open until it is pushed again
  (`bar/apps.py:48`);
* the first order's event is skipped when two orders are confirmed before the
  task of either has run (`analytics/tasks.py:353`);
* `get_or_create` without a constraint leaves two rows of settings, of which
  every later request fails (`store/views.py:304`; the model of the store has
  it);
* a card payment has no idempotency, and no receiver hears of it;
* an edit of a coupon writes `times_used` back as it was read; sales never
  trigger the low stock alert; a suspended subscription does not suspend the
  store.
