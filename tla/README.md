# LINE Smart Queue Assistant: specifications and proofs

TLA+ modules that model the server of LINE Smart Queue Assistant, the TLC
configurations that check them, and proofs checked by TLAPS. Paths below are
relative to `apps/api/src/` unless they start with `db/` or `docs/`.

## The system

A branch of an organization runs named *queues*. A customer books (an order with
products) or joins (a ticket alone); staff call one ticket at a time to the
window, serve it, complete it, defer it when the customer is absent, or close it
as a no-show. The state is in PostgreSQL; several API processes and a BullMQ
worker share it.

| component | state | operations | what is hard | correct when |
|---|---|---|---|---|
| Queue service (`modules/queue`, `queue-entries`/`queues` repositories) | `queues`, `queue_entries` | join, cancel, skip, call next, serve, complete, defer, no-show, auto-call | half of the operations hold the queue row's lock, half do not; the auto-call reads twice | one ticket at the window; legal lifecycle; fair order; nobody waits for ever |
| Orders (`modules/orders`) | `orders`, `order_items` | create / extend, cancel, patch status | repeated bookings, capacity, status writes without a guard | one live order per customer; order agrees with ticket |
| Inventory (`modules/inventory`, `inventory-reservations` repository) | stock, reservations | reserve, consume, release, expire | expiry runs without the queue lock | every unit is on the shelf, reserved or consumed |
| Queue administration (`modules/queues`) | `queues` | create, update, delete | deletion races with arrivals | a deleted queue is empty |
| Counter reset (`jobs/counterReset.job.ts`) | daily counter | reset | midnight, bookings that straddle it | numbers unique per day |
| Skip penalties (`modules/skip-penalty`) | `penalty_records` | record, expire, lower the priority of a join | CHECK constraints on priority | a penalty delays, never excludes |
| Payments (`modules/payments`, `payment-transactions` repository) | `payment_transactions`, webhook events, operations, payment columns of `orders` and `order_items` | intent, provider event, return of the customer, counter payment, manual operation, reconcile, refund of a cancellation | events that are duplicated, late and overtaken; reads before locks; refunds from three sides | spent once, returned once, recorded for good |
| Notification outbox (`modules/notifications`, `jobs/notification*`, `infrastructure/bullmq`) | `notifications`, Redis jobs | enqueue, dispatch, deliver, retry, cancel | crashes between the push and its record, timeouts, two workers | one run delivers a row; only what LINE accepted is `sent`; every notice ends |
| Scheduler (`jobs/scheduler*.ts`, `jobRunner.ts`, `db/client.ts`, `server.ts`) | timers, advisory locks, `scheduler_job_runs`, the connection pool | run a job on an interval, with retries, under its lock; shut down | several processes; locks, runs and requests share one bounded pool; sessions that die | one run of a job at a time; only a failed unlock leaks a lock; cycles end |
| E-mail outbox (`modules/email`, `jobs/emailDelivery.job.ts`) | `email_outbox` | enqueue, claim, deliver, retry, cancel | several workers without a lock, outcomes written by id | every mail ends; the mail of a live link is sent or tried to the end |
| Applications, accounts, branches, staff (`modules/organization-applications`, `account-lifecycle`, `branches`, `users`, `admin`) | applications, organizations, branches, users, memberships, tokens | submit, review, invite, activate, reset, remove, delete, suspend | one account in four tables, seven transactions that write them | the tables agree; a branch keeps a manager |
| Authentication and sessions | `auth_sessions` | log in, rotate, revoke | | see `PROJECT.json` |
| ETA and forecasts, location, LINE, realtime, caches, media, web, deployment | | | | not decisive for the state above |

Interactions: every operation on a ticket also writes its order and its
reservation, asks payments for a refund, enqueues a notification row and calls
the next ticket, all in one database transaction; realtime events and cache
invalidations follow the commit; the scheduler drives expiry, counter reset and
delivery.

## The modules

| module | what it is |
|---|---|
| `WaitingLine` | pure operators: the order of the line and what a deferral does to it |
| `TicketQueue` | one queue with its tickets, their orders and reservations, the stock and the clock |
| `ServiceWindow` | abstract: a line, a window for one, the served, and those who left |
| `PositionalLine` | abstract: the line as a sequence of customers |
| `NotificationOutbox` | the LINE notices of one ticket: rows, Redis jobs, dispatchers, worker runs, LINE |
| `NoticeDelivery` | abstract: notices that are due, reached the customer, were sent, given up or withdrawn |
| `PaymentTransactions` | payments of a few orders: transactions, what they settle, the provider, bookings, staff |
| `JobLocks` | the scheduler: processes, advisory locks, the connection pool |
| `EmailOutbox` | the rows of `email_outbox` and the workers that empty it |
| `AccountActions` | applications, accounts and links; extends `EmailOutbox`, whose rows carry the links |
| `MCTicketQueue`, `MCNotificationOutbox`, `MCPaymentTransactions`, `MCAccountActions` | what TLC needs: symmetry, views, bounds |
| `Sums` | a sum over 1 .. n, used by `TicketQueue` and `PaymentTransactions` |
| `TicketQueueProofs`, `TicketRecordProofs`, `NotificationOutboxProofs`, `JobLockProofs`, `PaymentProofs`, `PaymentSpendProofs`, `AccountProofs` | the theorems |
| `SumProofs` | the lemmas about sums they rest on |

`TicketQueue` and `NotificationOutbox` do not interact but through the insert and
the cancellation of rows inside the ticket's transaction, which
`NotificationOutbox` models as `Enqueue` and `CloseTicket`; nothing in the queue
service reads a notification.

### TicketQueue and the code

`queue` is the row of `queues` (status, max_capacity, is_active, counter and its
date), `entries[t]` a row of `queue_entries` together with the status of its
order and of its reservation (a ticket has at most one order,
`queue_entries_one_entry_per_order`), `stock` the quantity of the one finite
product, `penalised` the customers with a recent penalty, `today` the business
date. A ticket that does not exist yet has status `absent`.

**Transactions.** The operations that take `SELECT ... FOR UPDATE` on the queue
row exclude each other. Such a transaction is three steps: its own writes
(`JoinQueue`, `BookNewOrder`, `CancelTicket`, ...), the auto-call's read of
`called` (`AutoCallFirstRead`), and its read of `serving` with the call
(`AutoCallNobody`, `AutoCallHead`). Between them, whatever does not need the
queue row may commit: `ServeTicket`, `SkipTicket`, `ExpireDue`, `PatchOrder`,
the reads of `BeginDefer`, midnight. PostgreSQL runs at READ COMMITTED, so the
transaction sees those commits in its next statement, and they see nothing of
its own; instead of keeping two versions of each row, the model keeps the set of
rows it has written (`tx.rows`, `tx.orders`), and whoever wants one of them
waits. Own writes are one step, because what they touch is either guarded (the
`WHERE status = ...` of the `mark...` statements) or protected by the queue row.

**Failures.** A guard of an action is the conjunction of the code's checks and
of the `WHERE` clauses whose empty result throws. A request that fails rolls
back and has no effect, so it is a stutter; so is the victim of a deadlock. A
process that dies in a transaction rolls it back: the same as not having started.

**Reads before the lock** are kept where they matter: `deferral[s]` holds what
`deferCalledTicket` read (ticket and absence count). The other operations re-read
or re-check everything under the lock or in a guarded statement.

**Midnight.** `NOW()` is the start of the transaction. `late` says that a booking
begun before midnight still waits for the lock; `BookingDate` lets one such
booking see the day before.

**Abstractions.** `paused`, `closed` and `archived` behave alike for every
operation, so the runs use one of them. A NULL capacity is one as large as the
number of tickets. `expireDue` claims a batch and commits once; the model expires
one order per step, which allows everything a batch may do and more. What the
operations write to `notifications`, `queue_histories`, `payment_transactions`
and the audit log is not read by any of them and is left out. One finite product
stands for all: reservations of different products are rows that do not meet.
Initially the queue is open and empty, as a manager leaves it after creating it.

### NotificationOutbox and the code

`rows[n]` is a row of `notifications` with the columns that a WHERE clause reads:
`status`, `dispatch_status`, `dispatch_job_id`, `attempt_count`,
`processing_job_id`, `manual_retry_count`, and of `last_error` whether its
category is retryable. `jobs[id]` is the delivery job of a row and of its n-th
manual retry in Redis; `dispatching[d]` the batch of a run of
`dispatchNotificationOutbox`; `delivering[r]` a run of
`processOutboxNotificationJob` with the row version its claim returned;
`accepted[n]` what LINE accepted.

**Steps.** PostgreSQL, Redis and LINE have no common transaction, so every
statement, every `queue.add` and every push is an action: `ClaimForDispatch`,
`AddJob`, `MarkDispatched`; `StartDelivery` (the job becomes active and its claim
finds the row), `Decline` (`canDeliver` is false), `PushFlex`, `PushText`, then
`MarkSent`, `MarkRetry` or `MarkFailed` with the end of the job.

**Faults** are actions of their own, switched on by `Fault` and counted by
`MaxFaults`: a dispatcher or worker that dies, a Redis that refuses a job
(`outage`) or adds it and loses the answer (`add`), a statement that fails, an
answer of LINE that is lost, a delivery that outlasts `withTimeout` and goes on
while its job is tried again (`awaited` becomes false). A worker may also die
between the outcome in the row and the end of its job (`Conclude`). Errors that LINE reports are no faults:
they may happen at every push.

**Time** is not modelled. A retry may run, and a claim's lease expire, at any
moment; this allows every order the clock allows and more.

**BullMQ and LINE** are external, modelled by what the code relies on: an id
Redis knows is no new job; a processor that throws is tried again up to
`attempts` times, not after an `UnrecoverableError`; a stalled job is run again
`maxStalledCount` times; LINE refuses a message with a retry key it has accepted.

**Abstractions.** The four switches of the preferences and the follow state are
one Boolean, which may change at any moment. `Scanned` are the notices that
`notificationScan.job.ts` enqueues outside the ticket's transaction, possibly
after it is closed. Rows whose message cannot be built, jobs that Redis evicts
(`removeOnComplete`, `removeOnFail`) and the delivery without BullMQ
(`runNotificationDelivery`) are left out.

### PaymentTransactions and the code

`payments[t]` is a row of `payment_transactions`: status, amount, refunded
amount, the products its metadata covers, its order, whether the provider's id is
stored, and `last_provider_event_at`. `orders` and `items` are the payment columns
of `orders` and `order_items`; the prepaid amount of an item is 0 or its price, so
its status says it. An item is a row of `order_items`; `ProductOf` says which items
are of one product, for `Settles` matches them by their product, as the UPDATE of
`reconcileTransactionInClient` does. `reports[t]` is what the provider has to say of a payment, in
the order in which it happened, `handled[t]` which of it is in
`payment_webhook_events`, `keys` the idempotency keys of
`payment_reconciliation_operations`.

**Steps.** A transaction that locks what it decides on is one action:
`DeliverEvent` (`applyProviderEvent` locks the payment), `ManualBalance`,
`ManualPaid`, `ManualRefund` (`manualReconcileOrder` locks the order),
`CancelOrder`, `Place`. What is read without a lock and used later is two, and
anything may come in between: `BeginBooking` and `PlacePaid`, `ReadBalance`,
`InsertCounter` and `FinishCounter`, `PollProvider` and `PollWrite`,
`RereadPayment` and `ReconcileReread`. A request may also end in between
(`AbandonCounter`, `PollFails`, `RereadFails`).

**The provider** is external. payOS reports the end of a payment once; the demo
provider follows a payment from `pending` and authorization to refunds, and may
report a failed or cancelled one paid. A report may be handled
late, after later ones, or never; the copy of a handled one changes nothing. It is
stamped with its place in the order, or with the time of its arrival if the
provider sends no time.

**Circumstances.** Seven things that the code does not guard against break a promise
below. Each is switched on by a member of `Circumstance`; the passing run has none
of them, and everything else that the code allows. TLC finds each violation when
the circumstance is added:

| circumstance | what happens | breaks |
|---|---|---|
| `again` | an order is extended with a product that it has (`modules/orders/orders.service.ts:398`; `orders.merge.test.ts` does): a later report, or a reconcile, of the payment for the first row settles the second too, by its product (`modules/payments/payments.service.ts:900-907`), and a cancellation then returns one payment for two paid rows | `SpentOnce`, `CancelledIsRefunded` |
| `change` | an order is extended after its QR code was made: the code's payment settles everything in the order; or it is refunded or cancelled while the code can still be paid | `SpentOnce`, `CancelledIsRefunded` |
| `repay` | an order is paid again after a refund recorded on its items or its payments: the items keep the old refund, a manual payment may have the amount 0, a counter payment that staff returned in full and settled again may be reported later | `SpentOnce`, `CancelledIsRefunded` |
| `uncollected` | staff set the latest payment of an order to paid or refunded although it was never made | `PaidIsCollected`, `SpentOnce`, `CancelledIsRefunded` |
| `resend` | a manual payment is sent again under its key after more was ordered: the copy leaves a `paid` row that settles nothing | `PaidIsCollected` |
| `unstamped` | the provider sends no time, so an early report that arrives late counts as the latest | `CollectedIsRecorded`, `RefundNeverShrinks` |
| `stale` | an answer to a returning customer, or a reconcile, works from a status read before a refund | `SpentOnce`, `CancelledIsRefunded` |

`again` needs items of one product: `ProductOf <- Same` in the cfg. TLC then finds
`SpentOnce` broken in five steps: an order for a product, paid by hand; the
customer books the product again; the first payment is reread and reconciled.

**Abstractions.** An item is one unit of a product; currencies, methods, payloads
and the provider's names are left out. `closed` orders are those that nothing pays
for any more: completed, or cancelled by `expireDue`, which refunds nothing.

### JobLocks and the code

`cycle[p][j]` is the cycle of job j that process p has in `JobRunner.running`: how
far it is, which attempt, whether the attempt has failed and whether its
connection is broken. `holder[j]` is the session that holds the advisory lock,
`runs[j]` the row of `scheduler_job_runs`, `requests[p]` the connections that HTTP
requests use. The connections of a process are counted, not named: a cycle has one
from `Connect` to `Unlock` and its run another.

Every `await` of `withAdvisoryJobLock` is a step of its own. Faults are a process
that dies, a connection that breaks and a query that fails. A session that ended
keeps its locks (`Gone`) until PostgreSQL notices (`Reap`). The unlock may fail like
any other query, and its error is swallowed (`UnlockFails`): the session goes back to
the pool with the lock (`stray`), a request or another job uses it, and until it ends
(`StrayEnds`: the pool closes idle sessions after `idleTimeoutMillis`, or it breaks)
no other process gets the lock, and this one only if the pool hands it that very
session, on which the lock is then counted twice. The shutdown is
`Stop` (timers), `ClosePool` (when the last request is answered) and `Exit`
(when the pool is empty). Waiting for a connection ends by `TimesOut` only while
the pool is used up or closing; what the jobs do is any run that ends.

### EmailOutbox, AccountActions and the code

`email[e]` is a row of `email_outbox` with its status, attempts and whether it
still has its encrypted token; `mailed` says that the mail server took it.
`worker[w]` is one run of `runEmailDelivery`: the batch it claimed, and the row
between `adapter.send` and the note of the outcome, which is written by id.
A row may be claimed again when it has been `processing` for too long: always if
its worker is gone, and as a counted fault (`Overruns`) if it is only slow.

`AccountActions` extends it: the rows are the mails of its tokens and notices, and
each of its transactions writes the outbox with the operators `Enqueued`,
`CancelledActions`, `CancelledWithBranch`. `account`, `member`, `assigned`,
`branch` and `organization` are the tables in which one account lives, `token` the
links. Every action is a transaction of the code; they lock the rows they decide
on, so two on the same account come one after the other, except that the
invitations of managers (`InviteManager`) and of staff (`CreateStaff`) read their
branch without a lock. A deletion of the branch they meet at the foreign key of what
they insert; a suspension they do not. The circumstance `late` is a request of the
owner or of a manager that was authenticated, or had read its branch, before the
organization was suspended and is carried out after: it breaks `AccountsAgree`.

### The abstract specifications

`ServiceWindow` says what the queue promises however it does it: tickets wait in
a line, one at a time is at the window, it may be sent back before it is served
but never while, one being served can only finish, and one that was served or
left never returns. `TicketQueue!ImplementsWindow` maps `waiting` tickets to the
line, the `called` or `serving` one to the window, and keeps the served apart
from the cancelled and absent.

`PositionalLine` says what the renumbering by tens, the gap of five and the
numbers are *for*: a sequence where arrivals go last, the first is called and a
deferred ticket is put back a fixed number of places. The mapping, `LineOf`, puts a
waiting ticket at the place that `getWaitingPosition` shows its customer: one more
than the number of those ahead of it. The refinement holds within one day and without customers' skips, which is
what the run is configured for; across days see the findings below.

`NoticeDelivery` says what the outbox promises of each notice: it is asked for
once, a message of it goes out only while it is due, it is reported sent only
after LINE accepted a message, and once sent or withdrawn it stays so. It says
nothing of how many messages go out: the code cannot promise one, see the
findings. `ImplementsDelivery` maps the statuses `pending` and `processing` to
due.

## What the runs check

The runs of the queue bound the tickets (`LastTicket`) and the days (`LastDay`).
A bounded queue stops when its tickets are used up and closed, payments when all
is paid and returned, accounts when the organization is suspended: deadlock is not
checked there.

| run | bounds | properties |
|---|---|---|
| `MCWindow` | 3 tickets, one customer and guests, joins, bookings, skips, expiry | `TypeOK`, `StockConserved`, `AtMostOneAtCounter`, `DeletedQueueIsEmpty`, `TicketMatchesOrderOrExpired`, `OneLiveOrderPerCustomer`, `TicketLifecycle`, `ImplementsWindow` |
| `MCLine` | 4 tickets of one day, deferral by 2, 2 staff requests, capacities 2 and 4, open and paused, patched orders | `NoIdleWindow`, `AbsencesOverrunLittle`, `CapacityRespected`, `FirstComeFirstServed`, `DeferralIsExact`, `ImplementsLine` |
| `MCProgress` | 3 tickets, 2 days, bookings that straddle midnight | `TicketMatchesOrder`, `NextNumberIsFree`, `EveryTicketEnds` |
| `MCOutbox` | a notice and the one that closes the ticket, 1 dispatcher, 2 worker runs, 2 attempts, a manual retry, 2 faults of any kind but timeouts, `VIEW View` | `TypeOK`, `OneDeliveryPerRow`, `ImplementsDelivery` |
| `MCOutboxEnds` | 2 dispatchers, 1 worker run, 2 attempts, 1 fault: a dispatcher dies or an answer is lost | `Recoverable`, `EveryNoticeEnds` |
| `MCOutboxOverrun` | 2 worker runs, 3 attempts, 2 faults: timeouts, lost answers | `AttemptsMadeOnce`, `SentWasAccepted` |
| `MCPayments` | 2 orders, 2 payments, 2 items of different products that cost 2 and 1, 2 bookings, one counter request, one key, 2 reports per payment, 2 requests under way, constraint `Bound` | `TypeOK`, `PaidIsCollected`, `CollectedIsRecorded`, `SpentOnce`, `CancelledIsRefunded`, `RefundNeverShrinks` |
| `MCJobs` | 2 processes, 2 jobs, 2 connections each, 1 retry, 1 request, 1 fault of any kind, one process that is stopped, 2 cycles at once | `TypeOK`, `OneRunPerJob`, `RunIsVisible`, `LockHasCycle`, `EveryCycleEnds` |
| `MCAccounts` | an owner, 2 managers, 1 staff, 1 branch, 2 resets, 2 workers, 2 attempts, 1 fault; two of the mails are delivered | `TypeOK`, `BranchKeepsManager`, `AccountsAgree`, `LinkIsMailedOrGivenUp`, `EveryEmailEnds` |

Why these bounds are enough. One ticket at the window, one waiting and one that
arrives or expires are all the roles the window properties mention: three
tickets. A deferral by two must be able to land in the middle of the line, at
its end, and behind a ticket that was itself deferred: three waiting tickets and
the deferred one. Two days show every relation between the counter's date,
today, and a booking's date. A stale read of the absence count takes two requests,
one that waits with what it has read and one that defers meanwhile: `MCLine` and
`MCAbsences` have both, and the theorem any number. `MaxAbsence` 2 makes the last
absence reachable after one deferral; `MCAbsences` uses 3, the default.

For the outbox, two notices show a row that is cancelled while another is
inserted; two worker runs are the two that could deliver the same row; two
attempts are one that is retried and one that is the last, and three let two
overlapping runs be followed by a third; one manual retry gives a row two jobs in
Redis; two faults are one and another during the recovery from it. Timeouts have
a run of their own because with them `OneDeliveryPerRow` and `ImplementsDelivery`
do not hold (below). The theorems lift these bounds.

For payments, two bookings are those that present one payment, two payments those
that meet in one order, an item of price 2 one that is refunded in part, two
products an order of which only a part is refunded or paid; two reports are one
and another that overtakes it. All of it together is too much, so `Bound` has two
halves: one product with up to three reports, or one order with two products, one
report on each payment and one request under way. For the scheduler, two
processes compete for a lock, and two jobs that hold both connections of a process
are the whole pool waiting for itself; the second process is a third user of the
lock after a death. For accounts, two managers are the last one and the other;
the second reset is the one that revokes the first; an invitation and a reset
are the two kinds of link the workers deliver (`Delivered`, the other mails wait,
and everything that may be done to them is).

`VIEW` identifies states that no action and no property of the run tells apart. In
`MCWindow` and `MCLine` they differ in the owner, priority or absences of closed
tickets, in `MCLine` also in the status of orders: nobody extends an order there and
nothing expires, which are the operations that ask for it. In `MCOutbox` they differ
in the columns of a settled row (final, not open to a manual retry, delivered by no
run), of which only the status and whether LINE accepted a message are still read,
and in how an ended job ended. `SYMMETRY` permutes what is interchangeable, in runs
without liveness.

### Findings

Three runs check a statement of the documents that the code does not keep, and TLC
shows a behaviour for each (`PROJECT.json` quotes the lines):

- `MCPaidUncovered`: an order with an unpaid item is rightly `unpaid`; a partial
  refund of another item makes it `paid`;
- `MCAbsences`: a ticket stays in the line although it has been absent as often as
  the limit allows. Two requests to defer it have read the same count; one defers it
  at once, the other has the lock only when the ticket was called again, and decides
  with the count of before. Each further request in flight gives it one absence more
  (`AbsencesOverrunLittle`);
- `MCExpiryServed`: goods are served whose stock went back to the shelf; without
  expiry they never are (`ServedGoodsLeaveStock`).

The passing runs that check the same property switch the cause off by a constant
(`ReservationsExpire`, `StaffPatchOrders`, `Fault`, `Circumstance`). More were met while modelling and have no run of their
own; where a constant is named, the property fails when it is set so. In the queue:

- a booking that straddles midnight takes its date from the start of its
  transaction, sets the counter back, and the next booking fails on a number that
  is taken (why `NextNumberIsFree` says nothing once a row is out of turn: `InTurn`);
- a penalised customer cannot join at all, because the priority -3 meets
  `CHECK (priority >= 0)`;
- a skip from priority 0 changes nothing but the penalty record;
- a reservation that expires while its ticket is called leaves the window idle
  (why `NoIdleWindow` is checked without expiry);
- a join and a booking give one customer two tickets;
- PATCH of a closed ticket's order reopens the order (why `TicketMatchesOrder` is
  checked without patches);
- `listWaiting` does not order by business date, so yesterday's ticket 2 is called
  after today's ticket 1;
- the ticket table of `docs/project/03_DOMAIN_AND_FLOWS.md` still defers to the
  tail of the line, where the code puts the ticket a few places back.

In the outbox:

- `docs/project/11_SCALABILITY_BASELINE.md:88` says that "Redis outages leave rows
  undispatched and recoverable". So they do while Redis refuses jobs and one dispatcher
  at a time has the row (`NoticesRecoverable`), but not always: (1) `queue.add` reports
  a failure although Redis has the job (`Fault` with `add`); the job runs before the
  next sweep, finds its row not dispatched and ends as done, and from then on its id
  makes every dispatch of the row vain; (2) of two dispatchers
  that hold the row (one is slow and its lease has expired) one is refused and puts
  the row back for which the other has added the job, which then finds it not
  dispatched (`outage` with a second `Dispatcher`);
- the answer to an accepted Flex message is lost, and the text message goes out
  too, under another retry key (`docs/project/08_DEPLOYMENT_AND_OPERATIONS.md:723`
  says the outbox prevents duplicate sends);
- a worker that dies in the last attempt leaves the row `processing` with no
  attempt left: its job's claim finds nothing, the sweep looks at `pending` rows
  only and operators at `failed` ones (why `MCOutboxEnds` has no dying workers; `MCOutbox` has
  them);
- a delivery that outlasts its job writes its result over whatever came after:
  `sent` may become `pending` or `failed`, `cancelled` may become `sent`;
- after a lost answer, LINE's refusal of the repeated retry key (409) is not
  retryable, and marks a notice failed that the customer has;
- a dispatcher that was slow between its claim and `markDispatched` may write the
  old job's id over the one of a manual retry.

In payments, besides the seven circumstances:

- a process that dies between the insertion of a counter payment and the
  provider's answer leaves a pending row that every later request is shown, without
  a checkout URL: the order cannot be paid by QR any more;
- a refund event that overtakes its paid event is ignored for good;
- a provider's refund report after a refund by staff may lower the recorded refund
  (why `RefundNeverShrinks` excepts a later report);
- `expireDue` cancels a paid order and refunds nothing;
- a payment that is made after its order was cancelled stays with the order;
- `getReturnStatus` writes without a lock what `docs/project/03_DOMAIN_AND_FLOWS.md:157`
  reserves to the newest event;
- `reconcile` counts unpaid items that a booking is just inserting under READ
  COMMITTED.

In the scheduler:

- "In-flight cycles are not interrupted" (`jobs/scheduler.ts:171`): `process.exit`
  follows as soon as the pool is empty, so a cycle that sleeps before a retry, or
  that is between two connections, is;
- `docs/project/08_DEPLOYMENT_AND_OPERATIONS.md:573` says that the delivery of
  e-mails uses advisory locks; it is scheduled without one;
- a run that outlives the connection of its lock may overlap with the next one (why
  `Runs` excepts it), and no query has a time limit;
- an unlock that fails is swallowed (`jobs/scheduler-lock.ts:63`), and its job runs in
  no other process until the pool closes the session, which it does when the session
  was idle for long, not while it is in use;
- a death leaves `running` in `scheduler_job_runs` until the next run;
- when the success of a run cannot be noted, the whole run is repeated.

In accounts and e-mails:

- outcomes are written by id: a cancelled row may return to `pending`, go out with
  a dead link, and a row that was sent may end as `failed` after an overrun;
- a worker that dies in each attempt is not counted out: `attempt_count` passes
  `max_attempts`, and a mail whose notes keep failing goes out again;
- a mail that is given up is final: nothing sends it again, and its link, which works
  until it expires, reaches nobody unless a new one is asked for;
- the mail of a revoked link is still sent;
- staff who are removed before they have activated keep a live link, which then
  answers that the account has already been activated;
- an invitation that expires cannot be repeated, since the address is taken, and
  the branch may be left with a manager who can never come;
- sessions are revoked after the commit of a removal or a reset.

### Fairness

`FairSpec` assumes that a transaction that has begun its auto-call finishes it
(WF on `AutoCall`, straight-line code that waits for nothing), and staff who keep
working: weak fairness of taking a called ticket
to the window, because that request waits for one row that nobody holds for
ever; strong fairness of completing a ticket and of pressing `call next`, because
those wait for the queue row, which other transactions keep taking, and
PostgreSQL grants a row lock to its waiters in turn. Nobody is obliged to cancel,
defer or book. That a deferred ticket cannot be deferred for ever follows from
its absence count.

The outbox's `FairSpec` assumes that a row that may be dispatched again and again
is claimed (SF: the sweep repeats every `workerIntervalMs`, oldest rows first,
and claims are skipped only while another sweep holds them), that a waiting job
is run (SF: BullMQ hands jobs out in order; runs that are busy become free), and
that a dispatcher or a delivery that is running goes on (WF: straight-line code
with timeouts on its requests). Neither LINE nor the customer is obliged to
anything: that retries end follows from the attempt count.

The scheduler's `FairSpec` assumes that a cycle that can go on does (WF: its
queries are answered, its timers fire, and a wait for a connection is bounded by
`connectionTimeoutMillis`). Nothing else: timers need not fire, requests need not end,
the pool need not close a session that has a stray lock nor PostgreSQL notice the end
of one, and no process need stop, die or come back.

`AccountActions!FairSpec` assumes that a worker goes on (WF: the timer of the job
keeps firing, and a mail server answers or times out). Nobody has to apply, invite
or follow a link; that a row cannot be tried for ever follows from its attempts and
from the bound on faults.

## What is proved

`TicketQueueProofs` and `TicketRecordProofs` prove, for every number of tickets and
days, every set of customers and staff, every capacity and quantity, from
`QueueAssumption` and the settings that the table names;
`NotificationOutboxProofs`, for every set of notices, dispatchers and worker runs,
every number of attempts, manual retries and faults, from `OutboxAssumption`; `JobLockProofs`, for every set of processes and every finite
set of jobs, every pool, number of retries, requests and faults, from
`JobAssumption`; `PaymentProofs` and `PaymentSpendProofs`, for any orders, payments, products,
prices, staff and number of reports, from `PaymentAssumption` and, where the table says so,
without some of the circumstances; `AccountProofs`, for any branches, managers, staff,
tokens, workers, attempts and faults, from `AccountAssumption` and `EmailAssumption`:

| theorem | statement |
|---|---|
| `TypeCorrect` | `Spec => []TypeOK` |
| `WindowExclusive` | `Spec => []AtMostOneAtCounter` |
| `LifecycleKept` | `Spec => TicketLifecycle` |
| `RefinesWindow` | `Spec => ImplementsWindow` |
| `DeletedQueueStaysEmpty` | `Spec => []DeletedQueueIsEmpty` |
| `CapacityKept` | `Spec => CapacityRespected` |
| `StockIsConserved` | `Spec => []StockConserved` |
| `TicketsMatchOrdersOrExpired` | without `StaffPatchOrders`, `Spec => []TicketMatchesOrderOrExpired` |
| `TicketsMatchOrders` | without `StaffPatchOrders` and `ReservationsExpire`, `Spec => []TicketMatchesOrder` |
| `OneLiveOrder` | without `StaffPatchOrders` or without `ReservationsExpire`, `Spec => []OneLiveOrderPerCustomer` |
| `AbsencesAreLimited` | for a finite `Staff` that is not empty, `Spec => []AbsencesOverrunLittle`, and with one member `Spec => []AbsencesBelowLimit` |
| `WindowIsNotIdle` | without `ReservationsExpire`, `Spec => []NoIdleWindow` |
| `NextNumberStaysFree` | `Spec => []NextNumberIsFree` |
| `ServedInOrder` | without `AllowSkip` and `LateBookings`, `Spec => FirstComeFirstServed` |
| `DeferralsAreExact` | `Spec => DeferralIsExact` |
| `LineRefined` | without `AllowSkip` and `LateBookings` and with `LastDay = 0`, `Spec => ImplementsLine` |
| `ServedGoodsLeaveStock` | without `ReservationsExpire`, `Spec => []ServedGoodsConsumed` |
| `OutboxTypeCorrect` | `Spec => []TypeOK` |
| `OneDelivery` | if `"timeout" \notin Fault`, `Spec => []OneDeliveryPerRow` |
| `DeliveryRefined` | if `"timeout" \notin Fault`, `Spec => ImplementsDelivery` |
| `SentIsEarned` | `Spec => []SentWasAccepted`, also under timeouts |
| `AttemptsCounted` | if `MaxManual = 0`, `Spec => []AttemptsMadeOnce`, also under timeouts |
| `NoticesRecoverable` | under `MildFaults` (below), `Spec => []Recoverable` |
| `JobLockProofs!Types` | `Spec => []TypeOK` |
| `NoLockLeaks` | `Spec => []LockHasCycle` |
| `MutualExclusion` | `Spec => []OneRunPerJob` |
| `RunsAreVisible` | `Spec => []RunIsVisible` |
| `PaymentTypes` | `Spec => []TypeOK` |
| `PaidPaymentsWereCollected` | without `uncollected` and `resend`, `Spec => []PaidIsCollected` |
| `CollectedPaymentsStayOnRecord` | if `"unstamped" \notin Circumstance`, `Spec => []CollectedIsRecorded` |
| `RefundsStay` | if `"unstamped" \notin Circumstance`, `Spec => RefundNeverShrinks` |
| `PaymentsSpentOnce` | without `again`, `change`, `repay`, `uncollected` and `stale`, `Spec => []SpentOnce` |
| `CancelledOrdersAreRefunded` | without the same five, `Spec => CancelledIsRefunded` |
| `AccountsTyped` | `AccountActions`: `Spec => []TypeOK` |
| `BranchesKeepManagers` | `Spec => []BranchKeepsManager` |
| `AccountTablesAgree` | if `Circumstance = {}`, `Spec => []AccountsAgree` |
| `LinksAreMailedOrGivenUp` | `Spec => []LinkIsMailedOrGivenUp`, in every circumstance |

*Types.* `TypeOK` is inductive. The steps that need an argument are the deferral
(`TargetPriorityType`: the target priority is never negative; `DeferralRows`: a
renumbering keeps rows well typed), the floor of a skip, and a returned
reservation, whose quantity is a natural number.

*The window.* `AtMostOneAtCounter` alone is not inductive: in the phase between
the two reads nothing in it says that the first read found nobody called. The
inductive invariant is

    WindowInv == AtMostOneAtCounter /\ (tx.phase = 2 => NobodyCalled)

In phase 2 nobody is called, since calling is the privilege of the lock holder
and serving only removes a called ticket; so if the second read finds nobody in
service, nobody is at the window and the call is safe. Read in the other order
the argument breaks, and the mutant `AutoCallReads_Swapped` shows that the
invariant does too.

*One shape for all steps.* `NextShape` reduces the actions to three shapes:
`Quiet` (no ticket changes status), `Moved` (one ticket moves along the
lifecycle, and not to the window) and `Called` (the auto-call). The invariant,
the lifecycle and the refinement are proved from the shapes.

*What each step does to the rows.* `TicketRecordProofs` starts from `StepKinds`: a
step writes no ticket (`Rests`), or it is of one of ten kinds (`Arrives`,
`Extends`, `Leaves`, ..., each with the row it is about and what it leaves alone).
The properties of the rows are proved from the kinds, so that no proof but this one
looks at the actions.

- *Deletion and capacity.* `ActiveSteps`: a ticket becomes active only by arriving,
  under the lock of a queue that is not deleted and has room.
- *Orders.* With expiry a ticket at the window may lose its order but one in the
  line or called may not (`Matches`). A second live order would have to be booked
  while there is one, or come back by a patch; a patch brings back only what an
  expiry took (`OrderInv`), hence "without one or the other".
- *Absences.* The count that decides is read before the lock. `Pending(t)` are the
  requests under way that have read a count of t with which they would defer it: each
  of them can take t over the limit once. `AbsenceInv`: the absences of an active
  ticket and its pending requests together stay below `MaxAbsence + Cardinality(Staff) - 1`.
  A request that begins has read the count as it is, so it is pending only for a
  ticket that is below the limit; one that defers is pending no more.
- *The window.* A transaction that empties it cannot end without having looked at
  both statuses and at the line.
- *Numbers.* `TurnInv`: as long as the rows are in turn (`InTurn`), the counter is not
  behind the tickets of its date, and its date not behind any ticket's. The next number
  is then above all of today's, or 1 on a day without tickets. A booking that began
  before midnight is harmless while no row of the new day is there; once there is one,
  it puts a row behind it that is out of turn. `NumbersInv` is the same without
  `LateBookings`, where no row ever is.
- *Order of service.* `LineInv`: whoever has been called came before all of the day
  who have not, and these stand in the order in which they came. A deferral keeps
  the second part since it renumbers the line without changing its order
  (`DeferralOrder`, from `RowNumbers`), and the first since it puts back a ticket
  that had been called. So the head is either fresh and the first of those, or was
  called before (`HeadCameFirst`).
- *Deferral.* The rows waiting afterwards are those of before, renumbered in their
  order, and the deferred one between them. Whoever is ahead of it is exactly the
  part of the line that was given a smaller number, whose size is the number of
  slots or the whole line; two others keep their order (`DeferralOrder`).
- *The line as a sequence.* Within a day no two tickets have a number in common
  (`NumbersInv`), so nothing ties and the positions are a bijection from the line to
  0 .. n - 1: every place has one ticket (`LinePlaces`), which is what `LineOf`
  chooses. When one ticket comes to stand at position k and the others keep their
  order, those from k on move by one and nobody else does (`InsertMoves`); read
  backwards, the same says what happens when one leaves. So each kind of step comes
  down to a position: an arrival has everybody ahead of it, since its priority
  is 0 and its number the largest; the called ticket had nobody; a deferred one has
  `DeferralSlots` ahead of it or all; and who leaves leaves its own place. A skip
  lowers a priority without moving a ticket to a given place, and a second day hands
  out numbers again, hence the assumptions.
- *Stock.* `StockStep`: what a step takes off the shelf goes to one row, and the other
  way round; no other row changes its units. `SumChanged` turns that into the sum,
  and `HoldInv` (a row without a reservation has no units) starts it.
- *Goods.* An active ticket's reservation can only be open, since all that closes it
  but expiry also closes the ticket; so the completion finds it open (`GoodsInv`).

*The outbox's types.* `TypeOK` is not inductive: that `attempts` and `tries` stay
within their bounds needs that a live job has a try left, and that needs that the
job of a run BullMQ waits for is active and has no second such run. `JobInv` says
so, and `OutboxInv` adds it to the types; it holds under timeouts too.

*One delivery.* Without timeouts every busy run is one BullMQ waits for, and
holds its row:

    Held == /\ a busy run is awaited, its row is `processing' for its job,
               and accepted if the run is about to report a success
            /\ a ticket that is not closed has no terminal notice

(the formula is in the module). Two runs on a row would have the same job id in
`processing_job_id`, hence the same job, and `JobInv` excludes that. `Held` is
kept because whatever else writes a row requires `pending` or `failed`; the
second part is needed because `CloseTicket` writes a row without looking. The
mutant `Obsolete_Claimed`, which cancels rows under delivery, breaks it.

*The refinement.* `SettlesRefines` maps a step that moves one row from a status
to another, `AcceptRefines` an accepted push; every action is one of these, or
changes no status, or is `CloseTicket`. `Held` supplies that a pushed notice is
due and that a confirmed one was accepted.

*What rows report.* `Earned` adds to `SentWasAccepted` that the row of every run
about to execute `markSent` was accepted: `markSent` itself looks only at the
row's id, and what LINE accepted is never taken back. `Counted` adds to
`AttemptsMadeOnce` that no busy run carries an attempt larger than the count of
its row: `claimForDelivery` counts before it returns, so a new run's attempt is
larger than that of every run still under way. The count falls only where
`retryFailed` starts a row anew, hence the assumption, and a row that ends
without having been enqueued is one of a closed ticket.

*A way forward.* `Recoverable` looks at one row and one job, its proof at all that
can still write them. `WayInv` says of the row of a notice: while `pending` it has
an attempt left, and its job of the present generation is either not in Redis yet,
and a dispatcher will add it or the sweep claim the row again (`Fresh`, `Coming`),
or waits there with no more tries used up than the row has attempts (`InOrder`);
while `processing` a run has it, whose attempt is the row's (`Runs`); once `failed`
its job has ended, so a manual retry meets no old one. No dispatcher holds a job it
has failed to add (`Adds`). `AloneInv` says what one dispatcher at a time adds to it
where Redis may refuse jobs: what it has still to add, or was refused, is not in
Redis; a row that has been claimed is with it; and what it holds is the row's present
job, unless an operator has set the row back to be dispatched anew. So
`markDispatchRetry`, which looks only at the row's id and statuses, meets the claim it
was meant for.

`MildFaults` are the two settings under which this is inductive, each with any number
of lost answers of LINE: dispatchers, any number side by side, that die anywhere,
without manual retries; or a Redis that refuses jobs, any number of times and with any
number of manual retries, and one dispatcher at a time. Everything else breaks it:

- `add`, `database`: a job is in Redis although the row does not say so; it ends
  before the row is dispatched, and its id makes every later dispatch vain;
- `outage` with a second dispatcher: the refused one resets a row for which the other
  has added the job meanwhile, and the job finds a row that is not dispatched;
- `worker`: a death in the last attempt leaves the row `processing` for ever;
- `timeout`: a delivery nobody waits for writes over the row;
- `dispatcher` together with manual retries: one dispatcher adds the job and is
  slow, the job fails, an operator retries the row, a second dispatcher claims it
  for the new job, then the first executes `markDispatched` with the old job's id,
  which looks only at the row's id and dispatch status, and the second dies. The row
  is dispatched for a job that is done; nothing claims it again.

*The scheduler.* Three invariants in one:

    JobInv == TypeOK /\ LockInv /\ RunIsVisible

`LockInv` says that a cycle between lock and unlock on a connection that is whole
has its process as the holder of the lock, and that a holder has such a cycle or a
stray lock; `OneRunPerJob` and `LockHasCycle` follow at once. Both directions are
needed: from right to left an unlock is sure to find its lock, and from left to right
no other process can take a lock whose run is under way. A death, a broken connection
and an exit break both sides together (`Gone`), and a stray lock that is taken again
by its own process ends with its session only. `RunIsVisible` needs `LockInv`: the row
of a job is written only by the process that holds its lock, or by one whose
connection was whole when it wrote.

*Payments: the types.* `TypeOK` says that no payment returns more than it
brought. The refund of an order sums prices over a recursive function, `Sum`, whose
value at n rests on the one at n - 1; `SumProofs` builds that function (`TotalExists`,
by the least counterexample: `UpTo`), and `CostType` follows. `PayInv` adds that a row which is not inserted is blank.

*Payments: where a `paid` comes from.* A status `paid` or `refunded` may be copied
from a report, or from what a returning customer's request was told before it
writes. `MadeInv` therefore says of all three (rows, reports, `poll`) that the
payment was made. Without `uncollected` staff settle only payments that were made, and
without `resend` the copy of a manual payment inserts nothing.

*Payments: what stays on record.* The row keeps only the stamp of the newest report,
and a report older than it is ignored. Why can an ignored report not have been the
payment? Because

    KeptInv == ReportsInv /\ RecordInv /\ PollInv /\ CounterInv

`ReportsInv`: after a report of a payment only refunds follow. `RecordInv`: the
stamp on the row is that of a report that was handled, and the row is at least as
far as that report was. So when an older report is ignored that says `paid`, the
newer one was already a payment or a refund, and so is the row. `PollInv` and
`CounterInv` say what the two kinds of request that write without the lock may
hold: an answer of payOS, which reports a payment only once, and a row that no
report knows of. Both need stamps in the provider's order: with `unstamped` the
second part of `RecordInv` falls, and TLC shows it.

*Payments: the kinds of steps.* `StepKinds` splits the steps into `Quiet` ones,
which neither touch a report nor take a payment for unpaid nor lower a refund, and
eight others; the three invariants and the action property are proved from these
kinds.

*Payments: spent once, returned once.* Neither property is inductive. `SpendInv` is:

- `RowsInv`, `ToldInv`, `HeldInv`: a row is refunded only after it was paid, and is
  `refunded` exactly when all of it was; payOS reports the end of a payment and no
  refunds; requests under way know nothing that a refund has overtaken;
- `ItemsInv`: an item names a payment of its order that covers its product, while the
  item is paid so is the payment, and no order has two items of one product (without
  `again`), so that what covers the products pays for the items;
- `KeysInv`: a key of a refund belongs to a payment of a cancelled order;
- `BalanceInv`: what a counter payment claims costs no more than its amount.

The last is the heart. A payment by QR or by staff covers a list of products that
is fixed with its amount. A counter payment covers whatever is unpaid when its
report arrives, possibly long after the balance was read. `Claim(t)` is what it may
settle then, and while it may still settle it only shrinks: no booking extends an
order whose code the customer may have and nothing is refunded while the code can
be paid (without `change`); an item that an earlier payment has paid stays paid,
since of that nothing is returned (`Unreturned`); and items that later payments have
paid are in the claim anyway. `Unreturned` starts true because a balance is read
only of an order of which nothing was returned (without `repay`), and stays true
because staff refund only the latest payment of an order, and payOS reports no
refunds.

`SpendKinds` lists the steps and `Effect` says what they do to items and money: the
items stay (`Apart`), are settled or returned as one payment says (`Turn`), or their
order is cancelled or placed; each part of `SpendInv` is proved from these.
A cancellation returns what is `Refundable`: paid,
not fully refunded, no key used. `RowsInv` and `KeysInv` say that every paid payment
of a live order is that, and `ItemsInv` in the next state that no item of it can
then be paid. `resend` and `unstamped` need no exclusion here, although they break
other promises: a copy of a manual payment settles nothing, and a report out of
order settles no more than was covered.

*Accounts.* That a branch keeps a manager needs only `Unborn`, that a user that does
not exist is assigned nowhere: an invitation then takes nobody from another branch,
and the one removal that counts, `RemoveManager`, leaves another manager. The four
tables agree by `AgreeInv`, which adds to `AccountsAgree` what the next step needs:
the memberships of the invited, that an organization is active as soon as anybody
but the owner is invited, and that the owner, who comes and goes with it, is
assigned to no branch and so survives the deletion of any. A request that was
authenticated before the suspension breaks it, hence `Circumstance = {}`.

*Links.* `LinkInv` says of every live link what `LinkIsMailedOrGivenUp` says, and that
a token that does not exist has no mail, which is why a new link's mail is inserted
and not swallowed by ON CONFLICT. `MailInv` says of the workers that a row they hold
exists and that one reported accepted is mailed: only then `markSent` may clear the
link, whatever has become of the row since (`JobKeepsLinks`). A row ends as `failed`
only with the attempt its worker has seen, and never with fewer than `MaxAttempts`.
Mails are cancelled only with the token (`CancelMails`).

*Attempts.* That `attempt` stays within `MaxAttempts + MaxFaults` is not inductive,
since the outcome is written by id with the attempt the worker had seen. `Budget`
counts, for each mail, the workers that hold it: one is free, any further one costs
a fault (an overrun, a death, a note that failed), and `attempt` plus the holders
that would put the row back leaves room for each of them.

## What is only model-checked

Liveness (`EveryTicketEnds`, `EveryNoticeEnds`, `EveryCycleEnds`,
`EveryEmailEnds`), which the prover cannot treat; the theorems above without the
settings they exclude, where the runs that include them say how far the property
holds. Every other property of the passing runs is a theorem.

## What is not modelled

`PROJECT.json` lists every component with the reason. Of the operations inside
the modelled components: notifications, queue history and audit rows; payment
checks and refunds of bookings and cancellations; locations and order items;
branch opening hours; queue creation, catalog and staff assignment;
`branches` deleting a whole branch; read models. `mark_skipped`,
`resetDailyCounter` and `onNoShow` exist in the code and are never called.

Sessions and refresh tokens are authentication, which no modelled operation reads;
the estimates of waiting times, forecasts, location alerts and read-model caches
decide nothing that is modelled; the web application shows what the server keeps
and repeats requests, which the idempotency keys and duplicate events above stand
for. These are most of the lines of the repository.

## Open ends

1. An abstract line for several days and for customers' skips, which `PositionalLine`
   does not describe.
2. `PaymentTransactions` and `TicketQueue` composed: one order with its ticket, its
   stock and its money.
3. Rotation of refresh tokens; the caches of the read path.
