------------------------- MODULE PaymentTransactions -------------------------
(* The payments of a few orders: the transactions, the orders and items that  *)
(* show what was paid, the provider that reports, and the requests of staff   *)
(* and customers that are under way.                                          *)
(*                                                                            *)
(* A database transaction that locks what it reads (a provider event locks    *)
(* the payment, a manual operation and a cancellation lock the order) is one  *)
(* step.  What is read without a lock and used later is two: a booking's look *)
(* at its payment, the balance of a counter payment, the provider's answer to *)
(* a returning customer, the row the reconcile endpoint works from.           *)
(*                                                                            *)
(* The provider is external: it reports what happened to a payment, in order, *)
(* but its reports arrive late, again, in any order, or never.                *)
(*                                                                            *)
(* A definition X_Bug (Bug a word for it) is X with a plausible bug in it,    *)
(* used nowhere.                                                              *)
EXTENDS Sums, Sequences, FiniteSets

CONSTANTS
    Order,          \* orders that customers may place
    LastPayment,    \* BOUND: rows of payment_transactions, numbered as created
    LastItem,       \* BOUND: rows of order_items of an order, numbered 1..LastItem
    ProductOf,      \* the product of an item, named by the first item of it
    Price,          \* what an item costs
    Booking,        \* bookings that may be under way together
    Staff,          \* staff requests for a counter payment under way together
    Key,            \* BOUND: Idempotency-Keys of manual operations
    MaxReports,     \* BOUND: reports of the provider on one payment
    MaxUnderway,    \* BOUND: requests between a read and what follows it
    Circumstance    \* the circumstances below that may happen

(* Each of these breaks a promise; README.md says which one and how.          *)
(* "again":       an order is extended with a product that it has.            *)
(* "change":      an order is extended after a counter payment was begun, or  *)
(*                refunded or cancelled while it is open.                     *)
(* "repay":       an order is paid again after a refund.                      *)
(* "uncollected": staff settle an order whose latest payment was never made.  *)
(* "resend":      a manual operation arrives again when it is no longer done. *)
(* "unstamped":   the provider does not say when something happened.          *)
(* "stale":       a status read before a refund is written or used after it.  *)
CircumstanceKind ==
    {"again", "change", "repay", "uncollected", "resend", "unstamped", "stale"}

Payment == 1 .. LastPayment
Item    == 1 .. LastItem
Product == {ProductOf[p] : p \in Item}
NoOrder == "none"
NoPayment == 0

ASSUME PaymentAssumption ==
    /\ LastPayment \in Nat /\ LastItem \in Nat
    /\ MaxReports \in Nat \ {0} /\ MaxUnderway \in Nat
    /\ ProductOf \in [Item -> Item]
    /\ \A p \in Item : ProductOf[ProductOf[p]] = ProductOf[p]
    /\ Price \in [Item -> Nat \ {0}]
    /\ NoOrder \notin Order
    /\ Key \cap Payment = {}
    /\ Circumstance \subseteq CircumstanceKind

VARIABLES
    mode,       \* PAYMENT_MODE
    payments,   \* the rows of payment_transactions
    orders,     \* the rows of orders
    items,      \* the rows of order_items
    reports,    \* per payment: what the provider has reported
    handled,    \* per payment: the reports in payment_webhook_events
    keys,       \* the keys of payment_reconciliation_operations
    bookings,   \* per booking with a payment: the payment it has read
    counter,    \* per staff request: how far its counter payment is
    poll,       \* a return-status request that has asked the provider
    rereading   \* a reconcile request that has read its payment

underway == <<bookings, counter, poll, rereading>>
vars == <<mode, payments, orders, items, reports, handled, keys, underway>>

PaymentStatus == {"pending", "authorized", "paid", "failed", "cancelled", "refunded"}

PaymentRow == [status : PaymentStatus \cup {"absent"},
               kind : {"cart", "counter", "manual"},
               amount : Nat, refunded : Nat,
               covers : SUBSET Product,        \* metadata.coveredProductIds
               order : Order \cup {NoOrder},    \* order_id
               intent : BOOLEAN,                \* payment_intent_id is stored
               eventAt : Nat]                   \* last_provider_event_at; 0: NULL
AbsentPayment == [status |-> "absent", kind |-> "cart", amount |-> 0,
                  refunded |-> 0, covers |-> {}, order |-> NoOrder,
                  intent |-> FALSE, eventAt |-> 0]

(* prepaid_amount is 0 for an unpaid item and the price for any other.        *)
ItemRow    == [status : {"absent", "unpaid", "paid", "refunded"},
               refunded : Nat, by : Payment \cup {NoPayment}]
AbsentItem == [status |-> "absent", refunded |-> 0, by |-> NoPayment]

(* "closed": completed, or cancelled by expireDue.                            *)
OrderRow == [status : {"absent", "live", "closed", "cancelled"},
             pay : {"unpaid", "paid", "refunded"}]

Report == [status : PaymentStatus, refunded : Nat]

NoCounter == [at |-> "idle"]
Counter   == [at : {"read"}, order : Order, amount : Nat, products : SUBSET Product]
             \cup [at : {"created"}, payment : Payment]
NoPoll    == <<>>
Poll      == [payment : Payment, status : PaymentStatus]
NoRow     == <<>>
Reread    == [payment : Payment, status : PaymentStatus, refunded : Nat]

(* The types, and the CHECK payment_transactions_refunded_amount_valid: no     *)
(* sequence of manual refunds, reports and cancellations returns more of a    *)
(* payment than it brought in (an UPDATE that tried would fail).              *)
TypeOK ==
    /\ mode \in {"demo", "external"}
    /\ payments \in [Payment -> PaymentRow]
    /\ \A t \in Payment : payments[t].refunded <= payments[t].amount
    /\ orders \in [Order -> OrderRow]
    /\ items \in [Order -> [Item -> ItemRow]]
    /\ reports \in [Payment -> Seq(Report)]
    /\ handled \in [Payment -> SUBSET (1 .. MaxReports)]
    /\ keys \subseteq Key \cup Payment
    /\ bookings \in [Booking -> Payment \cup {NoPayment}]
    /\ counter \in [Staff -> Counter \cup {NoCounter}]
    /\ poll \in Poll \cup {NoPoll}
    /\ rereading \in Reread \cup {NoRow}

Init ==
    /\ mode \in {"demo", "external"}
    /\ payments = [t \in Payment |-> AbsentPayment]
    /\ orders = [o \in Order |-> [status |-> "absent", pay |-> "unpaid"]]
    /\ items = [o \in Order |-> [p \in Item |-> AbsentItem]]
    /\ reports = [t \in Payment |-> <<>>]
    /\ handled = [t \in Payment |-> {}]
    /\ keys = {}
    /\ bookings = [b \in Booking |-> NoPayment]
    /\ counter = [s \in Staff |-> NoCounter]
    /\ poll = NoPoll
    /\ rereading = NoRow

Underway == Cardinality({b \in Booking : bookings[b] # NoPayment})
            + Cardinality({s \in Staff : counter[s] # NoCounter})
            + (IF poll = NoPoll THEN 0 ELSE 1)
            + (IF rereading = NoRow THEN 0 ELSE 1)
MayBegin == Underway < MaxUnderway

-----------------------------------------------------------------------------
(* Amounts.                                                                   *)

Sum(v) == SumTo(LastItem, v)

Cost(some) == Sum([p \in Item |-> IF p \in some THEN Price[p] ELSE 0])

AtMost(n, m) == IF n <= m THEN n ELSE m

-----------------------------------------------------------------------------
(* reconcileTransactionInClient: what a version `row' of payment t makes of   *)
(* the items and of the payment status of its order.                          *)

ProductsOf(some) == {ProductOf[p] : p \in some}
Booked(list) == {p \in Item : list[p].status # "absent"}
Collected(list) == {p \in Item : list[p].status \in {"paid", "refunded"}}
PaidBy(t, list) == {p \in Item : list[p].by = t}

(* A counter payment settles whatever is in the order by now.                 *)
Settles(row, list) ==
    IF row.status # "paid" THEN {}
    ELSE IF row.kind = "counter" THEN Booked(list)
    ELSE {p \in Booked(list) : ProductOf[p] \in row.covers}

Settled(list, t, row) ==
    [p \in Item |->
       IF p \notin Settles(row, list) THEN list[p]
       ELSE [list[p] EXCEPT !.status = "paid",
                            !.by = IF row.kind = "counter" /\ list[p].status = "paid"
                                   THEN @ ELSE t]]

(* A refund is dealt out over the items of the payment in their order.        *)
Share(list, t, refunded, p) ==
    LET before == Cost({q \in PaidBy(t, list) : q < p})
    IN  IF refunded <= before THEN 0 ELSE AtMost(refunded - before, Price[p])

Refunded(list, t, row) ==
    [p \in Item |->
       IF list[p].by # t \/ row.refunded = 0 THEN list[p]
       ELSE [list[p] EXCEPT
               !.refunded = Share(list, t, row.refunded, p),
               !.status = IF Share(list, t, row.refunded, p) >= Price[p]
                          THEN "refunded" ELSE "paid"]]

Reconciled(list, t, row) == Refunded(Settled(list, t, row), t, row)

AllPaid(list) == \A p \in Booked(list) : list[p].status = "paid"

(* prepaid exceeds refunded in total exactly if it does for some item.        *)
OrderPay(list, pay, row) ==
    IF row.refunded > 0
    THEN IF \E p \in Collected(list) : list[p].refunded < Price[p] THEN "paid"
         ELSE IF \E p \in Item : list[p].refunded > 0 THEN "refunded"
         ELSE "unpaid"
    ELSE IF row.status = "paid"
    THEN IF AllPaid(list) THEN "paid" ELSE "unpaid"
    ELSE pay

Reconcile(t, row) ==
    IF row.order = NoOrder THEN UNCHANGED <<orders, items>>
    ELSE LET o    == row.order
             list == Reconciled(items[o], t, row)
         IN  /\ items' = [items EXCEPT ![o] = list]
             /\ orders' = [orders EXCEPT ![o].pay = OrderPay(list, @, row)]

-----------------------------------------------------------------------------
(* The provider.                                                              *)

(* What it may report next.  payOS reports the end of a payment link, once.   *)
(* The demo provider's reports follow the life of a payment; the customer's   *)
(* return (completeDemoPayment) is one of them.                               *)
MayFollow(t, report) ==
    LET n    == Len(reports[t])
        last == IF n = 0 THEN [status |-> "pending", refunded |-> 0] ELSE reports[t][n]
    IN  /\ mode = "external" => n = 0 /\ report.status \in {"paid", "failed", "cancelled"}
        /\ report.status = "refunded" <=> report.refunded > last.refunded
        /\ \/ /\ last.status \in {"pending", "authorized"} /\ report.refunded = 0
              /\ report.status = "pending" => last.status = "pending"
           \/ last.status \in {"failed", "cancelled"} /\ report.status = "paid"
           \/ last.status = "paid" /\ report.status \in {"paid", "refunded"}
           \/ last.status = "refunded" /\ report.status = "refunded"

ProviderReports(t, report) ==
    /\ payments[t].intent /\ Len(reports[t]) < MaxReports
    /\ MayFollow(t, report) /\ report.refunded <= payments[t].amount
    /\ reports' = [reports EXCEPT ![t] = Append(@, report)]
    /\ UNCHANGED <<mode, payments, orders, items, handled, keys, underway>>

Transitions_FailedIsFinal == [
    pending    |-> {"pending", "authorized", "paid", "failed", "cancelled"},
    authorized |-> {"authorized", "paid", "failed", "cancelled"},
    paid       |-> {"paid", "refunded"},
    failed     |-> {"failed"},
    cancelled  |-> {"cancelled", "paid"},
    refunded   |-> {"refunded"}]
Transitions == [
    pending    |-> {"pending", "authorized", "paid", "failed", "cancelled"},
    authorized |-> {"authorized", "paid", "failed", "cancelled"},
    paid       |-> {"paid", "refunded"},
    failed     |-> {"failed", "paid"},
    cancelled  |-> {"cancelled", "paid"},
    refunded   |-> {"refunded"}]

(* The k-th report is stamped 2k; without a stamp, the time of its arrival    *)
(* stands in, which is later than all there is.                               *)
Stamps(t, k) ==
    {2 * k} \cup (IF "unstamped" \in Circumstance THEN {2 * Len(reports[t]) + 1} ELSE {})

CanApply(row, report, at) ==
    /\ report.status \in Transitions[row.status]
    /\ at >= row.eventAt

Applied_AnyReportIsPartial(row, report, at) ==
    LET refunded == IF report.status = "refunded"
                    THEN AtMost(row.amount, report.refunded) ELSE row.refunded
    IN  [row EXCEPT !.refunded = refunded, !.eventAt = at,
                    !.status = IF refunded < row.amount THEN "paid" ELSE report.status]
Applied(row, report, at) ==
    LET refunded == IF report.status = "refunded"
                    THEN AtMost(row.amount, report.refunded) ELSE row.refunded
    IN  [row EXCEPT !.refunded = refunded, !.eventAt = at,
                    !.status = IF report.status = "refunded" /\ refunded < row.amount
                               THEN "paid" ELSE report.status]

(* handleWebhook and applyProviderEvent: a report arrives.  One that was      *)
(* handled before changes nothing; one that regresses, or that something      *)
(* later has overtaken, is only noted.                                        *)
Deliverable(t, k) == k \notin handled[t]
DeliverEvent(t, k) ==
    /\ k \in 1 .. Len(reports[t]) /\ Deliverable(t, k)
    /\ handled' = [handled EXCEPT ![t] = @ \cup {k}]
    /\ \E at \in Stamps(t, k) :
         IF CanApply(payments[t], reports[t][k], at)
         THEN LET row == Applied(payments[t], reports[t][k], at)
              IN  /\ payments' = [payments EXCEPT ![t] = row]
                  /\ Reconcile(t, row)
         ELSE UNCHANGED <<payments, orders, items>>
    /\ UNCHANGED <<mode, reports, keys, underway>>

(* getReturnStatus: the row is read, the provider asked (the demo provider    *)
(* always says pending), and what it said written over the row.               *)
PollProvider(t) ==
    /\ mode = "external" /\ payments[t].intent /\ poll = NoPoll /\ MayBegin
    /\ reports[t] # <<>>
    /\ LET status == reports[t][Len(reports[t])].status
       IN  /\ status # payments[t].status
           /\ poll' = [payment |-> t, status |-> status]
    /\ UNCHANGED <<mode, payments, orders, items, reports, handled, keys,
                   bookings, counter, rereading>>

PollWrite ==
    /\ poll # NoPoll
    /\ payments[poll.payment].refunded > 0 => "stale" \in Circumstance
    /\ payments' = [payments EXCEPT ![poll.payment].status = poll.status]
    /\ poll' = NoPoll
    /\ UNCHANGED <<mode, orders, items, reports, handled, keys,
                   bookings, counter, rereading>>

(* The request fails, or its process dies, before it writes.                  *)
PollFails ==
    /\ poll # NoPoll /\ poll' = NoPoll
    /\ UNCHANGED <<mode, payments, orders, items, reports, handled, keys,
                   bookings, counter, rereading>>

-----------------------------------------------------------------------------
(* Customers.                                                                 *)

Absent(t) == payments[t].status = "absent"
Fresh(t)  == Absent(t) /\ \A u \in Payment : u < t => ~ Absent(u)

(* createIntent: a payment for the products of a cart, before there is an     *)
(* order.  If the provider refuses, it is failed and unknown to the provider. *)
CreateIntent(t, products, accepted) ==
    /\ Fresh(t) /\ products # {}
    /\ payments' = [payments EXCEPT ![t] =
                      [AbsentPayment EXCEPT
                         !.status = IF accepted THEN "pending" ELSE "failed",
                         !.amount = Cost(products), !.covers = products,
                         !.intent = accepted]]
    /\ UNCHANGED <<mode, orders, items, reports, handled, keys, underway>>

Unused(t) == payments[t].order = NoOrder /\ payments[t].status = "paid"
Covers(t) == IF t = NoPayment THEN {} ELSE payments[t].covers

(* ordersService.create with a payment, before its transaction: the payment   *)
(* is looked at without a lock.                                               *)
BeginBooking(b, t) ==
    /\ bookings[b] = NoPayment /\ Unused(t) /\ MayBegin
    /\ bookings' = [bookings EXCEPT ![b] = t]
    /\ UNCHANGED <<mode, payments, orders, items, reports, handled, keys,
                   counter, poll, rereading>>

PendingOf(o) == {t \in Payment : /\ payments[t].order = o
                                 /\ payments[t].status \in {"pending", "authorized"}}

(* The counter payments of an order that the customer may have been shown,    *)
(* and whether one may still be paid.                                         *)
BegunCounter(o) ==
    \/ \E s \in Staff : counter[s].at = "read" /\ counter[s].order = o
    \/ \E t \in Payment : /\ payments[t].kind = "counter" /\ payments[t].order = o
                          /\ payments[t].status # "failed"
OpenCounter(o) ==
    \/ \E s \in Staff : counter[s].at = "read" /\ counter[s].order = o
    \/ \E t \in Payment : /\ payments[t].kind = "counter" /\ t \in PendingOf(o)
                          /\ \A k \in 1 .. Len(reports[t]) : reports[t][k].status = "paid"
MayExtend(o) == BegunCounter(o) => "change" \in Circumstance
MayRefund(o) == OpenCounter(o) => "change" \in Circumstance
Returned(o) ==
    \/ \E p \in Item : items[o][p].refunded > 0
    \/ \E t \in Payment : payments[t].order = o /\ payments[t].refunded > 0
MayPay(o)    == Returned(o) => "repay" \in Circumstance

(* The transaction of a booking: an order is placed or the customer's live    *)
(* one extended with `new' items, a row each whatever the order has, those    *)
(* being paid whose product payment t covers; and the payment status is       *)
(* refreshed.  A cart has a product once (CreateOrderSchema), and one that a  *)
(* payment covers for what it was paid for.                                   *)
MayOrder(list, p) == ProductOf[p] # p => /\ "again" \in Circumstance
                                         /\ ProductOf[p] \in Booked(list)
NewItem(t, p) == IF ProductOf[p] \in Covers(t)
                 THEN [status |-> "paid", refunded |-> 0, by |-> t]
                 ELSE [status |-> "unpaid", refunded |-> 0, by |-> NoPayment]
Place(o, t, new) ==
    /\ orders[o].status \in {"absent", "live"} /\ MayExtend(o)
    /\ new # {} /\ new \cap Booked(items[o]) = {}
    /\ \A p \in new : /\ MayOrder(items[o], p)
                      /\ ProductOf[p] \in Covers(t) => Price[p] = Price[ProductOf[p]]
                      /\ \A q \in new : ProductOf[p] = ProductOf[q] => p = q
    /\ LET list == [p \in Item |-> IF p \in new THEN NewItem(t, p) ELSE items[o][p]]
       IN  /\ items' = [items EXCEPT ![o] = list]
           /\ orders' = [orders EXCEPT ![o] =
                           [status |-> "live",
                            pay |-> IF AllPaid(list) THEN "paid" ELSE "unpaid"]]

PlaceUnpaid(o, new) ==
    /\ Place(o, NoPayment, new)
    /\ UNCHANGED <<mode, payments, reports, handled, keys, underway>>

(* With a payment: it is locked, looked at again and attached.                *)
Recheck_Trusted(b) == TRUE
Recheck(b) == Unused(bookings[b])
PlacePaid(b, o, new) ==
    /\ bookings[b] # NoPayment /\ Recheck(b)
    /\ Place(o, bookings[b], new)
    /\ payments' = [payments EXCEPT ![bookings[b]].order = o]
    /\ bookings' = [bookings EXCEPT ![b] = NoPayment]
    /\ UNCHANGED <<mode, reports, handled, keys, counter, poll, rereading>>

(* The booking is refused, for its payment or anything else.                  *)
RefuseBooking(b) ==
    /\ bookings[b] # NoPayment
    /\ bookings' = [bookings EXCEPT ![b] = NoPayment]
    /\ UNCHANGED <<mode, payments, orders, items, reports, handled, keys,
                   counter, poll, rereading>>

(* refundOrderOnCancellationInClient: every payment of the order that is paid *)
(* and not refunded in full.                                                  *)
Refundable_LatestOnly(o) ==
    {t \in Payment : /\ payments[t].order = o /\ payments[t].status = "paid"
                     /\ payments[t].refunded < payments[t].amount /\ t \notin keys
                     /\ \A u \in Payment : u > t => payments[u].order # o}
Refundable(o) == {t \in Payment : /\ payments[t].order = o
                                  /\ payments[t].status = "paid"
                                  /\ payments[t].refunded < payments[t].amount
                                  /\ t \notin keys}
FullyRefunded(t) ==
    [payments[t] EXCEPT !.status = "refunded", !.refunded = payments[t].amount]

(* cancelByOrderId, cancelTicket, a last absence, a skip: the payments are    *)
(* refunded, then the order is cancelled.  The status of the order was looked *)
(* at before the lock, so a second cancellation may follow.  Payments have    *)
(* different items, so that reconciling them one by one is one step.          *)
RefundsCancelled(o) ==
    [t \in Payment |-> IF t \in Refundable(o) THEN FullyRefunded(t) ELSE payments[t]]
CancelOrder(o) ==
    /\ orders[o].status \in {"live", "cancelled"} /\ MayRefund(o)
    /\ payments' = RefundsCancelled(o)
    /\ LET list == [p \in Item |->
                      IF items[o][p].by \in Refundable(o)
                      THEN Refunded(items[o], items[o][p].by,
                                    FullyRefunded(items[o][p].by))[p]
                      ELSE items[o][p]]
       IN  /\ items' = [items EXCEPT ![o] = list]
           /\ orders' = [orders EXCEPT ![o] =
                [status |-> "cancelled",
                 pay |-> IF Refundable(o) = {} THEN @.pay
                         ELSE OrderPay(list, @.pay,
                                       FullyRefunded(CHOOSE t \in Refundable(o) : TRUE))]]
    /\ keys' = keys \cup Refundable(o)
    /\ UNCHANGED <<mode, reports, handled, underway>>

(* expireDue cancels an order and leaves its payments as they are; a ticket's *)
(* completion completes its order.                                            *)
CloseOrder(o) ==
    /\ orders[o].status = "live"
    /\ orders' = [orders EXCEPT ![o].status = "closed"]
    /\ UNCHANGED <<mode, payments, items, reports, handled, keys, underway>>

-----------------------------------------------------------------------------
(* Staff.                                                                     *)

(* createCounterPayment: the order and its pending payments are read; if      *)
(* there is one, it is shown again and nothing changes.                       *)
Outstanding(o) ==
    Sum([p \in Item |-> IF items[o][p].status = "unpaid" THEN Price[p]
                           ELSE items[o][p].refunded])
ReadBalance(s, o) ==
    /\ mode = "external" /\ counter[s] = NoCounter /\ MayBegin
    /\ orders[o].status = "live" /\ PendingOf(o) = {}
    /\ Outstanding(o) > 0 /\ MayPay(o)
    /\ counter' = [counter EXCEPT ![s] = [at |-> "read", order |-> o,
                                          amount |-> Outstanding(o),
                                          products |-> ProductsOf(Booked(items[o]))]]
    /\ UNCHANGED <<mode, payments, orders, items, reports, handled, keys,
                   bookings, poll, rereading>>

(* The payment is inserted and attached, whatever has become of the order.    *)
InsertCounter(s, t) ==
    /\ counter[s].at = "read" /\ Fresh(t)
    /\ payments' = [payments EXCEPT ![t] =
                      [AbsentPayment EXCEPT
                         !.status = "pending", !.kind = "counter",
                         !.amount = counter[s].amount,
                         !.covers = counter[s].products,
                         !.order = counter[s].order]]
    /\ counter' = [counter EXCEPT ![s] = [at |-> "created", payment |-> t]]
    /\ UNCHANGED <<mode, orders, items, reports, handled, keys,
                   bookings, poll, rereading>>

(* updateProviderIntent, or updateStatus if the provider refused.             *)
FinishCounter(s, accepted) ==
    /\ counter[s].at = "created"
    /\ payments' = [payments EXCEPT
                      ![counter[s].payment].status = IF accepted THEN "pending" ELSE "failed",
                      ![counter[s].payment].intent = accepted]
    /\ counter' = [counter EXCEPT ![s] = NoCounter]
    /\ UNCHANGED <<mode, orders, items, reports, handled, keys,
                   bookings, poll, rereading>>

(* The request fails, or its process dies, in between.                        *)
AbandonCounter(s) ==
    /\ counter[s] # NoCounter
    /\ counter' = [counter EXCEPT ![s] = NoCounter]
    /\ UNCHANGED <<mode, payments, orders, items, reports, handled, keys,
                   bookings, poll, rereading>>

(* manualReconcileOrder.  A key that is known makes an operation a copy.      *)
Latest(o, t) == /\ payments[t].order = o
                /\ \A u \in Payment : u > t => payments[u].order # o
Made(t) == \E k \in 1 .. Len(reports[t]) : reports[t][k].status = "paid"
MayResend(k) == k \in keys => "resend" \in Circumstance

(* Paid, and something is not: a payment at the till of what is unpaid.  A    *)
(* copy leaves the row of a payment that was not made.                        *)
ManualBalance(o, t, k) ==
    /\ orders[o].status # "absent" /\ orders[o].pay # "paid"
    /\ ~ AllPaid(items[o]) /\ Fresh(t) /\ MayResend(k)
    /\ MayPay(o)
    /\ LET open == {p \in Booked(items[o]) : items[o][p].status # "paid"}
           row  == [AbsentPayment EXCEPT
                      !.status = "paid", !.kind = "manual", !.covers = ProductsOf(open),
                      !.amount = Cost({p \in open : items[o][p].status = "unpaid"}),
                      !.order = o]
       IN  /\ payments' = [payments EXCEPT ![t] = row]
           /\ IF k \in keys THEN UNCHANGED <<orders, items, reports>>
              ELSE /\ Reconcile(t, row)
                   /\ reports' = [reports EXCEPT ![t] = <<[status |-> "paid", refunded |-> 0]>>]
           /\ handled' = IF k \in keys THEN handled ELSE [handled EXCEPT ![t] = {1}]
    /\ keys' = keys \cup {k}
    /\ UNCHANGED <<mode, underway>>

(* Otherwise the latest payment of the order is set to paid, or refunded in   *)
(* part or in full, whatever its status.                                      *)
ManualSettle(o, t, k, row) ==
    /\ Latest(o, t) /\ k \notin keys
    /\ Made(t) \/ "uncollected" \in Circumstance
    /\ payments' = [payments EXCEPT ![t] = row]
    /\ Reconcile(t, row)
    /\ keys' = keys \cup {k}
    /\ UNCHANGED <<mode, reports, handled, underway>>

ManualPaid(o, t, k) ==
    /\ orders[o].status # "absent"
    /\ orders[o].pay = "paid" \/ AllPaid(items[o])
    /\ payments[t].status = "refunded" => "repay" \in Circumstance
    /\ ManualSettle(o, t, k, [payments[t] EXCEPT !.status = "paid"])

(* amount is what is to be refunded in total; never less than it was.         *)
RefundAmount_Added(row, amount)   == row.refunded + amount
RefundAmount_Replaced(row, amount) == AtMost(row.amount, amount)
RefundAmount(row, amount) ==
    AtMost(row.amount, IF amount < row.refunded THEN row.refunded ELSE amount)
ManualRefund(o, t, k, amount) ==
    /\ MayRefund(o)
    /\ LET refunded == RefundAmount(payments[t], amount)
       IN  ManualSettle(o, t, k,
             [payments[t] EXCEPT
                !.refunded = refunded,
                !.status = IF refunded < payments[t].amount THEN "paid" ELSE "refunded"])

(* reconcile: the row is read without a lock, and the order reconciled with   *)
(* that version of it (of what may have changed since: an order, once         *)
(* attached, stays).                                                          *)
RereadPayment(t) ==
    /\ rereading = NoRow /\ payments[t].order # NoOrder /\ MayBegin
    /\ rereading' = [payment |-> t, status |-> payments[t].status,
                     refunded |-> payments[t].refunded]
    /\ UNCHANGED <<mode, payments, orders, items, reports, handled, keys,
                   bookings, counter, poll>>

ReconcileReread ==
    /\ rereading # NoRow
    /\ LET t == rereading.payment
       IN  /\ payments[t].refunded > 0 => "stale" \in Circumstance
           /\ Reconcile(t, [payments[t] EXCEPT !.status = rereading.status,
                                               !.refunded = rereading.refunded])
    /\ rereading' = NoRow
    /\ UNCHANGED <<mode, payments, reports, handled, keys, bookings, counter, poll>>

RereadFails ==
    /\ rereading # NoRow /\ rereading' = NoRow
    /\ UNCHANGED <<mode, payments, orders, items, reports, handled, keys,
                   bookings, counter, poll>>

-----------------------------------------------------------------------------

ProviderStep ==
    \E t \in Payment :
       \/ \E report \in [status : PaymentStatus, refunded : 0 .. payments[t].amount] :
            ProviderReports(t, report)
       \/ \E k \in 1 .. MaxReports : DeliverEvent(t, k)
       \/ PollProvider(t)

CustomerStep ==
    \/ \E o \in Order, new \in SUBSET Item : PlaceUnpaid(o, new)
    \/ \E t \in Payment, products \in SUBSET Product, accepted \in BOOLEAN :
         CreateIntent(t, products, accepted)
    \/ \E b \in Booking :
         \/ \E t \in Payment : BeginBooking(b, t)
         \/ \E o \in Order, new \in SUBSET Item : PlacePaid(b, o, new)
         \/ RefuseBooking(b)

OrderStep ==
    \E o \in Order :
       \/ CancelOrder(o)
       \/ CloseOrder(o)
       \/ \E t \in Payment, k \in Key :
            \/ ManualBalance(o, t, k)
            \/ ManualPaid(o, t, k)
            \/ \E amount \in 1 .. payments[t].amount : ManualRefund(o, t, k, amount)

StaffStep ==
    \/ \E s \in Staff :
         \/ \E o \in Order : ReadBalance(s, o)
         \/ \E t \in Payment : InsertCounter(s, t)
         \/ \E accepted \in BOOLEAN : FinishCounter(s, accepted)
         \/ AbandonCounter(s)
    \/ \E t \in Payment : RereadPayment(t)

Next ==
    \/ ProviderStep
    \/ CustomerStep
    \/ OrderStep
    \/ StaffStep
    \/ PollWrite \/ PollFails
    \/ ReconcileReread \/ RereadFails

Spec == Init /\ [][Next]_vars
-----------------------------------------------------------------------------
(* Properties.                                                                *)

(* A payment is only ever `paid' if the provider reported it or the till took *)
(* it, however reports, answers to returning customers and staff interleave.  *)
PaidIsCollected ==
    \A t \in Payment : payments[t].status = "paid" => Made(t)

(* What was reported as paid, and handled, is on record: nothing that comes   *)
(* later or was overtaken turns it into a payment that failed or is pending.  *)
CollectedIsRecorded ==
    \A t \in Payment : \A k \in handled[t] :
       reports[t][k].status = "paid" => payments[t].status \in {"paid", "refunded"}

(* A payment is spent once: the items it is said to have paid are of one      *)
(* order, the one it is attached to, and cost no more than it brought in,     *)
(* also if two bookings present it together or a counter payment and another  *)
(* one for the same items are both made.  ("again" and "change" break it.)    *)
SpentOnce ==
    \A t \in Payment, o \in Order :
       PaidBy(t, items[o]) # {} =>
          /\ payments[t].order = o
          /\ Cost(PaidBy(t, items[o])) <= payments[t].amount

(* An order is shown as paid only if nothing in it is unpaid (BR-PAY-002).    *)
PaidOrderIsCovered ==
    \A o \in Order : orders[o].pay = "paid" =>
       \A p \in Booked(items[o]) : items[o][p].status # "unpaid"

(* What a cancellation leaves: no payment of the order that is paid and not   *)
(* returned, and no item that counts as paid.  ("again" leaves the second     *)
(* item that one payment settled paid.)                                       *)
CancelledIsRefunded ==
    [][\A o \in Order :
         orders[o].status = "live" /\ orders'[o].status = "cancelled" =>
            /\ \A t \in Payment : payments'[t].order = o /\ payments'[t].status = "paid"
                                    => payments'[t].refunded = payments'[t].amount
            /\ \A p \in Item : items'[o][p].status # "paid"]_vars

(* Money returned stays returned: a recorded refund shrinks only if a report  *)
(* of the provider that is later than all before says so, whatever staff ask  *)
(* for, reports that were overtaken say, or copies of both.                   *)
RefundNeverShrinks ==
    [][\A t \in Payment : \/ payments[t].refunded <= payments'[t].refunded
                          \/ payments[t].eventAt < payments'[t].eventAt]_vars
=============================================================================
