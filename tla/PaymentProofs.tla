---------------------------- MODULE PaymentProofs ----------------------------
(* Proofs about PaymentTransactions: the types, where money that is on record *)
(* as paid came from, and that what was collected and what was returned stay  *)
(* on record.  Each is an inductive invariant: PayInv, with MadeInv for the   *)
(* first and KeptInv for the other two.                                       *)
EXTENDS PaymentTransactions, SumProofs, TLAPS

LEMMA ProductSum == ASSUME NEW v \in [Item -> Nat] PROVE Sum(v) \in Nat
BY PaymentAssumption, SumType DEF Sum, Item, PaymentAssumption

LEMMA CostType == ASSUME NEW products PROVE Cost(products) \in Nat
<1>1. [p \in Item |-> IF p \in products THEN Price[p] ELSE 0] \in [Item -> Nat]
  BY PaymentAssumption
<1> QED BY <1>1, ProductSum DEF Cost

-----------------------------------------------------------------------------
(* Types.                                                                     *)

RowsType   == /\ payments \in [Payment -> PaymentRow]
              /\ \A t \in Payment : payments[t].refunded <= payments[t].amount
OrdersType == /\ orders \in [Order -> OrderRow]
              /\ items \in [Order -> [Item -> ItemRow]]
EventsType == /\ reports \in [Payment -> Seq(Report)]
              /\ handled \in [Payment -> SUBSET (1 .. MaxReports)]
OthersType == /\ mode \in {"demo", "external"}
              /\ keys \subseteq Key \cup Payment
              /\ bookings \in [Booking -> Payment \cup {NoPayment}]
              /\ counter \in [Staff -> Counter \cup {NoCounter}]
              /\ poll \in Poll \cup {NoPoll}
              /\ rereading \in Reread \cup {NoRow}

LEMMA TypeParts == TypeOK <=> RowsType /\ OrdersType /\ EventsType /\ OthersType
BY DEF TypeOK, RowsType, OrdersType, EventsType, OthersType

(* A row that has not been inserted yet is blank, and nobody knows of it.     *)
AbsentIsBlank ==
    \A t \in Payment : Absent(t) =>
       payments[t] = AbsentPayment /\ reports[t] = <<>> /\ handled[t] = {}

PayInv == TypeOK /\ AbsentIsBlank

LEMMA BlankType == AbsentPayment \in PaymentRow /\ AbsentItem \in ItemRow
BY DEF AbsentPayment, AbsentItem, PaymentRow, ItemRow

LEMMA RefundedType ==
    ASSUME NEW list \in [Item -> ItemRow], NEW t, NEW row, row.refunded \in Nat
    PROVE  Refunded(list, t, row) \in [Item -> ItemRow]
<1>1. ASSUME NEW p \in Item
      PROVE  Share(list, t, row.refunded, p) \in Nat
  <2>1. Cost({q \in PaidBy(t, list) : q < p}) \in Nat
    BY CostType
  <2>2. Price[p] \in Nat
    BY PaymentAssumption
  <2> QED BY <2>1, <2>2 DEF Share, AtMost
<1> QED BY <1>1 DEF Refunded, ItemRow

LEMMA ReconciledType ==
    ASSUME NEW list \in [Item -> ItemRow], NEW t \in Payment, NEW row \in PaymentRow
    PROVE  Reconciled(list, t, row) \in [Item -> ItemRow]
<1>1. Settled(list, t, row) \in [Item -> ItemRow]
  BY DEF Settled, ItemRow
<1>2. row.refunded \in Nat
  BY DEF PaymentRow
<1> QED BY <1>1, <1>2, RefundedType DEF Reconciled

LEMMA OrderPayType ==
    ASSUME NEW list, NEW row, NEW pay \in {"unpaid", "paid", "refunded"}
    PROVE  OrderPay(list, pay, row) \in {"unpaid", "paid", "refunded"}
BY DEF OrderPay

LEMMA ReconcileTypes ==
    ASSUME OrdersType, NEW t \in Payment, NEW row \in PaymentRow, Reconcile(t, row)
    PROVE  OrdersType'
<1>1. CASE row.order = NoOrder
  BY <1>1 DEF Reconcile, OrdersType
<1>2. CASE row.order # NoOrder
  <2>1. row.order \in Order
    BY <1>2 DEF PaymentRow
  <2>2. Reconciled(items[row.order], t, row) \in [Item -> ItemRow]
    BY <2>1, ReconciledType DEF OrdersType
  <2>3. \A list : OrderPay(list, orders[row.order].pay, row) \in {"unpaid", "paid", "refunded"}
    BY <2>1, OrderPayType DEF OrdersType, OrderRow
  <2>4. /\ items' = [items EXCEPT ![row.order] = Reconciled(items[row.order], t, row)]
        /\ orders' = [orders EXCEPT ![row.order] = [orders[row.order] EXCEPT
              !.pay = OrderPay(Reconciled(items[row.order], t, row),
                               orders[row.order].pay, row)]]
    BY <1>2 DEF Reconcile, OrdersType
  <2> QED BY <2>1, <2>2, <2>3, <2>4 DEF OrdersType, OrderRow
<1> QED BY <1>1, <1>2

LEMMA Parts == RowsType' /\ OrdersType' /\ EventsType' /\ OthersType' => TypeOK'
BY DEF TypeOK, RowsType, OrdersType, EventsType, OthersType

LEMMA InitType == Init => PayInv
<1>1. \A o : [status |-> "absent", pay |-> "unpaid"] \in OrderRow
  BY DEF OrderRow
<1>2. Init => TypeOK
  BY <1>1, BlankType DEF Init, TypeOK, AbsentPayment
<1>3. Init => AbsentIsBlank
  BY DEF Init, AbsentIsBlank
<1> QED BY <1>2, <1>3 DEF PayInv

(* One row is written, and what the provider says of others stays.            *)
LEMMA RowChange ==
    ASSUME RowsType, AbsentIsBlank,
           NEW t \in Payment, NEW row \in PaymentRow,
           row.refunded <= row.amount, row.status # "absent",
           payments' = [payments EXCEPT ![t] = row],
           \A u \in Payment : u # t => reports'[u] = reports[u] /\ handled'[u] = handled[u]
    PROVE  RowsType' /\ AbsentIsBlank'
<1>1. \A u \in Payment : payments'[u] = IF u = t THEN row ELSE payments[u]
  BY DEF RowsType
<1>2. RowsType'
  BY <1>1 DEF RowsType
<1>3. AbsentIsBlank'
  BY <1>1 DEF AbsentIsBlank, Absent
<1> QED BY <1>2, <1>3

LEMMA RowsSame ==
    ASSUME RowsType, AbsentIsBlank, UNCHANGED payments,
           \A u \in Payment : Absent(u) => reports'[u] = reports[u] /\ handled'[u] = handled[u]
    PROVE  RowsType' /\ AbsentIsBlank'
BY DEF RowsType, AbsentIsBlank, Absent

LEMMA ProviderReportsType ==
    ASSUME PayInv, NEW t \in Payment, NEW report \in [status : PaymentStatus, refunded : Nat],
           ProviderReports(t, report)
    PROVE  PayInv'
<1>1. report \in Report
  BY DEF Report
<1>2. EventsType'
  BY <1>1 DEF ProviderReports, PayInv, TypeOK, EventsType
<1>3. ~ Absent(t)
  BY DEF ProviderReports, PayInv, AbsentIsBlank, AbsentPayment
<1>4. RowsType' /\ AbsentIsBlank'
  BY <1>3, RowsSame, TypeParts DEF ProviderReports, PayInv, EventsType
<1>5. OrdersType' /\ OthersType'
  BY TypeParts DEF ProviderReports, PayInv, OrdersType, OthersType, underway
<1> QED BY <1>2, <1>4, <1>5, Parts DEF PayInv

LEMMA AppliedType ==
    ASSUME NEW row \in PaymentRow, row.refunded <= row.amount, row.status # "absent",
           NEW report \in Report, NEW at \in Nat
    PROVE  /\ Applied(row, report, at) \in PaymentRow
           /\ Applied(row, report, at).refunded <= Applied(row, report, at).amount
           /\ Applied(row, report, at).status # "absent"
<1> DEFINE n == IF report.status = "refunded" THEN AtMost(row.amount, report.refunded)
                ELSE row.refunded
           st == IF report.status = "refunded" /\ n < row.amount THEN "paid" ELSE report.status
<1>1. n \in Nat /\ n <= row.amount
  BY DEF Report, PaymentRow, AtMost
<1>2. st \in PaymentStatus /\ st # "absent"
  BY DEF Report, PaymentStatus
<1>3. Applied(row, report, at) = [row EXCEPT !.refunded = n, !.eventAt = at, !.status = st]
  BY DEF Applied
<1> HIDE DEF n, st
<1> QED BY <1>1, <1>2, <1>3 DEF PaymentRow

LEMMA StampsType ==
    ASSUME EventsType, NEW t \in Payment, NEW k \in Nat
    PROVE  Stamps(t, k) \subseteq Nat
BY DEF EventsType, Stamps

LEMMA DeliverEventType ==
    ASSUME PayInv, NEW t \in Payment, NEW k \in 1 .. MaxReports, DeliverEvent(t, k)
    PROVE  PayInv'
<1>0. RowsType /\ OrdersType /\ EventsType /\ OthersType /\ AbsentIsBlank
  BY TypeParts DEF PayInv
<1>1. EventsType'
  BY <1>0 DEF DeliverEvent, EventsType
<1>2. OthersType'
  BY <1>0 DEF DeliverEvent, OthersType, underway
<1>3. ~ Absent(t) /\ reports[t][k] \in Report /\ payments[t] \in PaymentRow
  BY <1>0 DEF DeliverEvent, AbsentIsBlank, EventsType, RowsType
<1>4. /\ \A u \in Payment : Absent(u) => reports'[u] = reports[u] /\ handled'[u] = handled[u]
      /\ \A u \in Payment : u # t => reports'[u] = reports[u] /\ handled'[u] = handled[u]
  BY <1>0, <1>3 DEF DeliverEvent, EventsType
<1>5. PICK at \in Stamps(t, k) :
        IF CanApply(payments[t], reports[t][k], at)
        THEN LET row == Applied(payments[t], reports[t][k], at)
             IN  /\ payments' = [payments EXCEPT ![t] = row]
                 /\ Reconcile(t, row)
        ELSE UNCHANGED <<payments, orders, items>>
  BY DEF DeliverEvent
<1>6. CASE CanApply(payments[t], reports[t][k], at)
  <2>1. at \in Nat
    BY <1>0, StampsType
  <2>2. PICK row : /\ row = Applied(payments[t], reports[t][k], at)
                   /\ payments' = [payments EXCEPT ![t] = row]
                   /\ Reconcile(t, row)
    BY <1>5, <1>6
  <2>3. row \in PaymentRow /\ row.refunded <= row.amount /\ row.status # "absent"
    BY <1>0, <1>3, <2>1, <2>2, AppliedType DEF RowsType, Absent
  <2>4. RowsType' /\ AbsentIsBlank'
    BY <1>0, <1>4, <2>2, <2>3, RowChange
  <2>5. OrdersType'
    BY <1>0, <2>2, <2>3, ReconcileTypes
  <2> QED BY <1>1, <1>2, <2>4, <2>5, Parts DEF PayInv
<1>7. CASE ~ CanApply(payments[t], reports[t][k], at)
  <2>1. RowsType' /\ AbsentIsBlank' /\ OrdersType'
    BY <1>0, <1>4, <1>5, <1>7, RowsSame DEF OrdersType
  <2> QED BY <1>1, <1>2, <2>1, Parts DEF PayInv
<1> QED BY <1>6, <1>7

LEMMA PollType ==
    ASSUME PayInv,
           (\E t \in Payment : PollProvider(t)) \/ PollWrite \/ PollFails
    PROVE  PayInv'
<1>0. RowsType /\ OrdersType /\ EventsType /\ OthersType /\ AbsentIsBlank
  BY TypeParts DEF PayInv
<1>1. CASE \E t \in Payment : PollProvider(t)
  <2>1. PICK t \in Payment : PollProvider(t)
    BY <1>1
  <2>2. reports[t] \in Seq(Report) /\ reports[t] # <<>>
    BY <1>0, <2>1 DEF PollProvider, EventsType
  <2>3. reports[t][Len(reports[t])] \in Report
    BY <2>2
  <2>4. poll' = [payment |-> t, status |-> reports[t][Len(reports[t])].status]
    BY <2>1 DEF PollProvider
  <2>5. OthersType'
    BY <1>0, <2>1, <2>3, <2>4 DEF PollProvider, OthersType, Poll, Report
  <2>6. RowsType' /\ AbsentIsBlank' /\ OrdersType' /\ EventsType'
    BY <1>0, <2>1, RowsSame DEF PollProvider, OrdersType, EventsType
  <2> QED BY <2>5, <2>6, Parts DEF PayInv
<1>2. CASE PollWrite
  <2>1. poll.payment \in Payment /\ poll.status \in PaymentStatus
    BY <1>0, <1>2 DEF PollWrite, OthersType, Poll, NoPoll
  <2> DEFINE row == [payments[poll.payment] EXCEPT !.status = poll.status]
  <2>2. payments[poll.payment] \in PaymentRow
        /\ payments[poll.payment].refunded <= payments[poll.payment].amount
    BY <1>0, <2>1 DEF RowsType
  <2>3. row \in PaymentRow /\ row.refunded <= row.amount /\ row.status # "absent"
    BY <2>1, <2>2 DEF PaymentRow, PaymentStatus
  <2>4. payments' = [payments EXCEPT ![poll.payment] = row]
    BY <1>2 DEF PollWrite
  <2> HIDE DEF row
  <2>5. RowsType' /\ AbsentIsBlank'
    BY <1>0, <1>2, <2>1, <2>3, <2>4, RowChange DEF PollWrite
  <2>6. OrdersType' /\ EventsType' /\ OthersType'
    BY <1>0, <1>2 DEF PollWrite, OrdersType, EventsType, OthersType
  <2> QED BY <2>5, <2>6, Parts DEF PayInv
<1>3. CASE PollFails
  <2>1. RowsType' /\ AbsentIsBlank'
    BY <1>0, <1>3, RowsSame DEF PollFails
  <2>2. OrdersType' /\ EventsType' /\ OthersType'
    BY <1>0, <1>3 DEF PollFails, OrdersType, EventsType, OthersType
  <2> QED BY <2>1, <2>2, Parts DEF PayInv
<1> QED BY <1>1, <1>2, <1>3

(* A row that is inserted.                                                    *)
LEMMA NewRowType ==
    ASSUME NEW status \in PaymentStatus, NEW kind \in {"cart", "counter", "manual"},
           NEW amount \in Nat, NEW covers \in SUBSET Product,
           NEW order \in Order \cup {NoOrder}, NEW intent \in BOOLEAN,
           NEW row,
           row = [status |-> status, kind |-> kind, amount |-> amount, refunded |-> 0,
                  covers |-> covers, order |-> order, intent |-> intent, eventAt |-> 0]
    PROVE  row \in PaymentRow /\ row.refunded <= row.amount /\ row.status # "absent"
<1>1. /\ row.refunded = 0 /\ row.amount = amount /\ row.status = status
  OBVIOUS
<1>2. status \in PaymentStatus \cup {"absent"} /\ status # "absent" /\ 0 \in Nat
  BY DEF PaymentStatus
<1>3. row \in PaymentRow
  BY <1>2, Zenon DEF PaymentRow
<1> QED BY <1>1, <1>2, <1>3

LEMMA CreateIntentType ==
    ASSUME PayInv, NEW t \in Payment, NEW products \in SUBSET Product,
           NEW accepted \in BOOLEAN, CreateIntent(t, products, accepted)
    PROVE  PayInv'
<1>0. RowsType /\ OrdersType /\ EventsType /\ OthersType /\ AbsentIsBlank
  BY TypeParts DEF PayInv
<1>1. PICK row : /\ payments' = [payments EXCEPT ![t] = row]
                 /\ row = [AbsentPayment EXCEPT
                              !.status = IF accepted THEN "pending" ELSE "failed",
                              !.amount = Cost(products), !.covers = products,
                              !.intent = accepted]
  BY DEF CreateIntent
<1>2. row = [status |-> IF accepted THEN "pending" ELSE "failed", kind |-> "cart",
             amount |-> Cost(products), refunded |-> 0, covers |-> products,
             order |-> NoOrder, intent |-> accepted, eventAt |-> 0]
  BY <1>1, Zenon DEF AbsentPayment
<1>3. row \in PaymentRow /\ row.refunded <= row.amount /\ row.status # "absent"
  <2>1. Cost(products) \in Nat /\ (IF accepted THEN "pending" ELSE "failed") \in PaymentStatus
    BY CostType DEF PaymentStatus
  <2>2. \A status \in PaymentStatus, amount \in Nat :
          row = [status |-> status, kind |-> "cart", amount |-> amount, refunded |-> 0,
                 covers |-> products, order |-> NoOrder, intent |-> accepted, eventAt |-> 0]
          => row \in PaymentRow /\ row.refunded <= row.amount /\ row.status # "absent"
    BY NewRowType
  <2> QED BY <1>2, <2>1, <2>2, Zenon
<1>4. RowsType' /\ AbsentIsBlank'
  BY <1>0, <1>1, <1>3, RowChange DEF CreateIntent
<1>5. OrdersType' /\ EventsType' /\ OthersType'
  BY <1>0 DEF CreateIntent, OrdersType, EventsType, OthersType, underway
<1> QED BY <1>4, <1>5, Parts DEF PayInv

LEMMA PlaceType ==
    ASSUME OrdersType, RowsType, NEW o \in Order, NEW t \in Payment \cup {NoPayment},
           NEW new \in SUBSET Item, Place(o, t, new)
    PROVE  OrdersType'
<1>1. \A p \in Item : NewItem(t, p) \in ItemRow
  BY DEF NewItem, ItemRow, Covers, NoPayment
<1>2. PICK list : /\ list = [p \in Item |-> IF p \in new THEN NewItem(t, p)
                                             ELSE items[o][p]]
                  /\ items' = [items EXCEPT ![o] = list]
                  /\ orders' = [orders EXCEPT ![o] =
                        [status |-> "live",
                         pay |-> IF AllPaid(list) THEN "paid" ELSE "unpaid"]]
  BY DEF Place
<1>3. list \in [Item -> ItemRow]
  BY <1>1, <1>2 DEF OrdersType
<1>4. [status |-> "live", pay |-> IF AllPaid(list) THEN "paid" ELSE "unpaid"] \in OrderRow
  BY DEF OrderRow
<1> QED BY <1>2, <1>3, <1>4 DEF OrdersType

LEMMA BookingType ==
    ASSUME PayInv,
           \/ \E b \in Booking, t \in Payment : BeginBooking(b, t)
           \/ \E o \in Order, new \in SUBSET Item : PlaceUnpaid(o, new)
           \/ \E b \in Booking : RefuseBooking(b)
    PROVE  PayInv'
<1>0. RowsType /\ OrdersType /\ EventsType /\ OthersType /\ AbsentIsBlank
  BY TypeParts DEF PayInv
<1>1. UNCHANGED <<payments, reports, handled>>
  BY DEF BeginBooking, PlaceUnpaid, RefuseBooking
<1>2. RowsType' /\ AbsentIsBlank' /\ EventsType'
  BY <1>0, <1>1, RowsSame DEF EventsType
<1>3. OthersType'
  BY <1>0 DEF BeginBooking, PlaceUnpaid, RefuseBooking, OthersType, underway
<1>4. OrdersType'
  <2>1. CASE \E o \in Order, new \in SUBSET Item : PlaceUnpaid(o, new)
    BY <1>0, <2>1, PlaceType DEF PlaceUnpaid
  <2>2. CASE UNCHANGED <<orders, items>>
    BY <1>0, <2>2 DEF OrdersType
  <2> QED BY <2>1, <2>2 DEF BeginBooking, RefuseBooking
<1> QED BY <1>2, <1>3, <1>4, Parts DEF PayInv

LEMMA PlacePaidType ==
    ASSUME PayInv, NEW b \in Booking, NEW o \in Order, NEW new \in SUBSET Item,
           PlacePaid(b, o, new)
    PROVE  PayInv'
<1>0. RowsType /\ OrdersType /\ EventsType /\ OthersType /\ AbsentIsBlank
  BY TypeParts DEF PayInv
<1>1. PICK t : t = bookings[b]
  OBVIOUS
<1>2. t \in Payment /\ payments[t].status = "paid"
  BY <1>0, <1>1 DEF PlacePaid, OthersType, Recheck, Unused
<1>3. PICK row : row = [payments[t] EXCEPT !.order = o]
  OBVIOUS
<1>4. payments[t] \in PaymentRow /\ payments[t].refunded <= payments[t].amount
  BY <1>0, <1>2 DEF RowsType
<1>5. row \in PaymentRow /\ row.refunded <= row.amount /\ row.status # "absent"
  BY <1>2, <1>3, <1>4 DEF PaymentRow
<1>6. payments' = [payments EXCEPT ![t] = row]
  BY <1>1, <1>3 DEF PlacePaid
<1>7. RowsType' /\ AbsentIsBlank'
  BY <1>0, <1>2, <1>5, <1>6, RowChange DEF PlacePaid
<1>8. OrdersType'
  BY <1>0, <1>1, <1>2, PlaceType DEF PlacePaid
<1>9. EventsType' /\ OthersType'
  BY <1>0 DEF PlacePaid, EventsType, OthersType
<1> QED BY <1>7, <1>8, <1>9, Parts DEF PayInv

LEMMA CloseOrderType ==
    ASSUME PayInv, NEW o \in Order, CloseOrder(o)
    PROVE  PayInv'
<1>0. RowsType /\ OrdersType /\ EventsType /\ OthersType /\ AbsentIsBlank
  BY TypeParts DEF PayInv
<1>1. RowsType' /\ AbsentIsBlank' /\ EventsType' /\ OthersType'
  BY <1>0, RowsSame DEF CloseOrder, EventsType, OthersType, underway
<1>2. [orders[o] EXCEPT !.status = "closed"] \in OrderRow
  BY <1>0 DEF OrdersType, OrderRow
<1>3. OrdersType'
  BY <1>0, <1>2 DEF CloseOrder, OrdersType
<1> QED BY <1>1, <1>3, Parts DEF PayInv

LEMMA CancelOrderType ==
    ASSUME PayInv, NEW o \in Order, CancelOrder(o)
    PROVE  PayInv'
<1>0. RowsType /\ OrdersType /\ EventsType /\ OthersType /\ AbsentIsBlank
  BY TypeParts DEF PayInv
<1>1. ASSUME NEW t \in Payment
      PROVE  /\ payments'[t] \in PaymentRow
             /\ payments'[t].refunded <= payments'[t].amount
             /\ payments'[t].status = "absent" => payments'[t] = payments[t]
  <2>0. payments[t] \in PaymentRow /\ payments[t].refunded <= payments[t].amount
    BY <1>0 DEF RowsType
  <2>1. PICK row : row = FullyRefunded(t)
    OBVIOUS
  <2>2. row \in PaymentRow /\ row.refunded <= row.amount /\ row.status # "absent"
    <3>1. PICK amount : amount = payments[t].amount /\ amount \in Nat
      BY <2>0 DEF PaymentRow
    <3>2. row = [payments[t] EXCEPT !.status = "refunded", !.refunded = amount]
      BY <2>1, <3>1 DEF FullyRefunded
    <3>3. row.refunded = amount /\ row.amount = amount /\ row.status = "refunded"
      BY <2>0, <3>1, <3>2 DEF PaymentRow
    <3>4. row \in PaymentRow
      BY <2>0, <3>1, <3>2 DEF PaymentRow, PaymentStatus
    <3> QED BY <3>1, <3>3, <3>4
  <2>3. payments'[t] = IF t \in Refundable(o) THEN row ELSE payments[t]
    BY <2>1 DEF CancelOrder, RefundsCancelled
  <2> QED BY <2>0, <2>2, <2>3
<1>2. RowsType'
  BY <1>1 DEF RowsType, CancelOrder, RefundsCancelled
<1>3. AbsentIsBlank'
  BY <1>0, <1>1 DEF AbsentIsBlank, Absent, CancelOrder
<1>4. EventsType' /\ OthersType'
  BY <1>0 DEF CancelOrder, EventsType, OthersType, underway, Refundable
<1>5. OrdersType'
  <2>1. PICK list :
          /\ list = [p \in Item |->
                      IF items[o][p].by \in Refundable(o)
                      THEN Refunded(items[o], items[o][p].by,
                                    FullyRefunded(items[o][p].by))[p]
                      ELSE items[o][p]]
          /\ items' = [items EXCEPT ![o] = list]
          /\ orders' = [orders EXCEPT ![o] =
                [status |-> "cancelled",
                 pay |-> IF Refundable(o) = {} THEN @.pay
                         ELSE OrderPay(list, @.pay,
                                       FullyRefunded(CHOOSE t \in Refundable(o) : TRUE))]]
    BY DEF CancelOrder
  <2>2. items[o] \in [Item -> ItemRow] /\ orders[o].pay \in {"unpaid", "paid", "refunded"}
    BY <1>0 DEF OrdersType, OrderRow
  <2>3. ASSUME NEW t \in Refundable(o)
        PROVE  Refunded(items[o], t, FullyRefunded(t)) \in [Item -> ItemRow]
    <3>1. FullyRefunded(t).refunded \in Nat
      BY <1>0 DEF FullyRefunded, Refundable, RowsType, PaymentRow
    <3> QED BY <2>2, <3>1, RefundedType
  <2>4. list \in [Item -> ItemRow]
    <3>1. ASSUME NEW p \in Item PROVE list[p] \in ItemRow
      BY <2>1, <2>2, <2>3
    <3> QED BY <2>1, <3>1
  <2>5. PICK pay : /\ pay \in {"unpaid", "paid", "refunded"}
                   /\ orders' = [orders EXCEPT ![o] = [status |-> "cancelled", pay |-> pay]]
    <3>1. CASE Refundable(o) = {}
      BY <2>1, <2>2, <3>1
    <3>2. CASE Refundable(o) # {}
      <4>1. OrderPay(list, orders[o].pay, FullyRefunded(CHOOSE t \in Refundable(o) : TRUE))
            \in {"unpaid", "paid", "refunded"}
        BY <2>2, OrderPayType
      <4> QED BY <2>1, <3>2, <4>1
    <3> QED BY <3>1, <3>2
  <2>6. [status |-> "cancelled", pay |-> pay] \in OrderRow
    BY <2>5 DEF OrderRow
  <2> QED BY <1>0, <2>1, <2>4, <2>5, <2>6 DEF OrdersType
<1> QED BY <1>2, <1>3, <1>4, <1>5, Parts DEF PayInv

LEMMA ReadBalanceType ==
    ASSUME PayInv, NEW s \in Staff, NEW o \in Order, ReadBalance(s, o)
    PROVE  PayInv'
<1>0. RowsType /\ OrdersType /\ EventsType /\ OthersType /\ AbsentIsBlank
  BY TypeParts DEF PayInv
<1>1. Outstanding(o) \in Nat
  <2>1. \A p \in Item : items[o][p] \in ItemRow /\ Price[p] \in Nat
    BY <1>0, PaymentAssumption DEF OrdersType
  <2>2. [p \in Item |-> IF items[o][p].status = "unpaid" THEN Price[p]
                           ELSE items[o][p].refunded] \in [Item -> Nat]
    BY <2>1 DEF ItemRow
  <2> QED BY <2>2, ProductSum DEF Outstanding
<1>2. [at |-> "read", order |-> o, amount |-> Outstanding(o),
       products |-> ProductsOf(Booked(items[o]))] \in Counter
  BY <1>1 DEF Counter, Booked, ProductsOf, Product
<1>3. OthersType'
  BY <1>0, <1>2 DEF ReadBalance, OthersType
<1>4. RowsType' /\ AbsentIsBlank' /\ OrdersType' /\ EventsType'
  BY <1>0, RowsSame DEF ReadBalance, OrdersType, EventsType
<1> QED BY <1>3, <1>4, Parts DEF PayInv

LEMMA CounterParts ==
    ASSUME OthersType, NEW s \in Staff
    PROVE  /\ counter[s].at = "read" =>
                counter[s].order \in Order /\ counter[s].amount \in Nat
                /\ counter[s].products \in SUBSET Product
           /\ counter[s].at = "created" =>
                counter[s].payment \in Payment
                /\ counter[s] = [at |-> "created", payment |-> counter[s].payment]
BY DEF OthersType, Counter, NoCounter

LEMMA InsertCounterType ==
    ASSUME PayInv, NEW s \in Staff, NEW t \in Payment, InsertCounter(s, t)
    PROVE  PayInv'
<1>0. RowsType /\ OrdersType /\ EventsType /\ OthersType /\ AbsentIsBlank
  BY TypeParts DEF PayInv
<1>1. PICK row : /\ payments' = [payments EXCEPT ![t] = row]
                 /\ row = [AbsentPayment EXCEPT
                              !.status = "pending", !.kind = "counter",
                              !.amount = counter[s].amount,
                              !.covers = counter[s].products,
                              !.order = counter[s].order]
  BY DEF InsertCounter
<1>2. row = [status |-> "pending", kind |-> "counter", amount |-> counter[s].amount,
             refunded |-> 0, covers |-> counter[s].products, order |-> counter[s].order,
             intent |-> FALSE, eventAt |-> 0]
  BY <1>1, Zenon DEF AbsentPayment
<1>3. row \in PaymentRow /\ row.refunded <= row.amount /\ row.status # "absent"
  BY <1>0, <1>2, CounterParts, NewRowType DEF PaymentStatus, InsertCounter
<1>4. RowsType' /\ AbsentIsBlank'
  BY <1>0, <1>1, <1>3, RowChange DEF InsertCounter
<1>5. [at |-> "created", payment |-> t] \in Counter
  BY DEF Counter
<1>6. OrdersType' /\ EventsType' /\ OthersType'
  BY <1>0, <1>5 DEF InsertCounter, OrdersType, EventsType, OthersType
<1> QED BY <1>4, <1>6, Parts DEF PayInv

LEMMA FinishCounterType ==
    ASSUME PayInv, NEW s \in Staff, NEW accepted \in BOOLEAN, FinishCounter(s, accepted)
    PROVE  PayInv'
<1>0. RowsType /\ OrdersType /\ EventsType /\ OthersType /\ AbsentIsBlank
  BY TypeParts DEF PayInv
<1>1. PICK t : t = counter[s].payment /\ t \in Payment
  BY <1>0, CounterParts DEF FinishCounter
<1>2. payments[t] \in PaymentRow /\ payments[t].refunded <= payments[t].amount
  BY <1>0, <1>1 DEF RowsType
<1>3. PICK row : row = [payments[t] EXCEPT !.status = IF accepted THEN "pending" ELSE "failed",
                                           !.intent = accepted]
  OBVIOUS
<1>4. row \in PaymentRow /\ row.refunded <= row.amount /\ row.status # "absent"
  BY <1>2, <1>3 DEF PaymentRow, PaymentStatus
<1>5. payments' = [payments EXCEPT ![t] = row]
  BY <1>0, <1>1, <1>3 DEF FinishCounter, RowsType
<1>6. RowsType' /\ AbsentIsBlank'
  BY <1>0, <1>1, <1>4, <1>5, RowChange DEF FinishCounter
<1>7. OrdersType' /\ EventsType' /\ OthersType'
  BY <1>0 DEF FinishCounter, OrdersType, EventsType, OthersType
<1> QED BY <1>6, <1>7, Parts DEF PayInv

LEMMA RequestsType ==
    ASSUME PayInv,
           \/ \E s \in Staff : AbandonCounter(s)
           \/ \E t \in Payment : RereadPayment(t)
           \/ RereadFails
    PROVE  PayInv'
<1>0. RowsType /\ OrdersType /\ EventsType /\ OthersType /\ AbsentIsBlank
  BY TypeParts DEF PayInv
<1>1. RowsType' /\ AbsentIsBlank' /\ OrdersType' /\ EventsType'
  BY <1>0, RowsSame DEF AbandonCounter, RereadPayment, RereadFails, OrdersType, EventsType
<1>2. OthersType'
  <2>1. CASE \E t \in Payment : RereadPayment(t)
    <3>1. PICK t \in Payment : RereadPayment(t)
      BY <2>1
    <3>2. payments[t] \in PaymentRow /\ payments[t].status # "absent"
      BY <1>0, <3>1 DEF RowsType, AbsentIsBlank, Absent, AbsentPayment, RereadPayment
    <3>3. rereading' \in Reread
      BY <3>1, <3>2 DEF RereadPayment, Reread, PaymentRow
    <3> QED BY <1>0, <3>1, <3>3 DEF RereadPayment, OthersType
  <2>2. CASE (\E s \in Staff : AbandonCounter(s)) \/ RereadFails
    BY <1>0, <2>2 DEF AbandonCounter, RereadFails, OthersType
  <2> QED BY <2>1, <2>2
<1> QED BY <1>1, <1>2, Parts DEF PayInv

LEMMA ReconcileRereadType ==
    ASSUME PayInv, ReconcileReread
    PROVE  PayInv'
<1>0. RowsType /\ OrdersType /\ EventsType /\ OthersType /\ AbsentIsBlank
  BY TypeParts DEF PayInv
<1>1. rereading \in Reread
  BY <1>0 DEF ReconcileReread, OthersType
<1>2. PICK t : t = rereading.payment /\ t \in Payment
  BY <1>1 DEF Reread
<1>3. PICK row : /\ row = [payments[t] EXCEPT !.status = rereading.status,
                                               !.refunded = rereading.refunded]
                 /\ Reconcile(t, row)
  BY <1>2 DEF ReconcileReread
<1>4. payments[t] \in PaymentRow
  BY <1>0, <1>2 DEF RowsType
<1>5. row \in PaymentRow
  BY <1>1, <1>3, <1>4 DEF PaymentRow, Reread
<1>6. OrdersType'
  BY <1>0, <1>2, <1>3, <1>5, ReconcileTypes
<1>7. RowsType' /\ AbsentIsBlank' /\ EventsType' /\ OthersType'
  BY <1>0, RowsSame DEF ReconcileReread, EventsType, OthersType
<1> QED BY <1>6, <1>7, Parts DEF PayInv

LEMMA ManualBalanceType ==
    ASSUME PayInv, NEW o \in Order, NEW t \in Payment, NEW k \in Key, ManualBalance(o, t, k)
    PROVE  PayInv'
<1>0. RowsType /\ OrdersType /\ EventsType /\ OthersType /\ AbsentIsBlank
  BY TypeParts DEF PayInv
<1>1. PICK open : open = {p \in Booked(items[o]) : items[o][p].status # "paid"}
  OBVIOUS
<1>2. PICK amount : amount = Cost({p \in open : items[o][p].status = "unpaid"})
  OBVIOUS
<1>3. PICK row : /\ row = [AbsentPayment EXCEPT
                              !.status = "paid", !.kind = "manual",
                              !.covers = ProductsOf(open),
                              !.amount = amount, !.order = o]
                 /\ payments' = [payments EXCEPT ![t] = row]
                 /\ IF k \in keys THEN UNCHANGED <<orders, items, reports>>
                    ELSE /\ Reconcile(t, row)
                         /\ reports' = [reports EXCEPT
                                          ![t] = <<[status |-> "paid", refunded |-> 0]>>]
  BY <1>1, <1>2 DEF ManualBalance
<1>4. row = [status |-> "paid", kind |-> "manual", amount |-> amount, refunded |-> 0,
             covers |-> ProductsOf(open), order |-> o, intent |-> FALSE, eventAt |-> 0]
  BY <1>3, Zenon DEF AbsentPayment
<1>5. row \in PaymentRow /\ row.refunded <= row.amount /\ row.status # "absent"
  <2>1. open \in SUBSET Item /\ amount \in Nat
    BY <1>1, <1>2, CostType DEF Booked
  <2>2. ProductsOf(open) \in SUBSET Product
    BY <2>1 DEF ProductsOf, Product
  <2> QED BY <1>4, <2>1, <2>2, NewRowType DEF PaymentStatus
<1>6. handled' = IF k \in keys THEN handled ELSE [handled EXCEPT ![t] = {1}]
  BY DEF ManualBalance
<1>7. RowsType' /\ AbsentIsBlank'
  BY <1>0, <1>3, <1>5, <1>6, RowChange DEF EventsType
<1>8. OrdersType'
  BY <1>0, <1>3, <1>5, ReconcileTypes DEF OrdersType
<1>9. EventsType'
  <2>1. [status |-> "paid", refunded |-> 0] \in Report /\ {1} \in SUBSET (1 .. MaxReports)
    BY PaymentAssumption DEF Report, PaymentStatus
  <2>2. <<[status |-> "paid", refunded |-> 0]>> \in Seq(Report)
    BY <2>1
  <2>3. reports' \in [Payment -> Seq(Report)]
    BY <1>0, <1>3, <2>2 DEF EventsType
  <2>4. handled' \in [Payment -> SUBSET (1 .. MaxReports)]
    BY <1>0, <1>6, <2>1 DEF EventsType
  <2> QED BY <2>3, <2>4 DEF EventsType
<1>10. OthersType'
  BY <1>0 DEF ManualBalance, OthersType, underway
<1> QED BY <1>7, <1>8, <1>9, <1>10, Parts DEF PayInv

LEMMA ManualSettleType ==
    ASSUME PayInv, NEW o \in Order, NEW t \in Payment, NEW k \in Key, NEW row \in PaymentRow,
           row.refunded <= row.amount, row.status # "absent", ManualSettle(o, t, k, row)
    PROVE  PayInv'
<1>0. RowsType /\ OrdersType /\ EventsType /\ OthersType /\ AbsentIsBlank
  BY TypeParts DEF PayInv
<1>1. RowsType' /\ AbsentIsBlank'
  BY <1>0, RowChange DEF ManualSettle
<1>2. OrdersType'
  BY <1>0, ReconcileTypes DEF ManualSettle
<1>3. EventsType' /\ OthersType'
  BY <1>0 DEF ManualSettle, EventsType, OthersType, underway
<1> QED BY <1>1, <1>2, <1>3, Parts DEF PayInv

LEMMA RefundAmountType ==
    ASSUME NEW row \in PaymentRow, row.refunded <= row.amount, NEW amount \in Nat
    PROVE  /\ RefundAmount(row, amount) \in Nat
           /\ row.refunded <= RefundAmount(row, amount)
           /\ RefundAmount(row, amount) <= row.amount
BY DEF RefundAmount, AtMost, PaymentRow

LEMMA ManualType ==
    ASSUME PayInv, NEW o \in Order, NEW t \in Payment, NEW k \in Key,
           ManualPaid(o, t, k) \/ \E amount \in Nat : ManualRefund(o, t, k, amount)
    PROVE  PayInv'
<1>0. payments[t] \in PaymentRow /\ payments[t].refunded <= payments[t].amount
  BY TypeParts DEF PayInv, RowsType
<1>1. CASE ManualPaid(o, t, k)
  <2>1. PICK row : /\ row = [payments[t] EXCEPT !.status = "paid"]
                   /\ ManualSettle(o, t, k, row)
    BY <1>1 DEF ManualPaid
  <2>2. row \in PaymentRow /\ row.refunded <= row.amount /\ row.status # "absent"
    BY <1>0, <2>1 DEF PaymentRow, PaymentStatus
  <2> QED BY <2>1, <2>2, ManualSettleType
<1>2. CASE \E amount \in Nat : ManualRefund(o, t, k, amount)
  <2>1. PICK amount \in Nat : ManualRefund(o, t, k, amount)
    BY <1>2
  <2>2. PICK refunded : refunded = RefundAmount(payments[t], amount)
    OBVIOUS
  <2>3. PICK row :
          /\ row = [payments[t] EXCEPT
                      !.refunded = refunded,
                      !.status = IF refunded < payments[t].amount THEN "paid" ELSE "refunded"]
          /\ ManualSettle(o, t, k, row)
    BY <2>1, <2>2 DEF ManualRefund
  <2>4. refunded \in Nat /\ refunded <= payments[t].amount
    BY <1>0, <2>2, RefundAmountType
  <2>5. row \in PaymentRow /\ row.refunded <= row.amount /\ row.status # "absent"
    BY <1>0, <2>3, <2>4 DEF PaymentRow, PaymentStatus
  <2> QED BY <2>3, <2>5, ManualSettleType
<1> QED BY <1>1, <1>2

LEMMA NextType == PayInv /\ [Next]_vars => PayInv'
<1> SUFFICES ASSUME PayInv, [Next]_vars PROVE PayInv'
  OBVIOUS
<1>1. CASE ProviderStep
  <2>1. PICK t \in Payment :
           \/ \E report \in [status : PaymentStatus, refunded : 0 .. payments[t].amount] :
                ProviderReports(t, report)
           \/ \E k \in 1 .. MaxReports : DeliverEvent(t, k)
           \/ PollProvider(t)
    BY <1>1 DEF ProviderStep
  <2>2. \A report \in [status : PaymentStatus, refunded : 0 .. payments[t].amount] :
           report \in [status : PaymentStatus, refunded : Nat]
    OBVIOUS
  <2> QED BY <2>1, <2>2, ProviderReportsType, DeliverEventType, PollType
<1>2. CASE CustomerStep
  BY <1>2, CreateIntentType, BookingType, PlacePaidType DEF CustomerStep
<1>3. CASE OrderStep
  <2>1. PICK o \in Order :
           \/ CancelOrder(o)
           \/ CloseOrder(o)
           \/ \E t \in Payment, k \in Key :
                \/ ManualBalance(o, t, k)
                \/ ManualPaid(o, t, k)
                \/ \E amount \in Nat : ManualRefund(o, t, k, amount)
    BY <1>3 DEF OrderStep
  <2> QED BY <2>1, CancelOrderType, CloseOrderType, ManualBalanceType, ManualType
<1>4. CASE StaffStep
  BY <1>4, ReadBalanceType, InsertCounterType, FinishCounterType, RequestsType DEF StaffStep
<1>5. CASE PollWrite \/ PollFails
  BY <1>5, PollType
<1>6. CASE ReconcileReread \/ RereadFails
  BY <1>6, ReconcileRereadType, RequestsType
<1>7. CASE UNCHANGED vars
  <2>1. RowsType' /\ AbsentIsBlank' /\ OrdersType' /\ EventsType' /\ OthersType'
    BY <1>7, TypeParts, RowsSame
       DEF PayInv, vars, underway, OrdersType, EventsType, OthersType
  <2> QED BY <2>1, Parts DEF PayInv
<1> QED BY <1>1, <1>2, <1>3, <1>4, <1>5, <1>6, <1>7 DEF Next

(* PayInv is inductive.                                                       *)
LEMMA PayInvariant == Spec => []PayInv
BY InitType, NextType, PTL DEF Spec

(* Every variable keeps its type, and no payment returns more than it brought *)
(* in (payment_transactions_refunded_amount_valid), whatever is bounded how.  *)
THEOREM PaymentTypes == Spec => []TypeOK
<1>1. PayInv => TypeOK
  BY DEF PayInv
<1> QED BY <1>1, PayInvariant, PTL

-----------------------------------------------------------------------------
(* What is kept of a collected payment.                                       *)

Final(status) == status \in {"paid", "refunded"}

(* The steps that neither add a payment nor have anything to do with what the *)
(* provider says: they never take a payment for unpaid, and refunds only grow.*)
Quiet ==
    /\ UNCHANGED <<mode, reports, handled>>
    /\ poll' \in {poll, NoPoll}
    /\ \A s \in Staff : counter'[s].at = "created" => counter'[s] = counter[s]
    /\ \A t \in Payment :
         /\ payments'[t].eventAt = payments[t].eventAt
         /\ payments'[t].intent = payments[t].intent
         /\ Absent(t)' <=> Absent(t)
         /\ Final(payments[t].status) => Final(payments'[t].status)
         /\ Final(payments'[t].status) =>
              Final(payments[t].status) \/ Made(t) \/ "uncollected" \in Circumstance
         /\ payments[t].refunded <= payments'[t].refunded

LEMMA QuietSame ==
    ASSUME PayInv, UNCHANGED <<mode, payments, reports, handled>>,
           poll' \in {poll, NoPoll},
           \A s \in Staff : counter'[s].at = "created" => counter'[s] = counter[s]
    PROVE  Quiet
<1>1. \A t \in Payment : payments[t].refunded \in Nat
  BY TypeParts DEF PayInv, RowsType, PaymentRow
<1> QED BY <1>1 DEF Quiet, Absent

LEMMA QuietRow ==
    ASSUME PayInv, NEW t \in Payment, NEW row,
           UNCHANGED <<mode, reports, handled, poll, counter>>,
           payments' = [payments EXCEPT ![t] = row],
           row.eventAt = payments[t].eventAt, row.intent = payments[t].intent,
           ~ Absent(t), Final(row.status),
           Final(payments[t].status) \/ Made(t) \/ "uncollected" \in Circumstance,
           payments[t].refunded <= row.refunded
    PROVE  Quiet
<1>1. \A u \in Payment : /\ payments[u].refunded \in Nat
                         /\ payments'[u] = IF u = t THEN row ELSE payments[u]
  BY TypeParts DEF PayInv, RowsType, PaymentRow
<1> QED BY <1>1 DEF Quiet, Absent, Final

LEMMA QuietSteps ==
    ASSUME PayInv,
           \/ PollFails \/ ReconcileReread \/ RereadFails
           \/ \E t \in Payment : RereadPayment(t)
           \/ \E b \in Booking : RefuseBooking(b)
           \/ \E b \in Booking, t \in Payment : BeginBooking(b, t)
           \/ \E o \in Order, new \in SUBSET Item : PlaceUnpaid(o, new)
           \/ \E o \in Order : CloseOrder(o)
           \/ \E s \in Staff : AbandonCounter(s)
           \/ \E s \in Staff, o \in Order : ReadBalance(s, o)
           \/ UNCHANGED vars
    PROVE  Quiet
<1>1. UNCHANGED <<mode, payments, reports, handled>>
  BY DEF PollFails, ReconcileReread, RereadFails, RereadPayment, RefuseBooking, BeginBooking,
         PlaceUnpaid, CloseOrder, AbandonCounter, ReadBalance, vars, underway
<1>2. poll' \in {poll, NoPoll}
  BY DEF PollFails, ReconcileReread, RereadFails, RereadPayment, RefuseBooking, BeginBooking,
         PlaceUnpaid, CloseOrder, AbandonCounter, ReadBalance, vars, underway
<1>3. ASSUME NEW s \in Staff, counter'[s].at = "created" PROVE counter'[s] = counter[s]
  <2>0. counter \in [Staff -> Counter \cup {NoCounter}]
    BY DEF PayInv, TypeOK
  <2>1. CASE UNCHANGED counter
    BY <2>1
  <2>2. CASE \E r \in Staff : AbandonCounter(r)
    BY <1>3, <2>0, <2>2 DEF AbandonCounter, NoCounter
  <2>3. CASE \E r \in Staff, o \in Order : ReadBalance(r, o)
    <3>1. PICK r \in Staff : \E read : read.at = "read" /\ counter' = [counter EXCEPT ![r] = read]
      BY <2>3 DEF ReadBalance
    <3> QED BY <1>3, <2>0, <3>1
  <2> QED BY <2>1, <2>2, <2>3
          DEF PollFails, ReconcileReread, RereadFails, RereadPayment, RefuseBooking, BeginBooking,
              PlaceUnpaid, CloseOrder, vars, underway
<1> QED BY <1>1, <1>2, <1>3, QuietSame

LEMMA QuietPlacePaid ==
    ASSUME PayInv, NEW b \in Booking, NEW o \in Order, NEW new \in SUBSET Item,
           PlacePaid(b, o, new)
    PROVE  Quiet
<1>1. PICK t : t = bookings[b]
  OBVIOUS
<1>2. t \in Payment /\ payments[t].status = "paid" /\ payments[t] \in PaymentRow
  BY <1>1 DEF PayInv, TypeOK, PlacePaid, Recheck, Unused
<1>3. PICK row : row = [payments[t] EXCEPT !.order = o]
  OBVIOUS
<1>4. /\ row.eventAt = payments[t].eventAt /\ row.intent = payments[t].intent
      /\ row.status = "paid" /\ row.refunded = payments[t].refunded /\ row.refunded \in Nat
  BY <1>2, <1>3 DEF PaymentRow
<1>5. payments' = [payments EXCEPT ![t] = row]
  BY <1>1, <1>3 DEF PlacePaid
<1>6. ~ Absent(t) /\ Final(row.status) /\ Final(payments[t].status)
  BY <1>2, <1>4 DEF Absent, Final
<1>7. UNCHANGED <<mode, reports, handled, poll, counter>>
  BY DEF PlacePaid
<1>8. payments[t].refunded <= row.refunded
  BY <1>4
<1> QED BY <1>2, <1>4, <1>5, <1>6, <1>7, <1>8, QuietRow

LEMMA QuietCancel ==
    ASSUME PayInv, NEW o \in Order, CancelOrder(o)
    PROVE  Quiet
<1>1. UNCHANGED <<mode, reports, handled, poll, counter>>
  BY DEF CancelOrder, underway
<1>2. ASSUME NEW t \in Payment
      PROVE  /\ payments'[t].eventAt = payments[t].eventAt
             /\ payments'[t].intent = payments[t].intent
             /\ Absent(t)' <=> Absent(t)
             /\ Final(payments[t].status) <=> Final(payments'[t].status)
             /\ payments[t].refunded <= payments'[t].refunded
  <2>0. payments[t] \in PaymentRow /\ payments[t].refunded <= payments[t].amount
    BY DEF PayInv, TypeOK
  <2>1. payments'[t] = IF t \in Refundable(o) THEN FullyRefunded(t) ELSE payments[t]
    BY DEF CancelOrder, RefundsCancelled
  <2>2. /\ FullyRefunded(t).eventAt = payments[t].eventAt
        /\ FullyRefunded(t).intent = payments[t].intent
        /\ FullyRefunded(t).status = "refunded"
        /\ FullyRefunded(t).refunded = payments[t].amount
    BY <2>0 DEF FullyRefunded, PaymentRow
  <2>3. CASE t \in Refundable(o)
    BY <2>0, <2>1, <2>2, <2>3 DEF Refundable, Absent, Final
  <2>4. CASE t \notin Refundable(o)
    BY <2>0, <2>1, <2>4 DEF Absent, Final, PaymentRow
  <2> QED BY <2>3, <2>4
<1> QED BY <1>1, <1>2 DEF Quiet

LEMMA QuietManual ==
    ASSUME PayInv, NEW o \in Order, NEW t \in Payment, NEW k \in Key,
           ManualPaid(o, t, k) \/ \E amount \in Nat : ManualRefund(o, t, k, amount)
    PROVE  Quiet
<1>0. payments[t] \in PaymentRow /\ payments[t].refunded <= payments[t].amount
  BY DEF PayInv, TypeOK
<1>1. PICK row : /\ ManualSettle(o, t, k, row)
                 /\ row.eventAt = payments[t].eventAt /\ row.intent = payments[t].intent
                 /\ Final(row.status) /\ payments[t].refunded <= row.refunded
  <2>1. CASE ManualPaid(o, t, k)
    <3>1. PICK row : /\ row = [payments[t] EXCEPT !.status = "paid"]
                     /\ ManualSettle(o, t, k, row)
      BY <2>1 DEF ManualPaid
    <3>2. /\ row.eventAt = payments[t].eventAt /\ row.intent = payments[t].intent
          /\ Final(row.status) /\ payments[t].refunded <= row.refunded
      BY <1>0, <3>1 DEF PaymentRow, Final
    <3> QED BY <3>1, <3>2
  <2>2. CASE \E amount \in Nat : ManualRefund(o, t, k, amount)
    <3>1. PICK amount \in Nat : ManualRefund(o, t, k, amount)
      BY <2>2
    <3>2. PICK refunded : refunded = RefundAmount(payments[t], amount)
      OBVIOUS
    <3>3. PICK row :
            /\ row = [payments[t] EXCEPT
                        !.refunded = refunded,
                        !.status = IF refunded < payments[t].amount THEN "paid" ELSE "refunded"]
            /\ ManualSettle(o, t, k, row)
      BY <3>1, <3>2 DEF ManualRefund
    <3>4. payments[t].refunded <= refunded
      BY <1>0, <3>2, RefundAmountType
    <3>5. /\ row.eventAt = payments[t].eventAt /\ row.intent = payments[t].intent
          /\ Final(row.status) /\ row.refunded = refunded
      BY <1>0, <3>3 DEF PaymentRow, Final
    <3> QED BY <3>3, <3>4, <3>5
  <2> QED BY <2>1, <2>2
<1>2. UNCHANGED <<mode, reports, handled, poll, counter>>
  BY <1>1 DEF ManualSettle, underway
<1>3. ~ Absent(t)
  BY <1>1, PaymentAssumption DEF ManualSettle, Latest, PayInv, AbsentIsBlank, AbsentPayment
<1> QED BY <1>1, <1>2, <1>3, QuietRow DEF ManualSettle

(* The steps by kind: those of Quiet, and the others one by one.              *)
LEMMA StepKinds ==
    ASSUME PayInv, [Next]_vars
    PROVE  \/ Quiet
           \/ \E t \in Payment :
                \/ \E report \in [status : PaymentStatus, refunded : Nat] : ProviderReports(t, report)
                \/ \E k \in 1 .. MaxReports : DeliverEvent(t, k)
                \/ PollProvider(t)
                \/ \E products \in SUBSET Product, accepted \in BOOLEAN :
                     CreateIntent(t, products, accepted)
                \/ \E s \in Staff : InsertCounter(s, t)
                \/ \E o \in Order, k \in Key : ManualBalance(o, t, k)
           \/ \E s \in Staff, accepted \in BOOLEAN : FinishCounter(s, accepted)
           \/ PollWrite
<1>1. CASE ProviderStep
  <2>1. PICK t \in Payment :
           \/ \E report \in [status : PaymentStatus, refunded : 0 .. payments[t].amount] :
                ProviderReports(t, report)
           \/ \E k \in 1 .. MaxReports : DeliverEvent(t, k)
           \/ PollProvider(t)
    BY <1>1 DEF ProviderStep
  <2>2. \A report \in [status : PaymentStatus, refunded : 0 .. payments[t].amount] :
           report \in [status : PaymentStatus, refunded : Nat]
    OBVIOUS
  <2> QED BY <2>1, <2>2
<1>2. CASE CustomerStep
  BY <1>2, QuietSteps, QuietPlacePaid DEF CustomerStep
<1>3. CASE OrderStep
  <2>1. PICK o \in Order :
           \/ CancelOrder(o)
           \/ CloseOrder(o)
           \/ \E t \in Payment, k \in Key :
                \/ ManualBalance(o, t, k)
                \/ ManualPaid(o, t, k)
                \/ \E amount \in Nat : ManualRefund(o, t, k, amount)
    BY <1>3 DEF OrderStep
  <2> QED BY <2>1, QuietSteps, QuietCancel, QuietManual
<1>4. CASE StaffStep
  BY <1>4, QuietSteps DEF StaffStep
<1>5. CASE PollWrite \/ PollFails \/ ReconcileReread \/ RereadFails \/ UNCHANGED vars
  BY <1>5, QuietSteps
<1> QED BY <1>1, <1>2, <1>3, <1>4, <1>5 DEF Next

(* A row of a new payment, which nobody has paid.                             *)
LEMMA NewRows ==
    ASSUME PayInv, NEW t \in Payment,
           \/ \E products \in SUBSET Product, accepted \in BOOLEAN :
                CreateIntent(t, products, accepted)
           \/ \E s \in Staff : InsertCounter(s, t)
    PROVE  /\ UNCHANGED <<mode, reports, handled, poll>>
           /\ Absent(t) /\ payments[t] = AbsentPayment
           /\ \A u \in Payment : u # t => payments'[u] = payments[u]
           /\ payments'[t].status \in {"pending", "failed"}
           /\ payments'[t].refunded = 0 /\ payments'[t].eventAt = 0
<1>0. payments \in [Payment -> PaymentRow] /\ AbsentIsBlank
  BY DEF PayInv, TypeOK
<1>1. PICK row : /\ payments' = [payments EXCEPT ![t] = row]
                 /\ row.status \in {"pending", "failed"} /\ row.refunded = 0 /\ row.eventAt = 0
  <2>1. CASE \E products \in SUBSET Product, accepted \in BOOLEAN :
               CreateIntent(t, products, accepted)
    <3>1. PICK products \in SUBSET Product, accepted \in BOOLEAN :
            CreateIntent(t, products, accepted)
      BY <2>1
    <3>2. PICK row : /\ payments' = [payments EXCEPT ![t] = row]
                     /\ row = [AbsentPayment EXCEPT
                                 !.status = IF accepted THEN "pending" ELSE "failed",
                                 !.amount = Cost(products), !.covers = products,
                                 !.intent = accepted]
      BY <3>1 DEF CreateIntent
    <3>3. row = [status |-> IF accepted THEN "pending" ELSE "failed", kind |-> "cart",
                 amount |-> Cost(products), refunded |-> 0, covers |-> products,
                 order |-> NoOrder, intent |-> accepted, eventAt |-> 0]
      BY <3>2, Zenon DEF AbsentPayment
    <3>4. PICK status : /\ status = IF accepted THEN "pending" ELSE "failed"
                        /\ status \in {"pending", "failed"}
      BY Zenon
    <3>5. row.status = status /\ row.refunded = 0 /\ row.eventAt = 0
      BY <3>3, <3>4, Zenon
    <3> QED BY <3>2, <3>4, <3>5
  <2>2. CASE \E s \in Staff : InsertCounter(s, t)
    <3>1. PICK s \in Staff : InsertCounter(s, t)
      BY <2>2
    <3>2. PICK row : /\ payments' = [payments EXCEPT ![t] = row]
                     /\ row = [AbsentPayment EXCEPT
                                 !.status = "pending", !.kind = "counter",
                                 !.amount = counter[s].amount,
                                 !.covers = counter[s].products,
                                 !.order = counter[s].order]
      BY <3>1 DEF InsertCounter
    <3>3. row = [status |-> "pending", kind |-> "counter", amount |-> counter[s].amount,
                 refunded |-> 0, covers |-> counter[s].products, order |-> counter[s].order,
                 intent |-> FALSE, eventAt |-> 0]
      BY <3>2, Zenon DEF AbsentPayment
    <3> QED BY <3>2, <3>3
  <2> QED BY <2>1, <2>2
<1>2. /\ payments'[t] = row /\ \A u \in Payment : u # t => payments'[u] = payments[u]
  BY <1>0, <1>1
<1>3. Absent(t) /\ UNCHANGED <<mode, reports, handled, poll>>
  BY DEF CreateIntent, InsertCounter, Fresh, underway
<1>4. payments[t] = AbsentPayment
  BY <1>0, <1>3 DEF AbsentIsBlank
<1> QED BY <1>1, <1>2, <1>3, <1>4

(* The row that staff insert for what was paid at the till.                   *)
LEMMA TillRow ==
    ASSUME PayInv, NEW t \in Payment, NEW o \in Order, NEW k \in Key, ManualBalance(o, t, k)
    PROVE  /\ UNCHANGED <<mode, poll, counter>>
           /\ Absent(t) /\ payments[t] = AbsentPayment /\ reports[t] = <<>> /\ handled[t] = {}
           /\ \A u \in Payment : u # t => /\ payments'[u] = payments[u]
                                          /\ reports'[u] = reports[u] /\ handled'[u] = handled[u]
           /\ payments'[t].status = "paid" /\ payments'[t].refunded = 0
           /\ payments'[t].eventAt = 0
           /\ k \notin keys => /\ reports'[t] = <<[status |-> "paid", refunded |-> 0]>>
                               /\ handled'[t] = {1}
           /\ k \in keys => reports' = reports /\ handled' = handled /\ "resend" \in Circumstance
<1>0. /\ payments \in [Payment -> PaymentRow] /\ AbsentIsBlank
      /\ reports \in [Payment -> Seq(Report)] /\ handled \in [Payment -> SUBSET (1 .. MaxReports)]
  BY DEF PayInv, TypeOK
<1>1. PICK open, amount, row :
        /\ row = [AbsentPayment EXCEPT !.status = "paid", !.kind = "manual", !.covers = open,
                                       !.amount = amount, !.order = o]
        /\ payments' = [payments EXCEPT ![t] = row]
  BY DEF ManualBalance
<1>2. row = [status |-> "paid", kind |-> "manual", amount |-> amount, refunded |-> 0,
             covers |-> open, order |-> o, intent |-> FALSE, eventAt |-> 0]
  BY <1>1, Zenon DEF AbsentPayment
<1>3. /\ IF k \in keys THEN reports' = reports
         ELSE reports' = [reports EXCEPT ![t] = <<[status |-> "paid", refunded |-> 0]>>]
      /\ handled' = IF k \in keys THEN handled ELSE [handled EXCEPT ![t] = {1}]
      /\ k \in keys => "resend" \in Circumstance
      /\ Absent(t) /\ UNCHANGED <<mode, poll, counter>>
  BY DEF ManualBalance, MayResend, Fresh, underway
<1>4. payments[t] = AbsentPayment /\ reports[t] = <<>> /\ handled[t] = {}
  BY <1>0, <1>3 DEF AbsentIsBlank
<1>5. payments'[t] = row /\ \A u \in Payment : u # t => payments'[u] = payments[u]
  BY <1>0, <1>1
<1>6. /\ k \notin keys => /\ reports'[t] = <<[status |-> "paid", refunded |-> 0]>>
                          /\ handled'[t] = {1}
      /\ \A u \in Payment : u # t => reports'[u] = reports[u] /\ handled'[u] = handled[u]
  BY <1>0, <1>3
<1> QED BY <1>2, <1>3, <1>4, <1>5, <1>6

LEMMA FinishedRow ==
    ASSUME PayInv, NEW s \in Staff, NEW accepted \in BOOLEAN, FinishCounter(s, accepted),
           NEW t, t = counter[s].payment
    PROVE  /\ UNCHANGED <<mode, reports, handled, poll>> /\ t \in Payment
           /\ counter[s].at = "created" /\ counter' = [counter EXCEPT ![s] = NoCounter]
           /\ \A u \in Payment : u # t => payments'[u] = payments[u]
           /\ payments'[t].status \in {"pending", "failed"}
           /\ payments'[t].refunded = payments[t].refunded
           /\ payments'[t].eventAt = payments[t].eventAt
<1>0. payments \in [Payment -> PaymentRow]
  BY DEF PayInv, TypeOK
<1>1. t \in Payment
  BY CounterParts, TypeParts DEF FinishCounter, PayInv
<1>2. PICK row : row = [payments[t] EXCEPT !.status = IF accepted THEN "pending" ELSE "failed",
                                           !.intent = accepted]
  OBVIOUS
<1>3. payments' = [payments EXCEPT ![t] = row]
  BY <1>0, <1>1, <1>2 DEF FinishCounter
<1>4. /\ row.status \in {"pending", "failed"}
      /\ row.refunded = payments[t].refunded /\ row.eventAt = payments[t].eventAt
  BY <1>0, <1>1, <1>2 DEF PaymentRow
<1> QED BY <1>0, <1>1, <1>3, <1>4 DEF FinishCounter

(* A report: one more, that may follow the last.                              *)
LEMMA ReportedRows ==
    ASSUME PayInv, NEW t \in Payment, NEW report \in [status : PaymentStatus, refunded : Nat],
           ProviderReports(t, report)
    PROVE  /\ UNCHANGED <<mode, payments, handled, counter, poll>>
           /\ ~ Absent(t) /\ payments[t].intent /\ MayFollow(t, report)
           /\ \A u \in Payment : u # t => reports'[u] = reports[u]
           /\ Len(reports'[t]) = Len(reports[t]) + 1 /\ Len(reports[t]) \in Nat
           /\ reports'[t][Len(reports[t]) + 1] = report
           /\ \A i \in 1 .. Len(reports[t]) : reports'[t][i] = reports[t][i]
<1>0. reports \in [Payment -> Seq(Report)] /\ report \in Report /\ reports[t] \in Seq(Report)
  BY DEF PayInv, TypeOK, Report
<1>1. reports' = [reports EXCEPT ![t] = Append(reports[t], report)]
  BY DEF ProviderReports
<1>2. reports'[t] = Append(reports[t], report) /\ \A u \in Payment : u # t => reports'[u] = reports[u]
  BY <1>0, <1>1
<1>3. ~ Absent(t)
  BY DEF ProviderReports, PayInv, AbsentIsBlank, AbsentPayment
<1> QED BY <1>0, <1>2, <1>3 DEF ProviderReports, underway

(* A report arrives: its effect, or none.                                     *)
LEMMA DeliveredRow ==
    ASSUME PayInv, NEW t \in Payment, NEW k \in 1 .. MaxReports, DeliverEvent(t, k)
    PROVE  /\ UNCHANGED <<mode, reports, counter, poll>>
           /\ k \in 1 .. Len(reports[t]) /\ k \notin handled[t] /\ ~ Absent(t)
           /\ handled' = [handled EXCEPT ![t] = handled[t] \cup {k}]
           /\ \A u \in Payment : u # t => payments'[u] = payments[u] /\ handled'[u] = handled[u]
           /\ handled'[t] = handled[t] \cup {k}
           /\ \E at \in Stamps(t, k) :
                 \/ /\ CanApply(payments[t], reports[t][k], at)
                    /\ payments'[t] = Applied(payments[t], reports[t][k], at)
                 \/ /\ ~ CanApply(payments[t], reports[t][k], at)
                    /\ payments'[t] = payments[t]
<1>0. payments \in [Payment -> PaymentRow] /\ handled \in [Payment -> SUBSET (1 .. MaxReports)]
      /\ reports[t] \in Seq(Report)
  BY DEF PayInv, TypeOK
<1>1. /\ UNCHANGED <<mode, reports, counter, poll>>
      /\ k \in 1 .. Len(reports[t]) /\ k \notin handled[t]
      /\ handled' = [handled EXCEPT ![t] = handled[t] \cup {k}]
  BY DEF DeliverEvent, Deliverable, underway
<1>2. ~ Absent(t)
  BY <1>1 DEF PayInv, AbsentIsBlank
<1>3. PICK at \in Stamps(t, k) :
        IF CanApply(payments[t], reports[t][k], at)
        THEN LET row == Applied(payments[t], reports[t][k], at)
             IN  /\ payments' = [payments EXCEPT ![t] = row]
                 /\ Reconcile(t, row)
        ELSE UNCHANGED <<payments, orders, items>>
  BY DEF DeliverEvent
<1>4. PICK row : row = Applied(payments[t], reports[t][k], at)
  OBVIOUS
<1>5. payments' = [payments EXCEPT ![t] = row] \/ payments' = payments
  BY <1>3, <1>4
<1>6. \/ CanApply(payments[t], reports[t][k], at) /\ payments'[t] = row
      \/ ~ CanApply(payments[t], reports[t][k], at) /\ payments'[t] = payments[t]
  BY <1>0, <1>3, <1>4
<1>7. \A u \in Payment : u # t => payments'[u] = payments[u] /\ handled'[u] = handled[u]
  BY <1>0, <1>1, <1>5
<1>8. handled'[t] = handled[t] \cup {k}
  BY <1>0, <1>1
<1> QED BY <1>1, <1>2, <1>4, <1>6, <1>7, <1>8

-----------------------------------------------------------------------------
(* Nothing is paid that was not collected.                                    *)

(* A payment that is paid or returned, on record, by report or by what the    *)
(* provider told a returning customer, was made.                              *)
MadeInv ==
    /\ \A t \in Payment : Final(payments[t].status) => Made(t)
    /\ \A t \in Payment : \A k \in 1 .. Len(reports[t]) : Final(reports[t][k].status) => Made(t)
    /\ poll # NoPoll => (Final(poll.status) => Made(poll.payment))

LEMMA InitMade == Init => MadeInv
BY DEF Init, MadeInv, AbsentPayment, Final, NoPoll

LEMMA MadeSame ==
    ASSUME MadeInv, UNCHANGED reports, poll' \in {poll, NoPoll},
           \A t \in Payment : Final(payments'[t].status) => Final(payments[t].status) \/ Made(t)
    PROVE  MadeInv'
BY DEF MadeInv, Made, NoPoll

LEMMA StepMade ==
    ASSUME "uncollected" \notin Circumstance, "resend" \notin Circumstance,
           PayInv, MadeInv, [Next]_vars
    PROVE  MadeInv'
<1>0. /\ payments \in [Payment -> PaymentRow] /\ reports \in [Payment -> Seq(Report)]
      /\ poll \in Poll \cup {NoPoll}
  BY DEF PayInv, TypeOK
<1>1. CASE Quiet
  BY <1>1, MadeSame DEF Quiet
<1>2. ASSUME NEW t \in Payment,
             NEW report \in [status : PaymentStatus, refunded : Nat], ProviderReports(t, report)
      PROVE  MadeInv'
  <2>1. /\ UNCHANGED <<payments, poll>>
        /\ \A u \in Payment : u # t => reports'[u] = reports[u]
        /\ Len(reports'[t]) = Len(reports[t]) + 1 /\ Len(reports[t]) \in Nat
        /\ reports'[t][Len(reports[t]) + 1] = report
        /\ \A i \in 1 .. Len(reports[t]) : reports'[t][i] = reports[t][i]
        /\ MayFollow(t, report)
    BY <1>2, ReportedRows
  <2>2. \A u \in Payment : Made(u) => Made(u)'
    BY <2>1 DEF Made
  <2>3. Final(report.status) => Made(t)'
    <3>1. CASE report.status = "paid"
      BY <2>1, <3>1 DEF Made
    <3>2. CASE report.status = "refunded"
      <4>1. Len(reports[t]) # 0
        BY <1>2, <2>1, <3>2 DEF MayFollow
      <4>2. PICK n \in 1 .. Len(reports[t]) : n = Len(reports[t])
        BY <2>1, <4>1
      <4>3. reports[t] \in Seq(Report)
        BY <1>0
      <4>4. reports[t][n] \in Report
        BY <4>2, <4>3
      <4>5. reports[t][n] \in [status : PaymentStatus, refunded : Nat]
        BY <4>4 DEF Report
      <4>6. Final(reports[t][n].status)
        BY <1>2, <2>1, <3>2, <4>1, <4>2, <4>5 DEF MayFollow, Final
      <4> QED BY <2>2, <4>2, <4>6 DEF MadeInv
    <3> QED BY <3>1, <3>2 DEF Final
  <2>4. ASSUME NEW u \in Payment, NEW k \in 1 .. Len(reports'[u]), Final(reports'[u][k].status)
        PROVE  Made(u)'
    <3>1. CASE u = t /\ k = Len(reports[t]) + 1
      BY <2>1, <2>3, <2>4, <3>1
    <3>2. CASE ~ (u = t /\ k = Len(reports[t]) + 1)
      <4>1. k \in 1 .. Len(reports[u]) /\ reports'[u][k] = reports[u][k]
        BY <2>1, <3>2
      <4> QED BY <2>2, <2>4, <4>1 DEF MadeInv
    <3> QED BY <3>1, <3>2
  <2>5. poll # NoPoll => poll.payment \in Payment
    BY <1>0 DEF Poll
  <2> QED BY <2>1, <2>2, <2>4, <2>5 DEF MadeInv
<1>3. ASSUME NEW t \in Payment, NEW k \in 1 .. MaxReports, DeliverEvent(t, k)
      PROVE  MadeInv'
  <2>1. /\ UNCHANGED <<reports, poll>> /\ k \in 1 .. Len(reports[t])
        /\ \A u \in Payment : u # t => payments'[u] = payments[u]
    BY <1>3, DeliveredRow
  <2>2. PICK at \in Stamps(t, k) :
          \/ payments'[t] = Applied(payments[t], reports[t][k], at)
          \/ payments'[t] = payments[t]
    BY <1>3, DeliveredRow
  <2>3. Final(payments'[t].status) => Final(payments[t].status) \/ Made(t)
    <3>1. CASE payments'[t] = payments[t]
      BY <3>1
    <3>2. CASE payments'[t] = Applied(payments[t], reports[t][k], at)
      <4>1. payments'[t].status = reports[t][k].status \/ reports[t][k].status = "refunded"
        BY <1>0, <3>2 DEF Applied, PaymentRow
      <4>2. Final(payments'[t].status) => Final(reports[t][k].status)
        BY <4>1 DEF Final
      <4> QED BY <2>1, <4>2 DEF MadeInv
    <3> QED BY <2>2, <3>1, <3>2
  <2> QED BY <2>1, <2>3, MadeSame
<1>4. ASSUME NEW t \in Payment, PollProvider(t)
      PROVE  MadeInv'
  <2>1. /\ poll' = [payment |-> t, status |-> reports[t][Len(reports[t])].status]
        /\ reports[t] # <<>> /\ UNCHANGED <<payments, reports>>
    BY <1>4 DEF PollProvider
  <2>2. Len(reports[t]) \in 1 .. Len(reports[t])
    BY <1>0, <2>1
  <2> QED BY <2>1, <2>2 DEF MadeInv, Made
<1>5. ASSUME NEW t \in Payment,
             \/ \E products \in SUBSET Product, accepted \in BOOLEAN :
                  CreateIntent(t, products, accepted)
             \/ \E s \in Staff : InsertCounter(s, t)
      PROVE  MadeInv'
  <2>1. /\ UNCHANGED <<reports, poll>> /\ payments'[t].status \in {"pending", "failed"}
        /\ \A u \in Payment : u # t => payments'[u] = payments[u]
    BY <1>5, NewRows
  <2>2. ~ Final(payments'[t].status)
    BY <2>1 DEF Final
  <2> QED BY <2>1, <2>2, MadeSame
<1>6. ASSUME NEW t \in Payment, NEW o \in Order, NEW k \in Key, ManualBalance(o, t, k)
      PROVE  MadeInv'
  <2>1. /\ UNCHANGED poll /\ reports[t] = <<>>
        /\ \A u \in Payment : u # t => payments'[u] = payments[u] /\ reports'[u] = reports[u]
        /\ reports'[t] = <<[status |-> "paid", refunded |-> 0]>>
    BY <1>6, TillRow
  <2>2. Made(t)' /\ ~ Made(t)
    BY <2>1 DEF Made
  <2>3. \A u \in Payment : u # t => (Made(u)' <=> Made(u))
    BY <2>1 DEF Made
  <2>4. poll # NoPoll => poll.payment \in Payment
    BY <1>0 DEF Poll
  <2> QED BY <2>1, <2>2, <2>3, <2>4 DEF MadeInv
<1>7. ASSUME NEW s \in Staff, NEW accepted \in BOOLEAN, FinishCounter(s, accepted)
      PROVE  MadeInv'
  <2>1. PICK t : t = counter[s].payment
    OBVIOUS
  <2>2. /\ UNCHANGED <<reports, poll>> /\ payments'[t].status \in {"pending", "failed"}
        /\ \A u \in Payment : u # t => payments'[u] = payments[u]
    BY <1>7, <2>1, FinishedRow
  <2>3. ~ Final(payments'[t].status)
    BY <2>2 DEF Final
  <2> QED BY <2>2, <2>3, MadeSame
<1>8. CASE PollWrite
  <2>1. /\ poll \in Poll /\ poll.payment \in Payment /\ poll' = NoPoll /\ UNCHANGED reports
        /\ payments' = [payments EXCEPT
                          ![poll.payment] = [payments[poll.payment] EXCEPT !.status = poll.status]]
        /\ Final(poll.status) => Made(poll.payment)
    BY <1>0, <1>8 DEF PollWrite, Poll, MadeInv
  <2>2. payments'[poll.payment].status = poll.status
        /\ \A u \in Payment : u # poll.payment => payments'[u] = payments[u]
    BY <1>0, <2>1 DEF PaymentRow
  <2>3. \A u \in Payment : Final(payments'[u].status) => Final(payments[u].status) \/ Made(u)
    BY <2>1, <2>2
  <2> QED BY <2>1, <2>3, MadeSame
<1> QED BY <1>1, <1>2, <1>3, <1>4, <1>5, <1>6, <1>7, <1>8, StepKinds

(* A payment is only ever paid if the provider reported it or the till took   *)
(* it, for any number of orders, payments, reports and requests under way, if *)
(* staff settle no order whose payment was not made and no manual operation   *)
(* comes again when it is no longer done.                                     *)
THEOREM PaidPaymentsWereCollected ==
    ASSUME "uncollected" \notin Circumstance, "resend" \notin Circumstance
    PROVE  Spec => []PaidIsCollected
<1>1. Init => PayInv /\ MadeInv
  BY InitType, InitMade
<1>2. PayInv /\ MadeInv /\ [Next]_vars => (PayInv /\ MadeInv)'
  BY NextType, StepMade
<1>3. PayInv /\ MadeInv => PaidIsCollected
  BY DEF MadeInv, PaidIsCollected, Final
<1> QED BY <1>1, <1>2, <1>3, PTL DEF Spec

-----------------------------------------------------------------------------
(* What was collected stays on record, and what was returned.                 *)

(* Only what was reported is handled, nothing but a refund follows a report   *)
(* of a payment, and payOS reports once.                                      *)
ReportsInv ==
    \A t \in Payment :
       /\ handled[t] \subseteq 1 .. Len(reports[t])
       /\ \A i, j \in 1 .. Len(reports[t]) :
            i <= j /\ Final(reports[t][i].status) => Final(reports[t][j].status)
       /\ mode = "external" => Len(reports[t]) <= 1

(* last_provider_event_at is the stamp of a report that was handled, and what *)
(* was paid by then, or is reported as paid and handled, is on record.        *)
RecordOf(t) ==
    /\ payments[t].eventAt = 0
       \/ \E k \in handled[t] : /\ payments[t].eventAt = 2 * k
                                /\ Final(reports[t][k].status) => Final(payments[t].status)
    /\ \A k \in handled[t] : reports[t][k].status = "paid" => Final(payments[t].status)
RecordInv == \A t \in Payment : RecordOf(t)

(* What a returning customer's request was told is all there is to be told.   *)
PollInv ==
    poll # NoPoll => /\ mode = "external" /\ Len(reports[poll.payment]) = 1
                     /\ poll.status = reports[poll.payment][1].status

(* A counter payment that is being begun is in the hands of one request, and  *)
(* unknown to the provider.                                                   *)
Begun(s) == counter[s].at = "created"
CounterInv ==
    /\ \A s \in Staff : Begun(s) =>
         /\ ~ Absent(counter[s].payment) /\ ~ payments[counter[s].payment].intent
         /\ reports[counter[s].payment] = <<>>
    /\ \A s, r \in Staff :
         Begun(s) /\ Begun(r) /\ counter[s].payment = counter[r].payment => s = r

SeenInv == ReportsInv /\ PollInv /\ CounterInv
KeptInv == SeenInv /\ RecordInv

LEMMA InitKept == Init => KeptInv
BY DEF Init, KeptInv, SeenInv, ReportsInv, RecordInv, RecordOf, PollInv, CounterInv, Begun,
       NoCounter, NoPoll, AbsentPayment

LEMMA CounterPayment ==
    ASSUME PayInv, NEW s \in Staff, Begun(s)
    PROVE  counter[s].payment \in Payment
BY CounterParts, TypeParts DEF PayInv, Begun

LEMMA CounterSame ==
    ASSUME PayInv, CounterInv,
           \A s \in Staff : Begun(s)' => counter'[s] = counter[s],
           \A t \in Payment : /\ ~ Absent(t) => ~ Absent(t)'
                              /\ ~ payments[t].intent /\ reports[t] = <<>> /\ ~ Absent(t) =>
                                 ~ payments'[t].intent /\ reports'[t] = <<>>
    PROVE  CounterInv'
<1>1. ASSUME NEW s \in Staff, Begun(s)'
      PROVE  Begun(s) /\ counter'[s] = counter[s]
  BY <1>1 DEF Begun
<1>2. ASSUME NEW s \in Staff, Begun(s)'
      PROVE  (/\ ~ Absent(counter[s].payment) /\ ~ payments[counter[s].payment].intent
              /\ reports[counter[s].payment] = <<>>)'
  <2>1. PICK t : t = counter[s].payment
    OBVIOUS
  <2>2. t \in Payment /\ ~ Absent(t) /\ ~ payments[t].intent /\ reports[t] = <<>>
    BY <1>1, <1>2, <2>1, CounterPayment DEF CounterInv
  <2>3. ~ Absent(t)' /\ ~ payments'[t].intent /\ reports'[t] = <<>>
    BY <2>2
  <2>4. counter'[s].payment = t
    BY <1>1, <1>2, <2>1
  <2> QED BY <2>3, <2>4 DEF Absent
<1>3. ASSUME NEW s \in Staff, NEW r \in Staff, Begun(s)', Begun(r)',
             counter'[s].payment = counter'[r].payment
      PROVE  s = r
  <2>1. Begun(s) /\ Begun(r) /\ counter[s].payment = counter[r].payment
    BY <1>1, <1>3
  <2> QED BY <2>1 DEF CounterInv
<1> QED BY <1>2, <1>3 DEF CounterInv

LEMMA ReportsSame ==
    ASSUME ReportsInv, UNCHANGED <<mode, reports, handled>>
    PROVE  ReportsInv'
BY DEF ReportsInv

LEMMA PollSame ==
    ASSUME PayInv, PollInv, UNCHANGED <<mode, reports>>, poll' \in {poll, NoPoll}
    PROVE  PollInv'
BY DEF PollInv, NoPoll

LEMMA RecordSame ==
    ASSUME NEW t \in Payment, RecordOf(t),
           reports'[t] = reports[t], handled'[t] = handled[t],
           payments'[t].eventAt = payments[t].eventAt,
           Final(payments[t].status) => Final(payments'[t].status)
    PROVE  RecordOf(t)'
BY DEF RecordOf

LEMMA QuietKept ==
    ASSUME PayInv, SeenInv, Quiet
    PROVE  SeenInv' /\ (RecordInv => RecordInv')
<1>1. ReportsInv' /\ PollInv'
  BY ReportsSame, PollSame DEF Quiet, SeenInv
<1>2. RecordInv => RecordInv'
  BY RecordSame DEF Quiet, RecordInv
<1>3. CounterInv'
  BY CounterSame DEF Quiet, SeenInv, Begun
<1> QED BY <1>1, <1>2, <1>3 DEF SeenInv

LEMMA ReportKept ==
    ASSUME PayInv, SeenInv, NEW t \in Payment,
           NEW report \in [status : PaymentStatus, refunded : Nat], ProviderReports(t, report)
    PROVE  SeenInv' /\ (RecordInv => RecordInv')
<1>0. /\ handled \in [Payment -> SUBSET (1 .. MaxReports)] /\ poll \in Poll \cup {NoPoll}
      /\ mode \in {"demo", "external"}
  BY DEF PayInv, TypeOK
<1> DEFINE n == Len(reports[t])
<1>1. /\ UNCHANGED <<mode, payments, handled, counter, poll>>
      /\ \A u \in Payment : u # t => reports'[u] = reports[u]
      /\ Len(reports'[t]) = n + 1 /\ n \in Nat
      /\ reports'[t][n + 1] = report
      /\ \A i \in 1 .. n : reports'[t][i] = reports[t][i]
      /\ MayFollow(t, report) /\ payments[t].intent
  BY ReportedRows
<1>2. \A i \in 1 .. n : Final(reports[t][i].status) => Final(report.status)
  <2>1. ASSUME NEW i \in 1 .. n, Final(reports[t][i].status) PROVE Final(report.status)
    <3>1. n \in 1 .. n /\ i <= n /\ n # 0
      BY <1>1
    <3>2. Final(reports[t][n].status)
      BY <2>1, <3>1 DEF SeenInv, ReportsInv
    <3>3. reports[t][n].status = "paid" \/ reports[t][n].status = "refunded"
      BY <3>2 DEF Final
    <3> QED BY <3>1, <3>3 , <1>1 DEF MayFollow, Final
  <2> QED BY <2>1
<1>3. mode = "external" => n = 0
  BY <1>1 DEF MayFollow
<1> HIDE DEF n
<1>4. ReportsInv'
  <2>1. ASSUME NEW u \in Payment
        PROVE  (/\ handled[u] \subseteq 1 .. Len(reports[u])
                /\ \A i, j \in 1 .. Len(reports[u]) :
                     i <= j /\ Final(reports[u][i].status) => Final(reports[u][j].status)
                /\ mode = "external" => Len(reports[u]) <= 1)'
    <3>0. /\ handled[u] \subseteq 1 .. Len(reports[u])
          /\ \A i, j \in 1 .. Len(reports[u]) :
               i <= j /\ Final(reports[u][i].status) => Final(reports[u][j].status)
          /\ mode = "external" => Len(reports[u]) <= 1
      BY DEF SeenInv, ReportsInv
    <3>1. CASE u # t
      BY <1>1, <3>0, <3>1
    <3>2. CASE u = t
      <4>1. handled[t] \subseteq 1 .. n + 1
        BY <1>1, <3>0, <3>2 DEF n
      <4>2. mode = "external" => Len(reports'[t]) <= 1
        BY <1>1, <1>3
      <4>3. ASSUME NEW i \in 1 .. n + 1, NEW j \in 1 .. n + 1, i <= j,
                   Final(reports'[t][i].status)
            PROVE  Final(reports'[t][j].status)
        <5>1. CASE j # n + 1
          <6>1. i \in 1 .. n /\ j \in 1 .. n
            BY <1>1, <4>3, <5>1
          <6> QED BY <1>1, <3>0, <3>2, <4>3, <6>1 DEF n
        <5>2. CASE j = n + 1 /\ i # n + 1
          <6>1. i \in 1 .. n
            BY <1>1, <5>2
          <6> QED BY <1>1, <1>2, <4>3, <5>2, <6>1
        <5>3. CASE j = n + 1 /\ i = n + 1
          BY <4>3, <5>3
        <5> QED BY <5>1, <5>2, <5>3
      <4> QED BY <1>1, <3>2, <4>1, <4>2, <4>3
    <3> QED BY <3>1, <3>2
  <2> QED BY <2>1 DEF ReportsInv
<1>5. RecordInv => RecordInv'
  <2> SUFFICES ASSUME RecordInv PROVE RecordInv'
    OBVIOUS
  <2>1. ASSUME NEW u \in Payment PROVE RecordOf(u)'
    <3>1. \A k \in handled[u] : reports'[u][k] = reports[u][k]
      <4>1. handled[u] \subseteq 1 .. Len(reports[u])
        BY DEF SeenInv, ReportsInv
      <4> QED BY <1>1, <4>1 DEF n
    <3> QED BY <1>1, <3>1 DEF RecordInv, RecordOf
  <2> QED BY <2>1 DEF RecordInv
<1>6. PollInv'
  <2>1. poll # NoPoll => poll.payment \in Payment /\ poll.payment # t
    BY <1>0, <1>3 DEF SeenInv, PollInv, Poll, n
  <2> QED BY <1>1, <2>1 DEF SeenInv, PollInv
<1>7. CounterInv'
  BY <1>1, CounterSame DEF SeenInv, Absent
<1> QED BY <1>4, <1>5, <1>6, <1>7 DEF SeenInv

LEMMA DeliverKept ==
    ASSUME PayInv, SeenInv, NEW t \in Payment,
           NEW k \in 1 .. MaxReports, DeliverEvent(t, k)
    PROVE  /\ SeenInv'
           /\ "unstamped" \notin Circumstance /\ RecordInv => RecordInv'
<1>0. /\ payments \in [Payment -> PaymentRow] /\ handled \in [Payment -> SUBSET (1 .. MaxReports)]
      /\ reports \in [Payment -> Seq(Report)]
  BY DEF PayInv, TypeOK
<1>1. /\ UNCHANGED <<mode, reports, counter, poll>>
      /\ k \in 1 .. Len(reports[t]) /\ k \notin handled[t] /\ ~ Absent(t)
      /\ \A u \in Payment : u # t => payments'[u] = payments[u] /\ handled'[u] = handled[u]
      /\ handled'[t] = handled[t] \cup {k}
  BY DeliveredRow
<1>2. PICK at \in Stamps(t, k) :
         \/ /\ CanApply(payments[t], reports[t][k], at)
            /\ payments'[t] = Applied(payments[t], reports[t][k], at)
         \/ /\ ~ CanApply(payments[t], reports[t][k], at)
            /\ payments'[t] = payments[t]
  BY DeliveredRow
<1>3. /\ payments[t] \in PaymentRow /\ payments[t].status \in PaymentStatus
      /\ reports[t][k] \in Report
  BY <1>0, <1>1 DEF PaymentRow, Absent
<1>4. ReportsInv'
  <2>1. \A u \in Payment : handled'[u] \subseteq 1 .. Len(reports[u])
    BY <1>1 DEF SeenInv, ReportsInv
  <2> QED BY <1>1, <2>1 DEF SeenInv, ReportsInv
<1>5. PollInv'
  BY <1>1, PollSame DEF SeenInv
<1>6. payments'[t].intent = payments[t].intent /\ ~ Absent(t)'
  BY <1>1, <1>2, <1>3 DEF Applied, PaymentRow, Absent, Report, PaymentStatus
<1>7. CounterInv'
  BY <1>1, <1>6, CounterSame DEF SeenInv, Absent, Begun
<1>8. Final(payments[t].status) => Final(payments'[t].status)
  <2>1. CASE payments'[t] = payments[t]
    BY <2>1
  <2>2. CASE /\ CanApply(payments[t], reports[t][k], at)
             /\ payments'[t] = Applied(payments[t], reports[t][k], at)
    <3>1. Final(payments[t].status) => Final(reports[t][k].status)
      BY <2>2 DEF CanApply, Transitions, Final
    <3>2. payments'[t].status \in {reports[t][k].status, "paid"}
      BY <1>3, <2>2 DEF Applied, PaymentRow
    <3> QED BY <3>1, <3>2 DEF Final
  <2> QED BY <1>2, <2>1, <2>2
<1>9. ASSUME "unstamped" \notin Circumstance, RecordInv
      PROVE  RecordInv'
  <2>1. at = 2 * k
    BY <1>9 DEF Stamps
  <2> USE <1>9, <2>1
  <2>9. reports[t][k].status = "paid" => Final(payments'[t].status)
    <3> SUFFICES ASSUME reports[t][k].status = "paid" PROVE Final(payments'[t].status)
      OBVIOUS
    <3>1. CASE CanApply(payments[t], reports[t][k], 2 * k)
      <4>1. payments'[t] = Applied(payments[t], reports[t][k], 2 * k)
        BY <1>2, <3>1
      <4> QED BY <1>3, <4>1 DEF Applied, PaymentRow, Final
    <3>2. CASE ~ CanApply(payments[t], reports[t][k], 2 * k) /\ payments[t].eventAt <= 2 * k
      <4>1. "paid" \notin Transitions[payments[t].status]
        BY <1>3, <3>2 DEF CanApply, PaymentRow
      <4>2. payments[t].status = "refunded"
        BY <1>3, <4>1 DEF Transitions, PaymentStatus
      <4> QED BY <1>8, <4>2 DEF Final
    <3>3. CASE ~ (payments[t].eventAt <= 2 * k)
      <4>1. payments[t].eventAt # 0
        BY <3>3
      <4>2. PICK j \in handled[t] : /\ payments[t].eventAt = 2 * j
                                    /\ Final(reports[t][j].status) => Final(payments[t].status)
        BY <4>1 DEF RecordInv, RecordOf
      <4>3. j \in 1 .. Len(reports[t])
        BY <4>2 DEF SeenInv, ReportsInv
      <4>4. k <= j
        <5>1. Len(reports[t]) \in Nat
          BY <1>0
        <5>2. k \in Nat /\ j \in Nat
          BY <1>1, <4>3, <5>1
        <5>3. ~ (2 * j <= 2 * k)
          BY <3>3, <4>2
        <5> QED BY <5>2, <5>3
      <4>5. Final(reports[t][j].status)
        <5>1. Final(reports[t][k].status)
          BY DEF Final
        <5>2. \A i, m \in 1 .. Len(reports[t]) :
                i <= m /\ Final(reports[t][i].status) => Final(reports[t][m].status)
          BY DEF SeenInv, ReportsInv
        <5> QED BY <1>1, <4>3, <4>4, <5>1, <5>2
      <4> QED BY <1>8, <4>2, <4>5
    <3> QED BY <3>1, <3>2, <3>3
  <2>10. RecordOf(t)'
    <3>1. \A j \in handled'[t] : reports'[t][j].status = "paid" => Final(payments'[t].status)
      BY <1>1, <1>8, <2>9 DEF RecordInv, RecordOf
    <3>2. \/ payments'[t].eventAt = 0
          \/ \E j \in handled'[t] : /\ payments'[t].eventAt = 2 * j
                                    /\ Final(reports'[t][j].status) => Final(payments'[t].status)
      <4>1. CASE payments'[t] = payments[t]
        BY <1>1, <4>1 DEF RecordInv, RecordOf
      <4>2. CASE payments'[t] = Applied(payments[t], reports[t][k], 2 * k)
        <5>1. payments'[t].eventAt = 2 * k
          BY <1>3, <4>2 DEF Applied, PaymentRow
        <5>2. payments'[t].status \in {reports[t][k].status, "paid"}
          BY <1>3, <4>2 DEF Applied, PaymentRow
        <5>3. Final(reports[t][k].status) => Final(payments'[t].status)
          BY <5>2 DEF Final
        <5> QED BY <1>1, <5>1, <5>3
      <4> QED BY <1>2, <4>1, <4>2
    <3> QED BY <3>1, <3>2 DEF RecordOf
  <2> QED BY <1>1, <1>9, <2>10, RecordSame DEF RecordInv
<1> QED BY <1>4, <1>5, <1>7, <1>9 DEF SeenInv

LEMMA PollProviderKept ==
    ASSUME PayInv, SeenInv, NEW t \in Payment, PollProvider(t)
    PROVE  SeenInv' /\ (RecordInv => RecordInv')
<1>0. reports[t] \in Seq(Report) /\ reports[t] # <<>>
  BY DEF PayInv, TypeOK, PollProvider
<1>1. /\ UNCHANGED <<mode, payments, reports, handled, counter>> /\ mode = "external"
      /\ poll' = [payment |-> t, status |-> reports[t][Len(reports[t])].status]
  BY DEF PollProvider
<1>2. Len(reports[t]) = 1
  <2>1. Len(reports[t]) <= 1
    BY <1>1 DEF SeenInv, ReportsInv
  <2>2. PICK n \in Nat : n = Len(reports[t]) /\ n # 0
    BY <1>0
  <2>3. n <= 1 /\ n # 0
    BY <2>1, <2>2
  <2>4. n = 1
    BY <2>3
  <2> QED BY <2>2, <2>4
<1>3. PollInv'
  BY <1>1, <1>2 DEF PollInv
<1>4. ReportsInv'
  BY <1>1, ReportsSame DEF SeenInv
<1>5. RecordInv => RecordInv'
  BY <1>1, RecordSame DEF RecordInv
<1>6. CounterInv'
  BY <1>1, CounterSame DEF SeenInv, Absent, Begun
<1> QED BY <1>3, <1>4, <1>5, <1>6 DEF SeenInv

LEMMA PollWriteKept ==
    ASSUME PayInv, SeenInv, PollWrite
    PROVE  SeenInv' /\ (RecordInv => RecordInv')
<1>0. payments \in [Payment -> PaymentRow] /\ poll \in Poll
  BY DEF PayInv, TypeOK, PollWrite
<1>1. PICK t \in Payment : t = poll.payment
  BY <1>0 DEF Poll
<1>2. /\ UNCHANGED <<mode, reports, handled, counter>> /\ poll' = NoPoll /\ poll # NoPoll
      /\ payments' = [payments EXCEPT ![t] = [payments[t] EXCEPT !.status = poll.status]]
  BY <1>1 DEF PollWrite
<1>3. /\ payments'[t].status = poll.status /\ payments'[t].eventAt = payments[t].eventAt
      /\ payments'[t].intent = payments[t].intent
      /\ \A u \in Payment : u # t => payments'[u] = payments[u]
  BY <1>0, <1>2 DEF PaymentRow
<1>4. poll.status = reports[t][1].status /\ Len(reports[t]) = 1 /\ poll.status \in PaymentStatus
  BY <1>0, <1>1, <1>2 DEF SeenInv, PollInv, Poll
<1>5. \A k \in handled[t] : k = 1
  BY <1>4 DEF SeenInv, ReportsInv
<1>6. RecordInv => RecordOf(t)'
  <2>1. \A k \in handled[t] : reports'[t][k].status = payments'[t].status
    BY <1>2, <1>3, <1>4, <1>5
  <2> QED BY <1>2, <1>3, <2>1 DEF RecordInv, RecordOf, Final
<1>7. RecordInv => RecordInv'
  BY <1>2, <1>3, <1>6, RecordSame DEF RecordInv
<1>8. ReportsInv' /\ PollInv'
  BY <1>2, ReportsSame, PollSame DEF SeenInv
<1>9. CounterInv'
  <2>1. ~ Absent(t)'
    BY <1>3, <1>4 DEF Absent, PaymentStatus
  <2> QED BY <1>2, <1>3, <2>1, CounterSame DEF SeenInv, Absent, Begun
<1> QED BY <1>7, <1>8, <1>9 DEF SeenInv

(* A payment that is inserted is in the hands of nobody else.                 *)
LEMMA NewCounter ==
    ASSUME PayInv, CounterInv, NEW t \in Payment, Absent(t), ~ Absent(t)', reports[t] = <<>>,
           \A u \in Payment : u # t => payments'[u] = payments[u] /\ reports'[u] = reports[u],
           \/ UNCHANGED counter
           \/ \E s \in Staff : /\ counter' = [counter EXCEPT ![s] = [at |-> "created", payment |-> t]]
                               /\ ~ payments'[t].intent /\ UNCHANGED reports
    PROVE  CounterInv'
<1>1. ASSUME NEW r \in Staff, Begun(r)
      PROVE  /\ counter[r].payment \in Payment /\ counter[r].payment # t
             /\ ~ Absent(counter[r].payment) /\ ~ payments[counter[r].payment].intent
             /\ reports[counter[r].payment] = <<>>
  BY <1>1, CounterPayment DEF CounterInv
<1>2. CASE UNCHANGED counter
  BY <1>1, <1>2 DEF CounterInv, Begun, Absent
<1>3. ASSUME NEW s \in Staff, counter' = [counter EXCEPT ![s] = [at |-> "created", payment |-> t]],
             ~ payments'[t].intent, UNCHANGED reports
      PROVE  CounterInv'
  <2>1. counter'[s].payment = t /\ \A r \in Staff : r # s => counter'[r] = counter[r]
    BY <1>3 DEF PayInv, TypeOK
  <2>2. ASSUME NEW r \in Staff, Begun(r)'
        PROVE  (/\ ~ Absent(counter[r].payment) /\ ~ payments[counter[r].payment].intent
                /\ reports[counter[r].payment] = <<>>)'
    <3>1. CASE r = s
      BY <1>3, <2>1, <3>1 DEF Absent
    <3>2. CASE r # s
      BY <1>1, <1>3, <2>1, <2>2, <3>2 DEF Absent, Begun
    <3> QED BY <3>1, <3>2
  <2>3. ASSUME NEW q \in Staff, NEW r \in Staff, Begun(q)', Begun(r)',
               counter'[q].payment = counter'[r].payment
        PROVE  q = r
    <3>1. CASE q = s \/ r = s
      BY <1>1, <2>1, <2>3, <3>1 DEF Begun
    <3>2. CASE q # s /\ r # s
      BY <2>1, <2>3, <3>2 DEF Begun, CounterInv
    <3> QED BY <3>1, <3>2
  <2> QED BY <2>2, <2>3 DEF CounterInv
<1> QED BY <1>2, <1>3

LEMMA NewRowKept ==
    ASSUME PayInv, SeenInv, NEW t \in Payment,
           \/ \E products \in SUBSET Product, accepted \in BOOLEAN :
                CreateIntent(t, products, accepted)
           \/ \E s \in Staff : InsertCounter(s, t)
    PROVE  SeenInv' /\ (RecordInv => RecordInv')
<1>1. /\ UNCHANGED <<mode, reports, handled, poll>>
      /\ Absent(t) /\ payments[t] = AbsentPayment
      /\ \A u \in Payment : u # t => payments'[u] = payments[u]
      /\ payments'[t].status \in {"pending", "failed"}
      /\ payments'[t].eventAt = 0
  BY NewRows
<1>2. reports[t] = <<>> /\ handled[t] = {} /\ ~ Absent(t)'
  BY <1>1 DEF PayInv, AbsentIsBlank, Absent
<1>3. ReportsInv' /\ PollInv'
  BY <1>1, ReportsSame, PollSame DEF SeenInv
<1>4. RecordOf(t)'
  BY <1>1, <1>2 DEF RecordOf
<1>5. RecordInv => RecordInv'
  BY <1>1, <1>4, RecordSame DEF RecordInv
<1>6. CounterInv'
  <2>1. CASE \E products \in SUBSET Product, accepted \in BOOLEAN :
               CreateIntent(t, products, accepted)
    BY <1>1, <1>2, <2>1, NewCounter DEF SeenInv, CreateIntent, underway
  <2>2. CASE \E s \in Staff : InsertCounter(s, t)
    <3>1. PICK s \in Staff : InsertCounter(s, t)
      BY <2>2
    <3>2. PICK row : /\ payments' = [payments EXCEPT ![t] = row]
                     /\ row = [AbsentPayment EXCEPT
                                 !.status = "pending", !.kind = "counter",
                                 !.amount = counter[s].amount,
                                 !.covers = counter[s].products,
                                 !.order = counter[s].order]
      BY <3>1 DEF InsertCounter
    <3>3. row = [status |-> "pending", kind |-> "counter", amount |-> counter[s].amount,
                 refunded |-> 0, covers |-> counter[s].products, order |-> counter[s].order,
                 intent |-> FALSE, eventAt |-> 0]
      BY <3>2, Zenon DEF AbsentPayment
    <3>4. payments'[t] = row
      BY <3>2 DEF PayInv, TypeOK
    <3>5. ~ payments'[t].intent
      <4>1. row.intent = FALSE
        BY <3>3
      <4> QED BY <3>4, <4>1
    <3>6. counter' = [counter EXCEPT ![s] = [at |-> "created", payment |-> t]]
      BY <3>1 DEF InsertCounter
    <3> QED BY <1>1, <1>2, <3>5, <3>6, NewCounter DEF SeenInv
  <2> QED BY <2>1, <2>2
<1> QED BY <1>3, <1>5, <1>6 DEF SeenInv

LEMMA TillKept ==
    ASSUME PayInv, SeenInv, NEW t \in Payment, NEW o \in Order, NEW k \in Key,
           ManualBalance(o, t, k)
    PROVE  SeenInv' /\ (RecordInv => RecordInv')
<1>0. poll \in Poll \cup {NoPoll}
  BY DEF PayInv, TypeOK
<1>1. /\ UNCHANGED <<mode, poll, counter>>
      /\ Absent(t) /\ reports[t] = <<>> /\ handled[t] = {}
      /\ \A u \in Payment : u # t => /\ payments'[u] = payments[u]
                                     /\ reports'[u] = reports[u] /\ handled'[u] = handled[u]
      /\ payments'[t].status = "paid" /\ payments'[t].eventAt = 0
      /\ k \notin keys => /\ reports'[t] = <<[status |-> "paid", refunded |-> 0]>>
                          /\ handled'[t] = {1}
      /\ k \in keys => reports' = reports /\ handled' = handled
  BY TillRow
<1>2. \/ reports'[t] = <<>> /\ handled'[t] = {}
      \/ reports'[t] = <<[status |-> "paid", refunded |-> 0]>> /\ handled'[t] = {1}
  BY <1>1
<1>3. ReportsInv'
  <2>1. /\ handled'[t] \subseteq 1 .. Len(reports'[t])
        /\ \A i, j \in 1 .. Len(reports'[t]) : i = j
        /\ Len(reports'[t]) <= 1
    <3>1. CASE reports'[t] = <<>> /\ handled'[t] = {}
      BY <3>1
    <3>2. CASE reports'[t] = <<[status |-> "paid", refunded |-> 0]>> /\ handled'[t] = {1}
      <4>1. Len(reports'[t]) = 1
        BY <3>2
      <4> QED BY <3>2, <4>1
    <3> QED BY <1>2, <3>1, <3>2
  <2> QED BY <1>1, <2>1 DEF SeenInv, ReportsInv
<1>4. RecordOf(t)'
  BY <1>1 DEF RecordOf, Final
<1>5. RecordInv => RecordInv'
  BY <1>1, <1>4, RecordSame DEF RecordInv
<1>6. PollInv'
  <2>1. poll # NoPoll => poll.payment \in Payment /\ poll.payment # t
    BY <1>0, <1>1 DEF SeenInv, PollInv, Poll
  <2> QED BY <1>1, <2>1 DEF SeenInv, PollInv
<1>7. CounterInv'
  <2>1. ~ Absent(t)'
    BY <1>1 DEF Absent
  <2> QED BY <1>1, <2>1, NewCounter DEF SeenInv
<1> QED BY <1>3, <1>5, <1>6, <1>7 DEF SeenInv

LEMMA FinishKept ==
    ASSUME PayInv, SeenInv, NEW s \in Staff, NEW accepted \in BOOLEAN, FinishCounter(s, accepted)
    PROVE  SeenInv' /\ (RecordInv => RecordInv')
<1>1. PICK t : t = counter[s].payment
  OBVIOUS
<1>2. /\ UNCHANGED <<mode, reports, handled, poll>> /\ t \in Payment
      /\ counter[s].at = "created" /\ counter' = [counter EXCEPT ![s] = NoCounter]
      /\ \A u \in Payment : u # t => payments'[u] = payments[u]
      /\ payments'[t].status \in {"pending", "failed"}
      /\ payments'[t].eventAt = payments[t].eventAt
  BY <1>1, FinishedRow
<1>3. reports[t] = <<>>
  BY <1>1, <1>2 DEF SeenInv, CounterInv, Begun
<1>4. handled[t] = {}
  BY <1>2, <1>3 DEF SeenInv, ReportsInv
<1>5. RecordInv => RecordOf(t)'
  BY <1>2, <1>4 DEF RecordInv, RecordOf
<1>6. RecordInv => RecordInv'
  BY <1>2, <1>5, RecordSame DEF RecordInv
<1>7. ReportsInv' /\ PollInv'
  BY <1>2, ReportsSame, PollSame DEF SeenInv
<1>8. CounterInv'
  <2>1. ~ Begun(s)' /\ \A r \in Staff : r # s => counter'[r] = counter[r]
    BY <1>2 DEF PayInv, TypeOK, Begun, NoCounter
  <2>2. ASSUME NEW r \in Staff, Begun(r)'
        PROVE  /\ r # s /\ counter'[r] = counter[r] /\ Begun(r)
               /\ counter[r].payment \in Payment /\ counter[r].payment # t
    <3>1. r # s /\ counter'[r] = counter[r]
      BY <2>1, <2>2
    <3>2. Begun(r) /\ Begun(s)
      BY <1>2, <2>2, <3>1 DEF Begun
    <3>3. counter[r].payment # t
      BY <1>1, <3>1, <3>2 DEF SeenInv, CounterInv
    <3> QED BY <3>1, <3>2, <3>3, CounterPayment
  <2>3. ASSUME NEW r \in Staff, Begun(r)'
        PROVE  (/\ ~ Absent(counter[r].payment) /\ ~ payments[counter[r].payment].intent
                /\ reports[counter[r].payment] = <<>>)'
    BY <1>2, <2>2, <2>3 DEF SeenInv, CounterInv, Absent
  <2>4. ASSUME NEW q \in Staff, NEW r \in Staff, Begun(q)', Begun(r)',
               counter'[q].payment = counter'[r].payment
        PROVE  q = r
    BY <2>2, <2>4 DEF SeenInv, CounterInv
  <2> QED BY <2>3, <2>4 DEF CounterInv
<1> QED BY <1>6, <1>7, <1>8 DEF SeenInv

LEMMA StepKept ==
    ASSUME "unstamped" \notin Circumstance, PayInv, KeptInv, [Next]_vars
    PROVE  KeptInv'
BY StepKinds, QuietKept, ReportKept, DeliverKept, PollProviderKept, PollWriteKept,
   NewRowKept, TillKept, FinishKept DEF KeptInv

LEMMA KeptInvariant ==
    ASSUME "unstamped" \notin Circumstance
    PROVE  Spec => [](PayInv /\ KeptInv)
<1>1. Init => PayInv /\ KeptInv
  BY InitType, InitKept
<1>2. PayInv /\ KeptInv /\ [Next]_vars => (PayInv /\ KeptInv)'
  BY NextType, StepKept
<1> QED BY <1>1, <1>2, PTL DEF Spec

(* What the provider reported as paid, and was handled, stays on record as    *)
(* paid or refunded, however reports, answers to returning customers, counter *)
(* payments and staff interleave, if the provider stamps its reports.         *)
THEOREM CollectedPaymentsStayOnRecord ==
    ASSUME "unstamped" \notin Circumstance
    PROVE  Spec => []CollectedIsRecorded
<1>1. KeptInv => CollectedIsRecorded
  BY DEF KeptInv, RecordInv, RecordOf, CollectedIsRecorded, Final
<1> QED BY <1>1, KeptInvariant, PTL

LEMMA StepRefunds ==
    ASSUME "unstamped" \notin Circumstance, PayInv, KeptInv, [Next]_vars, NEW t \in Payment
    PROVE  \/ payments[t].refunded <= payments'[t].refunded
           \/ payments[t].eventAt < payments'[t].eventAt
<1>0. /\ payments \in [Payment -> PaymentRow] /\ payments[t].refunded \in Nat
      /\ payments[t].eventAt \in Nat /\ AbsentPayment.refunded = 0
      /\ reports \in [Payment -> Seq(Report)]
  BY DEF PayInv, TypeOK, PaymentRow, AbsentPayment
<1>1. CASE Quiet
  BY <1>1 DEF Quiet
<1>2. CASE payments'[t] = payments[t]
  BY <1>0, <1>2
<1>3. ASSUME NEW u \in Payment, NEW report \in [status : PaymentStatus, refunded : Nat],
             ProviderReports(u, report)
      PROVE  payments'[t] = payments[t]
  BY <1>3, ReportedRows
<1>4. ASSUME NEW k \in 1 .. MaxReports, DeliverEvent(t, k)
      PROVE  \/ payments[t].refunded <= payments'[t].refunded
             \/ payments[t].eventAt < payments'[t].eventAt
  <2>1. /\ k \in 1 .. Len(reports[t]) /\ k \notin handled[t]
        /\ \/ /\ CanApply(payments[t], reports[t][k], 2 * k)
              /\ payments'[t] = Applied(payments[t], reports[t][k], 2 * k)
           \/ payments'[t] = payments[t]
    BY <1>4, DeliveredRow DEF Stamps
  <2>2. CASE /\ CanApply(payments[t], reports[t][k], 2 * k)
             /\ payments'[t] = Applied(payments[t], reports[t][k], 2 * k)
    <3>1. payments'[t].eventAt = 2 * k
      BY <1>0, <2>2 DEF Applied, PaymentRow
    <3>2. 2 * k >= payments[t].eventAt
      BY <2>2 DEF CanApply
    <3>3. k \in Nat /\ k # 0
      BY <1>0, <2>1
    <3>4. \/ payments[t].eventAt = 0
          \/ \E j \in handled[t] : payments[t].eventAt = 2 * j
      BY DEF KeptInv, SeenInv, RecordInv, RecordOf
    <3>5. \A j \in handled[t] : j \in Nat /\ j # k
      BY <1>0, <2>1 DEF KeptInv, SeenInv, ReportsInv
    <3>6. payments[t].eventAt # 2 * k
      <4>1. \A j \in Nat : j # k => 2 * j # 2 * k
        BY <3>3
      <4>2. 2 * k # 0
        BY <3>3
      <4> QED BY <3>4, <3>5, <4>1, <4>2
    <3>7. payments[t].eventAt < 2 * k
      <4>1. PICK e \in Nat, n \in Nat : e = payments[t].eventAt /\ n = 2 * k
        BY <1>0, <3>3
      <4>2. n >= e /\ n # e
        BY <3>2, <3>6, <4>1
      <4> QED BY <4>1, <4>2
    <3> QED BY <3>1, <3>7
  <2> QED BY <1>2, <2>1, <2>2
<1>5. ASSUME NEW u \in Payment, u # t, NEW k \in 1 .. MaxReports, DeliverEvent(u, k)
      PROVE  payments'[t] = payments[t]
  BY <1>5, DeliveredRow
<1>6. ASSUME NEW u \in Payment,
             \/ \E products \in SUBSET Product, accepted \in BOOLEAN :
                  CreateIntent(u, products, accepted)
             \/ \E s \in Staff : InsertCounter(s, u)
      PROVE  payments[t].refunded <= payments'[t].refunded
  <2>1. /\ payments[u] = AbsentPayment /\ payments'[u].refunded = 0
        /\ \A v \in Payment : v # u => payments'[v] = payments[v]
    BY <1>6, NewRows
  <2> QED BY <1>0, <2>1
<1>7. ASSUME NEW u \in Payment, NEW o \in Order, NEW k \in Key, ManualBalance(o, u, k)
      PROVE  payments[t].refunded <= payments'[t].refunded
  <2>1. /\ payments[u] = AbsentPayment /\ payments'[u].refunded = 0
        /\ \A v \in Payment : v # u => payments'[v] = payments[v]
    BY <1>7, TillRow
  <2> QED BY <1>0, <2>1
<1>8. ASSUME NEW s \in Staff, NEW accepted \in BOOLEAN, FinishCounter(s, accepted)
      PROVE  payments[t].refunded <= payments'[t].refunded
  <2>1. PICK u : u = counter[s].payment
    OBVIOUS
  <2>2. /\ payments'[u].refunded = payments[u].refunded
        /\ \A v \in Payment : v # u => payments'[v] = payments[v]
    BY <1>8, <2>1, FinishedRow
  <2> QED BY <1>0, <2>2
<1>9. ASSUME NEW u \in Payment, PollProvider(u)
      PROVE  payments'[t] = payments[t]
  BY <1>9 DEF PollProvider
<1>10. CASE PollWrite
  <2>1. PICK u : u = poll.payment
    OBVIOUS
  <2>2. payments' = [payments EXCEPT ![u] = [payments[u] EXCEPT !.status = poll.status]]
    BY <1>10, <2>1 DEF PollWrite
  <2>3. payments'[t].refunded = payments[t].refunded
    BY <1>0, <2>2 DEF PaymentRow
  <2> QED BY <1>0, <2>3
<1> QED BY <1>1, <1>2, <1>3, <1>4, <1>5, <1>6, <1>7, <1>8, <1>9, <1>10, StepKinds

(* Money returned stays returned: a recorded refund shrinks only if a report  *)
(* that is later than all before says so, whatever order reports arrive in,   *)
(* and whatever staff ask for, if the provider stamps its reports.            *)
THEOREM RefundsStay ==
    ASSUME "unstamped" \notin Circumstance
    PROVE  Spec => RefundNeverShrinks
<1>1. PayInv /\ KeptInv /\ [Next]_vars =>
        [\A t \in Payment : \/ payments[t].refunded <= payments'[t].refunded
                            \/ payments[t].eventAt < payments'[t].eventAt]_vars
  BY StepRefunds
<1>2. Spec => [](PayInv /\ KeptInv)
  BY KeptInvariant
<1> QED BY <1>1, <1>2, PTL DEF Spec, RefundNeverShrinks
=============================================================================
