------------------------- MODULE PaymentSpendProofs -------------------------
(* Proofs about PaymentTransactions: a payment is spent once, and a cancelled *)
(* order is refunded.                                                         *)
(*                                                                            *)
(* Both need the whole life of the rows (RowsInv), what the provider may have *)
(* said (ToldInv), what requests under way know (HeldInv), that a cancelled   *)
(* order alone takes the keys of its payments (KeysInv), that an item names   *)
(* a payment of its order (ItemsInv), and, for counter payments, that nothing *)
(* is added to what a balance was read of (BalanceInv): SpendInv.  The        *)
(* circumstances that break it are excluded by Mild.                          *)
EXTENDS PaymentProofs

(* A counter payment that settles its order, or may still do so.              *)
MaySettle(t) ==
    /\ payments[t].kind = "counter"
    /\ \/ payments[t].status = "paid"
       \/ /\ payments[t].status = "pending"
          /\ \A k \in 1 .. Len(reports[t]) : reports[t][k].status = "paid"

(* One that nobody will ever pay.                                             *)
Dead(t) == ~ Made(t) /\ (reports[t] = <<>> => ~ payments[t].intent)

(* A row: what was returned of it was paid before, in full or in part; what   *)
(* it covers was paid for; a counter payment that settles nothing was         *)
(* refunded or is dead.                                                       *)
RowOf(t) ==
    /\ payments[t].amount > 0
    /\ payments[t].refunded > 0 => Final(payments[t].status)
    /\ payments[t].status = "paid" => payments[t].refunded < payments[t].amount
    /\ payments[t].status = "refunded" => payments[t].refunded = payments[t].amount
    /\ payments[t].kind = "manual" => ~ payments[t].intent
    /\ payments[t].kind # "counter" => Cost(payments[t].covers) <= payments[t].amount
    /\ payments[t].kind = "counter" =>
         /\ mode = "external" /\ payments[t].order # NoOrder
         /\ MaySettle(t) \/ payments[t].status = "refunded" \/ Dead(t)
    /\ mode = "external" /\ Final(payments[t].status) /\ payments[t].kind # "manual" => Made(t)

(* Rows are inserted in their order.                                          *)
RowsInv == \A t \in Payment : /\ ~ Absent(t) => RowOf(t)
                              /\ \A u \in Payment : Absent(t) /\ t < u => Absent(u)

(* payOS reports the end of a payment link, the demo provider refunds, which  *)
(* are never of nothing.                                                      *)
ToldInv ==
    \A t \in Payment : \A k \in 1 .. Len(reports[t]) :
       /\ reports[t][k].status = "refunded" => reports[t][k].refunded > 0
       /\ mode = "external" => reports[t][k].status \in {"paid", "failed", "cancelled"}

(* Requests under way: a counter payment that is being begun is pending, a    *)
(* customer does not return from a payment at the till, and the row that a    *)
(* reconcile has read is out of date only if there was a refund since, or it  *)
(* was not paid then.                                                         *)
HeldInv ==
    /\ \A s \in Staff : Begun(s) =>
         /\ payments[counter[s].payment].kind = "counter"
         /\ payments[counter[s].payment].status = "pending"
    /\ poll # NoPoll => payments[poll.payment].kind # "manual"
    /\ rereading # NoRow =>
         /\ payments[rereading.payment].order # NoOrder
         /\ payments[rereading.payment].refunded = 0 =>
              /\ rereading.refunded = 0
              /\ rereading.status = "paid" => payments[rereading.payment].status = "paid"

(* Only a cancellation takes the key of a payment; with payOS, which reports  *)
(* no refunds, the payment stays refunded.                                    *)
KeysInv ==
    \A t \in Payment : t \in keys =>
       /\ payments[t].order # NoOrder /\ orders[payments[t].order].status = "cancelled"
       /\ mode = "external" => payments[t].status = "refunded"

(* An item names the payment that paid it, which is of its order and, unless  *)
(* it settled the whole of it, covers the item; while the item is paid, so is *)
(* the payment; and no product is in an order twice.                          *)
ItemOf(o, p) ==
    /\ items[o][p].by # NoPayment =>
         /\ payments[items[o][p].by].order = o
         /\ items[o][p].status \in {"paid", "refunded"}
         /\ payments[items[o][p].by].kind # "counter" => p \in payments[items[o][p].by].covers
    /\ items[o][p].status = "refunded" => items[o][p].refunded > 0
    /\ items[o][p].status = "paid" =>
         /\ items[o][p].by # NoPayment
         /\ payments[items[o][p].by].status = "paid"
    /\ items[o][p].status # "absent" => ProductOf[p] = p

ItemsInv == \A o \in Order, p \in Item : ItemOf(o, p)

NotPaid(list) == {p \in Booked(list) : list[p].status # "paid"}

(* Nothing is returned of the payments of an order that are earlier than t.   *)
Unreturned(o, t) ==
    \A u \in Payment : payments[u].order = o /\ u < t => payments[u].refunded = 0

(* What counter payment t may yet settle or have settled: not what an earlier *)
(* payment has paid, unless a later one takes it over.                        *)
Claims(list, t, p) ==
    /\ list[p].status # "absent"
    /\ \/ list[p].status # "paid" \/ list[p].by >= t
       \/ \E u \in Payment : /\ u > t /\ payments[u].order = payments[t].order
                             /\ payments[u].kind # "counter" /\ p \in payments[u].covers
Claim(t) == {p \in Item : Claims(items[payments[t].order], t, p)}

(* It brings in what it claims, and only the latest payment is refunded.      *)
SettleOf(t) == /\ Cost(Claim(t)) <= payments[t].amount
               /\ Unreturned(payments[t].order, t)

(* The balance that request s has read is still no less than what is open.    *)
ReadOf(s) == /\ mode = "external" /\ counter[s].amount > 0
             /\ Cost(NotPaid(items[counter[s].order])) <= counter[s].amount
             /\ Unreturned(counter[s].order, LastPayment + 1)

BalanceInv ==
    /\ \A s \in Staff : counter[s].at = "read" => ReadOf(s)
    /\ \A t \in Payment : MaySettle(t) => SettleOf(t)
    /\ \A t \in Payment, o \in Order :
         payments[t].kind = "counter" => Cost(PaidBy(t, items[o])) <= payments[t].amount

SpendInv == RowsInv /\ ToldInv /\ HeldInv /\ KeysInv /\ ItemsInv /\ BalanceInv
-----------------------------------------------------------------------------
(* Amounts.                                                                   *)

LEMMA CostGrows ==
    ASSUME NEW A, NEW B, A \subseteq B
    PROVE  Cost(A) <= Cost(B)
<1> DEFINE v == [p \in Item |-> IF p \in A THEN Price[p] ELSE 0]
           w == [p \in Item |-> IF p \in B THEN Price[p] ELSE 0]
<1>1. v \in [1 .. LastItem -> Nat] /\ w \in [1 .. LastItem -> Nat] /\ LastItem \in Nat
  BY PaymentAssumption DEF Item
<1>2. \A p \in 1 .. LastItem : v[p] <= w[p]
  BY PaymentAssumption DEF Item
<1>3. Cost(A) = SumTo(LastItem, v) /\ Cost(B) = SumTo(LastItem, w)
  BY DEF Cost, Sum
<1> HIDE DEF v, w
<1> QED BY <1>1, <1>2, <1>3, SumGrows

LEMMA CostAdds ==
    ASSUME NEW A, NEW p \in Item, p \notin A
    PROVE  Cost(A \cup {p}) = Cost(A) + Price[p]
<1> DEFINE v == [q \in Item |-> IF q \in A THEN Price[q] ELSE 0]
           w == [q \in Item |-> IF q \in A \cup {p} THEN Price[q] ELSE 0]
<1>1. v \in [1 .. LastItem -> Nat] /\ w \in [1 .. LastItem -> Nat] /\ LastItem \in Nat
  BY PaymentAssumption DEF Item
<1>2. \A q \in 1 .. LastItem \ {p} : w[q] = v[q]
  BY DEF Item
<1>3. v[p] = 0 /\ w[p] = Price[p] /\ p \in 1 .. LastItem
  BY DEF Item
<1>4. Cost(A) = SumTo(LastItem, v) /\ Cost(A \cup {p}) = SumTo(LastItem, w)
  BY DEF Cost, Sum
<1> HIDE DEF v, w
<1>5. SumTo(LastItem, w) + v[p] = SumTo(LastItem, v) + w[p]
  <2>1. PICK n \in Nat : n = LastItem
    BY <1>1
  <2>2. /\ v \in [1 .. n -> Nat] /\ w \in [1 .. n -> Nat] /\ p \in 1 .. n
        /\ \A q \in 1 .. n \ {p} : w[q] = v[q]
    BY <1>1, <1>2, <1>3, <2>1
  <2>3. SumTo(n, w) + v[p] = SumTo(n, v) + w[p]
    BY <2>2, SumChanged
  <2> QED BY <2>1, <2>3
<1>6. Cost(A \cup {p}) \in Nat
  BY CostType
<1> QED BY <1>3, <1>4, <1>5, <1>6

LEMMA PriceBelow ==
    ASSUME NEW A, NEW p \in Item, p \in A
    PROVE  Cost(A) > 0 /\ Cost({q \in A : q < p}) + Price[p] <= Cost(A)
<1>1. Price[p] \in Nat /\ Price[p] > 0
  BY PaymentAssumption
<1>2. p \notin {q \in A : q < p} /\ {q \in A : q < p} \cup {p} \subseteq A
  BY PaymentAssumption DEF Item
<1>3. Cost({q \in A : q < p} \cup {p}) = Cost({q \in A : q < p}) + Price[p]
  BY <1>2, CostAdds
<1>4. Cost({q \in A : q < p} \cup {p}) <= Cost(A)
  BY <1>2, CostGrows
<1>5. Cost({q \in A : q < p}) \in Nat /\ Cost(A) \in Nat
  BY CostType
<1> QED BY <1>1, <1>3, <1>4, <1>5
-----------------------------------------------------------------------------
(* What reconciling makes of an item.                                         *)

LEMMA SettledItem ==
    ASSUME NEW list \in [Item -> ItemRow], NEW t \in Payment, NEW row \in PaymentRow,
           NEW p \in Item, NEW new, new = Settled(list, t, row)[p],
           list[p].status # "absent" => ProductOf[p] = p
    PROVE  /\ new \in ItemRow
           /\ new.by # t => new = list[p]
           /\ new.by = t =>
                \/ new = list[p]
                \/ /\ row.status = "paid" /\ list[p].status # "absent" /\ new.status = "paid"
                   /\ row.kind = "counter" => list[p].by = t \/ list[p].status # "paid"
                   /\ row.kind # "counter" => p \in row.covers
<1>1. CASE p \notin Settles(row, list)
  BY <1>1 DEF Settled
<1>2. CASE p \in Settles(row, list)
  <2>1. /\ row.status = "paid" /\ list[p].status # "absent"
        /\ row.kind # "counter" => p \in row.covers
    BY <1>2 DEF Settles, Booked
  <2>2. PICK by : by = IF row.kind = "counter" /\ list[p].status = "paid" THEN list[p].by ELSE t
    OBVIOUS
  <2>3. new = [list[p] EXCEPT !.status = "paid", !.by = by]
    BY <1>2, <2>2 DEF Settled
  <2>4. by \in Payment \cup {NoPayment} /\ list[p] \in ItemRow
    BY <2>2 DEF ItemRow
  <2>5. new.status = "paid" /\ new.by = by /\ new \in ItemRow
    BY <2>3, <2>4 DEF ItemRow
  <2>6. CASE by = t
    BY <2>1, <2>2, <2>5, <2>6
  <2>7. CASE by # t
    <3>1. list[p].status = "paid" /\ by = list[p].by
      BY <2>2, <2>7
    <3>2. PICK n : list[p] = [status |-> "paid", refunded |-> n, by |-> by]
      BY <2>4, <3>1 DEF ItemRow
    <3>3. new = [[status |-> "paid", refunded |-> n, by |-> by]
                   EXCEPT !.status = "paid", !.by = by]
      BY <2>3, <3>2
    <3>4. new = [status |-> "paid", refunded |-> n, by |-> by]
      BY <3>3, Zenon
    <3>5. new = list[p]
      BY <3>2, <3>4
    <3> QED BY <2>5, <2>7, <3>5
  <2> QED BY <2>6, <2>7
<1> QED BY <1>1, <1>2

LEMMA RefundedItem ==
    ASSUME NEW list \in [Item -> ItemRow], NEW t \in Payment, NEW row \in PaymentRow,
           NEW p \in Item, NEW new, new = Refunded(list, t, row)[p]
    PROVE  /\ new.by = list[p].by
           /\ list[p].by # t \/ row.refunded = 0 => new = list[p]
           /\ list[p].by = t /\ row.refunded > 0 =>
                /\ new.status \in {"paid", "refunded"}
                /\ new.status = "refunded" => new.refunded > 0
                /\ Cost(PaidBy(t, list)) <= row.refunded => new.status = "refunded"
<1>0. list[p] \in ItemRow /\ row.refunded \in Nat
  BY DEF PaymentRow
<1>1. CASE list[p].by # t \/ row.refunded = 0
  BY <1>1 DEF Refunded
<1>2. CASE list[p].by = t /\ row.refunded # 0
  <2>1. PICK share : share = Share(list, t, row.refunded, p)
    OBVIOUS
  <2>2. new = [list[p] EXCEPT !.refunded = share,
                              !.status = IF share >= Price[p] THEN "refunded" ELSE "paid"]
    BY <1>2, <2>1 DEF Refunded
  <2>3. /\ new.by = list[p].by /\ new.refunded = share
        /\ new.status = IF share >= Price[p] THEN "refunded" ELSE "paid"
    BY <1>0, <2>2 DEF ItemRow
  <2>4. Price[p] \in Nat /\ Price[p] > 0
    BY PaymentAssumption
  <2>5. PICK before \in Nat : before = Cost({q \in PaidBy(t, list) : q < p})
    BY CostType
  <2>6. share \in Nat
    BY <1>0, <2>1, <2>4, <2>5 DEF Share, AtMost
  <2>7. ASSUME Cost(PaidBy(t, list)) <= row.refunded PROVE share >= Price[p]
    <3>1. p \in PaidBy(t, list)
      BY <1>2 DEF PaidBy
    <3>2. before + Price[p] <= Cost(PaidBy(t, list))
      BY <2>5, <3>1, PriceBelow
    <3>3. Cost(PaidBy(t, list)) \in Nat
      BY CostType
    <3>4. before + Price[p] <= row.refunded
      BY <1>0, <2>4, <2>5, <2>7, <3>2, <3>3
    <3>5. ~ (row.refunded <= before) /\ row.refunded - before >= Price[p]
      BY <1>0, <2>4, <2>5, <3>4
    <3> QED BY <1>0, <2>1, <2>4, <2>5, <3>5 DEF Share, AtMost
  <2>8. share >= Price[p] => share > 0
    BY <2>4, <2>6
  <2> QED BY <1>2, <2>3, <2>7, <2>8
<1> QED BY <1>0, <1>1, <1>2

(* The items of an order before: those a payment has paid are paid or         *)
(* refunded.                                                                  *)
Consistent(list) ==
    \A p \in Item : /\ list[p].by # NoPayment => list[p].status \in {"paid", "refunded"}
                    /\ list[p].status = "refunded" => list[p].refunded > 0
                    /\ list[p].status # "absent" => ProductOf[p] = p

LEMMA ReconciledItem ==
    ASSUME NEW list \in [Item -> ItemRow], Consistent(list),
           NEW t \in Payment, NEW row \in PaymentRow,
           NEW p \in Item, NEW new, new = Reconciled(list, t, row)[p]
    PROVE  /\ new.status = "absent" <=> list[p].status = "absent"
           /\ new.by # t => new = list[p]
           /\ new.by = t =>
                /\ new.status \in {"paid", "refunded"}
                /\ new.status = "refunded" => new.refunded > 0
                /\ list[p].by # t =>
                      /\ row.status = "paid" /\ list[p].status # "absent"
                      /\ row.kind = "counter" => list[p].status # "paid"
                      /\ row.kind # "counter" => p \in row.covers
                /\ row.status # "paid" => list[p].by = t
                /\ row.refunded = 0 => new = list[p] \/ new.status = "paid"
                /\ row.refunded = 0 /\ row.status # "paid" => new = list[p]
                /\ row.status # "paid" /\ row.refunded > 0
                     /\ Cost(PaidBy(t, list)) <= row.refunded => new.status = "refunded"
<1>0. t # NoPayment /\ row.refunded \in Nat
  BY PaymentAssumption DEF Payment, NoPayment, PaymentRow
<1>1. PICK s : s = Settled(list, t, row)
  OBVIOUS
<1>2. s \in [Item -> ItemRow]
  BY <1>1 DEF Settled, ItemRow
<1>3. /\ s[p].by # t => s[p] = list[p]
      /\ s[p].by = t =>
           \/ s[p] = list[p]
           \/ /\ row.status = "paid" /\ list[p].status # "absent" /\ s[p].status = "paid"
              /\ row.kind = "counter" => list[p].by = t \/ list[p].status # "paid"
              /\ row.kind # "counter" => p \in row.covers
  BY <1>1, SettledItem DEF Consistent
<1>4. new = Refunded(s, t, row)[p]
  BY <1>1 DEF Reconciled
<1>5. /\ new.by = s[p].by
      /\ s[p].by # t \/ row.refunded = 0 => new = s[p]
      /\ s[p].by = t /\ row.refunded > 0 =>
           /\ new.status \in {"paid", "refunded"}
           /\ new.status = "refunded" => new.refunded > 0
           /\ Cost(PaidBy(t, s)) <= row.refunded => new.status = "refunded"
  BY <1>2, <1>4, RefundedItem
<1>6. CASE s[p].by # t
  BY <1>3, <1>5, <1>6
<1>7. CASE s[p].by = t
  <2>1. /\ s[p].status \in {"paid", "refunded"} /\ list[p].status # "absent"
        /\ s[p].status = "refunded" => s[p].refunded > 0
    BY <1>0, <1>3, <1>7 DEF Consistent
  <2>2. row.status # "paid" => s = list
    BY <1>1 DEF Settled, Settles
  <2>3. row.refunded = 0 \/ row.refunded > 0
    BY <1>0
  <2>4. new.status \in {"paid", "refunded"} /\ (new.status = "refunded" => new.refunded > 0)
    BY <1>5, <1>7, <2>1, <2>3
  <2>5. list[p].by # t =>
           /\ row.status = "paid" /\ list[p].status # "absent"
           /\ row.kind = "counter" => list[p].status # "paid"
           /\ row.kind # "counter" => p \in row.covers
    BY <1>3, <1>7
  <2>6. row.refunded = 0 => new = list[p] \/ new.status = "paid"
    BY <1>3, <1>5, <1>7
  <2> QED BY <1>5, <1>7, <2>1, <2>2, <2>4, <2>5, <2>6
<1> QED BY <1>6, <1>7
-----------------------------------------------------------------------------
(* The rows of the payments.                                                  *)

(* None of the circumstances that break the two promises.                     *)
Mild == Circumstance \cap {"again", "change", "repay", "uncollected", "stale"} = {}

(* What a step may do to a payment that is there.                             *)
Tame(t) ==
    /\ ~ Absent(t)'
    /\ payments'[t].kind = payments[t].kind /\ payments'[t].covers = payments[t].covers
    /\ payments'[t].amount = payments[t].amount
    /\ payments[t].order # NoOrder => payments'[t].order = payments[t].order
    /\ payments[t].refunded > 0 => payments'[t].refunded > 0
    /\ payments[t].status = "paid" /\ payments'[t].refunded = 0 => payments'[t].status = "paid"
    /\ mode = "external" /\ payments[t].status = "refunded" => payments'[t].status = "refunded"
    /\ MaySettle(t)' => MaySettle(t)

RowStep(t) ==
    \/ payments'[t] = payments[t] /\ reports'[t] = reports[t]
    \/ Fresh(t) /\ ~ Absent(t)' /\ RowOf(t)' /\ payments'[t].refunded = 0
    \/ ~ Absent(t) /\ Tame(t) /\ RowOf(t)'

LEMMA RowTypes ==
    ASSUME PayInv
    PROVE  /\ payments \in [Payment -> PaymentRow]
           /\ \A t \in Payment : payments[t] \in PaymentRow
                               /\ payments[t].refunded <= payments[t].amount
                               /\ payments[t].refunded \in Nat /\ payments[t].amount \in Nat
           /\ items \in [Order -> [Item -> ItemRow]]
           /\ reports \in [Payment -> Seq(Report)] /\ mode \in {"demo", "external"}
           /\ \A t \in Payment : Absent(t) => payments[t] = AbsentPayment /\ reports[t] = <<>>
BY DEF PayInv, TypeOK, PaymentRow, AbsentIsBlank

(* In mode external there is one report, and payments are made by it.         *)
LEMMA OneReport ==
    ASSUME PayInv, SeenInv, ToldInv, mode = "external", NEW t \in Payment, reports[t] # <<>>
    PROVE  /\ Len(reports[t]) = 1 /\ reports[t][1].status \in {"paid", "failed", "cancelled"}
           /\ Made(t) <=> reports[t][1].status = "paid"
<1>1. Len(reports[t]) <= 1
  BY DEF SeenInv, ReportsInv
<1>2. reports[t] \in Seq(Report) /\ Len(reports[t]) \in Nat /\ Len(reports[t]) # 0
  BY RowTypes
<1>3. Len(reports[t]) = 1
  <2>1. PICK n \in Nat : n = Len(reports[t]) /\ n # 0
    BY <1>2
  <2>2. n <= 1 /\ n # 0
    BY <1>1, <2>1
  <2>3. n = 1
    BY <2>2
  <2> QED BY <2>1, <2>3
<1>4. 1 .. Len(reports[t]) = {1}
  <2>1. 1 .. 1 = {1}
    OBVIOUS
  <2> QED BY <1>3, <2>1
<1> QED BY <1>3, <1>4 DEF ToldInv, Made

LEMMA ReportRows ==
    ASSUME PayInv, SeenInv, RowsInv, ToldInv, NEW t \in Payment,
           NEW report \in [status : PaymentStatus, refunded : Nat], ProviderReports(t, report)
    PROVE  ToldInv' /\ \A u \in Payment : RowStep(u)
<1>1. /\ UNCHANGED <<mode, payments, handled, counter, poll>>
      /\ ~ Absent(t) /\ payments[t].intent /\ MayFollow(t, report)
      /\ \A u \in Payment : u # t => reports'[u] = reports[u]
      /\ Len(reports'[t]) = Len(reports[t]) + 1 /\ Len(reports[t]) \in Nat
      /\ reports'[t][Len(reports[t]) + 1] = report
      /\ \A i \in 1 .. Len(reports[t]) : reports'[t][i] = reports[t][i]
  BY ReportedRows
<1> DEFINE n == Len(reports[t])
<1>2. reports[t] \in Seq(Report) /\ mode \in {"demo", "external"} /\ n \in Nat
  BY RowTypes, <1>1
<1>3. /\ report.status = "refunded" => report.refunded > 0
      /\ mode = "external" => n = 0 /\ report.status \in {"paid", "failed", "cancelled"}
  <2>1. CASE n = 0
    BY <1>1, <2>1 DEF MayFollow
  <2>2. CASE n # 0
    <3>1. reports[t][n] \in Report
      BY <1>2, <2>2
    <3>2. PICK last \in Report : last = reports[t][n]
      BY <3>1
    <3>3. mode = "external" => n = 0
      BY <1>1, Zenon DEF MayFollow
    <3>4. report.status = "refunded" => report.refunded > last.refunded
      BY <1>1, <2>2, <3>2 DEF MayFollow
    <3>5. last.refunded \in Nat
      BY <3>2 DEF Report
    <3>6. report.refunded \in Nat
      OBVIOUS
    <3> QED BY <2>2, <3>3, <3>4, <3>5, <3>6
  <2> QED BY <2>1, <2>2
<1>4. ToldInv'
  <2>1. ASSUME NEW u \in Payment, NEW k \in 1 .. Len(reports'[u])
        PROVE  /\ reports'[u][k].status = "refunded" => reports'[u][k].refunded > 0
               /\ mode = "external" => reports'[u][k].status \in {"paid", "failed", "cancelled"}
    <3>1. CASE u = t /\ k = n + 1
      BY <1>1, <1>3, <3>1
    <3>2. CASE ~ (u = t /\ k = n + 1)
      <4>1. k \in 1 .. Len(reports[u]) /\ reports'[u][k] = reports[u][k]
        BY <1>1, <3>2
      <4> QED BY <4>1 DEF ToldInv
    <3> QED BY <3>1, <3>2
  <2> QED BY <1>1, <2>1 DEF ToldInv
<1>5. RowOf(t)' /\ Tame(t)
  <2>1. RowOf(t)
    BY <1>1 DEF RowsInv
  <2>2. Made(t) => Made(t)'
    BY <1>1 DEF Made
  <2>3. CASE payments[t].kind # "counter"
    BY <1>1, <2>1, <2>2, <2>3 DEF RowOf, Tame, Absent, MaySettle
  <2>4. CASE payments[t].kind = "counter"
    <3>1. mode = "external" /\ n = 0 /\ reports[t] = <<>> /\ ~ Made(t)
      BY <1>2, <1>3, <2>1, <2>4 DEF RowOf, Made
    <3>2. 1 .. Len(reports'[t]) = {1} /\ reports'[t][1] = report
      BY <1>1, <3>1
    <3>3. reports'[t] # <<>>
      BY <1>1, <3>1
    <3>4. ~ Dead(t) /\ payments[t].status # "paid"
      BY <1>1, <2>1, <2>4, <3>1 DEF Dead, RowOf, Final
    <3>5. MaySettle(t)' \/ payments'[t].status = "refunded" \/ Dead(t)'
      BY <1>1, <2>1, <2>4, <3>2, <3>3, <3>4 DEF RowOf, MaySettle, Dead, Made
    <3>6. MaySettle(t)' => MaySettle(t)
      BY <1>1, <2>4, <3>1 DEF MaySettle
    <3>7. RowOf(t)'
      BY <1>1, <2>1, <2>2, <2>4, <3>5 DEF RowOf
    <3>8. Tame(t)
      BY <1>1, <3>6 DEF Tame, Absent
    <3> QED BY <3>7, <3>8
  <2> QED BY <2>3, <2>4
<1> QED BY <1>1, <1>4, <1>5 DEF RowStep

(* A report that is applied.                                                  *)
LEMMA DeliverRows ==
    ASSUME PayInv, SeenInv, RowsInv, ToldInv, NEW t \in Payment,
           NEW k \in 1 .. MaxReports, DeliverEvent(t, k)
    PROVE  ToldInv' /\ \A u \in Payment : RowStep(u)
<1>0. payments[t] \in PaymentRow /\ reports[t] \in Seq(Report)
  BY RowTypes
<1>1. /\ UNCHANGED <<mode, reports, counter, poll>>
      /\ k \in 1 .. Len(reports[t]) /\ k \notin handled[t] /\ ~ Absent(t)
      /\ \A u \in Payment : u # t => payments'[u] = payments[u] /\ handled'[u] = handled[u]
  BY DeliveredRow
<1>2. PICK at \in Stamps(t, k) :
         \/ /\ CanApply(payments[t], reports[t][k], at)
            /\ payments'[t] = Applied(payments[t], reports[t][k], at)
         \/ payments'[t] = payments[t]
  BY DeliveredRow
<1>3. ToldInv'
  BY <1>1 DEF ToldInv
<1>4. CASE payments'[t] = payments[t]
  BY <1>1, <1>3, <1>4 DEF RowStep
<1>5. CASE /\ CanApply(payments[t], reports[t][k], at)
           /\ payments'[t] = Applied(payments[t], reports[t][k], at)
  <2>0. PICK report \in Report : report = reports[t][k]
    BY <1>0, <1>1
  <2>1. PICK refunded : refunded = IF report.status = "refunded"
                                   THEN AtMost(payments[t].amount, report.refunded)
                                   ELSE payments[t].refunded
    OBVIOUS
  <2>2. PICK status : status = IF report.status = "refunded" /\ refunded < payments[t].amount
                               THEN "paid" ELSE report.status
    OBVIOUS
  <2>3. payments'[t] = [payments[t] EXCEPT !.refunded = refunded, !.eventAt = at,
                                           !.status = status]
    BY <1>5, <2>0, <2>1, <2>2 DEF Applied
  <2>4. /\ payments'[t].status = status /\ payments'[t].refunded = refunded
        /\ payments'[t].amount = payments[t].amount /\ payments'[t].kind = payments[t].kind
        /\ payments'[t].covers = payments[t].covers /\ payments'[t].order = payments[t].order
        /\ payments'[t].intent = payments[t].intent
    BY <1>0, <2>3 DEF PaymentRow
  <2>5. /\ RowOf(t) /\ payments[t].amount \in Nat /\ payments[t].refunded \in Nat
        /\ payments[t].refunded <= payments[t].amount
    BY <1>1, RowTypes DEF RowsInv
  <2>6. /\ report.status = "refunded" => report.refunded > 0
        /\ mode = "external" => report.status \in {"paid", "failed", "cancelled"}
        /\ report.refunded \in Nat /\ report.status \in PaymentStatus
    BY <1>1, <2>0 DEF ToldInv, Report
  <2>7. report.status \in Transitions[payments[t].status]
    BY <1>5, <2>0 DEF CanApply
  <2>8. payments[t].status \in PaymentStatus
    BY <1>0, <1>1 DEF PaymentRow, Absent
  <2>9. Made(t)' <=> Made(t)
    BY <1>1 DEF Made
  <2>10. CASE report.status = "refunded"
    <3>1. mode # "external" /\ payments[t].kind # "counter"
      BY <2>5, <2>6, <2>10 DEF RowOf
    <3>2. refunded \in Nat /\ refunded > 0 /\ refunded <= payments[t].amount
      BY <2>1, <2>5, <2>6, <2>10 DEF AtMost, RowOf
    <3>3. \/ status = "paid" /\ refunded < payments[t].amount
          \/ status = "refunded" /\ refunded = payments[t].amount
      BY <2>2, <2>5, <2>10, <3>2
    <3>4. RowOf(t)'
      BY <1>1, <2>4, <2>5, <3>1, <3>2, <3>3 DEF RowOf, Final
    <3>5. Tame(t)
      BY <1>1, <2>4, <3>1, <3>2, <3>3 DEF Tame, Absent, MaySettle
    <3> QED BY <1>1, <1>3, <3>4, <3>5 DEF RowStep
  <2>11. CASE report.status # "refunded"
    <3>1. refunded = payments[t].refunded /\ status = report.status
      BY <2>1, <2>2, <2>11
    <3>2. payments[t].status # "refunded"
      BY <2>7, <2>11 DEF Transitions
    <3>3. payments[t].status = "paid" => status = "paid"
      BY <2>7, <2>11, <3>1 DEF Transitions
    <3>4. Final(status) <=> status = "paid"
      BY <2>11, <3>1 DEF Final
    <3>5. mode = "external" =>
             /\ status = "paid" => Made(t)
             /\ status # "paid" => ~ Made(t)
             /\ reports[t] # <<>> /\ status \in {"paid", "failed", "cancelled"}
      <4>1. SUFFICES ASSUME mode = "external"
                     PROVE  /\ status = "paid" <=> Made(t)
                            /\ reports[t] # <<>> /\ status \in {"paid", "failed", "cancelled"}
        OBVIOUS
      <4>2. reports[t] # <<>>
        BY <1>0, <1>1
      <4>3. Len(reports[t]) = 1 /\ (Made(t) <=> reports[t][1].status = "paid")
        BY <4>1, <4>2, OneReport
      <4>4. k = 1
        BY <1>1, <4>3
      <4> QED BY <2>0, <2>6, <3>1, <4>1, <4>2, <4>3, <4>4
    <3>6. payments[t].kind = "counter" =>
            /\ MaySettle(t)' \/ Dead(t)'
            /\ MaySettle(t)' => MaySettle(t)
      <4>1. SUFFICES ASSUME payments[t].kind = "counter"
                     PROVE  /\ MaySettle(t)' \/ Dead(t)'
                            /\ MaySettle(t)' => MaySettle(t)
        OBVIOUS
      <4>2. mode = "external" /\ (MaySettle(t) \/ Dead(t))
        BY <2>5, <3>2, <4>1 DEF RowOf
      <4>3. CASE status = "paid"
        BY <2>4, <2>9, <3>5, <4>1, <4>2, <4>3 DEF MaySettle, Dead
      <4>4. CASE status # "paid"
        BY <1>1, <2>4, <2>9, <3>5, <4>1, <4>2, <4>4 DEF MaySettle, Dead
      <4> QED BY <4>3, <4>4
    <3>7. refunded > 0 => status = "paid" /\ refunded < payments[t].amount
      BY <2>5, <3>1, <3>2, <3>3 DEF RowOf, Final
    <3>8. RowOf(t)'
      <4>1. payments'[t].status = "paid" => payments'[t].refunded < payments'[t].amount
        BY <2>4, <2>5, <3>1, <3>7 DEF RowOf
      <4> QED BY <1>1, <2>4, <2>5, <2>9, <3>1, <3>4, <3>5, <3>6, <3>7, <4>1 DEF RowOf, Final
    <3>9. Tame(t)
      <4>1. ~ Absent(t)'
        BY <2>4, <2>6, <3>1 DEF Absent, PaymentStatus
      <4>2. payments[t].kind # "counter" => ~ MaySettle(t)'
        BY <2>4 DEF MaySettle
      <4> QED BY <2>4, <3>1, <3>2, <3>3, <3>6, <4>1, <4>2 DEF Tame
    <3> QED BY <1>1, <1>3, <3>8, <3>9 DEF RowStep
  <2> QED BY <2>10, <2>11
<1> QED BY <1>2, <1>4, <1>5

(* A row written over with what the provider told a returning customer.       *)
LEMMA PollRows ==
    ASSUME Mild, PayInv, SeenInv, RowsInv, ToldInv, HeldInv, PollWrite
    PROVE  ToldInv' /\ \A u \in Payment : RowStep(u)
<1>1. poll \in Poll /\ poll # NoPoll
  BY DEF PayInv, TypeOK, PollWrite
<1>2. PICK t \in Payment : t = poll.payment
  BY <1>1 DEF Poll
<1>3. payments[t] \in PaymentRow /\ payments \in [Payment -> PaymentRow]
  BY RowTypes
<1>4. PICK status : status = poll.status
  OBVIOUS
<1>5. /\ payments' = [payments EXCEPT ![t] = [payments[t] EXCEPT !.status = status]]
      /\ UNCHANGED <<mode, reports>>
      /\ ~ (payments[t].refunded > 0)
  BY <1>2, <1>4 DEF PollWrite, Mild
<1>6. /\ payments'[t] = [payments[t] EXCEPT !.status = status]
      /\ \A u \in Payment : u # t => payments'[u] = payments[u]
  BY <1>3, <1>5
<1>7. /\ payments'[t].status = status /\ payments'[t].refunded = payments[t].refunded
      /\ payments'[t].amount = payments[t].amount /\ payments'[t].kind = payments[t].kind
      /\ payments'[t].covers = payments[t].covers /\ payments'[t].order = payments[t].order
      /\ payments'[t].intent = payments[t].intent
  BY <1>3, <1>6 DEF PaymentRow
<1>8. /\ mode = "external" /\ reports[t] # <<>> /\ status = reports[t][1].status
      /\ payments[t].kind # "manual"
  BY <1>1, <1>2, <1>4 DEF SeenInv, PollInv, HeldInv
<1>9. status \in {"paid", "failed", "cancelled"} /\ (Made(t) <=> status = "paid")
  BY <1>8, OneReport
<1>10. ~ Absent(t)
  BY <1>8, RowTypes
<1>11. RowOf(t) /\ payments[t].refunded = 0 /\ payments[t].amount > 0
  BY <1>5, <1>10, RowTypes DEF RowsInv, RowOf
<1>12. Made(t)' <=> Made(t)
  BY <1>5 DEF Made
<1>13. payments[t].status # "refunded"
  BY <1>11 DEF RowOf
<1>14. payments[t].kind = "counter" =>
         /\ MaySettle(t)' \/ Dead(t)'
         /\ MaySettle(t)' => MaySettle(t)
  <2>1. payments[t].kind = "counter" => MaySettle(t) \/ Dead(t)
    BY <1>11, <1>13 DEF RowOf
  <2> QED BY <1>5, <1>7, <1>8, <1>9, <1>12, <2>1 DEF MaySettle, Dead
<1>15. RowOf(t)'
  BY <1>5, <1>7, <1>8, <1>9, <1>11, <1>12, <1>14 DEF RowOf, Final
<1>16. Tame(t)
  <2>1. payments[t].status = "paid" => status = "paid"
    BY <1>8, <1>9, <1>11 DEF RowOf, Final
  <2>2. payments[t].kind # "counter" => ~ MaySettle(t)'
    BY <1>7 DEF MaySettle
  <2> QED BY <1>7, <1>9, <1>11, <1>13, <1>14, <2>1, <2>2 DEF Tame, Absent
<1>17. ToldInv'
  BY <1>5 DEF ToldInv
<1> QED BY <1>5, <1>6, <1>10, <1>15, <1>16, <1>17 DEF RowStep

(* A step that leaves the rows as they are.                                   *)
LEMMA StillRows ==
    ASSUME ToldInv, UNCHANGED <<mode, payments, reports>>
    PROVE  ToldInv' /\ \A u \in Payment : RowStep(u)
BY DEF ToldInv, RowStep

LEMMA IntentRows ==
    ASSUME PayInv, ToldInv, NEW t \in Payment, NEW products \in SUBSET Product,
           NEW accepted \in BOOLEAN, CreateIntent(t, products, accepted)
    PROVE  ToldInv' /\ \A u \in Payment : RowStep(u)
<1>1. PICK status : status = IF accepted THEN "pending" ELSE "failed"
  OBVIOUS
<1>2. PICK row : /\ payments' = [payments EXCEPT ![t] = row]
                 /\ row = [AbsentPayment EXCEPT !.status = status, !.amount = Cost(products),
                                                !.covers = products, !.intent = accepted]
  BY <1>1 DEF CreateIntent
<1>3. row = [status |-> status, kind |-> "cart", amount |-> Cost(products), refunded |-> 0,
             covers |-> products, order |-> NoOrder, intent |-> accepted, eventAt |-> 0]
  BY <1>2, Zenon DEF AbsentPayment
<1>4. /\ payments'[t] = row /\ \A u \in Payment : u # t => payments'[u] = payments[u]
      /\ UNCHANGED <<mode, reports>> /\ Fresh(t) /\ products # {}
  BY <1>2, RowTypes DEF CreateIntent
<1>5. Cost(products) > 0 /\ Cost(products) \in Nat
  <2>1. PICK p \in Item : p \in products
    BY <1>4, PaymentAssumption DEF Product
  <2> QED BY <2>1, PriceBelow, CostType
<1>6. /\ payments'[t].status = status /\ payments'[t].kind = "cart"
      /\ payments'[t].amount = Cost(products) /\ payments'[t].refunded = 0
      /\ payments'[t].covers = products
  BY <1>3, <1>4
<1>7. status \in {"pending", "failed"}
  BY <1>1
<1>8. RowOf(t)' /\ ~ Absent(t)'
  BY <1>5, <1>6, <1>7 DEF RowOf, Final, Absent
<1>9. ToldInv'
  BY <1>4 DEF ToldInv
<1> QED BY <1>4, <1>6, <1>8, <1>9 DEF RowStep

LEMMA PlaceRows ==
    ASSUME PayInv, RowsInv, ToldInv, NEW b \in Booking, NEW o \in Order,
           NEW new \in SUBSET Item, PlacePaid(b, o, new)
    PROVE  ToldInv' /\ \A u \in Payment : RowStep(u)
<1>1. PICK t : t = bookings[b]
  OBVIOUS
<1>2. t \in Payment /\ payments[t].status = "paid" /\ payments[t].order = NoOrder
  BY <1>1 DEF PayInv, TypeOK, PlacePaid, Recheck, Unused
<1>3. payments[t] \in PaymentRow /\ payments \in [Payment -> PaymentRow]
  BY <1>2, RowTypes
<1>4. payments' = [payments EXCEPT ![t] = [payments[t] EXCEPT !.order = o]]
      /\ UNCHANGED <<mode, reports>>
  BY <1>1 DEF PlacePaid
<1>5. /\ payments'[t] = [payments[t] EXCEPT !.order = o]
      /\ \A u \in Payment : u # t => payments'[u] = payments[u]
  BY <1>2, <1>3, <1>4
<1>6. /\ payments'[t].status = "paid" /\ payments'[t].refunded = payments[t].refunded
      /\ payments'[t].amount = payments[t].amount /\ payments'[t].kind = payments[t].kind
      /\ payments'[t].covers = payments[t].covers /\ payments'[t].order = o
      /\ payments'[t].intent = payments[t].intent
  BY <1>2, <1>3, <1>5 DEF PaymentRow
<1>7. ~ Absent(t) /\ RowOf(t) /\ o # NoOrder
  BY <1>2, PaymentAssumption DEF Absent, RowsInv
<1>8. /\ MaySettle(t)' <=> MaySettle(t)
      /\ Made(t)' <=> Made(t)
  BY <1>2, <1>4, <1>6 DEF MaySettle, Made
<1>9. RowOf(t)'
  <2>1. payments[t].kind # "counter"
    BY <1>2, <1>7 DEF RowOf
  <2> QED BY <1>2, <1>4, <1>6, <1>7, <1>8, <2>1 DEF RowOf
<1>10. Tame(t)
  BY <1>2, <1>6, <1>7, <1>8 DEF Tame, Absent
<1>11. ToldInv'
  BY <1>4 DEF ToldInv
<1> QED BY <1>4, <1>5, <1>7, <1>9, <1>10, <1>11 DEF RowStep

LEMMA CancelRows ==
    ASSUME PayInv, RowsInv, ToldInv, NEW o \in Order, CancelOrder(o)
    PROVE  ToldInv' /\ \A u \in Payment : RowStep(u)
<1>1. /\ UNCHANGED <<mode, reports>>
      /\ \A u \in Payment : payments'[u] = IF u \in Refundable(o) THEN FullyRefunded(u)
                                            ELSE payments[u]
  BY DEF CancelOrder, RefundsCancelled
<1>2. ToldInv'
  BY <1>1 DEF ToldInv
<1>3. ASSUME NEW t \in Payment, t \in Refundable(o)
      PROVE  ~ Absent(t) /\ Tame(t) /\ RowOf(t)'
  <2>1. /\ payments'[t].status = "refunded" /\ payments'[t].refunded = payments[t].amount
        /\ payments'[t].amount = payments[t].amount /\ payments'[t].kind = payments[t].kind
        /\ payments'[t].covers = payments[t].covers /\ payments'[t].order = payments[t].order
        /\ payments'[t].intent = payments[t].intent
    BY <1>1, <1>3, RowTypes DEF FullyRefunded, PaymentRow
  <2>2. payments[t].status = "paid" /\ ~ Absent(t)
    BY <1>3 DEF Refundable, Absent
  <2>3. RowOf(t) /\ payments[t].amount \in Nat
    BY <2>2, RowTypes DEF RowsInv
  <2>4. Made(t)' <=> Made(t)
    BY <1>1 DEF Made
  <2>5. RowOf(t)'
    BY <1>1, <2>1, <2>2, <2>3, <2>4 DEF RowOf, Final
  <2>6. Tame(t)
    BY <2>1, <2>2, <2>3 DEF Tame, Absent, MaySettle, RowOf
  <2> QED BY <2>2, <2>5, <2>6
<1> QED BY <1>1, <1>2, <1>3 DEF RowStep

LEMMA InsertRows ==
    ASSUME PayInv, ToldInv, BalanceInv, NEW s \in Staff, NEW t \in Payment, InsertCounter(s, t)
    PROVE  ToldInv' /\ \A u \in Payment : RowStep(u)
<1>1. PICK row : /\ payments' = [payments EXCEPT ![t] = row]
                 /\ row = [AbsentPayment EXCEPT !.status = "pending", !.kind = "counter",
                                                !.amount = counter[s].amount,
                                                !.covers = counter[s].products,
                                                !.order = counter[s].order]
  BY DEF InsertCounter
<1>2. row = [status |-> "pending", kind |-> "counter", amount |-> counter[s].amount,
             refunded |-> 0, covers |-> counter[s].products, order |-> counter[s].order,
             intent |-> FALSE, eventAt |-> 0]
  BY <1>1, Zenon DEF AbsentPayment
<1>3. /\ payments'[t] = row /\ \A u \in Payment : u # t => payments'[u] = payments[u]
      /\ UNCHANGED <<mode, reports>> /\ Fresh(t) /\ counter[s].at = "read"
  BY <1>1, RowTypes DEF InsertCounter
<1>4. /\ payments'[t].status = "pending" /\ payments'[t].kind = "counter"
      /\ payments'[t].amount = counter[s].amount /\ payments'[t].refunded = 0
      /\ payments'[t].order = counter[s].order
  BY <1>2, <1>3
<1>5. counter[s].amount > 0 /\ mode = "external" /\ counter[s].order # NoOrder
  BY <1>3, CounterParts, TypeParts, PaymentAssumption DEF BalanceInv, ReadOf, PayInv
<1>6. reports[t] = <<>>
  BY <1>3, RowTypes DEF Fresh
<1>7. MaySettle(t)'
  BY <1>3, <1>4, <1>6 DEF MaySettle
<1>8. RowOf(t)' /\ ~ Absent(t)'
  BY <1>3, <1>4, <1>5, <1>7 DEF RowOf, Final, Absent
<1>9. ToldInv'
  BY <1>3 DEF ToldInv
<1> QED BY <1>3, <1>4, <1>8, <1>9 DEF RowStep

(* A counter payment the provider has accepted or refused.                    *)
LEMMA FinishRows ==
    ASSUME PayInv, SeenInv, RowsInv, ToldInv, HeldInv, NEW s \in Staff, NEW accepted \in BOOLEAN,
           FinishCounter(s, accepted)
    PROVE  ToldInv' /\ \A u \in Payment : RowStep(u)
<1>1. PICK t : t = counter[s].payment
  OBVIOUS
<1>2. /\ t \in Payment /\ UNCHANGED <<mode, reports>>
      /\ Begun(s) /\ \A u \in Payment : u # t => payments'[u] = payments[u]
  BY <1>1, FinishedRow DEF Begun
<1>3. payments[t] \in PaymentRow /\ payments \in [Payment -> PaymentRow]
  BY <1>2, RowTypes
<1>4. PICK status : status = IF accepted THEN "pending" ELSE "failed"
  OBVIOUS
<1>5. payments'[t] = [payments[t] EXCEPT !.status = status, !.intent = accepted]
  BY <1>1, <1>2, <1>3, <1>4 DEF FinishCounter
<1>6. /\ payments'[t].status = status /\ payments'[t].refunded = payments[t].refunded
      /\ payments'[t].amount = payments[t].amount /\ payments'[t].kind = payments[t].kind
      /\ payments'[t].covers = payments[t].covers /\ payments'[t].order = payments[t].order
      /\ payments'[t].intent = accepted
  BY <1>3, <1>5 DEF PaymentRow
<1>7. /\ ~ Absent(t) /\ reports[t] = <<>>
      /\ payments[t].kind = "counter" /\ payments[t].status = "pending"
  BY <1>1, <1>2 DEF SeenInv, CounterInv, HeldInv
<1>8. RowOf(t) /\ payments[t].refunded = 0
  <2>1. RowOf(t) /\ ~ (payments[t].refunded > 0)
    BY <1>2, <1>7 DEF RowsInv, RowOf, Final
  <2> QED BY <1>2, <2>1, RowTypes
<1>9. ~ Made(t)' /\ MaySettle(t) /\ (status = "pending" => MaySettle(t)')
  BY <1>2, <1>6, <1>7 DEF Made, MaySettle
<1>10. status \in {"pending", "failed"} /\ (status = "failed" => ~ accepted)
  BY <1>4
<1>11. RowOf(t)'
  <2>1. MaySettle(t)' \/ Dead(t)'
    BY <1>6, <1>9, <1>10 DEF Dead
  <2> QED BY <1>2, <1>6, <1>7, <1>8, <1>10, <2>1 DEF RowOf, Final
<1>12. Tame(t)
  BY <1>6, <1>7, <1>8, <1>9, <1>10 DEF Tame, Absent
<1>13. ToldInv'
  BY <1>2 DEF ToldInv
<1> QED BY <1>2, <1>7, <1>11, <1>12, <1>13 DEF RowStep

(* What is not paid of an order of which nothing was returned is unpaid.      *)
LEMMA OpenIsUnpaid ==
    ASSUME PayInv, ItemsInv, NEW o \in Order, ~ Returned(o)
    PROVE  /\ NotPaid(items[o]) = {p \in Item : items[o][p].status = "unpaid"}
           /\ \A p \in Item : items[o][p].refunded = 0
           /\ Unreturned(o, LastPayment + 1)
<1>1. ASSUME NEW p \in Item
      PROVE  /\ items[o][p].status \in {"absent", "unpaid", "paid"}
             /\ items[o][p].refunded = 0
  <2>1. items[o][p] \in ItemRow /\ ItemOf(o, p)
    BY RowTypes DEF ItemsInv
  <2>2. items[o][p].refunded \in Nat /\ ~ (items[o][p].refunded > 0)
    BY <2>1 DEF Returned, ItemRow
  <2> QED BY <2>1, <2>2 DEF ItemOf, ItemRow
<1>2. Unreturned(o, LastPayment + 1)
  BY RowTypes DEF Returned, Unreturned
<1> QED BY <1>1, <1>2 DEF NotPaid, Booked

LEMMA BalanceRow ==
    ASSUME Mild, PayInv, ItemsInv, NEW t \in Payment, NEW o \in Order, NEW k \in Key,
           ManualBalance(o, t, k)
    PROVE  /\ payments'[t] \in PaymentRow
           /\ payments'[t].status = "paid" /\ payments'[t].kind = "manual"
           /\ payments'[t].covers = NotPaid(items[o]) /\ payments'[t].order = o
           /\ payments'[t].amount = Cost(NotPaid(items[o])) /\ payments'[t].amount > 0
           /\ payments'[t].refunded = 0 /\ ~ payments'[t].intent
           /\ ~ Returned(o) /\ Fresh(t)
           /\ k \notin keys => Reconcile(t, payments'[t])
           /\ k \in keys => UNCHANGED <<orders, items>>
<1>1. ~ Returned(o) /\ Fresh(t) /\ ~ AllPaid(items[o])
  BY DEF ManualBalance, MayPay, Mild
<1>2. /\ NotPaid(items[o]) = {p \in Item : items[o][p].status = "unpaid"}
      /\ NotPaid(items[o]) \subseteq Item
  BY <1>1, OpenIsUnpaid DEF NotPaid, Booked
<1>3. PICK open : open = {p \in Booked(items[o]) : items[o][p].status # "paid"}
  OBVIOUS
<1>4. PICK amount : amount = Cost({p \in open : items[o][p].status = "unpaid"})
  OBVIOUS
<1>5. PICK row : /\ row = [AbsentPayment EXCEPT
                              !.status = "paid", !.kind = "manual",
                              !.covers = ProductsOf(open),
                              !.amount = amount, !.order = o]
                 /\ payments' = [payments EXCEPT ![t] = row]
                 /\ k \notin keys => Reconcile(t, row)
                 /\ k \in keys => UNCHANGED <<orders, items>>
  BY <1>3, <1>4 DEF ManualBalance
<1>6. row = [status |-> "paid", kind |-> "manual", amount |-> amount, refunded |-> 0,
             covers |-> ProductsOf(open), order |-> o, intent |-> FALSE, eventAt |-> 0]
  BY <1>5, Zenon DEF AbsentPayment
<1>7. ProductsOf(open) = NotPaid(items[o]) /\ amount = Cost(NotPaid(items[o]))
  <2>1. open = NotPaid(items[o])
    BY <1>3 DEF NotPaid
  <2>2. {p \in open : items[o][p].status = "unpaid"} = NotPaid(items[o])
    BY <1>2, <2>1
  <2>3. \A p \in open : ProductOf[p] = p
    BY <1>2, <2>1 DEF ItemsInv, ItemOf
  <2> QED BY <1>4, <2>1, <2>2, <2>3 DEF ProductsOf
<1>8. amount > 0 /\ amount \in Nat
  <2>1. PICK p \in Item : p \in NotPaid(items[o])
    BY <1>1 DEF AllPaid, NotPaid, Booked
  <2> QED BY <1>7, <2>1, PriceBelow, CostType
<1>9. payments'[t] = row
  BY <1>5, RowTypes
<1>10. row \in PaymentRow
  <2>1. ProductsOf(open) \subseteq Product
    BY <1>3 DEF ProductsOf, Product, Booked
  <2> QED BY <1>6, <1>8, <2>1, NewRowType DEF PaymentStatus
<1>11. /\ row.status = "paid" /\ row.kind = "manual" /\ row.covers = ProductsOf(open)
       /\ row.order = o
       /\ row.amount = amount /\ row.refunded = 0 /\ row.intent = FALSE
  BY <1>6, Zenon
<1> QED BY <1>1, <1>5, <1>7, <1>8, <1>9, <1>10, <1>11

LEMMA BalanceRows ==
    ASSUME Mild, PayInv, ToldInv, ItemsInv, NEW t \in Payment, NEW o \in Order, NEW k \in Key,
           ManualBalance(o, t, k)
    PROVE  ToldInv' /\ \A u \in Payment : RowStep(u)
<1>1. /\ UNCHANGED mode /\ Absent(t) /\ reports[t] = <<>>
      /\ \A u \in Payment : u # t => payments'[u] = payments[u] /\ reports'[u] = reports[u]
      /\ k \notin keys => reports'[t] = <<[status |-> "paid", refunded |-> 0]>>
      /\ k \in keys => reports' = reports
  BY TillRow
<1>2. /\ payments'[t].status = "paid" /\ payments'[t].kind = "manual"
      /\ payments'[t].covers = NotPaid(items[o])
      /\ payments'[t].amount = Cost(NotPaid(items[o])) /\ payments'[t].amount > 0
      /\ payments'[t].refunded = 0 /\ ~ payments'[t].intent /\ Fresh(t)
  BY BalanceRow
<1>3. ToldInv'
  <2>1. ASSUME NEW i \in 1 .. Len(reports'[t])
        PROVE  reports'[t][i].status = "paid"
    <3>1. CASE reports'[t] = <<>>
      BY <2>1, <3>1
    <3>2. CASE reports'[t] = <<[status |-> "paid", refunded |-> 0]>>
      BY <2>1, <3>2
    <3> QED BY <1>1, <3>1, <3>2
  <2> QED BY <1>1, <2>1 DEF ToldInv
<1>4. Cost(NotPaid(items[o])) \in Nat
  BY CostType
<1>5. RowOf(t)' /\ ~ Absent(t)'
  BY <1>2, <1>4 DEF RowOf, Final, Absent
<1> QED BY <1>1, <1>2, <1>3, <1>5 DEF RowStep

(* The latest payment of an order, settled or refunded by staff.              *)
LEMMA ManualRow ==
    ASSUME Mild, PayInv, RowsInv, NEW o \in Order, NEW t \in Payment, NEW k \in Key,
           ManualPaid(o, t, k) \/ \E amount \in Nat \ {0} : ManualRefund(o, t, k, amount)
    PROVE  /\ UNCHANGED <<mode, reports>> /\ ~ Absent(t) /\ Made(t) /\ Latest(o, t)
           /\ \A u \in Payment : u # t => payments'[u] = payments[u]
           /\ payments'[t] \in PaymentRow
           /\ payments'[t].amount = payments[t].amount /\ payments'[t].kind = payments[t].kind
           /\ payments'[t].covers = payments[t].covers /\ payments'[t].order = payments[t].order
           /\ payments'[t].intent = payments[t].intent
           /\ Reconcile(t, payments'[t])
           /\ \/ /\ payments'[t].status = "paid" /\ payments[t].status # "refunded"
                 /\ payments'[t].refunded = payments[t].refunded
              \/ /\ MayRefund(o) /\ payments'[t].refunded > 0
                 /\ payments[t].refunded <= payments'[t].refunded
                 /\ \/ /\ payments'[t].status = "paid"
                       /\ payments'[t].refunded < payments[t].amount
                    \/ /\ payments'[t].status = "refunded"
                       /\ payments'[t].refunded = payments[t].amount
<1>1. /\ payments[t] \in PaymentRow /\ payments[t].refunded <= payments[t].amount
      /\ payments[t].refunded \in Nat /\ payments[t].amount \in Nat
      /\ payments \in [Payment -> PaymentRow]
  BY RowTypes
<1>2. ASSUME NEW row, ManualSettle(o, t, k, row)
      PROVE  /\ UNCHANGED <<mode, reports>> /\ ~ Absent(t) /\ Made(t) /\ Latest(o, t)
             /\ payments'[t] = row /\ \A u \in Payment : u # t => payments'[u] = payments[u]
             /\ Reconcile(t, payments'[t])
  <2>1. payments' = [payments EXCEPT ![t] = row] /\ Reconcile(t, row)
        /\ UNCHANGED <<mode, reports>> /\ Made(t) /\ Latest(o, t)
    BY <1>2 DEF ManualSettle, Mild
  <2>2. ~ Absent(t)
    BY <2>1, PaymentAssumption DEF Latest, PayInv, AbsentIsBlank, AbsentPayment
  <2>3. payments'[t] = row /\ \A u \in Payment : u # t => payments'[u] = payments[u]
    BY <1>1, <2>1
  <2> QED BY <2>1, <2>2, <2>3
<1>3. CASE ManualPaid(o, t, k)
  <2>1. PICK row : /\ row = [payments[t] EXCEPT !.status = "paid"]
                   /\ ManualSettle(o, t, k, row)
    BY <1>3 DEF ManualPaid
  <2>2. /\ row \in PaymentRow /\ row.amount = payments[t].amount /\ row.kind = payments[t].kind
        /\ row.covers = payments[t].covers /\ row.order = payments[t].order
        /\ row.intent = payments[t].intent /\ row.status = "paid"
        /\ row.refunded = payments[t].refunded
    BY <1>1, <2>1 DEF PaymentRow, PaymentStatus
  <2>3. payments[t].status # "refunded"
    BY <1>3 DEF ManualPaid, Mild
  <2> QED BY <1>2, <2>1, <2>2, <2>3
<1>4. CASE \E amount \in Nat \ {0} : ManualRefund(o, t, k, amount)
  <2>1. PICK amount \in Nat \ {0} : ManualRefund(o, t, k, amount)
    BY <1>4
  <2>2. PICK refunded : refunded = RefundAmount(payments[t], amount)
    OBVIOUS
  <2>3. PICK status : status = IF refunded < payments[t].amount THEN "paid" ELSE "refunded"
    OBVIOUS
  <2>4. PICK row : /\ row = [payments[t] EXCEPT !.refunded = refunded, !.status = status]
                   /\ ManualSettle(o, t, k, row)
    BY <2>1, <2>2, <2>3 DEF ManualRefund
  <2>5. /\ refunded \in Nat /\ payments[t].refunded <= refunded
        /\ refunded <= payments[t].amount
    BY <1>1, <2>2, RefundAmountType
  <2>6. /\ row \in PaymentRow /\ row.amount = payments[t].amount /\ row.kind = payments[t].kind
        /\ row.covers = payments[t].covers /\ row.order = payments[t].order
        /\ row.intent = payments[t].intent /\ row.status = status
        /\ row.refunded = refunded
    BY <1>1, <2>3, <2>4, <2>5 DEF PaymentRow, PaymentStatus
  <2>7. /\ ~ Absent(t)
        /\ payments'[t] = row /\ MayRefund(o)
    BY <1>2, <2>1, <2>4 DEF ManualRefund
  <2>8. payments[t].amount > 0
    BY <2>7 DEF RowsInv, RowOf
  <2>9. refunded > 0
    BY <1>1, <2>2, <2>8 DEF RefundAmount, AtMost
  <2>10. \/ status = "paid" /\ refunded < payments[t].amount
         \/ status = "refunded" /\ refunded = payments[t].amount
    BY <1>1, <2>3, <2>5
  <2> QED BY <1>2, <2>4, <2>5, <2>6, <2>7, <2>9, <2>10
<1> QED BY <1>3, <1>4

LEMMA ManualRows ==
    ASSUME Mild, PayInv, RowsInv, ToldInv, NEW o \in Order, NEW t \in Payment, NEW k \in Key,
           ManualPaid(o, t, k) \/ \E amount \in Nat \ {0} : ManualRefund(o, t, k, amount)
    PROVE  ToldInv' /\ \A u \in Payment : RowStep(u)
<1>1. /\ UNCHANGED <<mode, reports>> /\ ~ Absent(t) /\ Made(t) /\ Latest(o, t)
      /\ \A u \in Payment : u # t => payments'[u] = payments[u]
  BY ManualRow
<1>2. /\ payments'[t].amount = payments[t].amount /\ payments'[t].kind = payments[t].kind
      /\ payments'[t].covers = payments[t].covers /\ payments'[t].order = payments[t].order
      /\ payments'[t].intent = payments[t].intent
  BY ManualRow
<1>3. \/ /\ payments'[t].status = "paid" /\ payments[t].status # "refunded"
         /\ payments'[t].refunded = payments[t].refunded
      \/ /\ payments'[t].refunded > 0
         /\ payments[t].refunded <= payments'[t].refunded
         /\ \/ /\ payments'[t].status = "paid"
               /\ payments'[t].refunded < payments[t].amount
            \/ /\ payments'[t].status = "refunded"
               /\ payments'[t].refunded = payments[t].amount
  BY ManualRow
<1>4. ToldInv'
  BY <1>1 DEF ToldInv
<1>5. /\ RowOf(t) /\ payments[t].amount \in Nat /\ payments[t].refunded \in Nat
      /\ payments[t].refunded <= payments[t].amount
  BY <1>1, RowTypes DEF RowsInv
<1>6. Made(t)'
  BY <1>1 DEF Made
<1>7. payments[t].kind = "counter" =>
        /\ MaySettle(t)' \/ payments'[t].status = "refunded"
        /\ payments[t].status # "refunded" => MaySettle(t)
  BY <1>1, <1>2, <1>3, <1>5 DEF RowOf, MaySettle, Dead
<1>8. CASE payments[t].status = "refunded"
  <2>1. payments'[t].status = "refunded" /\ payments'[t].refunded = payments[t].amount
    <3>1. payments[t].refunded = payments[t].amount
      BY <1>5, <1>8 DEF RowOf
    <3>2. payments'[t].refunded \in Nat
      BY ManualRow DEF PaymentRow
    <3> QED BY <1>3, <1>5, <1>8, <3>1, <3>2
  <2>2. RowOf(t)'
    BY <1>1, <1>2, <1>5, <1>6, <2>1 DEF RowOf, Final
  <2>3. Tame(t)
    BY <1>1, <1>2, <1>5, <1>8, <2>1 DEF Tame, Absent, MaySettle, RowOf
  <2> QED BY <1>1, <1>4, <2>2, <2>3 DEF RowStep
<1>9. CASE payments[t].status # "refunded"
  <2>1. payments'[t].status = "paid" => payments'[t].refunded < payments[t].amount
    BY <1>3, <1>5, <1>9 DEF RowOf, Final
  <2>2. RowOf(t)'
    <3>1. /\ payments'[t].status \in {"paid", "refunded"}
          /\ payments'[t].status = "refunded" => payments'[t].refunded = payments[t].amount
      BY <1>3
    <3> QED BY <1>1, <1>2, <1>5, <1>6, <1>7, <2>1, <3>1 DEF RowOf, Final
  <2>3. Tame(t)
    <3>1. MaySettle(t)' => MaySettle(t)
      BY <1>2, <1>7, <1>9 DEF MaySettle
    <3>2. payments[t].refunded > 0 => payments'[t].refunded > 0
      BY <1>3
    <3>3. ~ Absent(t)'
      BY <1>3 DEF Absent
    <3>4. payments'[t].refunded = 0 => payments'[t].status = "paid"
      BY <1>3
    <3> QED BY <1>2, <1>9, <3>1, <3>2, <3>3, <3>4 DEF Tame
  <2> QED BY <1>1, <1>4, <2>2, <2>3 DEF RowStep
<1> QED BY <1>8, <1>9

(* The steps that change neither rows nor items.                              *)
Idle ==
    \/ PollFails \/ RereadFails \/ UNCHANGED vars
    \/ \E t \in Payment : PollProvider(t) \/ RereadPayment(t)
    \/ \E b \in Booking : RefuseBooking(b) \/ \E t \in Payment : BeginBooking(b, t)
    \/ \E o \in Order : CloseOrder(o)
    \/ \E s \in Staff : AbandonCounter(s) \/ \E o \in Order : ReadBalance(s, o)

LEMMA IdleSame == Idle => UNCHANGED <<mode, payments, reports, items, keys>>
BY DEF Idle, PollFails, RereadFails, PollProvider, RereadPayment, RefuseBooking, BeginBooking,
       CloseOrder, AbandonCounter, ReadBalance, vars, underway

LEMMA SpendKinds ==
    ASSUME PayInv, [Next]_vars
    PROVE  \/ Idle
           \/ PollWrite
           \/ ReconcileReread
           \/ \E t \in Payment :
                \/ \E report \in [status : PaymentStatus, refunded : Nat] : ProviderReports(t, report)
                \/ \E k \in 1 .. MaxReports : DeliverEvent(t, k)
                \/ \E products \in SUBSET Product, accepted \in BOOLEAN :
                     CreateIntent(t, products, accepted)
                \/ \E s \in Staff : InsertCounter(s, t)
                \/ \E o \in Order, k \in Key :
                     \/ ManualBalance(o, t, k)
                     \/ \/ ManualPaid(o, t, k)
                        \/ \E amount \in Nat \ {0} : ManualRefund(o, t, k, amount)
           \/ \E s \in Staff, accepted \in BOOLEAN : FinishCounter(s, accepted)
           \/ \E o \in Order :
                \/ CancelOrder(o)
                \/ \E new \in SUBSET Item :
                     PlaceUnpaid(o, new) \/ \E b \in Booking : PlacePaid(b, o, new)
<1>1. CASE ProviderStep
  <2>1. PICK t \in Payment :
           \/ \E report \in [status : PaymentStatus, refunded : 0 .. payments[t].amount] :
                ProviderReports(t, report)
           \/ \E k \in 1 .. MaxReports : DeliverEvent(t, k)
           \/ PollProvider(t)
    BY <1>1 DEF ProviderStep
  <2>2. \A report \in [status : PaymentStatus, refunded : 0 .. payments[t].amount] :
           report \in [status : PaymentStatus, refunded : Nat]
    OBVIOUS
  <2> QED BY <2>1, <2>2 DEF Idle
<1>2. CASE CustomerStep
  BY <1>2 DEF CustomerStep, Idle
<1>3. CASE OrderStep
  <2>1. PICK o \in Order :
           \/ CancelOrder(o)
           \/ CloseOrder(o)
           \/ \E t \in Payment, k \in Key :
                \/ ManualBalance(o, t, k)
                \/ ManualPaid(o, t, k)
                \/ \E amount \in 1 .. payments[t].amount : ManualRefund(o, t, k, amount)
    BY <1>3 DEF OrderStep
  <2>2. \A t \in Payment : \A amount \in 1 .. payments[t].amount : amount \in Nat \ {0}
    OBVIOUS
  <2> QED BY <2>1, <2>2 DEF Idle
<1>4. CASE StaffStep
  BY <1>4 DEF StaffStep, Idle
<1>5. CASE PollWrite \/ PollFails \/ ReconcileReread \/ RereadFails \/ UNCHANGED vars
  BY <1>5 DEF Idle
<1> QED BY <1>1, <1>2, <1>3, <1>4, <1>5 DEF Next

LEMMA StepRows ==
    ASSUME Mild, PayInv, SeenInv, SpendInv, [Next]_vars
    PROVE  ToldInv' /\ UNCHANGED mode /\ \A u \in Payment : RowStep(u)
<1>1. UNCHANGED mode
  BY StepKinds, NewRows
     DEF Quiet, ProviderReports, DeliverEvent, PollProvider, ManualBalance, FinishCounter, PollWrite
<1>2. ASSUME UNCHANGED <<mode, payments, reports>>
      PROVE  ToldInv' /\ \A u \in Payment : RowStep(u)
  BY <1>2, StillRows DEF SpendInv
<1>3. Idle \/ ReconcileReread => UNCHANGED <<mode, payments, reports>>
  BY IdleSame DEF ReconcileReread
<1>4. \A o \in Order, new \in SUBSET Item :
        PlaceUnpaid(o, new) => UNCHANGED <<mode, payments, reports>>
  BY DEF PlaceUnpaid
<1> QED BY <1>1, <1>2, <1>3, <1>4, SpendKinds, ReportRows, DeliverRows, PollRows, IntentRows,
           PlaceRows, CancelRows, InsertRows, FinishRows, BalanceRows, ManualRows DEF SpendInv

LEMMA RowsKept ==
    ASSUME RowsInv, UNCHANGED mode, \A u \in Payment : RowStep(u)
    PROVE  RowsInv'
<1>1. ASSUME NEW t \in Payment, ~ Absent(t)' PROVE RowOf(t)'
  <2>1. CASE payments'[t] = payments[t] /\ reports'[t] = reports[t]
    <3>1. RowOf(t)
      BY <1>1, <2>1 DEF RowsInv, Absent
    <3> QED BY <2>1, <3>1 DEF RowOf, MaySettle, Dead, Made
  <2>2. RowStep(t)
    OBVIOUS
  <2> QED BY <2>1, <2>2 DEF RowStep
<1>2. ASSUME NEW t \in Payment, NEW u \in Payment, Absent(t)', t < u PROVE Absent(u)'
  <2>1. Absent(t)
    BY <1>2 DEF RowStep, Absent, Tame
  <2>2. Absent(u) /\ ~ Fresh(u)
    BY <1>2, <2>1 DEF RowsInv, Fresh
  <2> QED BY <2>2 DEF RowStep, Absent
<1> QED BY <1>1, <1>2 DEF RowsInv

LEMMA Tamed ==
    ASSUME NEW t \in Payment, RowStep(t), ~ Absent(t)
    PROVE  Tame(t)
<1>1. CASE payments'[t] = payments[t] /\ reports'[t] = reports[t]
  BY <1>1 DEF Tame, Absent, MaySettle
<1> QED BY <1>1 DEF RowStep, Fresh

(* What is under way.                                                         *)
LEMMA PollSteps ==
    ASSUME PayInv, [Next]_vars
    PROVE  /\ \/ poll' = poll \/ poll' = NoPoll \/ \E t \in Payment : PollProvider(t)
           /\ \/ rereading' = rereading \/ rereading' = NoRow
              \/ \E t \in Payment : RereadPayment(t)
<1>1. CASE Idle
  <2>1. \A t : PollProvider(t) => rereading' = rereading
    BY DEF PollProvider
  <2>2. \A t : RereadPayment(t) => poll' = poll
    BY DEF RereadPayment
  <2>3. PollFails => poll' = NoPoll /\ rereading' = rereading
    BY DEF PollFails
  <2>4. RereadFails => poll' = poll /\ rereading' = NoRow
    BY DEF RereadFails
  <2>5. UNCHANGED vars => poll' = poll /\ rereading' = rereading
    BY DEF vars, underway
  <2>6. \A b : RefuseBooking(b) => poll' = poll /\ rereading' = rereading
    BY DEF RefuseBooking
  <2>7. \A b, t : BeginBooking(b, t) => poll' = poll /\ rereading' = rereading
    BY DEF BeginBooking
  <2>8. \A o : CloseOrder(o) => poll' = poll /\ rereading' = rereading
    BY DEF CloseOrder, underway
  <2>9. \A s : AbandonCounter(s) => poll' = poll /\ rereading' = rereading
    BY DEF AbandonCounter
  <2>10. \A s, o : ReadBalance(s, o) => poll' = poll /\ rereading' = rereading
    BY DEF ReadBalance
  <2> QED BY <1>1, <2>1, <2>2, <2>3, <2>4, <2>5, <2>6, <2>7, <2>8, <2>9, <2>10 DEF Idle
<1>2. CASE ~ Idle
  <2>1. \A t, report : ProviderReports(t, report) => UNCHANGED <<poll, rereading>>
    BY DEF ProviderReports, underway
  <2>2. \A t, k : DeliverEvent(t, k) => UNCHANGED <<poll, rereading>>
    BY DEF DeliverEvent, underway
  <2>3. \A t, products, accepted : CreateIntent(t, products, accepted) => UNCHANGED <<poll, rereading>>
    BY DEF CreateIntent, underway
  <2>4. \A s, t : InsertCounter(s, t) => UNCHANGED <<poll, rereading>>
    BY DEF InsertCounter
  <2>5. \A o, t, k : ManualBalance(o, t, k) => UNCHANGED <<poll, rereading>>
    BY DEF ManualBalance, underway
  <2>6. \A o, t, k : ManualPaid(o, t, k) => UNCHANGED <<poll, rereading>>
    BY DEF ManualPaid, ManualSettle, underway
  <2>7. \A o, t, k, amount : ManualRefund(o, t, k, amount) => UNCHANGED <<poll, rereading>>
    BY DEF ManualRefund, ManualSettle, underway
  <2>8. \A s, accepted : FinishCounter(s, accepted) => UNCHANGED <<poll, rereading>>
    BY DEF FinishCounter
  <2>9. \A o : CancelOrder(o) => UNCHANGED <<poll, rereading>>
    BY DEF CancelOrder, underway
  <2>10. \A o, new : PlaceUnpaid(o, new) => UNCHANGED <<poll, rereading>>
    BY DEF PlaceUnpaid, underway
  <2>11. \A b, o, new : PlacePaid(b, o, new) => UNCHANGED <<poll, rereading>>
    BY DEF PlacePaid
  <2>12. PollWrite => poll' = NoPoll /\ rereading' = rereading
    BY DEF PollWrite
  <2>13. ReconcileReread => poll' = poll /\ rereading' = NoRow
    BY DEF ReconcileReread
  <2> QED BY <1>2, <2>1, <2>2, <2>3, <2>4, <2>5, <2>6, <2>7,
            <2>8, <2>9, <2>10, <2>11, <2>12, <2>13, SpendKinds
<1> QED BY <1>1, <1>2

LEMMA CounterSteps ==
    ASSUME PayInv, [Next]_vars, NEW s \in Staff
    PROVE  \/ counter'[s] = counter[s] \/ counter'[s] = NoCounter
           \/ \E t \in Payment : InsertCounter(s, t)
           \/ \E o \in Order : ReadBalance(s, o)
<1>0. counter \in [Staff -> Counter \cup {NoCounter}]
  BY DEF PayInv, TypeOK
<1>1. CASE UNCHANGED counter
  BY <1>1
<1>2. ASSUME NEW r \in Staff, AbandonCounter(r) \/ \E accepted \in BOOLEAN : FinishCounter(r, accepted)
      PROVE  counter'[s] = counter[s] \/ counter'[s] = NoCounter
  BY <1>0, <1>2 DEF AbandonCounter, FinishCounter
<1>3. ASSUME NEW r \in Staff, r # s, (\E t \in Payment : InsertCounter(r, t))
                                     \/ \E o \in Order : ReadBalance(r, o)
      PROVE  counter'[s] = counter[s]
  BY <1>0, <1>3 DEF InsertCounter, ReadBalance
<1>4. CASE Idle
  <2>1. CASE UNCHANGED counter
    BY <1>1, <2>1
  <2>2. CASE \E r \in Staff : AbandonCounter(r) \/ \E o \in Order : ReadBalance(r, o)
    BY <1>2, <1>3, <2>2
  <2>3. (\E r \in Staff : AbandonCounter(r) \/ \E o \in Order : ReadBalance(r, o))
        \/ UNCHANGED counter
    <3>1. PollFails \/ RereadFails \/ UNCHANGED vars => UNCHANGED counter
      BY DEF PollFails, RereadFails, vars, underway
    <3>2. \A t : PollProvider(t) \/ RereadPayment(t) => UNCHANGED counter
      BY DEF PollProvider, RereadPayment
    <3>3. \A b : RefuseBooking(b) \/ (\E t \in Payment : BeginBooking(b, t)) => UNCHANGED counter
      BY DEF RefuseBooking, BeginBooking
    <3>4. \A o : CloseOrder(o) => UNCHANGED counter
      BY DEF CloseOrder, underway
    <3> QED BY <1>4, <3>1, <3>2, <3>3, <3>4 DEF Idle
  <2> QED BY <2>1, <2>2, <2>3
<1>5. CASE ~ Idle
  <2>1. \A t, report : ProviderReports(t, report) => UNCHANGED counter
    BY DEF ProviderReports, underway
  <2>2. \A t, k : DeliverEvent(t, k) => UNCHANGED counter
    BY DEF DeliverEvent, underway
  <2>3. \A t, products, accepted : CreateIntent(t, products, accepted) => UNCHANGED counter
    BY DEF CreateIntent, underway
  <2>4. \A o, t, k : ManualBalance(o, t, k) => UNCHANGED counter
    BY DEF ManualBalance, underway
  <2>5. \A o, t, k : ManualPaid(o, t, k) => UNCHANGED counter
    BY DEF ManualPaid, ManualSettle, underway
  <2>6. \A o, t, k, amount : ManualRefund(o, t, k, amount) => UNCHANGED counter
    BY DEF ManualRefund, ManualSettle, underway
  <2>7. \A o : CancelOrder(o) => UNCHANGED counter
    BY DEF CancelOrder, underway
  <2>8. \A o, new : PlaceUnpaid(o, new) => UNCHANGED counter
    BY DEF PlaceUnpaid, underway
  <2>9. \A b, o, new : PlacePaid(b, o, new) => UNCHANGED counter
    BY DEF PlacePaid
  <2>10. PollWrite => UNCHANGED counter
    BY DEF PollWrite
  <2>11. ReconcileReread => UNCHANGED counter
    BY DEF ReconcileReread
  <2> QED BY <1>1, <1>2, <1>3, <1>5, <2>1, <2>2, <2>3, <2>4, <2>5, <2>6,
            <2>7, <2>8, <2>9, <2>10, <2>11, SpendKinds
<1> QED BY <1>4, <1>5

(* A counter payment that is being begun changes with the provider's answer.  *)
LEMMA BegunStays ==
    ASSUME Mild, PayInv, SeenInv, SpendInv, [Next]_vars, NEW t \in Payment,
           payments[t].status = "pending", reports[t] = <<>>,
           \A s \in Staff, accepted \in BOOLEAN :
              FinishCounter(s, accepted) => counter[s].payment # t
    PROVE  payments'[t].status = "pending"
<1>1. ~ Absent(t) /\ ~ Made(t)
  BY DEF Absent, Made
<1>2. CASE UNCHANGED payments
  BY <1>2
<1>3. CASE PollWrite
  <2>1. poll \in Poll /\ poll # NoPoll
    BY <1>3 DEF PayInv, TypeOK, PollWrite
  <2>2. poll.payment # t
    BY <2>1 DEF SeenInv, PollInv
  <2> QED BY <1>3, <2>2, RowTypes DEF PollWrite
<1>4. ASSUME NEW u \in Payment, NEW k \in 1 .. MaxReports, DeliverEvent(u, k)
      PROVE  payments'[t] = payments[t]
  <2>1. k \in 1 .. Len(reports[u]) /\ \A v \in Payment : v # u => payments'[v] = payments[v]
    BY <1>4, DeliveredRow
  <2>2. u # t
    BY <2>1
  <2> QED BY <2>1, <2>2
<1>5. ASSUME NEW u \in Payment, Absent(u),
             \A v \in Payment : v # u => payments'[v] = payments[v]
      PROVE  payments'[t] = payments[t]
  BY <1>1, <1>5
<1>6. ASSUME NEW u \in Payment, NEW o \in Order, NEW k \in Key,
             \/ ManualPaid(o, u, k)
             \/ \E amount \in Nat \ {0} : ManualRefund(o, u, k, amount)
      PROVE  payments'[t] = payments[t]
  BY <1>1, <1>6, ManualRow DEF SpendInv
<1>7. ASSUME NEW s \in Staff, NEW accepted \in BOOLEAN, FinishCounter(s, accepted)
      PROVE  payments'[t] = payments[t]
  BY <1>7, FinishedRow
<1>8. ASSUME NEW o \in Order, CancelOrder(o)
      PROVE  payments'[t] = payments[t]
  BY <1>8 DEF CancelOrder, RefundsCancelled, Refundable
<1>9. ASSUME NEW o \in Order, NEW new \in SUBSET Item, NEW b \in Booking,
             PlacePaid(b, o, new)
      PROVE  payments'[t] = payments[t]
  <2>1. bookings[b] # t
    BY <1>9 DEF PlacePaid, Recheck, Unused
  <2> QED BY <1>9, <2>1, RowTypes DEF PlacePaid
<1> QED BY <1>2, <1>3, <1>4, <1>5, <1>6, <1>7, <1>8, <1>9, SpendKinds, IdleSame, NewRows, TillRow
        DEF ReconcileReread, ProviderReports, PlaceUnpaid

LEMMA StepHeld ==
    ASSUME Mild, PayInv, PayInv', SeenInv, SpendInv, [Next]_vars
    PROVE  HeldInv'
<1>1. \A t \in Payment : RowStep(t)
  BY StepRows
<1>2. ASSUME NEW s \in Staff, Begun(s)'
      PROVE  /\ payments'[counter'[s].payment].kind = "counter"
             /\ payments'[counter'[s].payment].status = "pending"
  <2>1. CASE \E t \in Payment : InsertCounter(s, t)
    <3>1. PICK t \in Payment : InsertCounter(s, t)
      BY <2>1
    <3>2. counter'[s] = [at |-> "created", payment |-> t]
      BY <3>1 DEF InsertCounter, PayInv, TypeOK
    <3>3. payments' = [payments EXCEPT ![t] = payments'[t]]
      BY <3>1, RowTypes DEF InsertCounter
    <3>4. PICK row : /\ payments' = [payments EXCEPT ![t] = row]
                     /\ row = [AbsentPayment EXCEPT !.status = "pending", !.kind = "counter",
                                                    !.amount = counter[s].amount,
                                                    !.covers = counter[s].products,
                                                    !.order = counter[s].order]
      BY <3>1 DEF InsertCounter
    <3>5. row = [status |-> "pending", kind |-> "counter", amount |-> counter[s].amount,
                 refunded |-> 0, covers |-> counter[s].products, order |-> counter[s].order,
                 intent |-> FALSE, eventAt |-> 0]
      BY <3>4, Zenon DEF AbsentPayment
    <3>6. payments'[t] = row
      BY <3>4, RowTypes
    <3> QED BY <3>2, <3>5, <3>6
  <2>2. CASE ~ \E t \in Payment : InsertCounter(s, t)
    <3>1. Begun(s) /\ counter'[s] = counter[s]
      <4>1. counter'[s].at = "created" /\ counter'[s] # NoCounter
        BY <1>2 DEF Begun, NoCounter
      <4>2. ASSUME NEW o \in Order, ReadBalance(s, o) PROVE FALSE
        <5>1. PICK amount, products :
                counter' = [counter EXCEPT ![s] = [at |-> "read", order |-> o, amount |-> amount,
                                                   products |-> products]]
          BY <4>2 DEF ReadBalance
        <5>2. counter'[s].at = "read"
          BY <5>1 DEF PayInv, TypeOK
        <5> QED BY <4>1, <5>2
      <4>3. counter'[s] = counter[s]
        BY <2>2, <4>1, <4>2, CounterSteps
      <4> QED BY <4>1, <4>3 DEF Begun
    <3>2. PICK t \in Payment : t = counter[s].payment
      BY <3>1, CounterPayment
    <3>3. /\ payments[t].kind = "counter" /\ payments[t].status = "pending"
          /\ reports[t] = <<>> /\ ~ Absent(t)
      BY <3>1, <3>2 DEF SpendInv, HeldInv, SeenInv, CounterInv
    <3>4. \A r \in Staff, accepted \in BOOLEAN :
             FinishCounter(r, accepted) => counter[r].payment # t
      <4>1. SUFFICES ASSUME NEW r \in Staff, NEW accepted \in BOOLEAN, FinishCounter(r, accepted),
                            counter[r].payment = t
                     PROVE  FALSE
        OBVIOUS
      <4>2. Begun(r)
        BY <4>1 DEF FinishCounter, Begun
      <4>3. r = s
        BY <3>1, <3>2, <4>1, <4>2 DEF SeenInv, CounterInv
      <4>4. counter'[s] = NoCounter
        BY <4>1, <4>3 DEF FinishCounter, PayInv, TypeOK
      <4> QED BY <1>2, <4>4 DEF Begun, NoCounter
    <3>5. payments'[t].status = "pending"
      BY <3>3, <3>4, BegunStays
    <3>6. payments'[t].kind = "counter"
      BY <1>1, <3>3, Tamed DEF Tame
    <3> QED BY <3>1, <3>2, <3>5, <3>6
  <2> QED BY <2>1, <2>2
<1>3. poll' # NoPoll => payments'[poll'.payment].kind # "manual"
  <2>1. SUFFICES ASSUME poll' # NoPoll PROVE payments'[poll'.payment].kind # "manual"
    OBVIOUS
  <2>2. PICK t \in Payment : t = poll'.payment
    BY <2>1 DEF PayInv, TypeOK, Poll
  <2>3. ~ Absent(t) /\ payments[t].kind # "manual"
    <3>1. CASE poll' = poll
      BY <2>1, <2>2, <3>1, RowTypes DEF SpendInv, HeldInv, SeenInv, PollInv
    <3>2. CASE \E u \in Payment : PollProvider(u)
      <4>1. PollProvider(t)
        BY <2>2, <3>2 DEF PollProvider
      <4>2. payments[t].intent /\ ~ Absent(t)
        BY <4>1, RowTypes DEF PollProvider
      <4> QED BY <4>2 DEF SpendInv, RowsInv, RowOf
    <3> QED BY <2>1, <3>1, <3>2, PollSteps
  <2> QED BY <1>1, <2>2, <2>3, Tamed DEF Tame
<1>4. rereading' # NoRow =>
        /\ payments'[rereading'.payment].order # NoOrder
        /\ payments'[rereading'.payment].refunded = 0 =>
             /\ rereading'.refunded = 0
             /\ rereading'.status = "paid" => payments'[rereading'.payment].status = "paid"
  <2>1. SUFFICES ASSUME rereading' # NoRow
                 PROVE  /\ payments'[rereading'.payment].order # NoOrder
                        /\ payments'[rereading'.payment].refunded = 0 =>
                             /\ rereading'.refunded = 0
                             /\ rereading'.status = "paid" =>
                                  payments'[rereading'.payment].status = "paid"
    OBVIOUS
  <2>2. PICK t \in Payment : t = rereading'.payment
    BY <2>1 DEF PayInv, TypeOK, Reread
  <2>3. CASE rereading' = rereading
    <3>1. /\ payments[t].order # NoOrder
          /\ payments[t].refunded = 0 =>
               rereading.refunded = 0 /\ (rereading.status = "paid" => payments[t].status = "paid")
      BY <2>1, <2>2, <2>3 DEF SpendInv, HeldInv
    <3>2. ~ Absent(t)
      BY <3>1, RowTypes DEF AbsentPayment
    <3>3. Tame(t) /\ payments[t].refunded \in Nat
      BY <1>1, <3>2, Tamed, RowTypes
    <3> QED BY <2>2, <2>3, <3>1, <3>3 DEF Tame
  <2>4. CASE \E u \in Payment : RereadPayment(u)
    <3>1. PICK u \in Payment : RereadPayment(u)
      BY <2>4
    <3>2. u = t
      BY <2>2, <3>1 DEF RereadPayment
    <3> QED BY <2>2, <3>1, <3>2 DEF RereadPayment
  <2> QED BY <2>1, <2>3, <2>4, PollSteps
<1> QED BY <1>2, <1>3, <1>4 DEF HeldInv, Begun

(* A cancelled order stays cancelled.                                         *)
LEMMA CancelledStays ==
    ASSUME PayInv, [Next]_vars, NEW o \in Order, orders[o].status = "cancelled"
    PROVE  orders'[o].status = "cancelled"
<1>0. orders \in [Order -> OrderRow] /\ orders[o] \in OrderRow
  BY DEF PayInv, TypeOK
<1>1. ASSUME UNCHANGED orders PROVE orders'[o].status = "cancelled"
  BY <1>1
<1>2. ASSUME NEW t, NEW row, Reconcile(t, row) PROVE orders'[o].status = "cancelled"
  <2>1. PICK pay : UNCHANGED orders \/ orders' = [orders EXCEPT ![row.order].pay = pay]
    BY <1>2 DEF Reconcile
  <2> QED BY <1>0, <2>1 DEF OrderRow
<1>3. ASSUME NEW u \in Order, CancelOrder(u) PROVE orders'[o].status = "cancelled"
  <2>1. PICK pay : orders' = [orders EXCEPT ![u] = [status |-> "cancelled", pay |-> pay]]
    BY <1>3 DEF CancelOrder
  <2> QED BY <1>0, <2>1
<1>4. ASSUME NEW u \in Order, NEW t, NEW new, Place(u, t, new)
      PROVE  orders'[o].status = "cancelled"
  BY <1>0, <1>4 DEF Place
<1>5. ASSUME NEW u \in Order, CloseOrder(u) PROVE orders'[o].status = "cancelled"
  BY <1>0, <1>5 DEF CloseOrder
<1>6. CASE Idle
  <2>1. PollFails \/ RereadFails \/ UNCHANGED vars => UNCHANGED orders
    BY DEF PollFails, RereadFails, vars
  <2>2. \A t : PollProvider(t) \/ RereadPayment(t) => UNCHANGED orders
    BY DEF PollProvider, RereadPayment
  <2>3. \A b : RefuseBooking(b) \/ (\E t \in Payment : BeginBooking(b, t)) => UNCHANGED orders
    BY DEF RefuseBooking, BeginBooking
  <2>4. \A r : AbandonCounter(r) \/ (\E u \in Order : ReadBalance(r, u)) => UNCHANGED orders
    BY DEF AbandonCounter, ReadBalance
  <2> QED BY <1>1, <1>5, <1>6, <2>1, <2>2, <2>3, <2>4 DEF Idle
<1>7. CASE ~ Idle
  <2>1. \A t, report : ProviderReports(t, report) => UNCHANGED orders
    BY DEF ProviderReports
  <2>2. \A t, k : DeliverEvent(t, k) => UNCHANGED orders \/ \E row : Reconcile(t, row)
    BY DEF DeliverEvent
  <2>3. \A t, products, accepted : CreateIntent(t, products, accepted) => UNCHANGED orders
    BY DEF CreateIntent
  <2>4. \A r, t : InsertCounter(r, t) => UNCHANGED orders
    BY DEF InsertCounter
  <2>5. \A u, t, k : ManualBalance(u, t, k) => UNCHANGED orders \/ \E row : Reconcile(t, row)
    BY DEF ManualBalance
  <2>6. \A u, t, k : ManualPaid(u, t, k) => \E row : Reconcile(t, row)
    BY DEF ManualPaid, ManualSettle
  <2>7. \A u, t, k, amount : ManualRefund(u, t, k, amount) => \E row : Reconcile(t, row)
    BY DEF ManualRefund, ManualSettle
  <2>8. \A r, accepted : FinishCounter(r, accepted) => UNCHANGED orders
    BY DEF FinishCounter
  <2>9. \A u, new : PlaceUnpaid(u, new) => Place(u, NoPayment, new)
    BY DEF PlaceUnpaid
  <2>10. \A b, u, new : PlacePaid(b, u, new) => Place(u, bookings[b], new)
    BY DEF PlacePaid
  <2>11. PollWrite => UNCHANGED orders
    BY DEF PollWrite
  <2>12. ReconcileReread => \E t, row : Reconcile(t, row)
    BY DEF ReconcileReread
  <2> QED BY <1>1, <1>2, <1>3, <1>4, <1>7, <2>1, <2>2, <2>3, <2>4, <2>5, <2>6, <2>7, <2>8, <2>9,
             <2>10, <2>11, <2>12, SpendKinds
<1> QED BY <1>6, <1>7

(* Only a cancellation takes the key of a payment.                            *)
LEMMA KeySteps ==
    ASSUME PayInv, [Next]_vars, NEW t \in Payment, t \in keys'
    PROVE  t \in keys \/ \E o \in Order : CancelOrder(o) /\ t \in Refundable(o)
<1>1. CASE UNCHANGED keys
  BY <1>1
<1>2. ASSUME NEW k \in Key, keys' = keys \cup {k} PROVE t \in keys
  BY <1>2, PaymentAssumption
<1>3. \A t1, report : ProviderReports(t1, report) => UNCHANGED keys
  BY DEF ProviderReports
<1>4. \A t1, k : DeliverEvent(t1, k) => UNCHANGED keys
  BY DEF DeliverEvent
<1>5. \A t1, products, accepted : CreateIntent(t1, products, accepted) => UNCHANGED keys
  BY DEF CreateIntent
<1>6. \A r, t1 : InsertCounter(r, t1) => UNCHANGED keys
  BY DEF InsertCounter
<1>7. \A u, t1, k : ManualBalance(u, t1, k) => keys' = keys \cup {k}
  BY DEF ManualBalance
<1>8. \A u, t1, k : ManualPaid(u, t1, k) => keys' = keys \cup {k}
  BY DEF ManualPaid, ManualSettle
<1>9. \A u, t1, k, amount : ManualRefund(u, t1, k, amount) => keys' = keys \cup {k}
  BY DEF ManualRefund, ManualSettle
<1>10. \A r, accepted : FinishCounter(r, accepted) => UNCHANGED keys
  BY DEF FinishCounter
<1>11. \A u, new : PlaceUnpaid(u, new) => UNCHANGED keys
  BY DEF PlaceUnpaid
<1>12. \A b, u, new : PlacePaid(b, u, new) => UNCHANGED keys
  BY DEF PlacePaid
<1>13. PollWrite \/ ReconcileReread => UNCHANGED keys
  BY DEF PollWrite, ReconcileReread
<1>14. \A u : CancelOrder(u) => keys' = keys \cup Refundable(u)
  BY DEF CancelOrder
<1> QED BY <1>1, <1>2, <1>3, <1>4, <1>5, <1>6, <1>7, <1>8, <1>9, <1>10, <1>11, <1>12, <1>13,
           <1>14, SpendKinds, IdleSame

LEMMA StepKeys ==
    ASSUME Mild, PayInv, SeenInv, SpendInv, [Next]_vars
    PROVE  KeysInv'
<1>0. UNCHANGED mode /\ \A t \in Payment : RowStep(t)
  BY StepRows
<1>1. ASSUME NEW t \in Payment, t \in keys, NEW o \in Order, o = payments[t].order,
             orders[o].status = "cancelled",
             mode = "external" => payments[t].status = "refunded"
      PROVE  /\ payments'[t].order # NoOrder /\ orders'[payments'[t].order].status = "cancelled"
             /\ mode' = "external" => payments'[t].status = "refunded"
  <2>1. o # NoOrder /\ ~ Absent(t)
    BY <1>1, RowTypes, PaymentAssumption DEF AbsentPayment
  <2>2. Tame(t)
    BY <1>0, <2>1, Tamed
  <2>3. payments'[t].order = o /\ orders'[o].status = "cancelled"
    BY <1>1, <2>1, <2>2, CancelledStays DEF Tame
  <2> QED BY <1>0, <1>1, <2>1, <2>2, <2>3 DEF Tame
<1>2. ASSUME NEW t \in Payment, NEW o \in Order, CancelOrder(o), t \in Refundable(o)
      PROVE  /\ payments'[t].order # NoOrder /\ orders'[payments'[t].order].status = "cancelled"
             /\ mode' = "external" => payments'[t].status = "refunded"
  <2>1. payments'[t] = FullyRefunded(t) /\ payments[t].order = o
    BY <1>2 DEF CancelOrder, RefundsCancelled, Refundable
  <2>2. payments'[t].status = "refunded" /\ payments'[t].order = o
    BY <2>1, RowTypes DEF FullyRefunded, PaymentRow
  <2>3. PICK pay : orders' = [orders EXCEPT ![o] = [status |-> "cancelled", pay |-> pay]]
    BY <1>2 DEF CancelOrder
  <2>4. orders'[o].status = "cancelled"
    BY <2>3 DEF PayInv, TypeOK
  <2> QED BY <2>2, <2>4, PaymentAssumption
<1>3. \A t \in Payment : t \in keys => payments[t].order \in Order
  BY RowTypes DEF SpendInv, KeysInv, PaymentRow
<1> QED BY <1>1, <1>2, <1>3, KeySteps DEF KeysInv, SpendInv

-----------------------------------------------------------------------------
(* What a step does to items, in four kinds.  Nothing, and what is attached   *)
(* to an order is neither returned nor taken for unpaid.                      *)
Apart ==
    /\ UNCHANGED items
    /\ \A u \in Payment : ~ Absent(u) =>
         /\ payments'[u].order = payments[u].order
         /\ payments[u].order # NoOrder =>
              /\ payments'[u].refunded = payments[u].refunded
              /\ payments[u].status = "paid" => payments'[u].status = "paid"

(* One payment's order is reconciled, with the version `row' of it.           *)
Turn(t, row) ==
    /\ row \in PaymentRow /\ row.order \in Order
    /\ items' = [items EXCEPT ![row.order] = Reconciled(items[row.order], t, row)]
    /\ \A u \in Payment : u # t => payments'[u] = payments[u]
    /\ payments'[t].order = row.order
    /\ payments'[t].kind = row.kind /\ payments'[t].covers = row.covers
    /\ ~ Absent(t) => payments[t].order = row.order
    /\ Absent(t) => /\ row.kind = "manual" /\ row.refunded = 0
                    /\ row.covers = NotPaid(items[row.order])
    /\ \/ row = payments'[t]
       \/ /\ payments' = payments /\ payments[t].refunded = 0 /\ row.refunded = 0
          /\ row.status = "paid" => payments[t].status = "paid"
    /\ mode = "external" /\ payments[t].refunded = 0 /\ row.refunded # 0 =>
         MayRefund(row.order) /\ Latest(row.order, t)

Effect ==
    \/ Apart
    \/ \E t \in Payment, row \in PaymentRow : Turn(t, row)
    \/ \E o \in Order : CancelOrder(o)
    \/ \E o \in Order, new \in SUBSET Item :
         PlaceUnpaid(o, new) \/ \E b \in Booking : PlacePaid(b, o, new)

LEMMA StillApart ==
    ASSUME UNCHANGED <<items, payments>>
    PROVE  Apart
BY DEF Apart

LEMMA ReconcileTurns ==
    ASSUME NEW t, NEW row, Reconcile(t, row), row.order \in Order
    PROVE  items' = [items EXCEPT ![row.order] = Reconciled(items[row.order], t, row)]
BY PaymentAssumption DEF Reconcile

LEMMA DeliverEffect ==
    ASSUME PayInv, PayInv', ToldInv, NEW t \in Payment, NEW k \in 1 .. MaxReports, DeliverEvent(t, k)
    PROVE  Effect
<1>0. payments[t] \in PaymentRow /\ reports[t] \in Seq(Report) /\ payments \in [Payment -> PaymentRow]
  BY RowTypes
<1>1. k \in 1 .. Len(reports[t]) /\ ~ Absent(t) /\ UNCHANGED mode
  BY DeliveredRow
<1>2. PICK at \in Stamps(t, k) :
        IF CanApply(payments[t], reports[t][k], at)
        THEN LET row == Applied(payments[t], reports[t][k], at)
             IN  /\ payments' = [payments EXCEPT ![t] = row]
                 /\ Reconcile(t, row)
        ELSE UNCHANGED <<payments, orders, items>>
  BY DEF DeliverEvent
<1>3. CASE ~ CanApply(payments[t], reports[t][k], at)
  BY <1>2, <1>3, StillApart DEF Effect
<1>4. CASE CanApply(payments[t], reports[t][k], at)
  <2>0. PICK report \in Report : report = reports[t][k]
    BY <1>0, <1>1
  <2>1. PICK row : row = Applied(payments[t], report, at)
    OBVIOUS
  <2>2. PICK refunded : refunded = IF report.status = "refunded"
                                   THEN AtMost(payments[t].amount, report.refunded)
                                   ELSE payments[t].refunded
    OBVIOUS
  <2>3. PICK status : status = IF report.status = "refunded" /\ refunded < payments[t].amount
                               THEN "paid" ELSE report.status
    OBVIOUS
  <2>4. row = [payments[t] EXCEPT !.refunded = refunded, !.eventAt = at, !.status = status]
    BY <2>1, <2>2, <2>3 DEF Applied
  <2>5. /\ row.status = status /\ row.refunded = refunded
        /\ row.kind = payments[t].kind /\ row.covers = payments[t].covers
        /\ row.order = payments[t].order
    BY <1>0, <2>4 DEF PaymentRow
  <2>6. payments' = [payments EXCEPT ![t] = row] /\ Reconcile(t, row)
    BY <1>2, <1>4, <2>0, <2>1
  <2>7. payments'[t] = row /\ \A u \in Payment : u # t => payments'[u] = payments[u]
    BY <1>0, <2>6
  <2>8. row \in PaymentRow
    BY <2>7, RowTypes DEF PayInv, TypeOK
  <2>9. CASE row.order = NoOrder
    <3>1. UNCHANGED items
      BY <2>6, <2>9 DEF Reconcile
    <3> QED BY <2>5, <2>7, <2>9, <3>1 DEF Effect, Apart
  <2>10. CASE row.order # NoOrder
    <3>1. row.order \in Order
      BY <2>8, <2>10 DEF PaymentRow
    <3>2. mode = "external" => row.refunded = payments[t].refunded
      BY <1>1, <2>0, <2>2, <2>5 DEF ToldInv
    <3>3. Turn(t, row)
      BY <1>1, <2>5, <2>6, <2>7, <2>8, <3>1, <3>2, ReconcileTurns DEF Turn
    <3> QED BY <2>8, <3>3 DEF Effect
  <2> QED BY <2>9, <2>10
<1> QED BY <1>3, <1>4

LEMMA ManualEffect ==
    ASSUME Mild, PayInv, RowsInv, NEW o \in Order, NEW t \in Payment, NEW k \in Key,
           ManualPaid(o, t, k) \/ \E amount \in Nat \ {0} : ManualRefund(o, t, k, amount)
    PROVE  Effect
<1>1. /\ ~ Absent(t) /\ Latest(o, t)
      /\ \A u \in Payment : u # t => payments'[u] = payments[u]
      /\ payments'[t] \in PaymentRow
      /\ payments'[t].kind = payments[t].kind /\ payments'[t].covers = payments[t].covers
      /\ payments'[t].order = payments[t].order
      /\ Reconcile(t, payments'[t])
      /\ payments'[t].refunded = payments[t].refunded \/ MayRefund(o)
  BY ManualRow
<1>2. PICK row \in PaymentRow : row = payments'[t]
  BY <1>1
<1>3. row.order = o /\ payments[t].order = o /\ Reconcile(t, row)
  BY <1>1, <1>2 DEF Latest
<1>4. items' = [items EXCEPT ![row.order] = Reconciled(items[row.order], t, row)]
  BY <1>3, ReconcileTurns
<1>5. Turn(t, row)
  BY <1>1, <1>2, <1>3, <1>4 DEF Turn
<1> QED BY <1>5 DEF Effect

LEMMA BalanceEffect ==
    ASSUME Mild, PayInv, ItemsInv, NEW t \in Payment, NEW o \in Order, NEW k \in Key,
           ManualBalance(o, t, k)
    PROVE  Effect
<1>1. /\ Absent(t) /\ \A u \in Payment : u # t => payments'[u] = payments[u]
      /\ payments[t] = AbsentPayment
  BY TillRow
<1>2. /\ payments'[t] \in PaymentRow /\ payments'[t].kind = "manual"
      /\ payments'[t].covers = NotPaid(items[o]) /\ payments'[t].order = o
      /\ payments'[t].refunded = 0
      /\ k \notin keys => Reconcile(t, payments'[t])
      /\ k \in keys => UNCHANGED items
  BY BalanceRow
<1>3. CASE k \in keys
  BY <1>1, <1>2, <1>3 DEF Effect, Apart
<1>4. CASE k \notin keys
  <2>1. PICK row \in PaymentRow : row = payments'[t]
    BY <1>2
  <2>2. items' = [items EXCEPT ![row.order] = Reconciled(items[row.order], t, row)]
    BY <1>2, <1>4, <2>1, ReconcileTurns
  <2>3. Turn(t, row)
    BY <1>1, <1>2, <2>1, <2>2 DEF Turn
  <2> QED BY <2>3 DEF Effect
<1> QED BY <1>3, <1>4

LEMMA RereadEffect ==
    ASSUME Mild, PayInv, RowsInv, HeldInv, ReconcileReread
    PROVE  Effect
<1>1. rereading \in Reread /\ rereading # NoRow /\ UNCHANGED payments
  BY DEF ReconcileReread, PayInv, TypeOK
<1>2. PICK t \in Payment : t = rereading.payment
  BY <1>1 DEF Reread
<1>3. payments[t] \in PaymentRow /\ payments[t].refunded \in Nat
  BY RowTypes
<1>4. /\ payments[t].order # NoOrder
      /\ payments[t].refunded = 0 =>
           rereading.refunded = 0 /\ (rereading.status = "paid" => payments[t].status = "paid")
  BY <1>1, <1>2 DEF HeldInv
<1>5. payments[t].refunded = 0
  <2>1. ~ (payments[t].refunded > 0)
    BY <1>2 DEF ReconcileReread, Mild
  <2> QED BY <1>3, <2>1
<1>6. PICK status, refunded : status = rereading.status /\ refunded = rereading.refunded
  OBVIOUS
<1>7. status \in PaymentStatus /\ refunded = 0
  BY <1>1, <1>4, <1>5, <1>6 DEF Reread
<1>8. PICK row : row = [payments[t] EXCEPT !.status = status, !.refunded = refunded]
  OBVIOUS
<1>9. /\ row \in PaymentRow /\ row.kind = payments[t].kind /\ row.covers = payments[t].covers
      /\ row.order = payments[t].order /\ row.status = status /\ row.refunded = 0
  BY <1>3, <1>7, <1>8 DEF PaymentRow
<1>10. row.order \in Order
  BY <1>4, <1>9 DEF PaymentRow
<1>11. Reconcile(t, row)
  BY <1>2, <1>6, <1>8 DEF ReconcileReread
<1>12. items' = [items EXCEPT ![row.order] = Reconciled(items[row.order], t, row)]
  BY <1>10, <1>11, ReconcileTurns
<1>13. ~ Absent(t)
  BY <1>4 DEF PayInv, AbsentIsBlank, AbsentPayment
<1>14. Turn(t, row)
  BY <1>1, <1>4, <1>5, <1>6, <1>9, <1>10, <1>12, <1>13 DEF Turn
<1> QED BY <1>9, <1>14 DEF Effect

LEMMA RowsApart ==
    ASSUME Mild, PayInv, SeenInv, SpendInv, [Next]_vars,
           \/ PollWrite
           \/ \E s \in Staff, accepted \in BOOLEAN : FinishCounter(s, accepted)
           \/ \E t \in Payment :
                \/ \E products \in SUBSET Product, accepted \in BOOLEAN :
                     CreateIntent(t, products, accepted)
                \/ \E s \in Staff : InsertCounter(s, t)
    PROVE  Apart
<1>1. UNCHANGED items
  BY DEF PollWrite, FinishCounter, CreateIntent, InsertCounter
<1>2. ASSUME NEW t \in Payment, NEW status, NEW intent,
             payments' = [payments EXCEPT ![t].status = status, ![t].intent = intent],
             payments[t].status = "paid" => payments[t].refunded = 0
      PROVE  Apart
  <2>1. /\ \A u \in Payment : u # t => payments'[u] = payments[u]
        /\ payments'[t].refunded = payments[t].refunded
        /\ payments'[t].order = payments[t].order
    BY <1>2, RowTypes DEF PaymentRow
  <2>2. ~ Absent(t) => Tame(t)
    BY StepRows, Tamed
  <2> QED BY <1>1, <1>2, <2>1, <2>2 DEF Apart, Tame
<1>3. CASE PollWrite
  <2>1. poll \in Poll /\ poll # NoPoll
    BY <1>3 DEF PayInv, TypeOK, PollWrite
  <2>2. PICK t \in Payment : t = poll.payment
    BY <2>1 DEF Poll
  <2>3. /\ payments' = [payments EXCEPT ![t] = [payments[t] EXCEPT !.status = poll.status]]
        /\ ~ (payments[t].refunded > 0)
    BY <1>3, <2>2 DEF PollWrite, Mild
  <2>4. /\ \A u \in Payment : u # t => payments'[u] = payments[u]
        /\ payments'[t].refunded = payments[t].refunded
        /\ payments'[t].order = payments[t].order /\ payments[t].refunded = 0
    BY <2>3, RowTypes DEF PaymentRow
  <2>5. ~ Absent(t) => Tame(t)
    BY StepRows, Tamed
  <2> QED BY <1>1, <2>4, <2>5 DEF Apart, Tame
<1>4. ASSUME NEW s \in Staff, NEW accepted \in BOOLEAN, FinishCounter(s, accepted)
      PROVE  Apart
  <2>1. PICK t \in Payment : t = counter[s].payment
    BY <1>4, CounterPayment DEF FinishCounter, Begun
  <2>2. payments[t].status = "pending"
    BY <1>4, <2>1 DEF SpendInv, HeldInv, FinishCounter, Begun
  <2>3. PICK status : status = IF accepted THEN "pending" ELSE "failed"
    OBVIOUS
  <2>4. payments' = [payments EXCEPT ![t].status = status, ![t].intent = accepted]
    BY <1>4, <2>1, <2>3 DEF FinishCounter
  <2> QED BY <1>2, <2>2, <2>4
<1>5. ASSUME NEW t \in Payment,
             \/ \E products \in SUBSET Product, accepted \in BOOLEAN :
                  CreateIntent(t, products, accepted)
             \/ \E s \in Staff : InsertCounter(s, t)
      PROVE  Apart
  BY <1>1, <1>5, NewRows DEF Apart
<1> QED BY <1>3, <1>4, <1>5

LEMMA StepEffect ==
    ASSUME Mild, PayInv, PayInv', SeenInv, SpendInv, [Next]_vars
    PROVE  Effect
<1>1. Idle => Effect
  BY IdleSame, StillApart DEF Effect
<1>2. \A t, report : ProviderReports(t, report) => Effect
  BY StillApart DEF ProviderReports, Effect
<1> QED BY <1>1, <1>2, SpendKinds, DeliverEffect, ManualEffect, BalanceEffect, RereadEffect, RowsApart
        DEF Effect, SpendInv

(* Where a new payment comes from.                                            *)
LEMMA NewPayment ==
    ASSUME Mild, PayInv, SeenInv, SpendInv, [Next]_vars, NEW t \in Payment, Absent(t), ~ Absent(t)'
    PROVE  /\ payments'[t].order = NoOrder \/ payments'[t].kind \in {"counter", "manual"}
           /\ payments'[t].kind = "counter" => \E s \in Staff : InsertCounter(s, t)
           /\ payments'[t].kind = "manual" => payments'[t].covers = NotPaid(items[payments'[t].order])
<1> DEFINE Goal ==
      /\ payments'[t].order = NoOrder \/ payments'[t].kind \in {"counter", "manual"}
      /\ payments'[t].kind = "counter" => \E s \in Staff : InsertCounter(s, t)
      /\ payments'[t].kind = "manual" => payments'[t].covers = NotPaid(items[payments'[t].order])
<1>1. ASSUME NEW u \in Payment, ~ Absent(u) \/ u # t,
             \A v \in Payment : v # u => payments'[v] = payments[v]
      PROVE  FALSE
  BY <1>1 DEF Absent
<1>2. UNCHANGED payments => FALSE
  BY DEF Absent
<1>3. ASSUME NEW u \in Payment, NEW products \in SUBSET Product, NEW accepted \in BOOLEAN,
             CreateIntent(u, products, accepted)
      PROVE  Goal
  <2>1. u = t
    BY <1>1, <1>3, NewRows
  <2>2. PICK status : status = IF accepted THEN "pending" ELSE "failed"
    OBVIOUS
  <2>3. PICK row : /\ payments' = [payments EXCEPT ![t] = row]
                   /\ row = [AbsentPayment EXCEPT !.status = status, !.amount = Cost(products),
                                                  !.covers = products, !.intent = accepted]
    BY <1>3, <2>1, <2>2 DEF CreateIntent
  <2>4. row = [status |-> status, kind |-> "cart", amount |-> Cost(products), refunded |-> 0,
               covers |-> products, order |-> NoOrder, intent |-> accepted, eventAt |-> 0]
    BY <2>3, Zenon DEF AbsentPayment
  <2>5. payments'[t] = row
    BY <2>3, RowTypes
  <2> QED BY <2>4, <2>5
<1>4. ASSUME NEW u \in Payment, NEW s \in Staff, InsertCounter(s, u)
      PROVE  Goal
  <2>1. u = t
    BY <1>1, <1>4, NewRows
  <2>2. PICK row : /\ payments' = [payments EXCEPT ![t] = row]
                   /\ row = [AbsentPayment EXCEPT !.status = "pending", !.kind = "counter",
                                                  !.amount = counter[s].amount,
                                                  !.covers = counter[s].products,
                                                  !.order = counter[s].order]
    BY <1>4, <2>1 DEF InsertCounter
  <2>3. row = [status |-> "pending", kind |-> "counter", amount |-> counter[s].amount,
               refunded |-> 0, covers |-> counter[s].products, order |-> counter[s].order,
               intent |-> FALSE, eventAt |-> 0]
    BY <2>2, Zenon DEF AbsentPayment
  <2>4. payments'[t] = row
    BY <2>2, RowTypes
  <2> QED BY <1>4, <2>1, <2>3, <2>4
<1>5. ASSUME NEW u \in Payment, NEW o \in Order, NEW k \in Key, ManualBalance(o, u, k)
      PROVE  Goal
  <2>1. u = t
    BY <1>1, <1>5, TillRow
  <2> QED BY <1>5, <2>1, BalanceRow DEF SpendInv
<1>6. ASSUME NEW u \in Payment, NEW k \in 1 .. MaxReports, DeliverEvent(u, k)
      PROVE  Goal
  BY <1>1, <1>6, DeliveredRow
<1>7. ASSUME NEW u \in Payment, NEW o \in Order, NEW k \in Key,
             \/ ManualPaid(o, u, k)
             \/ \E amount \in Nat \ {0} : ManualRefund(o, u, k, amount)
      PROVE  Goal
  BY <1>1, <1>7, ManualRow DEF SpendInv
<1>8. ASSUME NEW s \in Staff, NEW accepted \in BOOLEAN, FinishCounter(s, accepted)
      PROVE  Goal
  <2>1. PICK u \in Payment : u = counter[s].payment
    BY <1>8, FinishedRow
  <2>2. ~ Absent(u)
    BY <1>8, <2>1 DEF FinishCounter, SeenInv, CounterInv, Begun
  <2> QED BY <1>1, <1>8, <2>1, <2>2, FinishedRow
<1>9. CASE PollWrite
  <2>1. poll \in Poll /\ poll # NoPoll
    BY <1>9 DEF PayInv, TypeOK, PollWrite
  <2>2. PICK u \in Payment : u = poll.payment
    BY <2>1 DEF Poll
  <2>3. ~ Absent(u)
    BY <2>1, <2>2, RowTypes DEF SeenInv, PollInv
  <2> QED BY <1>1, <1>9, <2>2, <2>3, RowTypes DEF PollWrite
<1>10. ASSUME NEW o \in Order, CancelOrder(o)
      PROVE  Goal
  <2>1. payments'[t] = payments[t]
    BY <1>10 DEF CancelOrder, RefundsCancelled, Refundable, Absent
  <2> QED BY <2>1 DEF Absent
<1>11. ASSUME NEW o \in Order, NEW new \in SUBSET Item, NEW b \in Booking,
              PlacePaid(b, o, new)
       PROVE  Goal
  <2>1. payments'[t] = payments[t]
    BY <1>11, RowTypes DEF PlacePaid, Recheck, Unused, Absent
  <2> QED BY <2>1 DEF Absent
<1> QED BY <1>2, <1>3, <1>4, <1>5, <1>6, <1>7, <1>8, <1>9, <1>10, <1>11, SpendKinds, IdleSame
        DEF ReconcileReread, ProviderReports, PlaceUnpaid, SpendInv
-----------------------------------------------------------------------------
(* Items.                                                                     *)

LEMMA ItemsConsistent ==
    ASSUME ItemsInv, NEW o \in Order
    PROVE  Consistent(items[o])
BY DEF ItemsInv, ItemOf, Consistent

(* What a payment has paid costs no more than it brought in.                  *)
LEMMA SpentBound ==
    ASSUME PayInv, SpendInv, NEW t \in Payment, ~ Absent(t), NEW o \in Order
    PROVE  Cost(PaidBy(t, items[o])) <= payments[t].amount
<1>1. CASE payments[t].kind = "counter"
  BY <1>1 DEF SpendInv, BalanceInv
<1>2. CASE payments[t].kind # "counter"
  <2>1. \A p \in Item : items[o][p].by = t => p \in payments[t].covers
    BY <1>2, PaymentAssumption DEF SpendInv, ItemsInv, ItemOf, Payment, NoPayment
  <2>2. PaidBy(t, items[o]) \subseteq payments[t].covers
    BY <2>1 DEF PaidBy
  <2>3. Cost(payments[t].covers) <= payments[t].amount
    BY <1>2 DEF SpendInv, RowsInv, RowOf
  <2>4. /\ Cost(payments[t].covers) \in Nat /\ Cost(PaidBy(t, items[o])) \in Nat
        /\ payments[t].amount \in Nat
    BY CostType, RowTypes
  <2>5. Cost(PaidBy(t, items[o])) <= Cost(payments[t].covers)
    BY <2>2, CostGrows
  <2> QED BY <2>3, <2>4, <2>5
<1> QED BY <1>1, <1>2

LEMMA PayerIsThere ==
    ASSUME PayInv, ItemsInv, NEW o \in Order, NEW p \in Item, items[o][p].by # NoPayment
    PROVE  /\ items[o][p].by \in Payment /\ ~ Absent(items[o][p].by)
           /\ payments[items[o][p].by].order = o
<1>1. items[o][p] \in ItemRow /\ ItemOf(o, p)
  BY RowTypes DEF ItemsInv
<1>2. items[o][p].by \in Payment /\ payments[items[o][p].by].order = o
  BY <1>1 DEF ItemOf, ItemRow
<1> QED BY <1>2, RowTypes, PaymentAssumption DEF AbsentPayment

(* An item that does not change, of a payment that stays paid.                *)
LEMMA ItemStays ==
    ASSUME Mild, PayInv, SeenInv, SpendInv, [Next]_vars, NEW o \in Order, NEW p \in Item,
           items'[o][p] = items[o][p],
           items[o][p].by # NoPayment /\ payments[items[o][p].by].status = "paid" =>
              payments'[items[o][p].by].status = "paid"
    PROVE  ItemOf(o, p)'
<1>1. ItemOf(o, p)
  BY DEF SpendInv, ItemsInv
<1>2. CASE items[o][p].by = NoPayment
  BY <1>1, <1>2 DEF ItemOf
<1>3. CASE items[o][p].by # NoPayment
  <2>1. PICK u \in Payment : u = items[o][p].by /\ ~ Absent(u) /\ payments[u].order = o
    BY <1>3, PayerIsThere DEF SpendInv
  <2>2. Tame(u)
    BY <2>1, StepRows, Tamed
  <2>3. /\ payments'[u].order = o /\ payments'[u].kind = payments[u].kind
        /\ payments'[u].covers = payments[u].covers
    BY <2>1, <2>2, PaymentAssumption DEF Tame
  <2> QED BY <1>1, <1>3, <2>1, <2>3 DEF ItemOf
<1> QED BY <1>2, <1>3

(* One item of an order that is reconciled.                                   *)
LEMMA TurnItem ==
    ASSUME PayInv, ItemsInv, NEW t \in Payment, NEW row \in PaymentRow, Turn(t, row),
           NEW o \in Order, NEW p \in Item
    PROVE  /\ o # row.order \/ items'[o][p].by # t => items'[o][p] = items[o][p]
           /\ o = row.order /\ items'[o][p].by = t =>
                /\ items'[o][p].status \in {"paid", "refunded"}
                /\ items'[o][p].status = "refunded" => items'[o][p].refunded > 0
                /\ items[o][p].status # "absent"
                /\ items[o][p].by # t =>
                      /\ row.status = "paid"
                      /\ row.kind = "counter" => items[o][p].status # "paid"
                      /\ row.kind # "counter" => p \in row.covers
                /\ row.refunded = 0 => \/ items'[o][p] = items[o][p]
                                       \/ row.status = "paid" /\ items'[o][p].status = "paid"
                /\ row.status # "paid" /\ row.refunded # 0
                     /\ Cost(PaidBy(t, items[o])) <= row.refunded =>
                     items'[o][p].status = "refunded"
<1>0. items \in [Order -> [Item -> ItemRow]] /\ row.refunded \in Nat
  BY RowTypes DEF PaymentRow
<1>1. CASE o # row.order
  BY <1>0, <1>1 DEF Turn
<1>2. CASE o = row.order
  <2>1. items'[o] = Reconciled(items[o], t, row)
    BY <1>0, <1>2 DEF Turn
  <2>2. PICK list \in [Item -> ItemRow] : list = items[o]
    BY <1>0
  <2>3. Consistent(list)
    BY <2>2, ItemsConsistent
  <2>4. PICK new : new = Reconciled(list, t, row)[p]
    OBVIOUS
  <2>5. /\ new.by # t => new = list[p]
        /\ new.by = t =>
             /\ new.status \in {"paid", "refunded"}
             /\ new.status = "refunded" => new.refunded > 0
             /\ list[p].by # t =>
                   /\ row.status = "paid" /\ list[p].status # "absent"
                   /\ row.kind = "counter" => list[p].status # "paid"
                   /\ row.kind # "counter" => p \in row.covers
             /\ row.refunded = 0 => new = list[p] \/ new.status = "paid"
             /\ row.refunded = 0 /\ row.status # "paid" => new = list[p]
             /\ row.status # "paid" /\ row.refunded > 0
                  /\ Cost(PaidBy(t, list)) <= row.refunded => new.status = "refunded"
    BY <2>3, <2>4, ReconciledItem
  <2>6. list[p].by = t => list[p].status # "absent"
    BY <2>3, PaymentAssumption DEF Consistent, Payment, NoPayment
  <2>7. items'[o][p] = new /\ items[o] = list
    BY <2>1, <2>2, <2>4
  <2>8. row.refunded # 0 => row.refunded > 0
    BY <1>0
  <2> HIDE <2>1
  <2> QED BY <1>2, <2>5, <2>6, <2>7, <2>8
<1> QED BY <1>1, <1>2

LEMMA TurnItems ==
    ASSUME Mild, PayInv, SeenInv, SpendInv, [Next]_vars,
           NEW t \in Payment, NEW row \in PaymentRow, Turn(t, row),
           NEW o \in Order, NEW p \in Item
    PROVE  ItemOf(o, p)'
<1>1. row.refunded \in Nat /\ UNCHANGED mode /\ RowStep(t) /\ t # NoPayment /\ items[o][p] \in ItemRow
  BY StepRows, RowTypes, PaymentAssumption DEF PaymentRow, Payment, NoPayment
<1>2. ItemOf(o, p)
  BY DEF SpendInv, ItemsInv
<1>3. items[o][p].by = t => ~ Absent(t) /\ Tame(t) /\ payments[t].order = o /\ o = row.order
  BY <1>1, PayerIsThere, Tamed DEF SpendInv, Turn
<1>4. CASE o # row.order \/ items'[o][p].by # t
  <2>1. items'[o][p] = items[o][p] /\ items[o][p].by # t
    BY <1>3, <1>4, TurnItem DEF SpendInv
  <2>2. items[o][p].by # NoPayment => payments'[items[o][p].by] = payments[items[o][p].by]
    BY <2>1, PayerIsThere DEF Turn, SpendInv
  <2> QED BY <2>1, <2>2, ItemStays
<1>5. CASE o = row.order /\ items'[o][p].by = t
  <2>1. /\ items'[o][p].status \in {"paid", "refunded"}
        /\ items'[o][p].status = "refunded" => items'[o][p].refunded > 0
        /\ items[o][p].by # t => row.status = "paid" /\ (row.kind # "counter" => p \in row.covers)
        /\ row.refunded = 0 => items'[o][p] = items[o][p] \/ row.status = "paid"
        /\ row.status # "paid" /\ row.refunded # 0 /\ Cost(PaidBy(t, items[o])) <= row.refunded =>
             items'[o][p].status = "refunded"
    BY <1>5, TurnItem DEF SpendInv
  <2>2. payments'[t].order = o /\ payments'[t].kind = row.kind /\ payments'[t].covers = row.covers
    BY <1>5 DEF Turn
  <2>3. row.kind # "counter" => p \in row.covers
    <3>1. CASE items[o][p].by # t
      BY <2>1, <3>1
    <3>2. CASE items[o][p].by = t
      <4>1. payments[t].kind = row.kind /\ payments[t].covers = row.covers
        BY <1>3, <2>2, <3>2 DEF Tame
      <4> QED BY <1>1, <1>2, <3>2, <4>1 DEF ItemOf
    <3> QED BY <3>1, <3>2
  <2>4. ASSUME items'[o][p].status = "paid", payments'[t].status # "paid" PROVE FALSE
    <3>1. row.status # "paid"
      BY <2>4 DEF Turn
    <3>2. items[o][p].by = t
      BY <2>1, <3>1
    <3>3. CASE row.refunded = 0
      <4>1. items[o][p].status = "paid"
        BY <2>1, <2>4, <3>1, <3>3
      <4>2. payments[t].status = "paid"
        BY <1>2, <3>2, <4>1 DEF ItemOf
      <4>3. payments'[t].refunded = 0 \/ payments' = payments
        BY <3>3 DEF Turn
      <4> QED BY <1>3, <2>4, <3>2, <4>2, <4>3 DEF Tame
    <3>4. CASE row.refunded # 0
      <4>1. row = payments'[t]
        BY <3>4 DEF Turn
      <4>2. RowOf(t)'
        <5>1. RowsInv'
          BY StepRows, RowsKept DEF SpendInv
        <5> QED BY <1>3, <3>2, <5>1 DEF RowsInv, Tame
      <4>3. row.refunded = payments[t].amount
        BY <1>1, <1>3, <3>1, <3>2, <3>4, <4>1, <4>2 DEF RowOf, Tame, Final
      <4>4. Cost(PaidBy(t, items[o])) <= row.refunded
        BY <1>3, <3>2, <4>3, SpentBound
      <4> QED BY <2>1, <2>4, <3>1, <3>4, <4>4
    <3> QED BY <3>3, <3>4
  <2>5. ProductOf[p] = p
    BY <1>2, <1>5, TurnItem DEF SpendInv, ItemOf
  <2> QED BY <1>1, <1>5, <2>1, <2>2, <2>3, <2>4, <2>5 DEF ItemOf
<1> QED BY <1>4, <1>5

LEMMA CancelItems ==
    ASSUME Mild, PayInv, SeenInv, SpendInv, [Next]_vars,
           NEW c \in Order, CancelOrder(c), NEW o \in Order, NEW p \in Item
    PROVE  /\ ItemOf(o, p)'
           /\ items'[o][p].by = items[o][p].by
           /\ items'[o][p].status = "absent" <=> items[o][p].status = "absent"
           /\ o # c => items'[o][p] = items[o][p]
<1>0. items \in [Order -> [Item -> ItemRow]]
  BY RowTypes
<1>1. PICK list : /\ items' = [items EXCEPT ![c] = list]
                  /\ list = [q \in Item |->
                               IF items[c][q].by \in Refundable(c)
                               THEN Refunded(items[c], items[c][q].by,
                                             FullyRefunded(items[c][q].by))[q]
                               ELSE items[c][q]]
  BY DEF CancelOrder
<1>2. \A u \in Payment : payments'[u] = IF u \in Refundable(c) THEN FullyRefunded(u)
                                         ELSE payments[u]
  BY DEF CancelOrder, RefundsCancelled
<1>3. CASE o # c \/ items[o][p].by \notin Refundable(c)
  <2>1. items'[o][p] = items[o][p]
    BY <1>0, <1>1, <1>3
  <2>2. items[o][p].by # NoPayment => payments'[items[o][p].by] = payments[items[o][p].by]
    BY <1>2, <1>3, PayerIsThere DEF SpendInv, Refundable
  <2> QED BY <2>1, <2>2, ItemStays
<1>4. CASE o = c /\ items[o][p].by \in Refundable(c)
  <2>1. PICK t \in Payment : t = items[o][p].by /\ t \in Refundable(c)
    BY <1>4 DEF Refundable
  <2>2. t # NoPayment /\ ~ Absent(t) /\ payments[t].order = o
    BY <1>4, <2>1, PaymentAssumption DEF Payment, NoPayment, Absent, Refundable
  <2>3. PICK row : row = FullyRefunded(t)
    OBVIOUS
  <2>4. row \in PaymentRow /\ row.refunded = payments[t].amount /\ row.refunded \in Nat
    BY <2>3, RowTypes DEF FullyRefunded, PaymentRow, PaymentStatus
  <2>5. payments[t].amount > 0 /\ Tame(t)
    BY <2>2, StepRows, Tamed DEF SpendInv, RowsInv, RowOf
  <2>6. PICK new : new = Refunded(items[o], t, row)[p]
    OBVIOUS
  <2>7. items'[o][p] = new
    BY <1>0, <1>1, <1>4, <2>1, <2>3, <2>6
  <2>8. new.by = t /\ new.status = "refunded" /\ new.refunded > 0
    <3>1. Cost(PaidBy(t, items[o])) <= row.refunded
      BY <2>2, <2>4, SpentBound
    <3>2. items[o] \in [Item -> ItemRow]
      BY <1>0
    <3> QED BY <2>1, <2>4, <2>5, <2>6, <3>1, <3>2, RefundedItem
  <2>9. /\ payments'[t].order = o /\ payments'[t].kind = payments[t].kind
        /\ payments'[t].covers = payments[t].covers
    BY <2>2, <2>5, PaymentAssumption DEF Tame
  <2>10. ItemOf(o, p)
    BY DEF SpendInv, ItemsInv
  <2> QED BY <1>4, <2>1, <2>2, <2>7, <2>8, <2>9, <2>10 DEF ItemOf
<1> QED BY <1>3, <1>4

LEMMA PlaceItem ==
    ASSUME Mild, PayInv, NEW c \in Order, NEW t \in Payment \cup {NoPayment}, NEW new \in SUBSET Item,
           Place(c, t, new), NEW o \in Order, NEW p \in Item
    PROVE  \/ items'[o][p] = items[o][p]
           \/ /\ o = c /\ MayExtend(c) /\ items'[o][p].refunded = 0 /\ ProductOf[p] = p
              /\ \/ /\ items'[o][p].by = NoPayment /\ items'[o][p].status = "unpaid"
                 \/ /\ items'[o][p].by = t /\ items'[o][p].status = "paid"
                    /\ t # NoPayment /\ p \in payments[t].covers
<1>0. items \in [Order -> [Item -> ItemRow]]
  BY RowTypes
<1>1. PICK list : /\ items' = [items EXCEPT ![c] = list]
                  /\ list = [q \in Item |-> IF q \in new THEN NewItem(t, q) ELSE items[c][q]]
  BY DEF Place
<1>2. CASE o # c \/ p \notin new
  BY <1>0, <1>1, <1>2
<1>3. CASE o = c /\ p \in new
  <2>1. items'[o][p] = NewItem(t, p)
    BY <1>0, <1>1, <1>3
  <2>2. ProductOf[p] = p /\ MayExtend(c)
    BY <1>3 DEF Place, MayOrder, Mild
  <2>3. CASE p \in Covers(t)
    BY <1>3, <2>1, <2>2, <2>3 DEF NewItem, Covers
  <2>4. CASE p \notin Covers(t)
    BY <1>3, <2>1, <2>2, <2>4 DEF NewItem
  <2> QED BY <2>3, <2>4
<1> QED BY <1>2, <1>3

LEMMA PlacedPayment ==
    ASSUME PayInv, NEW b \in Booking, NEW o \in Order, NEW new \in SUBSET Item,
           PlacePaid(b, o, new), NEW t, t = bookings[b]
    PROVE  /\ t \in Payment /\ t # NoPayment /\ Place(o, t, new) /\ ~ Absent(t)
           /\ payments[t].order = NoOrder /\ payments[t].status = "paid"
           /\ payments'[t].status = "paid" /\ payments'[t].order = o
           /\ payments'[t].refunded = payments[t].refunded
           /\ \A u \in Payment : u # t => payments'[u] = payments[u]
<1>1. t \in Payment /\ t # NoPayment
  BY DEF PlacePaid, PayInv, TypeOK
<1>2. payments[t].order = NoOrder /\ payments[t].status = "paid" /\ Place(o, t, new)
  BY DEF PlacePaid, Recheck, Unused
<1>3. payments' = [payments EXCEPT ![t] = [payments[t] EXCEPT !.order = o]]
  BY DEF PlacePaid
<1> QED BY <1>1, <1>2, <1>3, RowTypes DEF PaymentRow, Absent

LEMMA PlaceItems ==
    ASSUME Mild, PayInv, SeenInv, SpendInv, [Next]_vars, NEW c \in Order,
           NEW new \in SUBSET Item,
           PlaceUnpaid(c, new) \/ \E b \in Booking : PlacePaid(b, c, new),
           NEW o \in Order, NEW p \in Item
    PROVE  ItemOf(o, p)'
<1>1. CASE PlaceUnpaid(c, new)
  <2>1. /\ Place(c, NoPayment, new) /\ UNCHANGED payments
    BY <1>1 DEF PlaceUnpaid
  <2>2. CASE items'[o][p] = items[o][p]
    BY <2>1, <2>2, ItemStays
  <2>3. CASE items'[o][p] # items[o][p]
    <3>1. /\ items'[o][p].by = NoPayment /\ items'[o][p].status = "unpaid"
          /\ ProductOf[p] = p
      BY <2>1, <2>3, PlaceItem
    <3> QED BY <3>1 DEF ItemOf
  <2> QED BY <2>2, <2>3
<1>2. ASSUME NEW b \in Booking, PlacePaid(b, c, new)
      PROVE  ItemOf(o, p)'
  <2>1. PICK t : t = bookings[b]
    OBVIOUS
  <2>2. /\ t \in Payment /\ Place(c, t, new) /\ payments[t].order = NoOrder
        /\ payments'[t].status = "paid" /\ payments'[t].order = c /\ ~ Absent(t)
        /\ \A u \in Payment : u # t => payments'[u] = payments[u]
    BY <1>2, <2>1, PlacedPayment
  <2>3. CASE items'[o][p] = items[o][p]
    <3>1. items[o][p].by # NoPayment => payments'[items[o][p].by] = payments[items[o][p].by]
      BY <2>2, PayerIsThere, PaymentAssumption DEF SpendInv
    <3> QED BY <2>3, <3>1, ItemStays
  <2>4. CASE items'[o][p] # items[o][p]
    <3>1. /\ o = c /\ ProductOf[p] = p
          /\ \/ items'[o][p].by = NoPayment /\ items'[o][p].status = "unpaid"
             \/ /\ items'[o][p].by = t /\ items'[o][p].status = "paid"
                /\ t # NoPayment /\ p \in payments[t].covers
      BY <2>2, <2>4, PlaceItem
    <3>2. payments'[t].covers = payments[t].covers
      BY <2>2, StepRows, Tamed DEF Tame
    <3> QED BY <2>2, <3>1, <3>2 DEF ItemOf
  <2> QED BY <2>3, <2>4
<1> QED BY <1>1, <1>2

LEMMA StepItems ==
    ASSUME Mild, PayInv, PayInv', SeenInv, SpendInv, [Next]_vars
    PROVE  ItemsInv'
<1>1. ASSUME Apart, NEW o \in Order, NEW p \in Item
      PROVE  ItemOf(o, p)'
  <2>1. items'[o][p] = items[o][p]
    BY <1>1 DEF Apart
  <2>2. items[o][p].by # NoPayment /\ payments[items[o][p].by].status = "paid" =>
          payments'[items[o][p].by].status = "paid"
    BY <1>1, PayerIsThere, PaymentAssumption DEF Apart, SpendInv
  <2> QED BY <2>1, <2>2, ItemStays
<1> QED BY <1>1, StepEffect, TurnItems, CancelItems, PlaceItems DEF Effect, ItemsInv

-----------------------------------------------------------------------------
(* Counter payments.                                                          *)

LEMMA Attached ==
    ASSUME Mild, PayInv, PayInv', SeenInv, SpendInv, [Next]_vars,
           NEW o \in Order, NEW u \in Payment, ~ Absent(u),
           payments'[u].order = o, payments[u].order # o
    PROVE  MayExtend(o)
<1>1. Apart => FALSE
  BY DEF Apart
<1>2. ASSUME NEW t \in Payment, NEW row \in PaymentRow, Turn(t, row) PROVE FALSE
  BY <1>2 DEF Turn
<1>3. ASSUME NEW c \in Order, CancelOrder(c) PROVE FALSE
  BY <1>3, RowTypes DEF CancelOrder, RefundsCancelled, FullyRefunded, PaymentRow
<1>4. ASSUME NEW c \in Order, NEW new \in SUBSET Item, PlaceUnpaid(c, new)
      PROVE  FALSE
  BY <1>4 DEF PlaceUnpaid
<1>5. ASSUME NEW c \in Order, NEW new \in SUBSET Item, NEW b \in Booking,
             PlacePaid(b, c, new)
      PROVE  MayExtend(o)
  <2>1. PICK t : t = bookings[b]
    OBVIOUS
  <2>2. /\ Place(c, t, new) /\ payments'[t].order = c
        /\ \A v \in Payment : v # t => payments'[v] = payments[v]
    BY <1>5, <2>1, PlacedPayment
  <2>3. c = o
    BY <2>2
  <2> QED BY <2>2, <2>3 DEF Place
<1> QED BY <1>1, <1>2, <1>3, <1>4, <1>5, StepEffect DEF Effect

(* While a counter payment is begun, nothing is added to its order, and if a  *)
(* refund is not open to its first payments, they stay as they are.           *)
LEMMA OrderHeld ==
    ASSUME Mild, PayInv, PayInv', SeenInv, SpendInv, [Next]_vars, mode = "external",
           NEW o \in Order, NEW n \in Nat, Unreturned(o, n), BegunCounter(o), ~ CancelOrder(o),
           \A u \in Payment : u < n => ~ (MayRefund(o) /\ Latest(o, u))
    PROVE  /\ \A u \in Payment : ~ Absent(u) /\ payments'[u].order = o => payments[u].order = o
           /\ Unreturned(o, n)'
           /\ \A p \in Item :
                \/ items'[o][p] = items[o][p]
                \/ \E u \in Payment, row \in PaymentRow :
                     /\ Turn(u, row) /\ row.order = o /\ items'[o][p].by = u
                     /\ u < n => row.refunded = 0
<1>0. ~ MayExtend(o)
  BY DEF MayExtend, Mild
<1>1. \A u \in Payment : ~ Absent(u) /\ payments'[u].order = o => payments[u].order = o
  BY <1>0, Attached
<1>2. ASSUME NEW t \in Payment, NEW row \in PaymentRow, Turn(t, row), row.order = o, t < n
      PROVE  row.refunded = 0 /\ (~ Absent(t) => payments'[t].refunded = 0)
  <2>1. CASE Absent(t)
    BY <1>2, <2>1 DEF Turn
  <2>2. CASE ~ Absent(t)
    <3>1. payments[t].refunded = 0
      BY <1>2, <2>2 DEF Unreturned, Turn
    <3>2. row.refunded = 0
      BY <1>2, <3>1 DEF Turn
    <3> QED BY <1>2, <3>1, <3>2 DEF Turn
  <2> QED BY <2>1, <2>2
<1>3. ASSUME NEW u \in Payment, payments'[u].order = o, u < n
      PROVE  payments'[u].refunded = 0
  <2>1. CASE Absent(u)
    <3>1. RowStep(u) /\ payments[u] = AbsentPayment
      BY <2>1, StepRows, RowTypes
    <3> QED BY <2>1, <3>1 DEF RowStep, AbsentPayment
  <2>2. CASE ~ Absent(u)
    <3>1. payments[u].order = o /\ payments[u].refunded = 0
      BY <1>1, <1>3, <2>2 DEF Unreturned
    <3>2. Apart => payments'[u].refunded = 0
      BY <2>2, <3>1, PaymentAssumption DEF Apart
    <3>3. ASSUME NEW t \in Payment, NEW row \in PaymentRow, Turn(t, row)
          PROVE  payments'[u].refunded = 0
      <4>1. CASE t # u
        BY <3>1, <3>3, <4>1 DEF Turn
      <4>2. CASE t = u
        BY <1>2, <1>3, <2>2, <3>3, <4>2 DEF Turn
      <4> QED BY <4>1, <4>2
    <3>4. ASSUME NEW c \in Order, CancelOrder(c) PROVE payments'[u].refunded = 0
      BY <3>1, <3>4 DEF CancelOrder, RefundsCancelled, Refundable
    <3>5. ASSUME NEW c \in Order, NEW new \in SUBSET Item, PlaceUnpaid(c, new)
          PROVE  payments'[u].refunded = 0
      BY <3>1, <3>5 DEF PlaceUnpaid
    <3>6. ASSUME NEW c \in Order, NEW new \in SUBSET Item, NEW b \in Booking,
                 PlacePaid(b, c, new)
          PROVE  payments'[u].refunded = 0
      BY <3>1, <3>6, PlacedPayment
    <3> QED BY <3>2, <3>3, <3>4, <3>5, <3>6, StepEffect DEF Effect
  <2> QED BY <2>1, <2>2
<1>4. ASSUME NEW p \in Item, items'[o][p] # items[o][p]
      PROVE  \E u \in Payment, row \in PaymentRow :
                /\ Turn(u, row) /\ row.order = o /\ items'[o][p].by = u
                /\ u < n => row.refunded = 0
  <2>1. ~ Apart
    BY <1>4 DEF Apart
  <2>2. ASSUME NEW c \in Order, CancelOrder(c) PROVE FALSE
    BY <1>4, <2>2, CancelItems
  <2>3. ASSUME NEW c \in Order, NEW t \in Payment \cup {NoPayment},
               NEW new \in SUBSET Item, Place(c, t, new)
        PROVE  FALSE
    BY <1>0, <1>4, <2>3, PlaceItem
  <2>4. ASSUME NEW c \in Order, NEW new \in SUBSET Item,
               PlaceUnpaid(c, new) \/ \E b \in Booking : PlacePaid(b, c, new)
        PROVE  FALSE
    BY <2>3, <2>4, PlacedPayment DEF PlaceUnpaid
  <2>5. PICK t \in Payment, row \in PaymentRow : Turn(t, row)
    BY <2>1, <2>2, <2>4, StepEffect DEF Effect
  <2>6. row.order = o /\ items'[o][p].by = t
    BY <1>4, <2>5, TurnItem DEF SpendInv
  <2> QED BY <1>2, <2>5, <2>6
<1>5. Unreturned(o, n)'
  BY <1>3 DEF Unreturned
<1> QED BY <1>1, <1>4, <1>5

(* The balance that a request has read is still what is open.                 *)
LEMMA StepRead ==
    ASSUME Mild, PayInv, PayInv', SeenInv, SpendInv, [Next]_vars,
           NEW s \in Staff, counter'[s].at = "read"
    PROVE  ReadOf(s)'
<1>1. CASE counter'[s] = counter[s]
  <2>1. counter[s].at = "read" /\ ReadOf(s)
    BY <1>1 DEF SpendInv, BalanceInv
  <2>2. PICK o \in Order : o = counter[s].order /\ counter[s].amount \in Nat
    BY <2>1, CounterParts, TypeParts DEF PayInv
  <2>3. BegunCounter(o) /\ ~ MayRefund(o)
    BY <2>1, <2>2 DEF BegunCounter, OpenCounter, MayRefund, Mild
  <2>4. ~ CancelOrder(o)
    BY <2>3 DEF CancelOrder
  <2>5. /\ mode = "external" /\ counter[s].amount > 0
        /\ Cost(NotPaid(items[o])) <= counter[s].amount
        /\ Unreturned(o, LastPayment + 1) /\ LastPayment + 1 \in Nat /\ UNCHANGED mode
    BY <2>1, <2>2, StepRows, PaymentAssumption DEF ReadOf
  <2>6. /\ Unreturned(o, LastPayment + 1)'
        /\ \A p \in Item :
                \/ items'[o][p] = items[o][p]
                \/ \E u \in Payment, row \in PaymentRow :
                     /\ Turn(u, row) /\ row.order = o /\ items'[o][p].by = u
                     /\ u < LastPayment + 1 => row.refunded = 0
    BY <2>3, <2>4, <2>5, OrderHeld
  <2>7. ASSUME NEW p \in NotPaid(items'[o])
        PROVE  p \in NotPaid(items[o])
    <3>1. p \in Item /\ items'[o][p].status # "absent" /\ items'[o][p].status # "paid"
      BY DEF NotPaid, Booked
    <3>2. CASE items'[o][p] = items[o][p]
      BY <3>1, <3>2 DEF NotPaid, Booked
    <3>3. CASE items'[o][p] # items[o][p]
      <4>1. PICK u \in Payment, row \in PaymentRow :
               /\ Turn(u, row) /\ row.order = o /\ items'[o][p].by = u
               /\ u < LastPayment + 1 => row.refunded = 0
        BY <2>6, <3>1, <3>3
      <4>2. u < LastPayment + 1
        BY PaymentAssumption DEF Payment
      <4> QED BY <3>1, <3>3, <4>1, <4>2, TurnItem DEF SpendInv
    <3> QED BY <3>2, <3>3
  <2>8. Cost(NotPaid(items'[o])) <= Cost(NotPaid(items[o]))
    BY <2>7, CostGrows
  <2>9. Cost(NotPaid(items'[o])) \in Nat /\ Cost(NotPaid(items[o])) \in Nat
    BY CostType
  <2>10. Cost(NotPaid(items'[o])) <= counter[s].amount
    BY <2>2, <2>5, <2>8, <2>9
  <2> QED BY <1>1, <2>2, <2>5, <2>6, <2>10 DEF ReadOf
<1>2. ASSUME NEW o \in Order, ReadBalance(s, o)
      PROVE  ReadOf(s)'
  <2>1. /\ counter' = [counter EXCEPT ![s] = [at |-> "read", order |-> o, amount |-> Outstanding(o),
                                              products |-> ProductsOf(Booked(items[o]))]]
        /\ UNCHANGED <<mode, payments, items>> /\ mode = "external" /\ Outstanding(o) > 0
        /\ ~ Returned(o)
    BY <1>2 DEF ReadBalance, MayPay, Mild
  <2>2. counter'[s].order = o /\ counter'[s].amount = Outstanding(o)
    BY <2>1 DEF PayInv, TypeOK
  <2>3. /\ NotPaid(items[o]) = {p \in Item : items[o][p].status = "unpaid"}
        /\ \A p \in Item : items[o][p].refunded = 0
        /\ Unreturned(o, LastPayment + 1)
    BY <2>1, OpenIsUnpaid DEF SpendInv
  <2>4. Outstanding(o) = Cost(NotPaid(items[o]))
    <3>1. [p \in Item |-> IF items[o][p].status = "unpaid" THEN Price[p]
                             ELSE items[o][p].refunded]
          = [p \in Item |-> IF p \in NotPaid(items[o]) THEN Price[p] ELSE 0]
      BY <2>3
    <3> QED BY <3>1 DEF Outstanding, Cost
  <2>5. Cost(NotPaid(items[o])) \in Nat
    BY CostType
  <2>6. Unreturned(o, LastPayment + 1)' /\ mode' = "external"
    BY <2>1, <2>3 DEF Unreturned
  <2>7. /\ counter'[s].amount > 0
        /\ Cost(NotPaid(items'[o])) <= counter'[s].amount
    BY <2>1, <2>2, <2>4, <2>5
  <2> QED BY <2>2, <2>6, <2>7 DEF ReadOf
<1>3. ~ \E t \in Payment : InsertCounter(s, t)
  BY DEF InsertCounter, PayInv, TypeOK
<1>4. counter'[s] # NoCounter
  BY DEF NoCounter
<1> QED BY <1>1, <1>2, <1>3, <1>4, CounterSteps

(* The row that the request inserts asks for what is open.                    *)
LEMMA InsertedCounter ==
    ASSUME Mild, PayInv, SpendInv, NEW s \in Staff, NEW t \in Payment, InsertCounter(s, t)
    PROVE  /\ UNCHANGED items /\ Fresh(t) /\ \A u \in Payment : u # t => payments'[u] = payments[u]
           /\ payments'[t].order \in Order
           /\ Cost(NotPaid(items[payments'[t].order])) <= payments'[t].amount
           /\ Unreturned(payments'[t].order, t)
<1>1. PICK row : /\ payments' = [payments EXCEPT ![t] = row]
                 /\ row = [AbsentPayment EXCEPT !.status = "pending", !.kind = "counter",
                                                !.amount = counter[s].amount,
                                                !.covers = counter[s].products,
                                                !.order = counter[s].order]
  BY DEF InsertCounter
<1>2. row = [status |-> "pending", kind |-> "counter", amount |-> counter[s].amount,
             refunded |-> 0, covers |-> counter[s].products, order |-> counter[s].order,
             intent |-> FALSE, eventAt |-> 0]
  BY <1>1, Zenon DEF AbsentPayment
<1>3. payments'[t] = row /\ \A u \in Payment : u # t => payments'[u] = payments[u]
  BY <1>1, RowTypes
<1>4. counter[s].at = "read" /\ ReadOf(s) /\ UNCHANGED items /\ Fresh(t)
  BY DEF InsertCounter, SpendInv, BalanceInv
<1>5. counter[s].order \in Order
  BY <1>4, CounterParts, TypeParts DEF PayInv
<1>6. Unreturned(counter[s].order, t)
  BY <1>4, PaymentAssumption DEF ReadOf, Unreturned, Payment
<1> QED BY <1>2, <1>3, <1>4, <1>5, <1>6 DEF ReadOf

LEMMA NewSettle ==
    ASSUME Mild, PayInv, SpendInv, UNCHANGED mode, NEW s \in Staff, NEW t \in Payment,
           InsertCounter(s, t)
    PROVE  SettleOf(t)'
<1>1. PICK o \in Order : o = payments'[t].order
  BY InsertedCounter
<1>2. /\ UNCHANGED items /\ Fresh(t) /\ \A u \in Payment : u # t => payments'[u] = payments[u]
      /\ Cost(NotPaid(items[o])) <= payments'[t].amount /\ Unreturned(o, t)
  BY <1>1, InsertedCounter
<1>3. \A u \in Payment : u >= t => Absent(u)
  BY <1>2 DEF Fresh, SpendInv, RowsInv, Payment
<1>4. ASSUME NEW p \in Item, Claims(items[o], t, p)'
      PROVE  p \in NotPaid(items[o])
  <2>1. items[o][p].status # "absent" /\ items[o][p] \in ItemRow
    BY <1>2, <1>4, RowTypes DEF Claims
  <2>2. ~ (items[o][p].by >= t)
    <3>1. SUFFICES ASSUME items[o][p].by >= t PROVE FALSE
      OBVIOUS
    <3>2. items[o][p].by # NoPayment
      BY <3>1, PaymentAssumption DEF NoPayment, Payment
    <3> QED BY <1>3, <3>1, <3>2, PayerIsThere DEF SpendInv
  <2>3. ASSUME NEW u \in Payment, u > t, payments'[u].order = o PROVE FALSE
    <3>1. Absent(u) /\ payments[u].order = o
      BY <1>2, <1>3, <2>3 DEF Payment
    <3> QED BY <3>1, RowTypes, PaymentAssumption DEF AbsentPayment
  <2>4. items[o][p].status # "paid"
    BY <1>1, <1>2, <1>4, <2>2, <2>3 DEF Claims
  <2> QED BY <2>1, <2>4 DEF NotPaid, Booked
<1>5. Claim(t)' \subseteq NotPaid(items[o])
  BY <1>1, <1>4 DEF Claim
<1>6. Cost(Claim(t)') <= Cost(NotPaid(items[o]))
  BY <1>5, CostGrows
<1>7. Cost(Claim(t)') \in Nat /\ Cost(NotPaid(items[o])) \in Nat
  BY CostType
<1>8. payments'[t].amount \in Nat
  <2>1. counter[s].at = "read"
    BY DEF InsertCounter
  <2>2. PICK row : /\ payments' = [payments EXCEPT ![t] = row]
                   /\ row = [AbsentPayment EXCEPT !.status = "pending", !.kind = "counter",
                                                  !.amount = counter[s].amount,
                                                  !.covers = counter[s].products,
                                                  !.order = counter[s].order]
    BY DEF InsertCounter
  <2>3. row = [status |-> "pending", kind |-> "counter", amount |-> counter[s].amount,
               refunded |-> 0, covers |-> counter[s].products, order |-> counter[s].order,
               intent |-> FALSE, eventAt |-> 0]
    BY <2>2, Zenon DEF AbsentPayment
  <2>4. payments'[t] = row
    BY <2>2, RowTypes
  <2>5. counter[s].amount \in Nat
    BY <2>1, CounterParts, TypeParts DEF PayInv
  <2> QED BY <2>3, <2>4, <2>5
<1>9. Cost(Claim(t)') <= payments'[t].amount
  BY <1>2, <1>6, <1>7, <1>8
<1>10. \A u \in Payment : u < t => u # t
  BY DEF Payment
<1>11. Unreturned(o, t)'
  BY <1>2, <1>10 DEF Unreturned
<1> QED BY <1>1, <1>9, <1>11 DEF SettleOf

LEMMA OldSettle ==
    ASSUME Mild, PayInv, PayInv', SeenInv, SpendInv, [Next]_vars,
           NEW t \in Payment, ~ Absent(t), MaySettle(t)'
    PROVE  SettleOf(t)'
<1>1. Tame(t) /\ MaySettle(t) /\ SettleOf(t) /\ RowOf(t) /\ UNCHANGED mode
  BY StepRows, Tamed DEF Tame, SpendInv, BalanceInv, RowsInv
<1>2. PICK o \in Order : o = payments[t].order
  BY <1>1, RowTypes DEF RowOf, MaySettle, PaymentRow
<1>3. /\ payments'[t].order = o /\ payments'[t].kind = "counter" /\ payments[t].kind = "counter"
      /\ payments'[t].amount = payments[t].amount /\ mode = "external"
      /\ Cost(Claim(t)) <= payments[t].amount /\ Unreturned(o, t)
      /\ payments[t].status \in {"paid", "pending"} /\ t \in Nat
  BY <1>1, <1>2, PaymentAssumption DEF Tame, MaySettle, RowOf, SettleOf, Payment
<1>4. BegunCounter(o)
  BY <1>2, <1>3 DEF BegunCounter
<1>5. ~ CancelOrder(o)
  <2>1. SUFFICES ASSUME CancelOrder(o) PROVE FALSE
    OBVIOUS
  <2>2. ~ OpenCounter(o)
    BY <2>1 DEF CancelOrder, MayRefund, Mild
  <2>3. payments[t].status = "paid"
    BY <1>1, <1>2, <1>3, <2>2 DEF OpenCounter, PendingOf, MaySettle
  <2>4. t \in Refundable(o)
    BY <1>1, <1>2, <1>3, <2>3 DEF Refundable, RowOf, SpendInv, KeysInv
  <2>5. payments'[t] = FullyRefunded(t)
    BY <2>1, <2>4 DEF CancelOrder, RefundsCancelled
  <2>6. payments'[t].status = "refunded"
    BY <2>5, RowTypes DEF FullyRefunded, PaymentRow
  <2> QED BY <2>6 DEF MaySettle
<1>6. \A u \in Payment : u < t => ~ (MayRefund(o) /\ Latest(o, u))
  BY <1>2 DEF Latest, Payment
<1>7. /\ \A u \in Payment : ~ Absent(u) /\ payments'[u].order = o => payments[u].order = o
      /\ Unreturned(o, t)'
      /\ \A p \in Item :
           \/ items'[o][p] = items[o][p]
           \/ \E u \in Payment, row \in PaymentRow :
                /\ Turn(u, row) /\ row.order = o /\ items'[o][p].by = u
                /\ u < t => row.refunded = 0
  BY <1>3, <1>4, <1>5, <1>6, OrderHeld
<1> DEFINE Taken(u, p) == /\ u > t /\ payments[u].order = o
                          /\ payments[u].kind # "counter" /\ p \in payments[u].covers
<1>8. ASSUME NEW p \in Item, items[o][p].status # "absent",
             NEW u \in Payment, u > t, payments'[u].order = o,
             payments'[u].kind # "counter", p \in payments'[u].covers
      PROVE  items[o][p].status # "paid" \/ Taken(u, p)
  <2>1. CASE Absent(u)
    <3>1. ~ Absent(u)'
      BY <1>8, PaymentAssumption DEF PayInv, AbsentIsBlank, AbsentPayment
    <3>2. payments'[u].covers = NotPaid(items[o])
      BY <1>8, <2>1, <3>1, NewPayment, PaymentAssumption
    <3> QED BY <1>8, <3>2 DEF NotPaid
  <2>2. CASE ~ Absent(u)
    <3>1. Tame(u) /\ payments[u].order = o
      BY <1>7, <1>8, <2>2, StepRows, Tamed
    <3> QED BY <1>8, <3>1 DEF Tame
  <2> QED BY <2>1, <2>2
<1>9. ASSUME NEW p \in Item, Claims(items[o], t, p)'
      PROVE  Claims(items[o], t, p)
  <2>1. CASE items'[o][p] = items[o][p]
    <3>1. items[o][p].status # "absent"
      BY <1>9, <2>1 DEF Claims
    <3>2. \/ items[o][p].status # "paid" \/ items[o][p].by >= t
          \/ \E u \in Payment : Taken(u, p)
      BY <1>3, <1>8, <1>9, <2>1, <3>1 DEF Claims
    <3> QED BY <1>2, <3>1, <3>2 DEF Claims
  <2>2. CASE items'[o][p] # items[o][p]
    <3>1. PICK u \in Payment, row \in PaymentRow :
             /\ Turn(u, row) /\ row.order = o /\ items'[o][p].by = u
             /\ u < t => row.refunded = 0
      BY <1>7, <2>2
    <3>2. /\ items[o][p].status # "absent"
          /\ items[o][p].by # u /\ row.kind = "counter" => items[o][p].status # "paid"
          /\ items[o][p].by # u /\ row.kind # "counter" => p \in row.covers
          /\ row.refunded = 0 => items'[o][p].status = "paid"
      BY <2>2, <3>1, TurnItem DEF SpendInv
    <3>3. SUFFICES ASSUME items[o][p].status = "paid" PROVE Claims(items[o], t, p)
      BY <3>2 DEF Claims
    <3>4. u >= t \/ u < t
      BY DEF Payment
    <3>5. CASE u < t
      <4>1. items'[o][p].status = "paid" /\ ~ (items'[o][p].by >= t)
        BY <3>1, <3>2, <3>5 DEF Payment
      <4>2. PICK v \in Payment : /\ v > t /\ payments'[v].order = o
                                 /\ payments'[v].kind # "counter" /\ p \in payments'[v].covers
        BY <1>3, <1>9, <4>1 DEF Claims
      <4>3. Taken(v, p)
        BY <1>8, <3>2, <3>3, <4>2
      <4> QED BY <1>2, <3>2, <4>3 DEF Claims
    <3>6. CASE u >= t
      <4>1. CASE items[o][p].by = u
        BY <3>2, <3>6, <4>1 DEF Claims
      <4>2. CASE items[o][p].by # u
        <5>1. row.kind # "counter" /\ p \in row.covers
          BY <3>2, <3>3, <4>2
        <5>2. payments'[u].order = o /\ payments'[u].kind # "counter" /\ p \in payments'[u].covers
          BY <3>1, <5>1 DEF Turn
        <5>3. u # t
          BY <1>3, <5>2
        <5>4. u > t
          BY <3>6, <5>3 DEF Payment
        <5>5. Taken(u, p)
          BY <1>8, <3>2, <3>3, <5>2, <5>4
        <5> QED BY <1>2, <3>2, <5>5 DEF Claims
      <4> QED BY <4>1, <4>2
    <3> QED BY <3>4, <3>5, <3>6
  <2> QED BY <2>1, <2>2
<1>10. Claim(t)' \subseteq Claim(t)
  BY <1>2, <1>3, <1>9 DEF Claim
<1>11. Cost(Claim(t)') <= Cost(Claim(t))
  BY <1>10, CostGrows
<1>12. Cost(Claim(t)') \in Nat /\ Cost(Claim(t)) \in Nat /\ payments[t].amount \in Nat
  BY CostType, RowTypes
<1>13. Cost(Claim(t)') <= payments'[t].amount
  BY <1>3, <1>11, <1>12
<1> QED BY <1>3, <1>7, <1>13 DEF SettleOf

LEMMA StepSettle ==
    ASSUME Mild, PayInv, PayInv', SeenInv, SpendInv, [Next]_vars, NEW t \in Payment, MaySettle(t)'
    PROVE  SettleOf(t)'
<1>1. CASE Absent(t)
  <2>1. ~ Absent(t)' /\ payments'[t].kind = "counter"
    BY DEF MaySettle, Absent
  <2>2. PICK s \in Staff : InsertCounter(s, t)
    BY <1>1, <2>1, NewPayment
  <2> QED BY <2>2, NewSettle, StepRows
<1> QED BY <1>1, OldSettle

(* A counter payment that no longer may settle takes nothing more.            *)
LEMMA StepPaidBy ==
    ASSUME Mild, PayInv, PayInv', SeenInv, SpendInv, [Next]_vars,
           NEW t \in Payment, ~ Absent(t), payments[t].kind = "counter", ~ MaySettle(t)',
           NEW o \in Order
    PROVE  PaidBy(t, items'[o]) \subseteq PaidBy(t, items[o])
<1>1. SUFFICES ASSUME NEW p \in Item, items'[o][p].by = t PROVE items[o][p].by = t
  BY DEF PaidBy
<1>2. payments'[t].kind = "counter" /\ payments[t].order # NoOrder /\ t # NoPayment
  BY StepRows, Tamed, PaymentAssumption DEF Tame, SpendInv, RowsInv, RowOf, Payment, NoPayment
<1>3. payments'[t].status # "paid"
  BY <1>2 DEF MaySettle
<1>4. Apart => items[o][p].by = t
  BY <1>1 DEF Apart
<1>5. ASSUME NEW u \in Payment, NEW row \in PaymentRow, Turn(u, row)
      PROVE  items[o][p].by = t
  <2>1. CASE items'[o][p] = items[o][p]
    BY <1>1, <2>1
  <2>2. CASE items'[o][p] # items[o][p]
    <3>1. u = t /\ o = row.order
      BY <1>1, <1>5, <2>2, TurnItem DEF SpendInv
    <3>2. row.status # "paid"
      BY <1>3, <1>5, <3>1 DEF Turn
    <3> QED BY <1>1, <1>5, <3>1, <3>2, TurnItem DEF SpendInv
  <2> QED BY <2>1, <2>2
<1>6. ASSUME NEW c \in Order, CancelOrder(c) PROVE items[o][p].by = t
  BY <1>1, <1>6, CancelItems
<1>7. ASSUME NEW c \in Order, NEW new \in SUBSET Item,
             PlaceUnpaid(c, new) \/ \E b \in Booking : PlacePaid(b, c, new)
      PROVE  items[o][p].by = t
  <2>1. PICK u \in Payment \cup {NoPayment} : Place(c, u, new) /\ u # t
    BY <1>2, <1>7, PlacedPayment DEF PlaceUnpaid
  <2> QED BY <1>1, <1>2, <2>1, PlaceItem
<1> QED BY <1>4, <1>5, <1>6, <1>7, StepEffect DEF Effect

LEMMA StepSpent ==
    ASSUME Mild, PayInv, PayInv', SeenInv, SpendInv, [Next]_vars,
           NEW t \in Payment, payments'[t].kind = "counter", NEW o \in Order
    PROVE  Cost(PaidBy(t, items'[o])) <= payments'[t].amount
<1>0. t # NoPayment /\ t >= t /\ payments'[t].amount \in Nat
  BY RowTypes, PaymentAssumption DEF Payment, NoPayment, PayInv, TypeOK, PaymentRow
<1>1. ItemsInv'
  BY StepItems
<1>2. \A p \in Item : items'[o][p].by = t =>
         payments'[t].order = o /\ items'[o][p].status \in {"paid", "refunded"}
  BY <1>0, <1>1 DEF ItemsInv, ItemOf
<1>3. CASE MaySettle(t)'
  <2>1. Cost(Claim(t)') <= payments'[t].amount
    BY <1>3, StepSettle DEF SettleOf
  <2>2. ASSUME NEW p \in Item, items'[o][p].by = t PROVE Claims(items[payments[t].order], t, p)'
    BY <1>0, <1>2, <2>2 DEF Claims
  <2>3. PaidBy(t, items'[o]) \subseteq Claim(t)'
    BY <2>2 DEF PaidBy, Claim
  <2>4. Cost(PaidBy(t, items'[o])) <= Cost(Claim(t)')
    BY <2>3, CostGrows
  <2>5. Cost(PaidBy(t, items'[o])) \in Nat /\ Cost(Claim(t)') \in Nat
    BY CostType
  <2> QED BY <1>0, <2>1, <2>4, <2>5
<1>4. CASE ~ MaySettle(t)'
  <2>1. ~ Absent(t)
    <3>1. SUFFICES ASSUME Absent(t) PROVE FALSE
      OBVIOUS
    <3>2. ~ Absent(t)'
      BY DEF PayInv, AbsentIsBlank, AbsentPayment
    <3>3. PICK s \in Staff : InsertCounter(s, t)
      BY <3>1, <3>2, NewPayment
    <3>4. payments'[t].status = "pending" /\ UNCHANGED reports /\ reports[t] = <<>>
      <4>1. PICK row : /\ payments' = [payments EXCEPT ![t] = row]
                       /\ row = [AbsentPayment EXCEPT !.status = "pending", !.kind = "counter",
                                                      !.amount = counter[s].amount,
                                                      !.covers = counter[s].products,
                                                      !.order = counter[s].order]
        BY <3>3 DEF InsertCounter
      <4>2. row.status = "pending"
        BY <4>1 DEF AbsentPayment
      <4> QED BY <3>1, <3>3, <4>1, <4>2, RowTypes DEF InsertCounter
    <3> QED BY <1>4, <3>4 DEF MaySettle
  <2>2. Tame(t)
    BY <2>1, StepRows, Tamed
  <2>3. PaidBy(t, items'[o]) \subseteq PaidBy(t, items[o])
    BY <1>4, <2>1, <2>2, StepPaidBy DEF Tame
  <2>4. Cost(PaidBy(t, items'[o])) <= Cost(PaidBy(t, items[o]))
    BY <2>3, CostGrows
  <2>5. Cost(PaidBy(t, items[o])) <= payments[t].amount
    BY <2>1, SpentBound
  <2>6. Cost(PaidBy(t, items'[o])) \in Nat /\ Cost(PaidBy(t, items[o])) \in Nat
    BY CostType
  <2> QED BY <1>0, <2>2, <2>4, <2>5, <2>6 DEF Tame
<1> QED BY <1>3, <1>4

LEMMA StepBalance ==
    ASSUME Mild, PayInv, PayInv', SeenInv, SpendInv, [Next]_vars
    PROVE  BalanceInv'
BY StepRead, StepSettle, StepSpent DEF BalanceInv

LEMMA StepSpend ==
    ASSUME Mild, PayInv, PayInv', SeenInv, SpendInv, [Next]_vars
    PROVE  SpendInv'
<1>1. RowsInv' /\ ToldInv'
  BY StepRows, RowsKept DEF SpendInv
<1> QED BY <1>1, StepHeld, StepKeys, StepItems, StepBalance DEF SpendInv

LEMMA InitSpend == ASSUME Init PROVE SpendInv
<1>1. /\ \A t \in Payment : payments[t] = AbsentPayment /\ Absent(t) /\ reports[t] = <<>>
      /\ \A o \in Order, p \in Item : items[o][p] = AbsentItem
      /\ \A s \in Staff : counter[s] = NoCounter
      /\ keys = {} /\ poll = NoPoll /\ rereading = NoRow
  BY DEF Init, Absent, AbsentPayment
<1>2. RowsInv /\ ToldInv
  BY <1>1 DEF RowsInv, ToldInv
<1>3. HeldInv /\ KeysInv
  BY <1>1 DEF HeldInv, KeysInv, Begun, NoCounter
<1>4. ItemsInv
  BY <1>1 DEF ItemsInv, ItemOf, AbsentItem
<1>5. BalanceInv
  BY <1>1 DEF BalanceInv, MaySettle, AbsentPayment, NoCounter
<1> QED BY <1>2, <1>3, <1>4, <1>5 DEF SpendInv

LEMMA SeenStays ==
    ASSUME PayInv, SeenInv, [Next]_vars
    PROVE  SeenInv'
BY StepKinds, QuietKept, ReportKept, DeliverKept, PollProviderKept, PollWriteKept,
   NewRowKept, TillKept, FinishKept

(* SpendInv is inductive, together with the types and what requests and       *)
(* reports say.                                                               *)
LEMMA SpendInvariant ==
    ASSUME Mild
    PROVE  Spec => [](PayInv /\ SeenInv /\ SpendInv)
<1>1. Init => PayInv /\ SeenInv /\ SpendInv
  BY InitType, InitKept, InitSpend DEF KeptInv
<1>2. PayInv /\ SeenInv /\ SpendInv /\ [Next]_vars => (PayInv /\ SeenInv /\ SpendInv)'
  BY NextType, SeenStays, StepSpend
<1> QED BY <1>1, <1>2, PTL DEF Spec

(* A payment is spent once: the items it is said to have paid are of the      *)
(* order it is attached to, and cost no more than it brought in, for any      *)
(* number of orders, payments, bookings, staff requests and reports, also if  *)
(* reports come late, in any order or unstamped, or operations arrive again.  *)
(* It is about orders that have no product twice (Mild excludes "again"): of  *)
(* two rows of a product the code lets one payment settle both.               *)
THEOREM PaymentsSpentOnce ==
    ASSUME Mild
    PROVE  Spec => []SpentOnce
<1>1. PayInv /\ SpendInv => SpentOnce
  <2>1. SUFFICES ASSUME PayInv, SpendInv, NEW t \in Payment, NEW o \in Order,
                        PaidBy(t, items[o]) # {}
                 PROVE  /\ payments[t].order = o
                        /\ Cost(PaidBy(t, items[o])) <= payments[t].amount
    BY DEF SpentOnce
  <2>2. PICK p \in Item : items[o][p].by = t
    BY <2>1 DEF PaidBy
  <2>3. t # NoPayment
    BY PaymentAssumption DEF Payment, NoPayment
  <2>4. ~ Absent(t) /\ payments[t].order = o
    BY <2>1, <2>2, <2>3, PayerIsThere DEF SpendInv
  <2> QED BY <2>1, <2>4, SpentBound
<1> QED BY <1>1, SpendInvariant, PTL

(* A live order becomes cancelled by nothing but its cancellation.            *)
LEMMA BecomesCancelled ==
    ASSUME PayInv, [Next]_vars, NEW o \in Order,
           orders[o].status = "live", orders'[o].status = "cancelled"
    PROVE  CancelOrder(o)
<1>0. orders \in [Order -> OrderRow] /\ orders[o] \in OrderRow
  BY DEF PayInv, TypeOK
<1>1. UNCHANGED orders => FALSE
  OBVIOUS
<1>2. ASSUME NEW t, NEW row, Reconcile(t, row) PROVE FALSE
  <2>1. PICK pay : UNCHANGED orders \/ orders' = [orders EXCEPT ![row.order].pay = pay]
    BY <1>2 DEF Reconcile
  <2> QED BY <1>0, <2>1 DEF OrderRow
<1>3. ASSUME NEW u \in Order, CancelOrder(u) PROVE CancelOrder(o)
  <2>1. PICK row : orders' = [orders EXCEPT ![u] = row]
    BY <1>3 DEF CancelOrder
  <2> QED BY <1>0, <1>3, <2>1
<1>4. ASSUME NEW u \in Order, NEW t, NEW new, Place(u, t, new) PROVE FALSE
  <2>1. PICK pay : orders' = [orders EXCEPT ![u] = [status |-> "live", pay |-> pay]]
    BY <1>4 DEF Place
  <2> QED BY <1>0, <2>1
<1>5. ASSUME NEW u \in Order, CloseOrder(u) PROVE FALSE
  BY <1>0, <1>5 DEF CloseOrder, OrderRow
<1>6. Idle => FALSE
  <2>1. PollFails \/ RereadFails \/ UNCHANGED vars => UNCHANGED orders
    BY DEF PollFails, RereadFails, vars
  <2>2. \A t : PollProvider(t) \/ RereadPayment(t) => UNCHANGED orders
    BY DEF PollProvider, RereadPayment
  <2>3. \A b : RefuseBooking(b) \/ (\E t \in Payment : BeginBooking(b, t)) => UNCHANGED orders
    BY DEF RefuseBooking, BeginBooking
  <2>4. \A r : AbandonCounter(r) \/ (\E u \in Order : ReadBalance(r, u)) => UNCHANGED orders
    BY DEF AbandonCounter, ReadBalance
  <2> QED BY <1>1, <1>5, <2>1, <2>2, <2>3, <2>4 DEF Idle
<1>7. \A t, report : ProviderReports(t, report) => FALSE
  BY DEF ProviderReports
<1>8. \A t, k : DeliverEvent(t, k) => FALSE
  <2>1. \A t, k : DeliverEvent(t, k) => UNCHANGED orders \/ \E row : Reconcile(t, row)
    BY DEF DeliverEvent
  <2> QED BY <1>1, <1>2, <2>1
<1>9. \A t, products, accepted : CreateIntent(t, products, accepted) => FALSE
  BY DEF CreateIntent
<1>10. \A r, t : InsertCounter(r, t) => FALSE
  BY DEF InsertCounter
<1>11. \A u, t, k : ManualBalance(u, t, k) => FALSE
  <2>1. \A u, t, k : ManualBalance(u, t, k) => UNCHANGED orders \/ \E row : Reconcile(t, row)
    BY DEF ManualBalance
  <2> QED BY <1>1, <1>2, <2>1
<1>12. \A u, t, k : ManualPaid(u, t, k) => FALSE
  BY <1>2 DEF ManualPaid, ManualSettle
<1>13. \A u, t, k, amount : ManualRefund(u, t, k, amount) => FALSE
  BY <1>2 DEF ManualRefund, ManualSettle
<1>14. \A r, accepted : FinishCounter(r, accepted) => FALSE
  BY DEF FinishCounter
<1>15. \A u \in Order : \A new : PlaceUnpaid(u, new) => FALSE
  BY <1>4 DEF PlaceUnpaid
<1>16. \A u \in Order : \A b, new : PlacePaid(b, u, new) => FALSE
  BY <1>4 DEF PlacePaid
<1>17. PollWrite => FALSE
  BY DEF PollWrite
<1>18. ReconcileReread => FALSE
  BY <1>2 DEF ReconcileReread
<1> QED BY <1>3, <1>6, <1>7, <1>8, <1>9, <1>10, <1>11, <1>12, <1>13, <1>14, <1>15, <1>16, <1>17,
           <1>18, SpendKinds

(* A cancellation leaves no payment of its order paid and not returned, and   *)
(* no item that counts as paid, whatever was refunded in part or settled by a *)
(* counter payment before, if the order has no product twice and nothing else *)
(* that Mild excludes has happened.                                           *)
THEOREM CancelledOrdersAreRefunded ==
    ASSUME Mild
    PROVE  Spec => CancelledIsRefunded
<1> DEFINE Step == \A o \in Order :
         orders[o].status = "live" /\ orders'[o].status = "cancelled" =>
            /\ \A t \in Payment : payments'[t].order = o /\ payments'[t].status = "paid"
                                    => payments'[t].refunded = payments'[t].amount
            /\ \A p \in Item : items'[o][p].status # "paid"
<1>1. PayInv /\ SeenInv /\ SpendInv /\ [Next]_vars => Step
  <2>1. SUFFICES ASSUME PayInv, SeenInv, SpendInv, [Next]_vars, NEW o \in Order,
                        orders[o].status = "live", orders'[o].status = "cancelled"
                 PROVE  /\ \A t \in Payment : ~ (payments'[t].order = o /\ payments'[t].status = "paid")
                        /\ \A p \in Item : items'[o][p].status # "paid"
    OBVIOUS
  <2>2. CancelOrder(o)
    BY <2>1, BecomesCancelled
  <2>3. ASSUME NEW t \in Payment, payments'[t].order = o, payments'[t].status = "paid"
        PROVE  FALSE
    <3>1. CASE t \in Refundable(o)
      <4>1. payments'[t] = FullyRefunded(t)
        BY <2>2, <3>1 DEF CancelOrder, RefundsCancelled
      <4> QED BY <2>1, <2>3, <4>1, RowTypes DEF FullyRefunded, PaymentRow
    <3>2. CASE t \notin Refundable(o)
      <4>1. payments'[t] = payments[t]
        BY <2>2, <3>2 DEF CancelOrder, RefundsCancelled
      <4>2. payments[t].refunded < payments[t].amount
        BY <2>1, <2>3, <4>1 DEF SpendInv, RowsInv, RowOf, Absent
      <4>3. t \notin keys
        BY <2>1, <2>3, <4>1 DEF SpendInv, KeysInv
      <4> QED BY <2>3, <3>2, <4>1, <4>2, <4>3 DEF Refundable
    <3> QED BY <3>1, <3>2
  <2>4. PayInv' /\ ItemsInv'
    BY <2>1, NextType, StepItems
  <2>5. ASSUME NEW p \in Item, items'[o][p].status = "paid" PROVE FALSE
    <3>1. PICK t : t = items'[o][p].by
      OBVIOUS
    <3>2. items'[o][p] \in ItemRow
      BY <2>4 DEF PayInv, TypeOK
    <3>3. t \in Payment
      BY <2>4, <2>5, <3>1, <3>2 DEF ItemsInv, ItemOf, ItemRow
    <3>4. payments'[t].order = o /\ payments'[t].status = "paid"
      BY <2>4, <2>5, <3>1 DEF ItemsInv, ItemOf
    <3> QED BY <2>3, <3>3, <3>4
  <2> QED BY <2>3, <2>5
<1>2. Spec => [][Step]_vars
  BY <1>1, SpendInvariant, PTL DEF Spec
<1> QED BY <1>2 DEF CancelledIsRefunded
=============================================================================
