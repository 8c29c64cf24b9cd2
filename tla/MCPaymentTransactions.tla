------------------------ MODULE MCPaymentTransactions ------------------------
(* PaymentTransactions for TLC.                                               *)
EXTENDS PaymentTransactions, TLC

(* The items of an order are of different products, or of one.                *)
Distinct == [p \in 1 .. LastItem |-> p]
Same     == [p \in 1 .. LastItem |-> 1]

(* The first item costs two, so that it may be refunded in part.              *)
PriceList == [p \in 1 .. LastItem |-> IF p = 1 THEN 2 ELSE 1]

(* BOUND: one item and at most three reports, or one order, one report on     *)
(* each payment and one request under way.                                    *)
Bound ==
    \/ /\ \A o \in Order : Booked(items[o]) \subseteq {1}
       /\ \A t \in Payment : payments[t].covers \subseteq {1}
       /\ \E t \in Payment : Len(reports[t]) <= 1
    \/ /\ Cardinality({o \in Order : orders[o].status # "absent"}) <= 1
       /\ \A t \in Payment : Len(reports[t]) <= 1
       /\ Underway <= 1

Symmetry == Permutations(Order) \cup Permutations(Booking)
            \cup Permutations(Staff) \cup Permutations(Key)
=============================================================================
