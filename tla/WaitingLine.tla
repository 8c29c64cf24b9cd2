----------------------------- MODULE WaitingLine -----------------------------
(* The order in which the tickets of one queue wait, and what a deferral does *)
(* to it.  Everything here is a pure operator over the rows of queue_entries; *)
(* the state lives in TicketQueue.  A row is a record with at least           *)
(*   status, number (ticket_number), day (business_date), priority, absence   *)
(* and `rows' is the function from ticket ids to rows.                        *)
EXTENDS Integers, FiniteSets

(* The step between two neighbours after a renumbering, and how far behind    *)
(* its predecessor a deferred ticket is put.                                  *)
PriorityStep == 10
DeferralGap  == 5

(* ORDER BY priority DESC, ticket_number ASC.  The business date is not part  *)
(* of the order, so two tickets of different days can tie.                    *)
Before(a, b) ==
    \/ a.priority > b.priority
    \/ a.priority = b.priority /\ a.number < b.number

WithStatus(rows, s) == {t \in DOMAIN rows : rows[t].status = s}

Waiting(rows) == WithStatus(rows, "waiting")

(* queuesRepository.getWaitingPosition counts this set.                       *)
Ahead(rows, t) == {u \in Waiting(rows) : Before(rows[u], rows[t])}

(* How many are ahead of t, and the line as a sequence: the ticket with none  *)
(* ahead of it, the one with one, and so on.  In a tie a place has no ticket. *)
Position(rows, t) == Cardinality(Ahead(rows, t))
LineOf(rows) ==
    [i \in 1 .. Cardinality(Waiting(rows)) |->
        CHOOSE t \in Waiting(rows) : Position(rows, t) = i - 1]

(* The tickets listWaiting may return first: one, except in a tie.            *)
Heads(rows) == {t \in Waiting(rows) : Ahead(rows, t) = {}}

(* ROW_NUMBER() OVER (ORDER BY priority DESC, ticket_number ASC): every       *)
(* numbering of the waiting rows that agrees with the order.                  *)
RowNumbers(rows) ==
    {r \in [Waiting(rows) -> 1 .. Cardinality(Waiting(rows))] :
        \A t, u \in Waiting(rows) :
            /\ t # u => r[t] # r[u]
            /\ Before(rows[t], rows[u]) => r[t] < r[u]}

(* The renumbering UPDATE: the last waiting row gets 10, the first 10*total.  *)
Renumbered_Ascending(rows, r) ==
    [t \in DOMAIN rows |->
        IF t \in DOMAIN r THEN [rows[t] EXCEPT !.priority = r[t] * PriorityStep]
        ELSE rows[t]]
Renumbered(rows, r) ==
    [t \in DOMAIN rows |->
        IF t \in DOMAIN r
        THEN [rows[t] EXCEPT !.priority =
                (Cardinality(DOMAIN r) - r[t] + 1) * PriorityStep]
        ELSE rows[t]]

(* max(0, priority of the slots-th row - 5) when that many rows wait, else 0. *)
TargetPriority_OneTooFar(total, slots) ==
    IF total > slots THEN (total - slots) * PriorityStep - DeferralGap ELSE 0
TargetPriority_NoFloor(total, slots) ==
    (total - slots + 1) * PriorityStep - DeferralGap
TargetPriority(total, slots) ==
    IF total >= slots
    THEN (total - slots + 1) * PriorityStep - DeferralGap
    ELSE 0

(* The outcomes of deferCalledBySlots on the called row t.                    *)
DeferCalledBySlots_Uncounted(rows, t, slots) ==
    {[Renumbered(rows, r) EXCEPT
        ![t].status   = "waiting",
        ![t].priority = TargetPriority(Cardinality(Waiting(rows)), slots)]
     : r \in RowNumbers(rows)}
DeferCalledBySlots(rows, t, slots) ==
    {[Renumbered(rows, r) EXCEPT
        ![t].status   = "waiting",
        ![t].priority = TargetPriority(Cardinality(Waiting(rows)), slots),
        ![t].absence  = @ + 1] : r \in RowNumbers(rows)}
=============================================================================
