------------------------- MODULE TicketRecordProofs -------------------------
(* More about TicketQueue, for every value of its constants: the numbers, the *)
(* order of the line, the absences, the orders behind the tickets, capacity   *)
(* and the window that is not left idle.  All of it rests on StepKinds, which *)
(* says once what each kind of step does to the rows.                         *)
EXTENDS TicketQueueProofs, SumProofs, SequenceTheorems

-----------------------------------------------------------------------------
(* The kinds of steps, each with the row it is about.                         *)

Only(t) == \A u \in Ticket \ {t} : entries'[u] = entries[u]

(* What no step changes once a row exists.                                    *)
Fixed(u) == /\ entries'[u].owner = entries[u].owner
            /\ entries'[u].number = entries[u].number
            /\ entries'[u].day = entries[u].day

(* Nor a step that is no skip and no deferral.                                *)
InPlace(u) == Fixed(u) /\ entries'[u].priority = entries[u].priority

SameOrder(u) == entries'[u].order = entries[u].order /\ entries'[u].hold = entries[u].hold

(* The queue row, the date and the deferrals under way.                       *)
QueueStays == UNCHANGED <<queue, today, late>>

Arrives(t) ==
    /\ Lock /\ HasRoom /\ tx'.phase = 1
    /\ entries[t].status = "absent" /\ NewRow(t) /\ Only(t)
    /\ \E date \in {today - 1, today} :
          /\ BookingDate(date) /\ NumberIsFree(date)
          /\ entries'[t].day = date /\ entries'[t].number = NextNumber(date)
          /\ queue' = [queue EXCEPT !.counter = NextNumber(date), !.counterDay = date]
    /\ entries'[t].status = "waiting"
    /\ entries'[t].priority = 0 /\ entries'[t].absence = 0
    /\ entries'[t].hold \in {"none", "reserved"}
    /\ \/ entries'[t].order = "none"
       \/ /\ entries'[t].order = "pending"
          /\ entries'[t].owner \in Customer => ActiveOrdersOf(entries'[t].owner) = {}
    /\ UNCHANGED <<today, deferral>>

Extends(t) ==
    /\ Lock /\ tx'.phase = 1
    /\ t \in Active /\ entries[t].order \in LiveOrder
    /\ Only(t) /\ InPlace(t)
    /\ entries'[t].status = entries[t].status /\ entries'[t].absence = entries[t].absence
    /\ entries'[t].order = entries[t].order
    /\ \/ entries'[t].hold = entries[t].hold
       \/ entries[t].hold \in {"none", "reserved"} /\ entries'[t].hold = "reserved"
    /\ QueueStays /\ UNCHANGED deferral

Leaves(t) ==
    /\ Lock /\ tx'.phase = 1
    /\ entries[t].status \in {"waiting", "called"}
    /\ entries'[t].status \in {"cancelled", "no_show"}
    /\ Only(t) /\ InPlace(t)
    /\ entries'[t].absence \in {entries[t].absence, entries[t].absence + 1}
    /\ entries'[t].order = OrderAfter(t, "cancelled")
    /\ entries'[t].hold = HoldAfter(t, "released")
    /\ QueueStays
    /\ UNCHANGED deferral \/ \E s \in Staff : EndRequest(s)

Skips(t) ==
    /\ AllowSkip /\ entries[t].status = "waiting"
    /\ Only(t) /\ Fixed(t) /\ SameOrder(t)
    /\ entries'[t].status = entries[t].status /\ entries'[t].absence = entries[t].absence
    /\ QueueStays /\ UNCHANGED <<tx, deferral>>

Serves(t) ==
    /\ entries[t].status = "called" /\ entries'[t].status = "serving"
    /\ Only(t) /\ InPlace(t) /\ SameOrder(t)
    /\ entries'[t].absence = entries[t].absence
    /\ QueueStays /\ UNCHANGED <<tx, deferral>>

Completes(t) ==
    /\ Lock /\ tx'.phase = 1
    /\ entries[t].status = "serving" /\ entries'[t].status = "served"
    /\ Only(t) /\ InPlace(t)
    /\ entries'[t].absence = entries[t].absence
    /\ entries'[t].order = OrderAfter(t, "completed")
    /\ entries'[t].hold = HoldAfter(t, "consumed")
    /\ QueueStays /\ UNCHANGED deferral

Defers(t) ==
    /\ Lock
    /\ entries[t].status = "called" /\ entries'[t].status = "waiting"
    /\ entries'[t].absence = entries[t].absence + 1
    /\ \A u \in Ticket : Fixed(u) /\ SameOrder(u)
    /\ \A u \in Ticket \ {t} : /\ entries'[u].status = entries[u].status
                               /\ entries'[u].absence = entries[u].absence
    /\ \A u, v \in Waiting(entries) :
          Before(entries[u], entries[v]) => Before(entries'[u], entries'[v])
    /\ Cardinality(Ahead(entries', t)) = MinOf(DeferralSlots, Cardinality(Waiting(entries)))
    /\ IF Waiting(entries) = {} THEN UNCHANGED tx ELSE tx'.phase = 1
    /\ \E s \in Staff : /\ deferral[s] # NoDeferral /\ deferral[s].ticket = t
                        /\ ~ IsLastAbsence(deferral[s].absence)
                        /\ EndRequest(s)
    /\ QueueStays

Calls(t) ==
    /\ tx.phase = 2 /\ tx'.phase = 0
    /\ entries[t].status = "waiting" /\ entries'[t].status = "called"
    /\ \A u \in Waiting(entries) : ~ Before(entries[u], entries[t])
    /\ Only(t) /\ InPlace(t) /\ SameOrder(t)
    /\ entries'[t].absence = entries[t].absence
    /\ QueueStays /\ UNCHANGED deferral

Expires(t) ==
    /\ ReservationsExpire
    /\ entries[t].hold = "reserved" /\ entries[t].order \in LiveOrder
    /\ entries'[t].status = ExpiredTicketStatus(entries[t].status)
    /\ entries'[t].order = "cancelled" /\ entries'[t].hold = "expired"
    /\ Only(t) /\ InPlace(t)
    /\ entries'[t].absence = entries[t].absence
    /\ QueueStays /\ UNCHANGED <<tx, deferral>>

Patches(t) ==
    /\ StaffPatchOrders
    /\ entries[t].order # "none" /\ entries'[t].order = "processing"
    /\ Only(t) /\ InPlace(t)
    /\ entries'[t].status = entries[t].status /\ entries'[t].absence = entries[t].absence
    /\ entries'[t].hold = entries[t].hold
    /\ QueueStays /\ UNCHANGED <<tx, deferral>>

(* Steps that write no ticket.                                                *)
Rests ==
    /\ UNCHANGED entries
    /\ \/ \E c \in Customer : PenaltyExpires(c)
       \/ CallNextTicket
       \/ \E s \in Staff : DeferFails(s) \/ \E t \in Ticket : BeginDefer(s, t)
       \/ AutoCallFirstRead \/ AutoCallNobody
       \/ \E status \in QueueStatus, c \in Capacity : UpdateQueue(status, c)
       \/ DeleteQueue \/ Midnight \/ ResetCounter
       \/ UNCHANGED vars

Writes(t) ==
    \/ Arrives(t) \/ Extends(t) \/ Leaves(t) \/ Skips(t) \/ Serves(t)
    \/ Completes(t) \/ Defers(t) \/ Calls(t) \/ Expires(t) \/ Patches(t)

-----------------------------------------------------------------------------
(* Every step is of one of these kinds.                                       *)

LEMMA ArrivalKind ==
    ASSUME TypeOK, NEW t \in Ticket, NEW owner \in Owner, NEW priority \in Int,
           NEW order \in OrderStatus, NEW qty \in Nat,
           CreateEntry(t, owner, priority, order, qty), EnterAutoCall({t}, {t}),
           Lock, HasRoom, UNCHANGED <<today, deferral>>, priority <= 0,
           \/ order = "none"
           \/ order = "pending" /\ (owner \in Customer => ActiveOrdersOf(owner) = {})
    PROVE  Arrives(t)
<1>1. PICK date \in {today - 1, today} :
        /\ BookingDate(date)
        /\ NewRow(t) /\ priority >= 0 /\ NumberIsFree(date)
        /\ entries' = [entries EXCEPT ![t] =
              [status |-> "waiting", owner |-> owner, number |-> NextNumber(date),
               day |-> date, priority |-> priority, absence |-> 0,
               order |-> order, hold |-> IF qty > 0 THEN "reserved" ELSE "none",
               qty |-> qty]]
        /\ queue' = [queue EXCEPT !.counter = NextNumber(date),
                                  !.counterDay = date]
  BY DEF CreateEntry
<1>2. entries'[t] = [status |-> "waiting", owner |-> owner, number |-> NextNumber(date),
               day |-> date, priority |-> priority, absence |-> 0,
               order |-> order, hold |-> IF qty > 0 THEN "reserved" ELSE "none",
               qty |-> qty]
  BY <1>1 DEF TypeOK
<1>3. Only(t)
  BY <1>1 DEF TypeOK, Only
<1>4. priority = 0
  BY <1>1
<1>5. entries[t].status = "absent" /\ NewRow(t)
  BY <1>1 DEF NewRow
<1>6. tx'.phase = 1
  BY DEF EnterAutoCall
<1>7. entries'[t].hold \in {"none", "reserved"}
  BY <1>2
<1>8. entries'[t].day = date /\ entries'[t].number = NextNumber(date)
  BY <1>2
<1>9. entries'[t].owner = owner /\ entries'[t].order = order
      /\ entries'[t].status = "waiting" /\ entries'[t].absence = 0
      /\ entries'[t].priority = 0
  BY <1>2, <1>4
<1> QED BY <1>1, <1>3, <1>5, <1>6, <1>7, <1>8, <1>9 DEF Arrives

LEMMA WithdrawKind ==
    ASSUME TypeOK, NEW t \in Ticket, NEW status \in {"cancelled", "no_show"},
           NEW absence \in {0, 1}, Withdraw(t, status, absence),
           Lock, entries[t].status \in {"waiting", "called"}, QueueStays,
           UNCHANGED deferral \/ \E s \in Staff : EndRequest(s)
    PROVE  Leaves(t)
<1>1. entries[t] \in Entry /\ entries[t].absence \in Nat
  BY DEF TypeOK, Entry
<1>2. entries' = [entries EXCEPT
         ![t].status  = status,
         ![t].absence = @ + absence,
         ![t].order   = OrderAfter(t, "cancelled"),
         ![t].hold    = HoldAfter(t, "released")]
  BY DEF Withdraw
<1> DEFINE order == OrderAfter(t, "cancelled")
           hold == HoldAfter(t, "released")
<1> HIDE DEF order, hold
<1>3. entries' = [entries EXCEPT ![t].status = status, ![t].absence = @ + absence,
                                 ![t].order = order, ![t].hold = hold]
  BY <1>2 DEF order, hold
<1>4. Only(t)
  BY <1>3 DEF TypeOK, Only
<1>5. /\ entries'[t].status = status
      /\ entries'[t].absence = entries[t].absence + absence
      /\ entries'[t].order = OrderAfter(t, "cancelled")
      /\ entries'[t].hold = HoldAfter(t, "released")
      /\ InPlace(t)
  <2>1. entries'[t].status = status /\ entries'[t].absence = entries[t].absence + absence
    BY <1>1, <1>3 DEF Entry, TypeOK
  <2>2. entries'[t].order = order /\ entries'[t].hold = hold
    BY <1>1, <1>3 DEF Entry, TypeOK
  <2>3. InPlace(t)
    BY <1>1, <1>3 DEF Entry, TypeOK, InPlace, Fixed
  <2> QED BY <2>1, <2>2, <2>3 DEF order, hold
<1>6. tx'.phase = 1
  BY DEF Withdraw, EnterAutoCall
<1> QED BY <1>1, <1>4, <1>5, <1>6 DEF Leaves

(* The row numbers are the places 1, 2, ... of the line.                      *)
LEMMA RowNumbersAreAll ==
    ASSUME TypeOK, NEW r \in RowNumbers(entries)
    PROVE  r \in Bijection(Waiting(entries), 1 .. Cardinality(Waiting(entries)))
<1> DEFINE total == Cardinality(Waiting(entries))
<1>1. total \in Nat /\ IsFiniteSet(1 .. total) /\ Cardinality(1 .. total) = total
  BY WaitingCount, FS_Interval
<1>2. r \in Injection(Waiting(entries), 1 .. total)
  BY DEF RowNumbers, Injection, IsInjective
<1>3. r \in Surjection(Waiting(entries), 1 .. total)
  BY <1>1, <1>2, FS_Injection
<1> QED BY <1>2, <1>3 DEF Bijection

(* As many rows stand before a place as the place says.                       *)
LEMMA RowsBefore ==
    ASSUME NEW S, NEW n \in Nat, NEW r \in Bijection(S, 1 .. n), NEW k \in 0 .. n
    PROVE  Cardinality({u \in S : r[u] <= k}) = k
<1> DEFINE T == {u \in S : r[u] <= k}
           f == [u \in T |-> r[u]]
<1>1. r \in [S -> 1 .. n] /\ (\A u, v \in S : r[u] = r[v] => u = v)
  BY DEF Bijection, Injection, IsInjective
<1>2. \A i \in 1 .. n : \E u \in S : r[u] = i
  BY DEF Bijection, Surjection
<1>3. f \in [T -> 1 .. k]
  BY <1>1
<1>4. f \in Injection(T, 1 .. k)
  BY <1>1, <1>3 DEF Injection, IsInjective
<1>5. f \in Surjection(T, 1 .. k)
  <2>1. ASSUME NEW i \in 1 .. k PROVE \E u \in T : f[u] = i
    <3>1. PICK u \in S : r[u] = i
      BY <1>2
    <3> QED BY <3>1
  <2> QED BY <1>3, <2>1 DEF Surjection
<1>6. IsFiniteSet(1 .. k) /\ Cardinality(1 .. k) = k
  BY FS_Interval
<1> HIDE DEF T, f
<1>7. Cardinality(T) = Cardinality(1 .. k)
  BY <1>4, <1>5, <1>6, FS_Injection
<1> QED BY <1>6, <1>7 DEF T

(* A waiting row is renumbered by its place, and the deferred ticket gets the *)
(* target priority.                                                           *)
LEMMA DeferralPriorities ==
    ASSUME TypeOK, NEW t \in Ticket, entries[t].status = "called",
           NEW after \in DeferCalledBySlots(entries, t, DeferralSlots)
    PROVE  \E r \in RowNumbers(entries) :
              /\ after[t].priority = TargetPriority(Cardinality(Waiting(entries)), DeferralSlots)
              /\ \A w \in Waiting(entries) :
                    after[w].priority = (Cardinality(Waiting(entries)) - r[w] + 1) * PriorityStep
<1> DEFINE total == Cardinality(Waiting(entries))
<1>1. PICK r \in RowNumbers(entries) :
        after = [Renumbered(entries, r) EXCEPT
                    ![t].status   = "waiting",
                    ![t].priority = TargetPriority(total, DeferralSlots),
                    ![t].absence  = @ + 1]
  BY DEF DeferCalledBySlots
<1>2. r \in [Waiting(entries) -> 1 .. total]
  BY <1>1 DEF RowNumbers
<1>3. \A w \in Waiting(entries) : w # t /\ w \in DOMAIN entries
  BY DEF Waiting, WithStatus
<1>4. ASSUME NEW w \in Waiting(entries)
      PROVE  after[w].priority = (total - r[w] + 1) * PriorityStep
  <2>1. DOMAIN r = Waiting(entries) /\ w # t /\ w \in DOMAIN entries
    BY <1>2, <1>3
  <2>2. Renumbered(entries, r)[w] =
          [entries[w] EXCEPT !.priority = (total - r[w] + 1) * PriorityStep]
    BY <2>1 DEF Renumbered
  <2>3. after[w] = Renumbered(entries, r)[w]
    <3>1. w \in DOMAIN Renumbered(entries, r)
      BY <2>1 DEF Renumbered
    <3> QED BY <1>1, <2>1, <3>1
  <2>4. entries[w] \in Entry
    BY <2>1 DEF TypeOK
  <2> DEFINE p == (total - r[w] + 1) * PriorityStep
  <2> HIDE DEF p
  <2>5. after[w] = [entries[w] EXCEPT !.priority = p]
    BY <2>2, <2>3 DEF p
  <2>6. after[w].priority = p
    BY <2>4, <2>5 DEF Entry
  <2> QED BY <2>6 DEF p
<1>5. after[t].priority = TargetPriority(total, DeferralSlots)
  <2>1. t \in DOMAIN entries /\ entries[t] \in Entry /\ t \notin DOMAIN r
    BY <1>2, <1>3 DEF TypeOK
  <2>2. t \in DOMAIN Renumbered(entries, r) /\ Renumbered(entries, r)[t] = entries[t]
    BY <2>1 DEF Renumbered
  <2> DEFINE p == TargetPriority(total, DeferralSlots)
  <2> HIDE DEF p
  <2>3. after = [Renumbered(entries, r) EXCEPT
                    ![t].status = "waiting", ![t].priority = p, ![t].absence = @ + 1]
    BY <1>1 DEF p
  <2>4. after[t] = [entries[t] EXCEPT !.status = "waiting", !.priority = p, !.absence = @ + 1]
    BY <2>1, <2>2, <2>3
  <2>5. after[t].priority = p
    BY <2>1, <2>4 DEF Entry
  <2> QED BY <2>5 DEF p
<1> QED BY <1>4, <1>5

(* A deferral renumbers the line and keeps its order.                         *)
LEMMA DeferralOrder ==
    ASSUME TypeOK, NEW t \in Ticket, entries[t].status = "called",
           NEW after \in DeferCalledBySlots(entries, t, DeferralSlots),
           NEW u \in Waiting(entries), NEW v \in Waiting(entries),
           Before(entries[u], entries[v])
    PROVE  Before(after[u], after[v])
<1> DEFINE total == Cardinality(Waiting(entries))
<1>1. PICK r \in RowNumbers(entries) :
        \A w \in Waiting(entries) : after[w].priority = (total - r[w] + 1) * PriorityStep
  BY DeferralPriorities
<1>2. r \in [Waiting(entries) -> 1 .. total] /\ r[u] < r[v]
  BY <1>1 DEF RowNumbers
<1>3. total \in Nat /\ r[u] \in Nat /\ r[v] \in Nat
  BY <1>2, WaitingCount
<1>4. after[u].priority > after[v].priority
  BY <1>1, <1>2, <1>3 DEF PriorityStep
<1> QED BY <1>4 DEF Before

(* Exactly the first DeferralSlots of those who wait, or all of them, come    *)
(* before a ticket that is put back.                                          *)
LEMMA DeferralPlace ==
    ASSUME TypeOK, NEW t \in Ticket, entries[t].status = "called",
           NEW after \in DeferCalledBySlots(entries, t, DeferralSlots)
    PROVE  Cardinality(Ahead(after, t))
              = MinOf(DeferralSlots, Cardinality(Waiting(entries)))
<1> DEFINE total == Cardinality(Waiting(entries))
<1>1. PICK r \in RowNumbers(entries) :
        /\ after[t].priority = TargetPriority(total, DeferralSlots)
        /\ \A w \in Waiting(entries) : after[w].priority = (total - r[w] + 1) * PriorityStep
  BY DeferralPriorities
<1>2. r \in Bijection(Waiting(entries), 1 .. total) /\ r \in [Waiting(entries) -> 1 .. total]
  BY <1>1, RowNumbersAreAll DEF RowNumbers
<1>3. total \in Nat /\ DeferralSlots \in Nat \ {0}
  BY WaitingCount, QueueAssumption DEF QueueAssumption
<1>0. after \in [Ticket -> Entry]
  BY DeferralRows
<1>4. Waiting(after) = Waiting(entries) \cup {t} /\ t \notin Waiting(entries)
  <2>1. /\ after \in [Ticket -> Entry] /\ entries \in [Ticket -> Entry]
        /\ \A u \in Ticket \ {t} : after[u] = [entries[u] EXCEPT !.priority = after[u].priority]
        /\ after[t] = [entries[t] EXCEPT !.status = "waiting", !.priority = after[t].priority,
                                         !.absence = @ + 1]
    <3>1. entries \in [Ticket -> Entry]
      BY DEF TypeOK
    <3> QED BY <1>0, <3>1, DeferralRows
  <2>2. ASSUME NEW u \in Ticket \ {t} PROVE after[u].status = entries[u].status
    <3> DEFINE p == after[u].priority
    <3> HIDE DEF p
    <3>1. after[u] = [entries[u] EXCEPT !.priority = p] /\ entries[u] \in Entry
      BY <2>1 DEF p
    <3> QED BY <3>1 DEF Entry
  <2>3. after[t].status = "waiting"
    <3> DEFINE p == after[t].priority
    <3> HIDE DEF p
    <3>1. /\ entries[t] \in Entry
          /\ after[t] = [entries[t] EXCEPT !.status = "waiting", !.priority = p, !.absence = @ + 1]
      BY <2>1 DEF p
    <3> QED BY <3>1 DEF Entry
  <2> QED BY <2>1, <2>2, <2>3 DEF Waiting, WithStatus
<1>5. Ahead(after, t) = {u \in Waiting(entries) : after[u].priority >= after[t].priority
                                                    /\ Before(after[u], after[t])}
  <2>1. ~ Before(after[t], after[t])
    <3>1. after[t].priority \in Nat /\ after[t].number \in Nat
      BY <1>0 DEF Entry
    <3> QED BY <3>1 DEF Before
  <2>2. \A u \in Waiting(after) :
           Before(after[u], after[t]) => after[u].priority >= after[t].priority
    <3>1. \A u \in Ticket : after[u].priority \in Nat
      BY <1>0 DEF Entry
    <3>2. Waiting(after) \subseteq Ticket
      BY <1>0 DEF Waiting, WithStatus
    <3> QED BY <3>1, <3>2 DEF Before
  <2> QED BY <1>4, <2>1, <2>2 DEF Ahead
<1>6. ASSUME NEW u \in Waiting(entries)
      PROVE  Before(after[u], after[t]) <=> r[u] <= MinOf(DeferralSlots, total)
  <2>1. r[u] \in 1 .. total /\ after[u].priority = (total - r[u] + 1) * PriorityStep
    BY <1>1, <1>2
  <2>2. CASE total >= DeferralSlots
    <3>1. after[t].priority = (total - DeferralSlots + 1) * 10 - 5
      BY <1>1, <2>2 DEF TargetPriority, PriorityStep, DeferralGap
    <3>2. after[u].priority = (total - r[u] + 1) * 10
      BY <2>1 DEF PriorityStep
    <3>3. MinOf(DeferralSlots, total) = DeferralSlots
      BY <1>3, <2>2 DEF MinOf
    <3> QED BY <1>3, <2>1, <3>1, <3>2, <3>3 DEF Before
  <2>3. CASE ~ (total >= DeferralSlots)
    <3>1. after[t].priority = 0
      BY <1>1, <2>3 DEF TargetPriority
    <3>2. after[u].priority = (total - r[u] + 1) * 10
      BY <2>1 DEF PriorityStep
    <3>3. MinOf(DeferralSlots, total) = total
      BY <1>3, <2>3 DEF MinOf
    <3> QED BY <1>3, <2>1, <3>1, <3>2, <3>3 DEF Before
  <2> QED BY <2>2, <2>3
<1>7. Ahead(after, t) = {u \in Waiting(entries) : r[u] <= MinOf(DeferralSlots, total)}
  BY <1>4, <1>5, <1>6 DEF Ahead
<1>8. MinOf(DeferralSlots, total) \in 0 .. total
  BY <1>3 DEF MinOf
<1> HIDE DEF total
<1>9. Cardinality({u \in Waiting(entries) : r[u] <= MinOf(DeferralSlots, total)})
        = MinOf(DeferralSlots, total)
  BY <1>2, <1>3, <1>8, RowsBefore
<1> QED BY <1>7, <1>9 DEF total

LEMMA DeferKind ==
    ASSUME TypeOK, NEW s \in Staff, DeferBack(s)
    PROVE  \E t \in Ticket : Defers(t)
<1> DEFINE t == deferral[s].ticket
<1>1. t \in Ticket /\ entries[t].status = "called"
  BY DeferralTicket DEF DeferBack
<1>2. entries' \in DeferCalledBySlots(entries, t, DeferralSlots)
  BY DEF DeferBack
<1>3. /\ \A u \in Ticket \ {t} :
            entries'[u] = [entries[u] EXCEPT !.priority = entries'[u].priority]
      /\ entries'[t] = [entries[t] EXCEPT !.status   = "waiting",
                                         !.priority = entries'[t].priority,
                                         !.absence  = @ + 1]
  BY <1>1, <1>2, DeferralRows
<1>4. \A u, v \in Waiting(entries) :
          Before(entries[u], entries[v]) => Before(entries'[u], entries'[v])
  BY <1>1, <1>2, DeferralOrder
<1>5. /\ deferral[s] # NoDeferral /\ ~ IsLastAbsence(deferral[s].absence)
      /\ EndRequest(s) /\ Lock /\ QueueStays
      /\ IF Waiting(entries) = {} THEN UNCHANGED tx ELSE tx'.phase = 1
  BY DEF DeferBack, CallsAfterDefer, EnterAutoCall, QueueStays
<1> DEFINE P(x) == x = t
<1> HIDE DEF t
<1>6. ASSUME NEW u \in Ticket \ {t}
      PROVE  /\ Fixed(u) /\ SameOrder(u)
             /\ entries'[u].status = entries[u].status
             /\ entries'[u].absence = entries[u].absence
  <2>1. entries[u] \in Entry
    BY DEF TypeOK
  <2> DEFINE p == entries'[u].priority
  <2> HIDE DEF p
  <2>2. entries'[u] = [entries[u] EXCEPT !.priority = p]
    BY <1>3 DEF p
  <2> QED BY <2>1, <2>2 DEF Entry, Fixed, SameOrder
<1>7. /\ Fixed(t) /\ SameOrder(t)
      /\ entries'[t].status = "waiting"
      /\ entries'[t].absence = entries[t].absence + 1
  <2>1. entries[t] \in Entry
    BY <1>1 DEF TypeOK
  <2> DEFINE p == entries'[t].priority
  <2> HIDE DEF p
  <2>2. entries'[t] = [entries[t] EXCEPT !.status = "waiting", !.priority = p,
                                        !.absence  = @ + 1]
    BY <1>3 DEF p
  <2> QED BY <2>1, <2>2 DEF Entry, Fixed, SameOrder
<1>8. \A u \in Ticket : Fixed(u) /\ SameOrder(u)
  BY <1>6, <1>7
<1>9. deferral[s].ticket = t
  BY DEF t
<1>10. Cardinality(Ahead(entries', t)) = MinOf(DeferralSlots, Cardinality(Waiting(entries)))
  BY <1>1, <1>2, DeferralPlace
<1> QED BY <1>1, <1>4, <1>5, <1>6, <1>7, <1>8, <1>9, <1>10 DEF Defers

LEMMA StepKinds ==
    TypeOK /\ [Next]_vars => Rests \/ \E t \in Ticket : Writes(t)
<1> SUFFICES ASSUME TypeOK, [Next]_vars PROVE Rests \/ \E t \in Ticket : Writes(t)
  OBVIOUS
<1>a. entries \in [Ticket -> Entry]
  BY DEF TypeOK
<1>1. ASSUME NEW c \in Customer, JoinQueue(c) PROVE \E t \in Ticket : Writes(t)
  <2>1. PICK t \in Ticket : /\ CreateEntry(t, c, JoinPriority(c), "none", 0)
                            /\ EnterAutoCall({t}, {t})
    BY <1>1 DEF JoinQueue
  <2>2. /\ c \in Owner /\ JoinPriority(c) \in Int /\ "none" \in OrderStatus /\ 0 \in Nat
        /\ JoinPriority(c) <= 0
    BY DEF Owner, JoinPriority, OrderStatus
  <2>3. Lock /\ HasRoom /\ UNCHANGED <<today, deferral>>
    BY <1>1 DEF JoinQueue
  <2>4. Arrives(t)
    BY <2>1, <2>2, <2>3, ArrivalKind
  <2> QED BY <2>4 DEF Writes
<1>2. ASSUME NEW c \in Customer \cup {Guest}, NEW q \in Quantity, BookNewOrder(c, q)
      PROVE  \E t \in Ticket : Writes(t)
  <2>1. PICK t \in Ticket : /\ CreateEntry(t, c, 0, "pending", q)
                            /\ EnterAutoCall({t}, {t})
    BY <1>2 DEF BookNewOrder
  <2>2. c \in Owner /\ 0 \in Int /\ "pending" \in OrderStatus /\ q \in Nat /\ 0 <= 0
    BY QueueAssumption DEF Owner, OrderStatus, LiveOrder, QueueAssumption
  <2>3. /\ Lock /\ HasRoom /\ UNCHANGED <<today, deferral>>
        /\ c \in Customer => ActiveOrdersOf(c) = {}
    BY <1>2 DEF BookNewOrder
  <2>4. Arrives(t)
    BY <2>1, <2>2, <2>3, ArrivalKind
  <2> QED BY <2>4 DEF Writes
<1>3. ASSUME NEW c \in Customer, NEW q \in Quantity, ExtendOrder(c, q)
      PROVE  \E t \in Ticket : Writes(t)
  <2>1. PICK t \in ActiveOrdersOf(c) :
          /\ q > 0 => entries[t].hold \in {"none", "reserved"}
          /\ entries' = [entries EXCEPT ![t].hold = IF q > 0 THEN "reserved" ELSE @,
                                        ![t].qty  = @ + q]
          /\ EnterAutoCall({t}, {t})
    BY <1>3 DEF ExtendOrder
  <2>2. t \in Ticket /\ t \in Active /\ entries[t].order \in LiveOrder
    BY DEF ActiveOrdersOf, Active
  <2>3. Only(t) /\ InPlace(t)
    BY <1>a, <2>1, <2>2 DEF Only, InPlace, Fixed, Entry
  <2>4. /\ entries'[t].status = entries[t].status
        /\ entries'[t].absence = entries[t].absence
        /\ entries'[t].order = entries[t].order
    BY <1>a, <2>1, <2>2 DEF Entry
  <2>5. entries'[t].hold = IF q > 0 THEN "reserved" ELSE entries[t].hold
    BY <1>a, <2>1, <2>2 DEF Entry
  <2>6. Lock /\ QueueStays /\ UNCHANGED deferral
    BY <1>3 DEF ExtendOrder, QueueStays
  <2>7. tx'.phase = 1
    BY <2>1 DEF EnterAutoCall
  <2>8. Extends(t)
    BY <2>1, <2>2, <2>3, <2>4, <2>5, <2>6, <2>7 DEF Extends
  <2> QED BY <2>2, <2>8 DEF Writes
<1>4. ASSUME NEW t \in Ticket,
             CancelTicket(t) \/ StaffCancelEntry(t) \/ CancelByOrder(t)
      PROVE  \E u \in Ticket : Writes(u)
  <2>1. Withdraw(t, "cancelled", 0) /\ entries[t].status \in {"waiting", "called"}
    BY <1>4 DEF CancelTicket, StaffCancelEntry, CancelByOrder, CancellableStatus
  <2>2. Lock /\ QueueStays /\ UNCHANGED deferral
    BY <1>4 DEF CancelTicket, StaffCancelEntry, CancelByOrder, QueueStays
  <2>3. Leaves(t)
    BY <2>1, <2>2, WithdrawKind
  <2> QED BY <2>3 DEF Writes
<1>5. ASSUME NEW t \in Ticket, SkipTicket(t) PROVE \E u \in Ticket : Writes(u)
  <2>1. entries' = [entries EXCEPT ![t].priority = SkippedPriority(entries[t].priority)]
    BY <1>5 DEF SkipTicket
  <2> DEFINE p == SkippedPriority(entries[t].priority)
  <2> HIDE DEF p
  <2>2. entries' = [entries EXCEPT ![t].priority = p]
    BY <2>1 DEF p
  <2>3. /\ Only(t) /\ Fixed(t) /\ SameOrder(t)
        /\ entries'[t].status = entries[t].status
        /\ entries'[t].absence = entries[t].absence
    BY <1>a, <2>2 DEF Only, Fixed, SameOrder, Entry
  <2>4. Skips(t)
    BY <1>5, <2>3 DEF SkipTicket, Skips, QueueStays
  <2> QED BY <2>4 DEF Writes
<1>6. ASSUME NEW t \in Ticket, ServeTicket(t) PROVE \E u \in Ticket : Writes(u)
  <2>1. /\ Only(t) /\ InPlace(t) /\ SameOrder(t)
        /\ entries'[t].status = "serving"
        /\ entries'[t].absence = entries[t].absence
    BY <1>a, <1>6 DEF ServeTicket, Only, InPlace, Fixed, SameOrder, Entry
  <2>2. Serves(t)
    BY <1>6, <2>1 DEF ServeTicket, Serves, QueueStays
  <2> QED BY <2>2 DEF Writes
<1>7. ASSUME NEW t \in Ticket, CompleteTicket(t) PROVE \E u \in Ticket : Writes(u)
  <2> DEFINE order == OrderAfter(t, "completed")
             hold == HoldAfter(t, "consumed")
  <2> HIDE DEF order, hold
  <2>1. entries' = [entries EXCEPT ![t].status = "served", ![t].order = order,
                                   ![t].hold = hold]
    BY <1>7 DEF CompleteTicket, order, hold
  <2>2. /\ Only(t) /\ InPlace(t)
        /\ entries'[t].status = "served"
        /\ entries'[t].absence = entries[t].absence
    BY <1>a, <2>1 DEF Only, InPlace, Fixed, Entry
  <2>3. entries'[t].order = order /\ entries'[t].hold = hold
    BY <1>a, <2>1 DEF Entry
  <2>4. Completes(t)
    BY <1>7, <2>2, <2>3 DEF CompleteTicket, EnterAutoCall, Completes, QueueStays, order, hold
  <2> QED BY <2>4 DEF Writes
<1>8. ASSUME NEW t \in Ticket, NoShowTicket(t) PROVE \E u \in Ticket : Writes(u)
  <2>1. /\ Withdraw(t, "no_show", 0) /\ entries[t].status \in {"waiting", "called"}
        /\ Lock /\ QueueStays /\ UNCHANGED deferral
    BY <1>8 DEF NoShowTicket, QueueStays
  <2>2. Leaves(t)
    BY <2>1, WithdrawKind
  <2> QED BY <2>2 DEF Writes
<1>9. ASSUME NEW s \in Staff, DeferNoShow(s) PROVE \E u \in Ticket : Writes(u)
  <2> DEFINE t == deferral[s].ticket
  <2>1. t \in Ticket
    BY <1>9, DeferralTicket DEF DeferNoShow
  <2>2. /\ Withdraw(t, "no_show", 1) /\ entries[t].status \in {"waiting", "called"}
        /\ Lock /\ QueueStays /\ EndRequest(s)
    BY <1>9 DEF DeferNoShow, QueueStays
  <2>3. Leaves(t)
    <3> HIDE DEF t
    <3> QED BY <2>1, <2>2, WithdrawKind
  <2> QED BY <2>1, <2>3 DEF Writes
<1>10. ASSUME NEW s \in Staff, DeferBack(s) PROVE \E u \in Ticket : Writes(u)
  BY <1>10, DeferKind DEF Writes
<1>11. CASE AutoCallHead
  <2>1. PICK t \in Heads(entries) : entries' = [entries EXCEPT ![t].status = "called"]
    BY <1>11 DEF AutoCallHead, CallableHeads
  <2>2. /\ t \in Ticket /\ entries[t].status = "waiting"
        /\ \A u \in Waiting(entries) : ~ Before(entries[u], entries[t])
    BY <1>a, <2>1 DEF Heads, Ahead, Waiting, WithStatus
  <2>3. /\ Only(t) /\ InPlace(t) /\ SameOrder(t)
        /\ entries'[t].status = "called"
        /\ entries'[t].absence = entries[t].absence
    BY <1>a, <2>1, <2>2 DEF Only, InPlace, Fixed, SameOrder, Entry
  <2>4. Calls(t)
    BY <1>11, <2>2, <2>3 DEF AutoCallHead, Calls, Commit, IdleTx, QueueStays
  <2> QED BY <2>2, <2>4 DEF Writes
<1>12. ASSUME NEW t \in Ticket, ExpireDue(t) PROVE \E u \in Ticket : Writes(u)
  <2> DEFINE status == ExpiredTicketStatus(entries[t].status)
  <2> HIDE DEF status
  <2>1. entries' = [entries EXCEPT ![t].order = "cancelled", ![t].hold = "expired",
                                   ![t].status = status]
    BY <1>12 DEF ExpireDue, status
  <2>2. /\ Only(t) /\ InPlace(t)
        /\ entries'[t].absence = entries[t].absence
        /\ entries'[t].order = "cancelled" /\ entries'[t].hold = "expired"
    BY <1>a, <2>1 DEF Only, InPlace, Fixed, Entry
  <2>3. entries'[t].status = status
    BY <1>a, <2>1 DEF Entry
  <2>4. Expires(t)
    BY <1>12, <2>2, <2>3 DEF ExpireDue, Expires, QueueStays, status
  <2> QED BY <2>4 DEF Writes
<1>13. ASSUME NEW t \in Ticket, PatchOrder(t) PROVE \E u \in Ticket : Writes(u)
  <2>1. /\ Only(t) /\ InPlace(t)
        /\ entries'[t].order = "processing"
        /\ entries'[t].status = entries[t].status
        /\ entries'[t].absence = entries[t].absence
        /\ entries'[t].hold = entries[t].hold
    BY <1>a, <1>13 DEF PatchOrder, Only, InPlace, Fixed, Entry
  <2>2. Patches(t)
    BY <1>13, <2>1 DEF PatchOrder, Patches, QueueStays
  <2> QED BY <2>2 DEF Writes
<1>14. ASSUME \/ \E c \in Customer : PenaltyExpires(c)
              \/ CallNextTicket
              \/ \E s \in Staff : DeferFails(s) \/ \E t \in Ticket : BeginDefer(s, t)
              \/ AutoCallFirstRead \/ AutoCallNobody
              \/ \E status \in QueueStatus, c \in Capacity : UpdateQueue(status, c)
              \/ DeleteQueue \/ Midnight \/ ResetCounter
              \/ UNCHANGED vars
       PROVE  Rests
  <2>1. UNCHANGED entries
    BY <1>14 DEF PenaltyExpires, CallNextTicket, DeferFails, BeginDefer, AutoCallFirstRead,
                 AutoCallNobody, UpdateQueue, DeleteQueue, Midnight, ResetCounter, vars
  <2> QED BY <1>14, <2>1 DEF Rests
<1> QED
  BY <1>1, <1>2, <1>3, <1>4, <1>5, <1>6, <1>7, <1>8, <1>9, <1>10, <1>11, <1>12, <1>13, <1>14
  DEF Next, AutoCall, CommitDefer

(* What a row that is not written keeps.                                      *)
LEMMA Untouched ==
    ASSUME NEW t \in Ticket, NEW u \in Ticket, Only(t), u # t
    PROVE  entries'[u] = entries[u]
BY DEF Only

-----------------------------------------------------------------------------
(* Deletion and capacity.                                                     *)

(* A ticket becomes active only by arriving, under the lock of a queue that   *)
(* is not deleted and has room.                                               *)
LEMMA ActiveSteps ==
    ASSUME TypeOK, [Next]_vars
    PROVE  \/ Active' \subseteq Active
           \/ /\ Lock /\ HasRoom /\ queue'.active = queue.active
              /\ \E t \in Ticket : t \notin Active /\ Active' = Active \cup {t}
<1>1. CASE Rests
  BY <1>1 DEF Rests, Active
<1>2. ASSUME NEW t \in Ticket, Arrives(t)
      PROVE  /\ Lock /\ HasRoom /\ queue'.active = queue.active
             /\ t \notin Active /\ Active' = Active \cup {t}
  <2>1. queue'.active = queue.active
    BY <1>2 DEF Arrives, TypeOK, QueueRow
  <2>2. entries[t].status = "absent" /\ entries'[t].status = "waiting"
    BY <1>2 DEF Arrives
  <2>3. \A u \in Ticket \ {t} : entries'[u] = entries[u]
    BY <1>2 DEF Arrives, Only
  <2> QED BY <1>2, <2>1, <2>2, <2>3 DEF Active, ActiveStatus, Arrives
<1>3. ASSUME NEW t \in Ticket, Writes(t), ~ Arrives(t)
      PROVE  Active' \subseteq Active
  <2>1. CASE Defers(t)
    <3>1. \A u \in Ticket \ {t} : entries'[u].status = entries[u].status
      BY <2>1 DEF Defers
    <3>2. t \in Active
      BY <2>1 DEF Defers, Active, ActiveStatus
    <3> QED BY <3>1, <3>2 DEF Active
  <2>2. CASE ~ Defers(t)
    <3>1. \A u \in Ticket \ {t} : entries'[u] = entries[u]
      BY <1>3, <2>2 DEF Writes, Extends, Leaves, Skips, Serves, Completes, Calls,
                        Expires, Patches, Only
    <3>2. t \in Active' => t \in Active
      BY <1>3, <2>2 DEF Writes, Extends, Leaves, Skips, Serves, Completes, Calls,
                        Expires, Patches, Active, ActiveStatus, ExpiredTicketStatus
    <3> QED BY <3>1, <3>2 DEF Active
  <2> QED BY <2>1, <2>2
<1> QED BY <1>1, <1>2, <1>3, StepKinds

(* A deleted queue has no ticket to serve: whatever was in flight when it was *)
(* deleted finds it deleted under its lock, or moves a ticket that is there.  *)
THEOREM DeletedQueueStaysEmpty == Spec => []DeletedQueueIsEmpty
<1>1. Init => DeletedQueueIsEmpty
  BY DEF Init, DeletedQueueIsEmpty
<1>2. TypeOK /\ DeletedQueueIsEmpty /\ [Next]_vars => DeletedQueueIsEmpty'
  <2> SUFFICES ASSUME TypeOK, DeletedQueueIsEmpty, [Next]_vars, ~ queue'.active
               PROVE  Active' = {}
    BY DEF DeletedQueueIsEmpty
  <2>1. CASE queue.active
    <3>1. DeleteQueue
      <4>1. ASSUME NEW t \in Ticket, Writes(t) PROVE queue'.active = queue.active
        BY <4>1 DEF Writes, Arrives, Extends, Leaves, Skips, Serves, Completes, Defers,
                    Calls, Expires, Patches, QueueStays, TypeOK, QueueRow
      <4>2. Rests
        BY <2>1, <4>1, StepKinds
      <4> QED BY <2>1, <4>2
              DEF Rests, PenaltyExpires, CallNextTicket, DeferFails, BeginDefer,
                  AutoCallFirstRead, AutoCallNobody, UpdateQueue, Midnight, ResetCounter,
                  vars, TypeOK, QueueRow
    <3> QED BY <3>1 DEF DeleteQueue, MayDelete, Active
  <2>2. CASE ~ queue.active
    <3>1. Active = {}
      BY <2>2 DEF DeletedQueueIsEmpty
    <3> QED BY <2>2, <3>1, ActiveSteps DEF Lock
  <2> QED BY <2>1, <2>2
<1> QED BY <1>1, <1>2, TypeCorrect, PTL DEF Spec

LEMMA ActiveCount ==
    ASSUME NEW S, S \subseteq Ticket
    PROVE  IsFiniteSet(S) /\ Cardinality(S) \in Nat
<1>1. IsFiniteSet(Ticket)
  BY FS_Interval, QueueAssumption DEF Ticket, QueueAssumption
<1>2. IsFiniteSet(S)
  BY <1>1, FS_Subset
<1> QED BY <1>2, FS_CardinalityType

(* A step that adds a ticket leaves no more of them than the queue takes,     *)
(* whatever the manager did to its capacity before.                           *)
THEOREM CapacityKept == Spec => CapacityRespected
<1>1. TypeOK /\ [Next]_vars =>
        [Cardinality(Active') > Cardinality(Active) =>
            Cardinality(Active') <= queue.capacity]_vars
  <2> SUFFICES ASSUME TypeOK, [Next]_vars, Cardinality(Active') > Cardinality(Active)
               PROVE  Cardinality(Active') <= queue.capacity
    OBVIOUS
  <2>0. Active \subseteq Ticket /\ Active' \subseteq Ticket
    BY DEF Active
  <2>1. /\ IsFiniteSet(Active) /\ Cardinality(Active) \in Nat
        /\ Cardinality(Active') \in Nat
    BY <2>0, ActiveCount
  <2>2. CASE Active' \subseteq Active
    <3>1. Cardinality(Active') <= Cardinality(Active)
      BY <2>1, <2>2, FS_Subset
    <3> QED BY <2>1, <3>1
  <2>3. CASE HasRoom /\ \E t \in Ticket : t \notin Active /\ Active' = Active \cup {t}
    <3>1. Cardinality(Active') = Cardinality(Active) + 1
      BY <2>1, <2>3, FS_AddElement
    <3>2. {t \in Ticket : entries[t].status \in CapacityStatus} = Active
      BY DEF Active, CapacityStatus, ActiveStatus
    <3>3. queue.capacity \in Nat
      BY QueueAssumption DEF TypeOK, QueueRow, QueueAssumption
    <3>4. Cardinality(Active) < queue.capacity
      BY <2>3, <3>2 DEF HasRoom
    <3> QED BY <2>1, <3>1, <3>3, <3>4
  <2> QED BY <2>2, <2>3, ActiveSteps
<1> QED BY <1>1, TypeCorrect, PTL DEF Spec, CapacityRespected

-----------------------------------------------------------------------------
(* Ticket, order and reservation.                                             *)

(* One ticket of TicketMatchesOrderOrExpired.                                 *)
Matches(t) ==
    /\ entries[t].status \in {"waiting", "called"} => Open(t)
    /\ entries[t].status = "serving" => Open(t) \/ Revoked(t)
    /\ entries[t].status = "served" => Fulfilled(t) \/ Revoked(t)
    /\ entries[t].status \in {"cancelled", "no_show"} => Revoked(t)

LEMMA MatchesSame ==
    ASSUME NEW u, entries'[u] = entries[u], Matches(u)
    PROVE  Matches(u)'
BY DEF Matches, Open, Fulfilled, Revoked

(* What is due for a row that is written and for its order is done in one     *)
(* step, so the row still matches.                                            *)
LEMMA MatchesWritten ==
    ASSUME TypeOK, StaffPatchOrders = FALSE, NEW t \in Ticket, Writes(t), Matches(t)
    PROVE  Matches(t)'
<1>0. entries[t] \in Entry
  BY DEF TypeOK
<1>1. CASE Arrives(t)
  BY <1>1 DEF Arrives, Matches, Open, LiveOrder
<1>2. CASE Extends(t)
  BY <1>2 DEF Extends, Active, ActiveStatus, Matches, Open, Fulfilled, Revoked, LiveOrder
<1>3. CASE Leaves(t)
  BY <1>3 DEF Leaves, OrderAfter, HoldAfter, Matches, Open, Revoked, LiveOrder
<1>4. CASE Skips(t)
  BY <1>4 DEF Skips, SameOrder, Matches, Open, Fulfilled, Revoked
<1>5. CASE Serves(t)
  BY <1>5 DEF Serves, SameOrder, Matches, Open
<1>6. CASE Completes(t)
  BY <1>6 DEF Completes, OrderAfter, HoldAfter, Matches, Open, Fulfilled, Revoked, LiveOrder
<1>7. CASE Defers(t)
  BY <1>7 DEF Defers, SameOrder, Matches, Open
<1>8. CASE Calls(t)
  BY <1>8 DEF Calls, SameOrder, Matches, Open
<1>9. CASE Expires(t)
  <2>1. entries[t].order \in LiveOrder /\ entries[t].hold = "reserved"
    BY <1>9 DEF Expires
  <2>2. ~ Fulfilled(t) /\ ~ Revoked(t)
    BY <2>1 DEF Fulfilled, Revoked, LiveOrder
  <2>3. entries[t].status \in {"absent", "waiting", "called", "serving"}
    BY <1>0, <2>2 DEF Matches, Entry, TicketStatus, ActiveStatus, TerminalStatus
  <2>4. entries'[t].status \in {"absent", "cancelled", "serving"}
    BY <1>9, <2>3 DEF Expires, ExpiredTicketStatus
  <2>5. Revoked(t)'
    BY <1>9 DEF Expires, Revoked
  <2> QED BY <2>4, <2>5 DEF Matches
<1>10. ~ Patches(t)
  BY DEF Patches
<1> QED BY <1>1, <1>2, <1>3, <1>4, <1>5, <1>6, <1>7, <1>8, <1>9, <1>10 DEF Writes

(* Only one row's order and status change in a step.                          *)
LEMMA OthersKeepOrder ==
    ASSUME NEW t \in Ticket, Writes(t), NEW u \in Ticket \ {t}
    PROVE  /\ entries'[u].status = entries[u].status
           /\ entries'[u].owner = entries[u].owner
           /\ entries'[u].absence = entries[u].absence
           /\ SameOrder(u)
<1>1. CASE Defers(t)
  BY <1>1 DEF Defers, Fixed
<1>2. CASE ~ Defers(t)
  BY <1>2 DEF Writes, Arrives, Extends, Leaves, Skips, Serves, Completes, Calls, Expires,
              Patches, Only, SameOrder
<1> QED BY <1>1, <1>2

(* Reservations may expire at any moment: only a ticket at the window, or     *)
(* served since, can have an order that was cancelled under it.               *)
THEOREM TicketsMatchOrdersOrExpired ==
    ASSUME StaffPatchOrders = FALSE
    PROVE  Spec => []TicketMatchesOrderOrExpired
<1> DEFINE Inv == \A t \in Ticket : Matches(t)
<1>1. Init => Inv
  BY DEF Init, Matches, AbsentEntry
<1>2. TypeOK /\ Inv /\ [Next]_vars => Inv'
  <2> SUFFICES ASSUME TypeOK, Inv, [Next]_vars, NEW u \in Ticket PROVE Matches(u)'
    OBVIOUS
  <2>1. CASE Rests
    BY <2>1, MatchesSame DEF Rests
  <2>2. ASSUME NEW t \in Ticket, Writes(t), u = t PROVE Matches(u)'
    BY <2>2, MatchesWritten
  <2>3. ASSUME NEW t \in Ticket, Writes(t), u # t PROVE Matches(u)'
    <3>1. entries'[u].status = entries[u].status /\ SameOrder(u)
      BY <2>3, OthersKeepOrder
    <3>2. Matches(u)
      OBVIOUS
    <3> QED BY <3>1, <3>2 DEF SameOrder, Matches, Open, Fulfilled, Revoked
  <2> QED BY <2>1, <2>2, <2>3, StepKinds
<1>3. Inv => TicketMatchesOrderOrExpired
  BY DEF Matches, TicketMatchesOrderOrExpired
<1> HIDE DEF Inv
<1> QED BY <1>1, <1>2, <1>3, TypeCorrect, PTL DEF Spec

(* Nothing expires: a ticket in the line or at the window has its order, one  *)
(* that was served has been paid out of its reservation, one that left has    *)
(* given it back.                                                             *)
THEOREM TicketsMatchOrders ==
    ASSUME StaffPatchOrders = FALSE, ReservationsExpire = FALSE
    PROVE  Spec => []TicketMatchesOrder
<1> DEFINE One(t) == /\ entries[t].status \in ActiveStatus => Open(t)
                     /\ entries[t].status = "served" => Fulfilled(t)
                     /\ entries[t].status \in {"cancelled", "no_show"} => Revoked(t)
           Inv == \A t \in Ticket : One(t)
<1>1. Init => Inv
  BY DEF Init, AbsentEntry, ActiveStatus
<1>2. TypeOK /\ Inv /\ [Next]_vars => Inv'
  <2> SUFFICES ASSUME TypeOK, Inv, [Next]_vars, NEW u \in Ticket PROVE One(u)'
    OBVIOUS
  <2>0. One(u)
    OBVIOUS
  <2>1. CASE Rests
    BY <2>0, <2>1 DEF Rests, Open, Fulfilled, Revoked
  <2>2. ASSUME NEW t \in Ticket, Writes(t), u = t PROVE One(u)'
    <3>1. CASE Arrives(t)
      BY <2>2, <3>1 DEF Arrives, Open, LiveOrder, ActiveStatus
    <3>2. CASE Extends(t)
      BY <2>0, <2>2, <3>2 DEF Extends, Active, ActiveStatus, Open, LiveOrder
    <3>3. CASE Leaves(t)
      BY <2>0, <2>2, <3>3 DEF Leaves, OrderAfter, HoldAfter, Open, Revoked, LiveOrder,
                              ActiveStatus
    <3>4. CASE Skips(t) \/ Serves(t) \/ Defers(t) \/ Calls(t)
      BY <2>0, <2>2, <3>4 DEF Skips, Serves, Defers, Calls, SameOrder, Open, ActiveStatus
    <3>5. CASE Completes(t)
      BY <2>0, <2>2, <3>5 DEF Completes, OrderAfter, HoldAfter, Open, Fulfilled, LiveOrder,
                              ActiveStatus
    <3>6. ~ Expires(t) /\ ~ Patches(t)
      BY DEF Expires, Patches
    <3> QED BY <2>2, <3>1, <3>2, <3>3, <3>4, <3>5, <3>6 DEF Writes
  <2>3. ASSUME NEW t \in Ticket, Writes(t), u # t PROVE One(u)'
    <3>1. entries'[u].status = entries[u].status /\ SameOrder(u)
      BY <2>3, OthersKeepOrder
    <3> QED BY <2>0, <3>1 DEF SameOrder, Open, Fulfilled, Revoked
  <2> QED BY <2>1, <2>2, <2>3, StepKinds
<1>3. Inv => TicketMatchesOrder
  BY DEF TicketMatchesOrder
<1> HIDE DEF Inv
<1> QED BY <1>1, <1>2, <1>3, TypeCorrect, PTL DEF Spec

-----------------------------------------------------------------------------
(* One live order for a customer.                                             *)

Live(t) == /\ t \in Active /\ entries[t].owner \in Customer
           /\ entries[t].order \in LiveOrder

(* If nothing expires, an active ticket's order is not taken from it.         *)
OrderInv == ReservationsExpire = FALSE =>
               \A t \in Active : entries[t].order \in {"none"} \cup LiveOrder

LEMMA OrderStep == TypeOK /\ OrderInv /\ [Next]_vars => OrderInv'
<1> SUFFICES ASSUME TypeOK, OrderInv, [Next]_vars, ReservationsExpire = FALSE,
                    NEW u \in Active'
             PROVE  entries'[u].order \in {"none"} \cup LiveOrder
  BY DEF OrderInv
<1>0. u \in Ticket /\ entries'[u].status \in ActiveStatus
  BY DEF Active
<1>1. entries[u].status \in ActiveStatus => entries[u].order \in {"none"} \cup LiveOrder
  BY <1>0 DEF Active, OrderInv
<1>2. CASE Rests
  BY <1>0, <1>1, <1>2 DEF Rests
<1>3. ASSUME NEW t \in Ticket, Writes(t), u # t
      PROVE  entries'[u].order \in {"none"} \cup LiveOrder
  BY <1>0, <1>1, <1>3, OthersKeepOrder DEF SameOrder
<1>4. ASSUME Writes(u) PROVE entries'[u].order \in {"none"} \cup LiveOrder
  BY <1>0, <1>1, <1>4
  DEF Writes, Arrives, Extends, Leaves, Skips, Serves, Completes, Defers, Calls, Expires,
      Patches, SameOrder, LiveOrder, ActiveStatus
<1> QED BY <1>0, <1>2, <1>3, <1>4, StepKinds

(* A ticket with a live order is one that had it, or is new, and then its     *)
(* customer had none.                                                         *)
LEMMA LiveStep ==
    ASSUME TypeOK, OrderInv, StaffPatchOrders = FALSE \/ ReservationsExpire = FALSE,
           NEW t \in Ticket, Writes(t), Live(t)'
    PROVE  /\ entries'[t].owner = entries[t].owner /\ Live(t)
           \/ \A u \in Ticket : Live(u) => entries[u].owner # entries'[t].owner
<1>1. CASE Arrives(t)
  BY <1>1 DEF Arrives, Live, ActiveOrdersOf, LiveOrder
<1>2. CASE Patches(t)
  <2>1. /\ t \in Active /\ entries[t].order # "none"
        /\ ReservationsExpire = FALSE /\ entries'[t].owner = entries[t].owner
    BY <1>2 DEF Patches, Live, Active, InPlace, Fixed
  <2>2. entries[t].order \in LiveOrder
    BY <2>1 DEF OrderInv
  <2> QED BY <2>1, <2>2 DEF Live
<1>3. CASE ~ Arrives(t) /\ ~ Patches(t)
  BY <1>3 DEF Writes, Extends, Leaves, Skips, Serves, Completes, Defers, Calls, Expires,
              SameOrder, InPlace, Fixed, Live, Active, LiveOrder, OrderAfter, ActiveStatus
<1> QED BY <1>1, <1>2, <1>3

(* A customer who books again extends the order there is, whatever was served,*)
(* expired or patched in between, if not both expiry and patches are used.    *)
THEOREM OneLiveOrder ==
    ASSUME StaffPatchOrders = FALSE \/ ReservationsExpire = FALSE
    PROVE  Spec => []OneLiveOrderPerCustomer
<1> DEFINE Inv == \A t, u \in Ticket :
                     Live(t) /\ Live(u) /\ entries[t].owner = entries[u].owner => t = u
<1>1. Init => OrderInv /\ Inv
  BY DEF Init, OrderInv, Active, AbsentEntry, ActiveStatus, Live
<1>2. TypeOK /\ OrderInv /\ Inv /\ [Next]_vars => (OrderInv /\ Inv)'
  <2> SUFFICES ASSUME TypeOK, OrderInv, Inv, [Next]_vars PROVE Inv'
    BY OrderStep
  <2> SUFFICES ASSUME NEW t \in Ticket, NEW u \in Ticket, Live(t)', Live(u)',
                      entries'[t].owner = entries'[u].owner
               PROVE  t = u
    OBVIOUS
  <2>1. CASE Rests
    BY <2>1 DEF Rests, Live, Active
  <2>2. ASSUME NEW v \in Ticket, Writes(v), NEW w \in Ticket, w # v, Live(w)'
        PROVE  Live(w) /\ entries'[w].owner = entries[w].owner
    BY <2>2, OthersKeepOrder DEF Live, Active, SameOrder
  <2>3. ASSUME NEW v \in Ticket, Writes(v), v # t, v # u PROVE t = u
    BY <2>2, <2>3
  <2>4. ASSUME Writes(t), u # t PROVE FALSE
    <3>1. Live(u) /\ entries'[u].owner = entries[u].owner
      BY <2>2, <2>4
    <3> QED BY <2>4, <3>1, LiveStep
  <2>5. ASSUME Writes(u), u # t PROVE FALSE
    <3>1. Live(t) /\ entries'[t].owner = entries[t].owner
      BY <2>2, <2>5
    <3> QED BY <2>5, <3>1, LiveStep
  <2> QED BY <2>1, <2>3, <2>4, <2>5, StepKinds
<1>3. Inv => OneLiveOrderPerCustomer
  BY DEF OneLiveOrderPerCustomer, Live, Active
<1> HIDE DEF Inv
<1> QED BY <1>1, <1>2, <1>3, TypeCorrect, PTL DEF Spec

-----------------------------------------------------------------------------
(* Absences.                                                                  *)

(* The deferrals under way that will send a ticket back to the line: they     *)
(* have read a count below the limit.                                         *)
Pending(t) == {s \in Staff : /\ deferral[s] # NoDeferral /\ deferral[s].ticket = t
                             /\ ~ IsLastAbsence(deferral[s].absence)}

(* A request that begins has read the count as it is, so only those already   *)
(* under way can take the ticket over the limit: each of them once.           *)
AbsenceInv ==
    /\ \A s \in Staff :
          deferral[s] # NoDeferral => entries[deferral[s].ticket].status # "absent"
    /\ \A t \in Active :
          entries[t].absence + Cardinality(Pending(t)) < MaxAbsence + Cardinality(Staff) - 1

LEMMA PendingCount ==
    ASSUME IsFiniteSet(Staff), NEW t \in Ticket
    PROVE  /\ Cardinality(Pending(t)) \in Nat /\ Cardinality(Staff) \in Nat
           /\ Cardinality(Pending(t)) <= Cardinality(Staff)
           /\ IsFiniteSet(Pending(t))
BY FS_Subset, FS_CardinalityType DEF Pending

(* The same of the next state, and of requests that only end.                 *)
LEMMA PendingAfter ==
    ASSUME IsFiniteSet(Staff), NEW t \in Ticket
    PROVE  /\ Cardinality(Pending(t)') \in Nat
           /\ Cardinality(Pending(t)') <= Cardinality(Staff)
           /\ Pending(t)' \subseteq Pending(t)
                => Cardinality(Pending(t)') <= Cardinality(Pending(t))
<1>1. Pending(t)' \subseteq Staff /\ IsFiniteSet(Pending(t)')
  BY FS_Subset DEF Pending
<1> QED BY <1>1, PendingCount, FS_Subset, FS_CardinalityType

(* The end of a request, and the requests it leaves.                          *)
LEMMA EndedRequest ==
    ASSUME TypeOK, NEW s \in Staff, EndRequest(s)
    PROVE  /\ \A t \in Ticket : Pending(t)' = Pending(t) \ {s}
           /\ \A r \in Staff : deferral'[r] # NoDeferral => deferral'[r] = deferral[r]
<1>1. /\ deferral'[s] = NoDeferral
      /\ \A r \in Staff \ {s} : deferral'[r] = deferral[r]
  BY DEF EndRequest, TypeOK
<1>2. ASSUME NEW t \in Ticket PROVE Pending(t)' = Pending(t) \ {s}
  BY <1>1 DEF Pending, IsLastAbsence
<1> QED BY <1>1, <1>2

LEMMA AbsenceStep ==
    ASSUME IsFiniteSet(Staff), Staff # {}, TypeOK, AbsenceInv, [Next]_vars
    PROVE  AbsenceInv'
<1> DEFINE n == Cardinality(Staff)
<1>0. /\ MaxAbsence \in Nat \ {0}
      /\ n \in Nat /\ n >= 1
      /\ \A s \in Staff : deferral[s] # NoDeferral => deferral[s].ticket \in Ticket
      /\ \A t \in Ticket : entries[t].absence \in Nat
      /\ Active \subseteq Ticket
  BY QueueAssumption, DeferralTicket, FS_EmptySet, FS_CardinalityType
     DEF QueueAssumption, TypeOK, Entry, Active
<1>1. CASE Rests
  <2>1. entries' = entries /\ Active' = Active
    BY <1>1 DEF Rests, Active
  <2>2. CASE \E s \in Staff, t \in Ticket : BeginDefer(s, t)
    <3>1. PICK s \in Staff, t \in Ticket : BeginDefer(s, t)
      BY <2>2
    <3>2. /\ deferral'[s] = [ticket |-> t, absence |-> entries[t].absence]
          /\ \A r \in Staff \ {s} : deferral'[r] = deferral[r]
          /\ deferral[s] = NoDeferral /\ entries[t].status = "called"
      BY <3>1 DEF BeginDefer, TypeOK
    <3>3. deferral'[s].ticket = t /\ deferral'[s].absence = entries[t].absence
      BY <3>2
    <3>4. \A r \in Staff :
             deferral'[r] # NoDeferral => entries'[deferral'[r].ticket].status # "absent"
      BY <2>1, <3>2, <3>3 DEF AbsenceInv
    <3>5. ASSUME NEW u \in Active'
          PROVE  entries'[u].absence + Cardinality(Pending(u)') < MaxAbsence + n - 1
      <4>1. CASE u = t /\ ~ IsLastAbsence(entries[t].absence)
        <5>1. entries[t].absence + 1 < MaxAbsence
          BY <1>0, <4>1 DEF IsLastAbsence
        <5>2. Cardinality(Pending(t)') \in Nat /\ Cardinality(Pending(t)') <= n
          BY PendingAfter
        <5> QED BY <1>0, <2>1, <4>1, <5>1, <5>2
      <4>2. CASE ~ (u = t /\ ~ IsLastAbsence(entries[t].absence))
        <5>1. Pending(u)' = Pending(u)
          BY <3>2, <3>3, <4>2 DEF Pending, IsLastAbsence
        <5> QED BY <2>1, <3>5, <5>1 DEF AbsenceInv
      <4> QED BY <4>1, <4>2
    <3> QED BY <3>4, <3>5 DEF AbsenceInv
  <2>3. CASE \E s \in Staff : DeferFails(s)
    <3>1. PICK s \in Staff : EndRequest(s)
      BY <2>3 DEF DeferFails
    <3>2. \A t \in Active : Cardinality(Pending(t)') <= Cardinality(Pending(t))
      BY <1>0, <3>1, EndedRequest, PendingAfter
    <3>3. ASSUME NEW t \in Active
          PROVE  entries[t].absence + Cardinality(Pending(t)') < MaxAbsence + n - 1
      BY <1>0, <3>2, PendingCount, PendingAfter DEF AbsenceInv
    <3> QED BY <2>1, <3>1, <3>3, EndedRequest DEF AbsenceInv
  <2>4. CASE UNCHANGED deferral
    BY <2>1, <2>4 DEF AbsenceInv, Pending, IsLastAbsence
  <2> QED BY <1>1, <2>2, <2>3, <2>4
          DEF Rests, PenaltyExpires, CallNextTicket, AutoCallFirstRead, AutoCallNobody,
              UpdateQueue, DeleteQueue, Midnight, ResetCounter, vars
<1>2. ASSUME NEW t \in Ticket, Writes(t) PROVE AbsenceInv'
  <2>1. \A u \in Ticket \ {t} : /\ entries'[u].status = entries[u].status
                                /\ entries'[u].absence = entries[u].absence
    BY <1>2, OthersKeepOrder
  <2>2. CASE Defers(t)
    <3>1. PICK s \in Staff : /\ deferral[s] # NoDeferral /\ deferral[s].ticket = t
                             /\ ~ IsLastAbsence(deferral[s].absence)
                             /\ EndRequest(s)
      BY <2>2 DEF Defers
    <3>2. /\ entries'[t].absence = entries[t].absence + 1
          /\ entries'[t].status # "absent" /\ t \in Active
      BY <2>2 DEF Defers, Active, ActiveStatus
    <3>3. s \in Pending(t) /\ Pending(t)' = Pending(t) \ {s}
      BY <3>1, EndedRequest DEF Pending
    <3>4. Cardinality(Pending(t)') = Cardinality(Pending(t)) - 1
      BY <3>3, PendingCount, FS_RemoveElement
    <3>5. entries'[t].absence + Cardinality(Pending(t)') < MaxAbsence + n - 1
      BY <1>0, <3>2, <3>4, PendingCount DEF AbsenceInv
    <3>6. ASSUME NEW u \in Active', u # t
          PROVE  entries'[u].absence + Cardinality(Pending(u)') < MaxAbsence + n - 1
      <4>1. u \in Active /\ entries'[u].absence = entries[u].absence
        BY <2>1, <3>6 DEF Active
      <4>2. Cardinality(Pending(u)') <= Cardinality(Pending(u))
        BY <1>0, <3>1, <4>1, EndedRequest, PendingAfter
      <4> QED BY <1>0, <4>1, <4>2, PendingCount, PendingAfter DEF AbsenceInv
    <3>7. \A r \in Staff :
             deferral'[r] # NoDeferral => entries'[deferral'[r].ticket].status # "absent"
      BY <1>0, <2>1, <3>1, <3>2, EndedRequest DEF AbsenceInv
    <3> QED BY <3>5, <3>6, <3>7 DEF AbsenceInv
  <2>3. CASE Leaves(t)
    <3>1. entries'[t].status \notin ActiveStatus /\ entries'[t].status # "absent"
      BY <2>3 DEF Leaves, ActiveStatus
    <3>2. /\ \A u \in Ticket : Pending(u)' \subseteq Pending(u)
          /\ \A r \in Staff : deferral'[r] # NoDeferral => deferral'[r] = deferral[r]
      <4>1. CASE UNCHANGED deferral
        BY <4>1 DEF Pending, IsLastAbsence
      <4>2. CASE \E s \in Staff : EndRequest(s)
        BY <4>2, EndedRequest
      <4> QED BY <2>3, <4>1, <4>2 DEF Leaves
    <3>3. ASSUME NEW u \in Active'
          PROVE  entries'[u].absence + Cardinality(Pending(u)') < MaxAbsence + n - 1
      <4>1. u \in Active /\ entries'[u].absence = entries[u].absence
        BY <2>1, <3>1 DEF Active
      <4>2. Cardinality(Pending(u)') <= Cardinality(Pending(u))
        BY <1>0, <3>2, <4>1, PendingAfter
      <4> QED BY <1>0, <4>1, <4>2, PendingCount, PendingAfter DEF AbsenceInv
    <3>4. \A r \in Staff :
             deferral'[r] # NoDeferral => entries'[deferral'[r].ticket].status # "absent"
      BY <1>0, <2>1, <3>1, <3>2 DEF AbsenceInv
    <3> QED BY <3>3, <3>4 DEF AbsenceInv
  <2>4. CASE Arrives(t)
    <3>1. /\ entries'[t].absence = 0 /\ entries'[t].status = "waiting"
          /\ entries[t].status = "absent" /\ deferral' = deferral
      BY <2>4 DEF Arrives
    <3>2. Pending(t) = {} /\ \A u \in Ticket : Pending(u)' = Pending(u)
      BY <3>1 DEF AbsenceInv, Pending, IsLastAbsence
    <3>3. ASSUME NEW u \in Active'
          PROVE  entries'[u].absence + Cardinality(Pending(u)') < MaxAbsence + n - 1
      <4>1. CASE u = t
        <5>1. Cardinality(Pending(t)') = 0
          BY <3>2, FS_EmptySet
        <5> QED BY <1>0, <3>1, <4>1, <5>1
      <4>2. CASE u # t
        <5>1. u \in Active /\ entries'[u].absence = entries[u].absence
          BY <2>1, <3>3, <4>2 DEF Active
        <5> QED BY <1>0, <3>2, <5>1 DEF AbsenceInv
      <4> QED BY <4>1, <4>2
    <3>4. \A r \in Staff :
             deferral'[r] # NoDeferral => entries'[deferral'[r].ticket].status # "absent"
      BY <1>0, <2>1, <3>1 DEF AbsenceInv
    <3> QED BY <3>3, <3>4 DEF AbsenceInv
  <2>5. CASE ~ Defers(t) /\ ~ Leaves(t) /\ ~ Arrives(t)
    <3>1. entries'[t].absence = entries[t].absence /\ deferral' = deferral
      BY <1>2, <2>5 DEF Writes, Extends, Skips, Serves, Completes, Calls, Expires, Patches
    <3>2. /\ entries'[t].status \in ActiveStatus => entries[t].status \in ActiveStatus
          /\ entries'[t].status = "absent" => entries[t].status = "absent"
      BY <1>2, <2>5 DEF Writes, Extends, Skips, Serves, Completes, Calls, Expires, Patches,
                  ActiveStatus, ExpiredTicketStatus
    <3>3. \A u \in Ticket : Pending(u)' = Pending(u)
      BY <3>1 DEF Pending, IsLastAbsence
    <3>4. ASSUME NEW u \in Active'
          PROVE  entries'[u].absence + Cardinality(Pending(u)') < MaxAbsence + n - 1
      <4>1. u \in Active /\ entries'[u].absence = entries[u].absence
        BY <2>1, <3>1, <3>2 DEF Active
      <4> QED BY <1>0, <3>3, <4>1 DEF AbsenceInv
    <3>5. \A r \in Staff :
             deferral'[r] # NoDeferral => entries'[deferral'[r].ticket].status # "absent"
      BY <1>0, <2>1, <3>1, <3>2 DEF AbsenceInv
    <3> QED BY <3>4, <3>5 DEF AbsenceInv
  <2> QED BY <1>2, <2>2, <2>3, <2>4, <2>5
<1> QED BY <1>1, <1>2, StepKinds

(* However many requests to defer are in flight together, and however they    *)
(* interleave with the calls between them, they keep a ticket in the line for *)
(* at most one absence each, but the first, more than MaxAbsence allows: the  *)
(* count that decides is read before the queue lock.  With one at a time the  *)
(* limit is kept.                                                             *)
THEOREM AbsencesAreLimited ==
    ASSUME IsFiniteSet(Staff), Staff # {}
    PROVE  /\ Spec => []AbsencesOverrunLittle
           /\ Cardinality(Staff) = 1 => (Spec => []AbsencesBelowLimit)
<1>1. Init => AbsenceInv
  BY DEF Init, AbsenceInv, Active, AbsentEntry, ActiveStatus
<1>2. TypeOK /\ AbsenceInv /\ [Next]_vars => AbsenceInv'
  BY AbsenceStep
<1>3. TypeOK /\ AbsenceInv => AbsencesOverrunLittle
  <2> SUFFICES ASSUME TypeOK, AbsenceInv, NEW t \in Active
               PROVE  entries[t].absence < MaxAbsence + Cardinality(Staff) - 1
    BY DEF AbsencesOverrunLittle
  <2>1. t \in Ticket /\ entries[t].absence \in Nat /\ MaxAbsence \in Nat
    BY QueueAssumption DEF Active, TypeOK, Entry, QueueAssumption
  <2> QED BY <2>1, PendingCount DEF AbsenceInv
<1>4. Cardinality(Staff) = 1 /\ AbsencesOverrunLittle => AbsencesBelowLimit
  BY QueueAssumption DEF AbsencesOverrunLittle, AbsencesBelowLimit, QueueAssumption
<1>5. Spec => []AbsencesOverrunLittle
  BY <1>1, <1>2, <1>3, TypeCorrect, PTL DEF Spec
<1>6. ASSUME Cardinality(Staff) = 1 PROVE Spec => []AbsencesBelowLimit
  <2>1. AbsencesOverrunLittle => AbsencesBelowLimit
    BY <1>4, <1>6
  <2> QED BY <1>5, <2>1, PTL
<1> QED BY <1>5, <1>6

-----------------------------------------------------------------------------
(* The window.                                                                *)

(* If nothing expires, the window stays taken until a transaction empties it, *)
(* and that one does not end before it has looked for the next ticket.        *)
THEOREM WindowIsNotIdle ==
    ASSUME ReservationsExpire = FALSE
    PROVE  Spec => []NoIdleWindow
<1>1. Init => NoIdleWindow
  BY DEF Init, NoIdleWindow, Waiting, WithStatus, AbsentEntry
<1>2. TypeOK /\ NoIdleWindow /\ [Next]_vars => NoIdleWindow'
  <2> SUFFICES ASSUME TypeOK, NoIdleWindow, [Next]_vars,
                      tx'.phase = 0, AtCounter' = {}, Waiting(entries)' # {}
               PROVE  \E t \in Ticket : Waiting(entries)' = {t} /\ entries'[t].absence > 0
    BY DEF NoIdleWindow
  <2>0. DOMAIN entries = Ticket /\ DOMAIN entries' = Ticket
    BY NextType DEF TypeOK
  <2>1. CASE Rests
    <3>1. AtCounter = {} /\ Waiting(entries) # {} /\ entries' = entries
      BY <2>1 DEF Rests, AtCounter
    <3>2. tx.phase = 0
      <4>1. ASSUME tx.phase = 1, AutoCallFirstRead PROVE FALSE
        BY <2>0, <3>1, <4>1 DEF AutoCallFirstRead, AutoCallReads, AtCounter, CounterStatus,
                                WithStatus, TypeOK, Tx
      <4>2. ASSUME tx.phase = 2, AutoCallNobody PROVE FALSE
        BY <2>0, <3>1, <4>2 DEF AutoCallNobody, AutoCallReads, AtCounter, CounterStatus,
                                WithStatus
      <4>3. CASE ~ AutoCallFirstRead /\ ~ AutoCallNobody
        BY <2>1, <4>3
        DEF Rests, PenaltyExpires, CallNextTicket, Lock, DeferFails, BeginDefer,
            UpdateQueue, DeleteQueue, Midnight, ResetCounter, vars
      <4>4. /\ AutoCallFirstRead => tx.phase = 1
            /\ AutoCallNobody => tx.phase = 2
        BY DEF AutoCallFirstRead, AutoCallNobody
      <4> QED BY <4>1, <4>2, <4>3, <4>4
    <3> QED BY <3>1, <3>2 DEF NoIdleWindow
  <2>2. ASSUME NEW t \in Ticket, Writes(t)
        PROVE  \E u \in Ticket : Waiting(entries)' = {u} /\ entries'[u].absence > 0
    <3>1. \A u \in Ticket \ {t} : /\ entries'[u].status = entries[u].status
                                  /\ entries'[u].absence = entries[u].absence
      BY <2>2, OthersKeepOrder
    <3>2. ~ Arrives(t) /\ ~ Extends(t) /\ ~ Leaves(t) /\ ~ Completes(t)
      BY DEF Arrives, Extends, Leaves, Completes
    <3>3. ~ Calls(t) /\ ~ Serves(t) /\ ~ Expires(t)
      BY DEF Calls, Serves, Expires, AtCounter, CounterStatus
    <3>4. CASE Defers(t)
      <4>1. Waiting(entries) = {} /\ entries'[t].status = "waiting"
        BY <3>4 DEF Defers
      <4>2. Waiting(entries)' = {t}
        BY <2>0, <3>1, <4>1 DEF Waiting, WithStatus
      <4>3. entries'[t].absence > 0
        BY <3>4 DEF Defers, TypeOK, Entry
      <4> QED BY <4>2, <4>3
    <3>5. CASE Skips(t) \/ Patches(t)
      <4>1. /\ entries'[t].status = entries[t].status
            /\ entries'[t].absence = entries[t].absence
            /\ tx' = tx
        BY <3>5 DEF Skips, Patches
      <4>2. Waiting(entries)' = Waiting(entries) /\ AtCounter' = AtCounter
        BY <2>0, <3>1, <4>1 DEF Waiting, WithStatus, AtCounter
      <4>3. PICK u \in Ticket : Waiting(entries) = {u} /\ entries[u].absence > 0
        BY <4>1, <4>2 DEF NoIdleWindow
      <4> QED BY <3>1, <4>1, <4>2, <4>3
    <3> QED BY <2>2, <3>2, <3>3, <3>4, <3>5 DEF Writes
  <2> QED BY <2>1, <2>2, StepKinds
<1> QED BY <1>1, <1>2, TypeCorrect, PTL DEF Spec

-----------------------------------------------------------------------------
(* Numbers.                                                                   *)

Made(t) == entries[t].status # "absent"

(* The counter is never behind the tickets of its date, and its date never    *)
(* behind a ticket's.  No ticket has the number of another of its day.        *)
NumbersInv ==
    /\ late = FALSE
    /\ queue.counterDay <= today
    /\ \A t \in Ticket : Made(t) =>
          \/ entries[t].day < queue.counterDay
          \/ entries[t].day = queue.counterDay /\ entries[t].number <= queue.counter
    /\ \A t, u \in Ticket :
          Made(t) /\ Made(u) /\ entries[t].day = entries[u].day
             /\ entries[t].number = entries[u].number => t = u

LEMMA NumberTypes ==
    ASSUME TypeOK
    PROVE  /\ queue.counter \in Nat /\ queue.counterDay \in Nat /\ today \in Nat
           /\ \A t \in Ticket : /\ entries[t].number \in Nat /\ entries[t].day \in Nat
                                /\ entries[t].priority \in Nat /\ entries[t].absence \in Nat
BY DEF TypeOK, QueueRow, Entry

(* What an arrival does: its number is the last of its day.                   *)
LEMMA ArrivalNumber ==
    ASSUME TypeOK, NumbersInv, NEW t \in Ticket, Arrives(t)
    PROVE  /\ late' = FALSE /\ entries'[t].day = today /\ queue'.counterDay = today
           /\ entries'[t].number = queue'.counter
           /\ queue'.counter \in Nat
           /\ \A u \in Ticket \ {t} :
                 Made(u) => \/ entries[u].day < today
                            \/ entries[u].day = today /\ entries[u].number < queue'.counter
<1>1. PICK date \in {today - 1, today} :
          /\ BookingDate(date)
          /\ entries'[t].day = date /\ entries'[t].number = NextNumber(date)
          /\ queue' = [queue EXCEPT !.counter = NextNumber(date), !.counterDay = date]
  BY DEF Arrives
<1>2. date = today /\ late' = FALSE
  BY <1>1 DEF BookingDate, NumbersInv
<1> DEFINE n == NextNumber(today)
<1>3. n = IF queue.counterDay = today THEN queue.counter + 1 ELSE 1
  BY DEF NextNumber
<1> HIDE DEF n
<1>4. queue'.counter = n /\ queue'.counterDay = today
  BY <1>1, <1>2 DEF TypeOK, QueueRow, n
<1>5. n \in Nat
  BY <1>3, NumberTypes
<1>6. ASSUME NEW u \in Ticket \ {t}, Made(u)
      PROVE  \/ entries[u].day < today
             \/ entries[u].day = today /\ entries[u].number < n
  BY <1>3, <1>6, NumberTypes DEF NumbersInv
<1> QED BY <1>1, <1>2, <1>4, <1>5, <1>6 DEF n

LEMMA NumbersStep ==
    ASSUME LateBookings = FALSE, TypeOK, NumbersInv, [Next]_vars
    PROVE  NumbersInv'
<1>0. TypeOK'
  BY NextType
<1>1. ASSUME NEW t \in Ticket, Arrives(t) PROVE NumbersInv'
  <2>1. \A u \in Ticket \ {t} : entries'[u] = entries[u]
    BY <1>1 DEF Arrives, Only
  <2>2. today' = today /\ entries'[t].status # "absent"
    BY <1>1 DEF Arrives
  <2>a. /\ late' = FALSE /\ entries'[t].day = today /\ queue'.counterDay = today
        /\ entries'[t].number = queue'.counter
        /\ queue'.counter \in Nat
        /\ \A u \in Ticket \ {t} :
              Made(u) => \/ entries[u].day < today
                         \/ entries[u].day = today /\ entries[u].number < queue'.counter
    BY <1>1, ArrivalNumber
  <2>3. late' = FALSE /\ queue'.counterDay <= today'
    BY <2>2, <2>a, NumberTypes
  <2>4. ASSUME NEW u \in Ticket, Made(u)'
        PROVE  \/ entries'[u].day < queue'.counterDay
               \/ entries'[u].day = queue'.counterDay /\ entries'[u].number <= queue'.counter
    <3>1. CASE u = t
      BY <2>a, <3>1
    <3>2. CASE u # t
      <4>1. entries'[u] = entries[u] /\ Made(u)
        BY <2>1, <2>4, <3>2 DEF Made
      <4> QED BY <2>a, <3>2, <4>1, NumberTypes
    <3> QED BY <3>1, <3>2
  <2>5. ASSUME NEW u \in Ticket, NEW v \in Ticket, Made(u)', Made(v)',
               entries'[u].day = entries'[v].day, entries'[u].number = entries'[v].number
        PROVE  u = v
    <3>1. ASSUME NEW w \in Ticket, w # t, Made(w)',
                 entries'[w].day = entries'[t].day, entries'[w].number = entries'[t].number
          PROVE  FALSE
      <4>1. entries'[w] = entries[w] /\ Made(w)
        BY <2>1, <3>1 DEF Made
      <4> QED BY <2>a, <3>1, <4>1, NumberTypes
    <3>2. CASE u # t /\ v # t
      BY <2>1, <2>5, <3>2 DEF NumbersInv, Made
    <3> QED BY <2>5, <3>1, <3>2
  <2> QED BY <2>3, <2>4, <2>5 DEF NumbersInv
<1>2. ASSUME NEW t \in Ticket, Writes(t), ~ Arrives(t) PROVE NumbersInv'
  <2>1. queue' = queue /\ today' = today /\ late' = late
    BY <1>2 DEF Writes, Extends, Leaves, Skips, Serves, Completes, Defers, Calls, Expires,
                Patches, QueueStays
  <2>2. \A u \in Ticket : entries'[u].day = entries[u].day /\ entries'[u].number = entries[u].number
    <3>1. CASE Defers(t)
      BY <3>1 DEF Defers, Fixed
    <3>2. CASE ~ Defers(t)
      BY <1>2, <3>2 DEF Writes, Extends, Leaves, Skips, Serves, Completes, Calls, Expires,
                Patches, Only, InPlace, Fixed
    <3> QED BY <3>1, <3>2
  <2>3. \A u \in Ticket : Made(u)' => Made(u)
    <3>1. \A u \in Ticket \ {t} : Made(u)' => Made(u)
      BY <1>2, OthersKeepOrder DEF Made
    <3>2. Made(t)' => Made(t)
      BY <1>2 DEF Writes, Extends, Leaves, Skips, Serves, Completes, Defers, Calls, Expires,
                  Patches, Made, Active, ActiveStatus, ExpiredTicketStatus
    <3> QED BY <3>1, <3>2
  <2> QED BY <2>1, <2>2, <2>3 DEF NumbersInv
<1>3. CASE Rests
  <2>1. entries' = entries
    BY <1>3 DEF Rests
  <2>2. CASE Midnight
    <3>1. late' = FALSE /\ today' = today + 1 /\ queue' = queue
      BY <2>2 DEF Midnight
    <3>2. queue'.counterDay <= today'
      BY <3>1, NumberTypes DEF NumbersInv
    <3> QED BY <2>1, <3>1, <3>2 DEF NumbersInv, Made
  <2>3. CASE ResetCounter
    <3>1. /\ queue'.counter = 0 /\ queue'.counterDay = today /\ queue.counterDay # today
          /\ today' = today /\ late' = late
      BY <2>3 DEF ResetCounter, NeedsReset, TypeOK, QueueRow
    <3> QED BY <2>1, <3>1, NumberTypes DEF NumbersInv, Made
  <2>4. CASE ~ Midnight /\ ~ ResetCounter
    <3>1. /\ queue'.counter = queue.counter /\ queue'.counterDay = queue.counterDay
          /\ today' = today /\ late' = late
      BY <1>3, <2>4 DEF Rests, PenaltyExpires, CallNextTicket, DeferFails, BeginDefer,
                        AutoCallFirstRead, AutoCallNobody, UpdateQueue, DeleteQueue, vars,
                        TypeOK, QueueRow
    <3> QED BY <2>1, <3>1 DEF NumbersInv, Made
  <2> QED BY <2>2, <2>3, <2>4
<1> QED BY <1>1, <1>2, <1>3, StepKinds

LEMMA NumbersInvariant == ASSUME LateBookings = FALSE PROVE Spec => []NumbersInv
<1>1. Init => NumbersInv
  BY DEF Init, NumbersInv, Made, AbsentEntry
<1>2. TypeOK /\ NumbersInv /\ [Next]_vars => NumbersInv'
  BY NumbersStep
<1> QED BY <1>1, <1>2, TypeCorrect, PTL DEF Spec

(* With bookings that end after the midnight they began before: rows are made *)
(* one after the other and never carry a date to come; while they are in      *)
(* turn, the counter is of the date of the last ones and not behind them.     *)
TurnInv ==
    /\ queue.counterDay <= today
    /\ \A t \in Ticket : Made(t) => entries[t].day <= today
    /\ \A t, u \in Ticket : t < u /\ Made(u) => Made(t)
    /\ InTurn => \A t \in Ticket : Made(t) /\ entries[t].day = today =>
          queue.counterDay = today /\ entries[t].number <= queue.counter

LEMMA TurnArrival ==
    ASSUME TypeOK, TurnInv, NEW t \in Ticket, Arrives(t)
    PROVE  TurnInv'
<1>1. PICK date \in {today - 1, today} :
          /\ BookingDate(date)
          /\ entries'[t].day = date /\ entries'[t].number = NextNumber(date)
          /\ queue' = [queue EXCEPT !.counter = NextNumber(date), !.counterDay = date]
  BY DEF Arrives
<1>2. queue'.counterDay = date /\ queue'.counter = NextNumber(date)
  BY <1>1 DEF TypeOK, QueueRow
<1>3. /\ \A u \in Ticket : u < t => Made(u)
      /\ \A u \in Ticket \ {t} : entries'[u] = entries[u]
      /\ ~ Made(t) /\ Made(t)' /\ today' = today
  BY DEF Arrives, NewRow, Only, Made, Ticket
<1>4. \A u \in Ticket : Made(u) => u < t
  BY <1>3 DEF TurnInv, Ticket
<1>5. \A u \in Ticket \ {t} : Made(u)' <=> Made(u)
  BY <1>3 DEF Made
<1>6. ASSUME InTurn' PROVE InTurn
  <2> SUFFICES ASSUME NEW u \in Ticket, NEW v \in Ticket, u < v, Made(v)
               PROVE  entries[u].day <= entries[v].day
    BY DEF InTurn, Made
  <2>1. Made(u) /\ u # t /\ v # t
    BY <1>3 DEF TurnInv
  <2>2. Made(v)'
    BY <1>5, <2>1
  <2> QED BY <1>3, <1>6, <2>1, <2>2 DEF InTurn, Made
<1>7. \A u \in Ticket : Made(u)' => u = t \/ Made(u)
  BY <1>5
<1>8. CASE date = today
  <2>1. ASSUME InTurn', NEW u \in Ticket, Made(u)', entries'[u].day = today
        PROVE  entries'[u].number <= queue'.counter
    <3>1. CASE u = t
      BY <1>1, <1>2, <1>8, <3>1, NumberTypes DEF NextNumber
    <3>2. CASE u # t
      <4>1. queue.counterDay = today /\ entries[u].number <= queue.counter
        BY <1>3, <1>6, <1>7, <2>1, <3>2 DEF TurnInv
      <4>2. queue'.counter = queue.counter + 1
        BY <1>2, <1>8, <4>1 DEF NextNumber
      <4> QED BY <1>3, <3>2, <4>1, <4>2, NumberTypes
    <3> QED BY <3>1, <3>2
  <2> QED BY <1>1, <1>2, <1>3, <1>5, <1>4, <1>8, <2>1, NumberTypes DEF TurnInv
<1>9. CASE date # today
  <2>1. date = today - 1 /\ date <= today /\ date < today
    BY <1>1, <1>9, NumberTypes
  <2>2. ASSUME InTurn', NEW u \in Ticket, Made(u)', entries'[u].day = today PROVE FALSE
    <3>1. u # t
      BY <1>1, <1>9, <2>2
    <3>2. u < t
      BY <1>4, <1>7, <2>2, <3>1
    <3>3. entries'[u].day <= entries'[t].day
      BY <1>3, <2>2, <3>2 DEF InTurn, Made
    <3> QED BY <1>1, <2>1, <2>2, <3>3, NumberTypes
  <2> QED BY <1>1, <1>2, <1>3, <1>5, <1>4, <2>1, <2>2, NumberTypes DEF TurnInv
<1> QED BY <1>8, <1>9

LEMMA TurnStep ==
    ASSUME TypeOK, TurnInv, [Next]_vars
    PROVE  TurnInv'
<1>1. ASSUME NEW t \in Ticket, Writes(t), ~ Arrives(t) PROVE TurnInv'
  <2>1. queue' = queue /\ today' = today
    BY <1>1 DEF Writes, Extends, Leaves, Skips, Serves, Completes, Defers, Calls, Expires,
                Patches, QueueStays
  <2>2. \A u \in Ticket : entries'[u].day = entries[u].day /\ entries'[u].number = entries[u].number
    <3>1. CASE Defers(t)
      BY <3>1 DEF Defers, Fixed
    <3>2. CASE ~ Defers(t)
      BY <1>1, <3>2 DEF Writes, Extends, Leaves, Skips, Serves, Completes, Calls, Expires,
                Patches, Only, InPlace, Fixed
    <3> QED BY <3>1, <3>2
  <2>3. \A u \in Ticket : Made(u)' <=> Made(u)
    <3>1. \A u \in Ticket \ {t} : Made(u)' <=> Made(u)
      BY <1>1, OthersKeepOrder DEF Made
    <3>2. Made(t)' <=> Made(t)
      BY <1>1 DEF Writes, Extends, Leaves, Skips, Serves, Completes, Defers, Calls, Expires,
                  Patches, Made, Active, ActiveStatus, ExpiredTicketStatus
    <3> QED BY <3>1, <3>2
  <2>4. InTurn' => InTurn
    BY <2>2, <2>3 DEF InTurn, Made
  <2> QED BY <2>1, <2>2, <2>3, <2>4 DEF TurnInv
<1>2. CASE Rests
  <2>1. entries' = entries /\ (InTurn' => InTurn)
    BY <1>2 DEF Rests, InTurn
  <2>2. CASE Midnight
    <3>1. today' = today + 1 /\ queue' = queue
      BY <2>2 DEF Midnight
    <3>2. \A t \in Ticket : Made(t)' => entries'[t].day <= today'
      BY <2>1, <3>1, NumberTypes DEF TurnInv, Made
    <3>3. \A t \in Ticket : Made(t)' => entries'[t].day # today'
      BY <2>1, <3>1, NumberTypes DEF TurnInv, Made
    <3>4. queue'.counterDay <= today'
      BY <3>1, NumberTypes DEF TurnInv
    <3>5. \A t, u \in Ticket : t < u /\ Made(u)' => Made(t)'
      BY <2>1 DEF TurnInv, Made
    <3> QED BY <3>2, <3>3, <3>4, <3>5 DEF TurnInv
  <2>3. CASE ResetCounter
    <3>1. /\ queue'.counterDay = today /\ queue.counterDay # today /\ today' = today
      BY <2>3 DEF ResetCounter, NeedsReset, TypeOK, QueueRow
    <3> QED BY <2>1, <3>1, NumberTypes DEF TurnInv, Made
  <2>4. CASE ~ Midnight /\ ~ ResetCounter
    <3>1. /\ queue'.counter = queue.counter /\ queue'.counterDay = queue.counterDay
          /\ today' = today
      BY <1>2, <2>4 DEF Rests, PenaltyExpires, CallNextTicket, DeferFails, BeginDefer,
                        AutoCallFirstRead, AutoCallNobody, UpdateQueue, DeleteQueue, vars,
                        TypeOK, QueueRow
    <3> QED BY <2>1, <3>1 DEF TurnInv, Made
  <2> QED BY <2>2, <2>3, <2>4
<1> QED BY <1>1, <1>2, TurnArrival, StepKinds

(* The number the counter hands out next is free, whatever the order of       *)
(* bookings, resets and midnights, unless a booking of yesterday set the      *)
(* counter back.                                                              *)
THEOREM NextNumberStaysFree == Spec => []NextNumberIsFree
<1>1. Init => TurnInv
  BY DEF Init, TurnInv, Made, AbsentEntry
<1>2. TypeOK /\ TurnInv /\ [Next]_vars => TurnInv'
  BY TurnStep
<1>3. TypeOK /\ TurnInv => NextNumberIsFree
  BY NumberTypes DEF TurnInv, Made, NextNumberIsFree, NumberIsFree, NextNumber
<1> QED BY <1>1, <1>2, <1>3, TypeCorrect, PTL DEF Spec

-----------------------------------------------------------------------------
(* First come, first served.                                                  *)

(* A ticket in the line that has not been called yet, and one that has been.  *)
Fresh(t) == entries[t].status = "waiting" /\ entries[t].absence = 0
Seen(t)  == \/ entries[t].status = "called"
            \/ entries[t].status = "waiting" /\ entries[t].absence > 0

(* Whoever was called came before those of the day who were not; and these    *)
(* are in the order in which they came.                                       *)
LineInv ==
    \A t, u \in Ticket : entries[t].day = entries[u].day =>
       /\ Seen(t) /\ Fresh(u) => entries[t].number <= entries[u].number
       /\ Fresh(t) /\ Fresh(u) /\ entries[t].number < entries[u].number
            => Before(entries[t], entries[u])

(* So the head of the line came first, be it fresh or a deferred one.         *)
LEMMA HeadCameFirst ==
    ASSUME TypeOK, LineInv, NEW t \in Ticket, Calls(t),
           NEW u \in Ticket, Fresh(u), entries[u].day = entries[t].day
    PROVE  entries[t].number <= entries[u].number
<1>1. /\ entries[t].number \in Nat /\ entries[u].number \in Nat
      /\ entries[t].absence \in Nat
  BY NumberTypes
<1>2. entries[t].status = "waiting" /\ ~ Before(entries[u], entries[t])
  BY DEF Calls, Fresh, Waiting, WithStatus, TypeOK
<1>3. CASE entries[t].absence = 0
  BY <1>1, <1>2, <1>3 DEF LineInv, Fresh
<1>4. CASE entries[t].absence > 0
  BY <1>2, <1>4 DEF LineInv, Seen
<1> QED BY <1>1, <1>3, <1>4

(* What a step does to rows it neither adds nor takes from the window.        *)
LEMMA LineSame ==
    ASSUME TypeOK, LineInv,
           \A u \in Ticket : /\ entries'[u].day = entries[u].day
                             /\ entries'[u].number = entries[u].number
                             /\ Seen(u)' => Seen(u)
                             /\ Fresh(u)' => Fresh(u),
           \A u, v \in Ticket : Fresh(u)' /\ Fresh(v)' /\ Before(entries[u], entries[v])
              => Before(entries'[u], entries'[v])
    PROVE  LineInv'
BY DEF LineInv

LEMMA LineStep ==
    ASSUME AllowSkip = FALSE, LateBookings = FALSE, TypeOK, NumbersInv, LineInv, [Next]_vars
    PROVE  LineInv'
<1>0. DOMAIN entries = Ticket
  BY DEF TypeOK
<1>1. CASE Rests
  BY <1>1 DEF Rests, LineInv, Seen, Fresh
<1>2. ASSUME NEW t \in Ticket, Arrives(t) PROVE LineInv'
  <2>1. /\ \A u \in Ticket \ {t} : entries'[u] = entries[u]
        /\ Fresh(t)' /\ ~ Seen(t)' /\ entries'[t].priority = 0
    BY <1>2 DEF Arrives, Only, Fresh, Seen
  <2>2. /\ entries'[t].day = today /\ entries'[t].number \in Nat
        /\ \A u \in Ticket \ {t} :
              Made(u) => entries[u].day < today \/ entries[u].number < entries'[t].number
    <3>1. /\ entries'[t].day = today /\ entries'[t].number = queue'.counter
          /\ queue'.counter \in Nat
          /\ \A u \in Ticket \ {t} :
                Made(u) => \/ entries[u].day < today
                           \/ entries[u].day = today /\ entries[u].number < queue'.counter
      BY <1>2, ArrivalNumber
    <3> QED BY <3>1
  <2>3. ASSUME NEW u \in Ticket \ {t}, Seen(u)' \/ Fresh(u)', entries'[u].day = entries'[t].day
        PROVE  entries'[u].number < entries'[t].number /\ Before(entries'[u], entries'[t])
    <3>1. entries'[u] = entries[u] /\ Made(u)
      BY <2>1, <2>3 DEF Seen, Fresh, Made
    <3>2. entries[u].number < entries'[t].number
      BY <2>2, <2>3, <3>1, NumberTypes
    <3> QED BY <2>1, <3>1, <3>2, NumberTypes DEF Before
  <2>4. ASSUME NEW u \in Ticket, NEW v \in Ticket, entries'[u].day = entries'[v].day,
               Seen(u)', Fresh(v)'
        PROVE  entries'[u].number <= entries'[v].number
    <3>1. u # t
      BY <2>1, <2>4
    <3>2. CASE v = t
      BY <2>2, <2>3, <2>4, <3>1, <3>2, <2>1, NumberTypes
    <3>3. CASE v # t
      BY <2>1, <2>4, <3>1, <3>3 DEF LineInv, Seen, Fresh
    <3> QED BY <3>2, <3>3
  <2>5. ASSUME NEW u \in Ticket, NEW v \in Ticket, entries'[u].day = entries'[v].day,
               Fresh(u)', Fresh(v)', entries'[u].number < entries'[v].number
        PROVE  Before(entries'[u], entries'[v])
    <3>1. CASE v = t
      BY <2>2, <2>3, <2>5, <3>1
    <3>2. CASE v # t /\ u # t
      BY <2>1, <2>5, <3>2 DEF LineInv, Fresh
    <3>3. CASE v # t /\ u = t
      <4>1. entries'[v].number < entries'[u].number
        BY <2>3, <2>5, <3>3
      <4>2. entries'[v].number \in Nat
        BY <2>1, <3>3, NumberTypes
      <4> QED BY <2>2, <2>5, <3>3, <4>1, <4>2
    <3> QED BY <3>1, <3>2, <3>3
  <2> QED BY <2>4, <2>5 DEF LineInv
<1>3. ASSUME NEW t \in Ticket, Calls(t) PROVE LineInv'
  <2>1. /\ \A u \in Ticket \ {t} : entries'[u] = entries[u]
        /\ entries'[t].day = entries[t].day /\ entries'[t].number = entries[t].number
        /\ ~ Fresh(t)'
    BY <1>3 DEF Calls, Only, InPlace, Fixed, Fresh
  <2>2. ASSUME NEW u \in Ticket, NEW v \in Ticket, entries'[u].day = entries'[v].day,
               Seen(u)', Fresh(v)'
        PROVE  entries'[u].number <= entries'[v].number
    <3>1. v # t /\ Fresh(v)
      BY <2>1, <2>2 DEF Fresh
    <3>2. CASE u = t
      BY <1>3, <2>1, <2>2, <3>1, <3>2, HeadCameFirst
    <3>3. CASE u # t
      BY <2>1, <2>2, <3>1, <3>3 DEF LineInv, Seen
    <3> QED BY <3>2, <3>3
  <2>3. ASSUME NEW u \in Ticket, NEW v \in Ticket, entries'[u].day = entries'[v].day,
               Fresh(u)', Fresh(v)', entries'[u].number < entries'[v].number
        PROVE  Before(entries'[u], entries'[v])
    BY <2>1, <2>3 DEF LineInv, Fresh
  <2> QED BY <2>2, <2>3 DEF LineInv
<1>4. ASSUME NEW t \in Ticket, Defers(t) PROVE LineInv'
  <2>1. \A u \in Ticket : entries'[u].day = entries[u].day /\ entries'[u].number = entries[u].number
    BY <1>4 DEF Defers, Fixed
  <2>2. entries[t].absence \in Nat
    BY NumberTypes
  <2>3. ~ Fresh(t)' /\ Seen(t)
    BY <1>4, <2>2 DEF Defers, Fresh, Seen
  <2>4. \A u \in Ticket : (Seen(u)' => Seen(u)) /\ (Fresh(u)' => Fresh(u))
    BY <1>4, <2>3 DEF Defers, Fresh, Seen
  <2>5. \A u, v \in Ticket : Fresh(u)' /\ Fresh(v)' /\ Before(entries[u], entries[v])
              => Before(entries'[u], entries'[v])
    BY <1>0, <1>4, <2>4 DEF Defers, Fresh, Waiting, WithStatus
  <2> QED BY <2>1, <2>4, <2>5, LineSame
<1>5. ASSUME NEW t \in Ticket, Writes(t), ~ Arrives(t), ~ Calls(t), ~ Defers(t)
      PROVE  LineInv'
  <2>1. /\ \A u \in Ticket \ {t} : entries'[u] = entries[u]
        /\ InPlace(t)
    BY <1>5 DEF Writes, Extends, Leaves, Skips, Serves, Completes, Expires, Patches, Only
  <2>2. /\ entries'[t].status \in {"waiting", "called"} => entries'[t].status = entries[t].status
        /\ entries'[t].status = "waiting" => entries'[t].absence = entries[t].absence
    BY <1>5 DEF Writes, Extends, Leaves, Skips, Serves, Completes, Expires, Patches,
                ExpiredTicketStatus
  <2>3. (Seen(t)' => Seen(t)) /\ (Fresh(t)' => Fresh(t))
    BY <2>2 DEF Seen, Fresh
  <2>4. \A u \in Ticket : /\ entries'[u].day = entries[u].day
                          /\ entries'[u].number = entries[u].number
                          /\ entries'[u].priority = entries[u].priority
                          /\ Seen(u)' => Seen(u)
                          /\ Fresh(u)' => Fresh(u)
    BY <2>1, <2>3 DEF InPlace, Fixed, Seen, Fresh
  <2>5. \A u, v \in Ticket : Before(entries[u], entries[v]) => Before(entries'[u], entries'[v])
    BY <2>4 DEF Before
  <2> QED BY <2>4, <2>5, LineSame
<1> QED BY <1>1, <1>2, <1>3, <1>4, <1>5, StepKinds

(* Who came first on a day is called first, for any number of tickets,        *)
(* deferrals and renumberings, if customers do not skip and no booking        *)
(* straddles midnight; a ticket that was absent has had its turn.             *)
THEOREM ServedInOrder ==
    ASSUME AllowSkip = FALSE, LateBookings = FALSE
    PROVE  Spec => FirstComeFirstServed
<1>1. Init => LineInv
  BY DEF Init, LineInv, Seen, Fresh, AbsentEntry
<1>2. TypeOK /\ NumbersInv /\ LineInv /\ [Next]_vars => LineInv'
  BY LineStep
<1>3. TypeOK /\ LineInv /\ [Next]_vars =>
        [\A t, u \in Ticket :
            /\ entries[t].status = "waiting" /\ entries'[t].status = "called"
            /\ entries[u].status = "waiting" /\ entries[u].absence = 0
            /\ entries[u].day = entries[t].day
            => entries[t].number <= entries[u].number]_vars
  <2> SUFFICES ASSUME TypeOK, LineInv, [Next]_vars, NEW t \in Ticket, NEW u \in Ticket,
                      entries[t].status = "waiting", entries'[t].status = "called",
                      Fresh(u), entries[u].day = entries[t].day
               PROVE  entries[t].number <= entries[u].number
    BY DEF Fresh
  <2>1. PICK v \in Ticket : Writes(v)
    BY StepKinds DEF Rests
  <2>2. v = t
    BY <2>1, OthersKeepOrder
  <2>3. Calls(t)
    BY <2>1, <2>2 DEF Writes, Arrives, Extends, Leaves, Skips, Serves, Completes, Defers,
                      Expires, Patches, ExpiredTicketStatus
  <2> QED BY <2>3, HeadCameFirst
<1>4. Spec => []LineInv
  BY <1>1, <1>2, TypeCorrect, NumbersInvariant, PTL DEF Spec
<1> QED BY <1>3, <1>4, TypeCorrect, PTL DEF Spec, FirstComeFirstServed

(* A deferral is exact, whatever else happens in the queue: the ticket gets   *)
(* DeferralSlots places behind the window, or the last, and nobody is passed  *)
(* by anybody else (deferCalledBySlots).                                      *)
THEOREM DeferralsAreExact == Spec => DeferralIsExact
<1>1. TypeOK /\ [Next]_vars =>
        [\A t \in Ticket :
            entries[t].status = "called" /\ entries'[t].status = "waiting" =>
                /\ Cardinality(Ahead(entries', t))
                      = MinOf(DeferralSlots, Cardinality(Waiting(entries)))
                /\ \A u, v \in Waiting(entries) :
                      Before(entries[u], entries[v])
                          => Before(entries'[u], entries'[v])]_vars
  <2> SUFFICES ASSUME TypeOK, [Next]_vars, NEW t \in Ticket,
                      entries[t].status = "called", entries'[t].status = "waiting"
               PROVE  /\ Cardinality(Ahead(entries', t))
                            = MinOf(DeferralSlots, Cardinality(Waiting(entries)))
                      /\ \A u, v \in Waiting(entries) :
                            Before(entries[u], entries[v])
                                => Before(entries'[u], entries'[v])
    OBVIOUS
  <2>1. PICK v \in Ticket : Writes(v)
    BY StepKinds DEF Rests
  <2>2. v = t
    BY <2>1, OthersKeepOrder
  <2>3. Defers(t)
    BY <2>1, <2>2 DEF Writes, Arrives, Extends, Leaves, Skips, Serves, Completes, Calls,
                      Expires, Patches, ExpiredTicketStatus
  <2> QED BY <2>3 DEF Defers
<1> QED BY <1>1, TypeCorrect, PTL DEF Spec, DeferralIsExact

-----------------------------------------------------------------------------
(* The stock.                                                                 *)

(* The units a row holds or has handed out.                                   *)
UnitsOf(row) == IF row.hold \in {"reserved", "consumed"} THEN row.qty ELSE 0

(* Only a reservation has units, and only a ticket has a reservation.         *)
HoldOK(row) == /\ row.status = "absent" => row.hold = "none"
               /\ row.hold = "none" => row.qty = 0

HoldInv == \A t \in Ticket : HoldOK(entries[t])

(* What goes off the shelf goes to one row, and the other way round.          *)
MovesUnits(t) == /\ Only(t) /\ HoldOK(entries'[t])
            /\ stock' + UnitsOf(entries'[t]) = stock + UnitsOf(entries[t])

SameUnits(u) == /\ entries'[u].hold = entries[u].hold
                /\ entries'[u].qty = entries[u].qty
                /\ entries'[u].status = "absent" => entries[u].status = "absent"

NothingMoves == stock' = stock /\ \A u \in Ticket : SameUnits(u)

LEMMA WithdrawUnits ==
    ASSUME TypeOK, HoldInv, NEW t \in Ticket, NEW status \in {"cancelled", "no_show"},
           NEW absence \in {0, 1}, Withdraw(t, status, absence)
    PROVE  MovesUnits(t)
<1> DEFINE count == entries[t].absence + absence
           order == OrderAfter(t, "cancelled")
           hold == HoldAfter(t, "released")
<1> HIDE DEF count, order, hold
<1>1. entries' = [entries EXCEPT ![t].status = status, ![t].absence = count,
                                 ![t].order = order, ![t].hold = hold]
  BY DEF Withdraw, count, order, hold
<1>2. entries[t] \in Entry /\ entries \in [Ticket -> Entry] /\ stock \in Nat
  BY DEF TypeOK
<1>3. Only(t)
  BY <1>1, <1>2 DEF Only
<1>4. /\ entries'[t].status = status /\ entries'[t].hold = hold
      /\ entries'[t].qty = entries[t].qty
  BY <1>1, <1>2 DEF Entry
<1>5. hold = IF entries[t].hold = "reserved" THEN "released" ELSE entries[t].hold
  BY DEF hold, HoldAfter
<1>6. HoldOK(entries[t]) /\ entries[t].qty \in Nat
  BY <1>2 DEF HoldInv, Entry
<1>7. HoldOK(entries'[t])
  BY <1>4, <1>5, <1>6 DEF HoldOK
<1>8. stock' = stock + IF entries[t].hold = "reserved" THEN entries[t].qty ELSE 0
  BY DEF Withdraw, Returned
<1>9. stock' + UnitsOf(entries'[t]) = stock + UnitsOf(entries[t])
  BY <1>2, <1>4, <1>5, <1>6, <1>8 DEF UnitsOf
<1> QED BY <1>3, <1>7, <1>9 DEF MovesUnits

LEMMA ArrivalUnits ==
    ASSUME TypeOK, HoldInv, NEW t \in Ticket, NEW owner, NEW priority, NEW order,
           NEW qty \in Nat, CreateEntry(t, owner, priority, order, qty),
           stock' = stock - qty
    PROVE  MovesUnits(t)
<1>1. PICK date \in {today - 1, today} :
        /\ NewRow(t)
        /\ entries' = [entries EXCEPT ![t] =
              [status |-> "waiting", owner |-> owner, number |-> NextNumber(date),
               day |-> date, priority |-> priority, absence |-> 0,
               order |-> order, hold |-> IF qty > 0 THEN "reserved" ELSE "none",
               qty |-> qty]]
  BY DEF CreateEntry
<1>2. entries[t] \in Entry /\ entries \in [Ticket -> Entry] /\ stock \in Nat
  BY DEF TypeOK
<1>3. Only(t)
  BY <1>1, <1>2 DEF Only
<1>4. /\ entries'[t].status = "waiting" /\ entries'[t].qty = qty
      /\ entries'[t].hold = IF qty > 0 THEN "reserved" ELSE "none"
  BY <1>1, <1>2
<1>5. UnitsOf(entries[t]) = 0
  BY <1>1 DEF NewRow, HoldInv, HoldOK, UnitsOf
<1>6. HoldOK(entries'[t]) /\ UnitsOf(entries'[t]) = qty
  BY <1>4 DEF HoldOK, UnitsOf
<1>7. stock' + UnitsOf(entries'[t]) = stock + UnitsOf(entries[t])
  BY <1>2, <1>5, <1>6
<1> QED BY <1>3, <1>6, <1>7 DEF MovesUnits

LEMMA ExtensionUnits ==
    ASSUME TypeOK, HoldInv, NEW c \in Customer, NEW q \in Quantity, ExtendOrder(c, q)
    PROVE  \E t \in Ticket : MovesUnits(t)
<1>1. PICK t \in ActiveOrdersOf(c) :
        /\ q > 0 => entries[t].hold \in {"none", "reserved"}
        /\ entries' = [entries EXCEPT ![t].hold = IF q > 0 THEN "reserved" ELSE @,
                                      ![t].qty  = @ + q]
  BY DEF ExtendOrder
<1>2. t \in Ticket /\ q \in Nat
  BY QueueAssumption DEF ActiveOrdersOf, Active, QueueAssumption
<1>3. entries[t] \in Entry /\ entries \in [Ticket -> Entry] /\ stock \in Nat
  BY <1>2 DEF TypeOK
<1>4. Only(t)
  BY <1>1, <1>2, <1>3 DEF Only
<1>5. /\ entries'[t].status = entries[t].status
      /\ entries'[t].hold = IF q > 0 THEN "reserved" ELSE entries[t].hold
      /\ entries'[t].qty = entries[t].qty + q
  BY <1>1, <1>2, <1>3 DEF Entry
<1>6. HoldOK(entries[t]) /\ entries[t].qty \in Nat /\ entries[t].status # "absent"
  BY <1>2, <1>3 DEF HoldInv, Entry, ActiveOrdersOf, Active, ActiveStatus
<1>7. HoldOK(entries'[t])
  BY <1>2, <1>5, <1>6 DEF HoldOK
<1>8. UnitsOf(entries'[t]) = UnitsOf(entries[t]) + q
  <2>1. CASE q = 0
    BY <1>5, <1>6, <2>1 DEF UnitsOf
  <2>2. CASE q > 0
    BY <1>1, <1>5, <1>6, <2>2 DEF UnitsOf, HoldOK
  <2> QED BY <1>2, <2>1, <2>2
<1>9. UnitsOf(entries[t]) \in Nat /\ stock' = stock - q
  BY <1>6 DEF UnitsOf, ExtendOrder
<1>10. stock' + UnitsOf(entries'[t]) = stock + UnitsOf(entries[t])
  BY <1>2, <1>3, <1>8, <1>9
<1> QED BY <1>2, <1>4, <1>7, <1>10 DEF MovesUnits

LEMMA CompletionUnits ==
    ASSUME TypeOK, HoldInv, NEW t \in Ticket, CompleteTicket(t)
    PROVE  MovesUnits(t)
<1> DEFINE order == OrderAfter(t, "completed")
           hold == HoldAfter(t, "consumed")
<1> HIDE DEF order, hold
<1>1. /\ entries' = [entries EXCEPT ![t].status = "served", ![t].order = order,
                                    ![t].hold = hold]
      /\ stock' = stock
  BY DEF CompleteTicket, order, hold
<1>2. entries[t] \in Entry /\ entries \in [Ticket -> Entry] /\ stock \in Nat
  BY DEF TypeOK
<1>3. Only(t)
  BY <1>1, <1>2 DEF Only
<1>4. /\ entries'[t].status = "served" /\ entries'[t].hold = hold
      /\ entries'[t].qty = entries[t].qty
  BY <1>1, <1>2 DEF Entry
<1>5. hold = IF entries[t].hold = "reserved" THEN "consumed" ELSE entries[t].hold
  BY DEF hold, HoldAfter
<1>6. HoldOK(entries'[t])
  BY <1>4, <1>5 DEF HoldInv, HoldOK
<1>7. UnitsOf(entries'[t]) = UnitsOf(entries[t])
  BY <1>4, <1>5 DEF UnitsOf
<1> QED BY <1>1, <1>3, <1>6, <1>7 DEF MovesUnits

LEMMA ExpiryUnits ==
    ASSUME TypeOK, HoldInv, NEW t \in Ticket, ExpireDue(t)
    PROVE  MovesUnits(t)
<1> DEFINE status == ExpiredTicketStatus(entries[t].status)
<1> HIDE DEF status
<1>1. entries' = [entries EXCEPT ![t].order = "cancelled", ![t].hold = "expired",
                                 ![t].status = status]
  BY DEF ExpireDue, status
<1>2. entries[t] \in Entry /\ entries \in [Ticket -> Entry] /\ stock \in Nat
  BY DEF TypeOK
<1>3. Only(t)
  BY <1>1, <1>2 DEF Only
<1>4. /\ entries'[t].status = status /\ entries'[t].hold = "expired"
      /\ entries'[t].qty = entries[t].qty /\ entries[t].qty \in Nat
  BY <1>1, <1>2 DEF Entry
<1>5. entries[t].hold = "reserved" /\ stock' = stock + entries[t].qty
  BY DEF ExpireDue, Returned
<1>6. entries[t].status # "absent"
  BY <1>5 DEF HoldInv, HoldOK
<1>7. status # "absent"
  BY <1>6 DEF status, ExpiredTicketStatus
<1>8. HoldOK(entries'[t])
  BY <1>4, <1>7 DEF HoldOK
<1>9. UnitsOf(entries[t]) = entries[t].qty /\ UnitsOf(entries'[t]) = 0
  BY <1>4, <1>5 DEF UnitsOf
<1>10. stock' + UnitsOf(entries'[t]) = stock + UnitsOf(entries[t])
  BY <1>2, <1>4, <1>5, <1>9
<1> QED BY <1>3, <1>8, <1>10 DEF MovesUnits

LEMMA DeferralUnits ==
    ASSUME TypeOK, NEW s \in Staff, DeferBack(s)
    PROVE  NothingMoves
<1> DEFINE t == deferral[s].ticket
<1>1. t \in Ticket /\ entries[t].status = "called"
  BY DeferralTicket DEF DeferBack
<1>2. entries' \in DeferCalledBySlots(entries, t, DeferralSlots)
  BY DEF DeferBack
<1>3. /\ \A u \in Ticket \ {t} :
            entries'[u] = [entries[u] EXCEPT !.priority = entries'[u].priority]
      /\ entries'[t] = [entries[t] EXCEPT !.status   = "waiting",
                                         !.priority = entries'[t].priority,
                                         !.absence  = @ + 1]
  BY <1>1, <1>2, DeferralRows
<1> HIDE DEF t
<1>4. ASSUME NEW u \in Ticket PROVE SameUnits(u)
  <2>1. entries[u] \in Entry
    BY DEF TypeOK
  <2> DEFINE p == entries'[u].priority
  <2> HIDE DEF p
  <2>2. CASE u = t
    <3>1. entries'[u] = [entries[u] EXCEPT !.status = "waiting", !.priority = p,
                                          !.absence  = @ + 1]
      BY <1>3, <2>2 DEF p
    <3> QED BY <2>1, <3>1 DEF Entry, SameUnits
  <2>3. CASE u # t
    <3>1. entries'[u] = [entries[u] EXCEPT !.priority = p]
      BY <1>3, <2>3 DEF p
    <3> QED BY <2>1, <3>1 DEF Entry, SameUnits
  <2> QED BY <2>2, <2>3
<1>5. stock' = stock
  BY DEF DeferBack
<1> QED BY <1>4, <1>5 DEF NothingMoves

LEMMA StockStep ==
    ASSUME TypeOK, HoldInv, [Next]_vars
    PROVE  NothingMoves \/ \E t \in Ticket : MovesUnits(t)
<1>a. entries \in [Ticket -> Entry]
  BY DEF TypeOK
<1>1. ASSUME NEW c \in Customer, JoinQueue(c) PROVE \E t \in Ticket : MovesUnits(t)
  <2>1. PICK t \in Ticket : CreateEntry(t, c, JoinPriority(c), "none", 0)
    BY <1>1 DEF JoinQueue
  <2>2. stock' = stock - 0
    BY <1>1 DEF JoinQueue, TypeOK
  <2> QED BY <2>1, <2>2, ArrivalUnits
<1>2. ASSUME NEW c \in Customer \cup {Guest}, NEW q \in Quantity, BookNewOrder(c, q)
      PROVE  \E t \in Ticket : MovesUnits(t)
  <2>1. PICK t \in Ticket : CreateEntry(t, c, 0, "pending", q)
    BY <1>2 DEF BookNewOrder
  <2>2. stock' = stock - q /\ q \in Nat
    BY <1>2, QueueAssumption DEF BookNewOrder, QueueAssumption
  <2> QED BY <2>1, <2>2, ArrivalUnits
<1>3. ASSUME NEW c \in Customer, NEW q \in Quantity, ExtendOrder(c, q)
      PROVE  \E t \in Ticket : MovesUnits(t)
  BY <1>3, ExtensionUnits
<1>4. ASSUME NEW t \in Ticket,
             CancelTicket(t) \/ StaffCancelEntry(t) \/ CancelByOrder(t) \/ NoShowTicket(t)
      PROVE  MovesUnits(t)
  BY <1>4, WithdrawUnits DEF CancelTicket, StaffCancelEntry, CancelByOrder, NoShowTicket
<1>5. ASSUME NEW s \in Staff, DeferNoShow(s) PROVE \E t \in Ticket : MovesUnits(t)
  <2> DEFINE t == deferral[s].ticket
  <2>1. t \in Ticket /\ Withdraw(t, "no_show", 1)
    BY <1>5, DeferralTicket DEF DeferNoShow
  <2> HIDE DEF t
  <2> QED BY <2>1, WithdrawUnits
<1>6. ASSUME NEW t \in Ticket, CompleteTicket(t) PROVE MovesUnits(t)
  BY <1>6, CompletionUnits
<1>7. ASSUME NEW t \in Ticket, ExpireDue(t) PROVE MovesUnits(t)
  BY <1>7, ExpiryUnits
<1>8. ASSUME NEW s \in Staff, DeferBack(s) PROVE NothingMoves
  BY <1>8, DeferralUnits
<1>9. ASSUME NEW t \in Ticket, SkipTicket(t) PROVE NothingMoves
  BY <1>a, <1>9 DEF SkipTicket, NothingMoves, SameUnits, Entry
<1>10. ASSUME NEW t \in Ticket, ServeTicket(t) PROVE NothingMoves
  BY <1>a, <1>10 DEF ServeTicket, NothingMoves, SameUnits, Entry
<1>11. ASSUME NEW t \in Ticket, PatchOrder(t) PROVE NothingMoves
  BY <1>a, <1>11 DEF PatchOrder, NothingMoves, SameUnits, Entry
<1>12. CASE AutoCallHead
  <2>1. PICK t \in Heads(entries) : entries' = [entries EXCEPT ![t].status = "called"]
    BY <1>12 DEF AutoCallHead, CallableHeads
  <2>2. t \in Ticket /\ entries[t].status = "waiting"
    BY <1>a, <2>1 DEF Heads, Ahead, Waiting, WithStatus
  <2> QED BY <1>12, <1>a, <2>1, <2>2 DEF AutoCallHead, NothingMoves, SameUnits, Entry
<1>13. ASSUME \/ \E c \in Customer : PenaltyExpires(c)
              \/ CallNextTicket
              \/ \E s \in Staff : DeferFails(s) \/ \E t \in Ticket : BeginDefer(s, t)
              \/ AutoCallFirstRead \/ AutoCallNobody
              \/ \E status \in QueueStatus, c \in Capacity : UpdateQueue(status, c)
              \/ DeleteQueue \/ Midnight \/ ResetCounter
              \/ UNCHANGED vars
       PROVE  NothingMoves
  <2>1. UNCHANGED <<entries, stock>>
    BY <1>13 DEF PenaltyExpires, CallNextTicket, DeferFails, BeginDefer, AutoCallFirstRead,
                 AutoCallNobody, UpdateQueue, DeleteQueue, Midnight, ResetCounter, vars
  <2> QED BY <2>1 DEF NothingMoves, SameUnits
<1> QED
  BY <1>1, <1>2, <1>3, <1>4, <1>5, <1>6, <1>7, <1>8, <1>9, <1>10, <1>11, <1>12, <1>13
  DEF Next, AutoCall, CommitDefer

Held == [t \in Ticket |-> UnitsOf(entries[t])]

LEMMA HeldType == TypeOK => Held \in [1 .. LastTicket -> Nat]
BY DEF TypeOK, Entry, Held, UnitsOf, Ticket

(* Every unit is on the shelf, reserved or consumed, whatever expires, is     *)
(* extended, cancelled or served in between.                                  *)
THEOREM StockIsConserved == Spec => []StockConserved
<1> DEFINE StockInv == HoldInv /\ stock + SumTo(LastTicket, Held) = InitialStock
<1>1. Init => StockInv
  <2> SUFFICES ASSUME Init PROVE StockInv
    OBVIOUS
  <2>1. \A t \in Ticket : entries[t] = AbsentEntry
    BY DEF Init
  <2>2. HoldInv /\ \A t \in Ticket : UnitsOf(entries[t]) = 0
    BY <2>1 DEF AbsentEntry, HoldInv, HoldOK, UnitsOf
  <2>3. Held \in [1 .. LastTicket -> Nat] /\ \A t \in 1 .. LastTicket : Held[t] = 0
    BY <2>2 DEF Held, Ticket
  <2>4. LastTicket \in Nat /\ InitialStock \in Nat
    BY QueueAssumption DEF QueueAssumption
  <2>5. SumTo(LastTicket, Held) = 0
    BY <2>3, <2>4, SumZero
  <2> QED BY <2>2, <2>4, <2>5 DEF Init
<1>2. TypeOK /\ TypeOK' /\ StockInv /\ [Next]_vars => StockInv'
  <2> SUFFICES ASSUME TypeOK, TypeOK', StockInv, [Next]_vars PROVE StockInv'
    OBVIOUS
  <2> DEFINE after == [t \in Ticket |-> UnitsOf(entries'[t])]
  <2>0. LastTicket \in Nat /\ stock \in Nat /\ stock' \in Nat /\ InitialStock \in Nat
    BY QueueAssumption DEF QueueAssumption, TypeOK
  <2>1. Held' = after
    BY DEF Held
  <2>2. Held \in [1 .. LastTicket -> Nat] /\ after \in [1 .. LastTicket -> Nat]
    <3>1. after \in [1 .. LastTicket -> Nat]
      BY DEF TypeOK, Entry, UnitsOf, Ticket
    <3> QED BY <3>1, HeldType
  <2>3. SumTo(LastTicket, Held) \in Nat /\ SumTo(LastTicket, after) \in Nat
    <3> HIDE DEF after
    <3> QED BY <2>0, <2>2, SumType
  <2>4. CASE NothingMoves
    <3>1. HoldInv'
      BY <2>4 DEF HoldInv, HoldOK, NothingMoves, SameUnits
    <3>2. \A t \in Ticket : UnitsOf(entries'[t]) = UnitsOf(entries[t])
      BY <2>4 DEF NothingMoves, SameUnits, UnitsOf
    <3>3. after = Held
      BY <3>2 DEF Held
    <3> HIDE DEF after
    <3> QED BY <2>1, <2>4, <3>1, <3>3 DEF NothingMoves
  <2>5. ASSUME NEW t \in Ticket, MovesUnits(t) PROVE StockInv'
    <3>1. HoldInv'
      BY <2>5 DEF MovesUnits, Only, HoldInv
    <3>2. /\ t \in 1 .. LastTicket
          /\ \A u \in 1 .. LastTicket \ {t} : after[u] = Held[u]
      BY <2>5 DEF MovesUnits, Only, Held, Ticket
    <3>3. SumTo(LastTicket, after) + Held[t] = SumTo(LastTicket, Held) + after[t]
      <4> HIDE DEF after
      <4> QED BY <2>0, <2>2, <3>2, SumChanged
    <3>4. stock' + after[t] = stock + Held[t]
      BY <2>5 DEF MovesUnits, Held
    <3> DEFINE x == SumTo(LastTicket, Held) y == SumTo(LastTicket, after)
               h == Held[t] a == after[t] p == stock q == stock' n == InitialStock
    <3>5. /\ p \in Nat /\ q \in Nat /\ x \in Nat /\ y \in Nat
          /\ h \in Nat /\ a \in Nat /\ n \in Nat
      BY <2>0, <2>2, <2>3, <3>2
    <3>6. y + h = x + a /\ q + a = p + h /\ p + x = n
      BY <3>3, <3>4
    <3>7. q + y = n
      <4> HIDE DEF x, y, h, a, p, q, n
      <4> QED BY <3>5, <3>6
    <3>8. stock' + SumTo(LastTicket, Held') = InitialStock
      BY <2>1, <3>7
    <3> QED BY <3>1, <3>8
  <2> QED BY <2>4, <2>5, StockStep
<1>3. StockInv => StockConserved
  BY DEF StockConserved, UnitsHeld, Held, UnitsOf
<1>4. Spec => []TypeOK
  BY TypeCorrect
<1> HIDE DEF StockInv
<1> QED BY <1>1, <1>2, <1>3, <1>4, PTL DEF Spec

(* Where the reservation of a ticket stands while nothing expires.            *)
GoodsOK(row) == /\ row.status \in ActiveStatus => row.hold \in {"none", "reserved"}
                /\ row.status = "served" => row.hold \in {"none", "consumed"}

GoodsInv == HoldInv /\ \A t \in Ticket : GoodsOK(entries[t])

LEMMA HoldStep == TypeOK /\ HoldInv /\ [Next]_vars => HoldInv'
<1> SUFFICES ASSUME TypeOK, HoldInv, [Next]_vars PROVE HoldInv'
  OBVIOUS
<1>1. CASE NothingMoves
  BY <1>1 DEF HoldInv, HoldOK, NothingMoves, SameUnits
<1>2. ASSUME NEW t \in Ticket, MovesUnits(t) PROVE HoldInv'
  BY <1>2 DEF MovesUnits, Only, HoldInv
<1> QED BY <1>1, <1>2, StockStep

LEMMA GoodsStep ==
    ASSUME ReservationsExpire = FALSE, TypeOK, TypeOK', GoodsInv, [Next]_vars
    PROVE  GoodsInv'
<1>1. HoldInv'
  BY HoldStep DEF GoodsInv
<1>2. ASSUME NEW u \in Ticket, entries'[u].status = entries[u].status, entries'[u].hold = entries[u].hold
      PROVE  GoodsOK(entries[u])'
  BY <1>2 DEF GoodsInv, GoodsOK
<1>3. CASE Rests
  <2>1. \A u \in Ticket : GoodsOK(entries[u])'
    BY <1>2, <1>3 DEF Rests
  <2> QED BY <1>1, <2>1 DEF GoodsInv
<1>4. ASSUME NEW t \in Ticket, Writes(t) PROVE \A u \in Ticket : GoodsOK(entries[u])'
  <2>1. ASSUME NEW u \in Ticket \ {t} PROVE GoodsOK(entries[u])'
    <3>1. CASE Defers(t)
      BY <1>2, <3>1 DEF Defers, SameOrder
    <3>2. CASE ~ Defers(t)
      <4>1. entries'[u] = entries[u]
        BY <1>4, <3>2 DEF Writes, Only, Arrives, Extends, Leaves, Skips, Serves, Completes,
                          Calls, Expires, Patches
      <4> QED BY <1>2, <4>1
    <3> QED BY <3>1, <3>2
  <2>2. GoodsOK(entries[t])'
    <3>0. GoodsOK(entries[t])
      BY DEF GoodsInv
    <3>1. CASE Arrives(t) \/ Leaves(t)
      BY <3>1 DEF Arrives, Leaves, GoodsOK, ActiveStatus
    <3>2. CASE Extends(t) \/ Skips(t) \/ Patches(t)
      BY <3>0, <3>2 DEF Extends, Skips, Patches, SameOrder, GoodsOK, Active, ActiveStatus
    <3>3. CASE Serves(t) \/ Defers(t) \/ Calls(t)
      BY <3>0, <3>3 DEF Serves, Defers, Calls, SameOrder, GoodsOK, ActiveStatus
    <3>4. CASE Completes(t)
      BY <3>0, <3>4 DEF Completes, HoldAfter, GoodsOK, ActiveStatus
    <3>5. ~ Expires(t)
      BY DEF Expires
    <3> QED BY <1>4, <3>1, <3>2, <3>3, <3>4, <3>5 DEF Writes
  <2> QED BY <2>1, <2>2
<1> QED BY <1>1, <1>3, <1>4, StepKinds DEF GoodsInv

(* What a served ticket handed out has left the stock, unless reservations    *)
(* expire: only then may a ticket lose its goods at the window                *)
(* (completeTicket's consumeOrder, expireDue).                                *)
THEOREM ServedGoodsLeaveStock ==
    ASSUME ReservationsExpire = FALSE
    PROVE  Spec => []ServedGoodsConsumed
<1>1. Init => GoodsInv
  BY DEF Init, AbsentEntry, GoodsInv, HoldInv, HoldOK, GoodsOK, ActiveStatus
<1>2. TypeOK /\ TypeOK' /\ GoodsInv /\ [Next]_vars => GoodsInv'
  BY GoodsStep
<1>3. TypeOK /\ GoodsInv => ServedGoodsConsumed
  BY DEF GoodsInv, HoldInv, HoldOK, GoodsOK, ServedGoodsConsumed
<1>4. Spec => []TypeOK
  BY TypeCorrect
<1> QED BY <1>1, <1>2, <1>3, <1>4, PTL DEF Spec

-----------------------------------------------------------------------------
(* The line as a sequence.                                                    *)

(* Rows whose tickets are all ordered: without ties.                          *)
Ordered(rows) ==
    /\ DOMAIN rows = Ticket
    /\ \A t \in Ticket : rows[t].priority \in Nat /\ rows[t].number \in Nat
    /\ \A t, u \in Waiting(rows) :
          t # u => Before(rows[t], rows[u]) \/ Before(rows[u], rows[t])

(* Everything that is counted is finite.                                      *)
LEMMA LineFinite ==
    ASSUME NEW rows, DOMAIN rows = Ticket
    PROVE  /\ Waiting(rows) \subseteq Ticket /\ IsFiniteSet(Waiting(rows))
           /\ Cardinality(Waiting(rows)) \in Nat
           /\ \A t : /\ Ahead(rows, t) \subseteq Waiting(rows) /\ IsFiniteSet(Ahead(rows, t))
                     /\ Position(rows, t) \in Nat
<1>1. Waiting(rows) \subseteq Ticket /\ \A t : Ahead(rows, t) \subseteq Waiting(rows)
  BY DEF Waiting, WithStatus, Ahead
<1>2. IsFiniteSet(Ticket)
  BY QueueAssumption, FS_Interval DEF QueueAssumption, Ticket
<1>3. IsFiniteSet(Waiting(rows))
  BY <1>1, <1>2, FS_Subset
<1>4. \A t : IsFiniteSet(Ahead(rows, t))
  BY <1>1, <1>3, FS_Subset
<1> QED BY <1>1, <1>3, <1>4, FS_CardinalityType DEF Position

(* Who is before another has a smaller position.                              *)
LEMMA PositionsGrow ==
    ASSUME NEW rows, Ordered(rows), NEW t \in Waiting(rows), NEW u \in Waiting(rows),
           Before(rows[t], rows[u])
    PROVE  Position(rows, t) < Position(rows, u)
<1>0. DOMAIN rows = Ticket /\ Waiting(rows) \subseteq Ticket
  BY LineFinite DEF Ordered
<1>1. Ahead(rows, t) \subseteq Ahead(rows, u)
  BY <1>0 DEF Ahead, Before, Ordered
<1>2. t \in Ahead(rows, u) /\ t \notin Ahead(rows, t)
  BY <1>0 DEF Ahead, Before, Ordered
<1>3. /\ IsFiniteSet(Ahead(rows, u)) /\ Position(rows, t) \in Nat /\ Position(rows, u) \in Nat
  BY <1>0, LineFinite
<1>4. Position(rows, t) <= Position(rows, u) /\ Position(rows, t) # Position(rows, u)
  BY <1>1, <1>2, <1>3, FS_Subset DEF Position
<1> QED BY <1>3, <1>4

(* Every ticket of the line has a place of its own and every place a ticket.  *)
LEMMA LinePlaces ==
    ASSUME NEW rows, Ordered(rows)
    PROVE  /\ LineOf(rows) \in Seq(Ticket) /\ Len(LineOf(rows)) = Cardinality(Waiting(rows))
           /\ \A i \in 1 .. Cardinality(Waiting(rows)) :
                /\ LineOf(rows)[i] \in Waiting(rows)
                /\ Position(rows, LineOf(rows)[i]) = i - 1
           /\ \A t \in Waiting(rows) :
                /\ Position(rows, t) \in 0 .. Cardinality(Waiting(rows)) - 1
                /\ LineOf(rows)[Position(rows, t) + 1] = t
<1> DEFINE W == Waiting(rows)
           n == Cardinality(W)
           p == [t \in W |-> Position(rows, t)]
<1>0. /\ DOMAIN rows = Ticket /\ W \subseteq Ticket /\ IsFiniteSet(W) /\ n \in Nat
      /\ \A t : /\ Ahead(rows, t) \subseteq W /\ IsFiniteSet(Ahead(rows, t))
                /\ Position(rows, t) \in Nat
  BY LineFinite DEF Ordered
<1>1. \A t \in W : Position(rows, t) \in 0 .. n - 1
  <2> SUFFICES ASSUME NEW t \in W PROVE Position(rows, t) \in 0 .. n - 1
    OBVIOUS
  <2>1. t \notin Ahead(rows, t)
    BY <1>0 DEF Ahead, Before, Ordered
  <2>2. Position(rows, t) <= n /\ Position(rows, t) # n
    BY <1>0, <2>1, FS_Subset DEF Position
  <2> QED BY <1>0, <2>2
<1>2. \A t, u \in W : Position(rows, t) = Position(rows, u) => t = u
  <2> SUFFICES ASSUME NEW t \in W, NEW u \in W, t # u
               PROVE  Position(rows, t) # Position(rows, u)
    OBVIOUS
  <2>1. Position(rows, t) < Position(rows, u) \/ Position(rows, u) < Position(rows, t)
    BY PositionsGrow DEF Ordered
  <2> QED BY <1>0, <2>1
<1>3. p \in Injection(W, 0 .. n - 1)
  BY <1>1, <1>2 DEF Injection, IsInjective
<1>4. IsFiniteSet(0 .. n - 1) /\ Cardinality(0 .. n - 1) = n
  BY <1>0, FS_Interval
<1>5. p \in Surjection(W, 0 .. n - 1)
  BY <1>3, <1>4, FS_Injection
<1>6. \A i \in 1 .. n : \E t \in W : Position(rows, t) = i - 1
  <2> SUFFICES ASSUME NEW i \in 1 .. n PROVE \E t \in W : Position(rows, t) = i - 1
    OBVIOUS
  <2>1. i - 1 \in 0 .. n - 1
    BY <1>0
  <2> QED BY <1>5, <2>1 DEF Surjection
<1>7. \A i \in 1 .. n : LineOf(rows)[i] = CHOOSE t \in W : Position(rows, t) = i - 1
  BY DEF LineOf
<1>8. \A i \in 1 .. n : LineOf(rows)[i] \in W /\ Position(rows, LineOf(rows)[i]) = i - 1
  BY <1>6, <1>7
<1>9. ASSUME NEW t \in W PROVE LineOf(rows)[Position(rows, t) + 1] = t
  <2>1. PICK i \in 1 .. n : i - 1 = Position(rows, t) /\ i = Position(rows, t) + 1
    BY <1>0, <1>1
  <2>2. LineOf(rows)[i] \in W /\ Position(rows, LineOf(rows)[i]) = i - 1
    BY <1>8
  <2>3. LineOf(rows)[i] = t
    BY <1>2, <2>1, <2>2
  <2> QED BY <2>1, <2>3
<1>10. LineOf(rows) \in [1 .. n -> Ticket]
  BY <1>0, <1>8 DEF LineOf
<1> QED BY <1>0, <1>1, <1>8, <1>9, <1>10

(* A sequence with every ticket at its place is the line.                     *)
LEMMA LineIs ==
    ASSUME NEW rows, Ordered(rows), NEW line \in Seq(Ticket),
           Len(line) = Cardinality(Waiting(rows)),
           \A i \in 1 .. Len(line) : line[i] \in Waiting(rows) /\ Position(rows, line[i]) = i - 1
    PROVE  LineOf(rows) = line
<1>1. \A i \in 1 .. Len(line) : LineOf(rows)[i] = line[i]
  <2> SUFFICES ASSUME NEW i \in 1 .. Len(line) PROVE LineOf(rows)[i] = line[i]
    OBVIOUS
  <2>1. LineOf(rows)[Position(rows, line[i]) + 1] = line[i]
    BY LinePlaces
  <2> QED BY <2>1
<1> QED BY <1>1, LinePlaces

(* The rows `long' have one waiting ticket more than `short', at position k,  *)
(* and the others stand in the same order.                                    *)
Inserts(short, long, t, k) ==
    /\ Ordered(short) /\ Ordered(long)
    /\ t \notin Waiting(short) /\ Waiting(long) = Waiting(short) \cup {t}
    /\ \A u, v \in Waiting(short) : Before(short[u], short[v]) <=> Before(long[u], long[v])
    /\ Position(long, t) = k

(* Those behind the new ticket move by one place.                             *)
LEMMA InsertMoves ==
    ASSUME NEW short, NEW long, NEW t, NEW k, Inserts(short, long, t, k)
    PROVE  /\ k \in 0 .. Cardinality(Waiting(short))
           /\ Cardinality(Waiting(long)) = Cardinality(Waiting(short)) + 1
           /\ \A u \in Waiting(short) :
                Position(long, u) = IF Position(short, u) < k THEN Position(short, u)
                                    ELSE Position(short, u) + 1
<1> DEFINE W == Waiting(short)
           n == Cardinality(W)
<1>0. /\ DOMAIN short = Ticket /\ DOMAIN long = Ticket /\ W \subseteq Ticket /\ IsFiniteSet(W)
      /\ n \in Nat /\ t \in Waiting(long) /\ t \in Ticket
      /\ \A u : /\ Ahead(short, u) \subseteq W /\ IsFiniteSet(Ahead(short, u))
                /\ Position(short, u) \in Nat
      /\ \A u : /\ Ahead(long, u) \subseteq Waiting(long) /\ IsFiniteSet(Ahead(long, u))
                /\ Position(long, u) \in Nat
      /\ Waiting(long) \subseteq Ticket
  BY LineFinite DEF Inserts, Ordered
<1>1. Cardinality(Waiting(long)) = n + 1
  <2>1. Waiting(long) = W \cup {t} /\ t \notin W
    BY DEF Inserts
  <2> HIDE DEF W
  <2> QED BY <1>0, <2>1, FS_AddElement
<1>2. k \in 0 .. n
  <2>1. Position(long, t) \in 0 .. Cardinality(Waiting(long)) - 1
    BY <1>0, LinePlaces DEF Inserts
  <2>2. k \in 0 .. Cardinality(Waiting(long)) - 1
    BY <2>1 DEF Inserts
  <2> HIDE DEF n
  <2> QED BY <1>0, <1>1, <2>2
<1>3. ASSUME NEW u \in W
      PROVE  /\ Before(long[u], long[t]) /\ ~ Before(long[t], long[u])
                  => Position(long, u) = Position(short, u) /\ Position(short, u) < k
             /\ Before(long[t], long[u]) 
                  => Position(long, u) = Position(short, u) + 1 /\ k <= Position(short, u)
  <2>1. ASSUME Before(long[u], long[t]), ~ Before(long[t], long[u])
        PROVE  Position(long, u) = Position(short, u) /\ Position(short, u) < k
    <3>1. Ahead(long, u) = Ahead(short, u)
      BY <2>1 DEF Ahead, Inserts
    <3>2. Position(long, u) = Position(short, u)
      BY <3>1 DEF Position
    <3>3. Position(long, u) < Position(long, t)
      BY <1>0, <2>1, PositionsGrow DEF Inserts
    <3> QED BY <3>2, <3>3 DEF Inserts
  <2>2. ASSUME Before(long[t], long[u])
        PROVE  Position(long, u) = Position(short, u) + 1 /\ k <= Position(short, u)
    <3>1. Ahead(long, u) = Ahead(short, u) \cup {t} /\ t \notin Ahead(short, u)
      BY <1>0, <2>2 DEF Ahead, Inserts
    <3>2. Position(long, u) = Position(short, u) + 1
      BY <1>0, <3>1, FS_AddElement DEF Position
    <3>3. Position(long, t) < Position(long, u)
      BY <1>0, <2>2, PositionsGrow DEF Inserts
    <3> QED BY <1>0, <3>2, <3>3 DEF Inserts
  <2> QED BY <2>1, <2>2
<1>4. ASSUME NEW u \in W
      PROVE  \/ Before(long[t], long[u])
             \/ Before(long[u], long[t]) /\ ~ Before(long[t], long[u])
  BY <1>0, <1>4 DEF Inserts, Ordered
<1>5. ASSUME NEW u \in W
      PROVE  Position(long, u) = IF Position(short, u) < k THEN Position(short, u)
                                    ELSE Position(short, u) + 1
  BY <1>0, <1>2, <1>3, <1>4
<1> QED BY <1>1, <1>2, <1>5

(* Sequences with an element more or less.                                    *)
LEMMA InsertedAt ==
    ASSUME NEW S, NEW s \in Seq(S), NEW e \in S, NEW k \in 1 .. Len(s) + 1
    PROVE  /\ Line!InsertAt(s, k, e) \in Seq(S)
           /\ Len(Line!InsertAt(s, k, e)) = Len(s) + 1
           /\ \A i \in 1 .. Len(s) + 1 :
                Line!InsertAt(s, k, e)[i] = IF i < k THEN s[i]
                                            ELSE IF i = k THEN e ELSE s[i - 1]
<1> DEFINE a == SubSeq(s, 1, k - 1)
           b == SubSeq(s, k, Len(s))
           c == a \o <<e>>
           d == c \o b
<1>0. Len(s) \in Nat /\ k \in Nat /\ k >= 1 /\ k <= Len(s) + 1
  OBVIOUS
<1>1. a \in Seq(S) /\ Len(a) = k - 1 /\ \A i \in 1 .. k - 1 : a[i] = s[i]
  OBVIOUS
<1>2. b \in Seq(S) /\ Len(b) = Len(s) - k + 1 /\ \A i \in 1 .. Len(s) - k + 1 : b[i] = s[k + i - 1]
  BY <1>0, SubSeqProperties
<1>3. Line!InsertAt(s, k, e) = d
  BY Zenon DEF Line!InsertAt
<1> HIDE DEF a, b
<1>4. c \in Seq(S) /\ Len(c) = k /\ \A i \in 1 .. k : c[i] = IF i < k THEN s[i] ELSE e
  BY <1>0, <1>1
<1> HIDE DEF c
<1>5. /\ d \in Seq(S) /\ Len(d) = Len(c) + Len(b)
      /\ \A i \in 1 .. Len(c) + Len(b) : d[i] = IF i <= Len(c) THEN c[i] ELSE b[i - Len(c)]
  BY <1>2, <1>4, ConcatProperties
<1> HIDE DEF d
<1>6. /\ Len(d) = Len(s) + 1
      /\ \A i \in 1 .. Len(s) + 1 : d[i] = IF i <= k THEN c[i] ELSE b[i - k]
  BY <1>0, <1>2, <1>4, <1>5
<1>7. ASSUME NEW i \in 1 .. Len(s) + 1
      PROVE  d[i] = IF i < k THEN s[i] ELSE IF i = k THEN e ELSE s[i - 1]
  <2>1. CASE i <= k
    BY <1>0, <1>4, <1>6, <2>1
  <2>2. CASE i > k
    <3>1. i - k \in 1 .. Len(s) - k + 1 /\ k + (i - k) - 1 = i - 1
      BY <1>0, <2>2
    <3>2. d[i] = b[i - k] /\ b[i - k] = s[i - 1]
      BY <1>0, <1>2, <1>6, <2>2, <3>1
    <3> QED BY <1>0, <2>2, <3>2
  <2> QED BY <1>0, <2>1, <2>2
<1> QED BY <1>3, <1>5, <1>6, <1>7

LEMMA RemovedAt ==
    ASSUME NEW S, NEW s \in Seq(S), NEW k \in 1 .. Len(s)
    PROVE  /\ Line!RemoveAt(s, k) \in Seq(S)
           /\ Len(Line!RemoveAt(s, k)) = Len(s) - 1
           /\ \A i \in 1 .. Len(s) - 1 :
                Line!RemoveAt(s, k)[i] = IF i < k THEN s[i] ELSE s[i + 1]
<1> DEFINE a == SubSeq(s, 1, k - 1)
           b == SubSeq(s, k + 1, Len(s))
           d == a \o b
<1>0. Len(s) \in Nat /\ k \in Nat /\ k >= 1 /\ k <= Len(s)
  OBVIOUS
<1>1. a \in Seq(S) /\ Len(a) = k - 1 /\ \A i \in 1 .. k - 1 : a[i] = s[i]
  OBVIOUS
<1>2. b \in Seq(S) /\ Len(b) = Len(s) - k /\ \A i \in 1 .. Len(s) - k : b[i] = s[k + i]
  OBVIOUS
<1>3. Line!RemoveAt(s, k) = d
  BY Zenon DEF Line!RemoveAt
<1> HIDE DEF a, b
<1>4. /\ d \in Seq(S) /\ Len(d) = Len(a) + Len(b)
      /\ \A i \in 1 .. Len(a) + Len(b) : d[i] = IF i <= Len(a) THEN a[i] ELSE b[i - Len(a)]
  BY <1>1, <1>2, ConcatProperties
<1> HIDE DEF d
<1>5. /\ Len(d) = Len(s) - 1
      /\ \A i \in 1 .. Len(s) - 1 : d[i] = IF i <= k - 1 THEN a[i] ELSE b[i - (k - 1)]
  BY <1>0, <1>1, <1>2, <1>4
<1>6. ASSUME NEW i \in 1 .. Len(s) - 1
      PROVE  d[i] = IF i < k THEN s[i] ELSE s[i + 1]
  <2>1. CASE i < k
    BY <1>0, <1>1, <1>5, <2>1
  <2>2. CASE i >= k
    <3>1. i - (k - 1) \in 1 .. Len(s) - k /\ k + (i - (k - 1)) = i + 1
      BY <1>0, <2>2
    <3>2. d[i] = b[i - (k - 1)] /\ b[i - (k - 1)] = s[i + 1]
      BY <1>0, <1>2, <1>5, <2>2, <3>1
    <3> QED BY <1>0, <2>2, <3>2
  <2> QED BY <1>0, <2>1, <2>2
<1> QED BY <1>3, <1>4, <1>5, <1>6

LEMMA InsertedLast ==
    ASSUME NEW S, NEW s \in Seq(S), NEW e \in S
    PROVE  Line!InsertAt(s, Len(s) + 1, e) = Append(s, e)
<1> DEFINE k == Len(s) + 1
           l == Line!InsertAt(s, k, e)
<1>1. k \in 1 .. Len(s) + 1 /\ k = Len(s) + 1 /\ Len(s) \in Nat
  OBVIOUS
<1> HIDE DEF k
<1>2. /\ l \in Seq(S) /\ Len(l) = Len(s) + 1
      /\ \A i \in 1 .. Len(s) + 1 : l[i] = IF i < k THEN s[i] ELSE IF i = k THEN e ELSE s[i - 1]
  BY <1>1, InsertedAt
<1> HIDE DEF l
<1>3. l = Append(s, e)
  BY <1>1, <1>2
<1> QED BY <1>3 DEF l, k

LEMMA RemovedFirst ==
    ASSUME NEW S, NEW s \in Seq(S), 1 \in 1 .. Len(s)
    PROVE  s # <<>> /\ Head(s) = s[1] /\ Line!RemoveAt(s, 1) = Tail(s)
<1> DEFINE l == Line!RemoveAt(s, 1)
<1>1. /\ l \in Seq(S) /\ Len(l) = Len(s) - 1
      /\ \A i \in 1 .. Len(s) - 1 : l[i] = IF i < 1 THEN s[i] ELSE s[i + 1]
  BY RemovedAt
<1> HIDE DEF l
<1>2. s # <<>> /\ Head(s) = s[1]
  OBVIOUS
<1>3. /\ Tail(s) \in Seq(S) /\ Len(Tail(s)) = Len(s) - 1
      /\ \A i \in 1 .. Len(s) - 1 : Tail(s)[i] = s[i + 1]
  BY <1>2, HeadTailProperties
<1>4. \A i \in 1 .. Len(s) - 1 : l[i] = Tail(s)[i]
  BY <1>1, <1>3
<1>5. l = Tail(s)
  BY <1>1, <1>3, <1>4
<1> QED BY <1>2, <1>5 DEF l

(* The lines of the rows `short' and `long'.                                  *)
LEMMA LineInserts ==
    ASSUME NEW short, NEW long, NEW t, NEW k, Inserts(short, long, t, k)
    PROVE  /\ LineOf(long) = Line!InsertAt(LineOf(short), k + 1, t)
           /\ k + 1 \in 1 .. Len(LineOf(long)) /\ LineOf(long)[k + 1] = t
           /\ LineOf(short) = Line!RemoveAt(LineOf(long), k + 1)
<1> DEFINE s == LineOf(short)
           l == Line!InsertAt(s, k + 1, t)
           n == Cardinality(Waiting(short))
<1>1. /\ k \in 0 .. n /\ Cardinality(Waiting(long)) = n + 1
      /\ \A u \in Waiting(short) :
            Position(long, u) = IF Position(short, u) < k THEN Position(short, u)
                                ELSE Position(short, u) + 1
  BY InsertMoves
<1>2. /\ s \in Seq(Ticket) /\ Len(s) = n
      /\ \A i \in 1 .. n : s[i] \in Waiting(short) /\ Position(short, s[i]) = i - 1
  BY LinePlaces DEF Inserts
<1>3. n \in Nat /\ t \in Ticket /\ t \in Waiting(long)
  BY LineFinite DEF Inserts, Ordered
<1>4. /\ l \in Seq(Ticket) /\ Len(l) = n + 1
      /\ \A i \in 1 .. n + 1 : l[i] = IF i < k + 1 THEN s[i]
                                      ELSE IF i = k + 1 THEN t ELSE s[i - 1]
  <2> HIDE DEF s, n
  <2>1. k + 1 \in 1 .. Len(s) + 1
    BY <1>1, <1>2, <1>3
  <2> HIDE DEF l
  <2>2. s \in Seq(Ticket) /\ Len(s) = n /\ t \in Ticket
    BY <1>2, <1>3
  <2>3. \A i \in 1 .. Len(s) + 1 : Line!InsertAt(s, k + 1, t)[i]
                                     = IF i < k + 1 THEN s[i]
                                       ELSE IF i = k + 1 THEN t ELSE s[i - 1]
    <3> DEFINE m == k + 1
    <3>1. m \in 1 .. Len(s) + 1
      BY <2>1
    <3> HIDE DEF m
    <3>2. \A i \in 1 .. Len(s) + 1 : Line!InsertAt(s, m, t)[i]
                                       = IF i < m THEN s[i] ELSE IF i = m THEN t ELSE s[i - 1]
      <4> SUFFICES ASSUME NEW i \in 1 .. Len(s) + 1
                   PROVE  Line!InsertAt(s, m, t)[i]
                            = IF i < m THEN s[i] ELSE IF i = m THEN t ELSE s[i - 1]
        OBVIOUS
      <4>1. s \in Seq(Ticket) /\ t \in Ticket
        BY <2>2
      <4> HIDE <2>2
      <4> QED BY <4>1, <3>1, InsertedAt
    <3> QED BY <3>2 DEF m
  <2>4. /\ Line!InsertAt(s, k + 1, t) \in Seq(Ticket)
        /\ Len(Line!InsertAt(s, k + 1, t)) = Len(s) + 1
    BY <2>1, <2>2, InsertedAt
  <2> QED BY <2>2, <2>3, <2>4 DEF l
<1> HIDE DEF s, l, n
<1>5. ASSUME NEW i \in 1 .. n + 1
      PROVE  l[i] \in Waiting(long) /\ Position(long, l[i]) = i - 1
  <2>1. CASE i <= k
    <3>1. i \in 1 .. n /\ i - 1 < k
      BY <1>1, <1>3, <2>1
    <3> QED BY <1>1, <1>2, <1>4, <2>1, <3>1 DEF Inserts
  <2>2. CASE i = k + 1
    <3>1. l[i] = t /\ Position(long, t) = k
      BY <1>1, <1>4, <2>2 DEF Inserts
    <3> QED BY <1>1, <1>3, <2>2, <3>1
  <2>3. CASE i > k + 1
    <3>1. i - 1 \in 1 .. n /\ ~ (i - 1 - 1 < k) /\ i - 1 - 1 + 1 = i - 1
      BY <1>1, <1>3, <2>3
    <3>2. l[i] = s[i - 1]
      BY <1>1, <1>4, <2>3
    <3> QED BY <1>1, <1>2, <3>1, <3>2 DEF Inserts
  <2> QED BY <1>1, <2>1, <2>2, <2>3
<1>6. LineOf(long) = l
  BY <1>1, <1>4, <1>5, LineIs DEF Inserts
<1>7. k + 1 \in 1 .. n + 1 /\ l[k + 1] = t
  BY <1>1, <1>3, <1>4
<1>8. s = Line!RemoveAt(l, k + 1)
  <2> DEFINE r == Line!RemoveAt(l, k + 1)
  <2>1. /\ r \in Seq(Ticket) /\ Len(r) = n
        /\ \A i \in 1 .. n : r[i] = IF i < k + 1 THEN l[i] ELSE l[i + 1]
    <3>1. Len(l) - 1 = n
      BY <1>3, <1>4
    <3> QED BY <1>4, <1>7, <3>1, RemovedAt
  <2> HIDE DEF r
  <2>2. \A i \in 1 .. n : r[i] = s[i]
    <3> SUFFICES ASSUME NEW i \in 1 .. n PROVE r[i] = s[i]
      OBVIOUS
    <3>1. i + 1 \in 1 .. n + 1 /\ i \in 1 .. n + 1 /\ i + 1 - 1 = i
      BY <1>3
    <3>2. CASE i <= k
      BY <1>1, <1>4, <2>1, <3>1, <3>2
    <3>3. CASE i > k
      BY <1>1, <1>4, <2>1, <3>1, <3>3
    <3> QED BY <1>1, <3>2, <3>3
  <2> QED BY <1>2, <2>1, <2>2 DEF r
<1> QED BY <1>4, <1>6, <1>7, <1>8 DEF s, l

(* Rows that wait in the same places are the same line.                       *)
LEMMA SameLine ==
    ASSUME NEW rows, NEW after, Ordered(rows), Ordered(after), Waiting(after) = Waiting(rows),
           \A u \in Waiting(rows) : /\ after[u].priority = rows[u].priority
                                    /\ after[u].number = rows[u].number
    PROVE  LineOf(after) = LineOf(rows)
<1>1. \A u \in Waiting(rows) : Position(after, u) = Position(rows, u)
  <2> SUFFICES ASSUME NEW u \in Waiting(rows) PROVE Position(after, u) = Position(rows, u)
    OBVIOUS
  <2>1. Ahead(after, u) = Ahead(rows, u)
    BY DEF Ahead, Before
  <2> QED BY <2>1 DEF Position
<1>2. /\ LineOf(rows) \in Seq(Ticket) /\ Len(LineOf(rows)) = Cardinality(Waiting(after))
      /\ \A i \in 1 .. Cardinality(Waiting(after)) :
            LineOf(rows)[i] \in Waiting(after) /\ Position(after, LineOf(rows)[i]) = i - 1
  BY <1>1, LinePlaces
<1> HIDE DEF LineOf
<1> QED BY <1>2, LineIs

-----------------------------------------------------------------------------
(* One business day: the order of the numbers is the order of arrival.        *)
OneDay == /\ today = 0 /\ late = FALSE
          /\ \A t \in Ticket : entries[t].day = 0

(* Without midnight the date stays.                                           *)
LEMMA DayStep ==
    ASSUME LastDay = 0, TypeOK, OneDay, [Next]_vars
    PROVE  OneDay'
<1>1. CASE Rests
  <2>1. ~ Midnight
    BY DEF Midnight, OneDay
  <2>2. UNCHANGED <<today, late>>
    BY <1>1, <2>1 DEF Rests, PenaltyExpires, CallNextTicket, DeferFails, BeginDefer,
                      AutoCallFirstRead, AutoCallNobody, UpdateQueue, DeleteQueue,
                      ResetCounter, vars
  <2> QED BY <1>1, <2>2 DEF Rests, OneDay
<1>2. ASSUME NEW v \in Ticket, Writes(v) PROVE OneDay'
  <2>1. CASE Arrives(v)
    <3>1. PICK date \in {today - 1, today} : BookingDate(date) /\ entries'[v].day = date
      BY <2>1 DEF Arrives
    <3>2. date = 0 /\ late' = FALSE
      BY <3>1 DEF BookingDate, OneDay
    <3> QED BY <2>1, <3>1, <3>2 DEF Arrives, Only, OneDay
  <2>2. CASE ~ Arrives(v)
    <3>1. \A u \in Ticket : Fixed(u)
      BY <1>2, <2>2 DEF Writes, Extends, Leaves, Skips, Serves, Completes, Defers, Calls,
                        Expires, Patches, Only, InPlace, Fixed
    <3>2. UNCHANGED <<today, late>>
      BY <1>2, <2>2 DEF Writes, Extends, Leaves, Skips, Serves, Completes, Defers, Calls,
                        Expires, Patches, QueueStays
    <3> QED BY <3>1, <3>2 DEF Fixed, OneDay
  <2> QED BY <2>1, <2>2
<1> QED BY <1>1, <1>2, StepKinds

(* On one day no two tickets tie.                                             *)
LEMMA DayOrdered == TypeOK /\ NumbersInv /\ OneDay => Ordered(entries)
<1> SUFFICES ASSUME TypeOK, NumbersInv, OneDay PROVE Ordered(entries)
  OBVIOUS
<1>1. DOMAIN entries = Ticket
  BY DEF TypeOK
<1>2. \A t \in Ticket : entries[t].priority \in Nat /\ entries[t].number \in Nat
  BY NumberTypes
<1>3. ASSUME NEW t \in Waiting(entries), NEW u \in Waiting(entries), t # u
      PROVE  Before(entries[t], entries[u]) \/ Before(entries[u], entries[t])
  <2>1. t \in Ticket /\ u \in Ticket /\ Made(t) /\ Made(u)
    BY <1>1 DEF Waiting, WithStatus, Made
  <2>2. entries[t].number # entries[u].number
    BY <1>3, <2>1 DEF NumbersInv, OneDay
  <2> QED BY <1>2, <2>1, <2>2 DEF Before
<1> QED BY <1>1, <1>2, <1>3 DEF Ordered

(* What the steps of the rows are to the line.                                *)
Wait(t)   == entries[t].status = "waiting"
AtDesk(t) == entries[t].status \in CounterStatus

LineKept   == LineOf(entries') = LineOf(entries)
WindowKept == AtCounter' = AtCounter

(* Nobody comes, goes or moves.                                               *)
LEMMA KeptLine ==
    ASSUME Ordered(entries), Ordered(entries'),
           \A u \in Ticket : Wait(u)' <=> Wait(u),
           \A u \in Ticket : Wait(u) => /\ entries'[u].priority = entries[u].priority
                                       /\ entries'[u].number = entries[u].number
    PROVE  LineKept
<1>1. Waiting(entries') = Waiting(entries) /\ Waiting(entries) \subseteq Ticket
  BY DEF Ordered, Waiting, WithStatus, Wait
<1>2. \A u \in Waiting(entries) : Wait(u)
  BY DEF Waiting, WithStatus, Wait
<1> QED BY <1>1, <1>2, SameLine DEF LineKept

LEMMA KeptWindow ==
    ASSUME \A u \in Ticket : AtDesk(u)' <=> AtDesk(u)
    PROVE  WindowKept
BY DEF WindowKept, AtCounter, AtDesk

LEMMA LeftWindow ==
    ASSUME NEW t \in Ticket, AtDesk(t), ~ AtDesk(t)', Only(t)
    PROVE  t \in AtCounter /\ AtCounter' = AtCounter \ {t}
BY DEF AtCounter, AtDesk, Only

(* The line holds those who wait.                                             *)
LEMMA LineSet ==
    ASSUME Ordered(entries), NEW t
    PROVE  Line!Contains(LineOf(entries), t) <=> t \in Waiting(entries)
<1>1. /\ Len(LineOf(entries)) = Cardinality(Waiting(entries))
      /\ \A i \in 1 .. Cardinality(Waiting(entries)) : LineOf(entries)[i] \in Waiting(entries)
      /\ \A u \in Waiting(entries) :
            /\ Position(entries, u) \in 0 .. Cardinality(Waiting(entries)) - 1
            /\ LineOf(entries)[Position(entries, u) + 1] = u
      /\ Cardinality(Waiting(entries)) \in Nat
  BY LinePlaces, LineFinite DEF Ordered
<1>2. ASSUME t \in Waiting(entries) PROVE Line!Contains(LineOf(entries), t)
  <2>1. Position(entries, t) + 1 \in 1 .. Cardinality(Waiting(entries))
    BY <1>1, <1>2
  <2> QED BY <1>1, <1>2, <2>1 DEF Line!Contains
<1> QED BY <1>1, <1>2 DEF Line!Contains

(* A ticket that is written alone, and waits before it or after it.           *)
LEMMA OneInserted ==
    ASSUME Ordered(entries), Ordered(entries'), NEW t \in Ticket, Only(t)
    PROVE  /\ ~ Wait(t) /\ Wait(t)'
                 => Inserts(entries, entries', t, Position(entries', t))
           /\ Wait(t) /\ ~ Wait(t)'
                 => Inserts(entries', entries, t, Position(entries, t))
<1>1. /\ \A u \in Ticket \ {t} : entries'[u] = entries[u]
      /\ DOMAIN entries = Ticket /\ DOMAIN entries' = Ticket
  BY DEF Only, Ordered
<1>2. ASSUME ~ Wait(t), Wait(t)'
      PROVE  Inserts(entries, entries', t, Position(entries', t))
  <2>1. t \notin Waiting(entries) /\ Waiting(entries') = Waiting(entries) \cup {t}
    BY <1>1, <1>2 DEF Waiting, WithStatus, Wait
  <2>2. \A u \in Waiting(entries) : entries'[u] = entries[u]
    BY <1>1, <2>1 DEF Waiting, WithStatus
  <2> QED BY <2>1, <2>2 DEF Inserts
<1>3. ASSUME Wait(t), ~ Wait(t)'
      PROVE  Inserts(entries', entries, t, Position(entries, t))
  <2>1. t \notin Waiting(entries') /\ Waiting(entries) = Waiting(entries') \cup {t}
    BY <1>1, <1>3 DEF Waiting, WithStatus, Wait
  <2>2. \A u \in Waiting(entries') : entries'[u] = entries[u]
    BY <1>1, <2>1 DEF Waiting, WithStatus
  <2> QED BY <2>1, <2>2 DEF Inserts
<1> QED BY <1>2, <1>3

LEMMA LeavesLine ==
    ASSUME Ordered(entries), Ordered(entries'), NEW t \in Ticket, Only(t),
           Wait(t), ~ Wait(t)', ~ AtDesk(t)'
    PROVE  Line!LeaveLine(t)
<1>1. Inserts(entries', entries, t, Position(entries, t))
  BY OneInserted
<1> DEFINE i == Position(entries, t) + 1
<1>2. /\ i \in 1 .. Len(LineOf(entries)) /\ LineOf(entries)[i] = t
      /\ LineOf(entries') = Line!RemoveAt(LineOf(entries), i)
  BY <1>1, LineInserts
<1> HIDE DEF i
<1>3. AtCounter' = AtCounter
  BY DEF AtCounter, AtDesk, Wait, Only, CounterStatus
<1> QED BY <1>2, <1>3 DEF Line!LeaveLine

(* The three moves that look at the order: to the end, from the front, back.  *)
LEMMA ArrivesInLine ==
    ASSUME TypeOK, NumbersInv, OneDay, Ordered(entries), Ordered(entries'),
           NEW t \in Ticket, Arrives(t)
    PROVE  Line!Arrive(t)
<1>0. /\ entries[t].status = "absent" /\ Only(t) /\ Wait(t)' /\ ~ Wait(t)
      /\ entries'[t].priority = 0 /\ ~ AtDesk(t) /\ ~ AtDesk(t)'
  BY DEF Arrives, Wait, AtDesk, CounterStatus
<1>1. Inserts(entries, entries', t, Position(entries', t))
  BY <1>0, OneInserted
<1> DEFINE n == Cardinality(Waiting(entries))
<1>2. Ahead(entries', t) = Waiting(entries)
  <2>1. t \notin Waiting(entries) /\ Waiting(entries') = Waiting(entries) \cup {t}
    BY <1>1 DEF Inserts
  <2>2. ~ Before(entries'[t], entries'[t])
    BY DEF Before, Ordered
  <2>3. ASSUME NEW u \in Waiting(entries) PROVE Before(entries'[u], entries'[t])
    <3>1. u \in Ticket \ {t} /\ Made(u) /\ entries'[u] = entries[u]
      BY <1>0, <2>1 DEF Waiting, WithStatus, Made, Only, Ordered
    <3>2. entries'[u].number < entries'[t].number
      <4>1. /\ entries'[t].number = queue'.counter
            /\ entries[u].day < today \/ entries[u].number < queue'.counter
        BY <3>1, ArrivalNumber
      <4>2. entries[u].day = 0 /\ today = 0
        BY <3>1 DEF OneDay
      <4> QED BY <3>1, <4>1, <4>2
    <3>3. entries'[u].priority \in Nat
      BY <3>1 DEF Ordered
    <3> QED BY <1>0, <3>2, <3>3 DEF Before
  <2> QED BY <2>1, <2>2, <2>3 DEF Ahead
<1>3. Position(entries', t) = n
  BY <1>2 DEF Position
<1>4. LineOf(entries') = Line!InsertAt(LineOf(entries), n + 1, t)
  BY <1>1, <1>3, LineInserts
<1>5. LineOf(entries) \in Seq(Ticket) /\ Len(LineOf(entries)) = n /\ n \in Nat
  BY LinePlaces, LineFinite DEF Ordered
<1>6. LineOf(entries') = Append(LineOf(entries), t)
  <2> HIDE DEF n
  <2> QED BY <1>4, <1>5, InsertedLast
<1>7. ~ Line!Contains(LineOf(entries), t)
  BY <1>1, LineSet DEF Inserts
<1>8. t \notin AtCounter /\ AtCounter' = AtCounter
  BY <1>0 DEF AtCounter, AtDesk, Only
<1> QED BY <1>6, <1>7, <1>8 DEF Line!Arrive

LEMMA CallsFirst ==
    ASSUME Ordered(entries), Ordered(entries'), NEW t \in Ticket, Calls(t), AtCounter = {}
    PROVE  Line!CallFirst
<1>0. /\ Only(t) /\ Wait(t) /\ ~ Wait(t)' /\ AtDesk(t)'
      /\ \A u \in Waiting(entries) : ~ Before(entries[u], entries[t])
  BY DEF Calls, Wait, AtDesk, CounterStatus
<1>1. Inserts(entries', entries, t, Position(entries, t))
  BY <1>0, OneInserted
<1>2. Position(entries, t) = 0
  <2>1. Ahead(entries, t) = {}
    BY <1>0 DEF Ahead
  <2> QED BY <2>1, FS_EmptySet DEF Position
<1>3. /\ 1 \in 1 .. Len(LineOf(entries)) /\ LineOf(entries)[1] = t
      /\ LineOf(entries') = Line!RemoveAt(LineOf(entries), 1)
  BY <1>1, <1>2, LineInserts
<1>4. LineOf(entries) \in Seq(Ticket)
  BY LinePlaces
<1>5. /\ LineOf(entries) # <<>> /\ Head(LineOf(entries)) = t
      /\ LineOf(entries') = Tail(LineOf(entries))
  BY <1>3, <1>4, RemovedFirst
<1>6. AtCounter' = {t}
  BY <1>0 DEF AtCounter, AtDesk, Only
<1> QED BY <1>5, <1>6 DEF Line!CallFirst

LEMMA DefersInLine ==
    ASSUME TypeOK, Ordered(entries), Ordered(entries'), NEW t \in Ticket, Defers(t)
    PROVE  Line!PutBack(t)
<1> DEFINE n == Cardinality(Waiting(entries))
           k == MinOf(DeferralSlots, n)
<1>0. /\ AtDesk(t) /\ ~ AtDesk(t)' /\ ~ Wait(t) /\ Wait(t)'
      /\ \A u \in Ticket \ {t} : entries'[u].status = entries[u].status
      /\ \A u, v \in Waiting(entries) :
            Before(entries[u], entries[v]) => Before(entries'[u], entries'[v])
      /\ Position(entries', t) = k
  BY DEF Defers, Wait, AtDesk, CounterStatus, Position
<1>1. DOMAIN entries = Ticket /\ DOMAIN entries' = Ticket
  BY DEF Ordered
<1>2. t \notin Waiting(entries) /\ Waiting(entries') = Waiting(entries) \cup {t}
  BY <1>0, <1>1 DEF Waiting, WithStatus, Wait
<1>3. ASSUME NEW u \in Waiting(entries), NEW v \in Waiting(entries)
      PROVE  Before(entries[u], entries[v]) <=> Before(entries'[u], entries'[v])
  <2>1. u \in Ticket /\ v \in Ticket
    BY <1>1 DEF Waiting, WithStatus
  <2>2. u = v => ~ Before(entries'[u], entries'[v])
    BY <2>1 DEF Before, Ordered
  <2>3. ~ (Before(entries'[u], entries'[v]) /\ Before(entries'[v], entries'[u]))
    BY <2>1 DEF Before, Ordered
  <2> QED BY <1>0, <2>2, <2>3 DEF Ordered
<1>4. Inserts(entries, entries', t, k)
  BY <1>0, <1>2, <1>3 DEF Inserts
<1>5. LineOf(entries') = Line!InsertAt(LineOf(entries), k + 1, t)
  BY <1>4, LineInserts
<1>6. LineOf(entries) \in Seq(Ticket) /\ Len(LineOf(entries)) = n /\ n \in Nat
  BY <1>1, LinePlaces, LineFinite
<1>7. LineOf(entries') = IF n < DeferralSlots THEN Append(LineOf(entries), t)
                         ELSE Line!InsertAt(LineOf(entries), DeferralSlots + 1, t)
  <2>1. CASE n < DeferralSlots
    <3>1. k = n
      BY <1>6, <2>1, QueueAssumption DEF QueueAssumption, MinOf
    <3> QED BY <1>5, <1>6, <2>1, <3>1, InsertedLast
  <2>2. CASE ~ (n < DeferralSlots)
    <3>1. k = DeferralSlots
      BY <1>6, <2>2, QueueAssumption DEF QueueAssumption, MinOf
    <3> QED BY <1>5, <2>2, <3>1
  <2> QED BY <2>1, <2>2
<1>8. t \in AtCounter /\ AtCounter' = AtCounter \ {t}
  BY <1>0 DEF AtCounter, AtDesk
<1> QED BY <1>6, <1>7, <1>8 DEF Line!PutBack

(* Every step of the queue is a step of the line, or none.                    *)
LEMMA StepMovesLine ==
    ASSUME AllowSkip = FALSE, TypeOK, WindowInv, NumbersInv, OneDay,
           Ordered(entries), Ordered(entries'), [Next]_vars
    PROVE  [Line!Next]_(Line!lineVars)
<1> DEFINE Same == LineKept /\ WindowKept
<1>0. Same => [Line!Next]_(Line!lineVars)
  BY DEF LineKept, WindowKept, Line!lineVars
<1> HIDE DEF Same
<1>1. CASE Rests
  <2>1. Same
    BY <1>1 DEF Rests, Same, LineKept, WindowKept, AtCounter
  <2> QED BY <1>0, <2>1
<1>2. ASSUME NEW t \in Ticket, Writes(t) PROVE [Line!Next]_(Line!lineVars)
  <2>1. ASSUME Only(t), InPlace(t), Wait(t)' <=> Wait(t)
        PROVE  LineKept
    <3>1. \A u \in Ticket : Wait(u)' <=> Wait(u)
      BY <2>1 DEF Only, Wait
    <3>2. \A u \in Ticket : /\ entries'[u].priority = entries[u].priority
                             /\ entries'[u].number = entries[u].number
      BY <2>1 DEF Only, InPlace, Fixed
    <3> QED BY <3>1, <3>2, KeptLine
  <2>2. ASSUME Only(t), AtDesk(t)' <=> AtDesk(t)
        PROVE  WindowKept
    <3>1. \A u \in Ticket : AtDesk(u)' <=> AtDesk(u)
      BY <2>2 DEF Only, AtDesk
    <3> QED BY <3>1, KeptWindow
  <2>3. ASSUME Only(t), InPlace(t), Wait(t)' <=> Wait(t), AtDesk(t)' <=> AtDesk(t)
        PROVE  [Line!Next]_(Line!lineVars)
    BY <1>0, <2>1, <2>2, <2>3 DEF Same
  <2>4. ASSUME Only(t), InPlace(t), ~ Wait(t), ~ Wait(t)', AtDesk(t), ~ AtDesk(t)'
        PROVE  [Line!Next]_(Line!lineVars)
    <3>1. LineKept
      BY <2>1, <2>4
    <3>2. t \in AtCounter /\ AtCounter' = AtCounter \ {t}
      BY <2>4, LeftWindow
    <3>3. Line!LeaveWindow(t)
      BY <3>1, <3>2 DEF LineKept, Line!LeaveWindow
    <3> QED BY <3>3 DEF Line!Next
  <2>5. ASSUME Only(t), Wait(t), ~ Wait(t)', ~ AtDesk(t)'
        PROVE  [Line!Next]_(Line!lineVars)
    <3>1. Line!LeaveLine(t)
      BY <2>5, LeavesLine
    <3> QED BY <3>1 DEF Line!Next
  <2>6. CASE Arrives(t)
    BY <2>6, ArrivesInLine DEF Line!Next
  <2>7. CASE Extends(t) \/ Patches(t)
    <3>1. Only(t) /\ InPlace(t) /\ (Wait(t)' <=> Wait(t)) /\ (AtDesk(t)' <=> AtDesk(t))
      BY <2>7 DEF Extends, Patches, Wait, AtDesk
    <3> QED BY <2>3, <3>1
  <2>8. CASE Leaves(t)
    <3>1. /\ Only(t) /\ InPlace(t) /\ ~ Wait(t)' /\ ~ AtDesk(t)'
          /\ Wait(t) \/ (~ Wait(t) /\ AtDesk(t))
      BY <2>8 DEF Leaves, Wait, AtDesk, CounterStatus
    <3> QED BY <2>4, <2>5, <3>1
  <2>9. CASE Serves(t)
    <3>1. Only(t) /\ InPlace(t) /\ (Wait(t)' <=> Wait(t)) /\ (AtDesk(t)' <=> AtDesk(t))
      BY <2>9 DEF Serves, Wait, AtDesk, CounterStatus
    <3> QED BY <2>3, <3>1
  <2>10. CASE Completes(t)
    <3>1. Only(t) /\ InPlace(t) /\ ~ Wait(t) /\ ~ Wait(t)' /\ AtDesk(t) /\ ~ AtDesk(t)'
      BY <2>10 DEF Completes, Wait, AtDesk, CounterStatus
    <3> QED BY <2>4, <3>1
  <2>11. CASE Defers(t)
    BY <2>11, DefersInLine DEF Line!Next
  <2>12. CASE Calls(t)
    <3>1. AtCounter = {}
      <4>1. \E u \in Ticket : Called(u)
        <5>1. entries[t].status = "waiting" /\ entries'[t].status = "called"
          BY <2>12 DEF Calls
        <5>2. ~ Quiet
          BY <5>1 DEF Quiet, SameStatuses
        <5>3. \A u \in Ticket, from, to \in TicketStatus : ~ Moved(u, from, to)
          BY <5>1 DEF Moved, Moves
        <5> QED BY <5>2, <5>3, NextShape DEF StepShape
      <4>2. \A u \in Ticket : entries[u].status # "serving"
        BY <4>1 DEF Called
      <4>3. NobodyCalled
        BY <2>12 DEF Calls, WindowInv
      <4> QED BY <4>2, <4>3 DEF NobodyCalled, AtCounter, CounterStatus
    <3> QED BY <2>12, <3>1, CallsFirst DEF Line!Next
  <2>13. CASE Expires(t)
    <3>1. CASE entries[t].status = "waiting"
      <4>1. Only(t) /\ Wait(t) /\ ~ Wait(t)' /\ ~ AtDesk(t)'
        BY <2>13, <3>1 DEF Expires, ExpiredTicketStatus, Wait, AtDesk, CounterStatus
      <4> QED BY <2>5, <4>1
    <3>2. CASE entries[t].status = "called"
      <4>1. Only(t) /\ InPlace(t) /\ ~ Wait(t) /\ ~ Wait(t)' /\ AtDesk(t) /\ ~ AtDesk(t)'
        BY <2>13, <3>2 DEF Expires, ExpiredTicketStatus, Wait, AtDesk, CounterStatus
      <4> QED BY <2>4, <4>1
    <3>3. CASE entries[t].status \notin {"waiting", "called"}
      <4>1. Only(t) /\ InPlace(t) /\ entries'[t].status = entries[t].status
        BY <2>13, <3>3 DEF Expires, ExpiredTicketStatus
      <4> QED BY <2>3, <4>1 DEF Wait, AtDesk
    <3> QED BY <3>1, <3>2, <3>3
  <2>14. ~ Skips(t)
    BY DEF Skips
  <2> QED BY <1>2, <2>6, <2>7, <2>8, <2>9, <2>10, <2>11, <2>12, <2>13, <2>14 DEF Writes
<1> QED BY <1>1, <1>2, StepKinds

LEMMA InitialLine == Init => Line!Init
<1> SUFFICES ASSUME Init PROVE Line!Init
  OBVIOUS
<1>1. \A t \in Ticket : entries[t].status = "absent"
  BY DEF Init, AbsentEntry
<1>2. DOMAIN entries = Ticket /\ Waiting(entries) = {} /\ AtCounter = {}
  BY <1>1 DEF Init, Waiting, WithStatus, AtCounter, CounterStatus
<1>3. LineOf(entries) = <<>>
  BY <1>2, FS_EmptySet DEF LineOf
<1> QED BY <1>2, <1>3 DEF Line!Init

(* The queue is a line of customers as positions have it: who arrives goes to *)
(* the end, the first is called, who was absent is put DeferralSlots places   *)
(* back, and nobody else moves, within a day and without customers' own       *)
(* skips, for any number of tickets, deferrals and slots (listWaiting,        *)
(* deferCalledBySlots, tryAutoCallNextWaiting).                               *)
THEOREM LineRefined ==
    ASSUME LastDay = 0, LateBookings = FALSE, AllowSkip = FALSE
    PROVE  Spec => ImplementsLine
<1>1. Init => OneDay
  BY DEF Init, OneDay, AbsentEntry
<1>2. TypeOK /\ OneDay /\ [Next]_vars => OneDay'
  BY DayStep
<1>3. Spec => []OneDay
  BY <1>1, <1>2, TypeCorrect, PTL DEF Spec
<1> DEFINE Inv == TypeOK /\ WindowInv /\ NumbersInv /\ OneDay
<1>4. Inv => Ordered(entries)
  BY DayOrdered
<1>5. Inv /\ Ordered(entries) /\ Ordered(entries)' /\ [Next]_vars => [Line!Next]_(Line!lineVars)
  BY StepMovesLine
<1>6. Spec => []Inv
  BY <1>3, TypeCorrect, WindowInvariant, NumbersInvariant, PTL
<1> HIDE DEF Inv
<1> QED BY <1>4, <1>5, <1>6, InitialLine, PTL DEF Spec, ImplementsLine, Line!Spec
=============================================================================
