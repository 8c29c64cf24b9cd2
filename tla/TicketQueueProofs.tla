-------------------------- MODULE TicketQueueProofs --------------------------
(* Theorems about TicketQueue, for every value of its constants.              *)
EXTENDS TicketQueue, FiniteSetTheorems, TLAPS

-----------------------------------------------------------------------------
(* The waiting line.                                                          *)

(* Only finitely many tickets exist, so those that wait can be counted.       *)
LEMMA WaitingCount ==
    ASSUME TypeOK
    PROVE  /\ IsFiniteSet(Waiting(entries))
           /\ Cardinality(Waiting(entries)) \in Nat
<1>1. Waiting(entries) \subseteq Ticket
  BY DEF TypeOK, Waiting, WithStatus
<1>2. IsFiniteSet(Ticket)
  BY FS_Interval, QueueAssumption DEF Ticket, QueueAssumption
<1>3. IsFiniteSet(Waiting(entries))
  BY <1>1, <1>2, FS_Subset
<1> QED BY <1>3, FS_CardinalityType

(* The priority a deferred ticket gets is never negative, so the CHECK on     *)
(* queue_entries.priority never rejects a deferral.                           *)
LEMMA TargetPriorityType ==
    ASSUME NEW total \in Nat, NEW slots \in Nat
    PROVE  TargetPriority(total, slots) \in Nat
BY DEF TargetPriority, PriorityStep, DeferralGap

(* A deferral leaves every row well typed and changes nothing but priorities, *)
(* and the status and absences of the deferred ticket.                        *)
LEMMA DeferralRows ==
    ASSUME TypeOK, NEW t \in Ticket, entries[t].status = "called",
           NEW after \in DeferCalledBySlots(entries, t, DeferralSlots)
    PROVE  /\ after \in [Ticket -> Entry]
           /\ \A u \in Ticket \ {t} :
                 after[u] = [entries[u] EXCEPT !.priority = after[u].priority]
           /\ after[t] = [entries[t] EXCEPT !.status   = "waiting",
                                            !.priority = after[t].priority,
                                            !.absence  = @ + 1]
<1> DEFINE total == Cardinality(Waiting(entries))
<1>1. total \in Nat
  BY WaitingCount
<1>2. PICK r \in RowNumbers(entries) :
        after = [Renumbered(entries, r) EXCEPT
                    ![t].status   = "waiting",
                    ![t].priority = TargetPriority(total, DeferralSlots),
                    ![t].absence  = @ + 1]
  BY DEF DeferCalledBySlots
<1>3. r \in [Waiting(entries) -> 1 .. total]
  BY <1>2 DEF RowNumbers
<1>4. t \notin DOMAIN r
  BY <1>3 DEF Waiting, WithStatus
<1> DEFINE renum == Renumbered(entries, r)
<1>5. \A u \in Ticket :
        /\ renum[u] \in Entry
        /\ renum[u] = [entries[u] EXCEPT !.priority = renum[u].priority]
  <2> SUFFICES ASSUME NEW u \in Ticket
               PROVE  /\ renum[u] \in Entry
                      /\ renum[u] = [entries[u] EXCEPT !.priority = renum[u].priority]
    OBVIOUS
  <2>1. DOMAIN r = Waiting(entries) /\ entries[u] \in Entry /\ u \in DOMAIN entries
    BY <1>3 DEF TypeOK
  <2>2. CASE u \in DOMAIN r
    <3> DEFINE p == (total - r[u] + 1) * PriorityStep
    <3>1. p \in Nat
      BY <1>1, <1>3, <2>1, <2>2 DEF PriorityStep
    <3>2. renum[u] = [entries[u] EXCEPT !.priority = p]
      BY <2>1, <2>2 DEF Renumbered
    <3> QED BY <2>1, <3>1, <3>2 DEF Entry
  <2>3. CASE u \notin DOMAIN r
    BY <2>1, <2>3 DEF Renumbered, Entry
  <2> QED BY <2>2, <2>3
<1>6. renum[t] = entries[t] /\ DOMAIN renum = Ticket
  BY <1>4 DEF Renumbered, TypeOK
<1>7. TargetPriority(total, DeferralSlots) \in Nat
  BY <1>1, TargetPriorityType, QueueAssumption DEF QueueAssumption
<1>8. entries[t] \in Entry
  BY DEF TypeOK
<1>9. after[t] = [entries[t] EXCEPT !.status   = "waiting",
                                   !.priority = TargetPriority(total, DeferralSlots),
                                   !.absence  = @ + 1]
  BY <1>2, <1>6, <1>8 DEF Entry
<1>10. after[t] \in Entry /\ after[t].priority = TargetPriority(total, DeferralSlots)
  <2> DEFINE p == TargetPriority(total, DeferralSlots)
  <2>1. p \in Nat
    BY <1>7
  <2> HIDE DEF p
  <2>2. entries[t].absence + 1 \in Nat
    BY <1>8 DEF Entry
  <2>3. "waiting" \in TicketStatus
    BY DEF TicketStatus, ActiveStatus
  <2>4. after[t] = [entries[t] EXCEPT !.status = "waiting", !.priority = p,
                                     !.absence = @ + 1]
    BY <1>9 DEF p
  <2>5. after[t] \in Entry /\ after[t].priority = p
    BY <1>8, <2>1, <2>2, <2>3, <2>4 DEF Entry
  <2> QED BY <2>5 DEF p
<1>11. \A u \in Ticket \ {t} : after[u] = renum[u]
  BY <1>2, <1>6
<1>12. after \in [Ticket -> Entry]
  <2>1. DOMAIN after = Ticket /\ after = [u \in Ticket |-> after[u]]
    BY <1>2, <1>6
  <2> QED BY <1>5, <1>10, <1>11, <2>1
<1> QED BY <1>5, <1>9, <1>10, <1>11, <1>12

-----------------------------------------------------------------------------
(* Type correctness.                                                          *)

(* A new row is well typed, and so are the counter and the date it leaves.    *)
LEMMA CreateEntryType ==
    ASSUME TypeOK, NEW t \in Ticket, NEW owner \in Owner, NEW priority \in Int,
           NEW order \in OrderStatus, NEW qty \in Nat,
           CreateEntry(t, owner, priority, order, qty)
    PROVE  /\ queue' \in QueueRow
           /\ entries' \in [Ticket -> Entry]
           /\ late' \in BOOLEAN /\ (late' => late)
<1>1. PICK date \in {today - 1, today} :
        /\ BookingDate(date)
        /\ priority >= 0
        /\ entries' = [entries EXCEPT ![t] =
              [status |-> "waiting", owner |-> owner, number |-> NextNumber(date),
               day |-> date, priority |-> priority, absence |-> 0,
               order |-> order, hold |-> IF qty > 0 THEN "reserved" ELSE "none",
               qty |-> qty]]
        /\ queue' = [queue EXCEPT !.counter = NextNumber(date),
                                  !.counterDay = date]
  BY DEF CreateEntry
<1>2. late' \in BOOLEAN /\ (late' => late)
  <2>1. CASE late' = late
    BY <2>1 DEF TypeOK
  <2>2. CASE late' = FALSE
    BY <2>2
  <2> QED BY <1>1, <2>1, <2>2 DEF BookingDate
<1>3. date \in Nat
  BY <1>1 DEF BookingDate, TypeOK
<1>4. NextNumber(date) \in Nat
  BY DEF NextNumber, TypeOK, QueueRow
<1>5. queue' \in QueueRow
  BY <1>1, <1>3, <1>4 DEF TypeOK, QueueRow
<1> DEFINE hold == IF qty > 0 THEN "reserved" ELSE "none"
<1>6. /\ "waiting" \in TicketStatus
      /\ hold \in HoldStatus
  BY DEF TicketStatus, ActiveStatus, HoldStatus
<1>7. entries' \in [Ticket -> Entry]
  BY <1>1, <1>3, <1>4, <1>6 DEF TypeOK, Entry
<1> QED BY <1>2, <1>5, <1>7

(* Leaving the line, with the stock that comes back.                          *)
LEMMA WithdrawType ==
    ASSUME TypeOK, NEW t \in Ticket, NEW status \in TicketStatus,
           NEW absence \in Nat, Withdraw(t, status, absence)
    PROVE  /\ entries' \in [Ticket -> Entry]
           /\ stock' \in Nat
           /\ tx' \in Tx
<1>1. /\ entries[t] \in Entry
      /\ OrderAfter(t, "cancelled") \in OrderStatus
      /\ HoldAfter(t, "released") \in HoldStatus
      /\ Returned(t) \in Nat
  BY DEF TypeOK, Entry, OrderAfter, OrderStatus, LiveOrder, HoldAfter, HoldStatus,
         Returned
<1>2. entries[t].absence + absence \in Nat
  BY <1>1 DEF Entry
<1>3. entries' \in [Ticket -> Entry]
  BY <1>1, <1>2 DEF Withdraw, TypeOK, Entry
<1>4. stock' \in Nat /\ tx' \in Tx
  BY <1>1 DEF Withdraw, EnterAutoCall, Tx, TypeOK
<1> QED BY <1>3, <1>4

(* A deferral that has begun names a ticket.                                  *)
LEMMA DeferralTicket ==
    ASSUME TypeOK, NEW s \in Staff, deferral[s] # NoDeferral
    PROVE  deferral[s].ticket \in Ticket
BY DEF TypeOK, Deferral

LEMMA InitType == Init => TypeOK
<1> SUFFICES ASSUME Init PROVE TypeOK
  OBVIOUS
<1>1. AbsentEntry \in Entry
  BY DEF AbsentEntry, Entry, TicketStatus, Owner, OrderStatus, HoldStatus
<1>2. queue \in QueueRow
  BY QueueAssumption DEF Init, QueueRow, QueueAssumption
<1>3. IdleTx \in Tx
  BY DEF IdleTx, Tx
<1> QED
  BY <1>1, <1>2, <1>3, QueueAssumption DEF Init, TypeOK, QueueAssumption

LEMMA NextType == TypeOK /\ [Next]_vars => TypeOK'
<1> SUFFICES ASSUME TypeOK, [Next]_vars PROVE TypeOK'
  OBVIOUS
<1> USE DEF TypeOK
<1>1. ASSUME NEW c \in Customer, JoinQueue(c) PROVE TypeOK'
  <2>1. PICK t \in Ticket : /\ CreateEntry(t, c, JoinPriority(c), "none", 0)
                            /\ EnterAutoCall({t}, {t})
    BY <1>1 DEF JoinQueue
  <2>2. c \in Owner /\ JoinPriority(c) \in Int /\ "none" \in OrderStatus /\ 0 \in Nat
    BY DEF Owner, JoinPriority, OrderStatus
  <2>3. /\ queue' \in QueueRow /\ entries' \in [Ticket -> Entry]
        /\ late' \in BOOLEAN /\ (late' => late)
    BY <2>1, <2>2, CreateEntryType
  <2> QED BY <1>1, <2>1, <2>3 DEF JoinQueue, EnterAutoCall, Tx
<1>2. ASSUME NEW c \in Customer \cup {Guest}, NEW q \in Quantity, BookNewOrder(c, q)
      PROVE  TypeOK'
  <2>1. PICK t \in Ticket : /\ CreateEntry(t, c, 0, "pending", q)
                            /\ EnterAutoCall({t}, {t})
    BY <1>2 DEF BookNewOrder
  <2>2. c \in Owner /\ 0 \in Int /\ "pending" \in OrderStatus /\ q \in Nat
    BY QueueAssumption DEF Owner, OrderStatus, LiveOrder, QueueAssumption
  <2>3. /\ queue' \in QueueRow /\ entries' \in [Ticket -> Entry]
        /\ late' \in BOOLEAN /\ (late' => late)
    BY <2>1, <2>2, CreateEntryType
  <2>4. stock' \in Nat
    BY <1>2, <2>2 DEF BookNewOrder
  <2> QED BY <1>2, <2>1, <2>3, <2>4 DEF BookNewOrder, EnterAutoCall, Tx
<1>3. ASSUME NEW c \in Customer, NEW q \in Quantity, ExtendOrder(c, q)
      PROVE  TypeOK'
  <2>1. q \in Nat
    BY QueueAssumption DEF QueueAssumption
  <2>2. PICK t \in Ticket :
          /\ entries' = [entries EXCEPT ![t].hold = IF q > 0 THEN "reserved" ELSE @,
                                        ![t].qty  = @ + q]
          /\ EnterAutoCall({t}, {t})
    BY <1>3 DEF ExtendOrder, ActiveOrdersOf, Active
  <2> DEFINE hold == IF q > 0 THEN "reserved" ELSE entries[t].hold
             qty  == entries[t].qty + q
  <2>3. qty \in Nat /\ hold \in HoldStatus
    BY <2>1 DEF Entry, HoldStatus
  <2>4. entries' = [entries EXCEPT ![t] = [@ EXCEPT !.hold = hold, !.qty = qty]]
    BY <2>2
  <2>5. entries' \in [Ticket -> Entry]
    <3> HIDE DEF hold, qty
    <3> QED BY <2>3, <2>4 DEF Entry
  <2> QED BY <1>3, <2>1, <2>2, <2>5 DEF ExtendOrder, EnterAutoCall, Tx
<1>4. ASSUME NEW t \in Ticket,
             CancelTicket(t) \/ StaffCancelEntry(t) \/ CancelByOrder(t)
      PROVE  TypeOK'
  <2>1. Withdraw(t, "cancelled", 0)
    BY <1>4 DEF CancelTicket, StaffCancelEntry, CancelByOrder
  <2>2. "cancelled" \in TicketStatus /\ 0 \in Nat
    BY DEF TicketStatus, TerminalStatus
  <2>3. entries' \in [Ticket -> Entry] /\ stock' \in Nat /\ tx' \in Tx
    BY <2>1, <2>2, WithdrawType
  <2>4. UNCHANGED <<queue, today, penalised, deferral, late>>
    BY <1>4 DEF CancelTicket, StaffCancelEntry, CancelByOrder
  <2> QED BY <2>3, <2>4
<1>5. ASSUME NEW t \in Ticket, SkipTicket(t) PROVE TypeOK'
  <2>1. SkippedPriority(entries[t].priority) \in Nat
    BY DEF SkippedPriority, Entry
  <2>2. entries' \in [Ticket -> Entry]
    BY <1>5, <2>1 DEF SkipTicket, Entry
  <2> QED BY <1>5, <2>2 DEF SkipTicket
<1>6. ASSUME NEW c \in Customer, PenaltyExpires(c) PROVE TypeOK'
  BY <1>6 DEF PenaltyExpires
<1>7. CASE CallNextTicket
  BY <1>7 DEF CallNextTicket, EnterAutoCall, Tx
<1>8. ASSUME NEW t \in Ticket, ServeTicket(t) PROVE TypeOK'
  <2>1. "serving" \in TicketStatus
    BY DEF TicketStatus, ActiveStatus
  <2>2. entries' \in [Ticket -> Entry]
    BY <1>8, <2>1 DEF ServeTicket, Entry
  <2> QED BY <1>8, <2>2 DEF ServeTicket
<1>9. ASSUME NEW t \in Ticket, CompleteTicket(t) PROVE TypeOK'
  <2>1. /\ "served" \in TicketStatus
        /\ OrderAfter(t, "completed") \in OrderStatus
        /\ HoldAfter(t, "consumed") \in HoldStatus
    BY DEF TicketStatus, TerminalStatus, OrderAfter, OrderStatus, LiveOrder,
           HoldAfter, HoldStatus, Entry
  <2>2. entries' = [entries EXCEPT ![t] =
                      [@ EXCEPT !.status = "served",
                                !.order  = OrderAfter(t, "completed"),
                                !.hold   = HoldAfter(t, "consumed")]]
    BY <1>9 DEF CompleteTicket
  <2>3. entries' \in [Ticket -> Entry]
    BY <2>1, <2>2 DEF Entry
  <2> QED BY <1>9, <2>3 DEF CompleteTicket, EnterAutoCall, Tx
<1>10. ASSUME NEW t \in Ticket, NoShowTicket(t) PROVE TypeOK'
  <2>1. "no_show" \in TicketStatus /\ 0 \in Nat
    BY DEF TicketStatus, TerminalStatus
  <2>2. entries' \in [Ticket -> Entry] /\ stock' \in Nat /\ tx' \in Tx
    BY <1>10, <2>1, WithdrawType DEF NoShowTicket
  <2> QED BY <1>10, <2>2 DEF NoShowTicket
<1>11. ASSUME NEW s \in Staff, NEW t \in Ticket, BeginDefer(s, t) PROVE TypeOK'
  <2>1. [ticket |-> t, absence |-> entries[t].absence] \in Deferral
    BY DEF Deferral, Entry
  <2> QED BY <1>11, <2>1 DEF BeginDefer
<1>12. ASSUME NEW s \in Staff, DeferNoShow(s) PROVE TypeOK'
  <2>1. deferral[s].ticket \in Ticket
    BY <1>12, DeferralTicket DEF DeferNoShow
  <2>2. "no_show" \in TicketStatus /\ 1 \in Nat
    BY DEF TicketStatus, TerminalStatus
  <2>3. entries' \in [Ticket -> Entry] /\ stock' \in Nat /\ tx' \in Tx
    BY <1>12, <2>1, <2>2, WithdrawType DEF DeferNoShow
  <2>4. deferral' \in [Staff -> Deferral \cup {NoDeferral}]
    BY <1>12 DEF DeferNoShow, EndRequest, NoDeferral, Deferral
  <2> QED BY <1>12, <2>3, <2>4 DEF DeferNoShow
<1>13. ASSUME NEW s \in Staff, DeferBack(s) PROVE TypeOK'
  <2>1. deferral[s].ticket \in Ticket
    BY <1>13, DeferralTicket DEF DeferBack
  <2>2. entries' \in [Ticket -> Entry]
    BY <1>13, <2>1, DeferralRows DEF DeferBack
  <2>3. deferral' \in [Staff -> Deferral \cup {NoDeferral}]
    BY <1>13 DEF DeferBack, EndRequest, NoDeferral, Deferral
  <2>4. tx' \in Tx
    BY <1>13, <2>1 DEF DeferBack, EnterAutoCall, Tx, Waiting, WithStatus
  <2> QED BY <1>13, <2>2, <2>3, <2>4 DEF DeferBack
<1>14. ASSUME NEW s \in Staff, DeferFails(s) PROVE TypeOK'
  BY <1>14 DEF DeferFails, EndRequest, NoDeferral, Deferral
<1>15. CASE AutoCallFirstRead \/ AutoCallNobody
  BY <1>15 DEF AutoCallFirstRead, AutoCallNobody, Commit, IdleTx, Tx
<1>16. CASE AutoCallHead
  <2>1. PICK t \in Ticket : entries' = [entries EXCEPT ![t].status = "called"]
    BY <1>16 DEF AutoCallHead, CallableHeads, Heads, Waiting, WithStatus
  <2>2. "called" \in TicketStatus
    BY DEF TicketStatus, ActiveStatus
  <2>3. entries' \in [Ticket -> Entry]
    BY <2>1, <2>2 DEF Entry
  <2> QED BY <1>16, <2>3 DEF AutoCallHead, Commit, IdleTx, Tx
<1>17. ASSUME NEW status \in QueueStatus, NEW c \in Capacity, UpdateQueue(status, c)
       PROVE  TypeOK'
  BY <1>17 DEF UpdateQueue, QueueRow
<1>18. CASE DeleteQueue
  BY <1>18 DEF DeleteQueue, QueueRow
<1>19. CASE Midnight
  <2>1. late' \in BOOLEAN
    BY <1>19, QueueAssumption DEF Midnight, QueueAssumption
  <2>2. today' \in Nat /\ today' > 0
    BY <1>19 DEF Midnight
  <2>3. UNCHANGED <<queue, entries, stock, penalised, tx, deferral>>
    BY <1>19 DEF Midnight
  <2> QED BY <2>1, <2>2, <2>3
<1>20. CASE ResetCounter
  BY <1>20 DEF ResetCounter, QueueRow
<1>21. ASSUME NEW t \in Ticket, ExpireDue(t) PROVE TypeOK'
  <2>1. /\ ExpiredTicketStatus(entries[t].status) \in TicketStatus
        /\ "cancelled" \in OrderStatus /\ "expired" \in HoldStatus
        /\ Returned(t) \in Nat
    BY DEF ExpiredTicketStatus, TicketStatus, TerminalStatus, OrderStatus,
           HoldStatus, Returned, Entry
  <2>2. entries' \in [Ticket -> Entry]
    BY <1>21, <2>1 DEF ExpireDue, Entry
  <2> QED BY <1>21, <2>1, <2>2 DEF ExpireDue
<1>22. ASSUME NEW t \in Ticket, PatchOrder(t) PROVE TypeOK'
  <2>1. "processing" \in OrderStatus
    BY DEF OrderStatus, LiveOrder
  <2>2. entries' \in [Ticket -> Entry]
    BY <1>22, <2>1 DEF PatchOrder, Entry
  <2> QED BY <1>22, <2>2 DEF PatchOrder
<1>23. CASE UNCHANGED vars
  BY <1>23 DEF vars
<1> QED
  BY <1>1, <1>2, <1>3, <1>4, <1>5, <1>6, <1>7, <1>8, <1>9, <1>10, <1>11, <1>12,
     <1>13, <1>14, <1>15, <1>16, <1>17, <1>18, <1>19, <1>20, <1>21, <1>22, <1>23
  DEF Next, AutoCall, CommitDefer

(* The variables keep their types, in every behaviour and for every value of  *)
(* the constants: priorities, absences and stock never go below zero.         *)
THEOREM TypeCorrect == Spec => []TypeOK
<1>1. Init => TypeOK
  BY InitType
<1>2. TypeOK /\ [Next]_vars => TypeOK'
  BY NextType
<1> QED BY <1>1, <1>2, PTL DEF Spec

-----------------------------------------------------------------------------
(* What one step does to the statuses of the tickets: nothing, or one ticket  *)
(* moves along StatusFlow.  Everything below rests on this.                   *)

SameStatuses == \A u \in Ticket : entries'[u].status = entries[u].status

Moves(t, from, to) ==
    /\ entries[t].status = from
    /\ entries'[t].status = to
    /\ \A u \in Ticket \ {t} : entries'[u].status = entries[u].status

NobodyCalled == \A u \in Ticket : entries[u].status # "called"

Quiet == /\ SameStatuses
         /\ tx'.phase = 2 => tx.phase = 2 \/ NobodyCalled

Moved(t, from, to) ==
    /\ <<from, to>> \in StatusFlow \ {<<"waiting", "called">>}
    /\ Moves(t, from, to)
    /\ tx'.phase = 2 => tx.phase = 2

Called(t) ==
    /\ Moves(t, "waiting", "called")
    /\ tx.phase = 2 /\ tx'.phase = 0
    /\ \A u \in Ticket : entries[u].status # "serving"

StepShape ==
    \/ Quiet
    \/ \E t \in Ticket, from, to \in TicketStatus : Moved(t, from, to)
    \/ \E t \in Ticket : Called(t)

(* Withdraw moves its ticket, and the transaction enters phase 1.             *)
LEMMA WithdrawMoves ==
    ASSUME TypeOK, NEW t \in Ticket, NEW from, NEW status, NEW absence,
           Withdraw(t, status, absence), entries[t].status = from
    PROVE  Moves(t, from, status) /\ tx'.phase = 1
BY DEF Withdraw, EnterAutoCall, Moves, TypeOK, Entry

LEMMA NextShape == TypeOK /\ [Next]_vars => StepShape
<1> SUFFICES ASSUME TypeOK, [Next]_vars PROVE StepShape
  OBVIOUS
<1>a. entries \in [Ticket -> Entry] /\ tx \in Tx
  BY DEF TypeOK
<1>b. ASSUME NEW t \in Ticket, NEW from, NEW to,
             <<from, to>> \in StatusFlow \ {<<"waiting", "called">>},
             Moves(t, from, to), tx'.phase = 2 => tx.phase = 2
      PROVE  StepShape
  <2>1. from \in TicketStatus /\ to \in TicketStatus
    BY <1>b DEF StatusFlow, TicketStatus, ActiveStatus, TerminalStatus
  <2>2. Moved(t, from, to)
    BY <1>b DEF Moved
  <2> QED BY <2>1, <2>2 DEF StepShape
<1>c. ASSUME NEW t \in Ticket, NEW owner, NEW priority, NEW order, NEW qty,
             CreateEntry(t, owner, priority, order, qty), EnterAutoCall({t}, {t})
      PROVE  StepShape
  <2>1. Moves(t, "absent", "waiting") /\ tx'.phase = 1
    BY <1>a, <1>c DEF CreateEntry, NewRow, EnterAutoCall, Moves
  <2> QED BY <1>b, <2>1 DEF StatusFlow
<1>1. ASSUME NEW c \in Customer, JoinQueue(c) PROVE StepShape
  BY <1>1, <1>c DEF JoinQueue
<1>2. ASSUME NEW c \in Customer \cup {Guest}, NEW q \in Quantity, BookNewOrder(c, q)
      PROVE  StepShape
  BY <1>2, <1>c DEF BookNewOrder
<1>3. ASSUME NEW c \in Customer, NEW q \in Quantity, ExtendOrder(c, q)
      PROVE  StepShape
  <2>1. PICK t \in Ticket :
          /\ entries' = [entries EXCEPT ![t].hold = IF q > 0 THEN "reserved" ELSE @,
                                        ![t].qty  = @ + q]
          /\ EnterAutoCall({t}, {t})
    BY <1>3 DEF ExtendOrder, ActiveOrdersOf, Active
  <2>2. SameStatuses /\ tx'.phase = 1
    BY <1>a, <2>1 DEF SameStatuses, EnterAutoCall, Entry
  <2> QED BY <2>2 DEF StepShape, Quiet
<1>4. ASSUME NEW t \in Ticket,
             CancelTicket(t) \/ StaffCancelEntry(t) \/ CancelByOrder(t)
      PROVE  StepShape
  <2>1. Withdraw(t, "cancelled", 0) /\ entries[t].status \in {"waiting", "called"}
    BY <1>4 DEF CancelTicket, StaffCancelEntry, CancelByOrder, CancellableStatus
  <2>2. Moves(t, entries[t].status, "cancelled") /\ tx'.phase = 1
    BY <2>1, WithdrawMoves
  <2> QED BY <1>b, <2>1, <2>2 DEF StatusFlow
<1>5. ASSUME NEW t \in Ticket, SkipTicket(t) PROVE StepShape
  <2>1. SameStatuses /\ tx' = tx
    BY <1>5, <1>a DEF SkipTicket, SameStatuses, Entry
  <2> QED BY <2>1 DEF StepShape, Quiet
<1>6. ASSUME NEW c \in Customer, PenaltyExpires(c) PROVE StepShape
  BY <1>6 DEF PenaltyExpires, StepShape, Quiet, SameStatuses
<1>7. CASE CallNextTicket
  BY <1>7 DEF CallNextTicket, EnterAutoCall, StepShape, Quiet, SameStatuses
<1>8. ASSUME NEW t \in Ticket, ServeTicket(t) PROVE StepShape
  <2>1. Moves(t, "called", "serving") /\ tx' = tx
    BY <1>8, <1>a DEF ServeTicket, Moves, Entry
  <2> QED BY <1>b, <2>1 DEF StatusFlow
<1>9. ASSUME NEW t \in Ticket, CompleteTicket(t) PROVE StepShape
  <2>1. Moves(t, "serving", "served") /\ tx'.phase = 1
    BY <1>9, <1>a DEF CompleteTicket, EnterAutoCall, Moves, Entry
  <2> QED BY <1>b, <2>1 DEF StatusFlow
<1>10. ASSUME NEW t \in Ticket, NoShowTicket(t) PROVE StepShape
  <2>1. Moves(t, "called", "no_show") /\ tx'.phase = 1
    BY <1>10, WithdrawMoves DEF NoShowTicket
  <2> QED BY <1>b, <2>1 DEF StatusFlow
<1>11. ASSUME NEW s \in Staff, NEW t \in Ticket, BeginDefer(s, t) PROVE StepShape
  BY <1>11 DEF BeginDefer, StepShape, Quiet, SameStatuses
<1>12. ASSUME NEW s \in Staff, DeferNoShow(s) PROVE StepShape
  <2> DEFINE t == deferral[s].ticket
  <2>1. t \in Ticket
    BY <1>12, DeferralTicket DEF DeferNoShow
  <2>2. Withdraw(t, "no_show", 1) /\ entries[t].status = "called"
    BY <1>12 DEF DeferNoShow
  <2>3. Moves(t, "called", "no_show") /\ tx'.phase = 1
    BY <2>1, <2>2, WithdrawMoves
  <2> QED BY <1>b, <2>1, <2>3 DEF StatusFlow
<1>13. ASSUME NEW s \in Staff, DeferBack(s) PROVE StepShape
  <2> DEFINE t == deferral[s].ticket
  <2>1. t \in Ticket
    BY <1>13, DeferralTicket DEF DeferBack
  <2>2. /\ entries[t].status = "called"
        /\ entries' \in DeferCalledBySlots(entries, t, DeferralSlots)
    BY <1>13 DEF DeferBack
  <2>3. /\ \A u \in Ticket \ {t} :
              entries'[u] = [entries[u] EXCEPT !.priority = entries'[u].priority]
        /\ entries'[t] = [entries[t] EXCEPT !.status   = "waiting",
                                           !.priority = entries'[t].priority,
                                           !.absence  = @ + 1]
    BY <2>1, <2>2, DeferralRows
  <2>4. Moves(t, "called", "waiting")
    <3> HIDE DEF t
    <3>1. ASSUME NEW u \in Ticket \ {t}
          PROVE  entries'[u].status = entries[u].status
      <4>1. entries[u] \in Entry
        BY <1>a
      <4>2. entries'[u] = [entries[u] EXCEPT !.priority = entries'[u].priority]
        BY <2>3
      <4> QED BY <4>1, <4>2 DEF Entry
    <3>2. entries'[t].status = "waiting"
      <4>1. entries[t] \in Entry
        BY <1>a, <2>1
      <4>2. entries'[t] = [entries[t] EXCEPT !.status   = "waiting",
                                           !.priority = entries'[t].priority,
                                           !.absence  = @ + 1]
        BY <2>3
      <4> QED BY <4>1, <4>2 DEF Entry
    <3> QED BY <2>2, <3>1, <3>2 DEF Moves
  <2>5. tx'.phase = 2 => tx.phase = 2
    BY <1>13 DEF DeferBack, EnterAutoCall
  <2> QED BY <1>b, <2>1, <2>4, <2>5 DEF StatusFlow
<1>14. ASSUME NEW s \in Staff, DeferFails(s) PROVE StepShape
  BY <1>14 DEF DeferFails, StepShape, Quiet, SameStatuses
<1>15. CASE AutoCallFirstRead
  <2>1. SameStatuses
    BY <1>15 DEF AutoCallFirstRead, SameStatuses
  <2>2. tx'.phase = 2 => NobodyCalled
    BY <1>15, <1>a DEF AutoCallFirstRead, AutoCallReads, Commit, IdleTx,
                       NobodyCalled, WithStatus
  <2> QED BY <2>1, <2>2 DEF StepShape, Quiet
<1>16. CASE AutoCallNobody
  BY <1>16 DEF AutoCallNobody, Commit, IdleTx, StepShape, Quiet, SameStatuses
<1>17. CASE AutoCallHead
  <2>1. PICK t \in Ticket : /\ entries[t].status = "waiting"
                            /\ entries' = [entries EXCEPT ![t].status = "called"]
    BY <1>17, <1>a DEF AutoCallHead, CallableHeads, Heads, Waiting, WithStatus
  <2>2. Moves(t, "waiting", "called")
    BY <1>a, <2>1 DEF Moves, Entry
  <2>3. /\ tx.phase = 2 /\ tx'.phase = 0
        /\ \A u \in Ticket : entries[u].status # "serving"
    BY <1>17, <1>a DEF AutoCallHead, AutoCallReads, Commit, IdleTx, WithStatus
  <2> QED BY <2>2, <2>3 DEF StepShape, Called
<1>18. ASSUME NEW status \in QueueStatus, NEW c \in Capacity, UpdateQueue(status, c)
       PROVE  StepShape
  BY <1>18 DEF UpdateQueue, StepShape, Quiet, SameStatuses
<1>19. CASE DeleteQueue \/ Midnight \/ ResetCounter
  BY <1>19 DEF DeleteQueue, Midnight, ResetCounter, StepShape, Quiet, SameStatuses
<1>20. ASSUME NEW t \in Ticket, ExpireDue(t) PROVE StepShape
  <2>1. /\ entries'[t].status = ExpiredTicketStatus(entries[t].status)
        /\ \A u \in Ticket \ {t} : entries'[u].status = entries[u].status
        /\ tx' = tx
    BY <1>20, <1>a DEF ExpireDue, Entry
  <2>2. CASE entries[t].status \in {"waiting", "called"}
    <3>1. Moves(t, entries[t].status, "cancelled")
      BY <2>1, <2>2 DEF Moves, ExpiredTicketStatus
    <3> QED BY <1>b, <2>1, <2>2, <3>1 DEF StatusFlow
  <2>3. CASE entries[t].status \notin {"waiting", "called"}
    BY <2>1, <2>3 DEF ExpiredTicketStatus, StepShape, Quiet, SameStatuses
  <2> QED BY <2>2, <2>3
<1>21. ASSUME NEW t \in Ticket, PatchOrder(t) PROVE StepShape
  <2>1. SameStatuses /\ tx' = tx
    BY <1>21, <1>a DEF PatchOrder, SameStatuses, Entry
  <2> QED BY <2>1 DEF StepShape, Quiet
<1>22. CASE UNCHANGED vars
  BY <1>22 DEF vars, StepShape, Quiet, SameStatuses
<1> QED
  BY <1>1, <1>2, <1>3, <1>4, <1>5, <1>6, <1>7, <1>8, <1>9, <1>10, <1>11, <1>12,
     <1>13, <1>14, <1>15, <1>16, <1>17, <1>18, <1>19, <1>20, <1>21, <1>22
  DEF Next, AutoCall, CommitDefer

-----------------------------------------------------------------------------
(* At most one ticket at the window.  The invariant alone is not inductive:   *)
(* between its two reads the auto-call relies on there being no called ticket *)
(* any more, which holds because only the holder of the queue lock calls.     *)

WindowInv ==
    /\ AtMostOneAtCounter
    /\ tx.phase = 2 => NobodyCalled

LEMMA WindowStep == TypeOK /\ WindowInv /\ StepShape => WindowInv'
<1> SUFFICES ASSUME TypeOK, WindowInv, StepShape PROVE WindowInv'
  OBVIOUS
<1>1. CASE Quiet
  BY <1>1 DEF Quiet, SameStatuses, WindowInv, AtMostOneAtCounter, NobodyCalled
<1>2. ASSUME NEW t \in Ticket, NEW from \in TicketStatus, NEW to \in TicketStatus,
             Moved(t, from, to)
      PROVE  WindowInv'
  <2>1. /\ to # "called"
        /\ to \in CounterStatus => from \in CounterStatus
    BY <1>2 DEF Moved, StatusFlow, CounterStatus
  <2>2. Moves(t, from, to) /\ (tx'.phase = 2 => tx.phase = 2)
    BY <1>2 DEF Moved
  <2>3. AtMostOneAtCounter'
    BY <2>1, <2>2 DEF Moves, WindowInv, AtMostOneAtCounter
  <2>4. (tx.phase = 2 => NobodyCalled)'
    BY <2>1, <2>2 DEF Moves, WindowInv, NobodyCalled
  <2> QED BY <2>3, <2>4 DEF WindowInv
<1>3. ASSUME NEW t \in Ticket, Called(t) PROVE WindowInv'
  <2>1. \A u \in Ticket : entries[u].status \notin CounterStatus
    BY <1>3 DEF Called, WindowInv, NobodyCalled, CounterStatus
  <2>2. \A u \in Ticket : entries'[u].status \in CounterStatus => u = t
    BY <1>3, <2>1 DEF Called, Moves
  <2> QED BY <1>3, <2>2 DEF Called, WindowInv, AtMostOneAtCounter
<1> QED BY <1>1, <1>2, <1>3 DEF StepShape

LEMMA InitWindow == Init => WindowInv
BY DEF Init, WindowInv, AtMostOneAtCounter, AbsentEntry, CounterStatus, IdleTx

LEMMA WindowInvariant == Spec => []WindowInv
<1>1. Init => WindowInv
  BY InitWindow
<1>2. TypeOK /\ WindowInv /\ [Next]_vars => WindowInv'
  BY NextShape, WindowStep
<1> QED BY <1>1, <1>2, TypeCorrect, PTL DEF Spec

(* No second ticket is ever called while one is called or being served,       *)
(* whatever the number of tickets, staff and transactions in flight.          *)
THEOREM WindowExclusive == Spec => []AtMostOneAtCounter
<1>1. WindowInv => AtMostOneAtCounter
  BY DEF WindowInv
<1> QED BY <1>1, WindowInvariant, PTL

(* A ticket's status moves along StatusFlow and nowhere else; in particular   *)
(* a ticket that was served, cancelled or closed as absent stays so.          *)
THEOREM LifecycleKept == Spec => TicketLifecycle
<1>1. TypeOK /\ [Next]_vars =>
        [\A t \in Ticket :
            entries[t].status # entries'[t].status =>
                <<entries[t].status, entries'[t].status>> \in StatusFlow]_vars
  <2> SUFFICES ASSUME TypeOK, [Next]_vars,
                      NEW t \in Ticket, entries[t].status # entries'[t].status
               PROVE  <<entries[t].status, entries'[t].status>> \in StatusFlow
    OBVIOUS
  <2>1. StepShape
    BY NextShape
  <2> QED BY <2>1 DEF StepShape, Quiet, SameStatuses, Moved, Called, Moves, StatusFlow
<1> QED BY <1>1, TypeCorrect, PTL DEF Spec, TicketLifecycle

-----------------------------------------------------------------------------
(* The refinement of ServiceWindow.                                           *)

AtWindow  == IF AtCounter = {} THEN 0 ELSE CHOOSE t \in AtCounter : TRUE
Serving   == WithStatus(entries, "serving") # {}
Served    == {t \in Ticket : entries[t].status = "served"}
Left      == {t \in Ticket : entries[t].status \in {"cancelled", "no_show"}}

(* The mapped window is the one ticket at the counter, when there is one.     *)
LEMMA AtWindowIs ==
    ASSUME WindowInv
    PROVE  /\ (\A u \in Ticket : entries[u].status \notin CounterStatus)
                  => AtWindow = 0
           /\ \A t \in Ticket : entries[t].status \in CounterStatus => AtWindow = t
<1>1. ASSUME \A u \in Ticket : entries[u].status \notin CounterStatus
      PROVE  AtWindow = 0
  BY <1>1 DEF AtWindow, AtCounter
<1>2. ASSUME NEW t \in Ticket, entries[t].status \in CounterStatus
      PROVE  AtWindow = t
  <2>1. AtCounter = {t}
    BY <1>2 DEF AtCounter, WindowInv, AtMostOneAtCounter
  <2> QED BY <2>1 DEF AtWindow
<1> QED BY <1>1, <1>2

LEMMA ZeroIsNoTicket == 0 \notin Ticket
BY DEF Ticket

LEMMA InitRefines == Init => Window!Init
<1> SUFFICES ASSUME Init PROVE Window!Init
  OBVIOUS
<1>1. \A t \in Ticket : entries[t].status = "absent"
  BY DEF Init, AbsentEntry
<1>2. DOMAIN entries = Ticket
  BY DEF Init
<1>3. Waiting(entries) = {} /\ WithStatus(entries, "serving") = {} /\ AtCounter = {}
  BY <1>1, <1>2 DEF Waiting, WithStatus, AtCounter, CounterStatus
<1>4. Served = {} /\ Left = {}
  BY <1>1 DEF Served, Left
<1> QED BY <1>3, <1>4 DEF Window!Init, Served, Left

(* A step that moves no status is no step of the window.                      *)
LEMMA QuietRefines ==
    ASSUME TypeOK, TypeOK', SameStatuses
    PROVE  UNCHANGED Window!windowVars
<1>1. DOMAIN entries = Ticket /\ DOMAIN entries' = Ticket
  BY DEF TypeOK
<1>2. /\ Waiting(entries)' = Waiting(entries)
      /\ WithStatus(entries, "serving")' = WithStatus(entries, "serving")
      /\ AtCounter' = AtCounter
      /\ Served' = Served /\ Left' = Left
  BY <1>1 DEF SameStatuses, Waiting, WithStatus, AtCounter, Served, Left
<1> QED BY <1>2 DEF Window!windowVars, Served, Left

(* Any other step is the abstract step of that name.                          *)
LEMMA MoveRefines ==
    ASSUME TypeOK, TypeOK', WindowInv, WindowInv', NEW t \in Ticket,
           NEW from, NEW to, <<from, to>> \in StatusFlow, Moves(t, from, to),
           <<from, to>> = <<"waiting", "called">> =>
               \A u \in Ticket : entries[u].status \notin CounterStatus
    PROVE  Window!Next
<1> DEFINE serving == WithStatus(entries, "serving")
<1>d. DOMAIN entries = Ticket /\ DOMAIN entries' = Ticket
  BY DEF TypeOK
<1>e. /\ Waiting(entries) = {u \in Ticket : entries[u].status = "waiting"}
      /\ Waiting(entries)' = {u \in Ticket : entries'[u].status = "waiting"}
      /\ serving = {u \in Ticket : entries[u].status = "serving"}
      /\ serving' = {u \in Ticket : entries'[u].status = "serving"}
  BY <1>d DEF Waiting, WithStatus
<1>f. /\ entries[t].status = from /\ entries'[t].status = to
      /\ \A u \in Ticket \ {t} : entries'[u].status = entries[u].status
  BY DEF Moves
<1>g. /\ (\A u \in Ticket : entries[u].status \notin CounterStatus) => AtWindow = 0
      /\ \A u \in Ticket : entries[u].status \in CounterStatus => AtWindow = u
  BY AtWindowIs
<1>h. /\ (\A u \in Ticket : entries'[u].status \notin CounterStatus) => AtWindow' = 0
      /\ \A u \in Ticket : entries'[u].status \in CounterStatus => AtWindow' = u
  <2>1. AtMostOneAtCounter'
    BY DEF WindowInv
  <2>2. ASSUME \A u \in Ticket : entries'[u].status \notin CounterStatus
        PROVE  AtWindow' = 0
    BY <2>2 DEF AtWindow, AtCounter
  <2>3. ASSUME NEW u \in Ticket, entries'[u].status \in CounterStatus
        PROVE  AtWindow' = u
    <3>1. AtCounter' = {u}
      BY <2>1, <2>3 DEF AtCounter, AtMostOneAtCounter
    <3> QED BY <3>1 DEF AtWindow
  <2> QED BY <2>2, <2>3
<1>i. \A u \in Ticket :
        entries[u].status \in CounterStatus /\ entries[t].status \in CounterStatus
            => u = t
  BY DEF WindowInv, AtMostOneAtCounter
(* A ticket that is not at the counter before or after leaves the window as   *)
(* it is.                                                                     *)
<1>j. ASSUME from \notin CounterStatus, to \notin CounterStatus
      PROVE  AtWindow' = AtWindow /\ serving' = serving
  <2>1. serving' = serving
    BY <1>e, <1>f, <1>j DEF CounterStatus
  <2>2. CASE \A u \in Ticket : entries[u].status \notin CounterStatus
    BY <1>f, <1>g, <1>h, <1>j, <2>1, <2>2
  <2>3. CASE \E u \in Ticket : entries[u].status \in CounterStatus
    BY <1>f, <1>g, <1>h, <1>j, <2>1, <2>3
  <2> QED BY <2>1, <2>2, <2>3
<1>1. CASE from = "absent" /\ to = "waiting"
  <2>1. Waiting(entries)' = Waiting(entries) \cup {t} /\ Served' = Served /\ Left' = Left
    BY <1>e, <1>f, <1>1 DEF Served, Left
  <2>2. t \notin Waiting(entries) \cup Served \cup Left
    BY <1>e, <1>f, <1>1 DEF Served, Left
  <2>3. AtWindow # t
    <3>1. CASE \A u \in Ticket : entries[u].status \notin CounterStatus
      BY <1>g, <3>1, ZeroIsNoTicket
    <3>2. CASE \E u \in Ticket : entries[u].status \in CounterStatus
      BY <1>f, <1>g, <1>1, <3>2 DEF CounterStatus
    <3> QED BY <3>1, <3>2
  <2>4. AtWindow' = AtWindow /\ serving' = serving
    BY <1>1, <1>j DEF CounterStatus
  <2>5. Window!Arrive(t)
    BY <2>1, <2>2, <2>3, <2>4 DEF Window!Arrive, AtWindow, Served, Left
  <2> QED BY <2>5 DEF Window!Next
<1>2. CASE from = "waiting" /\ to = "cancelled"
  <2>1. /\ t \in Waiting(entries)
        /\ Waiting(entries)' = Waiting(entries) \ {t}
        /\ Left' = Left \cup {t} /\ Served' = Served
    BY <1>e, <1>f, <1>2 DEF Served, Left
  <2>2. AtWindow' = AtWindow /\ serving' = serving
    BY <1>2, <1>j DEF CounterStatus
  <2>3. Window!LeaveLine(t)
    BY <2>1, <2>2 DEF Window!LeaveLine, AtWindow, Served, Left
  <2> QED BY <2>3 DEF Window!Next
<1>3. CASE from = "waiting" /\ to = "called"
  <2>1. AtWindow = 0 /\ serving = {} /\ serving' = {}
    BY <1>e, <1>f, <1>g, <1>3 DEF CounterStatus
  <2>2. AtWindow' = t
    BY <1>f, <1>h, <1>3 DEF CounterStatus
  <2>3. /\ t \in Waiting(entries)
        /\ Waiting(entries)' = Waiting(entries) \ {t}
        /\ Served' = Served /\ Left' = Left
    BY <1>e, <1>f, <1>3 DEF Served, Left
  <2>4. Window!Call(t)
    BY <2>1, <2>2, <2>3 DEF Window!Call, AtWindow, Served, Left
  <2> QED BY <2>4 DEF Window!Next
<1>4. CASE from = "called" /\ to = "serving"
  <2>1. AtWindow = t /\ AtWindow' = t /\ t # 0
    BY <1>f, <1>g, <1>h, <1>4, ZeroIsNoTicket DEF CounterStatus
  <2>2. serving = {} /\ t \in serving'
    BY <1>e, <1>f, <1>i, <1>4 DEF CounterStatus
  <2>3. Waiting(entries)' = Waiting(entries) /\ Served' = Served /\ Left' = Left
    BY <1>e, <1>f, <1>4 DEF Served, Left
  <2>4. Window!Begin
    BY <2>1, <2>2, <2>3 DEF Window!Begin, AtWindow, Served, Left
  <2> QED BY <2>4 DEF Window!Next
<1>5. CASE from = "serving" /\ to = "served"
  <2>1. AtWindow = t /\ AtWindow' = 0
    BY <1>f, <1>g, <1>h, <1>i, <1>5 DEF CounterStatus
  <2>2. t \in serving /\ serving' = {}
    BY <1>e, <1>f, <1>i, <1>5 DEF CounterStatus
  <2>3. Waiting(entries)' = Waiting(entries) /\ Served' = Served \cup {t} /\ Left' = Left
    BY <1>e, <1>f, <1>5 DEF Served, Left
  <2>4. Window!Finish
    BY <2>1, <2>2, <2>3 DEF Window!Finish, AtWindow, Served, Left
  <2> QED BY <2>4 DEF Window!Next
<1>6. CASE from = "called" /\ to \in {"waiting", "cancelled", "no_show"}
  <2>1. AtWindow = t /\ AtWindow' = 0 /\ t # 0
    BY <1>f, <1>g, <1>h, <1>i, <1>6, ZeroIsNoTicket DEF CounterStatus
  <2>2. serving = {} /\ serving' = {}
    BY <1>e, <1>f, <1>i, <1>6 DEF CounterStatus
  <2>3. CASE to = "waiting"
    <3>1. Waiting(entries)' = Waiting(entries) \cup {t} /\ Served' = Served /\ Left' = Left
      BY <1>e, <1>f, <1>6, <2>3 DEF Served, Left
    <3>2. Window!SendBack
      BY <2>1, <2>2, <3>1 DEF Window!SendBack, AtWindow, Served, Left
    <3> QED BY <3>2 DEF Window!Next
  <2>4. CASE to \in {"cancelled", "no_show"}
    <3>1. Waiting(entries)' = Waiting(entries) /\ Left' = Left \cup {t} /\ Served' = Served
      BY <1>e, <1>f, <1>6, <2>4 DEF Served, Left
    <3>2. Window!LeaveWindow
      BY <2>1, <2>2, <3>1 DEF Window!LeaveWindow, AtWindow, Served, Left
    <3> QED BY <3>2 DEF Window!Next
  <2> QED BY <1>6, <2>3, <2>4
<1> QED BY <1>1, <1>2, <1>3, <1>4, <1>5, <1>6 DEF StatusFlow

LEMMA StepRefines ==
    TypeOK /\ TypeOK' /\ WindowInv /\ WindowInv' /\ [Next]_vars
        => [Window!Next]_(Window!windowVars)
<1> SUFFICES ASSUME TypeOK, TypeOK', WindowInv, WindowInv', [Next]_vars
             PROVE  [Window!Next]_(Window!windowVars)
  OBVIOUS
<1>1. CASE Quiet
  <2>1. UNCHANGED Window!windowVars
    BY <1>1, QuietRefines DEF Quiet
  <2> QED BY <2>1
<1>2. ASSUME NEW t \in Ticket, NEW from \in TicketStatus, NEW to \in TicketStatus,
             Moved(t, from, to)
      PROVE  Window!Next
  BY <1>2, MoveRefines DEF Moved
<1>3. ASSUME NEW t \in Ticket, Called(t) PROVE Window!Next
  <2>1. \A u \in Ticket : entries[u].status \notin CounterStatus
    BY <1>3 DEF Called, WindowInv, NobodyCalled, CounterStatus
  <2>2. Moves(t, "waiting", "called") /\ <<"waiting", "called">> \in StatusFlow
    BY <1>3 DEF Called, StatusFlow
  <2> QED BY <2>1, <2>2, MoveRefines
<1> QED BY <1>1, <1>2, <1>3, NextShape DEF StepShape

(* The queue service implements the abstract window: one ticket at a time is  *)
(* called out of the line, is served or goes back or gives up, and whoever    *)
(* was served or has left never returns, for any number of tickets, customers *)
(* and staff.                                                                 *)
THEOREM RefinesWindow == Spec => ImplementsWindow
<1>1. Init => Window!Init
  BY InitRefines
<1>2. TypeOK /\ TypeOK' /\ WindowInv /\ WindowInv' /\ [Next]_vars
        => [Window!Next]_(Window!windowVars)
  BY StepRefines
<1> QED
  BY <1>1, <1>2, TypeCorrect, WindowInvariant, PTL
  DEF Spec, ImplementsWindow, Window!Spec
=============================================================================
