----------------------------- MODULE TicketQueue -----------------------------
(* One service queue: its configuration row, the tickets that join it, the    *)
(* order and the stock reservation behind each ticket, and the staff who      *)
(* call, serve, defer and close them.                                         *)
(*                                                                            *)
(* Concurrency.  Almost every operation runs in a transaction that starts by  *)
(* locking the queue row (lockById ... FOR UPDATE) and ends by trying to call *)
(* the next ticket.  Such transactions exclude each other; `tx' is the one    *)
(* that holds the lock.  It proceeds in three steps, because operations that  *)
(* do NOT take the queue lock (Serve, Skip, ExpireDue, PatchOrder) can commit *)
(* between its statements: its own writes, the read of the first status of    *)
(* the auto-call, and the read of the second with the call itself.  Until it  *)
(* commits, the rows of queue_entries and of orders that it has written       *)
(* (tx.rows, tx.orders) are locked: whoever wants to write one of them waits. *)
(* A transaction that fails rolls back and leaves nothing behind, so failed   *)
(* operations are no steps at all.                                            *)
(*                                                                            *)
(* A definition X_Bug is X with a plausible bug in it.  No specification uses *)
(* it: replacing X by it shows that the properties notice.                    *)
EXTENDS WaitingLine, Sums

CONSTANTS
    Customer,           \* verified LINE customers
    Guest,              \* the owner of a booking without a LINE identity
    Nobody,             \* the owner of a row that does not exist yet
    Staff,              \* staff requests that may be in flight together
    LastTicket,         \* BOUND: rows of queue_entries, numbered 1..LastTicket
    LastDay,            \* BOUND: business days, numbered 0..LastDay
    QueueStatus,        \* the statuses a manager may set
    Capacity,           \* the values of max_capacity a manager may set
    MaxAbsence,         \* queues.max_absence_count
    DeferralSlots,      \* queues.absence_deferral_slots
    AllowSkip,          \* queues.allow_skip
    Joins,              \* whether tickets without an order are taken (joinQueue)
    InitialStock,       \* stock_quantity of the one finite product
    Quantity,           \* units an order may ask for; 0: no finite product
    ReservationsExpire, \* INVENTORY_RESERVATION_TTL_MINUTES > 0
    StaffPatchOrders,   \* whether staff use PATCH /orders/:id/status
    LateBookings        \* whether a booking that began before midnight may get
                        \* the queue lock after it

ASSUME QueueAssumption ==
    /\ LastTicket \in Nat /\ LastDay \in Nat
    /\ "open" \in QueueStatus /\ QueueStatus \subseteq {"open", "paused", "closed"}
    /\ Capacity \subseteq Nat \ {0} /\ Capacity # {}
    /\ MaxAbsence \in Nat \ {0} /\ DeferralSlots \in Nat \ {0}
    /\ InitialStock \in Nat /\ Quantity \subseteq Nat
    /\ {AllowSkip, Joins, ReservationsExpire, StaffPatchOrders, LateBookings}
          \subseteq BOOLEAN
    /\ Guest \notin Customer /\ Nobody \notin Customer /\ Guest # Nobody

VARIABLES
    queue,      \* the row of queues: status, capacity, active, counter, counterDay
    entries,    \* the rows of queue_entries, each with its order and reservation
    today,      \* the business date
    stock,      \* branch_product_inventories.stock_quantity
    penalised,  \* customers with a penalty record less than 24 hours old
    tx,         \* the transaction that holds the queue lock
    deferral,   \* per staff request: a deferral that has read its ticket
    late        \* whether a booking begun before midnight waits for the lock

vars == <<queue, entries, today, stock, penalised, tx, deferral, late>>

Ticket == 1 .. LastTicket
Owner  == Customer \cup {Guest, Nobody}

ActiveStatus   == {"waiting", "called", "serving"}
CounterStatus  == {"called", "serving"}
TerminalStatus == {"served", "cancelled", "no_show"}
TicketStatus   == {"absent"} \cup ActiveStatus \cup TerminalStatus
LiveOrder      == {"pending", "processing"}
OrderStatus    == {"none", "completed", "cancelled"} \cup LiveOrder
HoldStatus     == {"none", "reserved", "consumed", "released", "expired"}

(* A ticket, the status of its order, and the status and quantity of the      *)
(* reservation (inventory_reservations) the order holds.                      *)
Entry == [status : TicketStatus, owner : Owner, number : Nat, day : Nat,
          priority : Nat, absence : Nat,
          order : OrderStatus, hold : HoldStatus, qty : Nat]

AbsentEntry == [status |-> "absent", owner |-> Nobody, number |-> 0, day |-> 0,
                priority |-> 0, absence |-> 0,
                order |-> "none", hold |-> "none", qty |-> 0]

QueueRow == [status : QueueStatus, capacity : Capacity,
             active : BOOLEAN, counter : Nat, counterDay : Nat]

(* Phase 0: nobody holds the lock.  1: about to read the first auto-call      *)
(* status.  2: about to read the second.                                      *)
Tx     == [phase : 0 .. 2, rows : SUBSET Ticket, orders : SUBSET Ticket]
IdleTx == [phase |-> 0, rows |-> {}, orders |-> {}]

NoDeferral == [ticket |-> 0, absence |-> 0]
Deferral   == [ticket : Ticket, absence : Nat]

TypeOK ==
    /\ queue \in QueueRow
    /\ entries \in [Ticket -> Entry]
    /\ today \in Nat
    /\ stock \in Nat
    /\ penalised \subseteq Customer
    /\ tx \in Tx
    /\ deferral \in [Staff -> Deferral \cup {NoDeferral}]
    /\ late \in BOOLEAN /\ (late => today > 0)

Init ==
    /\ \E c \in Capacity :
          queue = [status |-> "open", capacity |-> c, active |-> TRUE,
                   counter |-> 0, counterDay |-> 0]
    /\ entries = [t \in Ticket |-> AbsentEntry]
    /\ today = 0
    /\ stock = InitialStock
    /\ penalised = {}
    /\ tx = IdleTx
    /\ deferral = [s \in Staff |-> NoDeferral]
    /\ late = FALSE

-----------------------------------------------------------------------------
(* Statements shared by the operations.                                       *)

(* lockById: nobody else holds the row, and the queue is not deleted.         *)
Lock == tx.phase = 0 /\ queue.active

(* The end of an operation's own writes: it enters tryAutoCallNextWaiting     *)
(* (or commits) with these rows locked.                                       *)
EnterAutoCall(rows, orders) ==
    tx' = [phase |-> 1, rows |-> rows, orders |-> orders]

EntryUnlocked(t) == t \notin tx.rows
OrderUnlocked(t) == t \notin tx.orders

Active == {t \in Ticket : entries[t].status \in ActiveStatus}

(* countWaiting: the tickets that count against max_capacity.                 *)
CapacityStatus_WaitingOnly == {"waiting"}
CapacityStatus == {"waiting", "called", "serving"}
HasRoom == Cardinality({t \in Ticket : entries[t].status \in CapacityStatus})
              < queue.capacity

(* incrementAndGetCounter: the number it hands out on a date.                 *)
NextNumber(date) == IF queue.counterDay = date THEN queue.counter + 1 ELSE 1

(* The date a booking sees: NOW() is the start of its transaction, so one     *)
(* that began before midnight and then waited for the lock sees the day       *)
(* before.                                                                    *)
BookingDate(date) ==
    \/ date = today /\ UNCHANGED late
    \/ late /\ date = today - 1 /\ late' = FALSE

(* INSERT INTO queue_entries: a fresh row with the next number of the day.    *)
(* The database rejects a negative priority (CHECK) and a number already used *)
(* on that day (the UNIQUE constraint on queue, date and number).             *)
NewRow(t) == /\ entries[t].status = "absent"
             /\ \A u \in 1 .. t - 1 : entries[u].status # "absent"

NumberIsFree(date) ==
    \A t \in Ticket : entries[t].status # "absent" /\ entries[t].day = date
                        => entries[t].number # NextNumber(date)

CreateEntry(t, owner, priority, order, qty) ==
    \E date \in {today - 1, today} :
        /\ BookingDate(date)
        /\ NewRow(t) /\ priority >= 0 /\ NumberIsFree(date)
        /\ entries' = [entries EXCEPT ![t] =
              [status |-> "waiting", owner |-> owner, number |-> NextNumber(date),
               day |-> date, priority |-> priority, absence |-> 0,
               order |-> order, hold |-> IF qty > 0 THEN "reserved" ELSE "none",
               qty |-> qty]]
        /\ queue' = [queue EXCEPT !.counter = NextNumber(date),
                                  !.counterDay = date]

(* transitionOrder to released or expired: what the stock gets back.  Only a  *)
(* reservation that is still `reserved' moves.                                *)
Returned(t) == IF entries[t].hold = "reserved" THEN entries[t].qty ELSE 0

HoldAfter_NotConsumed(t, to) ==
    IF entries[t].hold = "reserved" /\ to # "consumed" THEN to ELSE entries[t].hold
HoldAfter_Unmarked(t, to) == entries[t].hold
HoldAfter(t, to) == IF entries[t].hold = "reserved" THEN to ELSE entries[t].hold

OrderAfter(t, to) == IF entries[t].order \in LiveOrder THEN to ELSE entries[t].order

(* A ticket leaves the line without being served: its reservation is          *)
(* released, its live order is cancelled (the refund is PaymentTransactions'  *)
(* business), and the transaction goes on to call the next ticket.            *)
Withdraw(t, status, absence) ==
    /\ entries' = [entries EXCEPT
          ![t].status  = status,
          ![t].absence = @ + absence,
          ![t].order   = OrderAfter(t, "cancelled"),
          ![t].hold    = HoldAfter(t, "released")]
    /\ stock' = stock + Returned(t)
    /\ EnterAutoCall({t}, {t})

-----------------------------------------------------------------------------
(* Joining and booking.                                                       *)

(* PENALTY_PRIORITY_DEDUCTION for a customer with an active penalty.          *)
JoinPriority(c) == IF c \in penalised THEN -3 ELSE 0

(* joinQueue: a ticket without an order.  A customer who already has an       *)
(* active ticket gets it back unchanged, which is no step.                    *)
JoinQueue(c) ==
    /\ Joins
    /\ Lock /\ queue.status = "open"
    /\ \A t \in Active : entries[t].owner # c
    /\ HasRoom
    /\ \E t \in Ticket : /\ CreateEntry(t, c, JoinPriority(c), "none", 0)
                        /\ EnterAutoCall({t}, {t})
    /\ UNCHANGED <<today, stock, penalised, deferral>>

(* findActiveOrderForLineUserInQueue: the customer's active tickets whose     *)
(* order is live.  A ticket without an order, or whose order was cancelled    *)
(* under it, is not among them.                                               *)
ActiveOrdersOf_Waiting(c) ==
    {t \in Ticket : /\ entries[t].owner = c /\ entries[t].order \in LiveOrder
                    /\ entries[t].status = "waiting"}
ActiveOrdersOf(c) ==
    {t \in Active : entries[t].owner = c /\ entries[t].order \in LiveOrder}

(* orders.create without an active order: ticket, order and reservation.      *)
BookNewOrder(c, q) ==
    /\ Lock /\ queue.status = "open"
    /\ c \in Customer => ActiveOrdersOf(c) = {}
    /\ HasRoom
    /\ stock >= q
    /\ \E t \in Ticket : /\ CreateEntry(t, c, 0, "pending", q)
                        /\ EnterAutoCall({t}, {t})
    /\ stock' = stock - q
    /\ UNCHANGED <<today, penalised, deferral>>

(* orders.create with an active order: the items are added to the newest one, *)
(* whose reservation must still be open, with no capacity check.              *)
ExtendOrder(c, q) ==
    /\ Lock /\ queue.status = "open"
    /\ stock >= q
    /\ \E t \in ActiveOrdersOf(c) :
          /\ \A u \in ActiveOrdersOf(c) : u <= t
          /\ q > 0 => entries[t].hold \in {"none", "reserved"}
          /\ entries' = [entries EXCEPT
                ![t].hold = IF q > 0 THEN "reserved" ELSE @,
                ![t].qty  = @ + q]
          /\ EnterAutoCall({t}, {t})
    /\ stock' = stock - q
    /\ UNCHANGED <<queue, today, penalised, deferral, late>>

-----------------------------------------------------------------------------
(* Leaving the line: the customer, the staff, or either through the order.    *)
(* markCancelled is guarded, so what was checked before the lock adds nothing.*)

CancellableStatus_Serving == {"waiting", "called", "serving"}
CancellableStatus == {"waiting", "called"}

CancelTicket(t) ==
    /\ entries[t].owner \in Customer
    /\ Lock /\ entries[t].status \in CancellableStatus
    /\ Withdraw(t, "cancelled", 0)
    /\ UNCHANGED <<queue, today, penalised, deferral, late>>

StaffCancelEntry(t) ==
    /\ Lock /\ entries[t].status \in CancellableStatus
    /\ Withdraw(t, "cancelled", 0)
    /\ UNCHANGED <<queue, today, penalised, deferral, late>>

CancelByOrder(t) ==
    /\ entries[t].order \in LiveOrder
    /\ Lock /\ entries[t].status \in CancellableStatus
    /\ Withdraw(t, "cancelled", 0)
    /\ UNCHANGED <<queue, today, penalised, deferral, late>>

(* skipTicket: one UPDATE, no queue lock.  Every skip of a registered         *)
(* customer writes a penalty record, fire and forget: the write may fail.     *)
SkippedPriority(p) == IF p - 1 > 0 THEN p - 1 ELSE 0

SkipTicket(t) ==
    /\ AllowSkip
    /\ entries[t].status = "waiting" /\ entries[t].owner \in Customer
    /\ EntryUnlocked(t)
    /\ entries' = [entries EXCEPT ![t].priority = SkippedPriority(@)]
    /\ penalised' \in {penalised, penalised \cup {entries[t].owner}}
    /\ UNCHANGED <<queue, today, stock, tx, deferral, late>>

(* 24 hours after the customer's last penalty record.                         *)
PenaltyExpires(c) ==
    /\ c \in penalised
    /\ penalised' = penalised \ {c}
    /\ UNCHANGED <<queue, entries, today, stock, tx, deferral, late>>

-----------------------------------------------------------------------------
(* Staff operations.                                                          *)

(* callNextTicket: a conflict if a ticket is called, else the auto-call.      *)
CallNextTicket ==
    /\ Lock
    /\ WithStatus(entries, "called") = {}
    /\ EnterAutoCall({}, {})
    /\ UNCHANGED <<queue, entries, today, stock, penalised, deferral, late>>

(* serveTicket: a guarded UPDATE in a transaction without the queue lock.     *)
ServeTicket(t) ==
    /\ entries[t].status = "called"
    /\ EntryUnlocked(t)
    /\ entries' = [entries EXCEPT ![t].status = "serving"]
    /\ UNCHANGED <<queue, today, stock, penalised, tx, deferral, late>>

(* completeTicket: consumes the reservation and completes the live order.     *)
CompleteTicket(t) ==
    /\ Lock /\ entries[t].status = "serving"
    /\ entries' = [entries EXCEPT
          ![t].status = "served",
          ![t].order  = OrderAfter(t, "completed"),
          ![t].hold   = HoldAfter(t, "consumed")]
    /\ EnterAutoCall({t}, {t})
    /\ UNCHANGED <<queue, today, stock, penalised, deferral, late>>

NoShowTicket(t) ==
    /\ Lock /\ entries[t].status = "called"
    /\ Withdraw(t, "no_show", 0)
    /\ UNCHANGED <<queue, today, penalised, deferral, late>>

(* deferCalledTicket reads the ticket, and with it absence_count, before it   *)
(* waits for the queue lock ...                                               *)
BeginDefer(s, t) ==
    /\ deferral[s] = NoDeferral
    /\ entries[t].status = "called"
    /\ deferral' = [deferral EXCEPT
          ![s] = [ticket |-> t, absence |-> entries[t].absence]]
    /\ UNCHANGED <<queue, entries, today, stock, penalised, tx, late>>

EndRequest(s) == deferral' = [deferral EXCEPT ![s] = NoDeferral]

(* ... and decides with what it read.  markNoShow and deferCalledBySlots are  *)
(* guarded by status = 'called': if the ticket has moved on, the request      *)
(* fails.                                                                     *)
IsLastAbsence_OffByOne(absence) == absence + 1 > MaxAbsence
IsLastAbsence(absence) == absence + 1 >= MaxAbsence

DeferNoShow(s) ==
    LET t == deferral[s].ticket IN
    /\ deferral[s] # NoDeferral
    /\ Lock /\ entries[t].status = "called"
    /\ IsLastAbsence(deferral[s].absence)
    /\ Withdraw(t, "no_show", 1)
    /\ EndRequest(s)
    /\ UNCHANGED <<queue, today, penalised, late>>

(* The ticket goes DeferralSlots places back.  If nobody else was waiting it  *)
(* stays alone in the line and the transaction commits without an auto-call.  *)
CallsAfterDefer_Never(waitingBefore) == FALSE
CallsAfterDefer(waitingBefore) == waitingBefore # {}

DeferBack(s) ==
    LET t == deferral[s].ticket
        waitingBefore == Waiting(entries) IN
    /\ deferral[s] # NoDeferral
    /\ Lock /\ entries[t].status = "called"
    /\ ~ IsLastAbsence(deferral[s].absence)
    /\ entries' \in DeferCalledBySlots(entries, t, DeferralSlots)
    /\ IF CallsAfterDefer(waitingBefore)
       THEN EnterAutoCall(waitingBefore \cup {t}, {})
       ELSE UNCHANGED tx
    /\ EndRequest(s)
    /\ UNCHANGED <<queue, today, stock, penalised, late>>

DeferFails(s) ==
    /\ deferral[s] # NoDeferral
    /\ tx.phase = 0 /\ entries[deferral[s].ticket].status # "called"
    /\ EndRequest(s)
    /\ UNCHANGED <<queue, entries, today, stock, penalised, tx, late>>

-----------------------------------------------------------------------------
(* tryAutoCallNextWaiting: two reads, then the call.                          *)

AutoCallReads_Swapped == <<"serving", "called">>
AutoCallReads == <<"called", "serving">>

Commit == tx' = IdleTx

AutoCallFirstRead ==
    /\ tx.phase = 1
    /\ IF WithStatus(entries, AutoCallReads[1]) = {}
       THEN tx' = [tx EXCEPT !.phase = 2]
       ELSE Commit
    /\ UNCHANGED <<queue, entries, today, stock, penalised, deferral, late>>

(* The counter is taken, or nobody waits: commit without a call.              *)
AutoCallNobody ==
    /\ tx.phase = 2
    /\ \/ WithStatus(entries, AutoCallReads[2]) # {}
       \/ Waiting(entries) = {}
    /\ Commit
    /\ UNCHANGED <<queue, entries, today, stock, penalised, deferral, late>>

CallableHeads_Any == Waiting(entries)
CallableHeads == Heads(entries)

AutoCallHead ==
    /\ tx.phase = 2
    /\ WithStatus(entries, AutoCallReads[2]) = {}
    /\ \E t \in CallableHeads :
          entries' = [entries EXCEPT ![t].status = "called"]
    /\ Commit
    /\ UNCHANGED <<queue, today, stock, penalised, deferral, late>>

-----------------------------------------------------------------------------
(* The manager and the clock.                                                 *)

(* updateQueue / updateQueueStatus: a plain UPDATE, which waits for the row.  *)
UpdateQueue(status, capacity) ==
    /\ Lock
    /\ queue' = [queue EXCEPT !.status = status, !.capacity = capacity]
    /\ UNCHANGED <<entries, today, stock, penalised, tx, deferral, late>>

(* deleteQueue: refused while a ticket is active (countLiveByQueueIds).       *)
MayDelete_NoneWaiting == Waiting(entries) = {}
MayDelete == Active = {}

DeleteQueue ==
    /\ Lock /\ MayDelete
    /\ queue' = [queue EXCEPT !.active = FALSE]
    /\ UNCHANGED <<entries, today, stock, penalised, tx, deferral, late>>

Midnight ==
    /\ today < LastDay
    /\ today' = today + 1
    /\ late' \in {FALSE, LateBookings}
    /\ UNCHANGED <<queue, entries, stock, penalised, tx, deferral>>

(* counterReset.job: only queues whose counter is of another date.            *)
NeedsReset_Always == TRUE
NeedsReset == queue.counterDay # today

ResetCounter ==
    /\ Lock /\ NeedsReset
    /\ queue' = [queue EXCEPT !.counter = 0, !.counterDay = today]
    /\ UNCHANGED <<entries, today, stock, penalised, tx, deferral, late>>

(* inventoryService.expireDue, for one of the orders it claims: a live order  *)
(* whose reservation is past its time to live, whatever its ticket is doing.  *)
(* It takes no queue lock and calls nobody.  The claim skips locked rows.     *)
ExpiredTicketStatus_WaitingOnly(status) ==
    IF status = "waiting" THEN "cancelled" ELSE status
ExpiredTicketStatus_Any(status) == "cancelled"
ExpiredTicketStatus(status) ==
    IF status \in {"waiting", "called"} THEN "cancelled" ELSE status

ExpireDue(t) ==
    /\ ReservationsExpire
    /\ entries[t].hold = "reserved" /\ entries[t].order \in LiveOrder
    /\ EntryUnlocked(t) /\ OrderUnlocked(t)
    /\ entries' = [entries EXCEPT
          ![t].order  = "cancelled",
          ![t].hold   = "expired",
          ![t].status = ExpiredTicketStatus(@)]
    /\ stock' = stock + Returned(t)
    /\ UNCHANGED <<queue, today, penalised, tx, deferral, late>>

(* PATCH /orders/:id/status with `processing': the status is overwritten      *)
(* whatever it was.  (`completed' is refused for an order with a ticket, and  *)
(* `cancelled' is CancelByOrder.)                                             *)
PatchOrder(t) ==
    /\ StaffPatchOrders
    /\ entries[t].order # "none"
    /\ OrderUnlocked(t)
    /\ entries' = [entries EXCEPT ![t].order = "processing"]
    /\ UNCHANGED <<queue, today, stock, penalised, tx, deferral, late>>

-----------------------------------------------------------------------------
AutoCall == AutoCallFirstRead \/ AutoCallNobody \/ AutoCallHead

CommitDefer(s) == DeferNoShow(s) \/ DeferBack(s) \/ DeferFails(s)

Next ==
    \/ \E c \in Customer : JoinQueue(c) \/ PenaltyExpires(c)
    \/ \E c \in Customer \cup {Guest}, q \in Quantity : BookNewOrder(c, q)
    \/ \E c \in Customer, q \in Quantity : ExtendOrder(c, q)
    \/ \E t \in Ticket :
          \/ CancelTicket(t) \/ StaffCancelEntry(t) \/ CancelByOrder(t)
          \/ SkipTicket(t) \/ ServeTicket(t) \/ CompleteTicket(t)
          \/ NoShowTicket(t) \/ ExpireDue(t) \/ PatchOrder(t)
          \/ \E s \in Staff : BeginDefer(s, t)
    \/ \E s \in Staff : CommitDefer(s)
    \/ CallNextTicket
    \/ AutoCall
    \/ \E status \in QueueStatus, c \in Capacity :
          UpdateQueue(status, c)
    \/ DeleteQueue \/ Midnight \/ ResetCounter

Spec == Init /\ [][Next]_vars

-----------------------------------------------------------------------------
(* Safety.                                                                    *)

(* One service window: however the auto-call's two reads interleave with      *)
(* staff who serve and with reservations that expire, no second ticket is     *)
(* called while one is called or being served (tryAutoCallNextWaiting).       *)
AtMostOneAtCounter ==
    \A t, u \in Ticket :
        entries[t].status \in CounterStatus /\ entries[u].status \in CounterStatus
            => t = u

(* The rows are in turn: no booking that began before midnight got in behind  *)
(* one of the new day.                                                        *)
InTurn ==
    \A t, u \in Ticket :
        t < u /\ entries[u].status # "absent" => entries[t].day <= entries[u].day

(* The counter never hands out a number that is taken, through resets,        *)
(* midnights and bookings that end after the midnight they began before: no   *)
(* booking of today is rejected by the UNIQUE constraint, unless one of       *)
(* yesterday set the counter back (incrementAndGetCounter, counterReset.job). *)
NextNumberIsFree == InTurn => NumberIsFree(today)

(* A LINE customer has at most one active ticket whose order is live: a       *)
(* second booking extends the first (orders.create).                          *)
OneLiveOrderPerCustomer ==
    \A t, u \in Active :
        /\ entries[t].owner = entries[u].owner /\ entries[t].owner \in Customer
        /\ entries[t].order \in LiveOrder /\ entries[u].order \in LiveOrder
        => t = u

(* A deleted queue has no ticket left to serve, whatever was in flight when   *)
(* it was deleted (deleteQueue checks and deletes under the queue lock).      *)
DeletedQueueIsEmpty == ~ queue.active => Active = {}

UnitsHeld(status) ==
    SumTo(LastTicket,
          [t \in Ticket |-> IF entries[t].hold \in status THEN entries[t].qty ELSE 0])

(* Every unit is on the shelf, reserved, or consumed: a cancellation, a       *)
(* no-show and an expiry give the stock back exactly once between them        *)
(* (inventoryReservationsRepository.transitionOrder).                         *)
StockConserved == stock + UnitsHeld({"reserved", "consumed"}) = InitialStock

(* Ticket, order and reservation tell one story.                              *)
Open(t)      == entries[t].order \in {"none"} \cup LiveOrder
                /\ entries[t].hold \in {"none", "reserved"}
Fulfilled(t) == entries[t].order \in {"none", "completed"}
                /\ entries[t].hold \in {"none", "consumed"}
Revoked(t)   == entries[t].order \in {"none", "cancelled"}
                /\ entries[t].hold \in {"none", "released", "expired"}

(* While nothing expires and nobody patches an order: an active ticket has a  *)
(* live order and an open reservation, a served one a completed order and     *)
(* consumed stock, a cancelled or no-show one a cancelled order and released  *)
(* stock, in every committed state (completeTicket, cancelTicket,             *)
(* cancelByOrderId, noShowTicket, deferCalledTicket).                         *)
TicketMatchesOrder ==
    \A t \in Ticket :
        /\ entries[t].status \in ActiveStatus => Open(t)
        /\ entries[t].status = "served" => Fulfilled(t)
        /\ entries[t].status \in {"cancelled", "no_show"} => Revoked(t)

(* The same with reservations that expire: only a ticket at the window can be *)
(* left with an order that was cancelled under it (expireDue).                *)
TicketMatchesOrderOrExpired ==
    \A t \in Ticket :
        /\ entries[t].status \in {"waiting", "called"} => Open(t)
        /\ entries[t].status = "serving" => Open(t) \/ Revoked(t)
        /\ entries[t].status = "served" => Fulfilled(t) \/ Revoked(t)
        /\ entries[t].status \in {"cancelled", "no_show"} => Revoked(t)

(* What a served ticket handed out has left the stock.                        *)
(* 03_DOMAIN_AND_FLOWS.md: `Completion consumes the reservation'.             *)
ServedGoodsConsumed ==
    \A t \in Ticket :
        entries[t].status = "served" /\ entries[t].qty > 0
            => entries[t].hold = "consumed"

AtCounter == {t \in Ticket : entries[t].status \in CounterStatus}

(* No transaction commits leaving the window free while somebody waits,       *)
(* except the one ticket that was just deferred with nobody behind it         *)
(* (deferCalledTicket's waitingBeforeDefer).                                  *)
NoIdleWindow ==
    tx.phase = 0 /\ AtCounter = {} /\ Waiting(entries) # {} =>
        \E t \in Ticket : Waiting(entries) = {t} /\ entries[t].absence > 0

(* An active ticket has been absent fewer than MaxAbsence times.              *)
(* 01_PRODUCT_REQUIREMENTS.md: `the third absence cancels and refunds it'.    *)
AbsencesBelowLimit ==
    \A t \in Active : entries[t].absence < MaxAbsence

(* The count that decides is read before the queue lock, and may be of an     *)
(* earlier visit to the window by then.  Each further request in flight lets  *)
(* a ticket be absent once more than the limit, and not more often, however   *)
(* many requests follow each other (deferCalledTicket).                       *)
AbsencesOverrunLittle ==
    \A t \in Active : entries[t].absence < MaxAbsence + Cardinality(Staff) - 1

-----------------------------------------------------------------------------
(* What a step may never do.                                                  *)

StatusFlow ==
    {<<"absent", "waiting">>, <<"waiting", "called">>, <<"waiting", "cancelled">>,
     <<"called", "serving">>, <<"called", "waiting">>, <<"called", "cancelled">>,
     <<"called", "no_show">>, <<"serving", "served">>}

(* The lifecycle of a ticket: closed tickets stay closed, only a ticket that  *)
(* was called is served or marked absent, and a ticket being served can only  *)
(* be completed (the mark... UPDATEs of queueEntriesRepository).              *)
TicketLifecycle ==
    [][\A t \in Ticket :
          entries[t].status # entries'[t].status =>
              <<entries[t].status, entries'[t].status>> \in StatusFlow]_vars

(* max_capacity is never exceeded by a step that adds a ticket, also when it  *)
(* was lowered a moment ago (joinQueue and orders.create check it under the   *)
(* queue lock).                                                               *)
CapacityRespected ==
    [][Cardinality(Active') > Cardinality(Active) =>
          Cardinality(Active') <= queue.capacity]_vars

(* First come, first served: a ticket that has never been absent is not       *)
(* passed by a later ticket of its day, whatever deferrals have renumbered in *)
(* between (listWaiting, deferCalledBySlots).  Customers' own skips aside.    *)
FirstComeFirstServed ==
    [][\A t, u \in Ticket :
          /\ entries[t].status = "waiting" /\ entries'[t].status = "called"
          /\ entries[u].status = "waiting" /\ entries[u].absence = 0
          /\ entries[u].day = entries[t].day
          => entries[t].number <= entries[u].number]_vars

MinOf(a, b) == IF a <= b THEN a ELSE b

(* A deferral puts the ticket exactly DeferralSlots places back, or last if   *)
(* fewer wait, and changes the order of nobody else (deferCalledBySlots).     *)
DeferralIsExact ==
    [][\A t \in Ticket :
          entries[t].status = "called" /\ entries'[t].status = "waiting" =>
              /\ Cardinality(Ahead(entries', t))
                    = MinOf(DeferralSlots, Cardinality(Waiting(entries)))
              /\ \A u, v \in Waiting(entries) :
                    Before(entries[u], entries[v])
                        => Before(entries'[u], entries'[v])]_vars

-----------------------------------------------------------------------------
(* Liveness.  The auto-call is a straight-line program of the server (WF).    *)
(* Staff keep working: they take a called ticket to the window (WF: that      *)
(* request waits for the row alone), complete the one being served and press  *)
(* `call next' when the window is free.  The last two wait for the queue      *)
(* lock, which other transactions keep taking and releasing; PostgreSQL       *)
(* serves lock waiters in order, hence SF.                                    *)
Fairness ==
    /\ WF_vars(AutoCall)
    /\ WF_vars(\E t \in Ticket : ServeTicket(t))
    /\ SF_vars(\E t \in Ticket : CompleteTicket(t))
    /\ SF_vars(CallNextTicket /\ AtCounter = {} /\ Waiting(entries) # {})

FairSpec == Spec /\ Fairness

(* Nobody waits for ever: every ticket that waits is, one day, served,        *)
(* cancelled or closed as absent, although deferrals send it back and         *)
(* renumber the line (the whole queue service).                               *)
EveryTicketEnds ==
    \A t \in Ticket :
        entries[t].status = "waiting" ~> entries[t].status \in TerminalStatus

-----------------------------------------------------------------------------
(* The abstract window this queue implements.                                 *)
Window == INSTANCE ServiceWindow WITH
    Ticket    <- Ticket,
    NoTicket  <- 0,
    line      <- Waiting(entries),
    window    <- IF AtCounter = {} THEN 0 ELSE CHOOSE t \in AtCounter : TRUE,
    inService <- WithStatus(entries, "serving") # {},
    served    <- {t \in Ticket : entries[t].status = "served"},
    left      <- {t \in Ticket : entries[t].status \in {"cancelled", "no_show"}}

(* Every behaviour of the queue service is one of the abstract window: each   *)
(* step of each operation, seen through the mapping, is one abstract step or  *)
(* none (the whole queue service).                                            *)
ImplementsWindow == Window!Spec

(* The abstract line.  It is one within one business day and without          *)
(* customers' own skips; the position of a ticket is what the code counts.    *)
Line == INSTANCE PositionalLine WITH
    Slots  <- DeferralSlots,
    line   <- LineOf(entries),
    window <- AtCounter

(* Priorities and numbers move the line as positions would: a new ticket goes *)
(* to the end, the first is called, a deferred one is put back DeferralSlots  *)
(* places, nobody else moves (listWaiting, deferCalledBySlots, tryAutoCall).  *)
ImplementsLine == Line!Spec
=============================================================================
