-------------------------- MODULE NotificationOutbox --------------------------
(* The LINE notices of one ticket: their rows in the notifications table (the *)
(* outbox), the dispatchers that turn rows into BullMQ jobs, the worker runs  *)
(* that deliver a job's row, and what LINE accepted.                          *)
(*                                                                            *)
(* Three stores change one after the other, never together: PostgreSQL, Redis *)
(* and LINE.  Every statement, every command to Redis and every request to    *)
(* LINE is a step of its own; what goes wrong between two of them is a fault. *)
(* `Fault' names the kinds of fault that may happen and MaxFaults bounds how  *)
(* many.  The passage of time (a retry that falls due, a lease that expires)  *)
(* is no state: what it would allow is allowed at any moment.                 *)
(*                                                                            *)
(* A definition X_Bug is X with a plausible bug in it, used nowhere.          *)
EXTENDS Integers, FiniteSets

CONSTANTS
    Notification,   \* the rows a ticket may get, one per event key
    Terminal,       \* those of them enqueued when the ticket is closed
    Scanned,        \* those that a scan enqueues, outside the ticket's transaction
    Dispatcher,     \* dispatch runs that may be under way together
    Run,            \* BOUND: deliveries under way together (worker concurrency)
    MaxAttempts,    \* notifications.max_attempts
    MaxManual,      \* BOUND: manual retries of one row
    MaxStalls,      \* BullMQ's maxStalledCount
    Fault,          \* the kinds of fault that may happen
    MaxFaults       \* BOUND: faults altogether

(* "dispatcher", "worker": the run ends where it is, because its process dies *)
(* (or, for a dispatcher, because markDispatchRetry fails too).  "outage":    *)
(* queue.add fails, and no job is added.  "add": it adds the job and its      *)
(* answer is lost, so that it fails as well.  "database": a statement fails.  *)
(* "response": LINE accepts a message but its answer is lost.  "timeout": a   *)
(* delivery outlasts the job timeout and goes on.                             *)
FaultKind == {"dispatcher", "worker", "outage", "add", "database",
              "response", "timeout"}

ASSUME OutboxAssumption ==
    /\ Terminal \subseteq Notification /\ Scanned \subseteq Notification \ Terminal
    /\ MaxAttempts \in Nat \ {0}
    /\ MaxManual \in Nat /\ MaxStalls \in Nat /\ MaxFaults \in Nat
    /\ Fault \subseteq FaultKind

VARIABLES
    rows,           \* the rows of notifications
    closed,         \* whether the ticket is served, cancelled or a no-show
    enabled,        \* whether the customer's preferences allow its notices
    jobs,           \* the delivery jobs in Redis
    dispatching,    \* per dispatcher: the rows it has claimed
    delivering,     \* per run: the delivery it executes
    accepted,       \* per row: the messages LINE accepted
    faults          \* the number of faults so far

vars == <<rows, closed, enabled, jobs, dispatching, delivering, accepted, faults>>

(* A job id is that of its row, with the number of the manual retry that      *)
(* asked for it: 'line-notification-' || id [|| '-manual-' || generation].    *)
Generation == 0 .. MaxManual
JobId      == Notification \X Generation
NoJob      == -1

DueStatus    == {"pending", "processing"}
FinalStatus  == {"sent", "failed", "cancelled"}
Row == [status : {"absent"} \cup DueStatus \cup FinalStatus,
        dispatch : {"pending", "dispatching", "dispatched"},
        dispatchJob : Generation,                \* dispatch_job_id
        attempts : 0 .. MaxAttempts,             \* attempt_count
        processingJob : Generation \cup {NoJob}, \* processing_job_id
        retryable : BOOLEAN,                     \* the category of last_error
        manual : Generation]                     \* manual_retry_count

AbsentRow == [status |-> "absent", dispatch |-> "pending", dispatchJob |-> 0,
              attempts |-> 0, processingJob |-> NoJob, retryable |-> FALSE,
              manual |-> 0]
NewRow    == [AbsentRow EXCEPT !.status = "pending"]

(* tries and stalls are BullMQ's attemptsMade and stalledCounter.             *)
Job    == [state : {"none", "waiting", "active", "completed", "failed"},
           tries : 0 .. MaxAttempts, stalls : 0 .. MaxStalls + 1]
AnyJob == [state |-> "none", tries |-> 0, stalls |-> 0]

(* The batch still to be dispatched, the row at hand, and how far it is.      *)
NoRow    == <<>>
Batch    == [todo : SUBSET JobId, at : {NoRow}, phase : {"ready"}]
            \cup [todo : SUBSET JobId, at : JobId, phase : {"added", "error"}]
IdleBatch == [todo |-> {}, at |-> NoRow, phase |-> "ready"]

(* A delivery: its job, the attempt it claimed, its next statement, and       *)
(* whether BullMQ still waits for it.                                         *)
Delivery == [id : JobId, attempt : 1 .. MaxAttempts,
             step : {"flex", "text", "sent", "retry", "refused"}, awaited : BOOLEAN]
Idle     == [step |-> "idle"]

Message == {"flex", "text"}

TypeOK ==
    /\ rows \in [Notification -> Row]
    /\ closed \in BOOLEAN /\ enabled \in BOOLEAN
    /\ jobs \in [JobId -> Job]
    /\ dispatching \in [Dispatcher -> Batch]
    /\ delivering \in [Run -> Delivery \cup {Idle}]
    /\ accepted \in [Notification -> SUBSET Message]
    /\ faults \in 0 .. MaxFaults

Init ==
    /\ rows = [n \in Notification |-> AbsentRow]
    /\ closed = FALSE
    /\ enabled \in BOOLEAN
    /\ jobs = [id \in JobId |-> AnyJob]
    /\ dispatching = [d \in Dispatcher |-> IdleBatch]
    /\ delivering = [r \in Run |-> Idle]
    /\ accepted = [n \in Notification |-> {}]
    /\ faults = 0

Suffers(kind) ==
    /\ kind \in Fault /\ faults < MaxFaults
    /\ faults' = faults + 1

-----------------------------------------------------------------------------
(* The ticket and the customer.                                               *)

(* enqueue, inside the transaction that moves the ticket, or by a scan that   *)
(* read the ticket before and does not look again.  A second insert of the    *)
(* same event key changes nothing.                                            *)
Enqueue(n) ==
    /\ (~ closed \/ n \in Scanned) /\ enabled
    /\ n \notin Terminal /\ rows[n].status = "absent"
    /\ rows' = [rows EXCEPT ![n] = NewRow]
    /\ UNCHANGED <<closed, enabled, jobs, dispatching, delivering, accepted, faults>>

(* cancelPendingForEntry.                                                     *)
Obsolete_Claimed == DueStatus
Obsolete == {"pending"}

(* enqueueTerminalNotification: the ticket is closed, its other notices are   *)
(* cancelled, and one says so.                                                *)
CloseTicket(n) ==
    /\ ~ closed /\ n \in Terminal
    /\ closed' = TRUE
    /\ rows' = [m \in Notification |->
                  IF m = n
                  THEN IF enabled THEN NewRow ELSE rows[m]
                  ELSE IF rows[m].status \in Obsolete
                  THEN [rows[m] EXCEPT !.status = "cancelled"]
                  ELSE rows[m]]
    /\ UNCHANGED <<enabled, jobs, dispatching, delivering, accepted, faults>>

(* The customer follows, blocks, or sets the preferences.                     *)
SetPreference ==
    /\ enabled' = ~ enabled
    /\ UNCHANGED <<rows, closed, jobs, dispatching, delivering, accepted, faults>>

-----------------------------------------------------------------------------
(* The dispatcher: dispatchNotificationOutbox.                                *)

Dispatchable_NoLease(n) ==
    rows[n].status = "pending" /\ rows[n].dispatch = "pending"
Dispatchable(n) ==
    rows[n].status = "pending" /\ rows[n].dispatch \in {"pending", "dispatching"}

(* claimForDispatch.  A row whose claim is older than the lease is claimed    *)
(* again; a batch is any set of due rows (LIMIT, SKIP LOCKED).                *)
ClaimForDispatch(d, batch) ==
    /\ dispatching[d] = IdleBatch
    /\ batch # {} /\ \A n \in batch : Dispatchable(n)
    /\ rows' = [n \in Notification |->
                  IF n \in batch THEN [rows[n] EXCEPT !.dispatch = "dispatching"]
                  ELSE rows[n]]
    /\ dispatching' = [dispatching EXCEPT ![d].todo =
                         {<<n, rows[n].dispatchJob>> : n \in batch}]
    /\ UNCHANGED <<closed, enabled, jobs, delivering, accepted, faults>>

(* queue.add: an id that Redis still knows, in whatever state, is no new job. *)
Added(id) ==
    IF jobs[id].state = "none" THEN [AnyJob EXCEPT !.state = "waiting"] ELSE jobs[id]

TakeFromBatch(d, id, phase) ==
    /\ dispatching[d].phase = "ready" /\ id \in dispatching[d].todo
    /\ dispatching' = [dispatching EXCEPT ![d] =
                         [todo |-> @.todo \ {id}, at |-> id, phase |-> phase]]

AddJob(d, id) ==
    /\ TakeFromBatch(d, id, "added")
    /\ jobs' = [jobs EXCEPT ![id] = Added(id)]
    /\ UNCHANGED <<rows, closed, enabled, delivering, accepted, faults>>

AddFails(d, id) ==
    /\ TakeFromBatch(d, id, "error")
    /\ \/ Suffers("outage") /\ UNCHANGED jobs
       \/ Suffers("add") /\ jobs' = [jobs EXCEPT ![id] = Added(id)]
    /\ UNCHANGED <<rows, closed, enabled, delivering, accepted>>

RowDone(d) ==
    dispatching' = [dispatching EXCEPT ![d].at = NoRow, ![d].phase = "ready"]

MarkDispatched(d) ==
    /\ dispatching[d].phase = "added"
    /\ LET n == dispatching[d].at[1]
       IN  rows' = IF rows[n].dispatch = "pending" THEN rows
                   ELSE [rows EXCEPT ![n].dispatch = "dispatched",
                                     ![n].dispatchJob = dispatching[d].at[2]]
    /\ RowDone(d)
    /\ UNCHANGED <<closed, enabled, jobs, delivering, accepted, faults>>

MarkDispatchedFails(d) ==
    /\ dispatching[d].phase = "added"
    /\ Suffers("database")
    /\ dispatching' = [dispatching EXCEPT ![d].phase = "error"]
    /\ UNCHANGED <<rows, closed, enabled, jobs, delivering, accepted>>

MarkDispatchRetry(d) ==
    /\ dispatching[d].phase = "error"
    /\ LET n == dispatching[d].at[1]
       IN  rows' = IF rows[n].status # "pending" THEN rows
                   ELSE [rows EXCEPT ![n].dispatch = "pending"]
    /\ RowDone(d)
    /\ UNCHANGED <<closed, enabled, jobs, delivering, accepted, faults>>

(* The rest of the batch keeps its claims until they expire.                  *)
DispatcherDies(d) ==
    /\ dispatching[d] # IdleBatch
    /\ Suffers("dispatcher")
    /\ dispatching' = [dispatching EXCEPT ![d] = IdleBatch]
    /\ UNCHANGED <<rows, closed, enabled, jobs, delivering, accepted>>

-----------------------------------------------------------------------------
(* BullMQ, as far as its jobs are concerned (external).                       *)

FailedTry(job) ==
    [state |-> IF job.tries + 1 < MaxAttempts THEN "waiting" ELSE "failed",
     tries |-> job.tries + 1, stalls |-> job.stalls]

(* The lock of a worker that died expires.                                    *)
Stalled(job) ==
    [state |-> IF job.stalls < MaxStalls THEN "waiting" ELSE "failed",
     tries |-> job.tries, stalls |-> job.stalls + 1]

Ended(job, state) == [job EXCEPT !.state = state]

-----------------------------------------------------------------------------
(* The worker: processOutboxNotificationJob.                                  *)

(* claimForDelivery: the WHERE clause of the claim.                           *)
Deliverable_AnyJob(id) ==
    LET row == rows[id[1]]
    IN  /\ row.dispatch \in {"dispatching", "dispatched"}
        /\ row.attempts < MaxAttempts
        /\ row.status \in DueStatus
Deliverable_Unbounded(id) ==
    LET row == rows[id[1]]
    IN  /\ row.dispatch \in {"dispatching", "dispatched"}
        /\ \/ row.status = "pending"
           \/ row.status = "processing" /\ row.processingJob = id[2]
Deliverable(id) ==
    LET row == rows[id[1]]
    IN  /\ row.dispatch \in {"dispatching", "dispatched"}
        /\ row.attempts < MaxAttempts
        /\ \/ row.status = "pending"
           \/ row.status = "processing" /\ row.processingJob = id[2]

(* The row it returns.                                                        *)
Claimed_Uncounted(id) ==
    [rows[id[1]] EXCEPT !.status = "processing", !.dispatch = "dispatched",
                        !.processingJob = id[2],
                        !.attempts = IF rows[id[1]].status = "pending" THEN @ + 1 ELSE @]
Claimed(id) ==
    [rows[id[1]] EXCEPT !.status = "processing", !.dispatch = "dispatched",
                        !.processingJob = id[2], !.attempts = @ + 1]

StartDelivery(r, id) ==
    /\ delivering[r] = Idle /\ jobs[id].state = "waiting"
    /\ Deliverable(id)
    /\ rows' = [rows EXCEPT ![id[1]] = Claimed(id)]
    /\ delivering' = [delivering EXCEPT ![r] =
          [id |-> id, attempt |-> Claimed(id).attempts,
           step |-> "flex", awaited |-> TRUE]]
    /\ jobs' = [jobs EXCEPT ![id].state = "active"]
    /\ UNCHANGED <<closed, enabled, dispatching, accepted, faults>>

(* The claim finds no row to deliver: the job is done.                        *)
NothingToDeliver(r, id) ==
    /\ delivering[r] = Idle /\ jobs[id].state = "waiting"
    /\ ~ Deliverable(id)
    /\ jobs' = [jobs EXCEPT ![id] = Ended(@, "completed")]
    /\ UNCHANGED <<rows, closed, enabled, dispatching, delivering, accepted, faults>>

(* The claim fails, or the worker dies before it, or when it found no row.    *)
ClaimFails(r, id) ==
    /\ delivering[r] = Idle /\ jobs[id].state = "waiting"
    /\ \/ Suffers("database") /\ jobs' = [jobs EXCEPT ![id] = FailedTry(@)]
       \/ Suffers("worker") /\ jobs' = [jobs EXCEPT ![id] = Stalled(@)]
    /\ UNCHANGED <<rows, closed, enabled, dispatching, delivering, accepted>>

(* The run of r ends, and its job becomes `job' if BullMQ still waits for it. *)
EndRun(r, job) ==
    /\ delivering' = [delivering EXCEPT ![r] = Idle]
    /\ jobs' = IF delivering[r].awaited
               THEN [jobs EXCEPT ![delivering[r].id] = job]
               ELSE jobs

(* The job and the row of a run.                                              *)
JobOf(r) == jobs[delivering[r].id]
RowOf(r) == delivering[r].id[1]

(* The outcome is in the row.  BullMQ is told next, unless the worker dies.   *)
Conclude(r, job) ==
    \/ EndRun(r, job) /\ UNCHANGED faults
    \/ EndRun(r, Stalled(JobOf(r))) /\ Suffers("worker")

Cancellable_Unclaimed == {"pending", "failed"}
Cancellable == {"pending", "processing", "failed"}

(* canDeliver says no: the row is cancelled.                                  *)
Decline(r) ==
    /\ delivering[r].step = "flex" /\ ~ enabled
    /\ rows' = IF rows[RowOf(r)].status \in Cancellable
               THEN [rows EXCEPT ![RowOf(r)].status = "cancelled"]
               ELSE rows
    /\ Conclude(r, Ended(JobOf(r), "completed"))
    /\ UNCHANGED <<closed, enabled, dispatching, accepted>>

(* One push to LINE (external).  A message with the retry key of one that was *)
(* accepted is refused as a conflict.                                         *)
Continue(r, step) == delivering' = [delivering EXCEPT ![r].step = step]

Accept(r, message) ==
    /\ message \notin accepted[RowOf(r)]
    /\ accepted' = [accepted EXCEPT ![RowOf(r)] = @ \cup {message}]

(* The Flex message.  Whatever error it meets, the text message follows, with *)
(* a retry key of its own.                                                    *)
PushFlex(r) ==
    /\ delivering[r].step = "flex" /\ enabled
    /\ \/ Accept(r, "flex") /\ Continue(r, "sent") /\ UNCHANGED faults
       \/ Accept(r, "flex") /\ Continue(r, "text") /\ Suffers("response")
       \/ Continue(r, "text") /\ UNCHANGED <<accepted, faults>>
    /\ UNCHANGED <<rows, closed, enabled, jobs, dispatching>>

(* The text message.  Its error alone decides: 429, 5xx and timeouts are      *)
(* worth a retry, any other refusal is final.                                 *)
AfterError_Swallowed == {"sent"}
AfterError == {"retry", "refused"}

PushText(r) ==
    /\ delivering[r].step = "text"
    /\ \/ Accept(r, "text") /\ Continue(r, "sent") /\ UNCHANGED faults
       \/ Accept(r, "text") /\ Continue(r, "retry") /\ Suffers("response")
       \/ /\ \E step \in AfterError : Continue(r, step)
          /\ UNCHANGED <<accepted, faults>>
    /\ UNCHANGED <<rows, closed, enabled, jobs, dispatching>>

MarkSent(r) ==
    /\ delivering[r].step = "sent"
    /\ rows' = [rows EXCEPT ![RowOf(r)].status = "sent",
                            ![RowOf(r)].processingJob = NoJob]
    /\ Conclude(r, Ended(JobOf(r), "completed"))
    /\ UNCHANGED <<closed, enabled, dispatching, accepted>>

(* A markSent that fails is caught like an error of LINE.                     *)
MarkSentFails(r) ==
    /\ delivering[r].step = "sent"
    /\ Suffers("database")
    /\ Continue(r, "retry")
    /\ UNCHANGED <<rows, closed, enabled, jobs, dispatching, accepted>>

Exhausted(r) == delivering[r].attempt >= MaxAttempts

MarkRetry(r) ==
    /\ delivering[r].step = "retry" /\ ~ Exhausted(r)
    /\ rows' = [rows EXCEPT ![RowOf(r)].status = "pending",
                            ![RowOf(r)].processingJob = NoJob,
                            ![RowOf(r)].retryable = TRUE]
    /\ Conclude(r, FailedTry(JobOf(r)))
    /\ UNCHANGED <<closed, enabled, dispatching, accepted>>

(* An UnrecoverableError: the job is not tried again.                         *)
MarkFailed(r) ==
    /\ \/ delivering[r].step = "refused"
       \/ delivering[r].step = "retry" /\ Exhausted(r)
    /\ rows' = [rows EXCEPT ![RowOf(r)].status = "failed",
                            ![RowOf(r)].processingJob = NoJob,
                            ![RowOf(r)].retryable = delivering[r].step = "retry"]
    /\ Conclude(r, Ended(JobOf(r), "failed"))
    /\ UNCHANGED <<closed, enabled, dispatching, accepted>>

(* canDeliver, cancel, markRetry or markFailed fails: only BullMQ knows of    *)
(* the attempt.                                                               *)
OutcomeLost(r) ==
    /\ delivering[r].step \in {"flex", "retry", "refused"}
    /\ Suffers("database")
    /\ EndRun(r, FailedTry(JobOf(r)))
    /\ UNCHANGED <<rows, closed, enabled, dispatching, accepted>>

WorkerDies(r) ==
    /\ delivering[r] # Idle
    /\ Suffers("worker")
    /\ EndRun(r, Stalled(JobOf(r)))
    /\ UNCHANGED <<rows, closed, enabled, dispatching, accepted>>

(* withTimeout rejects: the try has failed, the run goes on.                  *)
JobTimeout(r) ==
    /\ delivering[r] # Idle /\ delivering[r].awaited
    /\ Suffers("timeout")
    /\ jobs' = [jobs EXCEPT ![delivering[r].id] = FailedTry(@)]
    /\ delivering' = [delivering EXCEPT ![r].awaited = FALSE]
    /\ UNCHANGED <<rows, closed, enabled, dispatching, accepted>>

-----------------------------------------------------------------------------
(* The operators: notificationOperationsService.mutate.                       *)

RetryFailed(n) ==
    /\ rows[n].status = "failed" /\ rows[n].retryable
    /\ rows[n].manual < MaxManual
    /\ rows' = [rows EXCEPT ![n] =
                  [NewRow EXCEPT !.manual = rows[n].manual + 1,
                                 !.dispatchJob = rows[n].manual + 1]]
    /\ UNCHANGED <<closed, enabled, jobs, dispatching, delivering, accepted, faults>>

CancelObsolete(n) ==
    /\ closed /\ rows[n].status = "pending"
    /\ rows' = [rows EXCEPT ![n].status = "cancelled",
                            ![n].processingJob = NoJob]
    /\ UNCHANGED <<closed, enabled, jobs, dispatching, delivering, accepted, faults>>

-----------------------------------------------------------------------------
TicketStep     == \E n \in Notification : Enqueue(n) \/ CloseTicket(n)
OperatorStep   == \E n \in Notification : RetryFailed(n) \/ CancelObsolete(n)
DispatcherStep(d) ==
    \/ \E id \in JobId : AddJob(d, id)
    \/ MarkDispatched(d) \/ MarkDispatchRetry(d)
DispatcherFault(d) ==
    \/ \E id \in JobId : AddFails(d, id)
    \/ MarkDispatchedFails(d) \/ DispatcherDies(d)
JobStep(id)   == \E r \in Run : StartDelivery(r, id) \/ NothingToDeliver(r, id)
RunStep(r)    ==
    Decline(r) \/ PushFlex(r) \/ PushText(r) \/ MarkSent(r) \/ MarkRetry(r) \/ MarkFailed(r)
RunFault(r)   ==
    \/ \E id \in JobId : ClaimFails(r, id)
    \/ MarkSentFails(r) \/ OutcomeLost(r) \/ WorkerDies(r) \/ JobTimeout(r)

Next ==
    \/ TicketStep \/ SetPreference \/ OperatorStep
    \/ \E d \in Dispatcher :
          \/ \E batch \in SUBSET Notification : ClaimForDispatch(d, batch)
          \/ DispatcherStep(d) \/ DispatcherFault(d)
    \/ \E id \in JobId : JobStep(id)
    \/ \E r \in Run : RunStep(r) \/ RunFault(r)

Spec == Init /\ [][Next]_vars

(* The dispatch job repeats every 15 seconds and takes the oldest rows first, *)
(* BullMQ hands out waiting jobs in order, and code that runs goes on.        *)
Fairness ==
    /\ \A n \in Notification :
          SF_vars(\E d \in Dispatcher : \E batch \in SUBSET Notification :
                     n \in batch /\ ClaimForDispatch(d, batch))
    /\ \A d \in Dispatcher : WF_vars(DispatcherStep(d))
    /\ \A id \in JobId : SF_vars(JobStep(id))
    /\ \A r \in Run : WF_vars(RunStep(r))

FairSpec == Spec /\ Fairness

-----------------------------------------------------------------------------
(* Properties.                                                                *)

(* A row is delivered by one run at a time, whichever of its jobs is run: the *)
(* first, tried again by BullMQ after the worker died, or the one a manual    *)
(* retry asked for meanwhile (claimForDelivery).                              *)
OneDeliveryPerRow ==
    \A r, s \in Run :
        (delivering[r] # Idle /\ delivering[s] # Idle /\ RowOf(r) = RowOf(s)) => r = s

(* A notice that is due has a way forward: a dispatcher has claimed its row   *)
(* or may, or Redis has a job for it that will run or is running              *)
(* (dispatchNotificationOutbox, claimForDispatch).  So it is whatever happens *)
(* to dispatchers and to the answers of LINE; the theorem NoticesRecoverable  *)
(* says when a Redis that refuses the job, 11_SCALABILITY_BASELINE.md's       *)
(* `Redis outages leave rows undispatched and recoverable', leaves it so too. *)
Recoverable ==
    \A n \in Notification :
        rows[n].status \in DueStatus =>
            \/ Dispatchable(n)
            \/ \E g \in Generation :
                  \/ jobs[<<n, g>>].state \in {"waiting", "active"}
                  \/ \E d \in Dispatcher : <<n, g>> \in dispatching[d].todo

(* Even where deliveries of a row overlap, because one outlasted its job, each *)
(* of them has an attempt of its own: no attempt is made twice, and so at most *)
(* max_attempts are made (claimForDelivery), until an operator starts anew.   *)
AttemptsMadeOnce ==
    \A r, s \in Run :
        (r # s /\ delivering[r] # Idle /\ delivering[s] # Idle /\ RowOf(r) = RowOf(s))
            => delivering[r].attempt # delivering[s].attempt

(* Nothing is reported sent that LINE has not accepted, whatever overlaps     *)
(* (pushTicketNotificationOrThrow, markSent).                                 *)
SentWasAccepted ==
    \A n \in Notification : rows[n].status = "sent" => accepted[n] # {}

(* Every notice that is due is sent, given up, or cancelled.                  *)
EveryNoticeEnds ==
    \A n \in Notification :
        rows[n].status \in DueStatus ~> rows[n].status \in FinalStatus

-----------------------------------------------------------------------------
(* The abstract delivery this outbox implements.                              *)
WithRowStatus(statuses) == {n \in Notification : rows[n].status \in statuses}

Promise == INSTANCE NoticeDelivery WITH
    Notification <- Notification,
    due       <- WithRowStatus(DueStatus),
    reached   <- {n \in Notification : accepted[n] # {}},
    sent      <- WithRowStatus({"sent"}),
    failed    <- WithRowStatus({"failed"}),
    withdrawn <- WithRowStatus({"cancelled"})

(* As long as no delivery outlasts its job, the outbox keeps the promise,     *)
(* whoever dies and whichever answer is lost: nothing is pushed for a notice  *)
(* that was cancelled, `sent' is never claimed of what LINE has not accepted, *)
(* and a notice that was sent or cancelled stays so.                          *)
ImplementsDelivery == Promise!Spec
=============================================================================
