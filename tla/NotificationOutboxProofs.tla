----------------------- MODULE NotificationOutboxProofs -----------------------
(* Theorems about NotificationOutbox, for any number of notices, dispatchers, *)
(* worker runs, attempts, manual retries and faults: first that no attempt is *)
(* made twice, then what the rows report about the deliveries.                *)
EXTENDS NotificationOutbox, TLAPS

Busy(r)    == delivering[r] # Idle
LiveState  == {"waiting", "active"}
HasTry(job) ==
    job.state \in LiveState => job.tries < MaxAttempts /\ job.stalls <= MaxStalls

(* What the jobs and the runs have to do with each other: a job that will run *)
(* has a try left, and the job of a run that BullMQ waits for is active, with *)
(* no second run of its own.                                                  *)
JobInv ==
    /\ \A id \in JobId : HasTry(jobs[id])
    /\ \A r \in Run : Busy(r) /\ delivering[r].awaited
                          => jobs[delivering[r].id].state = "active"
    /\ \A r, s \in Run :
          (/\ Busy(r) /\ delivering[r].awaited
           /\ Busy(s) /\ delivering[s].awaited
           /\ delivering[r].id = delivering[s].id) => r = s

-----------------------------------------------------------------------------
(* The data.                                                                  *)

LEMMA Attempts == MaxAttempts \in Nat /\ MaxAttempts >= 1
BY OutboxAssumption

LEMMA Generations == 0 \in Generation /\ Generation \subseteq Int /\ NoJob \notin Generation
BY OutboxAssumption DEF Generation, NoJob

LEMMA JobIdParts ==
    ASSUME NEW id \in JobId
    PROVE  /\ id[1] \in Notification /\ id[2] \in Generation
           /\ id = <<id[1], id[2]>>
BY DEF JobId

LEMMA IdleIsNoDelivery == Idle \notin Delivery
BY DEF Idle, Delivery

LEMMA FailedTryIs ==
    ASSUME NEW job \in Job, job.state \in LiveState, HasTry(job)
    PROVE  FailedTry(job) \in Job /\ HasTry(FailedTry(job)) /\ FailedTry(job).state # "active"
BY Attempts DEF FailedTry, Job, HasTry, LiveState

LEMMA StalledIs ==
    ASSUME NEW job \in Job, job.state \in LiveState, HasTry(job)
    PROVE  Stalled(job) \in Job /\ HasTry(Stalled(job)) /\ Stalled(job).state # "active"
BY Attempts, OutboxAssumption DEF Stalled, Job, HasTry, LiveState

LEMMA EndedIs ==
    ASSUME NEW job \in Job, NEW state \in {"completed", "failed"}
    PROVE  Ended(job, state) \in Job /\ HasTry(Ended(job, state))
BY DEF Ended, Job, HasTry, LiveState

-----------------------------------------------------------------------------
(* Jobs and runs.                                                             *)

JobTypes == jobs \in [JobId -> Job] /\ delivering \in [Run -> Delivery \cup {Idle}]

LEMMA BusyRun ==
    ASSUME JobTypes, NEW r \in Run, Busy(r)
    PROVE  /\ delivering[r] \in Delivery
           /\ RowOf(r) \in Notification /\ delivering[r].id \in JobId
<1>1. delivering[r] \in Delivery
  BY DEF JobTypes, Busy
<1> QED BY <1>1, JobIdParts DEF Delivery, RowOf

(* A run that ends leaves its job in a state in which it can be run again, or *)
(* leaves it alone.                                                           *)
LEMMA EndRunKeeps ==
    ASSUME JobTypes, JobInv, NEW r \in Run, Busy(r), NEW job, EndRun(r, job),
           delivering[r].awaited => job \in Job /\ HasTry(job)
    PROVE  JobTypes' /\ JobInv'
<1>1. delivering[r] \in Delivery /\ delivering[r].id \in JobId
  BY DEF JobTypes, Busy, Delivery
<1>2. /\ delivering' = [delivering EXCEPT ![r] = Idle]
      /\ \A s \in Run : Busy(s)' => s # r /\ Busy(s) /\ delivering'[s] = delivering[s]
  BY DEF EndRun, JobTypes, Busy
<1>3. delivering' \in [Run -> Delivery \cup {Idle}]
  BY <1>2 DEF JobTypes
<1>4. CASE delivering[r].awaited
  <2>1. jobs' = [jobs EXCEPT ![delivering[r].id] = job]
    BY <1>4 DEF EndRun
  <2>2. jobs' \in [JobId -> Job] /\ \A id \in JobId : HasTry(jobs'[id])
    BY <1>1, <1>4, <2>1 DEF JobTypes, JobInv
  <2>3. \A s \in Run : Busy(s)' /\ delivering'[s].awaited
            => delivering'[s].id \in JobId /\ delivering'[s].id # delivering[r].id
    BY <1>2, <1>4 DEF JobInv, JobTypes, Busy, Delivery
  <2>4. \A s \in Run : Busy(s)' /\ delivering'[s].awaited
            => jobs'[delivering'[s].id].state = "active"
    BY <1>2, <2>1, <2>3 DEF JobInv, JobTypes
  <2> QED BY <1>2, <1>3, <2>2, <2>4 DEF JobInv, JobTypes, HasTry
<1>5. CASE ~ delivering[r].awaited
  <2>1. jobs' = jobs
    BY <1>5 DEF EndRun
  <2> QED BY <1>2, <1>3, <2>1 DEF JobInv, JobTypes, HasTry
<1> QED BY <1>4, <1>5

(* A job that nobody runs may be changed, if it keeps a try when it is live.  *)
LEMMA IdleJobKeeps ==
    ASSUME JobTypes, JobInv, NEW id \in JobId, jobs[id].state # "active",
           NEW job \in Job, HasTry(job), jobs' = [jobs EXCEPT ![id] = job],
           UNCHANGED delivering
    PROVE  JobTypes' /\ JobInv'
<1>1. jobs' \in [JobId -> Job] /\ \A i \in JobId : HasTry(jobs'[i])
  BY DEF JobTypes, JobInv
<1>2. \A s \in Run : Busy(s) /\ delivering[s].awaited
          => delivering[s].id # id /\ delivering[s].id \in JobId
  BY DEF JobInv, JobTypes, Busy, Delivery
<1>3. \A s \in Run : Busy(s) /\ delivering[s].awaited
          => jobs'[delivering[s].id].state = "active"
  BY <1>2 DEF JobInv, JobTypes
<1> QED BY <1>1, <1>3 DEF JobTypes, JobInv, Busy, HasTry

(* A run that goes on with its job changes neither.                           *)
LEMMA ContinueKeeps ==
    ASSUME JobTypes, JobInv, NEW r \in Run, Busy(r),
           NEW step \in {"flex", "text", "sent", "retry", "refused"},
           Continue(r, step), UNCHANGED jobs
    PROVE  JobTypes' /\ JobInv'
<1>1. delivering[r] \in Delivery
  BY DEF JobTypes, Busy
<1>2. /\ delivering'[r] \in Delivery /\ delivering'[r].id = delivering[r].id
      /\ delivering'[r].awaited = delivering[r].awaited
      /\ \A s \in Run \ {r} : delivering'[s] = delivering[s]
      /\ delivering' \in [Run -> Delivery \cup {Idle}]
  BY <1>1 DEF Continue, JobTypes, Delivery
<1>3. \A s \in Run : /\ Busy(s)' <=> Busy(s)
                     /\ Busy(s) => /\ delivering'[s].id = delivering[s].id
                                   /\ delivering'[s].awaited = delivering[s].awaited
  BY <1>2, IdleIsNoDelivery DEF Busy
<1> QED BY <1>2, <1>3 DEF JobTypes, JobInv, HasTry

-----------------------------------------------------------------------------
(* Types.                                                                     *)

OtherTypes ==
    /\ rows \in [Notification -> Row]
    /\ closed \in BOOLEAN /\ enabled \in BOOLEAN
    /\ dispatching \in [Dispatcher -> Batch]
    /\ accepted \in [Notification -> SUBSET Message]
    /\ faults \in 0 .. MaxFaults

OutboxInv == JobTypes /\ OtherTypes /\ JobInv

LEMMA TypesSplit == TypeOK <=> JobTypes /\ OtherTypes
BY DEF TypeOK, JobTypes, OtherTypes

LEMMA FaultCounted ==
    ASSUME faults \in 0 .. MaxFaults, NEW kind, Suffers(kind)
    PROVE  faults' \in 0 .. MaxFaults
BY OutboxAssumption DEF Suffers

LEMMA AddedIs ==
    ASSUME JobTypes, JobInv, NEW id \in JobId
    PROVE  Added(id) \in Job /\ HasTry(Added(id))
BY Attempts, OutboxAssumption DEF JobTypes, JobInv, Added, AnyJob, Job, HasTry, LiveState

(* queue.add keeps the jobs in order, be there a job of that id or not.       *)
LEMMA AddKeeps ==
    ASSUME JobTypes, JobInv, NEW id \in JobId, UNCHANGED delivering,
           jobs' = [jobs EXCEPT ![id] = Added(id)]
    PROVE  JobTypes' /\ JobInv'
<1>1. CASE jobs[id].state = "none"
  BY <1>1, AddedIs, IdleJobKeeps
<1>2. CASE jobs[id].state # "none"
  <2>1. jobs' = jobs
    BY <1>2 DEF Added, JobTypes
  <2> QED BY <2>1 DEF JobTypes, JobInv, Busy, HasTry
<1> QED BY <1>1, <1>2

LEMMA UnchangedKeeps ==
    ASSUME JobTypes, JobInv, UNCHANGED <<jobs, delivering>>
    PROVE  JobTypes' /\ JobInv'
BY DEF JobTypes, JobInv, Busy, HasTry

LEMMA NewRowIs == AbsentRow \in Row /\ NewRow \in Row
<1>1. AbsentRow \in Row
  <2>1. 0 \in 0 .. MaxAttempts
    BY Attempts
  <2> QED BY <2>1, Generations DEF AbsentRow, Row
<1>2. NewRow \in Row
  BY <1>1 DEF NewRow, Row, DueStatus
<1> QED BY <1>1, <1>2

(* The ticket, the customer and the operators.                                *)
LEMMA OutsideKeeps ==
    ASSUME OutboxInv, TicketStep \/ SetPreference \/ OperatorStep
    PROVE  OutboxInv'
<1>1. UNCHANGED <<jobs, delivering>>
  BY DEF TicketStep, SetPreference, OperatorStep, Enqueue, CloseTicket, RetryFailed,
         CancelObsolete
<1>2. JobTypes' /\ JobInv'
  BY <1>1, UnchangedKeeps DEF OutboxInv
<1>3. OtherTypes'
  <2> USE DEF OutboxInv
  <2>1. ASSUME NEW n \in Notification, Enqueue(n) PROVE OtherTypes'
    BY <2>1, NewRowIs DEF OtherTypes, Enqueue
  <2>2. ASSUME NEW n \in Notification, CloseTicket(n) PROVE OtherTypes'
    <3>1. \A m \in Notification :
            [rows[m] EXCEPT !.status = "cancelled"] \in Row /\ rows[m] \in Row
      BY DEF OtherTypes, Row, FinalStatus
    <3>2. rows' \in [Notification -> Row]
      BY <2>2, <3>1, NewRowIs DEF CloseTicket
    <3> QED BY <2>2, <3>2 DEF OtherTypes, CloseTicket
  <2>3. ASSUME SetPreference PROVE OtherTypes'
    BY <2>3 DEF OtherTypes, SetPreference
  <2>4. ASSUME NEW n \in Notification, RetryFailed(n) PROVE OtherTypes'
    <3>1. rows[n].manual + 1 \in Generation
      BY <2>4, OutboxAssumption DEF RetryFailed, OtherTypes, Row, Generation
    <3>2. [NewRow EXCEPT !.manual = rows[n].manual + 1,
                         !.dispatchJob = rows[n].manual + 1] \in Row
      BY <3>1, NewRowIs DEF Row
    <3> QED BY <2>4, <3>2 DEF OtherTypes, RetryFailed
  <2>5. ASSUME NEW n \in Notification, CancelObsolete(n) PROVE OtherTypes'
    <3>1. [rows[n] EXCEPT !.status = "cancelled", !.processingJob = NoJob] \in Row
      BY DEF OtherTypes, Row, FinalStatus
    <3>2. rows' = [rows EXCEPT ![n] = [rows[n] EXCEPT !.status = "cancelled",
                                                     !.processingJob = NoJob]]
      BY <2>5, Zenon DEF CancelObsolete
    <3> QED BY <2>5, <3>1, <3>2 DEF OtherTypes, CancelObsolete
  <2> QED BY <2>1, <2>2, <2>3, <2>4, <2>5 DEF TicketStep, OperatorStep
<1> QED BY <1>2, <1>3 DEF OutboxInv

(* The dispatchers.                                                           *)
LEMMA DispatcherKeeps ==
    ASSUME OutboxInv, NEW d \in Dispatcher,
           \/ \E batch \in SUBSET Notification : ClaimForDispatch(d, batch)
           \/ DispatcherStep(d) \/ DispatcherFault(d)
    PROVE  OutboxInv'
<1> USE DEF OutboxInv
<1>0. dispatching[d] \in Batch
  BY DEF OtherTypes
<1>1. ASSUME NEW batch \in SUBSET Notification, ClaimForDispatch(d, batch)
      PROVE  OutboxInv'
  <2>1. JobTypes' /\ JobInv'
    BY <1>1, UnchangedKeeps DEF ClaimForDispatch
  <2>2. \A n \in Notification : [rows[n] EXCEPT !.dispatch = "dispatching"] \in Row
    BY DEF OtherTypes, Row
  <2>3. rows' \in [Notification -> Row]
    BY <1>1, <2>2 DEF ClaimForDispatch, OtherTypes
  <2>4. {<<n, rows[n].dispatchJob>> : n \in batch} \subseteq JobId
    BY DEF JobId, OtherTypes, Row
  <2>5. [dispatching[d] EXCEPT !.todo = {<<n, rows[n].dispatchJob>> : n \in batch}]
            \in Batch
    BY <2>4, <1>0 DEF Batch
  <2>6. dispatching' \in [Dispatcher -> Batch]
    BY <1>1, <2>5 DEF ClaimForDispatch, OtherTypes
  <2> QED BY <1>1, <2>1, <2>3, <2>6 DEF ClaimForDispatch, OtherTypes
<1>2. ASSUME NEW id \in JobId, NEW phase \in {"added", "error"}, TakeFromBatch(d, id, phase)
      PROVE  dispatching' \in [Dispatcher -> Batch]
  <2>1. [todo |-> dispatching[d].todo \ {id}, at |-> id, phase |-> phase] \in Batch
    BY <1>0, <1>2 DEF Batch
  <2> QED BY <1>2, <2>1 DEF TakeFromBatch, OtherTypes
<1>3. ASSUME dispatching[d].phase # "ready"
      PROVE  /\ dispatching[d].at \in JobId
             /\ dispatching[d].at[1] \in Notification
             /\ dispatching[d].at[2] \in Generation
  <2>1. dispatching[d].at \in JobId
    BY <1>0, <1>3 DEF Batch
  <2> QED BY <2>1, JobIdParts
<1>4. ASSUME RowDone(d) PROVE dispatching' \in [Dispatcher -> Batch]
  <2>1. [dispatching[d] EXCEPT !.at = NoRow, !.phase = "ready"] \in Batch
    BY <1>0 DEF Batch
  <2>2. dispatching' = [dispatching EXCEPT ![d] =
                          [dispatching[d] EXCEPT !.at = NoRow, !.phase = "ready"]]
    BY <1>4, Zenon DEF RowDone
  <2> QED BY <2>1, <2>2 DEF OtherTypes
<1>5. ASSUME NEW id \in JobId, AddJob(d, id) PROVE OutboxInv'
  <2>1. JobTypes' /\ JobInv'
    BY <1>5, AddKeeps DEF AddJob
  <2> QED BY <1>2, <1>5, <2>1 DEF AddJob, OtherTypes
<1>6. ASSUME NEW id \in JobId, AddFails(d, id) PROVE OutboxInv'
  <2>1. JobTypes' /\ JobInv'
    BY <1>6, AddKeeps, UnchangedKeeps DEF AddFails
  <2>2. faults' \in 0 .. MaxFaults
    BY <1>6, FaultCounted DEF AddFails, OtherTypes
  <2> QED BY <1>2, <1>6, <2>1, <2>2 DEF AddFails, OtherTypes
<1>7. CASE MarkDispatched(d)
  <2>1. JobTypes' /\ JobInv'
    BY <1>7, UnchangedKeeps DEF MarkDispatched
  <2> DEFINE n == dispatching[d].at[1]
             row == [rows[n] EXCEPT !.dispatch = "dispatched",
                                    !.dispatchJob = dispatching[d].at[2]]
  <2>2. row \in Row
    <3>1. ASSUME NEW old \in Row, NEW g \in Generation
          PROVE  [old EXCEPT !.dispatch = "dispatched", !.dispatchJob = g] \in Row
      BY DEF Row
    <3>2. rows[n] \in Row /\ dispatching[d].at[2] \in Generation
      BY <1>3, <1>7 DEF MarkDispatched, OtherTypes
    <3> QED BY <3>1, <3>2
  <2>3. rows' = rows \/ rows' = [rows EXCEPT ![n] = row]
    <3>1. rows' = rows \/ rows' = [rows EXCEPT ![n].dispatch = "dispatched",
                                              ![n].dispatchJob = dispatching[d].at[2]]
      BY <1>7, Zenon DEF MarkDispatched
    <3>2. [rows EXCEPT ![n].dispatch = "dispatched",
                       ![n].dispatchJob = dispatching[d].at[2]] = [rows EXCEPT ![n] = row]
      BY Zenon
    <3> QED BY <3>1, <3>2
  <2>4. rows' \in [Notification -> Row]
    BY <1>3, <1>7, <2>2, <2>3 DEF MarkDispatched, OtherTypes
  <2> QED BY <1>4, <1>7, <2>1, <2>4 DEF MarkDispatched, OtherTypes
<1>8. CASE MarkDispatchedFails(d)
  <2>1. JobTypes' /\ JobInv'
    BY <1>8, UnchangedKeeps DEF MarkDispatchedFails
  <2>2. [dispatching[d] EXCEPT !.phase = "error"] \in Batch
    BY <1>0, <1>8 DEF MarkDispatchedFails, Batch
  <2>3. dispatching' \in [Dispatcher -> Batch]
    BY <1>8, <2>2 DEF MarkDispatchedFails, OtherTypes
  <2>4. faults' \in 0 .. MaxFaults
    BY <1>8, FaultCounted DEF MarkDispatchedFails, OtherTypes
  <2> QED BY <1>8, <2>1, <2>3, <2>4 DEF MarkDispatchedFails, OtherTypes
<1>9. CASE MarkDispatchRetry(d)
  <2>1. JobTypes' /\ JobInv'
    BY <1>9, UnchangedKeeps DEF MarkDispatchRetry
  <2> DEFINE n == dispatching[d].at[1]
  <2>2. [rows[n] EXCEPT !.dispatch = "pending"] \in Row
    BY <1>3, <1>9 DEF MarkDispatchRetry, OtherTypes, Row
  <2>3. rows' \in [Notification -> Row]
    BY <1>3, <1>9, <2>2 DEF MarkDispatchRetry, OtherTypes
  <2> QED BY <1>4, <1>9, <2>1, <2>3 DEF MarkDispatchRetry, OtherTypes
<1>10. CASE DispatcherDies(d)
  <2>1. JobTypes' /\ JobInv'
    BY <1>10, UnchangedKeeps DEF DispatcherDies
  <2>2. dispatching' \in [Dispatcher -> Batch]
    BY <1>10 DEF DispatcherDies, OtherTypes, IdleBatch, Batch
  <2>3. faults' \in 0 .. MaxFaults
    BY <1>10, FaultCounted DEF DispatcherDies, OtherTypes
  <2> QED BY <1>10, <2>1, <2>2, <2>3 DEF DispatcherDies, OtherTypes
<1> QED
  BY <1>1, <1>5, <1>6, <1>7, <1>8, <1>9, <1>10 DEF DispatcherStep, DispatcherFault

(* The row that a claim returns.                                              *)
LEMMA ClaimedIs ==
    ASSUME rows \in [Notification -> Row], NEW id \in JobId,
           rows[id[1]].attempts + 1 \in 1 .. MaxAttempts
    PROVE  /\ Claimed(id) \in Row
           /\ Claimed(id).attempts = rows[id[1]].attempts + 1
           /\ Claimed(id).status = "processing" /\ Claimed(id).processingJob = id[2]
<1>1. PICK old \in Row : old = rows[id[1]]
  BY JobIdParts
<1>2. PICK g \in Generation : g = id[2]
  BY JobIdParts
<1>3. PICK count \in 0 .. MaxAttempts : count = old.attempts + 1
  BY <1>1
<1>4. Claimed(id) = [old EXCEPT !.status = "processing", !.dispatch = "dispatched",
                                !.processingJob = g, !.attempts = count]
  BY <1>1, <1>2, <1>3, Zenon DEF Claimed
<1>5. /\ Claimed(id) \in Row /\ Claimed(id).attempts = count
      /\ Claimed(id).status = "processing" /\ Claimed(id).processingJob = g
  BY <1>4 DEF Row, DueStatus
<1> QED BY <1>1, <1>2, <1>3, <1>5

(* The runs of the worker.                                                    *)
LEMMA StartKeeps ==
    ASSUME OutboxInv, NEW r \in Run, NEW id \in JobId, StartDelivery(r, id)
    PROVE  OutboxInv'
<1> USE DEF OutboxInv
<1>1. id[1] \in Notification /\ id[2] \in Generation
  BY JobIdParts
<1>2. rows[id[1]].attempts + 1 \in 1 .. MaxAttempts
  BY <1>1, Attempts DEF StartDelivery, Deliverable, OtherTypes, Row
<1>3. Claimed(id) \in Row /\ Claimed(id).attempts = rows[id[1]].attempts + 1
  BY <1>2, ClaimedIs DEF OtherTypes
<1>4. OtherTypes'
  BY <1>1, <1>3 DEF StartDelivery, OtherTypes
<1> DEFINE new == [id |-> id, attempt |-> Claimed(id).attempts, step |-> "flex",
                   awaited |-> TRUE]
<1>5. new \in Delivery
  BY <1>2, <1>3 DEF Delivery
<1>6. delivering' = [delivering EXCEPT ![r] = new] /\ new.id = id /\ new.awaited
  BY DEF StartDelivery
<1> HIDE DEF new
<1>7. /\ delivering' \in [Run -> Delivery \cup {Idle}]
      /\ delivering'[r] = new
      /\ \A s \in Run \ {r} : delivering'[s] = delivering[s]
  BY <1>5, <1>6 DEF JobTypes
<1>8. jobs[id] \in Job /\ HasTry(jobs[id]) /\ jobs[id].state = "waiting"
  BY DEF StartDelivery, JobTypes, JobInv
<1>9. /\ [jobs[id] EXCEPT !.state = "active"] \in Job
      /\ HasTry([jobs[id] EXCEPT !.state = "active"])
  BY <1>8 DEF Job, HasTry, LiveState
<1>10. jobs' = [jobs EXCEPT ![id] = [jobs[id] EXCEPT !.state = "active"]]
  BY Zenon DEF StartDelivery
<1>11. jobs' \in [JobId -> Job] /\ \A i \in JobId : HasTry(jobs'[i])
  BY <1>9, <1>10 DEF JobTypes, JobInv
<1>12. \A s \in Run \ {r} : Busy(s) /\ delivering[s].awaited
          => /\ delivering[s].id \in JobId /\ delivering[s].id # id
             /\ jobs[delivering[s].id].state = "active"
  BY <1>8 DEF JobInv, JobTypes, Busy, Delivery
<1>13. jobs'[id].state = "active" /\ \A i \in JobId \ {id} : jobs'[i] = jobs[i]
  BY <1>8, <1>10 DEF JobTypes, Job
<1>14. \A s \in Run : Busy(s)' /\ delivering'[s].awaited
          => jobs'[delivering'[s].id].state = "active"
  BY <1>6, <1>7, <1>12, <1>13 DEF Busy
<1>15. \A s, u \in Run :
          (/\ Busy(s)' /\ delivering'[s].awaited
           /\ Busy(u)' /\ delivering'[u].awaited
           /\ delivering'[s].id = delivering'[u].id) => s = u
  BY <1>6, <1>7, <1>12 DEF Busy, JobInv
<1>16. JobTypes' /\ JobInv'
  BY <1>7, <1>11, <1>14, <1>15 DEF JobTypes, JobInv, HasTry
<1> QED BY <1>4, <1>16

(* The row of a run gets the outcome of its attempt.                          *)
LEMMA OutcomeIs ==
    ASSUME NEW old \in Row, NEW status \in {"pending"} \cup FinalStatus, NEW b \in BOOLEAN
    PROVE  /\ [old EXCEPT !.status = status] \in Row
           /\ [old EXCEPT !.status = status, !.processingJob = NoJob] \in Row
           /\ [old EXCEPT !.status = status, !.processingJob = NoJob, !.retryable = b] \in Row
<1>1. [old EXCEPT !.status = status] \in Row
  BY DEF Row, DueStatus
<1>2. [old EXCEPT !.status = status, !.processingJob = NoJob] \in Row
  BY DEF Row, DueStatus
<1>3. [old EXCEPT !.status = status, !.processingJob = NoJob, !.retryable = b] \in Row
  BY DEF Row, DueStatus
<1> QED BY <1>1, <1>2, <1>3

(* The job of a run, whether its try failed, its lock expired or it ended.    *)
LEMMA JobOfRun ==
    ASSUME JobTypes, JobInv, NEW r \in Run, Busy(r)
    PROVE  /\ \A state \in {"completed", "failed"} :
                  Ended(JobOf(r), state) \in Job /\ HasTry(Ended(JobOf(r), state))
           /\ delivering[r].awaited =>
                  /\ FailedTry(JobOf(r)) \in Job /\ HasTry(FailedTry(JobOf(r)))
                  /\ Stalled(JobOf(r)) \in Job /\ HasTry(Stalled(JobOf(r)))
<1>1. JobOf(r) \in Job /\ HasTry(JobOf(r))
  BY BusyRun DEF JobOf, JobTypes, JobInv
<1>2. delivering[r].awaited => JobOf(r).state = "active"
  BY DEF JobInv, JobOf
<1> QED BY <1>1, <1>2, EndedIs, FailedTryIs, StalledIs DEF LiveState

(* The worker may die when the outcome is written: its job then stalled.      *)
LEMMA Concluded ==
    ASSUME NEW r, NEW job, Conclude(r, job)
    PROVE  /\ \E j \in {job, Stalled(JobOf(r))} : EndRun(r, j)
           /\ "worker" \notin Fault => EndRun(r, job)
BY DEF Conclude, Suffers

LEMMA ConcludeKeeps ==
    ASSUME OutboxInv, NEW r \in Run, Busy(r), NEW job, Conclude(r, job),
           delivering[r].awaited => job \in Job /\ HasTry(job)
    PROVE  JobTypes' /\ JobInv' /\ faults' \in 0 .. MaxFaults
<1>1. PICK j \in {job, Stalled(JobOf(r))} : EndRun(r, j)
  BY Concluded
<1>2. JobTypes' /\ JobInv'
  BY <1>1, JobOfRun, EndRunKeeps DEF OutboxInv
<1>3. faults' \in 0 .. MaxFaults
  BY FaultCounted DEF Conclude, OutboxInv, OtherTypes
<1> QED BY <1>2, <1>3

LEMMA RunKeeps ==
    ASSUME OutboxInv, NEW r \in Run, RunStep(r) \/ RunFault(r)
    PROVE  OutboxInv'
<1> USE DEF OutboxInv
<1> DEFINE n == RowOf(r)
<1>1. ASSUME delivering[r].step # "idle" PROVE Busy(r) /\ n \in Notification /\ rows[n] \in Row
  BY <1>1, BusyRun DEF Busy, Idle, OtherTypes
<1>2. ASSUME NEW id \in JobId, ClaimFails(r, id) PROVE OutboxInv'
  <2>1. jobs[id] \in Job /\ jobs[id].state = "waiting" /\ HasTry(jobs[id])
    BY <1>2 DEF ClaimFails, JobTypes, JobInv
  <2>2. /\ \E job \in {FailedTry(jobs[id]), Stalled(jobs[id])} :
              jobs' = [jobs EXCEPT ![id] = job]
        /\ UNCHANGED delivering
    BY <1>2 DEF ClaimFails
  <2>3. JobTypes' /\ JobInv'
    BY <2>1, <2>2, FailedTryIs, StalledIs, IdleJobKeeps DEF LiveState
  <2>4. faults' \in 0 .. MaxFaults
    BY <1>2, FaultCounted DEF ClaimFails, OtherTypes
  <2> QED BY <1>2, <2>3, <2>4 DEF ClaimFails, OtherTypes
<1>3. CASE Decline(r)
  <2>1. Busy(r) /\ n \in Notification /\ rows[n] \in Row
    BY <1>1, <1>3 DEF Decline
  <2>2. JobTypes' /\ JobInv' /\ faults' \in 0 .. MaxFaults
    BY <1>3, <2>1, JobOfRun, ConcludeKeeps DEF Decline
  <2>3. rows' \in [Notification -> Row]
    BY <1>3, <2>1, OutcomeIs DEF Decline, OtherTypes, FinalStatus
  <2> QED BY <1>3, <2>2, <2>3 DEF Decline, OtherTypes
<1>4. CASE PushFlex(r)
  <2>1. Busy(r) /\ n \in Notification
    BY <1>1, <1>4 DEF PushFlex
  <2>2. JobTypes' /\ JobInv'
    BY <1>4, <2>1, ContinueKeeps DEF PushFlex
  <2>3. accepted' \in [Notification -> SUBSET Message]
    BY <1>4, <2>1 DEF PushFlex, Accept, OtherTypes, Message
  <2>4. faults' \in 0 .. MaxFaults
    BY <1>4, FaultCounted DEF PushFlex, OtherTypes
  <2> QED BY <1>4, <2>2, <2>3, <2>4 DEF PushFlex, OtherTypes
<1>5. CASE PushText(r)
  <2>1. Busy(r) /\ n \in Notification
    BY <1>1, <1>5 DEF PushText
  <2>2. JobTypes' /\ JobInv'
    BY <1>5, <2>1, ContinueKeeps DEF PushText, AfterError
  <2>3. accepted' \in [Notification -> SUBSET Message]
    BY <1>5, <2>1 DEF PushText, Accept, OtherTypes, Message
  <2>4. faults' \in 0 .. MaxFaults
    BY <1>5, FaultCounted DEF PushText, OtherTypes
  <2> QED BY <1>5, <2>2, <2>3, <2>4 DEF PushText, OtherTypes
<1>6. CASE MarkSent(r)
  <2>1. Busy(r) /\ n \in Notification /\ rows[n] \in Row
    BY <1>1, <1>6 DEF MarkSent
  <2>2. JobTypes' /\ JobInv' /\ faults' \in 0 .. MaxFaults
    BY <1>6, <2>1, JobOfRun, ConcludeKeeps DEF MarkSent
  <2>3. rows' = [rows EXCEPT ![n] = [rows[n] EXCEPT !.status = "sent", !.processingJob = NoJob]]
    BY <1>6, Zenon DEF MarkSent
  <2>4. rows' \in [Notification -> Row]
    BY <2>1, <2>3, OutcomeIs DEF OtherTypes, FinalStatus
  <2> QED BY <1>6, <2>2, <2>4 DEF MarkSent, OtherTypes
<1>7. CASE MarkRetry(r)
  <2>1. Busy(r) /\ n \in Notification /\ rows[n] \in Row
    BY <1>1, <1>7 DEF MarkRetry
  <2>2. JobTypes' /\ JobInv' /\ faults' \in 0 .. MaxFaults
    BY <1>7, <2>1, JobOfRun, ConcludeKeeps DEF MarkRetry
  <2>3. rows' = [rows EXCEPT ![n] = [rows[n] EXCEPT !.status = "pending",
                                !.processingJob = NoJob, !.retryable = TRUE]]
    BY <1>7, Zenon DEF MarkRetry
  <2>4. rows' \in [Notification -> Row]
    BY <2>1, <2>3, OutcomeIs DEF OtherTypes
  <2> QED BY <1>7, <2>2, <2>4 DEF MarkRetry, OtherTypes
<1>8. CASE MarkFailed(r)
  <2>1. Busy(r) /\ n \in Notification /\ rows[n] \in Row
    BY <1>1, <1>8 DEF MarkFailed
  <2>2. JobTypes' /\ JobInv' /\ faults' \in 0 .. MaxFaults
    BY <1>8, <2>1, JobOfRun, ConcludeKeeps DEF MarkFailed
  <2> DEFINE again == delivering[r].step = "retry"
  <2>3. rows' = [rows EXCEPT ![n] = [rows[n] EXCEPT !.status = "failed",
                                !.processingJob = NoJob, !.retryable = again]]
    BY <1>8, Zenon DEF MarkFailed
  <2>4. again \in BOOLEAN
    OBVIOUS
  <2> HIDE DEF again
  <2>5. [rows[n] EXCEPT !.status = "failed", !.processingJob = NoJob,
                        !.retryable = again] \in Row
    BY <2>1, <2>4, OutcomeIs DEF FinalStatus
  <2>6. rows' \in [Notification -> Row]
    BY <2>1, <2>3, <2>5 DEF OtherTypes
  <2> QED BY <1>8, <2>2, <2>6 DEF MarkFailed, OtherTypes
<1>9. CASE MarkSentFails(r)
  <2>1. Busy(r)
    BY <1>1, <1>9 DEF MarkSentFails
  <2>2. JobTypes' /\ JobInv'
    BY <1>9, <2>1, ContinueKeeps DEF MarkSentFails
  <2>3. faults' \in 0 .. MaxFaults
    BY <1>9, FaultCounted DEF MarkSentFails, OtherTypes
  <2> QED BY <1>9, <2>2, <2>3 DEF MarkSentFails, OtherTypes
<1>10. CASE OutcomeLost(r)
  <2>1. Busy(r)
    BY <1>1, <1>10 DEF OutcomeLost
  <2>2. JobTypes' /\ JobInv'
    BY <1>10, <2>1, JobOfRun, EndRunKeeps DEF OutcomeLost
  <2>3. faults' \in 0 .. MaxFaults
    BY <1>10, FaultCounted DEF OutcomeLost, OtherTypes
  <2> QED BY <1>10, <2>2, <2>3 DEF OutcomeLost, OtherTypes
<1>11. CASE WorkerDies(r)
  <2>1. Busy(r)
    BY <1>11 DEF WorkerDies, Busy
  <2>2. JobTypes' /\ JobInv'
    BY <1>11, <2>1, JobOfRun, EndRunKeeps DEF WorkerDies
  <2>3. faults' \in 0 .. MaxFaults
    BY <1>11, FaultCounted DEF WorkerDies, OtherTypes
  <2> QED BY <1>11, <2>2, <2>3 DEF WorkerDies, OtherTypes
<1>12. CASE JobTimeout(r)
  <2> DEFINE id == delivering[r].id
             run == [delivering[r] EXCEPT !.awaited = FALSE]
  <2>1. Busy(r) /\ delivering[r] \in Delivery /\ id \in JobId /\ delivering[r].awaited
    BY <1>12, BusyRun DEF JobTimeout, Busy
  <2>2. FailedTry(jobs[id]) \in Job /\ HasTry(FailedTry(jobs[id]))
    BY <2>1, JobOfRun DEF JobOf
  <2>3. run \in Delivery /\ ~ run.awaited
    BY <2>1 DEF Delivery
  <2>4. jobs' = [jobs EXCEPT ![id] = FailedTry(jobs[id])]
    BY <1>12 DEF JobTimeout
  <2>5. delivering' = [delivering EXCEPT ![r] = run]
    BY <1>12, Zenon DEF JobTimeout
  <2> HIDE DEF run
  <2>6. delivering' \in [Run -> Delivery \cup {Idle}]
    BY <2>3, <2>5 DEF JobTypes
  <2>7. jobs' \in [JobId -> Job] /\ \A i \in JobId : HasTry(jobs'[i])
    BY <2>1, <2>2, <2>4 DEF JobTypes, JobInv
  <2>8. \A s \in Run : Busy(s)' /\ delivering'[s].awaited
            => /\ s # r /\ Busy(s) /\ delivering'[s] = delivering[s]
               /\ delivering[s].id \in JobId /\ delivering[s].id # id
    BY <2>1, <2>3, <2>5, BusyRun DEF JobTypes, JobInv, Busy
  <2>9. \A s \in Run : Busy(s)' /\ delivering'[s].awaited
            => jobs'[delivering'[s].id].state = "active"
    BY <2>4, <2>8 DEF JobTypes, JobInv
  <2>10. JobTypes' /\ JobInv'
    BY <2>6, <2>7, <2>8, <2>9 DEF JobTypes, JobInv, HasTry
  <2>11. faults' \in 0 .. MaxFaults
    BY <1>12, FaultCounted DEF JobTimeout, OtherTypes
  <2> QED BY <1>12, <2>10, <2>11 DEF JobTimeout, OtherTypes
<1> QED
  BY <1>2, <1>3, <1>4, <1>5, <1>6, <1>7, <1>8, <1>9, <1>10, <1>11, <1>12
     DEF RunStep, RunFault

LEMMA NothingKeeps ==
    ASSUME OutboxInv, NEW r \in Run, NEW id \in JobId, NothingToDeliver(r, id)
    PROVE  OutboxInv'
<1>1. jobs[id] \in Job /\ jobs[id].state = "waiting"
  BY DEF OutboxInv, JobTypes, NothingToDeliver
<1>2. jobs' = [jobs EXCEPT ![id] = Ended(jobs[id], "completed")] /\ UNCHANGED delivering
  BY DEF NothingToDeliver
<1>3. JobTypes' /\ JobInv'
  BY <1>1, <1>2, EndedIs, IdleJobKeeps DEF OutboxInv
<1> QED BY <1>3 DEF OutboxInv, OtherTypes, NothingToDeliver

-----------------------------------------------------------------------------
(* The theorems.                                                              *)

LEMMA InitialOutbox == Init => OutboxInv
<1> SUFFICES ASSUME Init PROVE OutboxInv
  OBVIOUS
<1>1. AnyJob \in Job /\ HasTry(AnyJob)
  BY Attempts, OutboxAssumption DEF AnyJob, Job, HasTry, LiveState
<1>2. JobTypes /\ JobInv
  BY <1>1 DEF Init, JobTypes, JobInv, Busy
<1>3. IdleBatch \in Batch
  BY DEF Batch, IdleBatch
<1>4. 0 \in 0 .. MaxFaults
  BY OutboxAssumption
<1>5. OtherTypes
  BY <1>3, <1>4, NewRowIs DEF Init, OtherTypes
<1> QED BY <1>2, <1>5 DEF OutboxInv

LEMMA EveryStepKeeps == OutboxInv /\ [Next]_vars => OutboxInv'
<1> SUFFICES ASSUME OutboxInv, [Next]_vars PROVE OutboxInv'
  OBVIOUS
<1>1. CASE UNCHANGED vars
  <2>1. JobTypes' /\ JobInv'
    BY <1>1, UnchangedKeeps DEF vars, OutboxInv
  <2> QED BY <1>1, <2>1 DEF vars, OutboxInv, OtherTypes
<1>2. CASE TicketStep \/ SetPreference \/ OperatorStep
  BY <1>2, OutsideKeeps
<1>3. ASSUME NEW d \in Dispatcher,
             \/ \E batch \in SUBSET Notification : ClaimForDispatch(d, batch)
             \/ DispatcherStep(d) \/ DispatcherFault(d)
      PROVE  OutboxInv'
  BY <1>3, DispatcherKeeps
<1>4. ASSUME NEW id \in JobId, JobStep(id) PROVE OutboxInv'
  BY <1>4, StartKeeps, NothingKeeps DEF JobStep
<1>5. ASSUME NEW r \in Run, RunStep(r) \/ RunFault(r) PROVE OutboxInv'
  BY <1>5, RunKeeps
<1> QED BY <1>1, <1>2, <1>3, <1>4, <1>5 DEF Next

(* Whatever fails, and however often, no row counts more attempts than        *)
(* max_attempts and no job more tries than BullMQ allows it (claimForDelivery, *)
(* markRetry).                                                                *)
THEOREM OutboxTypeCorrect == Spec => []TypeOK
<1>1. OutboxInv => TypeOK
  BY DEF OutboxInv, JobTypes, OtherTypes, TypeOK
<1> QED BY <1>1, InitialOutbox, EveryStepKeeps, PTL DEF Spec

-----------------------------------------------------------------------------
(* Where no delivery outlasts its job.                                        *)

(* A busy run holds its row: the row is `processing' for the job of the run,  *)
(* and when the run is about to report a success, LINE has accepted a message.*)
(* A row that is enqueued by closing the ticket is not there before.          *)
Held ==
    /\ \A r \in Run : Busy(r) =>
          /\ delivering[r].awaited
          /\ rows[RowOf(r)].status = "processing"
          /\ rows[RowOf(r)].processingJob = delivering[r].id[2]
          /\ delivering[r].step = "sent" => accepted[RowOf(r)] # {}
    /\ ~ closed => \A n \in Terminal : rows[n].status = "absent"

LEMMA HeldExcludes == OutboxInv /\ Held => OneDeliveryPerRow
<1> SUFFICES ASSUME OutboxInv, Held,
                    NEW r \in Run, NEW s \in Run, Busy(r), Busy(s), RowOf(r) = RowOf(s)
             PROVE  r = s
  BY DEF OneDeliveryPerRow, Busy
<1>1. delivering[r].id \in JobId /\ delivering[s].id \in JobId
  BY BusyRun DEF OutboxInv
<1>2. delivering[r].id[1] = delivering[s].id[1] /\ delivering[r].id[2] = delivering[s].id[2]
  BY DEF Held, RowOf
<1>3. delivering[r].id = delivering[s].id
  BY <1>1, <1>2, JobIdParts
<1> QED BY <1>3 DEF OutboxInv, JobInv, Held

SameStanding(n) ==
    rows'[n].status = rows[n].status /\ rows'[n].processingJob = rows[n].processingJob

TerminalKept ==
    ~ closed' => /\ ~ closed
                 /\ \A n \in Terminal : rows[n].status = "absent" => rows'[n].status = "absent"

(* A step that starts no delivery keeps the rows held if it leaves the rows   *)
(* of the runs that stay busy alone.                                          *)
LEMMA HeldKeeps ==
    ASSUME Held,
           \A r \in Run : Busy(r)' =>
              /\ Busy(r) /\ SameStanding(RowOf(r))
              /\ delivering'[r].id = delivering[r].id
              /\ delivering'[r].awaited = delivering[r].awaited
              /\ accepted[RowOf(r)] # {} => accepted'[RowOf(r)] # {}
              /\ delivering'[r].step = "sent"
                    => delivering[r].step = "sent" \/ accepted'[RowOf(r)] # {},
           TerminalKept
    PROVE  Held'
BY DEF Held, TerminalKept, SameStanding, RowOf

(* No run moves, and no row that is being delivered changes.                  *)
LEMMA IdleStepHeld ==
    ASSUME Held, UNCHANGED <<delivering, accepted>>, TerminalKept,
           \A n \in Notification : rows[n].status = "processing" => SameStanding(n),
           OutboxInv
    PROVE  Held'
<1>1. \A r \in Run : Busy(r)' =>
        /\ Busy(r) /\ SameStanding(RowOf(r))
        /\ delivering'[r].id = delivering[r].id
        /\ delivering'[r].awaited = delivering[r].awaited
        /\ accepted[RowOf(r)] # {} => accepted'[RowOf(r)] # {}
        /\ delivering'[r].step = "sent"
              => delivering[r].step = "sent" \/ accepted'[RowOf(r)] # {}
  BY BusyRun DEF Held, Busy, OutboxInv
<1> QED BY <1>1, HeldKeeps

(* A run ends, and settles no row but its own.                                *)
LEMMA EndedRunHeld ==
    ASSUME OutboxInv, Held, NEW r \in Run, Busy(r), NEW job, EndRun(r, job),
           \A n \in Notification \ {RowOf(r)} : rows'[n] = rows[n],
           UNCHANGED <<closed, accepted>>
    PROVE  Held'
<1>1. delivering' = [delivering EXCEPT ![r] = Idle]
  BY DEF EndRun
<1>2. \A s \in Run : Busy(s)' => /\ s # r /\ Busy(s)
                                 /\ delivering'[s] = delivering[s]
  BY <1>1 DEF OutboxInv, JobTypes, Busy
<1>3. \A s \in Run : Busy(s)' => RowOf(s) \in Notification \ {RowOf(r)}
  BY <1>2, HeldExcludes, BusyRun DEF OneDeliveryPerRow, Busy, OutboxInv
<1>4. \A s \in Run : Busy(s)' => SameStanding(RowOf(s))
  BY <1>3 DEF SameStanding
<1>5. TerminalKept
  <2>1. \A n \in Terminal : rows[n].status = "absent" => n \in Notification \ {RowOf(r)}
    BY OutboxAssumption DEF Held
  <2> QED BY <2>1 DEF TerminalKept
<1> QED BY <1>2, <1>4, <1>5, HeldKeeps

(* A run goes on.                                                             *)
LEMMA ContinuedRunHeld ==
    ASSUME OutboxInv, Held, NEW r \in Run, Busy(r), NEW step, Continue(r, step),
           step = "sent" => accepted'[RowOf(r)] # {},
           \A n \in Notification : accepted[n] # {} => accepted'[n] # {},
           UNCHANGED <<rows, closed>>
    PROVE  Held'
<1>1. delivering[r] \in Delivery
  BY BusyRun DEF OutboxInv
<1>2. /\ delivering'[r].id = delivering[r].id
      /\ delivering'[r].awaited = delivering[r].awaited
      /\ delivering'[r].step = step
      /\ \A s \in Run \ {r} : delivering'[s] = delivering[s]
  BY <1>1 DEF Continue, OutboxInv, JobTypes, Delivery
<1>3. \A s \in Run : Busy(s)' =>
        /\ Busy(s) /\ SameStanding(RowOf(s))
        /\ delivering'[s].id = delivering[s].id
        /\ delivering'[s].awaited = delivering[s].awaited
        /\ accepted[RowOf(s)] # {} => accepted'[RowOf(s)] # {}
        /\ delivering'[s].step = "sent"
              => delivering[s].step = "sent" \/ accepted'[RowOf(s)] # {}
  BY <1>2, BusyRun DEF Busy, SameStanding, OutboxInv
<1>4. TerminalKept
  BY DEF TerminalKept
<1> QED BY <1>3, <1>4, HeldKeeps

LEMMA OutsideHeld ==
    ASSUME OutboxInv, Held, TicketStep \/ SetPreference \/ OperatorStep
    PROVE  Held'
<1> USE DEF OutboxInv, OtherTypes
<1>1. ASSUME NEW n \in Notification, Enqueue(n) PROVE Held'
  <2>1. TerminalKept /\ \A m \in Notification : rows[m].status = "processing" => SameStanding(m)
    BY <1>1, OutboxAssumption DEF Enqueue, TerminalKept, SameStanding
  <2> QED BY <1>1, <2>1, IdleStepHeld DEF Enqueue
<1>2. ASSUME NEW n \in Notification, CloseTicket(n) PROVE Held'
  <2>1. TerminalKept
    BY <1>2 DEF CloseTicket, TerminalKept
  <2>2. rows[n].status = "absent"
    BY <1>2 DEF CloseTicket, Held
  <2>3. \A m \in Notification : rows[m].status = "processing" => SameStanding(m)
    BY <1>2, <2>2 DEF CloseTicket, SameStanding, Obsolete
  <2> QED BY <1>2, <2>1, <2>3, IdleStepHeld DEF CloseTicket
<1>3. ASSUME SetPreference PROVE Held'
  <2>1. TerminalKept /\ \A m \in Notification : SameStanding(m)
    BY <1>3 DEF SetPreference, TerminalKept, SameStanding
  <2> QED BY <1>3, <2>1, IdleStepHeld DEF SetPreference
<1>4. ASSUME NEW n \in Notification, RetryFailed(n) PROVE Held'
  <2>1. TerminalKept /\ \A m \in Notification : rows[m].status = "processing" => SameStanding(m)
    BY <1>4, OutboxAssumption DEF RetryFailed, TerminalKept, SameStanding
  <2> QED BY <1>4, <2>1, IdleStepHeld DEF RetryFailed
<1>5. ASSUME NEW n \in Notification, CancelObsolete(n) PROVE Held'
  <2>1. TerminalKept /\ \A m \in Notification : rows[m].status = "processing" => SameStanding(m)
    BY <1>5, OutboxAssumption DEF CancelObsolete, TerminalKept, SameStanding
  <2> QED BY <1>5, <2>1, IdleStepHeld DEF CancelObsolete
<1> QED BY <1>1, <1>2, <1>3, <1>4, <1>5 DEF TicketStep, OperatorStep

(* A dispatcher changes no standing of any row.                               *)
LEMMA DispatcherStands ==
    ASSUME OutboxInv, NEW d \in Dispatcher,
           \/ \E batch \in SUBSET Notification : ClaimForDispatch(d, batch)
           \/ DispatcherStep(d) \/ DispatcherFault(d)
    PROVE  /\ \A n \in Notification : SameStanding(n)
           /\ UNCHANGED <<closed, enabled, delivering, accepted>>
<1> USE DEF OutboxInv, OtherTypes
<1>1. ASSUME NEW batch \in SUBSET Notification, ClaimForDispatch(d, batch)
      PROVE  \A n \in Notification : SameStanding(n)
  BY <1>1 DEF ClaimForDispatch, SameStanding, Row
<1>2. ASSUME UNCHANGED rows PROVE \A n \in Notification : SameStanding(n)
  BY <1>2 DEF SameStanding
<1>3. CASE MarkDispatched(d)
  <2> DEFINE n == dispatching[d].at[1]
             row == [rows[n] EXCEPT !.dispatch = "dispatched",
                                    !.dispatchJob = dispatching[d].at[2]]
  <2>1. [rows EXCEPT ![n].dispatch = "dispatched",
                     ![n].dispatchJob = dispatching[d].at[2]] = [rows EXCEPT ![n] = row]
    BY Zenon
  <2>2. rows' = rows \/ rows' = [rows EXCEPT ![n].dispatch = "dispatched",
                                            ![n].dispatchJob = dispatching[d].at[2]]
    BY <1>3, Zenon DEF MarkDispatched
  <2>3. n \in Notification => row.status = rows[n].status
                              /\ row.processingJob = rows[n].processingJob
    BY DEF Row
  <2>4. rows' = rows \/ rows' = [rows EXCEPT ![n] = row]
    BY <2>1, <2>2
  <2>5. UNCHANGED <<closed, enabled, delivering, accepted>>
    BY <1>3 DEF MarkDispatched
  <2> HIDE DEF row
  <2> QED BY <2>3, <2>4, <2>5 DEF SameStanding
<1>4. CASE MarkDispatchRetry(d)
  BY <1>4 DEF MarkDispatchRetry, SameStanding, Row
<1> QED
  BY <1>1, <1>2, <1>3, <1>4
     DEF ClaimForDispatch, DispatcherStep, DispatcherFault, AddJob, AddFails, MarkDispatched,
         MarkDispatchedFails, MarkDispatchRetry, DispatcherDies

LEMMA StandingHeld ==
    ASSUME OutboxInv, Held, UNCHANGED <<closed, delivering, accepted>>,
           \A n \in Notification : SameStanding(n)
    PROVE  Held'
<1>1. TerminalKept
  BY OutboxAssumption DEF TerminalKept, SameStanding
<1> QED BY <1>1, IdleStepHeld

LEMMA StartHeld ==
    ASSUME OutboxInv, Held, NEW r \in Run, NEW id \in JobId, StartDelivery(r, id)
    PROVE  Held'
<1> USE DEF OutboxInv, OtherTypes
<1>1. id[1] \in Notification /\ id[2] \in Generation
  BY JobIdParts
<1>2. /\ Claimed(id).status = "processing" /\ Claimed(id).processingJob = id[2]
      /\ rows' = [rows EXCEPT ![id[1]] = Claimed(id)]
  <2>1. rows[id[1]].attempts + 1 \in 1 .. MaxAttempts
    BY <1>1, Attempts DEF StartDelivery, Deliverable, Row
  <2>2. Claimed(id).status = "processing" /\ Claimed(id).processingJob = id[2]
    BY <2>1, ClaimedIs
  <2>3. rows' = [rows EXCEPT ![id[1]] = Claimed(id)]
    BY Zenon DEF StartDelivery
  <2> QED BY <2>2, <2>3
<1>3. /\ delivering'[r].id = id /\ delivering'[r].awaited /\ delivering'[r].step = "flex"
      /\ \A s \in Run \ {r} : delivering'[s] = delivering[s]
  BY DEF StartDelivery, JobTypes
<1>4. \A s \in Run \ {r} : Busy(s) => RowOf(s) # id[1]
  <2> SUFFICES ASSUME NEW s \in Run \ {r}, Busy(s), RowOf(s) = id[1] PROVE FALSE
    OBVIOUS
  <2>1. rows[id[1]].status = "processing" /\ rows[id[1]].processingJob = delivering[s].id[2]
    BY DEF Held
  <2>2. delivering[s].id[2] = id[2]
    BY <2>1 DEF StartDelivery, Deliverable
  <2>3. delivering[s].id = id
    BY <2>2, BusyRun, JobIdParts DEF RowOf
  <2>4. jobs[id].state = "active"
    BY <2>3 DEF Held, JobInv
  <2> QED BY <2>4 DEF StartDelivery
<1>5. \A s \in Run \ {r} : Busy(s)' => Busy(s) /\ RowOf(s) \in Notification \ {id[1]}
  BY <1>3, <1>4, BusyRun DEF Busy
<1>6. \A n \in Notification \ {id[1]} : rows'[n] = rows[n]
  BY <1>2
<1>7. rows'[id[1]].status = "processing" /\ rows'[id[1]].processingJob = id[2]
  BY <1>1, <1>2
<1>8. ASSUME NEW s \in Run, Busy(s)'
      PROVE  /\ delivering'[s].awaited
             /\ rows'[RowOf(s)'].status = "processing"
             /\ rows'[RowOf(s)'].processingJob = delivering'[s].id[2]
             /\ delivering'[s].step = "sent" => accepted'[RowOf(s)'] # {}
  <2>1. CASE s = r
    BY <1>3, <1>7, <2>1 DEF RowOf
  <2>2. CASE s # r
    <3>1. delivering'[s] = delivering[s] /\ RowOf(s)' = RowOf(s)
      BY <1>3, <2>2 DEF RowOf
    <3>2. Busy(s) /\ rows'[RowOf(s)] = rows[RowOf(s)]
      BY <1>5, <1>6, <1>8, <2>2
    <3>3. accepted' = accepted
      BY DEF StartDelivery
    <3> QED BY <3>1, <3>2, <3>3 DEF Held
  <2> QED BY <2>1, <2>2
<1>9. ~ closed' => \A n \in Terminal : rows'[n].status = "absent"
  <2>1. rows[id[1]].status # "absent" /\ closed' = closed
    BY DEF StartDelivery, Deliverable
  <2> QED BY <1>6, <2>1, OutboxAssumption DEF Held
<1> QED BY <1>8, <1>9 DEF Held

LEMMA RunHeld ==
    ASSUME OutboxInv, Held, "timeout" \notin Fault, NEW r \in Run, RunStep(r) \/ RunFault(r)
    PROVE  Held'
<1> USE DEF OutboxInv, OtherTypes
<1>1. ASSUME delivering[r].step # "idle"
      PROVE  Busy(r) /\ RowOf(r) \in Notification
  BY <1>1, BusyRun DEF Busy, Idle
<1>2. ASSUME NEW id \in JobId, ClaimFails(r, id) PROVE Held'
  BY <1>2, StandingHeld DEF ClaimFails, SameStanding
<1>3. CASE Decline(r)
  BY <1>1, <1>3, Concluded, EndedRunHeld DEF Decline
<1>4. CASE PushFlex(r)
  BY <1>1, <1>4, ContinuedRunHeld DEF PushFlex, Accept
<1>5. CASE PushText(r)
  <2>1. Busy(r) /\ RowOf(r) \in Notification
    BY <1>1, <1>5 DEF PushText
  <2>2. UNCHANGED <<rows, closed>>
    BY <1>5 DEF PushText
  <2>3. CASE Accept(r, "text")
    <3>1. \A n \in Notification : accepted[n] # {} => accepted'[n] # {}
      BY <2>1, <2>3 DEF Accept
    <3>2. accepted'[RowOf(r)] # {}
      BY <2>1, <2>3 DEF Accept
    <3>3. \E step : Continue(r, step)
      BY <1>5 DEF PushText
    <3> QED BY <2>1, <2>2, <3>1, <3>2, <3>3, ContinuedRunHeld
  <2>4. CASE \E step \in AfterError : Continue(r, step) /\ UNCHANGED accepted
    BY <2>1, <2>2, <2>4, ContinuedRunHeld DEF AfterError
  <2> QED BY <1>5, <2>3, <2>4 DEF PushText
<1>6. CASE MarkSent(r)
  BY <1>1, <1>6, Concluded, EndedRunHeld DEF MarkSent
<1>7. CASE MarkRetry(r)
  BY <1>1, <1>7, Concluded, EndedRunHeld DEF MarkRetry
<1>8. CASE MarkFailed(r)
  <2>1. Busy(r)
    BY <1>1, <1>8 DEF MarkFailed
  <2>2. \A n \in Notification \ {RowOf(r)} : rows'[n] = rows[n]
    BY <1>8 DEF MarkFailed
  <2>3. (\E job : EndRun(r, job)) /\ UNCHANGED <<closed, accepted>>
    BY <1>8, Concluded DEF MarkFailed
  <2> QED BY <2>1, <2>2, <2>3, EndedRunHeld
<1>9. CASE MarkSentFails(r)
  BY <1>1, <1>9, ContinuedRunHeld DEF MarkSentFails
<1>10. CASE OutcomeLost(r)
  BY <1>1, <1>10, EndedRunHeld DEF OutcomeLost
<1>11. CASE WorkerDies(r)
  BY <1>11, EndedRunHeld DEF WorkerDies, Busy
<1>12. CASE JobTimeout(r)
  BY <1>12 DEF JobTimeout, Suffers
<1> QED
  BY <1>2, <1>3, <1>4, <1>5, <1>6, <1>7, <1>8, <1>9, <1>10, <1>11, <1>12
     DEF RunStep, RunFault

LEMMA EveryStepHolds ==
    ASSUME "timeout" \notin Fault
    PROVE  OutboxInv /\ Held /\ [Next]_vars => Held'
<1> SUFFICES ASSUME OutboxInv, Held, [Next]_vars PROVE Held'
  OBVIOUS
<1>1. CASE UNCHANGED vars
  BY <1>1, StandingHeld DEF vars, SameStanding
<1>2. CASE TicketStep \/ SetPreference \/ OperatorStep
  BY <1>2, OutsideHeld
<1>3. ASSUME NEW d \in Dispatcher,
             \/ \E batch \in SUBSET Notification : ClaimForDispatch(d, batch)
             \/ DispatcherStep(d) \/ DispatcherFault(d)
      PROVE  Held'
  BY <1>3, DispatcherStands, StandingHeld
<1>4. ASSUME NEW id \in JobId, NEW r \in Run, NothingToDeliver(r, id) PROVE Held'
  BY <1>4, StandingHeld DEF NothingToDeliver, SameStanding
<1>5. ASSUME NEW id \in JobId, JobStep(id) PROVE Held'
  BY <1>4, <1>5, StartHeld DEF JobStep
<1>6. ASSUME NEW r \in Run, RunStep(r) \/ RunFault(r) PROVE Held'
  BY <1>6, RunHeld
<1> QED BY <1>1, <1>2, <1>3, <1>5, <1>6 DEF Next

LEMMA HeldInvariant ==
    ASSUME "timeout" \notin Fault
    PROVE  Spec => [](OutboxInv /\ Held)
<1>1. Init => OutboxInv /\ Held
  <2>1. Init => Held
    BY OutboxAssumption DEF Init, Held, Busy, AbsentRow
  <2> QED BY <2>1, InitialOutbox
<1>2. OutboxInv /\ Held /\ [Next]_vars => (OutboxInv /\ Held)'
  BY EveryStepKeeps, EveryStepHolds
<1> QED BY <1>1, <1>2, PTL DEF Spec

(* As long as no delivery outlasts its job, a row is delivered by one run at a *)
(* time, for any number of dispatchers, worker runs, jobs of the row, crashes *)
(* and lost answers (claimForDelivery).                                       *)
THEOREM OneDelivery ==
    ASSUME "timeout" \notin Fault
    PROVE  Spec => []OneDeliveryPerRow
BY HeldInvariant, HeldExcludes, PTL

-----------------------------------------------------------------------------
(* The outbox implements the abstract delivery.                               *)

DeliveryStep == [Promise!Next]_(Promise!deliveryVars)

(* One row goes from one status to another and nothing is accepted.           *)
Settles(n, from, to) ==
    /\ rows[n].status = from /\ rows'[n].status = to
    /\ \A m \in Notification \ {n} : rows'[m].status = rows[m].status
    /\ accepted' = accepted

LEMMA SettlesRefines ==
    ASSUME NEW n \in Notification, NEW from, NEW to, Settles(n, from, to),
           \/ from = to
           \/ from \in DueStatus /\ to \in DueStatus \cup {"cancelled", "failed"}
           \/ from \in DueStatus /\ to = "sent" /\ accepted[n] # {}
           \/ from \in {"absent", "failed"} /\ to = "pending"
    PROVE  DeliveryStep
<1> USE DEF Settles, WithRowStatus, DueStatus
<1>1. {m \in Notification : accepted'[m] # {}} = {m \in Notification : accepted[m] # {}}
  OBVIOUS
<1>2. CASE from = to \/ (from \in DueStatus /\ to \in DueStatus)
  <2>1. \A statuses \in {DueStatus, {"sent"}, {"failed"}, {"cancelled"}} :
           WithRowStatus(statuses)' = WithRowStatus(statuses)
    BY <1>2
  <2>2. UNCHANGED Promise!deliveryVars
    BY <1>1, <2>1 DEF Promise!deliveryVars
  <2> QED BY <2>2 DEF DeliveryStep
<1>3. CASE from \in DueStatus /\ to = "cancelled"
  <2>1. Promise!Ask({}, {n})
    BY <1>1, <1>3 DEF Promise!Ask
  <2> QED BY <2>1 DEF DeliveryStep, Promise!Next
<1>4. CASE from = "absent" /\ to = "pending"
  <2>1. Promise!Ask({n}, {})
    BY <1>1, <1>4 DEF Promise!Ask
  <2> QED BY <2>1 DEF DeliveryStep, Promise!Next
<1>5. CASE from \in DueStatus /\ to = "failed"
  <2>1. Promise!GiveUp(n)
    BY <1>1, <1>5 DEF Promise!GiveUp
  <2> QED BY <2>1 DEF DeliveryStep, Promise!Next
<1>6. CASE from \in DueStatus /\ to = "sent" /\ accepted[n] # {}
  <2>1. Promise!Confirm(n)
    BY <1>1, <1>6 DEF Promise!Confirm
  <2> QED BY <2>1 DEF DeliveryStep, Promise!Next
<1>7. CASE from = "failed" /\ to = "pending"
  <2>1. Promise!AskAgain(n)
    BY <1>1, <1>7 DEF Promise!AskAgain
  <2> QED BY <2>1 DEF DeliveryStep, Promise!Next
<1> QED BY <1>2, <1>3, <1>4, <1>5, <1>6, <1>7

(* No row goes anywhere.                                                      *)
LEMMA StandingRefines ==
    ASSUME \A n \in Notification : rows'[n].status = rows[n].status, UNCHANGED accepted
    PROVE  DeliveryStep
<1>1. UNCHANGED Promise!deliveryVars
  BY DEF Promise!deliveryVars, WithRowStatus
<1> QED BY <1>1 DEF DeliveryStep

(* A row that is due gets a message accepted.                                 *)
LEMMA AcceptRefines ==
    ASSUME OutboxInv, Held, NEW r \in Run, Busy(r), NEW message, Accept(r, message),
           UNCHANGED rows
    PROVE  DeliveryStep
<1>1. PICK n \in Notification : n = RowOf(r) /\ rows[n].status \in DueStatus
  BY BusyRun DEF OutboxInv, Held, DueStatus
<1>2. {m \in Notification : accepted'[m] # {}}
        = {m \in Notification : accepted[m] # {}} \cup {n}
  BY <1>1 DEF Accept, OutboxInv, OtherTypes
<1>3. Promise!Reach(n)
  BY <1>1, <1>2 DEF Promise!Reach, WithRowStatus
<1> QED BY <1>3 DEF DeliveryStep, Promise!Next

LEMMA OutsideRefines ==
    ASSUME OutboxInv, Held, TicketStep \/ SetPreference \/ OperatorStep
    PROVE  DeliveryStep
<1> USE DEF OutboxInv, OtherTypes
<1>0. \A n \in Notification : rows[n] \in Row
  OBVIOUS
<1>1. ASSUME NEW n \in Notification, Enqueue(n) PROVE DeliveryStep
  <2>1. Settles(n, "absent", "pending")
    BY <1>1 DEF Enqueue, Settles, NewRow, AbsentRow
  <2> QED BY <2>1, SettlesRefines
<1>2. ASSUME NEW n \in Notification, CloseTicket(n) PROVE DeliveryStep
  <2> DEFINE new == IF enabled THEN {n} ELSE {}
             obsolete == {m \in Notification \ {n} : rows[m].status = "pending"}
  <2>1. rows[n].status = "absent" /\ accepted' = accepted
    BY <1>2 DEF CloseTicket, Held
  <2>2. rows'[n].status = IF enabled THEN "pending" ELSE "absent"
    BY <1>2, <2>1 DEF CloseTicket, NewRow, AbsentRow
  <2>3. \A m \in Notification \ {n} :
           rows'[m].status = IF rows[m].status = "pending" THEN "cancelled"
                             ELSE rows[m].status
    BY <1>0, <1>2 DEF CloseTicket, Obsolete, Row
  <2>4. /\ new \subseteq Notification /\ obsolete \subseteq Notification
        /\ new \cap (WithRowStatus(DueStatus) \cup WithRowStatus({"sent"})
                    \cup WithRowStatus({"failed"}) \cup WithRowStatus({"cancelled"})) = {}
        /\ obsolete \subseteq WithRowStatus(DueStatus)
    BY <2>1 DEF WithRowStatus, DueStatus
  <2>5. WithRowStatus(DueStatus)' = (WithRowStatus(DueStatus) \ obsolete) \cup new
    BY <2>1, <2>2, <2>3 DEF WithRowStatus, DueStatus
  <2>6. WithRowStatus({"cancelled"})' = WithRowStatus({"cancelled"}) \cup obsolete
    BY <2>1, <2>2, <2>3 DEF WithRowStatus
  <2>7. /\ WithRowStatus({"sent"})' = WithRowStatus({"sent"})
        /\ WithRowStatus({"failed"})' = WithRowStatus({"failed"})
    BY <2>1, <2>2, <2>3 DEF WithRowStatus
  <2> HIDE DEF new, obsolete
  <2>8. Promise!Ask(new, obsolete)
    BY <2>1, <2>4, <2>5, <2>6, <2>7 DEF Promise!Ask
  <2> QED BY <2>4, <2>8 DEF DeliveryStep, Promise!Next
<1>3. CASE SetPreference
  BY <1>3, StandingRefines DEF SetPreference
<1>4. ASSUME NEW n \in Notification, RetryFailed(n) PROVE DeliveryStep
  <2>1. Settles(n, "failed", "pending")
    BY <1>4 DEF RetryFailed, Settles, NewRow, AbsentRow
  <2> QED BY <2>1, SettlesRefines
<1>5. ASSUME NEW n \in Notification, CancelObsolete(n) PROVE DeliveryStep
  <2>1. rows' = [rows EXCEPT ![n] = [rows[n] EXCEPT !.status = "cancelled",
                                                   !.processingJob = NoJob]]
    BY <1>5, Zenon DEF CancelObsolete
  <2>2. Settles(n, "pending", "cancelled")
    BY <1>0, <1>5, <2>1 DEF CancelObsolete, Settles, Row
  <2> QED BY <2>2, SettlesRefines DEF DueStatus
<1> QED BY <1>1, <1>2, <1>3, <1>4, <1>5 DEF TicketStep, OperatorStep

LEMMA StartRefines ==
    ASSUME OutboxInv, NEW r \in Run, NEW id \in JobId, StartDelivery(r, id)
    PROVE  DeliveryStep
<1>1. id[1] \in Notification /\ rows[id[1]] \in Row
  BY JobIdParts DEF OutboxInv, OtherTypes
<1>2. rows[id[1]].attempts + 1 \in 1 .. MaxAttempts
  BY <1>1, Attempts DEF StartDelivery, Deliverable, Row
<1>3. Claimed(id).status = "processing"
  BY <1>2, ClaimedIs DEF OutboxInv, OtherTypes
<1>4. rows' = [rows EXCEPT ![id[1]] = Claimed(id)] /\ accepted' = accepted
  BY Zenon DEF StartDelivery
<1>5. rows[id[1]].status \in DueStatus
  BY DEF StartDelivery, Deliverable, DueStatus
<1>6. Settles(id[1], rows[id[1]].status, "processing")
  BY <1>1, <1>3, <1>4 DEF Settles, OutboxInv, OtherTypes
<1> QED BY <1>1, <1>5, <1>6, SettlesRefines DEF DueStatus

LEMMA RunRefines ==
    ASSUME OutboxInv, Held, "timeout" \notin Fault, NEW r \in Run, RunStep(r) \/ RunFault(r)
    PROVE  DeliveryStep
<1> USE DEF OutboxInv, OtherTypes
<1> DEFINE n == RowOf(r)
<1>1. ASSUME delivering[r].step # "idle"
      PROVE  /\ Busy(r) /\ n \in Notification /\ rows[n] \in Row
             /\ rows[n].status = "processing"
  BY <1>1, BusyRun DEF Busy, Idle, Held
<1>2. CASE \/ \E id \in JobId : ClaimFails(r, id)
           \/ MarkSentFails(r) \/ OutcomeLost(r) \/ WorkerDies(r)
  BY <1>2, StandingRefines DEF ClaimFails, MarkSentFails, OutcomeLost, WorkerDies
<1>3. CASE Decline(r)
  <2>1. Settles(n, "processing", "cancelled")
    BY <1>1, <1>3 DEF Decline, Cancellable, Settles, Row
  <2> QED BY <1>1, <1>3, <2>1, SettlesRefines DEF Decline, DueStatus
<1>4. CASE PushFlex(r)
  <2>1. Busy(r) /\ UNCHANGED rows
    BY <1>1, <1>4 DEF PushFlex
  <2>2. Accept(r, "flex") \/ UNCHANGED accepted
    BY <1>4 DEF PushFlex
  <2> QED BY <2>1, <2>2, AcceptRefines, StandingRefines
<1>5. CASE PushText(r)
  <2>1. Busy(r) /\ UNCHANGED rows
    BY <1>1, <1>5 DEF PushText
  <2>2. Accept(r, "text") \/ UNCHANGED accepted
    BY <1>5 DEF PushText
  <2> QED BY <2>1, <2>2, AcceptRefines, StandingRefines
<1>6. CASE MarkSent(r)
  <2>1. rows' = [rows EXCEPT ![n] = [rows[n] EXCEPT !.status = "sent", !.processingJob = NoJob]]
    BY <1>6, Zenon DEF MarkSent
  <2>2. Settles(n, "processing", "sent")
    BY <1>1, <1>6, <2>1 DEF MarkSent, Settles, Row
  <2>3. n \in Notification /\ accepted[n] # {}
    BY <1>1, <1>6 DEF MarkSent, Held
  <2> QED BY <2>2, <2>3, SettlesRefines DEF DueStatus
<1>7. CASE MarkRetry(r)
  <2>1. rows' = [rows EXCEPT ![n] = [rows[n] EXCEPT !.status = "pending",
                                !.processingJob = NoJob, !.retryable = TRUE]]
    BY <1>7, Zenon DEF MarkRetry
  <2>2. Settles(n, "processing", "pending")
    BY <1>1, <1>7, <2>1 DEF MarkRetry, Settles, Row
  <2> QED BY <1>1, <1>7, <2>2, SettlesRefines DEF MarkRetry, DueStatus
<1>8. CASE MarkFailed(r)
  <2> DEFINE again == delivering[r].step = "retry"
  <2>1. rows' = [rows EXCEPT ![n] = [rows[n] EXCEPT !.status = "failed",
                                !.processingJob = NoJob, !.retryable = again]]
    BY <1>8, Zenon DEF MarkFailed
  <2>2. n \in Notification /\ rows[n] \in Row /\ rows[n].status = "processing"
    BY <1>1, <1>8 DEF MarkFailed
  <2>3. accepted' = accepted
    BY <1>8 DEF MarkFailed
  <2> HIDE DEF again
  <2>4. Settles(n, "processing", "failed")
    BY <2>1, <2>2, <2>3 DEF Settles, Row
  <2> QED BY <2>2, <2>4, SettlesRefines DEF DueStatus
<1>9. CASE JobTimeout(r)
  BY <1>9 DEF JobTimeout, Suffers
<1> QED
  BY <1>2, <1>3, <1>4, <1>5, <1>6, <1>7, <1>8, <1>9 DEF RunStep, RunFault

LEMMA EveryStepRefines ==
    ASSUME "timeout" \notin Fault
    PROVE  OutboxInv /\ Held /\ [Next]_vars => [Promise!Next]_(Promise!deliveryVars)
<1> SUFFICES ASSUME OutboxInv, Held, [Next]_vars PROVE DeliveryStep
  BY DEF DeliveryStep
<1>1. CASE UNCHANGED vars
  BY <1>1, StandingRefines DEF vars
<1>2. CASE TicketStep \/ SetPreference \/ OperatorStep
  BY <1>2, OutsideRefines
<1>3. ASSUME NEW d \in Dispatcher,
             \/ \E batch \in SUBSET Notification : ClaimForDispatch(d, batch)
             \/ DispatcherStep(d) \/ DispatcherFault(d)
      PROVE  DeliveryStep
  BY <1>3, DispatcherStands, StandingRefines DEF SameStanding
<1>4. ASSUME NEW id \in JobId, NEW r \in Run, NothingToDeliver(r, id) PROVE DeliveryStep
  BY <1>4, StandingRefines DEF NothingToDeliver
<1>5. ASSUME NEW id \in JobId, JobStep(id) PROVE DeliveryStep
  BY <1>4, <1>5, StartRefines DEF JobStep
<1>6. ASSUME NEW r \in Run, RunStep(r) \/ RunFault(r) PROVE DeliveryStep
  BY <1>6, RunRefines
<1> QED BY <1>1, <1>2, <1>3, <1>5, <1>6 DEF Next

(* As long as no delivery outlasts its job, the outbox keeps its promise,     *)
(* whoever dies, whichever statement fails and whichever answer is lost: a    *)
(* message is pushed only for a notice that is due, only what LINE accepted   *)
(* is reported sent, and a notice that was sent or cancelled stays so.        *)
THEOREM DeliveryRefined ==
    ASSUME "timeout" \notin Fault
    PROVE  Spec => ImplementsDelivery
<1>1. Init => Promise!Init
  BY DEF Init, Promise!Init, WithRowStatus, AbsentRow, DueStatus
<1> QED
  BY <1>1, HeldInvariant, EveryStepRefines, PTL DEF Spec, ImplementsDelivery, Promise!Spec

-----------------------------------------------------------------------------
(* What the rows report: one said to be sent was accepted by LINE, one that  *)
(* the queue has given up is not left as if it were still under way.          *)

(* LINE has accepted a message of every row that is reported sent, and of the *)
(* row of every run that is about to report it, also under timeouts.          *)
Earned ==
    /\ SentWasAccepted
    /\ \A r \in Run : delivering[r].step = "sent" => accepted[RowOf(r)] # {}

(* A step that takes nothing back from what LINE accepted, and that reports or *)
(* is to report nothing new, or nothing but what was accepted.                *)
LEMMA EarnedKeeps ==
    ASSUME Earned,
           \A n \in Notification : accepted[n] # {} => accepted'[n] # {},
           \A n \in Notification :
              rows'[n].status = "sent" => rows[n].status = "sent" \/ accepted'[n] # {},
           \A r \in Run : delivering'[r].step = "sent" =>
              \/ /\ delivering[r].step = "sent" /\ delivering'[r].id = delivering[r].id
                 /\ RowOf(r) \in Notification
              \/ accepted'[RowOf(r)'] # {}
    PROVE  Earned'
BY DEF Earned, SentWasAccepted, RowOf

(* The row of a run that is not idle, which a run is that has a step to make. *)
LEMMA RowOfStep ==
    ASSUME OutboxInv, NEW r \in Run, delivering[r].step # "idle"
    PROVE  Busy(r) /\ RowOf(r) \in Notification /\ rows[RowOf(r)] \in Row
BY BusyRun DEF OutboxInv, OtherTypes, Busy, Idle

LEMMA IdleStepEarns ==
    ASSUME OutboxInv, Earned, UNCHANGED <<delivering, accepted>>,
           \A n \in Notification : rows'[n].status = "sent" => rows[n].status = "sent"
    PROVE  Earned'
BY EarnedKeeps, RowOfStep

LEMMA EndedRunEarns ==
    ASSUME OutboxInv, Earned, NEW r \in Run, NEW job, EndRun(r, job),
           UNCHANGED accepted,
           \A n \in Notification :
              rows'[n].status = "sent" => rows[n].status = "sent" \/ accepted[n] # {}
    PROVE  Earned'
<1>1. \A s \in Run : delivering'[s].step = "sent" =>
        delivering[s].step = "sent" /\ delivering'[s] = delivering[s]
  BY DEF EndRun, OutboxInv, JobTypes, Idle
<1> QED BY <1>1, EarnedKeeps, RowOfStep

LEMMA ContinuedRunEarns ==
    ASSUME OutboxInv, Earned, NEW r \in Run, Busy(r), NEW step, Continue(r, step),
           step = "sent" => accepted'[RowOf(r)] # {},
           \A n \in Notification : accepted[n] # {} => accepted'[n] # {},
           UNCHANGED rows
    PROVE  Earned'
<1>1. delivering[r] \in Delivery
  BY BusyRun DEF OutboxInv
<1>2. /\ delivering'[r].id = delivering[r].id /\ delivering'[r].step = step
      /\ \A s \in Run \ {r} : delivering'[s] = delivering[s]
  BY <1>1 DEF Continue, OutboxInv, JobTypes, Delivery
<1>3. \A s \in Run : delivering'[s].step = "sent" =>
        \/ /\ delivering[s].step = "sent" /\ delivering'[s].id = delivering[s].id
           /\ RowOf(s) \in Notification
        \/ accepted'[RowOf(s)'] # {}
  BY <1>2, RowOfStep DEF RowOf
<1> QED BY <1>3, EarnedKeeps

LEMMA OutsideEarns ==
    ASSUME OutboxInv, Earned, TicketStep \/ SetPreference \/ OperatorStep
    PROVE  Earned'
<1>1. UNCHANGED <<delivering, accepted>>
  BY DEF TicketStep, SetPreference, OperatorStep, Enqueue, CloseTicket, RetryFailed,
         CancelObsolete
<1> DEFINE NoneSent ==
          \A n \in Notification : rows'[n].status = "sent" => rows[n].status = "sent"
<1>2. NoneSent
  <2> USE DEF OutboxInv, OtherTypes
  <2>1. NewRow.status = "pending"
    BY DEF NewRow, AbsentRow
  <2>2. ASSUME NEW n \in Notification, Enqueue(n) \/ RetryFailed(n) PROVE NoneSent
    <3>1. CASE Enqueue(n)
      BY <2>1, <3>1 DEF Enqueue
    <3>2. CASE RetryFailed(n)
      <4>1. [NewRow EXCEPT !.manual = rows[n].manual + 1,
                           !.dispatchJob = rows[n].manual + 1].status = "pending"
        BY DEF NewRow, AbsentRow
      <4> QED BY <3>2, <4>1 DEF RetryFailed
    <3> QED BY <2>2, <3>1, <3>2
  <2>3. ASSUME NEW n \in Notification, CloseTicket(n) PROVE NoneSent
    <3>1. \A m \in Notification : [rows[m] EXCEPT !.status = "cancelled"].status = "cancelled"
      BY DEF Row
    <3>2. \A m \in Notification :
             rows'[m] \in {NewRow, rows[m], [rows[m] EXCEPT !.status = "cancelled"]}
      BY <2>3 DEF CloseTicket
    <3> QED BY <2>1, <3>1, <3>2
  <2>4. ASSUME NEW n \in Notification, CancelObsolete(n) PROVE NoneSent
    <3>1. rows' = [rows EXCEPT ![n] = [rows[n] EXCEPT !.status = "cancelled",
                                                     !.processingJob = NoJob]]
      BY <2>4, Zenon DEF CancelObsolete
    <3> QED BY <3>1 DEF Row
  <2>5. ASSUME SetPreference PROVE NoneSent
    BY <2>5 DEF SetPreference
  <2> QED BY <2>2, <2>3, <2>4, <2>5 DEF TicketStep, OperatorStep
<1> QED BY <1>1, <1>2, IdleStepEarns

LEMMA StartEarns ==
    ASSUME OutboxInv, Earned, NEW r \in Run, NEW id \in JobId, StartDelivery(r, id)
    PROVE  Earned'
<1>1. id[1] \in Notification /\ rows[id[1]] \in Row
  BY JobIdParts DEF OutboxInv, OtherTypes
<1>2. rows[id[1]].attempts + 1 \in 1 .. MaxAttempts
  BY <1>1, Attempts DEF StartDelivery, Deliverable, Row
<1>3. Claimed(id).status = "processing"
  BY <1>2, ClaimedIs DEF OutboxInv, OtherTypes
<1>4. rows' = [rows EXCEPT ![id[1]] = Claimed(id)] /\ accepted' = accepted
  BY Zenon DEF StartDelivery
<1>5. \A n \in Notification : rows'[n].status = "sent" => rows[n].status = "sent"
  BY <1>1, <1>3, <1>4 DEF OutboxInv, OtherTypes
<1>6. \A s \in Run : delivering'[s].step = "sent" =>
        delivering[s].step = "sent" /\ delivering'[s] = delivering[s]
  BY DEF StartDelivery, OutboxInv, JobTypes
<1> QED BY <1>4, <1>5, <1>6, EarnedKeeps, RowOfStep

LEMMA RunEarns ==
    ASSUME OutboxInv, Earned, NEW r \in Run, RunStep(r) \/ RunFault(r)
    PROVE  Earned'
<1> USE DEF OutboxInv, OtherTypes
<1>1. CASE \E id \in JobId : ClaimFails(r, id)
  BY <1>1, IdleStepEarns DEF ClaimFails
<1>2. CASE Decline(r)
  BY <1>2, RowOfStep, Concluded, EndedRunEarns DEF Decline, Row
<1>3. CASE PushFlex(r)
  BY <1>3, RowOfStep, ContinuedRunEarns DEF PushFlex, Accept
<1>4. CASE PushText(r)
  <2>1. Busy(r) /\ RowOf(r) \in Notification /\ UNCHANGED rows
    BY <1>4, RowOfStep DEF PushText
  <2>2. CASE Accept(r, "text")
    <3>1. /\ \A n \in Notification : accepted[n] # {} => accepted'[n] # {}
          /\ accepted'[RowOf(r)] # {}
      BY <2>1, <2>2 DEF Accept
    <3>2. \E step : Continue(r, step)
      BY <1>4 DEF PushText
    <3> QED BY <2>1, <3>1, <3>2, ContinuedRunEarns
  <2>3. CASE \E step \in AfterError : Continue(r, step) /\ UNCHANGED accepted
    BY <2>1, <2>3, ContinuedRunEarns DEF AfterError
  <2> QED BY <1>4, <2>2, <2>3 DEF PushText
<1>5. CASE MarkSent(r)
  <2>1. RowOf(r) \in Notification /\ accepted[RowOf(r)] # {}
    BY <1>5, RowOfStep DEF MarkSent, Earned
  <2>2. \A n \in Notification \ {RowOf(r)} : rows'[n] = rows[n]
    BY <1>5 DEF MarkSent
  <2> QED BY <1>5, <2>1, <2>2, Concluded, EndedRunEarns DEF MarkSent
<1>6. CASE MarkRetry(r)
  <2>1. rows' = [rows EXCEPT ![RowOf(r)] = [rows[RowOf(r)] EXCEPT !.status = "pending",
                                !.processingJob = NoJob, !.retryable = TRUE]]
    BY <1>6, Zenon DEF MarkRetry
  <2>2. \A n \in Notification : rows'[n].status = "sent" => rows[n].status = "sent"
    BY <2>1 DEF Row
  <2> QED BY <1>6, <2>2, Concluded, EndedRunEarns DEF MarkRetry
<1>7. CASE MarkFailed(r)
  <2> DEFINE again == delivering[r].step = "retry"
  <2>1. rows' = [rows EXCEPT ![RowOf(r)] = [rows[RowOf(r)] EXCEPT !.status = "failed",
                                !.processingJob = NoJob, !.retryable = again]]
    BY <1>7, Zenon DEF MarkFailed
  <2>2. (\E job : EndRun(r, job)) /\ UNCHANGED accepted
    BY <1>7, Concluded DEF MarkFailed
  <2> HIDE DEF again
  <2>3. \A n \in Notification : rows'[n].status = "sent" => rows[n].status = "sent"
    BY <2>1 DEF Row
  <2> QED BY <2>2, <2>3, EndedRunEarns
<1>8. CASE MarkSentFails(r)
  BY <1>8, RowOfStep, ContinuedRunEarns DEF MarkSentFails
<1>9. CASE OutcomeLost(r) \/ WorkerDies(r)
  BY <1>9, EndedRunEarns DEF OutcomeLost, WorkerDies
<1>10. CASE JobTimeout(r)
  <2>1. delivering[r] \in Delivery
    BY <1>10 DEF JobTimeout, JobTypes
  <2>2. \A s \in Run : /\ delivering'[s].step = "sent" => delivering[s].step = "sent"
                       /\ delivering[s].step = "sent" => delivering'[s].id = delivering[s].id
    BY <1>10, <2>1 DEF JobTimeout, JobTypes, Delivery
  <2> QED BY <1>10, <2>2, EarnedKeeps, RowOfStep DEF JobTimeout
<1> QED
  BY <1>1, <1>2, <1>3, <1>4, <1>5, <1>6, <1>7, <1>8, <1>9, <1>10 DEF RunStep, RunFault

LEMMA EveryStepEarns == OutboxInv /\ Earned /\ [Next]_vars => Earned'
<1> SUFFICES ASSUME OutboxInv, Earned, [Next]_vars PROVE Earned'
  OBVIOUS
<1>1. CASE UNCHANGED vars
  BY <1>1, IdleStepEarns DEF vars
<1>2. CASE TicketStep \/ SetPreference \/ OperatorStep
  BY <1>2, OutsideEarns
<1>3. ASSUME NEW d \in Dispatcher,
             \/ \E batch \in SUBSET Notification : ClaimForDispatch(d, batch)
             \/ DispatcherStep(d) \/ DispatcherFault(d)
      PROVE  Earned'
  BY <1>3, DispatcherStands, IdleStepEarns DEF SameStanding
<1>4. ASSUME NEW id \in JobId, NEW r \in Run, NothingToDeliver(r, id) PROVE Earned'
  BY <1>4, IdleStepEarns DEF NothingToDeliver
<1>5. ASSUME NEW id \in JobId, JobStep(id) PROVE Earned'
  BY <1>4, <1>5, StartEarns DEF JobStep
<1>6. ASSUME NEW r \in Run, RunStep(r) \/ RunFault(r) PROVE Earned'
  BY <1>6, RunEarns
<1> QED BY <1>1, <1>2, <1>3, <1>5, <1>6 DEF Next

(* Whatever fails, and also where deliveries outlast their jobs, no row is    *)
(* reported sent of which LINE has not accepted a message (markSent comes     *)
(* after pushTicketNotificationOrThrow, and that throws if LINE refused).     *)
THEOREM SentIsEarned == Spec => []SentWasAccepted
<1>1. Init => Earned
  BY DEF Init, Earned, SentWasAccepted, AbsentRow, Idle
<1>2. Earned => SentWasAccepted
  BY DEF Earned
<1> QED
  BY <1>1, <1>2, InitialOutbox, EveryStepKeeps, EveryStepEarns, PTL DEF Spec

-----------------------------------------------------------------------------
(* The attempt of a run was counted on its row, which exists.                 *)
Counted ==
    /\ AttemptsMadeOnce
    /\ \A r \in Run : Busy(r) =>
          /\ rows[RowOf(r)].status # "absent"
          /\ delivering[r].attempt <= rows[RowOf(r)].attempts
    /\ ~ closed => \A n \in Terminal : rows[n].status = "absent"

RunsKept ==
    \A r \in Run : Busy(r)' => /\ Busy(r) /\ delivering'[r].id = delivering[r].id
                               /\ delivering'[r].attempt = delivering[r].attempt
RowsKept ==
    \A n \in Notification : rows[n].status # "absent" =>
        rows'[n].status # "absent" /\ rows'[n].attempts = rows[n].attempts

LEMMA CountedKeeps ==
    ASSUME OutboxInv, Counted, RunsKept, RowsKept, TerminalKept
    PROVE  Counted'
<1>1. \A r \in Run : Busy(r) => RowOf(r) \in Notification
  BY BusyRun DEF OutboxInv
<1> QED BY <1>1 DEF Counted, RunsKept, RowsKept, TerminalKept, AttemptsMadeOnce, Busy, RowOf

(* Only the status of rows that exist matters for the rows of a ticket that   *)
(* is open.                                                                   *)
LEMMA OpenTicketKept ==
    ASSUME \A n \in Notification : rows[n].status = "absent" => rows'[n].status = "absent",
           UNCHANGED closed
    PROVE  TerminalKept
BY OutboxAssumption DEF TerminalKept

LEMMA EndedRunCounts ==
    ASSUME OutboxInv, NEW r \in Run, NEW job, EndRun(r, job)
    PROVE  RunsKept
BY DEF EndRun, RunsKept, OutboxInv, JobTypes, Busy

LEMMA ContinuedRunCounts ==
    ASSUME OutboxInv, NEW r \in Run, Busy(r), NEW step, Continue(r, step)
    PROVE  RunsKept
<1>1. delivering[r] \in Delivery
  BY BusyRun DEF OutboxInv
<1> QED BY <1>1 DEF Continue, RunsKept, OutboxInv, JobTypes, Busy, Delivery

(* A statement that settles a row keeps its count of attempts.               *)
LEMMA SettledRows ==
    ASSUME OutboxInv, NEW n \in Notification, rows[n].status # "absent",
           NEW status, status # "absent",
           \/ rows' = [rows EXCEPT ![n] = [rows[n] EXCEPT !.status = status]]
           \/ rows' = [rows EXCEPT ![n] = [rows[n] EXCEPT !.status = status,
                                                         !.processingJob = NoJob]]
           \/ \E b : rows' = [rows EXCEPT ![n] = [rows[n] EXCEPT !.status = status,
                                             !.processingJob = NoJob, !.retryable = b]]
    PROVE  /\ RowsKept
           /\ \A m \in Notification : rows[m].status = "absent" => rows'[m].status = "absent"
<1>1. rows[n] \in Row /\ rows \in [Notification -> Row]
  BY DEF OutboxInv, OtherTypes
<1>2. PICK new : rows' = [rows EXCEPT ![n] = new]
                 /\ new.status # "absent" /\ new.attempts = rows[n].attempts
  <2>1. CASE rows' = [rows EXCEPT ![n] = [rows[n] EXCEPT !.status = status]]
    <3> DEFINE row == [rows[n] EXCEPT !.status = status]
    <3>1. rows' = [rows EXCEPT ![n] = row]
      BY <2>1, Zenon
    <3>2. row.status # "absent" /\ row.attempts = rows[n].attempts
      BY <1>1 DEF Row
    <3> HIDE DEF row
    <3> QED BY <3>1, <3>2, Zenon
  <2>2. CASE rows' = [rows EXCEPT ![n] =
                                [rows[n] EXCEPT !.status = status, !.processingJob = NoJob]]
    <3> DEFINE row == [rows[n] EXCEPT !.status = status, !.processingJob = NoJob]
    <3>1. rows' = [rows EXCEPT ![n] = row]
      BY <2>2, Zenon
    <3>2. row.status # "absent" /\ row.attempts = rows[n].attempts
      BY <1>1 DEF Row
    <3> HIDE DEF row
    <3> QED BY <3>1, <3>2, Zenon
  <2>3. ASSUME NEW b, rows' = [rows EXCEPT ![n] = [rows[n] EXCEPT !.status = status,
                                               !.processingJob = NoJob, !.retryable = b]]
        PROVE  \E new : rows' = [rows EXCEPT ![n] = new]
                 /\ new.status # "absent" /\ new.attempts = rows[n].attempts
    <3> DEFINE row == [rows[n] EXCEPT !.status = status, !.processingJob = NoJob,
                                          !.retryable = b]
    <3>1. rows' = [rows EXCEPT ![n] = row]
      BY <2>3, Zenon
    <3>2. row.status # "absent" /\ row.attempts = rows[n].attempts
      BY <1>1 DEF Row
    <3> HIDE DEF row
    <3> QED BY <3>1, <3>2, Zenon
  <2> QED BY <2>1, <2>2, <2>3
<1>3. \A m \in Notification \ {n} : rows'[m] = rows[m]
  BY <1>1, <1>2
<1>4. rows'[n] = new
  BY <1>1, <1>2
<1> QED BY <1>2, <1>3, <1>4 DEF RowsKept

LEMMA OutsideCounts ==
    ASSUME OutboxInv, Counted, MaxManual = 0, TicketStep \/ SetPreference \/ OperatorStep
    PROVE  Counted'
<1> USE DEF OutboxInv, OtherTypes
<1>1. UNCHANGED delivering
  BY DEF TicketStep, SetPreference, OperatorStep, Enqueue, CloseTicket, RetryFailed,
         CancelObsolete
<1>2. RunsKept
  BY <1>1 DEF RunsKept, Busy
<1>3. ASSUME NEW n \in Notification, Enqueue(n) PROVE Counted'
  <2>1. RowsKept /\ TerminalKept
    BY <1>3, OutboxAssumption DEF Enqueue, RowsKept, TerminalKept
  <2> QED BY <1>2, <2>1, CountedKeeps
<1>4. ASSUME NEW n \in Notification, CloseTicket(n) PROVE Counted'
  <2>1. TerminalKept /\ rows[n].status = "absent"
    BY <1>4 DEF CloseTicket, TerminalKept, Counted
  <2>2. \A m \in Notification \ {n} :
           rows'[m] \in {rows[m], [rows[m] EXCEPT !.status = "cancelled"]}
    BY <1>4 DEF CloseTicket
  <2>3. RowsKept
    BY <2>1, <2>2 DEF RowsKept, Row
  <2> QED BY <1>2, <2>1, <2>3, CountedKeeps
<1>5. CASE SetPreference
  BY <1>2, <1>5, CountedKeeps DEF SetPreference, RowsKept, TerminalKept
<1>6. ASSUME NEW n \in Notification, RetryFailed(n) PROVE Counted'
  <2>1. rows[n].manual \in 0 .. 0 /\ rows[n].manual < 0
    BY <1>6 DEF RetryFailed, Row, Generation
  <2> QED BY <2>1
<1>7. ASSUME NEW n \in Notification, CancelObsolete(n) PROVE Counted'
  <2>1. rows' = [rows EXCEPT ![n] = [rows[n] EXCEPT !.status = "cancelled",
                                                   !.processingJob = NoJob]]
    BY <1>7, Zenon DEF CancelObsolete
  <2>2. rows[n].status # "absent" /\ closed' = closed
    BY <1>7 DEF CancelObsolete
  <2> QED BY <1>2, <2>1, <2>2, SettledRows, OpenTicketKept, CountedKeeps
<1> QED BY <1>3, <1>4, <1>5, <1>6, <1>7 DEF TicketStep, OperatorStep

(* A dispatcher counts no attempt.                                            *)
LEMMA DispatcherCountsNone ==
    ASSUME OutboxInv, NEW d \in Dispatcher,
           \/ \E batch \in SUBSET Notification : ClaimForDispatch(d, batch)
           \/ DispatcherStep(d) \/ DispatcherFault(d)
    PROVE  \A n \in Notification : rows'[n].attempts = rows[n].attempts
<1> USE DEF OutboxInv, OtherTypes
<1> DEFINE Same == \A n \in Notification : rows'[n].attempts = rows[n].attempts
<1>1. ASSUME NEW batch \in SUBSET Notification, ClaimForDispatch(d, batch) PROVE Same
  BY <1>1 DEF ClaimForDispatch, Row
<1>2. ASSUME UNCHANGED rows PROVE Same
  BY <1>2
<1>3. ASSUME MarkDispatched(d) PROVE Same
  <2> DEFINE n == dispatching[d].at[1]
             row == [rows[n] EXCEPT !.dispatch = "dispatched",
                                    !.dispatchJob = dispatching[d].at[2]]
  <2>1. [rows EXCEPT ![n].dispatch = "dispatched",
                     ![n].dispatchJob = dispatching[d].at[2]] = [rows EXCEPT ![n] = row]
    BY Zenon
  <2>2. rows' = rows \/ rows' = [rows EXCEPT ![n].dispatch = "dispatched",
                                            ![n].dispatchJob = dispatching[d].at[2]]
    BY <1>3, Zenon DEF MarkDispatched
  <2>3. n \in Notification => row.attempts = rows[n].attempts
    BY DEF Row
  <2>4. rows' = rows \/ rows' = [rows EXCEPT ![n] = row]
    BY <2>1, <2>2
  <2> HIDE DEF row
  <2> QED BY <2>3, <2>4
<1>4. ASSUME MarkDispatchRetry(d) PROVE Same
  BY <1>4 DEF MarkDispatchRetry, Row
<1> QED
  BY <1>1, <1>2, <1>3, <1>4
     DEF DispatcherStep, DispatcherFault, AddJob, AddFails, MarkDispatchedFails,
         DispatcherDies

LEMMA StartCounts ==
    ASSUME OutboxInv, Counted, NEW r \in Run, NEW id \in JobId, StartDelivery(r, id)
    PROVE  Counted'
<1> USE DEF OutboxInv, OtherTypes
<1>1. id[1] \in Notification /\ rows[id[1]] \in Row
  BY JobIdParts
<1>2. rows[id[1]].attempts \in Nat /\ rows[id[1]].attempts + 1 \in 1 .. MaxAttempts
  BY <1>1, Attempts DEF StartDelivery, Deliverable, Row
<1>3. /\ Claimed(id).status = "processing"
      /\ Claimed(id).attempts = rows[id[1]].attempts + 1
  BY <1>2, ClaimedIs
<1>4. rows' = [rows EXCEPT ![id[1]] = Claimed(id)] /\ closed' = closed
  BY Zenon DEF StartDelivery
<1>5. /\ delivering'[r].id = id /\ delivering'[r].attempt = Claimed(id).attempts
      /\ \A s \in Run \ {r} : delivering'[s] = delivering[s]
  BY DEF StartDelivery, JobTypes
<1>6. \A n \in Notification \ {id[1]} : rows'[n] = rows[n]
  BY <1>4
<1>7. rows'[id[1]] = Claimed(id)
  BY <1>1, <1>4
<1>8. \A s \in Run \ {r} : Busy(s)' =>
        /\ Busy(s) /\ RowOf(s)' = RowOf(s) /\ RowOf(s) \in Notification
        /\ delivering'[s].attempt = delivering[s].attempt
        /\ delivering[s].attempt \in Int /\ rows[RowOf(s)].attempts \in Int
        /\ rows[RowOf(s)].status # "absent"
        /\ delivering[s].attempt <= rows[RowOf(s)].attempts
  <2> SUFFICES ASSUME NEW s \in Run \ {r}, Busy(s)'
               PROVE  /\ Busy(s) /\ RowOf(s)' = RowOf(s) /\ RowOf(s) \in Notification
                      /\ delivering'[s].attempt = delivering[s].attempt
                      /\ delivering[s].attempt \in Int /\ rows[RowOf(s)].attempts \in Int
                      /\ rows[RowOf(s)].status # "absent"
                      /\ delivering[s].attempt <= rows[RowOf(s)].attempts
    OBVIOUS
  <2>1. Busy(s) /\ delivering'[s] = delivering[s] /\ RowOf(s)' = RowOf(s)
    BY <1>5 DEF Busy, RowOf
  <2>2. RowOf(s) \in Notification /\ delivering[s] \in Delivery
    BY <2>1, BusyRun
  <2>3. delivering[s].attempt \in Int /\ rows[RowOf(s)].attempts \in Int
    BY <2>2, Attempts DEF Delivery, Row
  <2> QED BY <2>1, <2>2, <2>3 DEF Counted
<1>9. RowOf(r)' = id[1]
  BY <1>5 DEF RowOf
<1>10. \A s \in Run : Busy(s)' =>
        /\ rows'[RowOf(s)'].status # "absent"
        /\ delivering'[s].attempt <= rows'[RowOf(s)'].attempts
  <2> TAKE s \in Run
  <2>1. CASE s = r
    BY <1>2, <1>3, <1>5, <1>7, <1>9, <2>1
  <2>2. CASE s # r
    BY <1>2, <1>3, <1>6, <1>7, <1>8, <2>2
  <2> QED BY <2>1, <2>2
<1>11. \A s \in Run \ {r} : Busy(s)' /\ RowOf(s)' = id[1]
          => delivering'[s].attempt # delivering'[r].attempt
  BY <1>2, <1>3, <1>5, <1>8
<1>12. AttemptsMadeOnce'
  <2> SUFFICES ASSUME NEW s \in Run, NEW u \in Run, s # u, Busy(s)', Busy(u)',
                      RowOf(s)' = RowOf(u)'
               PROVE  delivering'[s].attempt # delivering'[u].attempt
    BY DEF AttemptsMadeOnce, Busy
  <2>1. CASE s = r
    BY <1>9, <1>11, <2>1
  <2>2. CASE u = r
    BY <1>9, <1>11, <2>2
  <2>3. CASE s # r /\ u # r
    BY <1>8, <2>3 DEF Counted, AttemptsMadeOnce, Busy
  <2> QED BY <2>1, <2>2, <2>3
<1>13. ~ closed' => \A n \in Terminal : rows'[n].status = "absent"
  <2>1. rows[id[1]].status # "absent"
    BY DEF StartDelivery, Deliverable
  <2> QED BY <1>4, <1>6, <2>1, OutboxAssumption DEF Counted
<1> QED BY <1>10, <1>12, <1>13 DEF Counted

LEMMA RunCounts ==
    ASSUME OutboxInv, Counted, NEW r \in Run, RunStep(r) \/ RunFault(r)
    PROVE  Counted'
<1> USE DEF OutboxInv, OtherTypes
<1> DEFINE n == RowOf(r)
<1>1. ASSUME delivering[r].step # "idle"
      PROVE  /\ Busy(r) /\ n \in Notification /\ rows[n] \in Row
             /\ rows[n].status # "absent"
  BY <1>1, BusyRun DEF Busy, Idle, Counted
<1>2. ASSUME UNCHANGED <<rows, closed>>, RunsKept PROVE Counted'
  BY <1>2, CountedKeeps DEF RowsKept, TerminalKept
<1>3. CASE \E id \in JobId : ClaimFails(r, id)
  BY <1>2, <1>3 DEF ClaimFails, RunsKept, Busy
<1>4. CASE PushFlex(r) \/ PushText(r) \/ MarkSentFails(r)
  <2>1. Busy(r) /\ UNCHANGED <<rows, closed>>
    BY <1>1, <1>4 DEF PushFlex, PushText, MarkSentFails
  <2>2. \E step : Continue(r, step)
    BY <1>4 DEF PushFlex, PushText, MarkSentFails
  <2> QED BY <1>2, <2>1, <2>2, ContinuedRunCounts
<1>5. CASE OutcomeLost(r) \/ WorkerDies(r)
  BY <1>2, <1>5, EndedRunCounts DEF OutcomeLost, WorkerDies
<1>6. CASE JobTimeout(r)
  <2>1. delivering[r] \in Delivery
    BY <1>6 DEF JobTimeout, JobTypes
  <2>2. RunsKept
    BY <1>6, <2>1 DEF JobTimeout, RunsKept, JobTypes, Busy, Delivery
  <2> QED BY <1>2, <1>6, <2>2 DEF JobTimeout
<1>7. ASSUME NEW status \in {"cancelled", "sent", "pending", "failed"}, RunsKept,
             UNCHANGED closed, delivering[r].step # "idle",
             \/ rows' = [rows EXCEPT ![n] = [rows[n] EXCEPT !.status = status]]
             \/ rows' = [rows EXCEPT ![n] = [rows[n] EXCEPT !.status = status,
                                                           !.processingJob = NoJob]]
             \/ \E b : rows' = [rows EXCEPT ![n] = [rows[n] EXCEPT !.status = status,
                                               !.processingJob = NoJob, !.retryable = b]]
      PROVE  Counted'
  <2>1. status # "absent" /\ n \in Notification /\ rows[n].status # "absent"
    BY <1>1, <1>7
  <2> HIDE DEF n
  <2>2. /\ RowsKept
        /\ \A m \in Notification : rows[m].status = "absent" => rows'[m].status = "absent"
    BY <1>7, <2>1, SettledRows
  <2> QED BY <1>7, <2>2, OpenTicketKept, CountedKeeps
<1>8. CASE Decline(r)
  <2>1. RunsKept /\ UNCHANGED closed /\ delivering[r].step # "idle"
    BY <1>8, Concluded, EndedRunCounts DEF Decline
  <2>2. rows' = rows \/ rows' = [rows EXCEPT ![n] = [rows[n] EXCEPT !.status = "cancelled"]]
    BY <1>8, Zenon DEF Decline
  <2> QED BY <1>2, <1>7, <2>1, <2>2
<1>9. CASE MarkSent(r)
  <2>1. RunsKept /\ UNCHANGED closed /\ delivering[r].step # "idle"
    BY <1>9, Concluded, EndedRunCounts DEF MarkSent
  <2>2. rows' = [rows EXCEPT ![n] = [rows[n] EXCEPT !.status = "sent", !.processingJob = NoJob]]
    BY <1>9, Zenon DEF MarkSent
  <2> QED BY <1>7, <2>1, <2>2
<1>10. CASE MarkRetry(r)
  <2>1. RunsKept /\ UNCHANGED closed /\ delivering[r].step # "idle"
    BY <1>10, Concluded, EndedRunCounts DEF MarkRetry
  <2>2. rows' = [rows EXCEPT ![n] = [rows[n] EXCEPT !.status = "pending",
                                !.processingJob = NoJob, !.retryable = TRUE]]
    BY <1>10, Zenon DEF MarkRetry
  <2> QED BY <1>7, <2>1, <2>2
<1>11. CASE MarkFailed(r)
  <2> DEFINE again == delivering[r].step = "retry"
  <2>1. (\E job : EndRun(r, job)) /\ UNCHANGED closed /\ delivering[r].step # "idle"
    BY <1>11, Concluded DEF MarkFailed
  <2>2. rows' = [rows EXCEPT ![n] = [rows[n] EXCEPT !.status = "failed",
                                !.processingJob = NoJob, !.retryable = again]]
    BY <1>11, Zenon DEF MarkFailed
  <2> HIDE DEF again
  <2> QED BY <1>7, <2>1, <2>2, EndedRunCounts
<1> QED
  BY <1>3, <1>4, <1>5, <1>6, <1>8, <1>9, <1>10, <1>11 DEF RunStep, RunFault

LEMMA EveryStepCounts ==
    ASSUME MaxManual = 0
    PROVE  OutboxInv /\ Counted /\ [Next]_vars => Counted'
<1> SUFFICES ASSUME OutboxInv, Counted, [Next]_vars PROVE Counted'
  OBVIOUS
<1>0. ASSUME UNCHANGED <<rows, closed, delivering>> PROVE Counted'
  BY <1>0, CountedKeeps DEF RunsKept, RowsKept, TerminalKept, Busy
<1>1. CASE UNCHANGED vars
  BY <1>0, <1>1 DEF vars
<1>2. CASE TicketStep \/ SetPreference \/ OperatorStep
  BY <1>2, OutsideCounts
<1>3. ASSUME NEW d \in Dispatcher,
             \/ \E batch \in SUBSET Notification : ClaimForDispatch(d, batch)
             \/ DispatcherStep(d) \/ DispatcherFault(d)
      PROVE  Counted'
  <2>1. UNCHANGED <<closed, delivering>> /\ \A n \in Notification : SameStanding(n)
    BY <1>3, DispatcherStands
  <2>2. RowsKept
    BY <1>3, <2>1, DispatcherCountsNone DEF RowsKept, SameStanding
  <2>3. TerminalKept /\ RunsKept
    BY <2>1, OpenTicketKept DEF SameStanding, RunsKept, Busy
  <2> QED BY <2>2, <2>3, CountedKeeps
<1>4. ASSUME NEW id \in JobId, NEW r \in Run, NothingToDeliver(r, id) PROVE Counted'
  BY <1>0, <1>4 DEF NothingToDeliver
<1>5. ASSUME NEW id \in JobId, JobStep(id) PROVE Counted'
  BY <1>4, <1>5, StartCounts DEF JobStep
<1>6. ASSUME NEW r \in Run, RunStep(r) \/ RunFault(r) PROVE Counted'
  BY <1>6, RunCounts
<1> QED BY <1>1, <1>2, <1>3, <1>5, <1>6 DEF Next

(* Where no operator starts a notice anew, overlapping deliveries of a row    *)
(* never make the same attempt, so that with OutboxTypeCorrect at most        *)
(* max_attempts are made, also under timeouts (claimForDelivery).             *)
THEOREM AttemptsCounted ==
    ASSUME MaxManual = 0
    PROVE  Spec => []AttemptsMadeOnce
<1>1. Init => Counted
  BY OutboxAssumption DEF Init, Counted, AttemptsMadeOnce, Busy, AbsentRow
<1>2. Counted => AttemptsMadeOnce
  BY DEF Counted
<1> QED
  BY <1>1, <1>2, InitialOutbox, EveryStepKeeps, EveryStepCounts, PTL DEF Spec

-----------------------------------------------------------------------------
(* A due notice has a way forward.                                            *)

Done     == {"completed", "failed"}
Todo     == UNION {dispatching[d].todo : d \in Dispatcher}
Wanted   == Todo \cup {dispatching[d].at : d \in Dispatcher}

(* The job that the last start of the row asks for.                           *)
Now(n)   == <<n, rows[n].manual>>
Fresh(n) == jobs[Now(n)].state = "none" /\ Now(n) \notin Wanted

(* A job that a dispatcher has claimed is added.                              *)
Sure == Fault \cap {"dispatcher", "outage"} = {}

Coming(n) ==
    \/ jobs[Now(n)].state = "waiting"
    \/ Sure /\ Now(n) \in Todo

(* The jobs of earlier starts are over and those of later ones unknown.       *)
InOrder(n) ==
    \A g \in Generation :
       /\ g < rows[n].manual => jobs[<<n, g>>].state \in Done
       /\ g > rows[n].manual => jobs[<<n, g>>].state = "none" /\ <<n, g>> \notin Wanted

Waits(n) ==
    /\ jobs[Now(n)].state \in {"none", "waiting"}
    /\ rows[n].attempts < MaxAttempts /\ jobs[Now(n)].tries <= rows[n].attempts
    /\ rows[n].dispatch = "pending" => Fresh(n)
    /\ rows[n].dispatch = "dispatching" /\ Sure => Coming(n)
    /\ rows[n].dispatch = "dispatched" => Coming(n)

Runs(n) ==
    /\ \E r \in Run : Busy(r) /\ RowOf(r) = n
    /\ rows[n].dispatch = "dispatched"
    /\ jobs[Now(n)].tries < rows[n].attempts

Way(n) ==
    /\ InOrder(n)
    /\ rows[n].dispatch # "dispatched" => rows[n].dispatchJob = rows[n].manual
    /\ rows[n].status = "absent" => rows[n].dispatch = "pending" /\ rows[n].manual = 0 /\ Fresh(n)
    /\ rows[n].status = "pending" => Waits(n)
    /\ rows[n].status = "processing" => Runs(n)
    /\ rows[n].status = "failed" => jobs[Now(n)].state \in Done

(* A dispatcher marks what it has added, and meets no error but of Redis.     *)
Adds(d) == /\ dispatching[d].phase = "error" => "outage" \in Fault
           /\ dispatching[d].phase = "added" => jobs[dispatching[d].at].state # "none"

NoneUntried == \A id \in JobId : jobs[id].state = "none" => jobs[id].tries = 0

WayInv ==
    /\ NoneUntried
    /\ \A n \in Notification : Way(n)
    /\ \A d \in Dispatcher : Adds(d)
    /\ \A r \in Run : Busy(r) => delivering[r].attempt = rows[RowOf(r)].attempts

(* Where Redis may refuse jobs, and one dispatcher runs at a time: Redis does *)
(* not know what is still to be added or was refused, and a row that has been *)
(* claimed is with the dispatcher.                                            *)
Alone ==
    /\ \A id \in Todo : jobs[id].state = "none"
    /\ \A d \in Dispatcher :
          /\ dispatching[d].phase = "error" => jobs[dispatching[d].at].state = "none"
          /\ dispatching[d].at \notin dispatching[d].todo
    /\ \A id \in JobId :
          id \in Wanted => id = Now(id[1]) \/ rows[id[1]].dispatch = "pending"
    /\ \A n \in Notification :
          rows[n].status = "pending" /\ rows[n].dispatch = "dispatching" => Now(n) \in Wanted
AloneInv == "outage" \in Fault => Alone

(* The faults that leave every notice a way.  Statements work, no worker dies *)
(* and no delivery outlasts its job; beyond that, either dispatchers may die  *)
(* and run side by side while no operator starts a notice anew, or Redis may  *)
(* refuse jobs as long as one dispatcher runs at a time.                      *)
MildFaults ==
    \/ /\ Fault \subseteq {"dispatcher", "response"}
       /\ "dispatcher" \in Fault => MaxManual = 0
    \/ /\ Fault \subseteq {"outage", "response"}
       /\ \A d, e \in Dispatcher : d = e

LEMMA WayRecovers == OutboxInv /\ Held /\ WayInv => Recoverable
<1> SUFFICES ASSUME OutboxInv, Held, WayInv, NEW n \in Notification,
                    rows[n].status \in DueStatus, ~ Dispatchable(n)
             PROVE  \E g \in Generation :
                      \/ jobs[<<n, g>>].state \in {"waiting", "active"}
                      \/ \E d \in Dispatcher : <<n, g>> \in dispatching[d].todo
  BY DEF Recoverable
<1>1. rows[n] \in Row /\ rows[n].manual \in Generation
  BY DEF OutboxInv, OtherTypes, Row
<1>2. CASE rows[n].status = "pending"
  <2>1. Coming(n)
    BY <1>1, <1>2 DEF WayInv, Way, Waits, Dispatchable, Row
  <2> QED BY <1>1, <2>1 DEF Coming, Now, Todo
<1>3. CASE rows[n].status = "processing"
  <2>1. PICK r \in Run : Busy(r) /\ RowOf(r) = n
    BY <1>3 DEF WayInv, Way, Runs
  <2>2. delivering[r].id \in JobId /\ delivering[r].id[1] = n
    BY <2>1, BusyRun DEF OutboxInv, RowOf
  <2>3. jobs[delivering[r].id].state = "active"
    BY <2>1 DEF Held, OutboxInv, JobInv
  <2> QED BY <2>2, <2>3, JobIdParts
<1> QED BY <1>2, <1>3 DEF DueStatus

(* The run of a row runs the job its last start asked for.                    *)
LEMMA RunsNow ==
    ASSUME OutboxInv, Held, WayInv, NEW r \in Run, Busy(r)
    PROVE  /\ RowOf(r) \in Notification /\ delivering[r] \in Delivery
           /\ delivering[r].id = Now(RowOf(r)) /\ jobs[delivering[r].id].state = "active"
           /\ rows[RowOf(r)].status = "processing" /\ delivering[r].awaited
           /\ rows[RowOf(r)].processingJob = rows[RowOf(r)].manual
           /\ delivering[r].attempt = rows[RowOf(r)].attempts
<1> DEFINE n == RowOf(r)
           id == delivering[r].id
<1>1. n \in Notification /\ delivering[r] \in Delivery /\ id \in JobId /\ id = <<n, id[2]>>
      /\ id[2] \in Generation
  BY BusyRun, JobIdParts DEF OutboxInv, RowOf
<1>2. jobs[id].state = "active" /\ rows[n].status = "processing" /\ delivering[r].awaited
      /\ rows[n].processingJob = id[2]
  BY DEF Held, OutboxInv, JobInv
<1>3. rows[n].manual \in Generation /\ rows[n].manual \in Int /\ id[2] \in Int
  BY <1>1, Generations DEF OutboxInv, OtherTypes, Row
<1>4. InOrder(n)
  BY <1>1 DEF WayInv, Way
<1>5. id[2] = rows[n].manual
  <2> SUFFICES ASSUME id[2] # rows[n].manual PROVE FALSE
    OBVIOUS
  <2>1. jobs[<<n, id[2]>>].state = "active"
    BY <1>1, <1>2
  <2>2. id[2] < rows[n].manual \/ id[2] > rows[n].manual
    BY <1>3
  <2> HIDE DEF n, id
  <2> QED BY <1>1, <1>4, <2>1, <2>2 DEF InOrder, Done
<1> HIDE DEF n, id
<1>6. id = Now(n)
  BY <1>1, <1>5 DEF Now
<1> QED BY <1>1, <1>2, <1>5, <1>6 DEF n, id, WayInv

(* A waiting job is the one its row's last start asked for.                   *)
LEMMA WaitsNow ==
    ASSUME OutboxInv, WayInv, NEW id \in JobId, jobs[id].state = "waiting"
    PROVE  id = Now(id[1]) /\ id[1] \in Notification
<1>1. id[1] \in Notification /\ id[2] \in Generation /\ id = <<id[1], id[2]>>
  BY JobIdParts
<1>2. rows[id[1]].manual \in Int /\ id[2] \in Int
  BY <1>1, Generations DEF OutboxInv, OtherTypes, Row
<1>3. InOrder(id[1])
  BY <1>1 DEF WayInv, Way
<1>4. id[2] = rows[id[1]].manual
  <2> SUFFICES ASSUME id[2] # rows[id[1]].manual PROVE FALSE
    OBVIOUS
  <2>1. id[2] < rows[id[1]].manual \/ id[2] > rows[id[1]].manual
    BY <1>2
  <2> QED BY <1>1, <1>3, <2>1 DEF InOrder, Done
<1> QED BY <1>1, <1>4 DEF Now

(* A row that stays as it is keeps its way if its jobs do, no dispatcher      *)
(* comes to want one and none that was wanted is forgotten, and its run runs. *)
LEMMA SameWay ==
    ASSUME NEW n \in Notification, Way(n), rows'[n] = rows[n],
           \A g \in Generation : jobs'[<<n, g>>] = jobs[<<n, g>>],
           \A g \in Generation : <<n, g>> \in Wanted' => <<n, g>> \in Wanted,
           Sure => \A g \in Generation : <<n, g>> \in Todo => <<n, g>> \in Todo',
           rows[n].status = "processing" => \E r \in Run : Busy(r)' /\ RowOf(r)' = n,
           rows[n].manual \in Generation
    PROVE  Way(n)'
<1>1. Now(n)' = Now(n) /\ jobs'[Now(n)] = jobs[Now(n)]
  BY DEF Now
<1>2. InOrder(n)'
  BY DEF Way, InOrder
<1>3. Fresh(n) => Fresh(n)'
  BY <1>1 DEF Fresh, Now
<1>4. Coming(n) => Coming(n)'
  BY <1>1 DEF Coming, Now
<1>5. Waits(n) => Waits(n)'
  BY <1>1, <1>3, <1>4 DEF Waits
<1>6. Runs(n) /\ rows[n].status = "processing" => Runs(n)'
  BY <1>1 DEF Runs
<1> QED BY <1>1, <1>2, <1>3, <1>5, <1>6 DEF Way

(* The rows change, the jobs, batches and runs do not: Waits and Runs need a  *)
(* look only where the status is new.                                         *)
LEMMA SettledWay ==
    ASSUME NEW n \in Notification, Way(n), rows[n] \in Row, rows'[n] \in Row,
           UNCHANGED <<jobs, dispatching, delivering>>,
           rows'[n].manual = rows[n].manual, rows'[n].dispatch = rows[n].dispatch,
           rows'[n].dispatchJob = rows[n].dispatchJob,
           rows'[n].status = "cancelled"
    PROVE  Way(n)'
<1>1. InOrder(n)'
  BY DEF Way, InOrder, Wanted, Todo
<1> QED BY <1>1 DEF Way

LEMMA OutsideWay ==
    ASSUME OutboxInv, Held, WayInv, TicketStep \/ SetPreference \/ OperatorStep
    PROVE  WayInv'
<1> USE DEF OutboxInv, OtherTypes
<1>1. UNCHANGED <<jobs, dispatching, delivering>>
  BY DEF TicketStep, SetPreference, OperatorStep, Enqueue, CloseTicket, RetryFailed,
         CancelObsolete
<1>2. Todo' = Todo /\ Wanted' = Wanted
  BY <1>1 DEF Todo, Wanted
<1>3. ASSUME NEW n \in Notification, rows'[n] = rows[n] PROVE Way(n)'
  <2>1. Way(n) /\ rows[n].manual \in Generation
    BY DEF WayInv, Row
  <2>2. rows[n].status = "processing" => \E r \in Run : Busy(r)' /\ RowOf(r)' = n
    BY <1>1, <2>1 DEF Way, Runs, Busy, RowOf
  <2> QED BY <1>1, <1>2, <1>3, <2>1, <2>2, SameWay
<1>4. ASSUME NEW n \in Notification, rows[n].status = "absent", rows'[n] = NewRow
      PROVE  Way(n)'
  <2>1. Way(n) /\ rows[n].manual = 0 /\ Fresh(n)
    BY <1>4 DEF WayInv, Way
  <2>2. /\ rows'[n].status = "pending" /\ rows'[n].dispatch = "pending"
        /\ rows'[n].dispatchJob = 0 /\ rows'[n].manual = 0 /\ rows'[n].attempts = 0
    BY <1>4 DEF NewRow, AbsentRow
  <2>3. Now(n)' = Now(n) /\ Fresh(n)'
    BY <1>1, <1>2, <2>1, <2>2 DEF Now, Fresh
  <2>4. InOrder(n)'
    BY <1>1, <1>2, <2>1, <2>2 DEF Way, InOrder
  <2>5. jobs[Now(n)].tries = 0
    <3>1. Now(n) \in JobId
      BY <2>1, Generations DEF Now, JobId
    <3> QED BY <3>1, <2>1 DEF Fresh, NoneUntried, WayInv
  <2>6. Waits(n)'
    BY <1>1, <2>2, <2>3, <2>5, Attempts DEF Waits, Fresh
  <2> QED BY <2>2, <2>4, <2>6 DEF Way
<1>5. ASSUME NEW n \in Notification, rows[n].status = "pending",
             \/ rows'[n] = [rows[n] EXCEPT !.status = "cancelled"]
             \/ rows'[n] = [rows[n] EXCEPT !.status = "cancelled", !.processingJob = NoJob]
      PROVE  Way(n)'
  <2>1. Way(n) /\ rows[n] \in Row
    BY DEF WayInv
  <2>2. rows'[n] \in Row /\ rows'[n].status = "cancelled"
        /\ rows'[n].manual = rows[n].manual /\ rows'[n].dispatch = rows[n].dispatch
        /\ rows'[n].dispatchJob = rows[n].dispatchJob
    BY <1>5, <2>1, Generations DEF Row, FinalStatus
  <2> QED BY <1>1, <2>1, <2>2, SettledWay
<1>6. ASSUME NEW n \in Notification, RetryFailed(n) PROVE Way(n)'
  <2> DEFINE m == rows[n].manual
  <2>1. /\ Way(n) /\ rows[n].status = "failed" /\ m \in Generation /\ m + 1 \in Generation
        /\ m \in Int
    BY <1>6, OutboxAssumption DEF WayInv, RetryFailed, Row, Generation
  <2>2. rows' = [rows EXCEPT ![n] = [NewRow EXCEPT !.manual = m + 1, !.dispatchJob = m + 1]]
    BY <1>6 DEF RetryFailed
  <2> HIDE DEF m
  <2>3. /\ rows'[n].status = "pending" /\ rows'[n].dispatch = "pending"
        /\ rows'[n].dispatchJob = m + 1 /\ rows'[n].manual = m + 1 /\ rows'[n].attempts = 0
    BY <2>2 DEF NewRow, AbsentRow
  <2>4. Now(n)' = <<n, m + 1>>
    BY <2>3 DEF Now
  <2>5. jobs[<<n, m + 1>>].state = "none" /\ <<n, m + 1>> \notin Wanted
    BY <2>1 DEF Way, InOrder, m
  <2>6. Fresh(n)'
    BY <1>1, <1>2, <2>4, <2>5 DEF Fresh
  <2>7. ASSUME NEW g \in Generation
        PROVE  /\ g < m + 1 => jobs[<<n, g>>].state \in Done
               /\ g > m + 1 => jobs[<<n, g>>].state = "none" /\ <<n, g>> \notin Wanted
    <3>1. g \in Int /\ (g < m + 1 => g < m \/ g = m) /\ (g > m + 1 => g > m)
      BY <2>1, Generations
    <3>2. jobs[<<n, m>>].state \in Done
      BY <2>1 DEF Way, Now, m
    <3> QED BY <2>1, <3>1, <3>2 DEF Way, InOrder, m
  <2>8. InOrder(n)'
    BY <1>1, <1>2, <2>3, <2>7 DEF InOrder
  <2>9. jobs[<<n, m + 1>>].tries = 0
    BY <2>1, <2>5 DEF WayInv, NoneUntried, JobId
  <2>10. Waits(n)'
    BY <1>1, <2>3, <2>4, <2>5, <2>6, <2>9, Attempts DEF Waits
  <2> QED BY <2>3, <2>8, <2>10 DEF Way
<1>7. ASSUME NEW n \in Notification PROVE Way(n)'
  <2>1. ASSUME NEW k \in Notification, Enqueue(k) PROVE Way(n)'
    <3>1. rows' = [rows EXCEPT ![k] = NewRow] /\ rows[k].status = "absent"
      BY <2>1 DEF Enqueue
    <3> QED BY <1>3, <1>4, <3>1
  <2>2. ASSUME NEW k \in Notification, CloseTicket(k) PROVE Way(n)'
    <3>1. rows[k].status = "absent"
      BY <2>2 DEF CloseTicket, Held
    <3>2. \/ rows'[n] = rows[n]
          \/ rows[n].status = "absent" /\ rows'[n] = NewRow
          \/ rows[n].status = "pending" /\ rows'[n] = [rows[n] EXCEPT !.status = "cancelled"]
      BY <2>2, <3>1 DEF CloseTicket, Obsolete
    <3> QED BY <1>3, <1>4, <1>5, <3>2
  <2>3. CASE SetPreference
    BY <1>3, <2>3 DEF SetPreference
  <2>4. ASSUME NEW k \in Notification, RetryFailed(k) PROVE Way(n)'
    <3>1. k = n \/ rows'[n] = rows[n]
      BY <2>4 DEF RetryFailed
    <3> QED BY <1>3, <1>6, <2>4, <3>1
  <2>5. ASSUME NEW k \in Notification, CancelObsolete(k) PROVE Way(n)'
    <3>1. \/ rows'[n] = rows[n]
          \/ rows[n].status = "pending"
             /\ rows'[n] = [rows[n] EXCEPT !.status = "cancelled", !.processingJob = NoJob]
      BY <2>5 DEF CancelObsolete
    <3> QED BY <1>3, <1>5, <3>1
  <2> QED BY <2>1, <2>2, <2>3, <2>4, <2>5 DEF TicketStep, OperatorStep
<1>8. ASSUME NEW n \in Notification, rows[n].status = "processing" PROVE rows'[n] = rows[n]
  BY <1>8 DEF TicketStep, SetPreference, OperatorStep, Enqueue, CloseTicket, RetryFailed,
              CancelObsolete, Held, Obsolete
<1>9. \A r \in Run : Busy(r)' =>
         delivering'[r].attempt = rows'[RowOf(r)'].attempts
  <2> TAKE r \in Run
  <2>1. Busy(r)' => Busy(r) /\ RowOf(r)' = RowOf(r)
    BY <1>1 DEF Busy, RowOf
  <2> QED BY <1>1, <1>8, <2>1, RunsNow
<1>10. \A d \in Dispatcher : Adds(d)'
  BY <1>1 DEF WayInv, Adds
<1>11. NoneUntried'
  BY <1>1 DEF WayInv, NoneUntried
<1> QED BY <1>7, <1>9, <1>10, <1>11 DEF WayInv

(* One dispatcher changes its batch.                                          *)
LEMMA BatchChanges ==
    ASSUME OtherTypes, NEW d \in Dispatcher, NEW b, dispatching' = [dispatching EXCEPT ![d] = b]
    PROVE  /\ dispatching'[d] = b /\ \A e \in Dispatcher \ {d} : dispatching'[e] = dispatching[e]
           /\ \A x \in Todo' : x \in Todo \/ x \in b.todo
           /\ \A x \in Wanted' : x \in Wanted \/ x \in b.todo \/ x = b.at
           /\ \A x \in Todo : x \notin dispatching[d].todo \/ x \in b.todo => x \in Todo'
           /\ \A x \in b.todo : x \in Todo'
<1>1. dispatching'[d] = b /\ \A e \in Dispatcher \ {d} : dispatching'[e] = dispatching[e]
  BY DEF OtherTypes
<1>2. \A x : x \in Todo' <=> \E e \in Dispatcher : x \in dispatching'[e].todo
  BY DEF Todo
<1>3. \A x : x \in Todo <=> \E e \in Dispatcher : x \in dispatching[e].todo
  BY DEF Todo
<1>4. \A x : x \in Wanted' <=> x \in Todo' \/ \E e \in Dispatcher : x = dispatching'[e].at
  BY DEF Wanted
<1>5. \A x : x \in Wanted <=> x \in Todo \/ \E e \in Dispatcher : x = dispatching[e].at
  BY DEF Wanted
<1> QED BY <1>1, <1>2, <1>3, <1>4, <1>5

(* A step of a dispatcher that keeps the runs, and what the row of the step   *)
(* needs.                                                                     *)
LEMMA DispatcherWays ==
    ASSUME OutboxInv, Held, WayInv, UNCHANGED delivering,
           \A n \in Notification : Way(n)', \A d \in Dispatcher : Adds(d)', NoneUntried',
           \A n \in Notification : rows[n].status = "processing" =>
                                      rows'[n].attempts = rows[n].attempts
    PROVE  WayInv'
<1>1. \A r \in Run : Busy(r)' => Busy(r) /\ RowOf(r)' = RowOf(r) /\ delivering'[r] = delivering[r]
  BY DEF Busy, RowOf
<1> QED BY <1>1, RunsNow DEF WayInv

LEMMA BusyRows ==
    ASSUME UNCHANGED delivering, NEW n, \E r \in Run : Busy(r) /\ RowOf(r) = n
    PROVE  \E r \in Run : Busy(r)' /\ RowOf(r)' = n
BY DEF Busy, RowOf

LEMMA ClaimWay ==
    ASSUME OutboxInv, Held, WayInv, NEW d \in Dispatcher, NEW batch \in SUBSET Notification,
           ClaimForDispatch(d, batch)
    PROVE  WayInv'
<1> USE DEF OutboxInv
<1> DEFINE todo == {<<n, rows[n].dispatchJob>> : n \in batch}
           b == [todo |-> todo, at |-> NoRow, phase |-> "ready"]
<1>1. dispatching' = [dispatching EXCEPT ![d] = b]
  <2>1. dispatching' = [dispatching EXCEPT ![d].todo = todo] /\ dispatching[d] = IdleBatch
    BY DEF ClaimForDispatch
  <2> HIDE DEF todo
  <2>2. [dispatching[d] EXCEPT !.todo = todo] = b
    BY <2>1 DEF IdleBatch
  <2> QED BY <2>1, <2>2
<1>2. b.todo = todo /\ b.at = NoRow /\ b.phase = "ready"
  OBVIOUS
<1>3. \A n \in batch : <<n, rows[n].dispatchJob>> \in todo
  OBVIOUS
<1>4. \A x \in todo : \E n \in batch : x = <<n, rows[n].dispatchJob>>
  OBVIOUS
<1>5. dispatching[d].todo = {} /\ UNCHANGED <<jobs, delivering>>
  BY DEF ClaimForDispatch, IdleBatch
<1> HIDE DEF b, todo
<1>6. ASSUME NEW n \in batch PROVE rows[n].dispatchJob = rows[n].manual
  BY <1>6 DEF ClaimForDispatch, Dispatchable, WayInv, Way
<1>7. \A n \in Notification, g \in Generation :
         <<n, g>> \in Wanted' => <<n, g>> \in Wanted \/ (n \in batch /\ g = rows[n].manual)
  <2> SUFFICES ASSUME NEW n \in Notification, NEW g \in Generation, <<n, g>> \in Wanted',
                      <<n, g>> \notin Wanted
               PROVE  n \in batch /\ g = rows[n].manual
    OBVIOUS
  <2>1. <<n, g>> \in b.todo \/ <<n, g>> = b.at
    BY <1>1, BatchChanges
  <2>2. <<n, g>> # NoRow
    BY DEF NoRow
  <2>3. <<n, g>> \in todo
    BY <1>2, <2>1, <2>2
  <2> QED BY <1>4, <1>6, <2>3
<1>8. \A x \in Todo : x \in Todo'
  BY <1>1, <1>5, BatchChanges
<1>9. \A n \in batch : Now(n) \in Todo'
  BY <1>1, <1>2, <1>3, <1>6, BatchChanges DEF Now
<1>10. ASSUME NEW n \in Notification PROVE Way(n)'
  <2>1. Way(n) /\ rows[n] \in Row /\ rows[n].manual \in Generation /\ rows[n].manual \in Int
    BY Generations DEF WayInv, OtherTypes, Row
  <2>2. CASE n \notin batch
    <3>1. rows'[n] = rows[n]
      BY <2>2 DEF ClaimForDispatch
    <3>2. rows[n].status = "processing" => \E r \in Run : Busy(r)' /\ RowOf(r)' = n
      BY <1>5, <2>1, BusyRows DEF Way, Runs
    <3> QED BY <1>5, <1>7, <1>8, <2>1, <2>2, <3>1, <3>2, SameWay
  <2>3. CASE n \in batch
    <3>1. /\ rows'[n].status = "pending" /\ rows'[n].dispatch = "dispatching"
          /\ rows'[n].manual = rows[n].manual /\ rows'[n].dispatchJob = rows[n].manual
          /\ rows'[n].attempts = rows[n].attempts /\ rows[n].status = "pending"
      <4>1. rows'[n] = [rows[n] EXCEPT !.dispatch = "dispatching"] /\ rows[n].status = "pending"
        BY <2>3 DEF ClaimForDispatch, Dispatchable
      <4> QED BY <1>6, <2>1, <2>3, <4>1 DEF Row
    <3>2. Now(n)' = Now(n)
      BY <3>1 DEF Now
    <3>3. InOrder(n)'
      BY <1>5, <1>7, <2>1, <3>1 DEF Way, InOrder
    <3>4. Waits(n)
      BY <2>1, <3>1 DEF Way
    <3>5. Sure => Coming(n)'
      BY <1>9, <2>3, <3>2 DEF Coming
    <3>6. Waits(n)'
      BY <1>5, <3>1, <3>2, <3>4, <3>5 DEF Waits
    <3> QED BY <3>1, <3>3, <3>6 DEF Way
  <2> QED BY <2>2, <2>3
<1>11. \A e \in Dispatcher : Adds(e)'
  BY <1>1, <1>2, <1>5, BatchChanges DEF WayInv, Adds
<1>12. NoneUntried'
  BY <1>5 DEF WayInv, NoneUntried
<1>13. \A n \in Notification : rows[n].status = "processing" => rows'[n].attempts = rows[n].attempts
  BY DEF ClaimForDispatch, Dispatchable
<1> QED BY <1>5, <1>10, <1>11, <1>12, <1>13, DispatcherWays

LEMMA AddWay ==
    ASSUME OutboxInv, Held, WayInv, NEW d \in Dispatcher, NEW id \in JobId, AddJob(d, id)
    PROVE  WayInv'
<1> USE DEF OutboxInv
<1> DEFINE b == [todo |-> dispatching[d].todo \ {id}, at |-> id, phase |-> "added"]
           k == id[1]
<1>1. /\ dispatching' = [dispatching EXCEPT ![d] = b] /\ id \in dispatching[d].todo
      /\ UNCHANGED <<rows, delivering>> /\ jobs' = [jobs EXCEPT ![id] = Added(id)]
  BY DEF AddJob, TakeFromBatch
<1>2. b.todo = dispatching[d].todo \ {id} /\ b.at = id /\ b.phase = "added"
  OBVIOUS
<1> HIDE DEF b
<1>3. id \in Todo /\ id \in Wanted
  BY <1>1 DEF Todo, Wanted
<1>4. k \in Notification /\ id[2] \in Generation /\ id = <<k, id[2]>>
  BY JobIdParts
<1> HIDE DEF k
<1>5. \A x \in Wanted' : x \in Wanted
  BY <1>1, <1>2, <1>3, BatchChanges DEF Wanted, Todo
<1>6. \A x \in Todo : x # id => x \in Todo'
  BY <1>1, <1>2, BatchChanges
<1>7. /\ jobs'[id] = Added(id) /\ \A i \in JobId \ {id} : jobs'[i] = jobs[i]
      /\ jobs[id] \in Job
  BY <1>1 DEF JobTypes
<1>8. /\ jobs[id].state = "none" => jobs'[id].state = "waiting" /\ jobs'[id].tries = 0
      /\ jobs[id].state # "none" => jobs'[id] = jobs[id]
  BY <1>7 DEF Added, AnyJob
<1>9. ASSUME NEW n \in Notification PROVE Way(n)'
  <2>1. Way(n) /\ rows'[n] = rows[n] /\ rows[n].manual \in Generation
        /\ rows[n].manual \in Int /\ rows[n] \in Row
    BY <1>1, Generations DEF WayInv, OtherTypes, Row
  <2>2. rows[n].status = "processing" => \E r \in Run : Busy(r)' /\ RowOf(r)' = n
    BY <1>1, <2>1, BusyRows DEF Way, Runs
  <2>3. CASE n # k
    <3>1. \A g \in Generation : <<n, g>> \in JobId /\ <<n, g>> # id
      BY <1>4, <2>3 DEF JobId
    <3> QED BY <1>5, <1>6, <1>7, <2>1, <2>2, <3>1, SameWay
  <2>4. CASE n = k /\ id # Now(n)
    <3>1. id[2] < rows[n].manual
      <4>1. id[2] \in Int /\ id[2] # rows[n].manual
        BY <1>4, <2>4, Generations DEF Now
      <4>2. ~ (id[2] > rows[n].manual)
        BY <1>3, <1>4, <2>1, <2>4 DEF Way, InOrder
      <4> QED BY <2>1, <4>1, <4>2
    <3>2. jobs[id].state \in Done
      BY <1>4, <2>1, <2>4, <3>1 DEF Way, InOrder
    <3>3. \A g \in Generation : <<n, g>> \in JobId /\ jobs'[<<n, g>>] = jobs[<<n, g>>]
      BY <1>7, <1>8, <3>2 DEF JobId, Done
    <3>4. Coming(n) => Coming(n)'
      <4>1. Now(n)' = Now(n) /\ Now(n) \in JobId
        BY <2>1 DEF Now, JobId
      <4> QED BY <1>6, <1>7, <2>4, <4>1 DEF Coming
    <3>5. InOrder(n)' /\ (Fresh(n) => Fresh(n)') /\ Now(n)' = Now(n)
          /\ jobs'[Now(n)] = jobs[Now(n)]
      BY <1>5, <2>1, <3>3 DEF Way, InOrder, Fresh, Now
    <3> QED BY <2>1, <2>2, <3>4, <3>5 DEF Way, Waits, Runs
  <2>5. CASE id = Now(n)
    <3>1. n = k /\ Now(n)' = Now(n)
      BY <1>4, <2>1, <2>5 DEF Now
    <3>2. ~ Fresh(n)
      BY <1>3, <2>5 DEF Fresh
    <3>3. InOrder(n)'
      <4>1. \A g \in Generation : g # rows[n].manual =>
               <<n, g>> \in JobId /\ jobs'[<<n, g>>] = jobs[<<n, g>>]
        BY <1>7, <2>5 DEF Now, JobId
      <4> QED BY <1>5, <2>1, <4>1 DEF Way, InOrder
    <3>4. rows[n].status = "pending" => Waits(n)'
      <4>1. ASSUME rows[n].status = "pending", Waits(n)
            PROVE  jobs'[id].state = "waiting" /\ jobs'[id].tries <= rows[n].attempts
        BY <1>8, <2>1, <2>5, <4>1 DEF Waits, Row
      <4> QED BY <2>1, <2>5, <3>1, <3>2, <4>1 DEF Way, Waits, Coming
    <3>5. rows[n].status = "processing" => Runs(n)'
      <4> SUFFICES ASSUME rows[n].status = "processing" PROVE Runs(n)'
        OBVIOUS
      <4>1. PICK r \in Run : Busy(r) /\ RowOf(r) = n
        BY <2>1 DEF Way, Runs
      <4>2. jobs[id].state = "active"
        BY <2>5, <4>1, RunsNow
      <4> QED BY <1>8, <2>1, <2>2, <2>5, <3>1, <4>2 DEF Way, Runs
    <3>6. rows[n].status = "failed" => jobs'[Now(n)'].state \in Done
      BY <1>8, <2>1, <2>5, <3>1 DEF Way, Done
    <3> QED BY <2>1, <3>2, <3>3, <3>4, <3>5, <3>6 DEF Way
  <2> QED BY <2>3, <2>4, <2>5
<1>10. \A e \in Dispatcher : Adds(e)'
  <2>1. jobs'[id].state # "none"
    BY <1>8
  <2>2. \A i : jobs[i].state # "none" /\ i \in JobId => jobs'[i].state # "none"
    BY <1>7, <1>8
  <2>3. \A e \in Dispatcher : dispatching[e].phase = "added" => dispatching[e].at \in JobId
    BY DEF OtherTypes, Batch
  <2> QED BY <1>1, <1>2, <2>1, <2>2, <2>3, BatchChanges DEF WayInv, Adds
<1>11. NoneUntried'
  BY <1>7, <1>8 DEF WayInv, NoneUntried
<1> QED BY <1>1, <1>9, <1>10, <1>11, DispatcherWays

LEMMA MarkWay ==
    ASSUME MildFaults, OutboxInv, Held, WayInv, AloneInv, NEW d \in Dispatcher,
           MarkDispatched(d)
    PROVE  WayInv'
<1> USE DEF OutboxInv
<1> DEFINE b == [dispatching[d] EXCEPT !.at = NoRow, !.phase = "ready"]
           id == dispatching[d].at
           k == id[1]
           row == [rows[k] EXCEPT !.dispatch = "dispatched", !.dispatchJob = id[2]]
<1>1. dispatching[d] \in Batch /\ dispatching[d].phase = "added"
  BY DEF OtherTypes, MarkDispatched
<1>2. dispatching' = [dispatching EXCEPT ![d] = b]
  BY Zenon DEF MarkDispatched, RowDone
<1>3. b.todo = dispatching[d].todo /\ b.at = NoRow /\ b.phase = "ready"
  BY <1>1 DEF Batch
<1>4. id \in JobId /\ k \in Notification /\ id[2] \in Generation /\ id = <<k, id[2]>>
  <2>1. id \in JobId
    BY <1>1 DEF Batch
  <2> QED BY <2>1, JobIdParts
<1>5. jobs[id].state # "none"
  BY <1>1 DEF WayInv, Adds
<1>6. UNCHANGED <<jobs, delivering>>
  BY DEF MarkDispatched
<1>7. rows' = rows \/ (rows[k].dispatch # "pending" /\ rows' = [rows EXCEPT ![k] = row])
  <2>1. [rows EXCEPT ![k].dispatch = "dispatched", ![k].dispatchJob = id[2]]
           = [rows EXCEPT ![k] = row]
    BY Zenon
  <2>2. rows' = IF rows[k].dispatch = "pending" THEN rows
                ELSE [rows EXCEPT ![k].dispatch = "dispatched", ![k].dispatchJob = id[2]]
    BY Zenon DEF MarkDispatched
  <2> QED BY <2>1, <2>2
<1>8. rows[k] \in Row
  BY <1>4 DEF OtherTypes
<1>9. /\ row.dispatch = "dispatched" /\ row.status = rows[k].status
      /\ row.manual = rows[k].manual /\ row.attempts = rows[k].attempts
  BY <1>8 DEF Row
<1> HIDE DEF b, row, k, id
<1>10. \A x \in Todo : x \in Todo'
  BY <1>2, <1>3, BatchChanges
<1>11. \A n \in Notification, g \in Generation : <<n, g>> \in Wanted' => <<n, g>> \in Wanted
  <2>1. \A n \in Notification, g \in Generation : <<n, g>> # NoRow
    BY DEF NoRow
  <2> QED BY <1>2, <1>3, <2>1, BatchChanges DEF Wanted, Todo
<1>12. ASSUME NEW n \in Notification PROVE Way(n)'
  <2>1. Way(n) /\ rows[n] \in Row /\ rows[n].manual \in Generation
    BY DEF WayInv, OtherTypes, Row
  <2>2. rows[n].status = "processing" => \E r \in Run : Busy(r)' /\ RowOf(r)' = n
    BY <1>6, <2>1, BusyRows DEF Way, Runs
  <2>3. CASE rows'[n] = rows[n]
    BY <1>6, <1>10, <1>11, <2>1, <2>2, <2>3, SameWay
  <2>4. CASE rows'[n] # rows[n]
    <3>1. n = k /\ rows'[n] = row /\ rows[n].dispatch # "pending"
      BY <1>7, <2>4 DEF OtherTypes
    <3>2. /\ rows'[n].dispatch = "dispatched" /\ rows'[n].status = rows[n].status
          /\ rows'[n].manual = rows[n].manual /\ rows'[n].attempts = rows[n].attempts
          /\ Now(n)' = Now(n)
      BY <1>9, <3>1 DEF Now
    <3>3. InOrder(n)'
      BY <1>6, <1>11, <2>1, <3>2 DEF Way, InOrder
    <3>4. ASSUME rows[n].status = "pending" PROVE Coming(n)
      <4>1. Waits(n)
        BY <2>1, <3>4 DEF Way
      <4>2. CASE ~ Sure
        <5>1. id = Now(n)
          <6>1. CASE "dispatcher" \in Fault
            BY <1>4, <2>1, <3>1, <6>1, OutboxAssumption DEF MildFaults, Now, Generation
          <6>2. CASE "outage" \in Fault
            <7>1. id \in Wanted
              BY DEF Wanted, id
            <7> QED BY <1>4, <3>1, <6>2, <7>1 DEF AloneInv, Alone, k
          <6> QED BY <4>2, <6>1, <6>2 DEF Sure
        <5> QED BY <1>5, <4>1, <5>1 DEF Waits, Coming
      <4>3. CASE Sure
        BY <2>1, <3>1, <4>1, <4>3 DEF Waits, Row
      <4> QED BY <4>2, <4>3
    <3>5. rows[n].status = "pending" => Waits(n)'
      <4>1. rows[n].status = "pending" => Coming(n)'
        BY <1>6, <1>10, <3>2, <3>4 DEF Coming
      <4> QED BY <1>6, <2>1, <3>2, <4>1 DEF Way, Waits
    <3>6. rows[n].status = "processing" => Runs(n)'
      BY <1>6, <2>1, <2>2, <3>2 DEF Way, Runs
    <3> QED BY <1>6, <2>1, <3>1, <3>2, <3>3, <3>5, <3>6 DEF Way
  <2> QED BY <2>3, <2>4
<1>13. \A e \in Dispatcher : Adds(e)'
  BY <1>2, <1>3, <1>6, BatchChanges DEF WayInv, Adds
<1>14. NoneUntried'
  BY <1>6 DEF WayInv, NoneUntried
<1>15. \A n \in Notification : rows'[n].attempts = rows[n].attempts
  BY <1>7, <1>9 DEF OtherTypes
<1> QED BY <1>6, <1>12, <1>13, <1>14, <1>15, DispatcherWays

(* Redis refuses a job, and the row is to be due for dispatch again.          *)
LEMMA RefusedWay ==
    ASSUME MildFaults, OutboxInv, Held, WayInv, NEW d \in Dispatcher, NEW id \in JobId,
           AddFails(d, id)
    PROVE  WayInv'
<1> USE DEF OutboxInv
<1> DEFINE b == [todo |-> dispatching[d].todo \ {id}, at |-> id, phase |-> "error"]
<1>1. /\ dispatching' = [dispatching EXCEPT ![d] = b] /\ id \in dispatching[d].todo
      /\ "outage" \in Fault /\ UNCHANGED <<rows, jobs, delivering>>
  BY DEF AddFails, TakeFromBatch, Suffers, MildFaults
<1>2. b.todo = dispatching[d].todo \ {id} /\ b.at = id /\ b.phase = "error"
  OBVIOUS
<1> HIDE DEF b
<1>3. id \in Todo /\ ~ Sure
  BY <1>1 DEF Todo, Sure
<1>4. \A x \in Wanted' : x \in Wanted
  BY <1>1, <1>2, <1>3, BatchChanges DEF Wanted, Todo
<1>5. ASSUME NEW n \in Notification PROVE Way(n)'
  <2>1. Way(n) /\ rows[n].manual \in Generation
    BY DEF WayInv, OtherTypes, Row
  <2>2. rows[n].status = "processing" => \E r \in Run : Busy(r)' /\ RowOf(r)' = n
    BY <1>1, <2>1, BusyRows DEF Way, Runs
  <2> QED BY <1>1, <1>3, <1>4, <2>1, <2>2, SameWay
<1>6. \A e \in Dispatcher : Adds(e)'
  BY <1>1, <1>2, BatchChanges DEF WayInv, Adds
<1>7. NoneUntried'
  BY <1>1 DEF WayInv, NoneUntried
<1> QED BY <1>1, <1>5, <1>6, <1>7, DispatcherWays

LEMMA RetryWay ==
    ASSUME MildFaults, OutboxInv, Held, WayInv, AloneInv, NEW d \in Dispatcher,
           MarkDispatchRetry(d)
    PROVE  WayInv'
<1> USE DEF OutboxInv
<1> DEFINE b == [dispatching[d] EXCEPT !.at = NoRow, !.phase = "ready"]
           id == dispatching[d].at
           k == id[1]
           row == [rows[k] EXCEPT !.dispatch = "pending"]
<1>1. dispatching[d] \in Batch /\ dispatching[d].phase = "error"
  BY DEF OtherTypes, MarkDispatchRetry
<1>2. "outage" \in Fault /\ Alone /\ \A e \in Dispatcher : e = d
  BY <1>1 DEF WayInv, Adds, AloneInv, MildFaults
<1>3. dispatching' = [dispatching EXCEPT ![d] = b]
  BY Zenon DEF MarkDispatchRetry, RowDone
<1>4. b.todo = dispatching[d].todo /\ b.at = NoRow /\ b.phase = "ready"
  BY <1>1 DEF Batch
<1>5. id \in JobId /\ k \in Notification /\ id[2] \in Generation /\ id = <<k, id[2]>>
  <2>1. id \in JobId
    BY <1>1 DEF Batch
  <2> QED BY <2>1, JobIdParts
<1>6. jobs[id].state = "none" /\ id \notin dispatching[d].todo /\ ~ Sure
  BY <1>1, <1>2 DEF Alone, Sure
<1>7. UNCHANGED <<jobs, delivering>>
  BY DEF MarkDispatchRetry
<1>8. rows' = rows \/ (rows[k].status = "pending" /\ rows' = [rows EXCEPT ![k] = row])
  <2>1. [rows EXCEPT ![k].dispatch = "pending"] = [rows EXCEPT ![k] = row]
    BY Zenon
  <2>2. rows' = IF rows[k].status # "pending" THEN rows
                ELSE [rows EXCEPT ![k].dispatch = "pending"]
    BY Zenon DEF MarkDispatchRetry
  <2> QED BY <2>1, <2>2
<1>9. rows[k] \in Row /\ Way(k) /\ rows[k].manual \in Generation
      /\ rows[k].manual \in Int /\ id[2] \in Int
  BY <1>5, Generations DEF WayInv, OtherTypes, Row
<1>10. /\ row.dispatch = "pending" /\ row.status = rows[k].status
       /\ row.manual = rows[k].manual /\ row.attempts = rows[k].attempts
       /\ row.dispatchJob = rows[k].dispatchJob
  BY <1>9 DEF Row
<1> HIDE DEF b, row, k
<1>11. \A x \in JobId : x \in Wanted' => x \in Wanted /\ x # id
  <2>1. \A x \in JobId : x # NoRow
    BY JobIdParts DEF NoRow
  <2>2. dispatching'[d] = b
    BY <1>3, BatchChanges
  <2>3. \A x \in JobId : x \in Wanted' => x \in dispatching[d].todo
    BY <1>2, <1>4, <2>1, <2>2 DEF Wanted, Todo
  <2> QED BY <1>6, <2>3 DEF Wanted, Todo
<1>12. id \in Wanted
  BY DEF Wanted
<1> HIDE DEF id
<1>13. \A n \in Notification, g \in Generation : <<n, g>> \in JobId
  BY DEF JobId
<1>14. ASSUME NEW n \in Notification PROVE Way(n)'
  <2>1. Way(n) /\ rows[n] \in Row /\ rows[n].manual \in Generation
    BY DEF WayInv, OtherTypes, Row
  <2>2. rows[n].status = "processing" => \E r \in Run : Busy(r)' /\ RowOf(r)' = n
    BY <1>7, <2>1, BusyRows DEF Way, Runs
  <2>3. CASE rows'[n] = rows[n]
    BY <1>6, <1>7, <1>11, <1>13, <2>1, <2>2, <2>3, SameWay
  <2>4. CASE rows'[n] # rows[n]
    <3>1. n = k /\ rows'[n] = row /\ rows[n].status = "pending"
      BY <1>8, <2>4 DEF OtherTypes
    <3>2. /\ rows'[n].dispatch = "pending" /\ rows'[n].status = "pending"
          /\ rows'[n].manual = rows[n].manual /\ rows'[n].attempts = rows[n].attempts
          /\ rows'[n].dispatchJob = rows[n].dispatchJob /\ Now(n)' = Now(n)
      BY <1>10, <3>1 DEF Now
    <3>3. InOrder(n)'
      BY <1>7, <1>11, <1>13, <2>1, <3>2 DEF Way, InOrder
    <3>4. id = Now(n)
      <4>1. ~ (id[2] < rows[k].manual)
        BY <1>5, <1>6, <1>9 DEF Way, InOrder, Done
      <4>2. ~ (id[2] > rows[k].manual)
        BY <1>5, <1>9, <1>12 DEF Way, InOrder
      <4> QED BY <1>5, <1>9, <3>1, <4>1, <4>2 DEF Now
    <3>5. Fresh(n)'
      BY <1>5, <1>6, <1>7, <1>11, <3>2, <3>4 DEF Fresh
    <3>6. rows[n].dispatchJob = rows[n].manual
      <4>1. Waits(n)
        BY <2>1, <3>1 DEF Way
      <4>2. rows[n].dispatch # "dispatched"
        BY <1>6, <3>4, <4>1 DEF Waits, Coming
      <4> QED BY <2>1, <4>2 DEF Way
    <3>7. Waits(n)'
      BY <1>7, <2>1, <3>1, <3>2, <3>5 DEF Way, Waits
    <3> QED BY <3>2, <3>3, <3>6, <3>7 DEF Way
  <2> QED BY <2>3, <2>4
<1>15. \A e \in Dispatcher : Adds(e)'
  BY <1>3, <1>4, <1>7, BatchChanges DEF WayInv, Adds
<1>16. NoneUntried'
  BY <1>7 DEF WayInv, NoneUntried
<1>17. \A n \in Notification : rows'[n].attempts = rows[n].attempts
  BY <1>8, <1>10 DEF OtherTypes
<1> QED BY <1>7, <1>14, <1>15, <1>16, <1>17, DispatcherWays

LEMMA DeathWay ==
    ASSUME OutboxInv, Held, WayInv, NEW d \in Dispatcher, DispatcherDies(d)
    PROVE  WayInv'
<1> USE DEF OutboxInv
<1>1. /\ dispatching' = [dispatching EXCEPT ![d] = IdleBatch] /\ "dispatcher" \in Fault
      /\ UNCHANGED <<rows, jobs, delivering>>
  BY DEF DispatcherDies, Suffers
<1>0. ~ Sure
  BY <1>1 DEF Sure
<1>2. IdleBatch.todo = {} /\ IdleBatch.at = NoRow /\ IdleBatch.phase = "ready"
  BY DEF IdleBatch
<1>3. \A n \in Notification, g \in Generation : <<n, g>> \in Wanted' => <<n, g>> \in Wanted
  <2>1. \A n \in Notification, g \in Generation : <<n, g>> # NoRow
    BY DEF NoRow
  <2>2. \A x \in Wanted' : x \in Wanted \/ x \in IdleBatch.todo \/ x = IdleBatch.at
    BY <1>1, BatchChanges
  <2>3. \A x \in Wanted' : x \in Wanted \/ x = NoRow
    BY <1>2, <2>2
  <2> QED BY <2>1, <2>3
<1>4. ASSUME NEW n \in Notification PROVE Way(n)'
  <2>1. Way(n) /\ rows[n].manual \in Generation
    BY DEF WayInv, OtherTypes, Row
  <2>2. rows[n].status = "processing" => \E r \in Run : Busy(r)' /\ RowOf(r)' = n
    BY <1>1, <2>1, BusyRows DEF Way, Runs
  <2> QED BY <1>0, <1>1, <1>3, <2>1, <2>2, SameWay
<1>5. \A e \in Dispatcher : Adds(e)'
  BY <1>1, <1>2, BatchChanges DEF WayInv, Adds
<1>6. NoneUntried'
  BY <1>1 DEF WayInv, NoneUntried
<1> QED BY <1>1, <1>4, <1>5, <1>6, DispatcherWays

LEMMA StartWay ==
    ASSUME OutboxInv, Held, WayInv, NEW r \in Run, NEW id \in JobId, StartDelivery(r, id)
    PROVE  WayInv'
<1> USE DEF OutboxInv
<1> DEFINE k == id[1]
<1>1. id = Now(k) /\ k \in Notification /\ id[2] \in Generation /\ id = <<k, id[2]>>
  BY WaitsNow, JobIdParts DEF StartDelivery
<1>2. rows[k] \in Row /\ Way(k) /\ rows[k].manual \in Generation
  BY <1>1 DEF WayInv, OtherTypes, Row
<1>3. rows[k].status = "pending"
  <2> SUFFICES ASSUME rows[k].status = "processing" PROVE FALSE
    BY DEF StartDelivery, Deliverable
  <2>1. PICK s \in Run : Busy(s) /\ RowOf(s) = k
    BY <1>2 DEF Way, Runs
  <2>2. jobs[id].state = "active"
    BY <1>1, <2>1, RunsNow
  <2> QED BY <2>2 DEF StartDelivery
<1>4. Waits(k)
  BY <1>2, <1>3 DEF Way
<1>5. \A s \in Run : Busy(s) => RowOf(s) # k
  BY <1>3, RunsNow
<1> DEFINE row == Claimed(id)
<1>6. /\ row.status = "processing" /\ row.dispatch = "dispatched"
      /\ row.manual = rows[k].manual /\ row.attempts = rows[k].attempts + 1
  <2>1. \A old \in Row, g \in Generation, count \in 0 .. MaxAttempts :
           LET new == [old EXCEPT !.status = "processing", !.dispatch = "dispatched",
                                  !.processingJob = g, !.attempts = count]
           IN  /\ new.status = "processing" /\ new.dispatch = "dispatched"
               /\ new.manual = old.manual /\ new.attempts = count
    BY DEF Row
  <2>2. rows[k].attempts + 1 \in 0 .. MaxAttempts
    BY <1>2, <1>4, Attempts DEF Waits, Row
  <2>3. row = [rows[k] EXCEPT !.status = "processing", !.dispatch = "dispatched",
                              !.processingJob = id[2], !.attempts = rows[k].attempts + 1]
    BY Zenon DEF Claimed
  <2> HIDE DEF row
  <2> QED BY <1>1, <1>2, <2>1, <2>2, <2>3
<1>7. rows' = [rows EXCEPT ![k] = row]
  BY Zenon DEF StartDelivery
<1>8. /\ delivering'[r].id = id /\ delivering'[r].attempt = row.attempts /\ Busy(r)'
      /\ \A s \in Run \ {r} : delivering'[s] = delivering[s]
      /\ delivering[r] = Idle
  BY DEF StartDelivery, JobTypes, Busy, Idle
<1>9. /\ jobs' = [jobs EXCEPT ![id].state = "active"] /\ jobs[id].state = "waiting"
      /\ dispatching' = dispatching
  BY DEF StartDelivery
<1> HIDE DEF k, row
<1>10. /\ jobs'[id].state = "active" /\ jobs'[id].tries = jobs[id].tries
       /\ \A i \in JobId \ {id} : jobs'[i] = jobs[i]
  BY <1>9 DEF JobTypes, Job
<1>11. Todo' = Todo /\ Wanted' = Wanted
  BY <1>9 DEF Todo, Wanted
<1>12. RowOf(r)' = k /\ rows'[k] = row /\ \A n \in Notification \ {k} : rows'[n] = rows[n]
  BY <1>1, <1>7, <1>8 DEF RowOf, k, OtherTypes
<1>13. ASSUME NEW n \in Notification PROVE Way(n)'
  <2>1. CASE n = k
    <3>1. Now(k)' = id
      BY <1>1, <1>6, <1>12 DEF Now
    <3>2. InOrder(k)'
      <4>1. \A g \in Generation : g # rows[k].manual =>
               <<k, g>> \in JobId /\ jobs'[<<k, g>>] = jobs[<<k, g>>]
        BY <1>1, <1>10 DEF Now, JobId
      <4> QED BY <1>2, <1>6, <1>11, <1>12, <4>1, Generations DEF Way, InOrder
    <3>3. jobs[id].tries < rows[k].attempts + 1
      <4>1. jobs[id].tries \in Int /\ rows[k].attempts \in Int
        BY <1>2 DEF JobTypes, Job, Row
      <4> QED BY <1>1, <1>4, <4>1 DEF Waits
    <3>4. Runs(k)'
      BY <1>6, <1>8, <1>10, <1>12, <3>1, <3>3 DEF Runs
    <3> QED BY <1>6, <1>12, <2>1, <3>2, <3>4 DEF Way
  <2>2. CASE n # k
    <3>1. Way(n) /\ rows'[n] = rows[n] /\ rows[n].manual \in Generation
      BY <1>12, <2>2 DEF WayInv, OtherTypes, Row
    <3>2. \A g \in Generation : <<n, g>> \in JobId /\ <<n, g>> # id
      BY <1>1, <2>2 DEF JobId
    <3>3. rows[n].status = "processing" => \E s \in Run : Busy(s)' /\ RowOf(s)' = n
      BY <1>8, <3>1 DEF Way, Runs, Busy, RowOf
    <3> QED BY <1>10, <1>11, <3>1, <3>2, <3>3, SameWay
  <2> QED BY <2>1, <2>2
<1>14. \A s \in Run : Busy(s)' => delivering'[s].attempt = rows'[RowOf(s)'].attempts
  <2> TAKE s \in Run
  <2>1. CASE s = r
    BY <1>8, <1>12, <2>1
  <2>2. CASE s # r
    <3>1. Busy(s)' => Busy(s) /\ RowOf(s)' = RowOf(s) /\ delivering'[s] = delivering[s]
      BY <1>8, <2>2 DEF Busy, RowOf
    <3> QED BY <1>5, <1>12, <3>1, RunsNow
  <2> QED BY <2>1, <2>2
<1>15. \A d \in Dispatcher : Adds(d)'
  <2>1. \A d \in Dispatcher : dispatching[d].phase = "added" => dispatching[d].at \in JobId
    BY DEF OtherTypes, Batch
  <2> QED BY <1>9, <1>10, <2>1 DEF WayInv, Adds
<1>16. NoneUntried'
  BY <1>10 DEF WayInv, NoneUntried
<1> QED BY <1>13, <1>14, <1>15, <1>16 DEF WayInv

(* A job that finds nothing to deliver is not the one its row waits for.      *)
LEMMA NothingWay ==
    ASSUME OutboxInv, Held, WayInv, NEW r \in Run, NEW id \in JobId, NothingToDeliver(r, id)
    PROVE  WayInv'
<1> USE DEF OutboxInv
<1> DEFINE k == id[1]
<1>1. id = Now(k) /\ k \in Notification /\ id[2] \in Generation /\ id = <<k, id[2]>>
  BY WaitsNow, JobIdParts DEF NothingToDeliver
<1>2. rows[k] \in Row /\ Way(k) /\ rows[k].manual \in Generation
  BY <1>1 DEF WayInv, OtherTypes, Row
<1>3. jobs[id].state = "waiting" /\ UNCHANGED <<rows, dispatching, delivering>>
      /\ jobs' = [jobs EXCEPT ![id] = Ended(jobs[id], "completed")]
  BY DEF NothingToDeliver
<1>4. rows[k].status # "pending"
  <2> SUFFICES ASSUME rows[k].status = "pending" PROVE FALSE
    OBVIOUS
  <2>1. Waits(k)
    BY <1>2 DEF Way
  <2>2. rows[k].dispatch # "pending"
    BY <1>1, <1>3, <2>1 DEF Waits, Fresh
  <2>3. Deliverable(id)
    BY <1>2, <2>1, <2>2 DEF Deliverable, Waits, Row
  <2> QED BY <2>3 DEF NothingToDeliver
<1>5. rows[k].status # "processing"
  <2> SUFFICES ASSUME NEW s \in Run, Busy(s), RowOf(s) = k PROVE FALSE
    BY <1>2 DEF Way, Runs
  <2>1. jobs[id].state = "active"
    BY <1>1, RunsNow
  <2> QED BY <1>3, <2>1
<1>6. rows[k].status # "absent"
  BY <1>1, <1>2, <1>3 DEF Way, Fresh
<1> HIDE DEF k
<1>7. /\ jobs'[id].state = "completed" /\ \A i \in JobId \ {id} : jobs'[i] = jobs[i]
  BY <1>3 DEF Ended, JobTypes, Job
<1>8. Todo' = Todo /\ Wanted' = Wanted
  BY <1>3 DEF Todo, Wanted
<1>9. ASSUME NEW n \in Notification PROVE Way(n)'
  <2>1. CASE n = k
    <3>1. Now(k)' = id
      BY <1>1, <1>3 DEF Now
    <3>2. InOrder(k)'
      <4>1. \A g \in Generation : g # rows[k].manual =>
               <<k, g>> \in JobId /\ jobs'[<<k, g>>] = jobs[<<k, g>>]
        BY <1>1, <1>7 DEF Now, JobId
      <4> QED BY <1>2, <1>3, <1>8, <4>1, Generations DEF Way, InOrder
    <3> QED BY <1>2, <1>3, <1>4, <1>5, <1>6, <1>7, <2>1, <3>1, <3>2 DEF Way, Done
  <2>2. CASE n # k
    <3>1. Way(n) /\ rows'[n] = rows[n] /\ rows[n].manual \in Generation
      BY <1>3 DEF WayInv, OtherTypes, Row
    <3>2. \A g \in Generation : <<n, g>> \in JobId /\ <<n, g>> # id
      BY <1>1, <2>2 DEF JobId
    <3>3. rows[n].status = "processing" => \E s \in Run : Busy(s)' /\ RowOf(s)' = n
      BY <1>3, <3>1, BusyRows DEF Way, Runs
    <3> QED BY <1>7, <1>8, <3>1, <3>2, <3>3, SameWay
  <2> QED BY <2>1, <2>2
<1>10. \A d \in Dispatcher : Adds(d)'
  <2>1. \A d \in Dispatcher : dispatching[d].phase = "added" => dispatching[d].at \in JobId
    BY DEF OtherTypes, Batch
  <2> QED BY <1>3, <1>7, <2>1 DEF WayInv, Adds
<1>11. NoneUntried'
  BY <1>7 DEF WayInv, NoneUntried
<1>12. \A n \in Notification : rows'[n].attempts = rows[n].attempts
  BY <1>3
<1> QED BY <1>3, <1>9, <1>10, <1>11, <1>12, DispatcherWays

(* A run ends: its row is settled, or waits with its job.                     *)
LEMMA EndedWay ==
    ASSUME OutboxInv, Held, WayInv, NEW r \in Run, Busy(r), NEW job, EndRun(r, job),
           NEW row, rows' = [rows EXCEPT ![RowOf(r)] = row], row \in Row,
           row.manual = rows[RowOf(r)].manual, row.dispatch = rows[RowOf(r)].dispatch,
           row.attempts = rows[RowOf(r)].attempts, UNCHANGED dispatching,
           \/ row.status \in {"cancelled", "sent", "failed"} /\ job.state \in Done
           \/ /\ row.status = "pending" /\ job.state = "waiting"
              /\ job.tries <= row.attempts /\ row.attempts < MaxAttempts
    PROVE  WayInv'
<1> USE DEF OutboxInv
<1> DEFINE id == delivering[r].id
<1>18. RowOf(r) \in Notification
  BY RunsNow
<1>19. PICK k \in Notification : k = RowOf(r)
  BY <1>18
<1>1. k \in Notification /\ id = Now(k) /\ delivering[r].awaited
      /\ rows[k].status = "processing"
  BY <1>19, RunsNow
<1>2. rows[k] \in Row /\ Way(k) /\ rows[k].manual \in Generation /\ Runs(k)
  BY <1>1 DEF WayInv, Way, OtherTypes, Row
<1>3. id = <<k, rows[k].manual>> /\ id \in JobId
  BY <1>1, <1>2 DEF Now, JobId
<1>4. /\ delivering' = [delivering EXCEPT ![r] = Idle] /\ jobs' = [jobs EXCEPT ![id] = job]
  BY <1>1 DEF EndRun
<1>5. rows' = [rows EXCEPT ![k] = row]
  BY <1>19
<1>6. \A s \in Run : Busy(s)' => s # r /\ Busy(s) /\ delivering'[s] = delivering[s]
                                 /\ RowOf(s)' = RowOf(s)
  BY <1>4 DEF JobTypes, Busy, RowOf
<1>7. \A s \in Run \ {r} : Busy(s) => Busy(s)' /\ RowOf(s)' = RowOf(s) /\ RowOf(s) # k
  BY <1>4, <1>19, HeldExcludes DEF JobTypes, Busy, RowOf, OneDeliveryPerRow
<1> HIDE DEF id
<1>8. jobs'[id] = job /\ \A i \in JobId \ {id} : jobs'[i] = jobs[i]
  BY <1>3, <1>4 DEF JobTypes
<1>9. Todo' = Todo /\ Wanted' = Wanted
  BY DEF Todo, Wanted
<1>10. rows'[k] = row /\ \A n \in Notification \ {k} : rows'[n] = rows[n]
  BY <1>1, <1>5 DEF OtherTypes
<1>11. row.manual = rows[k].manual /\ row.dispatch = "dispatched"
       /\ row.attempts = rows[k].attempts
  BY <1>2, <1>19 DEF Runs
<1>17. /\ rows'[k].manual = rows[k].manual /\ rows'[k].dispatch = "dispatched"
       /\ rows'[k].attempts = rows[k].attempts
       /\ rows'[k].status \in {"pending", "cancelled", "sent", "failed"}
       /\ rows'[k].status = "pending" =>
             /\ jobs'[id].state = "waiting" /\ jobs'[id].tries <= rows'[k].attempts
             /\ rows'[k].attempts < MaxAttempts
       /\ rows'[k].status = "failed" => jobs'[id].state \in Done
  <2>1. row.status = "pending" => job.state = "waiting" /\ job.tries <= row.attempts
                                  /\ row.attempts < MaxAttempts
    OBVIOUS
  <2>2. row.status \in {"pending", "cancelled", "sent", "failed"}
        /\ (row.status = "failed" => job.state \in Done)
    OBVIOUS
  <2> QED BY <1>8, <1>10, <1>11, <2>1, <2>2
<1>12. ASSUME NEW n \in Notification PROVE Way(n)'
  <2>1. CASE n = k
    <3> SUFFICES Way(k)'
      BY <2>1
    <3>1. Now(k)' = id
      BY <1>3, <1>17 DEF Now
    <3>2. InOrder(k)'
      <4>1. \A g \in Generation : g # rows[k].manual =>
               <<k, g>> \in JobId /\ jobs'[<<k, g>>] = jobs[<<k, g>>]
        BY <1>1, <1>3, <1>8 DEF JobId
      <4> QED BY <1>2, <1>9, <1>17, <4>1, Generations DEF Way, InOrder
    <3>3. rows'[k].status = "pending" => Waits(k)'
      BY <1>17, <3>1 DEF Waits, Coming, Fresh, Done
    <3> QED BY <1>17, <3>1, <3>2, <3>3 DEF Way
  <2>2. CASE n # k
    <3>1. Way(n) /\ rows'[n] = rows[n] /\ rows[n].manual \in Generation
      BY <1>10, <2>2 DEF WayInv, OtherTypes, Row
    <3>2. \A g \in Generation : <<n, g>> \in JobId /\ <<n, g>> # id
      BY <1>3, <2>2 DEF JobId
    <3>3. rows[n].status = "processing" => \E s \in Run : Busy(s)' /\ RowOf(s)' = n
      <4>1. ASSUME rows[n].status = "processing"
            PROVE  \E s \in Run \ {r} : Busy(s) /\ RowOf(s) = n
        BY <1>19, <2>2, <3>1, <4>1 DEF Way, Runs
      <4> QED BY <1>7, <4>1
    <3> QED BY <1>8, <1>9, <3>1, <3>2, <3>3, SameWay
  <2> QED BY <2>1, <2>2
<1>13. \A s \in Run : Busy(s)' => delivering'[s].attempt = rows'[RowOf(s)'].attempts
  BY <1>6, <1>7, <1>10, <1>19, RunsNow
<1>14. job.state # "none"
  BY DEF Done
<1>15. \A d \in Dispatcher : Adds(d)'
  <2>1. \A d \in Dispatcher : dispatching[d].phase = "added" => dispatching[d].at \in JobId
    BY DEF OtherTypes, Batch
  <2> QED BY <1>8, <1>14, <2>1 DEF WayInv, Adds
<1>16. NoneUntried'
  BY <1>8, <1>14 DEF WayInv, NoneUntried
<1> QED BY <1>12, <1>13, <1>15, <1>16 DEF WayInv

LEMMA ContinuedWay ==
    ASSUME OutboxInv, Held, WayInv, NEW r \in Run, Busy(r), NEW step, Continue(r, step),
           UNCHANGED <<rows, jobs, dispatching>>
    PROVE  WayInv'
<1> USE DEF OutboxInv
<1>1. delivering[r] \in Delivery
  BY BusyRun
<1>2. /\ delivering'[r].id = delivering[r].id /\ delivering'[r].attempt = delivering[r].attempt
      /\ Busy(r)' /\ \A s \in Run \ {r} : delivering'[s] = delivering[s]
  BY <1>1 DEF Continue, JobTypes, Delivery, Busy, Idle
<1>3. \A s \in Run : /\ Busy(s)' <=> Busy(s)
                     /\ RowOf(s)' = RowOf(s) /\ delivering'[s].attempt = delivering[s].attempt
  BY <1>2 DEF Busy, RowOf
<1>4. Todo' = Todo /\ Wanted' = Wanted
  BY DEF Todo, Wanted
<1>5. ASSUME NEW n \in Notification PROVE Way(n)'
  <2>1. Way(n) /\ rows'[n] = rows[n] /\ rows[n].manual \in Generation
    BY DEF WayInv, OtherTypes, Row
  <2>2. rows[n].status = "processing" => \E s \in Run : Busy(s)' /\ RowOf(s)' = n
    BY <1>3, <2>1 DEF Way, Runs
  <2> QED BY <1>4, <2>1, <2>2, SameWay
<1>6. \A d \in Dispatcher : Adds(d)'
  BY DEF WayInv, Adds
<1>7. NoneUntried'
  BY DEF WayInv, NoneUntried
<1> QED BY <1>3, <1>5, <1>6, <1>7 DEF WayInv

LEMMA RunWay ==
    ASSUME MildFaults, OutboxInv, Held, WayInv, NEW r \in Run, RunStep(r) \/ RunFault(r)
    PROVE  WayInv'
<1> USE DEF OutboxInv
<1> DEFINE n == RowOf(r)
           old == rows[n]
<1>1. ASSUME delivering[r].step # "idle"
      PROVE  /\ Busy(r) /\ n \in Notification /\ old \in Row /\ JobOf(r) \in Job
             /\ old.status = "processing" /\ Runs(n) /\ JobOf(r) = jobs[Now(n)]
  <2>1. Busy(r)
    BY <1>1 DEF Busy, Idle
  <2>2. n \in Notification /\ delivering[r].id = Now(n) /\ old.status = "processing"
        /\ delivering[r].id \in JobId
    BY <2>1, BusyRun, RunsNow
  <2> HIDE DEF n
  <2> QED BY <2>1, <2>2 DEF WayInv, Way, OtherTypes, JobTypes, JobOf
<1>2. CASE RunFault(r)
  BY <1>2 DEF RunFault, MildFaults, ClaimFails, MarkSentFails, OutcomeLost, WorkerDies,
              JobTimeout, Suffers
<1>3. CASE PushFlex(r) \/ PushText(r)
  <2>1. Busy(r) /\ UNCHANGED <<rows, jobs, dispatching>>
    BY <1>1, <1>3 DEF PushFlex, PushText
  <2>2. \E step : Continue(r, step)
    BY <1>3 DEF PushFlex, PushText
  <2> QED BY <2>1, <2>2, ContinuedWay
<1>4. ASSUME NEW status \in {"cancelled", "sent", "failed"}, NEW state \in Done,
             NEW b \in BOOLEAN, delivering[r].step # "idle", UNCHANGED dispatching,
             EndRun(r, Ended(JobOf(r), state)),
             \/ rows' = [rows EXCEPT ![n] = [old EXCEPT !.status = status]]
             \/ rows' = [rows EXCEPT ![n] = [old EXCEPT !.status = status,
                                                        !.processingJob = NoJob]]
             \/ rows' = [rows EXCEPT ![n] = [old EXCEPT !.status = status,
                                             !.processingJob = NoJob, !.retryable = b]]
      PROVE  WayInv'
  <2>1. Busy(r) /\ old \in Row /\ JobOf(r) \in Job
    BY <1>1, <1>4
  <2>2. Ended(JobOf(r), state).state \in Done
    BY <2>1 DEF Ended, Job
  <2>3. PICK row : /\ rows' = [rows EXCEPT ![n] = row] /\ row \in Row /\ row.status = status
                   /\ row.manual = old.manual /\ row.dispatch = old.dispatch
                   /\ row.attempts = old.attempts
    <3> HIDE DEF n, old
    <3> DEFINE only  == [old EXCEPT !.status = status]
               freed == [old EXCEPT !.status = status, !.processingJob = NoJob]
               noted == [old EXCEPT !.status = status, !.processingJob = NoJob, !.retryable = b]
    <3>1. only \in Row /\ freed \in Row /\ noted \in Row
      <4> HIDE DEF only, freed, noted
      <4>1. status \in {"pending"} \cup FinalStatus
        BY DEF FinalStatus
      <4> USE DEF only, freed, noted
      <4> QED BY <2>1, <4>1, OutcomeIs
    <3>2. \A row \in {only, freed, noted} :
             /\ row.status = status /\ row.manual = old.manual
             /\ row.dispatch = old.dispatch /\ row.attempts = old.attempts
      BY <2>1 DEF Row
    <3>3. \E row \in {only, freed, noted} : rows' = [rows EXCEPT ![n] = row]
      BY <1>4
    <3> HIDE DEF only, freed, noted
    <3> QED BY <3>1, <3>2, <3>3
  <2> QED BY <1>4, <2>1, <2>2, <2>3, EndedWay
<1>5. CASE Decline(r)
  <2>1. delivering[r].step # "idle" /\ UNCHANGED dispatching
        /\ EndRun(r, Ended(JobOf(r), "completed"))
    BY <1>5, Concluded DEF Decline, MildFaults
  <2>2. old.status \in Cancellable
    BY <1>1, <2>1 DEF Cancellable
  <2>3. rows' = [rows EXCEPT ![n] = [old EXCEPT !.status = "cancelled"]]
    BY <1>5, <2>2, Zenon DEF Decline
  <2> QED BY <1>4, <2>1, <2>3 DEF Done
<1>6. CASE MarkSent(r)
  <2>1. delivering[r].step # "idle" /\ UNCHANGED dispatching
        /\ EndRun(r, Ended(JobOf(r), "completed"))
    BY <1>6, Concluded DEF MarkSent, MildFaults
  <2>2. rows' = [rows EXCEPT ![n] = [old EXCEPT !.status = "sent", !.processingJob = NoJob]]
    BY <1>6, Zenon DEF MarkSent
  <2> QED BY <1>4, <2>1, <2>2 DEF Done
<1>7. CASE MarkFailed(r)
  <2> DEFINE again == delivering[r].step = "retry"
  <2>1. delivering[r].step # "idle" /\ UNCHANGED dispatching
        /\ EndRun(r, Ended(JobOf(r), "failed"))
    BY <1>7, Concluded DEF MarkFailed, MildFaults
  <2>2. rows' = [rows EXCEPT ![n] = [old EXCEPT !.status = "failed",
                                        !.processingJob = NoJob, !.retryable = again]]
    BY <1>7, Zenon DEF MarkFailed
  <2>3. again \in BOOLEAN
    OBVIOUS
  <2> HIDE DEF again
  <2> QED BY <1>4, <2>1, <2>2, <2>3 DEF Done
<1>8. CASE MarkRetry(r)
  <2>1. delivering[r].step # "idle" /\ UNCHANGED dispatching /\ ~ Exhausted(r)
        /\ EndRun(r, FailedTry(JobOf(r)))
    BY <1>8, Concluded DEF MarkRetry, MildFaults
  <2>2. Busy(r) /\ old \in Row /\ JobOf(r) \in Job /\ delivering[r].attempt = old.attempts
        /\ JobOf(r).tries < old.attempts
    BY <1>1, <2>1, RunsNow DEF Runs
  <2> DEFINE row == [old EXCEPT !.status = "pending", !.processingJob = NoJob,
                                !.retryable = TRUE]
  <2>3. rows' = [rows EXCEPT ![n] = row]
    BY <1>8, Zenon DEF MarkRetry
  <2>4. row \in Row /\ row.status = "pending" /\ row.manual = old.manual
        /\ row.dispatch = old.dispatch /\ row.attempts = old.attempts
    <3> HIDE DEF old
    <3>1. row \in Row
      BY <2>2, OutcomeIs
    <3>2. row.status = "pending" /\ row.manual = old.manual
          /\ row.dispatch = old.dispatch /\ row.attempts = old.attempts
      BY <2>2 DEF Row
    <3> QED BY <3>1, <3>2
  <2> HIDE DEF row
  <2>5. old.attempts < MaxAttempts
    BY <2>1, <2>2, Attempts DEF Exhausted, Row
  <2>6. /\ FailedTry(JobOf(r)).state = "waiting"
        /\ FailedTry(JobOf(r)).tries <= row.attempts /\ row.attempts < MaxAttempts
    <3>1. JobOf(r).tries \in Int /\ old.attempts \in Int /\ MaxAttempts \in Int
      BY <2>2, Attempts DEF Job, Row
    <3> HIDE DEF old
    <3> QED BY <2>2, <2>4, <2>5, <3>1 DEF FailedTry
  <2> QED BY <2>1, <2>2, <2>3, <2>4, <2>6, EndedWay
<1> QED BY <1>2, <1>3, <1>5, <1>6, <1>7, <1>8 DEF RunStep

LEMMA EveryStepWay ==
    ASSUME MildFaults
    PROVE  OutboxInv /\ Held /\ WayInv /\ AloneInv /\ [Next]_vars => WayInv'
<1> SUFFICES ASSUME OutboxInv, Held, WayInv, AloneInv, [Next]_vars PROVE WayInv'
  OBVIOUS
<1>1. CASE UNCHANGED vars
  <2>1. UNCHANGED <<rows, jobs, dispatching, delivering>>
    BY <1>1 DEF vars
  <2>2. Todo' = Todo /\ Wanted' = Wanted
    BY <2>1 DEF Todo, Wanted
  <2>3. ASSUME NEW n \in Notification PROVE Way(n)'
    <3>1. Way(n) /\ rows[n].manual \in Generation
      BY DEF WayInv, OutboxInv, OtherTypes, Row
    <3>2. rows[n].status = "processing" => \E r \in Run : Busy(r)' /\ RowOf(r)' = n
      BY <2>1, <3>1, BusyRows DEF Way, Runs
    <3> QED BY <2>1, <2>2, <3>1, <3>2, SameWay
  <2>4. (\A d \in Dispatcher : Adds(d)') /\ NoneUntried'
    BY <2>1 DEF WayInv, Adds, NoneUntried
  <2> QED BY <2>1, <2>3, <2>4, DispatcherWays
<1>2. CASE TicketStep \/ SetPreference \/ OperatorStep
  BY <1>2, OutsideWay
<1>3. ASSUME NEW d \in Dispatcher, NEW batch \in SUBSET Notification, ClaimForDispatch(d, batch)
      PROVE  WayInv'
  BY <1>3, ClaimWay
<1>4. ASSUME NEW d \in Dispatcher, DispatcherStep(d) \/ DispatcherFault(d) PROVE WayInv'
  <2>1. CASE \E id \in JobId : AddJob(d, id)
    BY <2>1, AddWay
  <2>2. CASE MarkDispatched(d)
    BY <2>2, MarkWay
  <2>3. CASE MarkDispatchRetry(d)
    BY <2>3, RetryWay
  <2>4. CASE DispatcherDies(d)
    BY <2>4, DeathWay
  <2>5. CASE MarkDispatchedFails(d)
    BY <2>5 DEF MarkDispatchedFails, Suffers, MildFaults
  <2>6. CASE \E id \in JobId : AddFails(d, id)
    BY <2>6, RefusedWay
  <2> QED BY <1>4, <2>1, <2>2, <2>3, <2>4, <2>5, <2>6 DEF DispatcherStep, DispatcherFault
<1>5. ASSUME NEW id \in JobId, JobStep(id) PROVE WayInv'
  BY <1>5, StartWay, NothingWay DEF JobStep
<1>6. ASSUME NEW r \in Run, RunStep(r) \/ RunFault(r) PROVE WayInv'
  BY <1>6, RunWay
<1> QED BY <1>1, <1>2, <1>3, <1>4, <1>5, <1>6 DEF Next

LEMMA InitialWay == Init => WayInv
<1> SUFFICES ASSUME Init PROVE WayInv
  OBVIOUS
<1>1. \A id \in JobId : jobs[id].state = "none" /\ jobs[id].tries = 0
  BY DEF Init, AnyJob
<1>2. \A n \in Notification : rows[n] = AbsentRow
  BY DEF Init
<1>3. \A d \in Dispatcher : dispatching[d].todo = {} /\ dispatching[d].at = NoRow
                            /\ dispatching[d].phase = "ready"
  BY DEF Init, IdleBatch
<1>4. \A n \in Notification, g \in Generation : <<n, g>> \in JobId /\ <<n, g>> \notin Wanted
  BY <1>3 DEF Wanted, Todo, JobId, NoRow
<1>5. ASSUME NEW n \in Notification PROVE Way(n)
  <2>1. /\ rows[n].status = "absent" /\ rows[n].dispatch = "pending"
        /\ rows[n].dispatchJob = 0 /\ rows[n].manual = 0
    BY <1>2 DEF AbsentRow
  <2>2. InOrder(n)
    BY <1>1, <1>4, <2>1 DEF InOrder, Generation
  <2>3. Fresh(n)
    BY <1>1, <1>4, <2>1, Generations DEF Fresh, Now
  <2> QED BY <2>1, <2>2, <2>3 DEF Way
<1>6. \A r \in Run : ~ Busy(r)
  BY DEF Init, Busy
<1> QED BY <1>1, <1>3, <1>5, <1>6 DEF WayInv, Adds, NoneUntried

(* The batches stay as they are: no job that is to be added becomes known,    *)
(* and a row is claimed, or started anew, by nobody else.                     *)
LEMMA AloneRests ==
    ASSUME OtherTypes, Alone, UNCHANGED dispatching,
           \A id \in JobId : jobs[id].state = "none" => jobs'[id].state = "none",
           \A n \in Notification :
              /\ rows'[n].manual # rows[n].manual => rows'[n].dispatch = "pending"
              /\ rows[n].dispatch = "pending" => rows'[n].dispatch = "pending"
              /\ rows'[n].status = "pending" /\ rows'[n].dispatch = "dispatching" =>
                    rows[n].status = "pending" /\ rows[n].dispatch = "dispatching"
    PROVE  Alone'
<1>1. Todo' = Todo /\ Wanted' = Wanted
  BY DEF Todo, Wanted
<1>2. \A d \in Dispatcher : dispatching[d].phase = "error" => dispatching[d].at \in JobId
  BY DEF OtherTypes, Batch
<1>3. \A id \in Todo : id \in JobId
  BY DEF OtherTypes, Batch, Todo
<1>4. \A id \in JobId : id[1] \in Notification
  BY JobIdParts
<1>5. \A n \in Notification : rows'[n].manual = rows[n].manual => Now(n)' = Now(n)
  BY DEF Now
<1>6. \A id \in Todo' : jobs'[id].state = "none"
  BY <1>1, <1>3 DEF Alone
<1>7. \A d \in Dispatcher :
         /\ dispatching'[d].phase = "error" => jobs'[dispatching'[d].at].state = "none"
         /\ dispatching'[d].at \notin dispatching'[d].todo
  BY <1>2 DEF Alone
<1>8. \A id \in JobId :
         id \in Wanted' => id = Now(id[1])' \/ rows'[id[1]].dispatch = "pending"
  BY <1>1, <1>4, <1>5 DEF Alone
<1>9. \A n \in Notification :
         rows'[n].status = "pending" /\ rows'[n].dispatch = "dispatching" => Now(n)' \in Wanted'
  BY <1>1, <1>5 DEF Alone
<1> QED BY <1>6, <1>7, <1>8, <1>9 DEF Alone

LEMMA OutsideAlone ==
    ASSUME OutboxInv, Held, WayInv, Alone, TicketStep \/ SetPreference \/ OperatorStep
    PROVE  Alone'
<1> USE DEF OutboxInv, OtherTypes
<1>1. UNCHANGED <<jobs, dispatching>>
  BY DEF TicketStep, SetPreference, OperatorStep, Enqueue, CloseTicket, RetryFailed,
         CancelObsolete
<1>2. ASSUME NEW n \in Notification
      PROVE  \/ rows'[n] = rows[n]
             \/ rows[n].status = "absent" /\ rows'[n] = NewRow
             \/ rows[n].status = "pending" /\ rows'[n] = [rows[n] EXCEPT !.status = "cancelled"]
             \/ rows[n].status = "pending"
                /\ rows'[n] = [rows[n] EXCEPT !.status = "cancelled", !.processingJob = NoJob]
             \/ \E g : rows'[n] = [NewRow EXCEPT !.manual = g, !.dispatchJob = g]
  <2>1. CASE TicketStep \/ SetPreference
    BY <2>1 DEF TicketStep, SetPreference, Enqueue, CloseTicket, Held, Obsolete
  <2>2. ASSUME NEW k \in Notification, RetryFailed(k)
        PROVE  \/ rows'[n] = rows[n]
               \/ \E g : rows'[n] = [NewRow EXCEPT !.manual = g, !.dispatchJob = g]
    BY <2>2 DEF RetryFailed
  <2>3. ASSUME NEW k \in Notification, CancelObsolete(k)
        PROVE  \/ rows'[n] = rows[n]
               \/ rows[n].status = "pending"
                  /\ rows'[n] = [rows[n] EXCEPT !.status = "cancelled", !.processingJob = NoJob]
    BY <2>3 DEF CancelObsolete
  <2> QED BY <2>1, <2>2, <2>3 DEF OperatorStep
<1>3. ASSUME NEW n \in Notification
      PROVE  /\ rows'[n].manual # rows[n].manual => rows'[n].dispatch = "pending"
             /\ rows[n].dispatch = "pending" => rows'[n].dispatch = "pending"
             /\ rows'[n].status = "pending" /\ rows'[n].dispatch = "dispatching" =>
                   rows[n].status = "pending" /\ rows[n].dispatch = "dispatching"
  <2>1. rows[n] \in Row
    OBVIOUS
  <2>2. NewRow.dispatch = "pending"
        /\ \A g : [NewRow EXCEPT !.manual = g, !.dispatchJob = g].dispatch = "pending"
    BY DEF NewRow, AbsentRow
  <2>3. CASE rows'[n].dispatch = "pending"
    BY <2>3
  <2>4. CASE rows'[n].dispatch # "pending"
    <3>1. \/ rows'[n] = rows[n]
          \/ rows'[n] = [rows[n] EXCEPT !.status = "cancelled"]
          \/ rows'[n] = [rows[n] EXCEPT !.status = "cancelled", !.processingJob = NoJob]
      BY <1>2, <2>2, <2>4
    <3> QED BY <2>1, <3>1 DEF Row
  <2> QED BY <2>3, <2>4
<1> QED BY <1>1, <1>3, AloneRests

LEMMA JobStepAlone ==
    ASSUME OutboxInv, WayInv, Alone, NEW id \in JobId, JobStep(id)
    PROVE  Alone'
<1> USE DEF OutboxInv
<1>1. PICK r \in Run : StartDelivery(r, id) \/ NothingToDeliver(r, id)
  BY DEF JobStep
<1>2. jobs[id].state = "waiting" /\ UNCHANGED dispatching
  BY <1>1 DEF StartDelivery, NothingToDeliver
<1>3. \A i \in JobId \ {id} : jobs'[i] = jobs[i]
  BY <1>1 DEF StartDelivery, NothingToDeliver, JobTypes
<1>4. CASE NothingToDeliver(r, id)
  BY <1>2, <1>3, <1>4, AloneRests DEF NothingToDeliver
<1>5. CASE StartDelivery(r, id)
  <2> DEFINE row == Claimed(id)
  <2>1. id[1] \in Notification /\ id[2] \in Generation /\ rows[id[1]] \in Row
    BY JobIdParts DEF OtherTypes
  <2>2. /\ row.status = "processing" /\ row.manual = rows[id[1]].manual
    BY <2>1 DEF Claimed, Row
  <2>3. rows[id[1]].dispatch # "pending"
    BY <1>5 DEF StartDelivery, Deliverable
  <2>4. rows' = [rows EXCEPT ![id[1]] = row]
    BY <1>5 DEF StartDelivery
  <2> HIDE DEF row
  <2>5. rows'[id[1]] = row /\ \A n \in Notification \ {id[1]} : rows'[n] = rows[n]
    BY <2>1, <2>4 DEF OtherTypes
  <2> QED BY <1>2, <1>3, <2>1, <2>2, <2>3, <2>5, AloneRests
<1> QED BY <1>1, <1>4, <1>5

LEMMA RunAlone ==
    ASSUME MildFaults, OutboxInv, Held, WayInv, Alone, NEW r \in Run, RunStep(r) \/ RunFault(r)
    PROVE  Alone'
<1> USE DEF OutboxInv
<1> DEFINE n == RowOf(r)
<1>1. ~ RunFault(r)
  BY DEF RunFault, MildFaults, ClaimFails, MarkSentFails, OutcomeLost, WorkerDies,
         JobTimeout, Suffers
<1>2. RunStep(r)
  BY <1>1
<1>3. Busy(r) /\ UNCHANGED dispatching
  BY <1>2 DEF RunStep, Decline, PushFlex, PushText, MarkSent, MarkRetry, MarkFailed, Busy, Idle
<1>4. n \in Notification /\ delivering[r].id \in JobId /\ jobs[delivering[r].id].state = "active"
      /\ rows[n].status = "processing"
  BY <1>3, BusyRun, RunsNow
<1>5. rows[n].dispatch = "dispatched" /\ rows[n] \in Row
  BY <1>4 DEF WayInv, Way, Runs, OtherTypes
<1> HIDE DEF n
<1>6. \A i \in JobId : jobs[i].state = "none" => jobs'[i] = jobs[i]
  <2>1. UNCHANGED jobs \/ \E job : EndRun(r, job)
    BY <1>2, Concluded DEF RunStep, Decline, PushFlex, PushText, MarkSent, MarkRetry, MarkFailed
  <2>2. ASSUME NEW job, EndRun(r, job), NEW i \in JobId, jobs[i].state = "none"
        PROVE  jobs'[i] = jobs[i]
    <3>1. i # delivering[r].id
      BY <1>4, <2>2
    <3> QED BY <1>4, <2>2, <3>1 DEF EndRun, JobTypes
  <2> QED BY <2>1, <2>2
<1>7. \A m \in Notification \ {n} : rows'[m] = rows[m]
  BY <1>2 DEF RunStep, Decline, PushFlex, PushText, MarkSent, MarkRetry, MarkFailed, n, OtherTypes
<1>8. rows'[n].dispatch = "dispatched" /\ rows'[n].manual = rows[n].manual
  <2>1. CASE Decline(r) \/ PushFlex(r) \/ PushText(r)
    <3>1. rows' = rows \/ rows' = [rows EXCEPT ![n] = [rows[n] EXCEPT !.status = "cancelled"]]
      BY <2>1, Zenon DEF Decline, PushFlex, PushText, n
    <3> QED BY <1>4, <1>5, <3>1 DEF Row, OtherTypes
  <2>2. CASE MarkSent(r)
    <3>1. rows' = [rows EXCEPT ![n] = [rows[n] EXCEPT !.status = "sent",
                                                      !.processingJob = NoJob]]
      BY <2>2, Zenon DEF MarkSent, n
    <3> QED BY <1>4, <1>5, <3>1 DEF Row, OtherTypes
  <2>3. CASE MarkRetry(r)
    <3>1. rows' = [rows EXCEPT ![n] = [rows[n] EXCEPT !.status = "pending",
                                         !.processingJob = NoJob, !.retryable = TRUE]]
      BY <2>3, Zenon DEF MarkRetry, n
    <3> QED BY <1>4, <1>5, <3>1 DEF Row, OtherTypes
  <2>4. CASE MarkFailed(r)
    <3> DEFINE again == delivering[r].step = "retry"
    <3>1. rows' = [rows EXCEPT ![n] = [rows[n] EXCEPT !.status = "failed",
                                         !.processingJob = NoJob, !.retryable = again]]
      BY <2>4, Zenon DEF MarkFailed, n
    <3> HIDE DEF again
    <3> QED BY <1>4, <1>5, <3>1 DEF Row, OtherTypes
  <2> QED BY <1>2, <2>1, <2>2, <2>3, <2>4 DEF RunStep
<1> QED BY <1>3, <1>5, <1>6, <1>7, <1>8, AloneRests

(* What is wanted, where there is one dispatcher.                             *)
LEMMA OneBatch ==
    ASSUME NEW d \in Dispatcher, \A e \in Dispatcher : e = d
    PROVE  /\ Todo = dispatching[d].todo
           /\ \A x : x \in Wanted <=> x \in dispatching[d].todo \/ x = dispatching[d].at
           /\ Todo' = dispatching'[d].todo
           /\ \A x : x \in Wanted' <=> x \in dispatching'[d].todo \/ x = dispatching'[d].at
<1>1. Todo = dispatching[d].todo /\ Todo' = dispatching'[d].todo
  BY DEF Todo
<1> QED BY <1>1 DEF Wanted

LEMMA ClaimAlone ==
    ASSUME OutboxInv, WayInv, Alone, NEW d \in Dispatcher, \A e \in Dispatcher : e = d,
           NEW batch \in SUBSET Notification, ClaimForDispatch(d, batch)
    PROVE  Alone'
<1> USE DEF OutboxInv, OtherTypes
<1> DEFINE todo == {<<n, rows[n].dispatchJob>> : n \in batch}
<1>1. /\ dispatching[d].todo = {} /\ dispatching[d].at = NoRow /\ dispatching[d].phase = "ready"
      /\ UNCHANGED jobs
  BY DEF ClaimForDispatch, IdleBatch
<1>2. /\ dispatching'[d].todo = todo /\ dispatching'[d].at = NoRow
      /\ dispatching'[d].phase = "ready"
  <2>1. dispatching' = [dispatching EXCEPT ![d].todo = todo] /\ dispatching[d] = IdleBatch
    BY DEF ClaimForDispatch
  <2> HIDE DEF todo
  <2> QED BY <2>1 DEF IdleBatch
<1>3. \A x \in todo : \E n \in batch : x = <<n, rows[n].dispatchJob>>
  OBVIOUS
<1>4. \A n \in batch : <<n, rows[n].dispatchJob>> \in todo
  OBVIOUS
<1> HIDE DEF todo
<1>5. \A x \in JobId : x # NoRow
  BY JobIdParts DEF NoRow
<1>6. \A n \in Notification : Now(n) \in JobId
  BY DEF Now, JobId, Row
<1>7. ASSUME NEW n \in batch
      PROVE  /\ rows[n].dispatchJob = rows[n].manual /\ jobs[Now(n)].state = "none"
             /\ rows'[n].dispatch = "dispatching" /\ Now(n)' = Now(n)
  <2>1. rows[n].status = "pending" /\ rows[n].dispatch \in {"pending", "dispatching"}
    BY <1>7 DEF ClaimForDispatch, Dispatchable
  <2>2. Now(n) \notin Wanted
    BY <1>1, <1>5, <1>6, OneBatch
  <2>3. rows[n].dispatch = "pending"
    BY <2>1, <2>2 DEF Alone
  <2>4. Way(n) /\ Waits(n)
    BY <2>1 DEF WayInv, Way
  <2>5. rows'[n] = [rows[n] EXCEPT !.dispatch = "dispatching"] /\ rows[n] \in Row
    BY <1>7 DEF ClaimForDispatch
  <2>6. rows'[n].dispatch = "dispatching" /\ rows'[n].manual = rows[n].manual
    BY <2>5 DEF Row
  <2> QED BY <2>3, <2>4, <2>6 DEF Way, Waits, Fresh, Now
<1>12. \A x \in todo : \E n \in Notification :
          x = Now(n) /\ x[1] = n /\ x # NoRow /\ Now(n)' = x /\ jobs[x].state = "none"
  <2> SUFFICES ASSUME NEW x \in todo
               PROVE  \E n \in Notification : /\ x = Now(n) /\ x[1] = n /\ x # NoRow
                                              /\ Now(n)' = x /\ jobs[x].state = "none"
    OBVIOUS
  <2>1. PICK n \in batch : x = <<n, rows[n].dispatchJob>>
    BY <1>3
  <2>2. n \in Notification /\ x = Now(n) /\ x[1] = n
    BY <1>7, <2>1 DEF Now
  <2> QED BY <1>5, <1>6, <1>7, <2>2
<1>8. \A id \in Todo' : jobs'[id].state = "none"
  BY <1>1, <1>2, <1>12, OneBatch
<1>9. \A id \in JobId : id \in Wanted' => id = Now(id[1])'
  BY <1>2, <1>5, <1>12, OneBatch
<1>10. ASSUME NEW n \in Notification, rows'[n].status = "pending",
              rows'[n].dispatch = "dispatching"
       PROVE  Now(n)' \in Wanted'
  <2>1. CASE n \in batch
    BY <1>2, <1>4, <1>7, <2>1, OneBatch DEF Now
  <2>2. CASE n \notin batch
    <3>1. rows'[n] = rows[n]
      BY <2>2 DEF ClaimForDispatch
    <3>2. Now(n) \in Wanted
      BY <1>10, <3>1 DEF Alone
    <3> QED BY <1>1, <1>5, <1>6, <3>2, OneBatch
  <2> QED BY <2>1, <2>2
<1>11. \A e \in Dispatcher : /\ dispatching'[e].phase # "error"
                              /\ dispatching'[e].at \notin dispatching'[e].todo
  BY <1>2, <1>12
<1> QED BY <1>8, <1>9, <1>10, <1>11 DEF Alone

(* A job leaves the batch, added or refused.                                  *)
LEMMA TakenAlone ==
    ASSUME OutboxInv, Alone, NEW d \in Dispatcher, \A e \in Dispatcher : e = d,
           NEW id \in JobId, NEW phase, TakeFromBatch(d, id, phase), UNCHANGED rows,
           \A i \in JobId \ {id} : jobs'[i] = jobs[i],
           phase = "error" => jobs'[id] = jobs[id]
    PROVE  Alone'
<1> USE DEF OutboxInv, OtherTypes
<1>1. /\ dispatching'[d].todo = dispatching[d].todo \ {id} /\ dispatching'[d].at = id
      /\ dispatching'[d].phase = phase /\ id \in dispatching[d].todo
      /\ dispatching[d].phase = "ready"
  BY DEF TakeFromBatch
<1>2. dispatching[d].at = NoRow /\ \A x \in JobId : x # NoRow
  BY <1>1, JobIdParts DEF Batch, NoRow
<1>3. \A x \in JobId : x \in Wanted' <=> x \in Wanted
  BY <1>1, <1>2, OneBatch
<1>4. \A x \in dispatching[d].todo : x \in JobId
  BY DEF Batch
<1>5. \A x \in Todo' : jobs'[x].state = "none"
  BY <1>1, <1>4, OneBatch DEF Alone
<1>6. phase = "error" => jobs'[id].state = "none"
  BY <1>1, OneBatch DEF Alone
<1>7. \A n : Now(n)' = Now(n)
  BY DEF Now
<1>8. \A n \in Notification : Now(n) \in JobId
  BY DEF Now, JobId, Row
<1>9. \A e \in Dispatcher :
         /\ dispatching'[e].phase = "error" => jobs'[dispatching'[e].at].state = "none"
         /\ dispatching'[e].at \notin dispatching'[e].todo
  BY <1>1, <1>6
<1>10. \A i \in JobId : i \in Wanted' => i = Now(i[1])' \/ rows'[i[1]].dispatch = "pending"
  BY <1>3, <1>7 DEF Alone
<1>11. \A n \in Notification :
          rows'[n].status = "pending" /\ rows'[n].dispatch = "dispatching" => Now(n)' \in Wanted'
  BY <1>3, <1>7, <1>8 DEF Alone
<1> QED BY <1>5, <1>9, <1>10, <1>11 DEF Alone

(* The row at hand is marked, whatever it is marked with.                     *)
LEMMA MarkedAlone ==
    ASSUME OutboxInv, Alone, NEW d \in Dispatcher, \A e \in Dispatcher : e = d,
           RowDone(d), dispatching[d].phase # "ready", UNCHANGED jobs,
           NEW mark \in {"pending", "dispatched"}, NEW job,
           \/ rows' = rows
                /\ (rows[dispatching[d].at[1]].dispatch = "pending"
                    \/ rows[dispatching[d].at[1]].status # "pending")
           \/ /\ rows' = [rows EXCEPT ![dispatching[d].at[1]] =
                             [@ EXCEPT !.dispatch = mark, !.dispatchJob = job]]
              /\ mark = "dispatched" => rows[dispatching[d].at[1]].dispatch # "pending"
    PROVE  Alone'
<1> USE DEF OutboxInv, OtherTypes
<1> DEFINE id == dispatching[d].at
           k == id[1]
           row == [rows[k] EXCEPT !.dispatch = mark, !.dispatchJob = job]
<1>1. dispatching[d] \in Batch
  OBVIOUS
<1>2. /\ dispatching'[d].todo = dispatching[d].todo /\ dispatching'[d].at = NoRow
      /\ dispatching'[d].phase = "ready"
  BY <1>1 DEF RowDone, Batch
<1>3. id \in JobId /\ \A x \in JobId : x # NoRow /\ x[1] \in Notification
  BY <1>1, JobIdParts DEF Batch, NoRow
<1>4. id \notin dispatching[d].todo
  BY DEF Alone
<1>5. \A x \in JobId : x \in Wanted' <=> x \in Wanted /\ x # id
  BY <1>2, <1>3, <1>4, OneBatch
<1>6. NoRow \notin dispatching[d].todo
  BY <1>1, <1>3 DEF Batch
<1>7. k \in Notification /\ rows[k] \in Row
  BY <1>3
<1>8. row.dispatch = mark /\ row.manual = rows[k].manual /\ row.status = rows[k].status
  BY <1>7 DEF Row
<1>9. \/ rows' = rows /\ (rows[k].dispatch = "pending" \/ rows[k].status # "pending")
      \/ /\ rows' = [rows EXCEPT ![k] = row]
         /\ mark = "dispatched" => rows[k].dispatch # "pending"
  OBVIOUS
<1> HIDE DEF row, k
<1>10. /\ \A n \in Notification \ {k} : rows'[n] = rows[n]
       /\ rows'[k].manual = rows[k].manual
       /\ rows'[k].status = "pending" => rows'[k].dispatch # "dispatching"
       /\ rows[k].dispatch = "pending" => rows'[k].dispatch = "pending"
  <2>1. CASE rows' = rows
    BY <1>7, <1>8, <1>9, <2>1
  <2>2. CASE rows' = [rows EXCEPT ![k] = row] /\ (mark = "dispatched" => rows[k].dispatch # "pending")
    <3>1. rows'[k] = row /\ \A n \in Notification \ {k} : rows'[n] = rows[n]
      BY <1>7, <2>2
    <3> QED BY <1>8, <2>2, <3>1
  <2> QED BY <1>9, <2>1, <2>2
<1>11. \A n \in Notification : Now(n)' = Now(n) /\ Now(n) \in JobId
  BY <1>7, <1>10 DEF Now, JobId, Row
<1>12. \A x \in Todo' : jobs'[x].state = "none"
  BY <1>2, OneBatch DEF Alone
<1>13. \A x \in JobId :
          x \in Wanted' => x = Now(x[1])' \/ rows'[x[1]].dispatch = "pending"
  <2> SUFFICES ASSUME NEW x \in JobId, x \in Wanted', x # Now(x[1])'
               PROVE  rows'[x[1]].dispatch = "pending"
    OBVIOUS
  <2>1. rows[x[1]].dispatch = "pending" /\ x[1] \in Notification
    BY <1>3, <1>5, <1>11 DEF Alone
  <2> QED BY <1>10, <2>1
<1>14. ASSUME NEW n \in Notification, rows'[n].status = "pending",
              rows'[n].dispatch = "dispatching"
       PROVE  Now(n)' \in Wanted'
  <2>1. n # k /\ rows'[n] = rows[n]
    BY <1>10, <1>14
  <2>2. Now(n) \in Wanted
    BY <1>14, <2>1 DEF Alone
  <2>3. Now(n) # id
    BY <2>1 DEF Now, k
  <2> QED BY <1>5, <1>11, <2>2, <2>3
<1>15. \A e \in Dispatcher : /\ dispatching'[e].phase # "error"
                              /\ dispatching'[e].at \notin dispatching'[e].todo
  BY <1>2, <1>6
<1> QED BY <1>12, <1>13, <1>14, <1>15 DEF Alone

LEMMA EveryStepAlone ==
    ASSUME MildFaults
    PROVE  OutboxInv /\ Held /\ WayInv /\ AloneInv /\ [Next]_vars => AloneInv'
<1> SUFFICES ASSUME OutboxInv, Held, WayInv, Alone, "outage" \in Fault, [Next]_vars
             PROVE  Alone'
  BY DEF AloneInv
<1> USE DEF OutboxInv
<1>1. CASE UNCHANGED vars
  BY <1>1, AloneRests DEF vars
<1>2. CASE TicketStep \/ SetPreference \/ OperatorStep
  BY <1>2, OutsideAlone
<1>3. ASSUME NEW d \in Dispatcher, \/ \E batch \in SUBSET Notification : ClaimForDispatch(d, batch)
                                  \/ DispatcherStep(d) \/ DispatcherFault(d)
      PROVE  Alone'
  <2>1. \A e \in Dispatcher : e = d
    BY DEF MildFaults
  <2>2. CASE \E batch \in SUBSET Notification : ClaimForDispatch(d, batch)
    BY <2>1, <2>2, ClaimAlone
  <2>3. ASSUME NEW id \in JobId, AddJob(d, id) PROVE Alone'
    BY <2>1, <2>3, TakenAlone DEF AddJob, JobTypes
  <2>4. ASSUME NEW id \in JobId, AddFails(d, id) PROVE Alone'
    <3>1. UNCHANGED jobs
      BY <2>4 DEF AddFails, Suffers, MildFaults
    <3> QED BY <2>1, <2>4, <3>1, TakenAlone DEF AddFails
  <2>5. CASE MarkDispatched(d)
    <3> DEFINE k == dispatching[d].at[1]
    <3>1. /\ RowDone(d) /\ dispatching[d].phase # "ready" /\ UNCHANGED jobs
          /\ rows' = IF rows[k].dispatch = "pending" THEN rows
                     ELSE [rows EXCEPT ![k].dispatch = "dispatched",
                                       ![k].dispatchJob = dispatching[d].at[2]]
      BY <2>5, Zenon DEF MarkDispatched
    <3>2. [rows EXCEPT ![k].dispatch = "dispatched", ![k].dispatchJob = dispatching[d].at[2]]
             = [rows EXCEPT ![k] = [@ EXCEPT !.dispatch = "dispatched",
                                             !.dispatchJob = dispatching[d].at[2]]]
      BY Zenon
    <3> QED BY <2>1, <3>1, <3>2, MarkedAlone
  <2>6. CASE MarkDispatchRetry(d)
    <3> DEFINE k == dispatching[d].at[1]
    <3>1. /\ RowDone(d) /\ dispatching[d].phase # "ready" /\ UNCHANGED jobs
          /\ rows' = IF rows[k].status # "pending" THEN rows
                     ELSE [rows EXCEPT ![k].dispatch = "pending"]
      BY <2>6, Zenon DEF MarkDispatchRetry
    <3>2. [rows EXCEPT ![k].dispatch = "pending"]
             = [rows EXCEPT ![k] = [@ EXCEPT !.dispatch = "pending",
                                             !.dispatchJob = rows[k].dispatchJob]]
      OBVIOUS
    <3> QED BY <2>1, <3>1, <3>2, MarkedAlone
  <2>7. ~ MarkDispatchedFails(d) /\ ~ DispatcherDies(d)
    BY DEF MarkDispatchedFails, DispatcherDies, Suffers, MildFaults
  <2> QED BY <1>3, <2>2, <2>3, <2>4, <2>5, <2>6, <2>7 DEF DispatcherStep, DispatcherFault
<1>4. ASSUME NEW id \in JobId, JobStep(id) PROVE Alone'
  BY <1>4, JobStepAlone
<1>5. ASSUME NEW r \in Run, RunStep(r) \/ RunFault(r) PROVE Alone'
  BY <1>5, RunAlone
<1> QED BY <1>1, <1>2, <1>3, <1>4, <1>5 DEF Next

LEMMA InitialAlone == Init => AloneInv
<1> SUFFICES ASSUME Init PROVE Alone
  BY DEF AloneInv
<1>1. \A d \in Dispatcher : dispatching[d].todo = {} /\ dispatching[d].at = NoRow
                            /\ dispatching[d].phase = "ready"
  BY DEF Init, IdleBatch
<1>2. \A n \in Notification : rows[n].dispatch = "pending"
  BY DEF Init, AbsentRow
<1>3. \A id \in JobId : id[1] \in Notification
  BY JobIdParts
<1> QED BY <1>1, <1>2, <1>3 DEF Alone, Todo

(* Where statements work, no worker dies and no delivery outlasts its job, a  *)
(* notice that is due has a way forward.  Either dispatchers may die and run  *)
(* side by side, while no operator starts a notice anew; or Redis may refuse  *)
(* jobs, any number of times and manual retries included, as long as one      *)
(* dispatcher runs at a time.  Beyond these faults the code promises no such  *)
(* thing, and no such thing holds (claimForDispatch, markDispatched,          *)
(* markDispatchRetry, claimForDelivery, markRetry).                           *)
THEOREM NoticesRecoverable ==
    ASSUME MildFaults
    PROVE  Spec => []Recoverable
<1>1. "timeout" \notin Fault
  BY DEF MildFaults
<1>2. Spec => [](OutboxInv /\ Held)
  BY <1>1, HeldInvariant
<1>3. OutboxInv /\ Held /\ WayInv /\ AloneInv /\ [Next]_vars => WayInv'
  BY EveryStepWay
<1>4. OutboxInv /\ Held /\ WayInv /\ AloneInv /\ [Next]_vars => AloneInv'
  BY EveryStepAlone
<1> QED BY <1>2, <1>3, <1>4, InitialWay, InitialAlone, WayRecovers, PTL DEF Spec
=============================================================================
