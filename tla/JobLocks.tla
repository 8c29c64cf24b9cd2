------------------------------ MODULE JobLocks ------------------------------
(* The scheduler: API processes that run the same jobs on timers, the         *)
(* advisory lock that keeps a job from running twice, and the connection pool *)
(* that the locks, the runs and the HTTP requests of a process share.         *)
(*                                                                            *)
(* A cycle waits for a connection and tries the lock on it; if it gets the    *)
(* lock it records the start, runs the job on a second connection, records    *)
(* the end, unlocks and gives the first connection back.  Each of these is a  *)
(* step: processes, sessions and the server fail in between.                  *)
(*                                                                            *)
(* PostgreSQL and its pool are external: a session that ended still holds     *)
(* its locks until the server notices; a request for a connection waits while *)
(* the pool is used up, at most connectionTimeoutMillis, and is refused once  *)
(* the pool is being closed.                                                  *)
(*                                                                            *)
(* A definition X_Bug (Bug a word for it) is X with a plausible bug in it,    *)
(* used nowhere.                                                              *)
EXTENDS Integers, FiniteSets

CONSTANTS
    Process,        \* API processes
    Job,            \* jobs
    Locked,         \* those that run under their advisory lock
    PoolMax,        \* connections of a process
    MaxRetries,     \* retries of a cycle
    Stopping,       \* BOUND: the processes that may be asked to stop
    Fault,          \* the faults that may happen
    MaxFaults,      \* BOUND: how many of them
    Serving,        \* BOUND: the processes that get HTTP requests
    MaxRequests,    \* BOUND: how many of them a process has under way at once
    MaxCycles       \* BOUND: cycles under way at once, in all processes

(* "die": a process dies. "lose": a connection breaks. "error": a query of the *)
(* lock's own connection fails.                                               *)
FaultKind == {"die", "lose", "error"}
Nobody == "nobody"
Gone   == "gone"        \* a session that ended and that the server still keeps

ASSUME JobAssumption ==
    /\ Locked \subseteq Job /\ IsFiniteSet(Job)
    /\ {Nobody, Gone, "none", "succeeded", "failed"} \cap Process = {}
    /\ Stopping \subseteq Process
    /\ PoolMax \in Nat /\ MaxRetries \in Nat
    /\ MaxFaults \in Nat /\ MaxCycles \in Nat /\ MaxRequests \in Nat
    /\ Fault \subseteq FaultKind

VARIABLES
    mode,       \* per process: whether it is up, and how far its shutdown is
    cycle,      \* per process and job: the cycle in JobRunner.running
    requests,   \* per process: connections in use by HTTP requests
    holder,     \* per job: the process whose session has the lock
    stray,      \* the jobs whose lock stayed with a session after a failed unlock
    runs,       \* per job, in scheduler_job_runs: who runs it, or how it ended
    faults      \* faults so far

vars == <<mode, cycle, requests, holder, stray, runs, faults>>
locks == <<holder, stray>>

(* idle: no cycle.  sleeping: before a retry.  connecting: waiting for the    *)
(* lock's connection.  locking, recording, noting, unlocking: before that     *)
(* query.  starting: the run waits for its connection.  running: it has it.   *)
Stage == {"idle", "sleeping", "connecting", "locking", "recording", "starting",
          "running", "noting", "unlocking"}
Cycle == [at : Stage, attempt : 0 .. MaxRetries,
          ok : BOOLEAN,         \* the attempt has not failed
          lost : BOOLEAN]       \* the lock's connection is broken
Idle  == [at |-> "idle", attempt |-> 0, ok |-> TRUE, lost |-> FALSE]

TypeOK ==
    /\ mode \in [Process -> {"up", "stopping", "closing", "down"}]
    /\ cycle \in [Process -> [Job -> Cycle]]
    /\ requests \in [Process -> 0 .. PoolMax]
    /\ holder \in [Job -> Process \cup {Nobody, Gone}]
    /\ stray \subseteq Job
    /\ runs \in [Job -> Process \cup {"none", "succeeded", "failed"}]
    /\ faults \in 0 .. MaxFaults

Init ==
    /\ mode = [p \in Process |-> "up"]
    /\ cycle = [p \in Process |-> [j \in Job |-> Idle]]
    /\ requests = [p \in Process |-> 0]
    /\ holder = [j \in Job |-> Nobody]
    /\ stray = {}
    /\ runs = [j \in Job |-> "none"]
    /\ faults = 0

At(p, j, stage) == mode[p] # "down" /\ cycle[p][j].at = stage

(* Connections in use.                                                        *)
HasClient(p, j) == /\ j \in Locked
                   /\ cycle[p][j].at \in {"locking", "recording", "starting",
                                          "running", "noting", "unlocking"}
InUse(p) == requests[p]
            + Cardinality({j \in Job : HasClient(p, j)})
            + Cardinality({j \in Job : cycle[p][j].at = "running"})
Available(p) == mode[p] # "closing" /\ InUse(p) < PoolMax

Goto(p, j, stage) == cycle' = [cycle EXCEPT ![p][j].at = stage]
Unfaulty == UNCHANGED <<mode, requests, faults>>

(* A query on the lock's connection fails: the connection is broken, or the   *)
(* server refuses.                                                            *)
QueryFails(p, j) ==
    \/ cycle[p][j].lost /\ UNCHANGED faults
    \/ /\ ~ cycle[p][j].lost
       /\ "error" \in Fault /\ faults < MaxFaults /\ faults' = faults + 1

-----------------------------------------------------------------------------
(* A cycle.                                                                   *)

First(j) == IF j \in Locked THEN "connecting" ELSE "starting"

(* The timer fires; if the previous cycle is still running, it does nothing.  *)
MayTick ==
    Cardinality({c \in Process \X Job : cycle[c[1]][c[2]].at # "idle"}) < MaxCycles
Tick(p, j) ==
    /\ mode[p] = "up" /\ cycle[p][j].at = "idle" /\ MayTick
    /\ cycle' = [cycle EXCEPT ![p][j] = [Idle EXCEPT !.at = First(j)]]
    /\ UNCHANGED <<locks, runs>> /\ Unfaulty

(* The end of an attempt: the end of the cycle, or a retry after a while.     *)
AfterAttempt_OneMore(c, ok) ==
    IF ok \/ c.attempt > MaxRetries THEN Idle
    ELSE [Idle EXCEPT !.at = "sleeping", !.attempt = c.attempt + 1]
AfterAttempt(c, ok) ==
    IF ok \/ c.attempt >= MaxRetries THEN Idle
    ELSE [Idle EXCEPT !.at = "sleeping", !.attempt = c.attempt + 1]
EndAttempt(p, j, ok) == cycle' = [cycle EXCEPT ![p][j] = AfterAttempt(@, ok)]

Retry(p, j) ==
    /\ At(p, j, "sleeping")
    /\ Goto(p, j, First(j))
    /\ UNCHANGED <<locks, runs>> /\ Unfaulty

(* withAdvisoryJobLock.                                                       *)
Connect(p, j) ==
    /\ At(p, j, "connecting") /\ Available(p)
    /\ Goto(p, j, "locking")
    /\ UNCHANGED <<locks, runs>> /\ Unfaulty

TimesOut_Never(p) == mode[p] = "closing"
TimesOut(p) == ~ Available(p)
ConnectFails(p, j) ==
    /\ At(p, j, "connecting") /\ TimesOut(p)
    /\ EndAttempt(p, j, FALSE)
    /\ UNCHANGED <<locks, runs>> /\ Unfaulty

(* pg_try_advisory_xact_lock: the lock ends with the statement.  A session may *)
(* take a lock that it has: if an unlock failed, the pool may hand out that    *)
(* very session, or another.                                                  *)
TryLock_Transaction(p, j) ==
    /\ At(p, j, "locking") /\ ~ cycle[p][j].lost
    /\ IF holder[j] = Nobody THEN Goto(p, j, "recording") ELSE EndAttempt(p, j, TRUE)
    /\ UNCHANGED <<locks, runs>> /\ Unfaulty
TryLock(p, j) ==
    /\ At(p, j, "locking") /\ ~ cycle[p][j].lost
    /\ \/ holder[j] = Nobody /\ holder' = [holder EXCEPT ![j] = p]
                             /\ Goto(p, j, "recording")
       \/ holder[j] = p /\ UNCHANGED holder /\ Goto(p, j, "recording")
       \/ holder[j] # Nobody /\ UNCHANGED holder /\ EndAttempt(p, j, TRUE)
    /\ UNCHANGED <<stray, runs>> /\ Unfaulty

(* The lock was not tried: there is nothing to unlock.                        *)
TryLockFails(p, j) ==
    /\ At(p, j, "locking") /\ QueryFails(p, j)
    /\ EndAttempt(p, j, FALSE)
    /\ UNCHANGED <<mode, requests, locks, runs>>

RecordStart(p, j) ==
    /\ At(p, j, "recording") /\ ~ cycle[p][j].lost
    /\ runs' = [runs EXCEPT ![j] = p]
    /\ Goto(p, j, "starting")
    /\ UNCHANGED locks /\ Unfaulty

RecordStartFails_Ignored(p, j) ==
    /\ At(p, j, "recording") /\ QueryFails(p, j)
    /\ Goto(p, j, "starting")
    /\ UNCHANGED <<mode, requests, locks, runs>>
RecordStartFails(p, j) ==
    /\ At(p, j, "recording") /\ QueryFails(p, j)
    /\ cycle' = [cycle EXCEPT ![p][j].at = "unlocking", ![p][j].ok = FALSE]
    /\ UNCHANGED <<mode, requests, locks, runs>>

(* run(): it gets a connection, uses it, and is done or throws.               *)
RunStarts(p, j) ==
    /\ At(p, j, "starting") /\ Available(p)
    /\ Goto(p, j, "running")
    /\ UNCHANGED <<locks, runs>> /\ Unfaulty

AfterRun(p, j, ok) ==
    IF j \in Locked
    THEN cycle' = [cycle EXCEPT ![p][j].at = "noting", ![p][j].ok = ok]
    ELSE EndAttempt(p, j, ok)

RunGetsNoConnection(p, j) ==
    /\ At(p, j, "starting") /\ TimesOut(p)
    /\ AfterRun(p, j, FALSE)
    /\ UNCHANGED <<locks, runs>> /\ Unfaulty

RunEnds(p, j, ok) ==
    /\ At(p, j, "running")
    /\ AfterRun(p, j, ok)
    /\ UNCHANGED <<locks, runs>> /\ Unfaulty

NoteEnd(p, j) ==
    /\ At(p, j, "noting") /\ ~ cycle[p][j].lost
    /\ runs' = [runs EXCEPT ![j] = IF cycle[p][j].ok THEN "succeeded" ELSE "failed"]
    /\ Goto(p, j, "unlocking")
    /\ UNCHANGED locks /\ Unfaulty

(* If a success cannot be noted, that is a failure, to be noted as one.       *)
NoteEndFails(p, j) ==
    /\ At(p, j, "noting") /\ QueryFails(p, j)
    /\ cycle' = [cycle EXCEPT ![p][j].at = IF cycle[p][j].ok THEN "noting" ELSE "unlocking",
                              ![p][j].ok = FALSE]
    /\ UNCHANGED <<mode, requests, locks, runs>>

(* finally: unlock and release the connection.  A session counts how often it *)
(* took a lock: what a failed unlock left stays with it.                      *)
Unlocked_AfterSuccess(p, j) == IF holder[j] = p /\ j \notin stray /\ cycle[p][j].ok
                               THEN [holder EXCEPT ![j] = Nobody] ELSE holder
Unlocked(p, j) == IF holder[j] = p /\ j \notin stray
                  THEN [holder EXCEPT ![j] = Nobody] ELSE holder
Unlock(p, j) ==
    /\ At(p, j, "unlocking")
    /\ holder' = Unlocked(p, j)
    /\ EndAttempt(p, j, cycle[p][j].ok)
    /\ UNCHANGED <<stray, runs>> /\ Unfaulty

(* The unlock fails on a session that lives: the error is swallowed, and the  *)
(* session goes back to the pool with the lock.                               *)
UnlockFails(p, j) ==
    /\ At(p, j, "unlocking") /\ ~ cycle[p][j].lost /\ QueryFails(p, j)
    /\ stray' = stray \cup {j}
    /\ EndAttempt(p, j, cycle[p][j].ok)
    /\ UNCHANGED <<mode, requests, holder, runs>>

-----------------------------------------------------------------------------
(* HTTP requests.                                                             *)

RequestConnects(p) ==
    /\ mode[p] \in {"up", "stopping"} /\ Available(p)
    /\ p \in Serving /\ requests[p] < MaxRequests
    /\ requests' = [requests EXCEPT ![p] = @ + 1]
    /\ UNCHANGED <<mode, cycle, locks, runs, faults>>

RequestEnds(p) ==
    /\ requests[p] > 0
    /\ requests' = [requests EXCEPT ![p] = @ - 1]
    /\ UNCHANGED <<mode, cycle, locks, runs, faults>>

-----------------------------------------------------------------------------
(* The shutdown on a signal: the timers are cleared; when the last request is *)
(* answered the pool is closed; when the pool is empty the process exits.     *)

Stop(p) ==
    /\ mode[p] = "up" /\ p \in Stopping
    /\ mode' = [mode EXCEPT ![p] = "stopping"]
    /\ UNCHANGED <<cycle, requests, locks, runs, faults>>

ClosePool(p) ==
    /\ mode[p] = "stopping" /\ requests[p] = 0
    /\ mode' = [mode EXCEPT ![p] = "closing"]
    /\ UNCHANGED <<cycle, requests, locks, runs, faults>>

(* Whatever process p had is gone.                                            *)
Down(p) ==
    /\ mode' = [mode EXCEPT ![p] = "down"]
    /\ cycle' = [cycle EXCEPT ![p] = [j \in Job |-> Idle]]
    /\ requests' = [requests EXCEPT ![p] = 0]
    /\ holder' = [j \in Job |-> IF holder[j] = p THEN Gone ELSE holder[j]]
    /\ stray' = {j \in stray : holder[j] # p}
    /\ UNCHANGED runs

Exit(p) ==
    /\ mode[p] = "closing" /\ InUse(p) = 0
    /\ Down(p) /\ UNCHANGED faults

Restart(p) ==
    /\ mode[p] = "down"
    /\ mode' = [mode EXCEPT ![p] = "up"]
    /\ UNCHANGED <<cycle, requests, locks, runs, faults>>

-----------------------------------------------------------------------------
(* Faults.                                                                    *)

Die(p) ==
    /\ "die" \in Fault /\ faults < MaxFaults /\ mode[p] # "down"
    /\ Down(p) /\ faults' = faults + 1

SessionEnds(j) == holder' = [holder EXCEPT ![j] = Gone] /\ stray' = stray \ {j}

LoseConnection(p, j) ==
    /\ "lose" \in Fault /\ faults < MaxFaults
    /\ mode[p] # "down" /\ HasClient(p, j) /\ ~ cycle[p][j].lost
    /\ cycle' = [cycle EXCEPT ![p][j].lost = TRUE]
    /\ IF cycle[p][j].at = "locking" THEN UNCHANGED locks ELSE SessionEnds(j)
    /\ faults' = faults + 1
    /\ UNCHANGED <<mode, requests, runs>>

(* The session with a stray lock of j ends: the pool closes it when it was    *)
(* idle for long (idleTimeoutMillis) or with itself, or it breaks.            *)
StrayEnds(p, j) ==
    /\ j \in stray /\ holder[j] = p
    /\ cycle[p][j].at \in {"idle", "sleeping", "connecting", "locking"}
    /\ SessionEnds(j)
    /\ UNCHANGED <<mode, cycle, requests, runs, faults>>

(* PostgreSQL ends a session whose client is gone, and with it its locks.     *)
Reap(j) ==
    /\ holder[j] = Gone
    /\ holder' = [holder EXCEPT ![j] = Nobody]
    /\ UNCHANGED <<mode, cycle, requests, stray, runs, faults>>

-----------------------------------------------------------------------------

CycleStep(p, j) ==
    \/ Retry(p, j)
    \/ Connect(p, j) \/ ConnectFails(p, j)
    \/ TryLock(p, j) \/ TryLockFails(p, j)
    \/ RecordStart(p, j) \/ RecordStartFails(p, j)
    \/ RunStarts(p, j) \/ RunGetsNoConnection(p, j)
    \/ \E ok \in BOOLEAN : RunEnds(p, j, ok)
    \/ NoteEnd(p, j) \/ NoteEndFails(p, j)
    \/ Unlock(p, j) \/ UnlockFails(p, j)

Next ==
    \/ \E p \in Process :
         \/ \E j \in Job : \/ Tick(p, j) \/ CycleStep(p, j)
                      \/ LoseConnection(p, j) \/ StrayEnds(p, j)
         \/ RequestConnects(p) \/ RequestEnds(p)
         \/ Stop(p) \/ ClosePool(p) \/ Exit(p) \/ Restart(p)
         \/ Die(p)
    \/ \E j \in Job : Reap(j)

Spec == Init /\ [][Next]_vars

(* A cycle that can go on does: its queries are answered, its timers fire,    *)
(* and the wait for a connection is bounded.  Nothing is assumed of requests, *)
(* of the pool or of the server.                                              *)
FairSpec == Spec /\ \A p \in Process, j \in Job : WF_vars(CycleStep(p, j))

-----------------------------------------------------------------------------
(* Properties.                                                                *)

(* A run whose lock's connection has broken cannot know; the others can.      *)
Runs(p, j) == cycle[p][j].at \in {"starting", "running"} /\ ~ cycle[p][j].lost

(* A job under its lock is run by one process at a time ("cross-process       *)
(* ownership", 11_SCALABILITY_BASELINE.md), also while processes stop, die    *)
(* and come back, and the server is late to notice.  A run that outlives the  *)
(* connection of its lock is beyond what the lock can promise.                *)
OneRunPerJob ==
    \A j \in Locked, p, q \in Process : Runs(p, j) /\ Runs(q, j) => p = q

(* /health shows who runs a job: while a run is under way its row says so, and *)
(* names its process, whatever a process has just finished, failed or lost.   *)
RunIsVisible ==
    \A p \in Process, j \in Locked :
       Runs(p, j) => runs[j] = p

(* No lock leaks but by an unlock that failed: a process that has the lock of a *)
(* job is up and in a cycle of it that will come to the unlock, or the unlock *)
(* of an earlier cycle failed; and each failed unlock leaves one lock at most.*)
LockHasCycle ==
    /\ \A p \in Process, j \in Job :
         holder[j] = p => /\ mode[p] # "down"
                          /\ \/ /\ ~ cycle[p][j].lost
                                /\ cycle[p][j].at \in {"recording", "starting", "running",
                                                       "noting", "unlocking"}
                             \/ j \in stray
    /\ Cardinality(stray) <= faults

(* Jobs that hold the whole pool and wait for more of it do not wait for ever: *)
(* a cycle ends, and its timer may start the next one.                        *)
EveryCycleEnds ==
    \A p \in Process, j \in Job : []<>(cycle[p][j].at = "idle")
=============================================================================
