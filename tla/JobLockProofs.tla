---------------------------- MODULE JobLockProofs ----------------------------
(* Proofs about JobLocks, for any number of processes, jobs, connections,     *)
(* retries and faults.                                                        *)
(*                                                                            *)
(* What carries them is that the lock and the cycles agree: a process has the *)
(* lock of a job while a cycle of it, whose connection is whole, is between   *)
(* the lock and the unlock, and at no other time unless an unlock failed      *)
(* (LockInv).                                                                 *)
EXTENDS JobLocks, FiniteSetTheorems, TLAPS

CycleType  == cycle \in [Process -> [Job -> Cycle]]
ModeType   == mode \in [Process -> {"up", "stopping", "closing", "down"}]
LockType   == /\ holder \in [Job -> Process \cup {Nobody, Gone}]
              /\ stray \subseteq Job
              /\ runs \in [Job -> Process \cup {"none", "succeeded", "failed"}]
BoundTypes == /\ requests \in [Process -> 0 .. PoolMax]
              /\ faults \in 0 .. MaxFaults

LEMMA TypeParts == TypeOK <=> CycleType /\ ModeType /\ LockType /\ BoundTypes
BY DEF TypeOK, CycleType, ModeType, LockType, BoundTypes

(* The stages under the lock, and those that a job without one never reaches. *)
UnderLock == {"recording", "starting", "running", "noting", "unlocking"}
LockOnly  == {"connecting", "locking", "recording", "noting", "unlocking"}

Claims(j, c)  == j \in Locked /\ c.at \in UnderLock /\ ~ c.lost
OnItsPath(j, c) == c.at \in LockOnly => j \in Locked

LockInv ==
    /\ \A p \in Process, j \in Job : OnItsPath(j, cycle[p][j])
    /\ \A p \in Process, j \in Job : Claims(j, cycle[p][j]) => holder[j] = p
    /\ \A p \in Process, j \in Job :
         holder[j] = p => mode[p] # "down" /\ (Claims(j, cycle[p][j]) \/ j \in stray)
    /\ \A p \in Process, j \in Job : mode[p] = "down" => cycle[p][j].at = "idle"

-----------------------------------------------------------------------------
(* How the actions change the cycles.                                         *)

(* Only the cycle of job j in process p changes; it becomes c.                *)
OnlyCycle(p, j, c) ==
    \A q \in Process, k \in Job :
       cycle'[q][k] = IF q = p /\ k = j THEN c ELSE cycle[q][k]

LEMMA CycleChanges ==
    ASSUME CycleType, NEW p \in Process, NEW j \in Job, NEW c \in Cycle,
           cycle' = [cycle EXCEPT ![p][j] = c]
    PROVE  CycleType' /\ OnlyCycle(p, j, c)
BY DEF CycleType, OnlyCycle

LEMMA GotoChanges ==
    ASSUME CycleType, NEW p \in Process, NEW j \in Job, NEW stage \in Stage,
           Goto(p, j, stage)
    PROVE  /\ CycleType'
           /\ \E c \in Cycle : /\ OnlyCycle(p, j, c) /\ c.at = stage
                               /\ c.lost = cycle[p][j].lost /\ c.ok = cycle[p][j].ok
<1> DEFINE c == [cycle[p][j] EXCEPT !.at = stage]
<1>1. cycle' = [cycle EXCEPT ![p][j] = c]
  BY DEF Goto, CycleType
<1>2. /\ c \in Cycle /\ c.at = stage
      /\ c.lost = cycle[p][j].lost /\ c.ok = cycle[p][j].ok
  BY DEF CycleType, Cycle
<1> HIDE DEF c
<1> QED BY <1>1, <1>2, CycleChanges

LEMMA StageChanges ==
    ASSUME CycleType, NEW p \in Process, NEW j \in Job, NEW stage \in Stage,
           NEW ok \in BOOLEAN,
           cycle' = [cycle EXCEPT ![p][j].at = stage, ![p][j].ok = ok]
    PROVE  /\ CycleType'
           /\ \E c \in Cycle : /\ OnlyCycle(p, j, c) /\ c.at = stage
                               /\ c.lost = cycle[p][j].lost
<1> DEFINE c == [cycle[p][j] EXCEPT !.at = stage, !.ok = ok]
<1>1. cycle' = [cycle EXCEPT ![p][j] = c]
  BY DEF CycleType
<1>2. cycle[p][j] \in Cycle
  BY DEF CycleType
<1>3. c \in Cycle /\ c.at = stage /\ c.lost = cycle[p][j].lost
  BY <1>2 DEF Cycle
<1> HIDE DEF c
<1>4. CycleType' /\ OnlyCycle(p, j, c)
  BY <1>1, <1>3, CycleChanges
<1> QED BY <1>3, <1>4

LEMMA EndChanges ==
    ASSUME CycleType, NEW p \in Process, NEW j \in Job, NEW ok \in BOOLEAN,
           EndAttempt(p, j, ok)
    PROVE  /\ CycleType'
           /\ \E c \in Cycle : OnlyCycle(p, j, c) /\ c.at \in {"idle", "sleeping"}
<1> DEFINE c == AfterAttempt(cycle[p][j], ok)
<1>1. cycle' = [cycle EXCEPT ![p][j] = c]
  BY DEF EndAttempt, CycleType
<1>2. cycle[p][j].attempt \in 0 .. MaxRetries
  BY DEF CycleType, Cycle
<1>3. Idle \in Cycle /\ Idle.at = "idle"
  BY JobAssumption DEF Idle, Cycle, Stage
<1>4. c \in Cycle /\ c.at \in {"idle", "sleeping"}
  <2>1. CASE ok \/ cycle[p][j].attempt >= MaxRetries
    BY <2>1, <1>3 DEF AfterAttempt
  <2>2. CASE ~ (ok \/ cycle[p][j].attempt >= MaxRetries)
    <3>1. cycle[p][j].attempt + 1 \in 0 .. MaxRetries
      BY <2>2, <1>2, JobAssumption
    <3>2. c = [Idle EXCEPT !.at = "sleeping", !.attempt = cycle[p][j].attempt + 1]
      BY <2>2 DEF AfterAttempt
    <3> QED BY <3>1, <3>2, <1>3 DEF Idle, Cycle, Stage
  <2> QED BY <2>1, <2>2
<1> HIDE DEF c
<1> QED BY <1>1, <1>4, CycleChanges

(* What the rest of a step has to show when only the cycle of job j in p      *)
(* changes: the lock of j, if it is touched, follows that cycle.              *)
LEMMA LockFollows ==
    ASSUME LockInv, LockType, NEW p \in Process, NEW j \in Job, NEW c \in Cycle,
           OnlyCycle(p, j, c), OnItsPath(j, c), mode' = mode, mode[p] # "down",
           \A k \in Job \ {j} : holder'[k] = holder[k] /\ (k \in stray => k \in stray'),
           \A q \in Process \ {p} :
              holder'[j] = q <=> holder[j] = q,
           (\E q \in Process \ {p} : holder[j] = q) => (j \in stray => j \in stray'),
           Claims(j, c) => holder'[j] = p,
           holder'[j] = p => Claims(j, c) \/ j \in stray'
    PROVE  LockInv'
<1>1. \A q \in Process, k \in Job : OnItsPath(k, cycle'[q][k])
  BY DEF LockInv, OnlyCycle
<1>2. ASSUME NEW q \in Process, NEW k \in Job
      PROVE  /\ Claims(k, cycle'[q][k]) => holder'[k] = q
             /\ holder'[k] = q => /\ mode'[q] # "down"
                                  /\ Claims(k, cycle'[q][k]) \/ k \in stray'
  <2>1. CASE q = p /\ k = j
    BY <2>1 DEF OnlyCycle
  <2>2. CASE ~ (q = p /\ k = j)
    <3>1. cycle'[q][k] = cycle[q][k]
      BY <2>2 DEF OnlyCycle
    <3>2. holder'[k] = q <=> holder[k] = q
      BY <2>2
    <3>3. holder[k] = q => (k \in stray => k \in stray')
      BY <2>2
    <3>4. /\ Claims(k, cycle[q][k]) => holder[k] = q
          /\ holder[k] = q => mode[q] # "down" /\ (Claims(k, cycle[q][k]) \/ k \in stray)
      BY DEF LockInv
    <3> QED BY <3>1, <3>2, <3>3, <3>4
  <2> QED BY <2>1, <2>2
<1>3. \A q \in Process, k \in Job : mode'[q] = "down" => cycle'[q][k].at = "idle"
  BY DEF LockInv, OnlyCycle
<1> QED BY <1>1, <1>2, <1>3 DEF LockInv, Claims, OnItsPath

LEMMA LockStays ==
    ASSUME LockInv, LockType, NEW p \in Process, NEW j \in Job, NEW c \in Cycle,
           OnlyCycle(p, j, c), OnItsPath(j, c), mode' = mode, mode[p] # "down",
           UNCHANGED locks, Claims(j, c) <=> Claims(j, cycle[p][j])
    PROVE  LockInv'
<1>1. /\ Claims(j, cycle[p][j]) => holder[j] = p
      /\ holder[j] = p => Claims(j, cycle[p][j]) \/ j \in stray
  BY DEF LockInv
<1>2. holder' = holder /\ stray' = stray
  BY DEF locks
<1> QED BY <1>1, <1>2, LockFollows

-----------------------------------------------------------------------------
(* The steps of a cycle.                                                      *)

(* One that only moves on keeps its lock if both stages are under it, or none.*)
LEMMA MoveKeepsLock ==
    ASSUME LockInv, CycleType, LockType, NEW p \in Process, NEW j \in Job,
           NEW from \in Stage, NEW stage \in Stage,
           At(p, j, from), Goto(p, j, stage), mode' = mode, UNCHANGED locks,
           stage \in LockOnly => j \in Locked,
           j \in Locked => (from \in UnderLock <=> stage \in UnderLock)
    PROVE  CycleType' /\ LockInv'
<1>1. PICK c \in Cycle : /\ OnlyCycle(p, j, c) /\ c.at = stage
                         /\ c.lost = cycle[p][j].lost
  BY GotoChanges
<1>2. CycleType'
  BY GotoChanges
<1>3. OnItsPath(j, c) /\ (Claims(j, c) <=> Claims(j, cycle[p][j]))
  BY <1>1 DEF OnItsPath, Claims, At
<1> QED BY <1>1, <1>2, <1>3, LockStays DEF At

(* One that ends an attempt had no lock.                                      *)
LEMMA EndKeepsLock ==
    ASSUME LockInv, CycleType, LockType, NEW p \in Process, NEW j \in Job,
           NEW ok \in BOOLEAN, EndAttempt(p, j, ok), mode' = mode, UNCHANGED locks,
           mode[p] # "down", ~ Claims(j, cycle[p][j])
    PROVE  CycleType' /\ LockInv'
<1>1. PICK c \in Cycle : OnlyCycle(p, j, c) /\ c.at \in {"idle", "sleeping"}
  BY EndChanges
<1>2. OnItsPath(j, c) /\ ~ Claims(j, c)
  BY <1>1 DEF OnItsPath, Claims, LockOnly, UnderLock
<1> QED BY <1>1, <1>2, LockStays, EndChanges

(* One that changes its stage and whether it went well.                       *)
LEMMA StageKeepsLock ==
    ASSUME LockInv, CycleType, LockType, NEW p \in Process, NEW j \in Job,
           NEW from \in UnderLock, NEW stage \in UnderLock, NEW ok \in BOOLEAN,
           At(p, j, from), mode' = mode, UNCHANGED locks, j \in Locked,
           cycle' = [cycle EXCEPT ![p][j].at = stage, ![p][j].ok = ok]
    PROVE  CycleType' /\ LockInv'
<1>0. stage \in Stage
  BY DEF UnderLock, Stage
<1>1. PICK c \in Cycle : /\ OnlyCycle(p, j, c) /\ c.at = stage
                         /\ c.lost = cycle[p][j].lost
  BY <1>0, StageChanges
<1>2. CycleType'
  BY <1>0, StageChanges
<1>3. OnItsPath(j, c) /\ (Claims(j, c) <=> Claims(j, cycle[p][j]))
  BY <1>1 DEF OnItsPath, Claims, At
<1> QED BY <1>1, <1>2, <1>3, LockStays DEF At

LEMMA TickKeepsLock ==
    ASSUME LockInv, CycleType, LockType, NEW p \in Process, NEW j \in Job, Tick(p, j)
    PROVE  CycleType' /\ LockInv'
<1> DEFINE c == [Idle EXCEPT !.at = First(j)]
<1>0. Idle \in Cycle /\ First(j) \in Stage
  BY JobAssumption DEF Idle, Cycle, Stage, First
<1>1. c \in Cycle /\ c.at = First(j)
  BY <1>0 DEF Cycle
<1>2. cycle' = [cycle EXCEPT ![p][j] = c]
  BY DEF Tick
<1> HIDE DEF c
<1>3. CycleType' /\ OnlyCycle(p, j, c)
  BY <1>1, <1>2, CycleChanges
<1>4. /\ OnItsPath(j, c) /\ ~ Claims(j, c)
      /\ ~ Claims(j, cycle[p][j])
  BY <1>1 DEF OnItsPath, Claims, First, LockOnly, UnderLock, Tick
<1> QED BY <1>1, <1>3, <1>4, LockStays DEF Tick, Unfaulty

LEMMA CycleStepKeepsLock ==
    ASSUME LockInv, CycleType, LockType, NEW p \in Process, NEW j \in Job, CycleStep(p, j)
    PROVE  CycleType' /\ LockInv'
<1> USE DEF Unfaulty, Stage, UnderLock, LockOnly
<1>0. OnItsPath(j, cycle[p][j]) /\ cycle[p][j] \in Cycle
  BY DEF LockInv, CycleType
<1>1. CASE Retry(p, j)
  BY <1>1, MoveKeepsLock DEF Retry, First
<1>2. CASE Connect(p, j)
  BY <1>2, <1>0, MoveKeepsLock DEF Connect, OnItsPath, At
<1>3. CASE ConnectFails(p, j)
  BY <1>3, EndKeepsLock DEF ConnectFails, At, Claims
<1>4. CASE TryLock(p, j)
  <2>1. CASE holder[j] \in {Nobody, p} /\ holder'[j] = p /\ Goto(p, j, "recording")
    <3>1. PICK c \in Cycle : /\ OnlyCycle(p, j, c) /\ c.at = "recording"
                             /\ c.lost = cycle[p][j].lost
      BY <1>4, <2>1, GotoChanges DEF TryLock
    <3>2. CycleType' /\ mode' = mode /\ mode[p] # "down"
      BY <1>4, <2>1, GotoChanges DEF TryLock, At
    <3>3. OnItsPath(j, c) /\ Claims(j, c)
      BY <3>1, <1>0, <1>4 DEF OnItsPath, Claims, TryLock, At
    <3>4. /\ \A k \in Job : k # j => holder'[k] = holder[k]
          /\ \A q \in Process \ {p} : holder'[j] = q <=> holder[j] = q
          /\ holder'[j] = p /\ stray' = stray
      BY <1>4, <2>1, JobAssumption DEF TryLock, LockType
    <3> QED BY <3>1, <3>2, <3>3, <3>4, LockFollows
  <2>2. CASE UNCHANGED holder /\ EndAttempt(p, j, TRUE)
    BY <1>4, <2>2, EndKeepsLock DEF TryLock, At, Claims, locks
  <2>3. CASE holder[j] = Nobody /\ holder' = [holder EXCEPT ![j] = p]
                               /\ Goto(p, j, "recording")
    BY <2>1, <2>3 DEF LockType
  <2> QED BY <1>4, <2>1, <2>2, <2>3 DEF TryLock
<1>5. CASE TryLockFails(p, j)
  BY <1>5, EndKeepsLock DEF TryLockFails, At, Claims
<1>6. CASE RecordStart(p, j)
  BY <1>6, MoveKeepsLock DEF RecordStart
<1>7. CASE RecordStartFails(p, j)
  BY <1>7, <1>0, StageKeepsLock DEF RecordStartFails, At, OnItsPath
<1>8. CASE RunStarts(p, j)
  BY <1>8, MoveKeepsLock DEF RunStarts
<1>9. ASSUME NEW ok \in BOOLEAN, NEW from \in {"starting", "running"},
             At(p, j, from), AfterRun(p, j, ok), mode' = mode, UNCHANGED locks
      PROVE  CycleType' /\ LockInv'
  <2>1. CASE j \in Locked
    BY <1>9, <2>1, StageKeepsLock DEF AfterRun
  <2>2. CASE j \notin Locked
    BY <1>9, <2>2, EndKeepsLock DEF AfterRun, Claims, At
  <2> QED BY <2>1, <2>2
<1>10. CASE RunGetsNoConnection(p, j)
  BY <1>10, <1>9 DEF RunGetsNoConnection
<1>11. CASE \E ok \in BOOLEAN : RunEnds(p, j, ok)
  BY <1>11, <1>9 DEF RunEnds
<1>12. CASE NoteEnd(p, j)
  BY <1>12, MoveKeepsLock, <1>0 DEF NoteEnd, At, OnItsPath
<1>13. CASE NoteEndFails(p, j)
  BY <1>13, <1>0, StageKeepsLock DEF NoteEndFails, At, OnItsPath
<1>14. CASE Unlock(p, j)
  <2>1. PICK c \in Cycle : OnlyCycle(p, j, c) /\ c.at \in {"idle", "sleeping"}
    BY <1>0, <1>14, EndChanges DEF Unlock, Cycle
  <2>2. CycleType' /\ mode' = mode /\ mode[p] # "down"
    BY <1>0, <1>14, EndChanges DEF Unlock, At, Cycle
  <2>3. OnItsPath(j, c) /\ ~ Claims(j, c)
    BY <2>1 DEF OnItsPath, Claims
  <2>4. /\ \A k \in Job \ {j} : holder'[k] = holder[k]
        /\ \A q \in Process \ {p} : holder'[j] = q <=> holder[j] = q
        /\ holder'[j] = p => j \in stray'
        /\ stray' = stray
    BY <1>14, JobAssumption DEF Unlock, Unlocked, LockType
  <2> QED BY <2>1, <2>2, <2>3, <2>4, LockFollows
<1>15. CASE UnlockFails(p, j)
  <2>1. PICK c \in Cycle : OnlyCycle(p, j, c) /\ c.at \in {"idle", "sleeping"}
    BY <1>0, <1>15, EndChanges DEF UnlockFails, Cycle
  <2>2. CycleType' /\ mode' = mode /\ mode[p] # "down"
    BY <1>0, <1>15, EndChanges DEF UnlockFails, At, Cycle
  <2>3. OnItsPath(j, c) /\ ~ Claims(j, c)
    BY <2>1 DEF OnItsPath, Claims
  <2>4. holder' = holder /\ stray' = stray \cup {j}
    BY <1>15 DEF UnlockFails
  <2> QED BY <2>1, <2>2, <2>3, <2>4, LockFollows
<1> QED BY <1>1, <1>2, <1>3, <1>4, <1>5, <1>6, <1>7, <1>8, <1>10, <1>11, <1>12, <1>13,
           <1>14, <1>15 DEF CycleStep

-----------------------------------------------------------------------------
(* The other steps.                                                           *)

LEMMA LossKeepsLock ==
    ASSUME LockInv, CycleType, LockType, NEW p \in Process, NEW j \in Job,
           LoseConnection(p, j)
    PROVE  CycleType' /\ LockInv'
<1> DEFINE c == [cycle[p][j] EXCEPT !.lost = TRUE]
<1>1. cycle[p][j] \in Cycle
  BY DEF CycleType
<1>2. c \in Cycle /\ c.at = cycle[p][j].at /\ c.lost
  BY <1>1 DEF Cycle
<1>3. cycle' = [cycle EXCEPT ![p][j] = c]
  BY DEF LoseConnection, CycleType
<1> HIDE DEF c
<1>4. CycleType' /\ OnlyCycle(p, j, c)
  BY <1>2, <1>3, CycleChanges
<1>5. OnItsPath(j, c) /\ ~ Claims(j, c)
  BY <1>2 DEF LockInv, OnItsPath, Claims
<1>6. CASE cycle[p][j].at = "locking"
  <2>1. UNCHANGED locks /\ ~ Claims(j, cycle[p][j])
    BY <1>6 DEF LoseConnection, Claims, UnderLock
  <2> QED BY <1>2, <1>4, <1>5, <2>1, LockStays DEF LoseConnection
<1>7. CASE cycle[p][j].at # "locking"
  <2>1. Claims(j, cycle[p][j])
    BY <1>1, <1>7 DEF LoseConnection, HasClient, Claims, UnderLock
  <2>2. holder[j] = p
    BY <2>1 DEF LockInv
  <2>3. /\ \A k \in Job \ {j} : holder'[k] = holder[k] /\ (k \in stray => k \in stray')
        /\ \A q \in Process \ {p} : holder'[j] = q <=> holder[j] = q
        /\ holder'[j] # p
    BY <1>7, <2>2, JobAssumption DEF LoseConnection, SessionEnds, LockType
  <2> QED BY <1>2, <1>4, <1>5, <2>2, <2>3, LockFollows DEF LoseConnection
<1> QED BY <1>6, <1>7

(* The session of a stray lock ends with the lock.                            *)
LEMMA StrayKeepsLock ==
    ASSUME LockInv, CycleType, LockType, NEW p \in Process, NEW j \in Job,
           StrayEnds(p, j)
    PROVE  CycleType' /\ LockInv'
<1>1. cycle' = cycle /\ mode' = mode /\ ~ Claims(j, cycle[p][j]) /\ holder[j] = p
  BY DEF StrayEnds, Claims, UnderLock
<1>2. /\ \A k \in Job \ {j} : holder'[k] = holder[k] /\ (k \in stray => k \in stray')
      /\ \A q \in Process : holder'[j] # q
  BY JobAssumption DEF StrayEnds, SessionEnds, LockType
<1>3. ASSUME NEW q \in Process, NEW k \in Job
      PROVE  /\ Claims(k, cycle[q][k]) => holder'[k] = q
             /\ holder'[k] = q => mode[q] # "down" /\ (Claims(k, cycle[q][k]) \/ k \in stray')
  <2>1. CASE k = j
    BY <2>1, <1>1, <1>2 DEF LockInv
  <2>2. CASE k # j
    BY <2>2, <1>2 DEF LockInv
  <2> QED BY <2>1, <2>2
<1> QED BY <1>1, <1>3 DEF LockInv, OnItsPath, Claims, CycleType

LEMMA DownKeepsLock ==
    ASSUME LockInv, CycleType, LockType, ModeType, NEW p \in Process, Down(p)
    PROVE  CycleType' /\ LockInv'
<1>1. Idle \in Cycle /\ Idle.at = "idle"
  BY JobAssumption DEF Idle, Cycle, Stage
<1>2. /\ CycleType'
      /\ \A q \in Process, k \in Job : cycle'[q][k] = IF q = p THEN Idle ELSE cycle[q][k]
  BY <1>1 DEF Down, CycleType
<1>3. \A q \in Process, k \in Job : OnItsPath(k, cycle'[q][k])
  BY <1>1, <1>2 DEF LockInv, OnItsPath, LockOnly
<1>4. ASSUME NEW q \in Process, NEW k \in Job
      PROVE  /\ Claims(k, cycle'[q][k]) => holder'[k] = q
             /\ holder'[k] = q => /\ mode'[q] # "down"
                                  /\ Claims(k, cycle'[q][k]) \/ k \in stray'
  <2>1. CASE q = p
    <3>1. ~ Claims(k, cycle'[q][k])
      BY <2>1, <1>1, <1>2 DEF Claims, UnderLock
    <3>2. holder'[k] # q
      BY <2>1, JobAssumption DEF Down, LockType
    <3> QED BY <3>1, <3>2
  <2>2. CASE q # p
    <3>1. /\ holder'[k] = q <=> holder[k] = q
          /\ mode'[q] = mode[q]
          /\ holder[k] = q => (k \in stray => k \in stray')
      BY <2>2, JobAssumption DEF Down, LockType, ModeType
    <3>2. /\ Claims(k, cycle[q][k]) => holder[k] = q
          /\ holder[k] = q => mode[q] # "down" /\ (Claims(k, cycle[q][k]) \/ k \in stray)
      BY DEF LockInv
    <3> QED BY <2>2, <3>1, <3>2, <1>2
  <2> QED BY <2>1, <2>2
<1>5. \A q \in Process, k \in Job : mode'[q] = "down" => cycle'[q][k].at = "idle"
  BY <1>1, <1>2 DEF LockInv, Down, ModeType
<1> QED BY <1>2, <1>3, <1>4, <1>5 DEF LockInv, OnItsPath, Claims

LEMMA ReapKeepsLock ==
    ASSUME LockInv, CycleType, LockType, NEW j \in Job, Reap(j)
    PROVE  CycleType' /\ LockInv'
<1>1. CycleType' /\ cycle' = cycle /\ mode' = mode
  BY DEF Reap, CycleType
<1>2. stray' = stray /\ \A q \in Process, k \in Job : holder'[k] = q <=> holder[k] = q
  BY JobAssumption DEF Reap, LockType
<1> QED BY <1>1, <1>2 DEF LockInv, OnItsPath, Claims

(* A process that comes up, is stopped or closes its pool.                    *)
LEMMA ModeKeepsLock ==
    ASSUME LockInv, CycleType, UNCHANGED <<cycle, locks>>,
           \A q \in Process : mode'[q] = "down" => mode[q] = "down"
    PROVE  CycleType' /\ LockInv'
BY DEF LockInv, OnItsPath, Claims, CycleType, locks

LEMMA StepKeepsLock ==
    ASSUME LockInv, CycleType, LockType, ModeType, Next
    PROVE  CycleType' /\ LockInv'
<1>1. ASSUME NEW p \in Process, NEW j \in Job,
             Tick(p, j) \/ CycleStep(p, j) \/ LoseConnection(p, j) \/ StrayEnds(p, j)
      PROVE  CycleType' /\ LockInv'
  BY <1>1, TickKeepsLock, CycleStepKeepsLock, LossKeepsLock, StrayKeepsLock
<1>2. ASSUME NEW p \in Process, RequestConnects(p) \/ RequestEnds(p)
      PROVE  CycleType' /\ LockInv'
  BY <1>2, ModeKeepsLock DEF RequestConnects, RequestEnds
<1>3. ASSUME NEW p \in Process, Stop(p) \/ ClosePool(p) \/ Restart(p)
      PROVE  CycleType' /\ LockInv'
  BY <1>3, ModeKeepsLock DEF Stop, ClosePool, Restart, ModeType
<1>4. ASSUME NEW p \in Process, Exit(p) \/ Die(p)
      PROVE  CycleType' /\ LockInv'
  BY <1>4, DownKeepsLock DEF Exit, Die
<1>5. ASSUME NEW j \in Job, Reap(j)
      PROVE  CycleType' /\ LockInv'
  BY <1>5, ReapKeepsLock
<1> QED BY <1>1, <1>2, <1>3, <1>4, <1>5 DEF Next

-----------------------------------------------------------------------------
(* The types of the other variables.                                          *)

LEMMA StepKeepsModeAndLockTypes ==
    ASSUME LockInv, CycleType, LockType, ModeType, Next
    PROVE  ModeType' /\ LockType'
<1> USE DEF ModeType, LockType, Unfaulty, Goto, locks, SessionEnds
<1>1. ASSUME NEW p \in Process, NEW j \in Job, Tick(p, j) \/ CycleStep(p, j)
      PROVE  ModeType' /\ LockType'
  <2>1. mode' = mode
    BY <1>1 DEF Tick, CycleStep, Retry, Connect, ConnectFails, TryLock, TryLockFails,
                RecordStart, RecordStartFails, RunStarts, RunGetsNoConnection, RunEnds,
                NoteEnd, NoteEndFails, Unlock, UnlockFails
  <2>2. CASE TryLock(p, j)
    BY <2>1, <2>2 DEF TryLock
  <2>3. CASE RecordStart(p, j) \/ NoteEnd(p, j)
    BY <2>1, <2>3 DEF RecordStart, NoteEnd
  <2>4. CASE Unlock(p, j)
    BY <2>1, <2>4 DEF Unlock, Unlocked
  <2>5. CASE UnlockFails(p, j)
    BY <2>1, <2>5 DEF UnlockFails
  <2>6. CASE ~ (TryLock(p, j) \/ RecordStart(p, j) \/ NoteEnd(p, j) \/ Unlock(p, j)
                \/ UnlockFails(p, j))
    <3>1. UNCHANGED <<locks, runs>>
      BY <1>1, <2>6 DEF Tick, CycleStep, Retry, Connect, ConnectFails, TryLockFails,
                RecordStartFails, RunStarts, RunGetsNoConnection, RunEnds, NoteEndFails
    <3> QED BY <2>1, <3>1
  <2> QED BY <2>2, <2>3, <2>4, <2>5, <2>6
<1>2. ASSUME NEW p \in Process, NEW j \in Job, LoseConnection(p, j) \/ StrayEnds(p, j)
      PROVE  ModeType' /\ LockType'
  BY <1>2 DEF LoseConnection, StrayEnds
<1>3. ASSUME NEW p \in Process, RequestConnects(p) \/ RequestEnds(p) \/ Stop(p)
                                \/ ClosePool(p) \/ Restart(p)
      PROVE  ModeType' /\ LockType'
  BY <1>3 DEF RequestConnects, RequestEnds, Stop, ClosePool, Restart
<1>4. ASSUME NEW p \in Process, Exit(p) \/ Die(p)
      PROVE  ModeType' /\ LockType'
  BY <1>4 DEF Exit, Die, Down
<1>5. ASSUME NEW j \in Job, Reap(j)
      PROVE  ModeType' /\ LockType'
  BY <1>5 DEF Reap
<1> QED BY <1>1, <1>2, <1>3, <1>4, <1>5 DEF Next

(* A process has the connections of its requests and more, and a finite       *)
(* number of jobs.                                                            *)
LEMMA RequestsFit ==
    ASSUME BoundTypes, NEW p \in Process, Available(p)
    PROVE  requests[p] + 1 \in 0 .. PoolMax
<1> DEFINE S == {j \in Job : HasClient(p, j)}
           R == {j \in Job : cycle[p][j].at = "running"}
<1>1. Cardinality(S) \in Nat /\ Cardinality(R) \in Nat
  BY JobAssumption, FS_Subset, FS_CardinalityType
<1>2. requests[p] + Cardinality(S) + Cardinality(R) < PoolMax
  BY DEF Available, InUse
<1> HIDE DEF S, R
<1>3. requests[p] \in 0 .. PoolMax
  BY DEF BoundTypes
<1> QED BY <1>1, <1>2, <1>3, JobAssumption

LEMMA StepKeepsBoundTypes ==
    ASSUME BoundTypes, Next
    PROVE  BoundTypes'
<1> USE JobAssumption
<1>1. ASSUME NEW p \in Process, NEW j \in Job, Tick(p, j) \/ CycleStep(p, j)
      PROVE  BoundTypes'
  <2>1. requests' = requests
    BY <1>1 DEF Tick, CycleStep, Retry, Connect, ConnectFails, TryLock, TryLockFails,
                RecordStart, RecordStartFails, RunStarts, RunGetsNoConnection, RunEnds,
                NoteEnd, NoteEndFails, Unlock, UnlockFails, Unfaulty
  <2>2. CASE QueryFails(p, j)
    BY <2>1, <2>2 DEF BoundTypes, QueryFails
  <2>3. CASE ~ QueryFails(p, j)
    <3>1. faults' = faults
      BY <1>1, <2>3 DEF Tick, CycleStep, Retry, Connect, ConnectFails, TryLock,
           TryLockFails, RecordStart, RecordStartFails, RunStarts, RunGetsNoConnection,
           RunEnds, NoteEnd, NoteEndFails, Unlock, UnlockFails, Unfaulty
    <3> QED BY <2>1, <3>1 DEF BoundTypes
  <2> QED BY <2>2, <2>3
<1>2. ASSUME NEW p \in Process, NEW j \in Job, LoseConnection(p, j) \/ StrayEnds(p, j)
      PROVE  BoundTypes'
  BY <1>2 DEF LoseConnection, StrayEnds, BoundTypes
<1>3. ASSUME NEW p \in Process, RequestConnects(p)
      PROVE  BoundTypes'
  BY <1>3, RequestsFit DEF RequestConnects, BoundTypes
<1>4. ASSUME NEW p \in Process, RequestEnds(p)
      PROVE  BoundTypes'
  BY <1>4 DEF RequestEnds, BoundTypes
<1>5. ASSUME NEW p \in Process, Stop(p) \/ ClosePool(p) \/ Restart(p)
      PROVE  BoundTypes'
  BY <1>5 DEF Stop, ClosePool, Restart, BoundTypes
<1>6. ASSUME NEW p \in Process, Exit(p) \/ Die(p)
      PROVE  BoundTypes'
  BY <1>6 DEF Exit, Die, Down, BoundTypes
<1>7. ASSUME NEW j \in Job, Reap(j)
      PROVE  BoundTypes'
  BY <1>7 DEF Reap, BoundTypes
<1> QED BY <1>1, <1>2, <1>3, <1>4, <1>5, <1>6, <1>7 DEF Next

-----------------------------------------------------------------------------
(* The row of a job names the process that runs it.                           *)

(* No run begins, and the row changes only in the hands of who has the lock.  *)
LEMMA VisibleKeeps ==
    ASSUME LockInv, RunIsVisible, NEW p \in Process, NEW j \in Job, NEW c \in Cycle,
           OnlyCycle(p, j, c),
           \A k \in Job \ {j} : runs'[k] = runs[k],
           runs'[j] # runs[j] => Claims(j, cycle[p][j]),
           j \in Locked /\ c.at \in {"starting", "running"} /\ ~ c.lost => runs'[j] = p
    PROVE  RunIsVisible'
<1> SUFFICES ASSUME NEW q \in Process, NEW k \in Locked, Runs(q, k)'
             PROVE  runs'[k] = q
  BY DEF RunIsVisible
<1>0. k \in Job
  BY JobAssumption
<1>1. CASE q = p /\ k = j
  BY <1>0, <1>1 DEF OnlyCycle, Runs
<1>2. CASE ~ (q = p /\ k = j)
  <2>1. Runs(q, k) /\ runs[k] = q
    BY <1>0, <1>2 DEF OnlyCycle, Runs, RunIsVisible
  <2>2. holder[k] = q
    BY <1>0, <2>1 DEF LockInv, Claims, Runs, UnderLock
  <2>3. runs'[k] = runs[k]
    BY <1>0, <1>2, <2>2 DEF LockInv
  <2> QED BY <2>1, <2>3
<1> QED BY <1>1, <1>2

LEMMA VisibleStays ==
    ASSUME RunIsVisible, UNCHANGED runs,
           \A q \in Process, k \in Locked : Runs(q, k)' => Runs(q, k)
    PROVE  RunIsVisible'
BY DEF RunIsVisible

LEMMA EndKeepsVisible ==
    ASSUME LockInv, CycleType, RunIsVisible, NEW p \in Process, NEW j \in Job,
           NEW ok \in BOOLEAN, EndAttempt(p, j, ok), UNCHANGED runs
    PROVE  RunIsVisible'
<1>1. PICK c \in Cycle : OnlyCycle(p, j, c) /\ c.at \in {"idle", "sleeping"}
  BY EndChanges
<1> QED BY <1>1, VisibleKeeps

LEMMA GotoKeepsVisible ==
    ASSUME LockInv, CycleType, RunIsVisible, NEW p \in Process, NEW j \in Job,
           NEW stage \in Stage, Goto(p, j, stage), UNCHANGED runs,
           stage = "running" => At(p, j, "starting"),
           stage = "starting" => j \notin Locked
    PROVE  RunIsVisible'
<1>1. PICK c \in Cycle : /\ OnlyCycle(p, j, c) /\ c.at = stage
                         /\ c.lost = cycle[p][j].lost
  BY GotoChanges
<1>2. j \in Locked /\ c.at \in {"starting", "running"} /\ ~ c.lost => runs'[j] = p
  BY <1>1 DEF RunIsVisible, Runs, At
<1> QED BY <1>1, <1>2, VisibleKeeps

LEMMA StageKeepsVisible ==
    ASSUME LockInv, CycleType, RunIsVisible, NEW p \in Process, NEW j \in Job,
           NEW stage \in {"noting", "unlocking"}, NEW ok \in BOOLEAN, UNCHANGED runs,
           cycle' = [cycle EXCEPT ![p][j].at = stage, ![p][j].ok = ok]
    PROVE  RunIsVisible'
<1>1. stage \in Stage
  BY DEF Stage
<1>2. PICK c \in Cycle : OnlyCycle(p, j, c) /\ c.at = stage
  BY <1>1, StageChanges
<1> QED BY <1>2, VisibleKeeps

LEMMA CycleStepKeepsVisible ==
    ASSUME LockInv, CycleType, LockType, RunIsVisible, NEW p \in Process, NEW j \in Job,
           CycleStep(p, j)
    PROVE  RunIsVisible'
<1> USE DEF Unfaulty, Stage
<1>0. cycle[p][j] \in Cycle /\ OnItsPath(j, cycle[p][j])
  BY DEF CycleType, LockInv
<1>1. CASE Retry(p, j) \/ Connect(p, j)
  BY <1>1, GotoKeepsVisible DEF Retry, Connect, First
<1>2. CASE ConnectFails(p, j) \/ TryLockFails(p, j)
  BY <1>2, EndKeepsVisible DEF ConnectFails, TryLockFails
<1>3. CASE TryLock(p, j)
  BY <1>3, EndKeepsVisible, GotoKeepsVisible DEF TryLock
<1>4. ASSUME NEW stage \in {"starting", "unlocking"}, Goto(p, j, stage),
             At(p, j, "recording") \/ At(p, j, "noting"), ~ cycle[p][j].lost,
             \A k \in Job \ {j} : runs'[k] = runs[k],
             stage = "starting" => runs'[j] = p
      PROVE  RunIsVisible'
  <2>1. PICK c \in Cycle : OnlyCycle(p, j, c) /\ c.at = stage
    BY <1>4, GotoChanges
  <2>2. Claims(j, cycle[p][j])
    BY <1>0, <1>4 DEF Claims, OnItsPath, LockOnly, UnderLock, At
  <2> QED BY <1>4, <2>1, <2>2, VisibleKeeps
<1>5. CASE RecordStart(p, j) \/ NoteEnd(p, j)
  BY <1>4, <1>5 DEF RecordStart, NoteEnd, LockType
<1>6. CASE RecordStartFails(p, j) \/ NoteEndFails(p, j)
  BY <1>6, StageKeepsVisible DEF RecordStartFails, NoteEndFails
<1>7. CASE RunStarts(p, j)
  BY <1>7, GotoKeepsVisible DEF RunStarts
<1>8. CASE RunGetsNoConnection(p, j) \/ \E ok \in BOOLEAN : RunEnds(p, j, ok)
  BY <1>8, StageKeepsVisible, EndKeepsVisible DEF RunGetsNoConnection, RunEnds, AfterRun
<1>9. CASE Unlock(p, j) \/ UnlockFails(p, j)
  BY <1>0, <1>9, EndKeepsVisible DEF Unlock, UnlockFails, Cycle
<1> QED BY <1>1, <1>2, <1>3, <1>5, <1>6, <1>7, <1>8, <1>9 DEF CycleStep

LEMMA StepKeepsVisible ==
    ASSUME LockInv, CycleType, LockType, RunIsVisible, Next
    PROVE  RunIsVisible'
<1>1. ASSUME NEW p \in Process, NEW j \in Job, Tick(p, j)
      PROVE  RunIsVisible'
  <2> DEFINE c == [Idle EXCEPT !.at = First(j)]
  <2>1. Idle \in Cycle /\ First(j) \in Stage
    BY JobAssumption DEF Idle, Cycle, Stage, First
  <2>2. c \in Cycle /\ c.at = First(j)
    BY <2>1 DEF Cycle
  <2>3. cycle' = [cycle EXCEPT ![p][j] = c]
    BY <1>1 DEF Tick
  <2> HIDE DEF c
  <2>4. OnlyCycle(p, j, c)
    BY <2>2, <2>3, CycleChanges
  <2>5. j \in Locked => c.at = "connecting"
    BY <2>2 DEF First
  <2> QED BY <1>1, <2>2, <2>4, <2>5, VisibleKeeps DEF Tick
<1>2. ASSUME NEW p \in Process, NEW j \in Job, CycleStep(p, j)
      PROVE  RunIsVisible'
  BY <1>2, CycleStepKeepsVisible
<1>3. ASSUME NEW p \in Process, NEW j \in Job, LoseConnection(p, j)
      PROVE  RunIsVisible'
  BY <1>3, VisibleStays, JobAssumption DEF LoseConnection, Runs, CycleType, Cycle
<1>4. ASSUME NEW p \in Process, RequestConnects(p) \/ RequestEnds(p) \/ Stop(p)
                                \/ ClosePool(p) \/ Restart(p)
      PROVE  RunIsVisible'
  BY <1>4, VisibleStays DEF RequestConnects, RequestEnds, Stop, ClosePool, Restart, Runs
<1>5. ASSUME NEW p \in Process, Exit(p) \/ Die(p)
      PROVE  RunIsVisible'
  <2>1. \A q \in Process, k \in Job : cycle'[q][k] = IF q = p THEN Idle ELSE cycle[q][k]
    BY <1>5 DEF Exit, Die, Down, CycleType
  <2> QED BY <1>5, <2>1, VisibleStays, JobAssumption DEF Exit, Die, Down, Runs, Idle
<1>6. ASSUME NEW j \in Job, Reap(j)
      PROVE  RunIsVisible'
  BY <1>6, VisibleStays DEF Reap, Runs
<1>7. ASSUME NEW p \in Process, NEW j \in Job, StrayEnds(p, j)
      PROVE  RunIsVisible'
  BY <1>7, VisibleStays DEF StrayEnds, Runs
<1> QED BY <1>1, <1>2, <1>3, <1>4, <1>5, <1>6, <1>7 DEF Next

-----------------------------------------------------------------------------
(* Each failed unlock leaves one lock at most.                                *)

StrayFew == Cardinality(stray) <= faults

LEMMA FewerStrays ==
    ASSUME LockType, BoundTypes, StrayFew, BoundTypes', stray' \subseteq stray,
           faults' >= faults
    PROVE  StrayFew'
<1>1. IsFiniteSet(stray)
  BY JobAssumption, FS_Subset DEF LockType
<1>2. /\ Cardinality(stray') \in Nat /\ Cardinality(stray) \in Nat
      /\ Cardinality(stray') <= Cardinality(stray)
  BY <1>1, FS_Subset, FS_CardinalityType
<1>3. faults \in Nat /\ faults' \in Nat
  BY JobAssumption DEF BoundTypes
<1> QED BY <1>2, <1>3 DEF StrayFew

LEMMA StepKeepsStrayFew ==
    ASSUME LockType, BoundTypes, StrayFew, BoundTypes', Next
    PROVE  StrayFew'
<1>0. faults \in Nat
  BY JobAssumption DEF BoundTypes
<1>1. CASE \E p \in Process, j \in Job : UnlockFails(p, j)
  <2>1. PICK p \in Process, j \in Job : UnlockFails(p, j)
    BY <1>1
  <2>2. stray' = stray \cup {j} /\ faults' = faults + 1
    BY <2>1 DEF UnlockFails, QueryFails
  <2>3. IsFiniteSet(stray)
    BY JobAssumption, FS_Subset DEF LockType
  <2>4. /\ IsFiniteSet(stray \cup {j})
        /\ \/ Cardinality(stray \cup {j}) = Cardinality(stray)
           \/ Cardinality(stray \cup {j}) = Cardinality(stray) + 1
    BY <2>3, FS_AddElement
  <2>5. Cardinality(stray) \in Nat
    BY <2>3, FS_CardinalityType
  <2>6. Cardinality(stray') <= Cardinality(stray) + 1
    BY <2>2, <2>4, <2>5
  <2> QED BY <1>0, <2>2, <2>4, <2>5, <2>6 DEF StrayFew
<1>2. CASE ~ \E p \in Process, j \in Job : UnlockFails(p, j)
  <2>1. ASSUME NEW p \in Process, NEW j \in Job, Tick(p, j) \/ CycleStep(p, j)
        PROVE  stray' = stray /\ faults' >= faults
    <3>1. stray' = stray
      BY <1>2, <2>1 DEF Tick, CycleStep, Retry, Connect, ConnectFails, TryLock,
           TryLockFails, RecordStart, RecordStartFails, RunStarts, RunGetsNoConnection,
           RunEnds, NoteEnd, NoteEndFails, Unlock, locks
    <3>2. CASE QueryFails(p, j)
      BY <1>0, <3>1, <3>2 DEF QueryFails
    <3>3. CASE ~ QueryFails(p, j)
      <4>1. faults' = faults
        BY <2>1, <3>3 DEF Tick, CycleStep, Retry, Connect, ConnectFails, TryLock,
             TryLockFails, RecordStart, RecordStartFails, RunStarts,
             RunGetsNoConnection, RunEnds, NoteEnd, NoteEndFails, Unlock, UnlockFails,
             Unfaulty
      <4> QED BY <1>0, <3>1, <4>1
    <3> QED BY <3>2, <3>3
  <2>2. ASSUME NEW p \in Process, NEW j \in Job,
               LoseConnection(p, j) \/ StrayEnds(p, j)
        PROVE  stray' \subseteq stray /\ faults' >= faults
    BY <1>0, <2>2 DEF LoseConnection, StrayEnds, SessionEnds, locks
  <2>3. ASSUME NEW p \in Process,
               RequestConnects(p) \/ RequestEnds(p) \/ Stop(p) \/ ClosePool(p)
               \/ Restart(p) \/ Exit(p) \/ Die(p)
        PROVE  stray' \subseteq stray /\ faults' >= faults
    BY <1>0, <2>3 DEF RequestConnects, RequestEnds, Stop, ClosePool, Restart, Exit, Die,
                      Down, locks
  <2>4. ASSUME NEW j \in Job, Reap(j)
        PROVE  stray' \subseteq stray /\ faults' >= faults
    BY <1>0, <2>4 DEF Reap
  <2> QED BY <2>1, <2>2, <2>3, <2>4, FewerStrays DEF Next
<1> QED BY <1>1, <1>2

-----------------------------------------------------------------------------
(* The theorems.                                                              *)

JobInv == TypeOK /\ LockInv /\ StrayFew /\ RunIsVisible

LEMMA InitInv == Init => JobInv
<1> SUFFICES ASSUME Init PROVE JobInv
  OBVIOUS
<1>1. Idle \in Cycle /\ Idle.at = "idle"
  BY JobAssumption DEF Idle, Cycle, Stage
<1>2. TypeOK
  BY <1>1, JobAssumption DEF Init, TypeOK
<1>3. LockInv
  BY <1>1, JobAssumption DEF Init, LockInv, OnItsPath, Claims, LockOnly, UnderLock
<1>4. RunIsVisible
  BY <1>1, JobAssumption DEF Init, RunIsVisible, Runs
<1>5. StrayFew
  BY FS_EmptySet DEF Init, StrayFew
<1> QED BY <1>2, <1>3, <1>4, <1>5 DEF JobInv

LEMMA StepInv == JobInv /\ [Next]_vars => JobInv'
<1> SUFFICES ASSUME JobInv, [Next]_vars PROVE JobInv'
  OBVIOUS
<1>1. CASE Next
  <2>1. CycleType /\ ModeType /\ LockType /\ BoundTypes /\ LockInv /\ RunIsVisible
      /\ StrayFew
    BY TypeParts DEF JobInv
  <2>2. CycleType' /\ LockInv'
    BY <1>1, <2>1, StepKeepsLock
  <2>3. ModeType' /\ LockType'
    BY <1>1, <2>1, StepKeepsModeAndLockTypes
  <2>4. BoundTypes'
    BY <1>1, <2>1, StepKeepsBoundTypes
  <2>5. RunIsVisible'
    BY <1>1, <2>1, StepKeepsVisible
  <2>6. TypeOK'
    BY <2>2, <2>3, <2>4 DEF TypeOK, CycleType, ModeType, LockType, BoundTypes
  <2>7. StrayFew'
    BY <1>1, <2>1, <2>4, StepKeepsStrayFew
  <2> QED BY <2>2, <2>5, <2>6, <2>7 DEF JobInv
<1>2. CASE UNCHANGED vars
  BY <1>2 DEF vars, JobInv, StrayFew, TypeOK, LockInv, OnItsPath, Claims, RunIsVisible, Runs
<1> QED BY <1>1, <1>2

LEMMA AlwaysInv == Spec => []JobInv
BY InitInv, StepInv, PTL DEF Spec

(* Every variable keeps its type: in particular a process never uses more     *)
(* connections for its requests than its pool has, and no cycle is tried more *)
(* than MaxRetries times again.                                               *)
THEOREM Types == Spec => []TypeOK
<1>1. JobInv => TypeOK
  BY DEF JobInv
<1> QED BY <1>1, AlwaysInv, PTL

(* A lock is held only by a cycle that will come to its unlock, whatever dies, *)
(* breaks or fails, or by a session that an unlock failed on; and there are   *)
(* never more of these than queries that failed.                              *)
THEOREM NoLockLeaks == Spec => []LockHasCycle
<1>1. JobInv => LockHasCycle
  BY DEF JobInv, LockInv, StrayFew, LockHasCycle, Claims, UnderLock
<1> QED BY <1>1, AlwaysInv, PTL

(* No job that has a lock is run by two processes at once, for any number of  *)
(* processes that start, stop, fail and lose connections.                     *)
THEOREM MutualExclusion == Spec => []OneRunPerJob
<1>1. JobInv => OneRunPerJob
  BY JobAssumption DEF JobInv, LockInv, OneRunPerJob, Runs, Claims, UnderLock
<1> QED BY <1>1, AlwaysInv, PTL

(* While a job runs under its lock, its row names the process that runs it.   *)
THEOREM RunsAreVisible == Spec => []RunIsVisible
<1>1. JobInv => RunIsVisible
  BY DEF JobInv
<1> QED BY <1>1, AlwaysInv, PTL
=============================================================================
