------------------------ MODULE MCNotificationOutbox ------------------------
(* NotificationOutbox for TLC.                                                *)
EXTENDS NotificationOutbox, TLC

(* Dispatchers, and runs, are interchangeable.                                *)
Symmetry == Permutations(Dispatcher) \cup Permutations(Run)

(* A row in a final state that no run delivers and no operator may retry: it  *)
(* stays as it is, and no step and no property reads more than its status and *)
(* whether LINE accepted a message of it.  An ended job is only known to be   *)
(* there.  States that differ in nothing else are one state.                  *)
Settled(n) ==
    /\ rows[n].status \in FinalStatus
    /\ rows[n].status = "failed" /\ rows[n].retryable => rows[n].manual = MaxManual
    /\ \A r \in Run : delivering[r] # Idle => RowOf(r) # n

RowView(n) ==
    IF Settled(n) THEN <<rows[n].status, accepted[n] # {}>> ELSE <<rows[n], accepted[n]>>

JobView(id) ==
    IF jobs[id].state \in {"completed", "failed"} THEN "ended" ELSE jobs[id]

View == <<[n \in Notification |-> RowView(n)], [id \in JobId |-> JobView(id)],
          closed, enabled, dispatching, delivering, faults>>
=============================================================================
