----------------------------- MODULE EmailOutbox -----------------------------
(* email_outbox and the job that empties it: API processes that claim due     *)
(* rows, mail them one after the other and note the outcome.  The job runs    *)
(* under no advisory lock, so rows are claimed by several processes at once.  *)
(*                                                                            *)
(* The mail server and time are external: a mail is accepted or refused, a    *)
(* pending row becomes due, and a row that has been `processing' for too long *)
(* is due again, whether its worker died or is only slow (processing_started_ *)
(* at is set for the whole batch when it is claimed).                         *)
(*                                                                            *)
(* A definition X_Bug (Bug a word for it) is X with a plausible bug in it,    *)
(* used nowhere.                                                              *)
EXTENDS Integers, FiniteSets

CONSTANTS
    Email,          \* rows, by event_key
    WithLink,       \* those that carry an action token
    Worker,         \* processes that run the job
    Batch,          \* rows claimed at once
    MaxAttempts,    \* max_attempts
    MaxFaults,      \* BOUND: deaths, failed notes and overruns
    Delivered       \* BOUND: the rows that the workers get to see

ASSUME EmailAssumption ==
    /\ WithLink \subseteq Email /\ Delivered \subseteq Email /\ IsFiniteSet(Delivered)
    /\ Batch \in Nat \ {0} /\ MaxAttempts \in Nat \ {0} /\ MaxFaults \in Nat

VARIABLES
    email,          \* the rows
    worker,         \* per worker: its batch and how far it is
    faults

emailVars == <<email, worker, faults>>

EmailStatus == {"none", "pending", "processing", "sent", "failed", "cancelled"}
EmailRow == [status : EmailStatus,
             attempt : 0 .. MaxAttempts + MaxFaults,    \* attempt_count
             link : BOOLEAN,        \* encrypted_action_token is not empty
             mailed : BOOLEAN]      \* the mail server has accepted it
NoEmail == [status |-> "none", attempt |-> 0, link |-> FALSE, mailed |-> FALSE]

(* What a worker keeps of a claimed row.                                      *)
Claimed == [id : Email, attempt : 1 .. MaxAttempts + MaxFaults, link : BOOLEAN]

EmailTypeOK ==
    /\ email \in [Email -> EmailRow]
    /\ worker \in [Worker -> [todo : SUBSET Claimed, at : {"ready", "accepted", "threw"},
                              now : SUBSET Claimed]]
    /\ \A w \in Worker : Cardinality(worker[w].now) <= 1
    /\ faults \in 0 .. MaxFaults

Ready == [todo |-> {}, at |-> "ready", now |-> {}]
EmailInit ==
    /\ email = [e \in Email |-> NoEmail]
    /\ worker = [w \in Worker |-> Ready]
    /\ faults = 0

-----------------------------------------------------------------------------
(* What the transactions of the other services do to the outbox.              *)

(* ON CONFLICT (event_key): a row that is there stays as it is.               *)
Enqueued(rows) ==
    [e \in Email |-> IF e \in rows /\ email[e].status = "none"
                     THEN [NoEmail EXCEPT !.status = "pending", !.link = e \in WithLink]
                     ELSE email[e]]

(* cancelAccountAction.                                                       *)
CancelledActions(rows) ==
    [e \in Email |-> IF e \in rows /\ email[e].status \in {"pending", "processing", "failed"}
                     THEN [email[e] EXCEPT !.status = "cancelled", !.link = FALSE]
                     ELSE email[e]]

(* The deletion of a branch cancels the mail to the accounts it deletes.      *)
CancelledWithBranch(rows) ==
    [e \in Email |-> IF e \in rows /\ email[e].status \in {"pending", "processing"}
                     THEN [email[e] EXCEPT !.status = "cancelled"]
                     ELSE email[e]]

-----------------------------------------------------------------------------
(* The job.                                                                   *)

Batched(w) == {c.id : c \in worker[w].todo \cup worker[w].now}
Held(e)    == \E w \in Worker : e \in Batched(w)

Due_Pending(e) == e \in Delivered /\ email[e].status = "pending"
Due(e) == e \in Delivered /\ email[e].status \in {"pending", "processing"}

Overruns(rows) == Cardinality({e \in rows : email[e].status = "processing" /\ Held(e)})

ClaimDue(w, rows) ==
    /\ worker[w] = Ready
    /\ rows # {} /\ Cardinality(rows) <= Batch
    /\ \A e \in rows : Due(e)
    /\ faults + Overruns(rows) <= MaxFaults
    /\ faults' = faults + Overruns(rows)
    /\ email' = [e \in Email |->
                   IF e \in rows
                   THEN [email[e] EXCEPT !.status = "processing", !.attempt = @ + 1]
                   ELSE email[e]]
    /\ worker' = [worker EXCEPT ![w].todo =
                   {[id |-> e, attempt |-> email'[e].attempt, link |-> email[e].link] :
                      e \in rows}]

(* A mail with a link cannot be written once the token has been cleared.      *)
CanRender(c) == c.id \in WithLink => c.link

Deliver(w, c, accepted) ==
    /\ worker[w].now = {} /\ c \in worker[w].todo
    /\ accepted => CanRender(c)
    /\ worker' = [worker EXCEPT ![w] = [todo |-> @.todo \ {c}, now |-> {c},
                                        at |-> IF accepted THEN "accepted" ELSE "threw"]]
    /\ email' = [email EXCEPT ![c.id].mailed = @ \/ accepted]
    /\ UNCHANGED faults

MarkSent(row)   == [row EXCEPT !.status = "sent", !.link = FALSE]
MarkRetry_Cleared(row) == [row EXCEPT !.status = "pending", !.link = FALSE]
MarkRetry(row)  == [row EXCEPT !.status = "pending"]
MarkFailed(row) == [row EXCEPT !.status = "failed"]

AttemptsLeft_OneMore(c) == c.attempt <= MaxAttempts
AttemptsLeft(c) == c.attempt < MaxAttempts

(* The outcome is noted by id, whatever has become of the row meanwhile.      *)
Noted(w, c) ==
    LET row == email[c.id] IN
    CASE worker[w].at = "accepted" -> MarkSent(row)
      [] worker[w].at = "threw" /\ AttemptsLeft(c) -> MarkRetry(row)
      [] OTHER -> MarkFailed(row)
Note(w, c) ==
    /\ c \in worker[w].now
    /\ email' = [email EXCEPT ![c.id] = Noted(w, c)]
    /\ worker' = [worker EXCEPT ![w].now = {}, ![w].at = "ready"]
    /\ UNCHANGED faults

(* The note fails: a mail that was accepted counts as not sent; if that       *)
(* cannot be noted either, the worker goes on with its next row.              *)
NoteFails(w, c) ==
    /\ c \in worker[w].now
    /\ faults < MaxFaults /\ faults' = faults + 1
    /\ worker' = IF worker[w].at = "accepted"
                 THEN [worker EXCEPT ![w].at = "threw"]
                 ELSE [worker EXCEPT ![w].now = {}, ![w].at = "ready"]
    /\ UNCHANGED email

(* A worker dies and is started again.                                        *)
Die(w) ==
    /\ worker[w] # Ready
    /\ faults < MaxFaults /\ faults' = faults + 1
    /\ worker' = [worker EXCEPT ![w] = Ready]
    /\ UNCHANGED email

WorkerStep(w) ==
    \/ \E rows \in SUBSET Delivered : ClaimDue(w, rows)
    \/ \E c \in worker[w].todo, accepted \in BOOLEAN : Deliver(w, c, accepted)
    \/ \E c \in worker[w].now : Note(w, c)

EmailNext ==
    \E w \in Worker : \/ WorkerStep(w)
                      \/ \E c \in worker[w].now : NoteFails(w, c)
                      \/ Die(w)
=============================================================================
