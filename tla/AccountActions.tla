--------------------------- MODULE AccountActions ---------------------------
(* How business accounts come and go: an application is approved and makes an *)
(* organization with an invited owner; the owner makes branches and invites   *)
(* their managers, the managers invite staff; an invitation is a link that is *)
(* mailed and activates the account; accounts are removed with their branch,  *)
(* one by one, or suspended with the organization.  One organization.         *)
(*                                                                            *)
(* Every action is a transaction, and most lock the rows they decide on (the  *)
(* application, the organization, the branch, the account): two that meet on  *)
(* one account wait for each other or one of them is aborted, so they take    *)
(* effect one after the other.  The invitations of managers and of staff read *)
(* the branch without a lock: its deletion they meet at the foreign key of    *)
(* the assignment they insert, its suspension they do not (`late').           *)
(* A token that expires is one that is never used.  Passwords, names and      *)
(* addresses are left out: a user is an e-mail address, and a row with that   *)
(* address is never made again.                                               *)
EXTENDS EmailOutbox

CONSTANTS
    Owner, Manager, Staff,      \* users, by what they are invited as
    Branch,
    BranchLimit,    \* active branches the plan allows
    Resetting,      \* BOUND: the users that may ask for a password reset,
    MaxResets,      \* and how many times
    Circumstance    \* what may happen besides

(* "late": a request that was authenticated, or had read its branch, before   *)
(* the organization was suspended is carried out after it.                    *)
CircumstanceKind == {"late"}

User    == {Owner} \cup Manager \cup Staff
Token   == [user : User, purpose : {"account_activation"}, n : {1}]
           \cup [user : Resetting, purpose : {"password_reset"}, n : 1 .. MaxResets]
Invitation(u) == [user |-> u, purpose |-> "account_activation", n |-> 1]
Notices == [user : {Owner}, purpose : {"submitted", "rejected"}, n : {1}]
None    == "none"

ASSUME AccountAssumption ==
    /\ Email = Token \cup Notices /\ WithLink = Token
    /\ Owner \notin Manager \cup Staff /\ Manager \cap Staff = {}
    /\ None \notin Branch /\ Resetting \subseteq User
    /\ BranchLimit \in Nat /\ MaxResets \in Nat
    /\ Circumstance \subseteq CircumstanceKind

VARIABLES
    application,    \* organization_applications.status
    organization,   \* organizations.activation_status (is_active: "active")
    branch,         \* per branch: whether there is one, and is_active
    account,        \* per user: users.account_status
    member,         \* per user: organization_members and its is_active
    assigned,       \* per user: branch_memberships, its branch and state
    token           \* account_action_tokens

accountVars == <<application, organization, branch, account, member, assigned, token>>
vars == <<accountVars, emailVars>>

Unassigned == [at |-> None, is |-> "none"]

AccountTypeOK ==
    /\ application \in {"none", "pending", "approved", "rejected"}
    /\ organization \in {"none", "pending_activation", "active", "suspended"}
    /\ branch \in [Branch -> {"none", "active", "inactive", "deleted"}]
    /\ account \in [User -> {"none", "invited", "active", "disabled", "deleted"}]
    /\ member \in [User -> {"none", "inactive", "active"}]
    /\ assigned \in [User -> [at : Branch \cup {None},
                              is : {"none", "invited", "active", "deactivated"}]]
    /\ token \in [Token -> {"none", "live", "used", "revoked", "deleted"}]

TypeOK == AccountTypeOK /\ EmailTypeOK

Init ==
    /\ application = "none" /\ organization = "none"
    /\ branch = [b \in Branch |-> "none"]
    /\ account = [u \in User |-> "none"]
    /\ member = [u \in User |-> "none"]
    /\ assigned = [u \in User |-> Unassigned]
    /\ token = [t \in Token |-> "none"]
    /\ EmailInit

OutboxOnly(rows) == email' = rows /\ UNCHANGED <<worker, faults>>

-----------------------------------------------------------------------------
(* Tokens.                                                                    *)

TokensOf(us, purpose) == {t \in Token : t.user \in us /\ t.purpose = purpose}

RevokedActive(t) == IF token[t] = "live" THEN "revoked" ELSE token[t]

(* issueAccountAction: the earlier links of the user are revoked, not their   *)
(* mails; the new ones are mailed.                                            *)
IssueAccountActions(new) ==
    LET earlier == UNION {TokensOf({t.user}, t.purpose) : t \in new} IN
    /\ token' = [t \in Token |-> IF t \in new THEN "live"
                                 ELSE IF t \in earlier THEN RevokedActive(t) ELSE token[t]]
    /\ OutboxOnly(Enqueued(new))

(* Deleting a user deletes its tokens.                                        *)
WithoutTokens(us) == [t \in Token |-> IF t.user \in us THEN "deleted" ELSE token[t]]

-----------------------------------------------------------------------------
(* Applications.                                                              *)

Submit ==
    /\ application = "none" /\ account[Owner] = "none"
    /\ application' = "pending"
    /\ OutboxOnly(Enqueued({e \in Notices : e.purpose = "submitted"}))
    /\ UNCHANGED <<organization, branch, account, member, assigned, token>>

(* createInvited, addMember, assignMember and the invitation of new users.    *)
Invite(us, b) ==
    /\ \A u \in us : account[u] = "none"
    /\ account' = [u \in User |-> IF u \in us THEN "invited" ELSE account[u]]
    /\ member' = [u \in User |-> IF u \in us THEN "inactive" ELSE member[u]]
    /\ assigned' = [u \in User |-> IF u \in us /\ b # None
                                   THEN [at |-> b, is |-> "invited"] ELSE assigned[u]]
    /\ IssueAccountActions({Invitation(u) : u \in us})

Approve ==
    /\ application = "pending"
    /\ application' = "approved"
    /\ organization' = "pending_activation"
    /\ Invite({Owner}, None)
    /\ UNCHANGED branch

Reject ==
    /\ application = "pending"
    /\ application' = "rejected"
    /\ OutboxOnly(Enqueued({e \in Notices : e.purpose = "rejected"}))
    /\ UNCHANGED <<organization, branch, account, member, assigned, token>>

-----------------------------------------------------------------------------
(* Links.                                                                     *)

ActivatedAssignment_Kept(u) == assigned[u]
ActivatedAssignment(u) ==
    IF assigned[u].is = "none" THEN assigned[u] ELSE [assigned[u] EXCEPT !.is = "active"]

Activate(t) ==
    /\ token[t] = "live" /\ t.purpose = "account_activation"
    /\ account[t.user] = "invited"
    /\ account' = [account EXCEPT ![t.user] = "active"]
    /\ member' = [member EXCEPT ![t.user] = "active"]
    /\ assigned' = [assigned EXCEPT ![t.user] = ActivatedAssignment(t.user)]
    /\ organization' = IF t.user = Owner THEN "active" ELSE organization
    /\ token' = [token EXCEPT ![t] = "used"]
    /\ UNCHANGED <<application, branch, emailVars>>

RequestPasswordReset(t) ==
    /\ t.purpose = "password_reset" /\ token[t] = "none"
    /\ \A s \in TokensOf({t.user}, t.purpose) : s.n < t.n => token[s] # "none"
    /\ account[t.user] = "active"
    /\ IssueAccountActions({t})
    /\ UNCHANGED <<application, organization, branch, account, member, assigned>>

ResetPassword(t) ==
    /\ token[t] = "live" /\ t.purpose = "password_reset"
    /\ account[t.user] = "active"
    /\ token' = [token EXCEPT ![t] = "used"]
    /\ UNCHANGED <<application, organization, branch, account, member, assigned, emailVars>>

-----------------------------------------------------------------------------
(* The owner.                                                                 *)

(* What the authentication of a request saw, and what it saw of the branch.   *)
Late == "late" \in Circumstance /\ organization = "suspended"
OwnerActs == account[Owner] = "active" \/ Late
SeenActive(b) == \/ branch[b] = "active"
                 \/ Late /\ branch[b] = "inactive"

CreateBranch(b, us) ==
    /\ OwnerActs /\ organization = "active"
    /\ branch[b] = "none"
    /\ Cardinality({c \in Branch : branch[c] = "active"}) < BranchLimit
    /\ us # {} /\ us \subseteq Manager
    /\ branch' = [branch EXCEPT ![b] = "active"]
    /\ Invite(us, b)
    /\ UNCHANGED <<application, organization>>

InviteManager(b, u) ==
    /\ OwnerActs /\ u \in Manager
    /\ SeenActive(b)
    /\ Invite({u}, b)
    /\ UNCHANGED <<application, organization, branch>>

Retained(u) == assigned[u].is \in {"invited", "active"}

CountRetainedManagers_All(b, except) ==
    Cardinality({u \in Manager : assigned[u].at = b /\ Retained(u)})
CountRetainedManagers(b, except) ==
    Cardinality({u \in Manager \ {except} : assigned[u].at = b /\ Retained(u)})

RemoveManager(b, u) ==
    /\ OwnerActs /\ branch[b] = "active"
    /\ u \in Manager /\ assigned[u].at = b /\ Retained(u)
    /\ CountRetainedManagers(b, u) >= 1
    /\ \/ /\ account[u] = "invited"
          /\ OutboxOnly(CancelledActions(TokensOf({u}, "account_activation")))
          /\ assigned' = [assigned EXCEPT ![u] = Unassigned]
          /\ member' = [member EXCEPT ![u] = "none"]
          /\ account' = [account EXCEPT ![u] = "deleted"]
          /\ token' = WithoutTokens({u})
       \/ /\ account[u] # "invited"
          /\ assigned' = [assigned EXCEPT ![u].is = "deactivated"]
          /\ member' = [member EXCEPT ![u] = "inactive"]
          /\ account' = [account EXCEPT ![u] = "disabled"]
          /\ UNCHANGED <<token, emailVars>>
    /\ UNCHANGED <<application, organization, branch>>

DeleteBranch(b) ==
    LET us == {u \in User : assigned[u].at = b} IN
    /\ OwnerActs /\ branch[b] = "active"
    /\ branch' = [branch EXCEPT ![b] = "deleted"]
    /\ assigned' = [u \in User |-> IF u \in us THEN Unassigned ELSE assigned[u]]
    /\ member' = [u \in User |-> IF u \in us THEN "none" ELSE member[u]]
    /\ account' = [u \in User |-> IF u \in us THEN "deleted" ELSE account[u]]
    /\ token' = WithoutTokens(us)
    /\ OutboxOnly(CancelledWithBranch({t \in Token : t.user \in us}))
    /\ UNCHANGED <<application, organization>>

-----------------------------------------------------------------------------
(* A branch manager.                                                          *)

ManagerActs(b) ==
    \E m \in Manager :
       /\ assigned[m].at = b
       /\ \/ account[m] = "active" /\ assigned[m].is = "active"
          \/ Late /\ account[m] = "disabled"

CreateStaff(b, u) ==
    /\ ManagerActs(b) /\ SeenActive(b) /\ u \in Staff
    /\ Invite({u}, b)
    /\ UNCHANGED <<application, organization, branch>>

(* The link of staff that has not used it yet stays as it is.                 *)
RemoveStaff(b, u) ==
    /\ ManagerActs(b) /\ u \in Staff /\ assigned[u].at = b /\ Retained(u)
    /\ assigned' = [assigned EXCEPT ![u].is = "deactivated"]
    /\ member' = [member EXCEPT ![u] = "inactive"]
    /\ account' = [account EXCEPT ![u] = "disabled"]
    /\ UNCHANGED <<application, organization, branch, token, emailVars>>

-----------------------------------------------------------------------------
(* The administrator.                                                         *)

SuspendOrganization ==
    /\ organization = "active"
    /\ organization' = "suspended"
    /\ branch' = [b \in Branch |-> IF branch[b] = "active" THEN "inactive" ELSE branch[b]]
    /\ assigned' = [u \in User |-> IF assigned[u].is = "none" THEN assigned[u]
                                   ELSE [assigned[u] EXCEPT !.is = "deactivated"]]
    /\ member' = [u \in User |-> IF member[u] = "none" THEN "none" ELSE "inactive"]
    /\ account' = [u \in User |-> IF member[u] = "none" THEN account[u] ELSE "disabled"]
    /\ UNCHANGED <<application, token, emailVars>>

-----------------------------------------------------------------------------

AccountStep ==
    \/ Submit \/ Approve \/ Reject
    \/ \E t \in Token : Activate(t) \/ RequestPasswordReset(t) \/ ResetPassword(t)
    \/ \E b \in Branch :
         \/ \E us \in SUBSET Manager : CreateBranch(b, us)
         \/ \E u \in Manager : InviteManager(b, u) \/ RemoveManager(b, u)
         \/ DeleteBranch(b)
         \/ \E u \in Staff : CreateStaff(b, u) \/ RemoveStaff(b, u)
    \/ SuspendOrganization

OutboxStep == EmailNext /\ UNCHANGED accountVars

Next == AccountStep \/ OutboxStep

Spec == Init /\ [][Next]_vars

(* The timers of the job keep firing, and a delivery is answered or times     *)
(* out.  Nobody has to apply, invite or follow a link.                        *)
FairSpec == Spec /\ \A w \in Worker : WF_vars(WorkerStep(w) /\ UNCHANGED accountVars)

-----------------------------------------------------------------------------
(* Properties.                                                                *)

(* "A branch must keep at least one manager" (branches.service.ts): whatever  *)
(* invitations, activations and removals come together, an active branch has  *)
(* a manager who is there or may still come.                                  *)
BranchKeepsManager ==
    \A b \in Branch : branch[b] = "active" =>
       \E u \in Manager : assigned[u].at = b /\ Retained(u)

(* What an account may do is spread over four tables that seven transactions  *)
(* write: they agree.  An account that may log in is an active member of an   *)
(* active organization and assigned to an active branch; an invited one waits *)
(* in all of them; the others are nowhere in force.                           *)
AccountsAgree ==
    /\ \A u \in User : (account[u] = "active") <=> (member[u] = "active")
    /\ \A u \in User : account[u] = "active" => organization = "active"
    /\ \A u \in Manager \cup Staff :
         /\ (account[u] = "active") <=> (assigned[u].is = "active")
         /\ (account[u] = "invited") <=> (assigned[u].is = "invited")
         /\ Retained(u) => assigned[u].at # None /\ branch[assigned[u].at] = "active"
    /\ organization = "active" => account[Owner] = "active"
    /\ (application = "approved") <=> (organization # "none")

(* The mail of a link that still works is not forgotten: the mail server has  *)
(* accepted it, or its row is due and keeps the link, or a worker has given   *)
(* it up after all its attempts.  Retries, deaths, overruns, notes of a claim *)
(* that is no longer the last and removals in between cannot cancel it, empty *)
(* it, mark it sent or end it early (issueAccountAction, runEmailDelivery,    *)
(* markRetry, markSent, markFailed).  A row given up stays so: its link works *)
(* and is with nobody.                                                        *)
Underway(t) == email[t].status \in {"pending", "processing"}
GivenUp(t)  == email[t].status = "failed" /\ email[t].attempt >= MaxAttempts
LinkIsMailedOrGivenUp ==
    \A t \in Token : token[t] = "live" =>
       \/ email[t].mailed
       \/ email[t].link /\ (Underway(t) \/ GivenUp(t))

(* A mail does not stay in the outbox: it is sent, fails or is cancelled,     *)
(* also when a worker dies with it in its last attempt.                       *)
EveryEmailEnds ==
    \A e \in Delivered : []<>(email[e].status \notin {"pending", "processing"})
=============================================================================
