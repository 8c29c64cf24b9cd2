---------------------------- MODULE AccountProofs ----------------------------
(* Proofs about AccountActions: a branch keeps a manager, the tables of an    *)
(* account agree, and a link that works is mailed.                            *)
EXTENDS AccountActions, FiniteSetTheorems, TLAPS

-----------------------------------------------------------------------------
(* Types.                                                                     *)

LEMMA InviteTypes ==
    ASSUME AccountTypeOK, NEW us \in SUBSET User, NEW b \in Branch \cup {None}, Invite(us, b)
    PROVE  /\ account' \in [User -> {"none", "invited", "active", "disabled", "deleted"}]
           /\ member' \in [User -> {"none", "inactive", "active"}]
           /\ assigned' \in [User -> [at : Branch \cup {None},
                              is : {"none", "invited", "active", "deactivated"}]]
           /\ token' \in [Token -> {"none", "live", "used", "revoked", "deleted"}]
<1>1. token' \in [Token -> {"none", "live", "used", "revoked", "deleted"}]
  BY DEF AccountTypeOK, Invite, IssueAccountActions, RevokedActive
<1>2. assigned' \in [User -> [at : Branch \cup {None},
                              is : {"none", "invited", "active", "deactivated"}]]
  BY DEF AccountTypeOK, Invite
<1> QED BY <1>1, <1>2 DEF AccountTypeOK, Invite

LEMMA TypeStep ==
    ASSUME AccountTypeOK, [Next]_vars
    PROVE  AccountTypeOK'
<1>1. CASE Submit \/ Reject
  BY <1>1 DEF Submit, Reject, AccountTypeOK
<1>2. CASE Approve
  <2>1. {Owner} \in SUBSET User
    BY DEF User
  <2> QED BY <1>2, <2>1, InviteTypes DEF Approve, AccountTypeOK
<1>3. ASSUME NEW t \in Token, Activate(t)
      PROVE  AccountTypeOK'
  <2>1. t.user \in User
    BY AccountAssumption DEF Token, AccountAssumption
  <2>2. ActivatedAssignment(t.user) \in [at : Branch \cup {None},
                                    is : {"none", "invited", "active", "deactivated"}]
    BY <2>1 DEF ActivatedAssignment, AccountTypeOK
  <2> QED BY <1>3, <2>1, <2>2 DEF Activate, AccountTypeOK
<1>4. ASSUME NEW t \in Token, RequestPasswordReset(t) \/ ResetPassword(t)
      PROVE  AccountTypeOK'
  BY <1>4 DEF RequestPasswordReset, ResetPassword, IssueAccountActions, RevokedActive,
              AccountTypeOK
<1>5. ASSUME NEW b \in Branch, NEW us \in SUBSET Manager, CreateBranch(b, us)
      PROVE  AccountTypeOK'
  <2>1. us \in SUBSET User
    BY DEF User
  <2> QED BY <1>5, <2>1, InviteTypes DEF CreateBranch, AccountTypeOK
<1>6. ASSUME NEW b \in Branch, NEW u \in User, InviteManager(b, u) \/ CreateStaff(b, u)
      PROVE  AccountTypeOK'
  <2>1. {u} \in SUBSET User
    OBVIOUS
  <2> QED BY <1>6, <2>1, InviteTypes DEF InviteManager, CreateStaff, AccountTypeOK
<1>7. ASSUME NEW b \in Branch, NEW u \in User, RemoveManager(b, u) \/ RemoveStaff(b, u)
      PROVE  AccountTypeOK'
  <2>1. /\ assigned' \in {[assigned EXCEPT ![u] = Unassigned],
                          [assigned EXCEPT ![u].is = "deactivated"]}
        /\ member' \in {[member EXCEPT ![u] = "none"], [member EXCEPT ![u] = "inactive"]}
        /\ account' \in {[account EXCEPT ![u] = "deleted"],
                         [account EXCEPT ![u] = "disabled"]}
        /\ token' \in {WithoutTokens({u}), token}
        /\ UNCHANGED <<application, organization, branch>>
    BY <1>7 DEF RemoveManager, RemoveStaff
  <2>2. assigned' \in [User -> [at : Branch \cup {None},
                                is : {"none", "invited", "active", "deactivated"}]]
    <3> DEFINE A == [at : Branch \cup {None}, is : {"none", "invited", "active", "deactivated"}]
               r == [assigned[u] EXCEPT !.is = "deactivated"]
    <3>1. assigned \in [User -> A] /\ Unassigned \in A
      BY DEF Unassigned, AccountTypeOK
    <3>2. r \in A
      BY <3>1
    <3>3. assigned' \in {[assigned EXCEPT ![u] = Unassigned], [assigned EXCEPT ![u] = r]}
      BY <2>1
    <3> HIDE DEF A, r
    <3>4. assigned' \in [User -> A]
      BY <3>1, <3>2, <3>3
    <3> QED BY <3>4 DEF A
  <2>3. token' \in [Token -> {"none", "live", "used", "revoked", "deleted"}]
    BY <2>1 DEF WithoutTokens, AccountTypeOK
  <2> QED BY <2>1, <2>2, <2>3 DEF AccountTypeOK
<1>8. ASSUME NEW b \in Branch, DeleteBranch(b)
      PROVE  AccountTypeOK'
  BY <1>8 DEF DeleteBranch, WithoutTokens, Unassigned, AccountTypeOK
<1>9. CASE SuspendOrganization
  BY <1>9 DEF SuspendOrganization, AccountTypeOK
<1>10. CASE OutboxStep \/ UNCHANGED vars
  BY <1>10 DEF OutboxStep, vars, accountVars, AccountTypeOK
<1> QED BY <1>1, <1>2, <1>3, <1>4, <1>5, <1>6, <1>7, <1>8, <1>9, <1>10
        DEF Next, AccountStep, User

LEMMA AccountTypes == Spec => []AccountTypeOK
<1>1. Init => AccountTypeOK
  BY DEF Init, Unassigned, AccountTypeOK
<1> QED BY <1>1, TypeStep, PTL DEF Spec

-----------------------------------------------------------------------------
(* Managers.                                                                  *)

(* A user that does not exist is assigned nowhere.                            *)
Unborn == \A u \in User : account[u] = "none" => assigned[u] = Unassigned

LEMMA InviteUnborn ==
    ASSUME AccountTypeOK, Unborn, NEW us \in SUBSET User, NEW b \in Branch \cup {None},
           Invite(us, b)
    PROVE  /\ Unborn'
           /\ \A u \in User \ us : assigned'[u] = assigned[u]
           /\ \A u \in us : /\ assigned[u] = Unassigned
                            /\ assigned'[u] = IF b # None THEN [at |-> b, is |-> "invited"]
                                              ELSE Unassigned
BY DEF AccountTypeOK, Unborn, Invite

LEMMA UnbornStep ==
    ASSUME AccountTypeOK, Unborn, [Next]_vars
    PROVE  Unborn'
<1>1. CASE Submit \/ Reject
  BY <1>1 DEF Submit, Reject, Unborn
<1>2. CASE Approve
  <2>1. {Owner} \in SUBSET User
    BY DEF User
  <2> QED BY <1>2, <2>1, InviteUnborn DEF Approve
<1>3. ASSUME NEW t \in Token, Activate(t)
      PROVE  Unborn'
  <2>1. t.user \in User
    BY AccountAssumption DEF Token, AccountAssumption
  <2> QED BY <1>3, <2>1 DEF Activate, AccountTypeOK, Unborn
<1>4. ASSUME NEW t \in Token, RequestPasswordReset(t) \/ ResetPassword(t)
      PROVE  Unborn'
  BY <1>4 DEF RequestPasswordReset, ResetPassword, Unborn
<1>5. ASSUME NEW b \in Branch, NEW us \in SUBSET Manager, CreateBranch(b, us)
      PROVE  Unborn'
  <2>1. us \in SUBSET User
    BY DEF User
  <2> QED BY <1>5, <2>1, InviteUnborn DEF CreateBranch
<1>6. ASSUME NEW b \in Branch, NEW u \in User, InviteManager(b, u) \/ CreateStaff(b, u)
      PROVE  Unborn'
  <2>1. {u} \in SUBSET User
    OBVIOUS
  <2> QED BY <1>6, <2>1, InviteUnborn DEF InviteManager, CreateStaff
<1>7. ASSUME NEW b \in Branch, NEW u \in User, RemoveManager(b, u) \/ RemoveStaff(b, u)
      PROVE  Unborn'
  <2>1. /\ \A v \in User \ {u} : assigned'[v] = assigned[v] /\ account'[v] = account[v]
        /\ account'[u] \in {"deleted", "disabled"}
    BY <1>7 DEF RemoveManager, RemoveStaff, AccountTypeOK
  <2> QED BY <2>1 DEF Unborn
<1>8. ASSUME NEW b \in Branch, DeleteBranch(b)
      PROVE  Unborn'
  BY <1>8 DEF DeleteBranch, AccountTypeOK, Unborn
<1>9. CASE SuspendOrganization
  BY <1>9 DEF SuspendOrganization, AccountTypeOK, Unborn, Unassigned
<1>10. CASE OutboxStep \/ UNCHANGED vars
  BY <1>10 DEF OutboxStep, vars, accountVars, Unborn
<1> QED BY <1>1, <1>2, <1>3, <1>4, <1>5, <1>6, <1>7, <1>8, <1>9, <1>10
        DEF Next, AccountStep, User

(* A manager that a branch has.                                               *)
Manages(u, b) == assigned[u].at = b /\ Retained(u)

LEMMA InviteKeeps ==
    ASSUME AccountTypeOK, Unborn, NEW us \in SUBSET User, NEW b \in Branch \cup {None},
           Invite(us, b), NEW c \in Branch
    PROVE  \A u \in User : Manages(u, c) => Manages(u, c)'
<1> SUFFICES ASSUME NEW u \in User, Manages(u, c) PROVE Manages(u, c)'
  OBVIOUS
<1>1. u \notin us
  <2>1. assigned[u] # Unassigned
    BY DEF Manages, Retained, Unassigned
  <2> QED BY <2>1, InviteUnborn
<1>2. assigned'[u] = assigned[u]
  BY <1>1, InviteUnborn
<1> QED BY <1>2 DEF Manages, Retained

(* The managers that are left, when only assignments elsewhere change.        *)
LEMMA ManagersLeft ==
    ASSUME BranchKeepsManager, NEW b \in Branch, branch[b] = "active",
           \A u \in Manager : Manages(u, b) => Manages(u, b)'
    PROVE  \E u \in Manager : Manages(u, b)'
BY DEF BranchKeepsManager, Manages

(* An active branch keeps a manager: the last one who is there or may still   *)
(* come is not removed, and a branch comes with one.                          *)
THEOREM BranchesKeepManagers == Spec => []BranchKeepsManager
<1>1. Init => Unborn /\ BranchKeepsManager
  BY DEF Init, Unborn, BranchKeepsManager
<1>2. AccountTypeOK /\ Unborn /\ BranchKeepsManager /\ [Next]_vars => BranchKeepsManager'
  <2> SUFFICES ASSUME AccountTypeOK, Unborn, BranchKeepsManager, [Next]_vars,
                      NEW c \in Branch, branch'[c] = "active"
               PROVE  \E u \in Manager : Manages(u, c)'
    BY DEF BranchKeepsManager, Manages
  <2>0. Manager \subseteq User /\ Staff \subseteq User /\ Manager \cap Staff = {}
        /\ Owner \notin Manager
    BY AccountAssumption DEF User, AccountAssumption
  <2>1. CASE Submit \/ Reject
    BY <2>1, ManagersLeft DEF Submit, Reject, Manages, Retained
  <2>2. CASE Approve
    <3>1. {Owner} \in SUBSET User /\ Invite({Owner}, None)
      BY <2>2 DEF User, Approve
    <3>2. \A u \in Manager : assigned'[u] = assigned[u]
      BY <2>0, <3>1, InviteUnborn
    <3> QED BY <2>2, <3>2, ManagersLeft DEF Approve, Manages, Retained
  <2>3. ASSUME NEW t \in Token, Activate(t)
        PROVE  \E u \in Manager : Manages(u, c)'
    <3>1. t.user \in User
      BY AccountAssumption DEF Token, AccountAssumption
    <3>2. \A u \in Manager : Manages(u, c) => Manages(u, c)'
      BY <2>0, <2>3, <3>1 DEF Activate, ActivatedAssignment, AccountTypeOK, Manages, Retained
    <3> QED BY <2>3, <3>2, ManagersLeft DEF Activate
  <2>4. ASSUME NEW t \in Token, RequestPasswordReset(t) \/ ResetPassword(t)
        PROVE  \E u \in Manager : Manages(u, c)'
    BY <2>4, ManagersLeft DEF RequestPasswordReset, ResetPassword, Manages, Retained
  <2>5. ASSUME NEW b \in Branch, NEW us \in SUBSET Manager, CreateBranch(b, us)
        PROVE  \E u \in Manager : Manages(u, c)'
    <3>1. us \in SUBSET User /\ us # {} /\ Invite(us, b) /\ b # None
      BY <2>0, <2>5, AccountAssumption DEF CreateBranch, AccountAssumption
    <3>2. CASE c = b
      <4>1. PICK u \in us : assigned'[u] = [at |-> b, is |-> "invited"]
        BY <3>1, InviteUnborn
      <4>2. Manages(u, b)'
        BY <4>1 DEF Manages, Retained
      <4> QED BY <3>2, <4>2
    <3>3. CASE c # b
      <4>1. branch[c] = "active"
        BY <2>5, <3>3 DEF CreateBranch, AccountTypeOK
      <4>2. \A u \in Manager : Manages(u, c) => Manages(u, c)'
        BY <2>0, <3>1, InviteKeeps
      <4> QED BY <4>1, <4>2, ManagersLeft
    <3> QED BY <3>2, <3>3
  <2>6. ASSUME NEW b \in Branch, NEW v \in User, InviteManager(b, v) \/ CreateStaff(b, v)
        PROVE  \E u \in Manager : Manages(u, c)'
    <3>1. {v} \in SUBSET User /\ Invite({v}, b) /\ branch' = branch
      BY <2>6 DEF InviteManager, CreateStaff
    <3>2. \A u \in Manager : Manages(u, c) => Manages(u, c)'
      BY <2>0, <3>1, InviteKeeps
    <3> QED BY <3>1, <3>2, ManagersLeft
  <2>7. ASSUME NEW b \in Branch, NEW v \in User, RemoveManager(b, v)
        PROVE  \E u \in Manager : Manages(u, c)'
    <3>1. /\ branch' = branch /\ assigned[v].at = b
          /\ \A u \in User \ {v} : assigned'[u] = assigned[u]
      BY <2>7 DEF RemoveManager, AccountTypeOK
    <3>2. CASE c # b
      <4>1. \A u \in Manager : Manages(u, c) => Manages(u, c)'
        BY <2>0, <3>1, <3>2 DEF Manages, Retained
      <4> QED BY <3>1, <4>1, ManagersLeft
    <3>3. CASE c = b
      <4> DEFINE S == {u \in Manager \ {v} : assigned[u].at = b /\ Retained(u)}
      <4>1. Cardinality(S) >= 1
        BY <2>7 DEF RemoveManager, CountRetainedManagers
      <4>2. S # {}
        <5> HIDE DEF S
        <5> QED BY <4>1, FS_EmptySet
      <4>3. PICK u \in Manager \ {v} : Manages(u, b)
        BY <4>2 DEF Manages
      <4>4. Manages(u, b)'
        BY <2>0, <3>1, <4>3 DEF Manages, Retained
      <4> QED BY <3>3, <4>4
    <3> QED BY <3>2, <3>3
  <2>8. ASSUME NEW b \in Branch, NEW v \in Staff, RemoveStaff(b, v)
        PROVE  \E u \in Manager : Manages(u, c)'
    <3>1. branch' = branch /\ \A u \in Manager : assigned'[u] = assigned[u]
      BY <2>0, <2>8 DEF RemoveStaff, AccountTypeOK
    <3> QED BY <3>1, ManagersLeft DEF Manages, Retained
  <2>9. ASSUME NEW b \in Branch, DeleteBranch(b)
        PROVE  \E u \in Manager : Manages(u, c)'
    <3>1. c # b /\ branch[c] = "active"
      BY <2>9 DEF DeleteBranch, AccountTypeOK
    <3>2. \A u \in Manager : Manages(u, c) => Manages(u, c)'
      BY <2>0, <2>9, <3>1 DEF DeleteBranch, AccountTypeOK, Manages, Retained
    <3> QED BY <3>1, <3>2, ManagersLeft
  <2>10. CASE SuspendOrganization
    BY <2>10 DEF SuspendOrganization, AccountTypeOK
  <2>11. CASE OutboxStep \/ UNCHANGED vars
    BY <2>11, ManagersLeft DEF OutboxStep, vars, accountVars, Manages, Retained
  <2> QED BY <2>0, <2>1, <2>2, <2>3, <2>4, <2>5, <2>6, <2>7, <2>8, <2>9, <2>10, <2>11
          DEF Next, AccountStep
<1> QED BY <1>1, <1>2, UnbornStep, AccountTypes, PTL DEF Spec

-----------------------------------------------------------------------------
(* The tables of an account.                                                  *)

Invitee == Manager \cup Staff

(* The rows of one manager or member of staff.                                *)
MemberAgrees(u) ==
    /\ (account[u] = "active") <=> (member[u] = "active")
    /\ account[u] = "invited" => member[u] = "inactive"
    /\ (account[u] = "active") <=> (assigned[u].is = "active")
    /\ (account[u] = "invited") <=> (assigned[u].is = "invited")
    /\ Retained(u) => /\ assigned[u].at # None /\ branch[assigned[u].at] = "active"
                      /\ organization = "active"

(* The owner is assigned to no branch and comes and goes with the             *)
(* organization.                                                              *)
OwnerAgrees ==
    /\ assigned[Owner] = Unassigned
    /\ (account[Owner] = "active") <=> (member[Owner] = "active")
    /\ account[Owner] = "invited" => member[Owner] = "inactive"
    /\ (account[Owner] = "invited") <=> (organization = "pending_activation")
    /\ (account[Owner] = "active") <=> (organization = "active")
    /\ (application = "approved") <=> (organization # "none")

AgreeInv == OwnerAgrees /\ \A u \in Invitee : MemberAgrees(u)

LEMMA Users == /\ User = {Owner} \cup Invitee /\ Owner \in User /\ Owner \notin Invitee
               /\ None \notin Branch /\ \A t \in Token : t.user \in User
BY AccountAssumption DEF AccountAssumption, User, Invitee, Token

(* An invitation of managers or staff to an active branch.                    *)
LEMMA InviteAgrees ==
    ASSUME AccountTypeOK, Unborn, AgreeInv, NEW us \in SUBSET Invitee, NEW b \in Branch,
           Invite(us, b), organization = "active", branch'[b] = "active",
           \A c \in Branch : branch[c] = "active" => branch'[c] = "active",
           UNCHANGED <<application, organization>>
    PROVE  AgreeInv'
<1>1. \A u \in User \ us : /\ account'[u] = account[u] /\ member'[u] = member[u]
                           /\ assigned'[u] = assigned[u]
  BY DEF Invite, AccountTypeOK
<1>2. OwnerAgrees'
  BY <1>1, Users DEF AgreeInv, OwnerAgrees
<1>3. ASSUME NEW u \in Invitee PROVE MemberAgrees(u)'
  <2>1. CASE u \in us
    <3>1. /\ account'[u] = "invited" /\ member'[u] = "inactive"
          /\ assigned'[u] = [at |-> b, is |-> "invited"]
      BY <2>1, Users DEF Invite, AccountTypeOK
    <3> QED BY <3>1, Users DEF MemberAgrees, Retained
  <2>2. CASE u \notin us
    <3>1. MemberAgrees(u)
      BY DEF AgreeInv
    <3>2. assigned[u].at \in Branch \cup {None}
      BY Users DEF AccountTypeOK
    <3> QED BY <1>1, <2>2, <3>1, <3>2, Users DEF MemberAgrees, Retained
  <2> QED BY <2>1, <2>2
<1> QED BY <1>2, <1>3 DEF AgreeInv

(* A step that leaves every user's tables as they are.                        *)
LEMMA AgreeSame ==
    ASSUME AgreeInv, UNCHANGED <<organization, branch, account, member, assigned>>,
           application' = "approved" <=> application = "approved"
    PROVE  AgreeInv'
BY DEF AgreeInv, OwnerAgrees, MemberAgrees, Retained

(* A removal of one manager or member of staff.                               *)
LEMMA RemovalAgrees ==
    ASSUME AccountTypeOK, AgreeInv, NEW u \in Invitee,
           UNCHANGED <<application, organization, branch>>,
           \A v \in User \ {u} : /\ account'[v] = account[v] /\ member'[v] = member[v]
                                 /\ assigned'[v] = assigned[v],
           account'[u] \in {"deleted", "disabled"}, member'[u] # "active",
           assigned'[u].is \in {"none", "deactivated"}
    PROVE  AgreeInv'
<1>1. OwnerAgrees'
  BY Users DEF AgreeInv, OwnerAgrees
<1>2. ASSUME NEW v \in Invitee PROVE MemberAgrees(v)'
  <2>1. CASE v = u
    BY <2>1 DEF MemberAgrees, Retained
  <2>2. CASE v # u
    BY <2>2, Users DEF AgreeInv, MemberAgrees, Retained
  <2> QED BY <2>1, <2>2
<1> QED BY <1>1, <1>2 DEF AgreeInv

LEMMA AgreeStep ==
    ASSUME Circumstance = {}, AccountTypeOK, Unborn, AgreeInv, [Next]_vars
    PROVE  AgreeInv'
<1>a. OwnerActs => organization = "active"
  BY DEF OwnerActs, Late, AgreeInv, OwnerAgrees
<1>b. ASSUME NEW b \in Branch, ManagerActs(b) PROVE organization = "active"
  BY <1>b DEF ManagerActs, Late, AgreeInv, MemberAgrees, Invitee, Retained
<1>1. CASE Submit \/ Reject
  BY <1>1, AgreeSame DEF Submit, Reject
<1>2. CASE Approve
  <2>1. /\ organization = "none" /\ organization' = "pending_activation"
        /\ application' = "approved" /\ branch' = branch
    BY <1>2 DEF Approve, AgreeInv, OwnerAgrees
  <2>2. /\ account[Owner] = "none"
        /\ account'[Owner] = "invited" /\ member'[Owner] = "inactive"
        /\ assigned'[Owner] = assigned[Owner]
        /\ \A u \in Invitee : /\ account'[u] = account[u] /\ member'[u] = member[u]
                              /\ assigned'[u] = assigned[u]
    BY <1>2, Users DEF Approve, Invite, AccountTypeOK
  <2>3. OwnerAgrees'
    BY <2>1, <2>2 DEF AgreeInv, OwnerAgrees
  <2>4. \A u \in Invitee : MemberAgrees(u)'
    BY <2>1, <2>2 DEF AgreeInv, MemberAgrees, Retained
  <2> QED BY <2>3, <2>4 DEF AgreeInv
<1>3. ASSUME NEW t \in Token, Activate(t)
      PROVE  AgreeInv'
  <2> DEFINE u == t.user
  <2>1. u \in User /\ account[u] = "invited"
    BY <1>3, Users DEF Activate
  <2>2. /\ account'[u] = "active" /\ member'[u] = "active"
        /\ assigned'[u] = ActivatedAssignment(u)
        /\ \A v \in User \ {u} : /\ account'[v] = account[v] /\ member'[v] = member[v]
                                 /\ assigned'[v] = assigned[v]
        /\ application' = application /\ branch' = branch
    BY <1>3, <2>1 DEF Activate, AccountTypeOK
  <2>3. organization' = IF u = Owner THEN "active" ELSE organization
    BY <1>3 DEF Activate
  <2> HIDE DEF u
  <2>4. CASE u = Owner
    <3>1. organization = "pending_activation"
      BY <2>1, <2>4 DEF AgreeInv, OwnerAgrees
    <3>2. assigned'[u] = Unassigned
      BY <2>2, <2>4 DEF AgreeInv, OwnerAgrees, ActivatedAssignment, Unassigned
    <3>3. OwnerAgrees'
      BY <2>2, <2>3, <2>4, <3>1, <3>2 DEF AgreeInv, OwnerAgrees
    <3>4. \A v \in Invitee : MemberAgrees(v)'
      BY <2>2, <2>3, <2>4, <3>1, Users DEF AgreeInv, MemberAgrees, Retained
    <3> QED BY <3>3, <3>4 DEF AgreeInv
  <2>5. CASE u # Owner
    <3>1. u \in Invitee /\ MemberAgrees(u)
      BY <2>1, <2>5, Users DEF AgreeInv
    <3>2. assigned[u].is = "invited" /\ assigned[u].at \in Branch \cup {None}
      BY <2>1, <3>1 DEF MemberAgrees, AccountTypeOK
    <3>3. assigned'[u].is = "active" /\ assigned'[u].at = assigned[u].at
      BY <2>1, <2>2, <3>2 DEF ActivatedAssignment, AccountTypeOK
    <3>4. MemberAgrees(u)'
      BY <2>2, <2>3, <2>5, <3>1, <3>2, <3>3 DEF MemberAgrees, Retained
    <3>5. OwnerAgrees'
      BY <2>2, <2>3, <2>5, Users DEF AgreeInv, OwnerAgrees
    <3>6. ASSUME NEW v \in Invitee, v # u PROVE MemberAgrees(v)'
      BY <2>2, <2>3, <2>5, <3>6, Users DEF AgreeInv, MemberAgrees, Retained
    <3> QED BY <3>4, <3>5, <3>6 DEF AgreeInv
  <2> QED BY <2>4, <2>5
<1>4. ASSUME NEW t \in Token, RequestPasswordReset(t) \/ ResetPassword(t)
      PROVE  AgreeInv'
  BY <1>4, AgreeSame DEF RequestPasswordReset, ResetPassword
<1>5. ASSUME NEW b \in Branch, NEW us \in SUBSET Manager, CreateBranch(b, us)
      PROVE  AgreeInv'
  <2>1. us \in SUBSET Invitee /\ Invite(us, b) /\ organization = "active"
    BY <1>5 DEF CreateBranch, Invitee
  <2>2. /\ branch'[b] = "active"
        /\ \A c \in Branch : branch[c] = "active" => branch'[c] = "active"
        /\ UNCHANGED <<application, organization>>
    BY <1>5 DEF CreateBranch, AccountTypeOK
  <2> QED BY <2>1, <2>2, InviteAgrees
<1>6. ASSUME NEW b \in Branch, NEW u \in Invitee, InviteManager(b, u) \/ CreateStaff(b, u)
      PROVE  AgreeInv'
  <2>1. {u} \in SUBSET Invitee /\ Invite({u}, b) /\ organization = "active"
    BY <1>6, <1>a, <1>b DEF InviteManager, CreateStaff
  <2>2. /\ branch[b] = "active" /\ branch' = branch
        /\ UNCHANGED <<application, organization>>
    BY <1>6 DEF InviteManager, CreateStaff, SeenActive, Late
  <2> QED BY <2>1, <2>2, InviteAgrees
<1>7. ASSUME NEW b \in Branch, NEW u \in Invitee, RemoveManager(b, u) \/ RemoveStaff(b, u)
      PROVE  AgreeInv'
  <2>1. /\ assigned' \in {[assigned EXCEPT ![u] = Unassigned],
                          [assigned EXCEPT ![u].is = "deactivated"]}
        /\ member' \in {[member EXCEPT ![u] = "none"], [member EXCEPT ![u] = "inactive"]}
        /\ account' \in {[account EXCEPT ![u] = "deleted"],
                         [account EXCEPT ![u] = "disabled"]}
        /\ UNCHANGED <<application, organization, branch>>
    BY <1>7 DEF RemoveManager, RemoveStaff
  <2>2. u \in User
    BY Users
  <2>3. /\ assigned'[u].is \in {"none", "deactivated"}
        /\ \A v \in User \ {u} : assigned'[v] = assigned[v]
    BY <2>1, <2>2 DEF AccountTypeOK, Unassigned
  <2>4. /\ account'[u] \in {"deleted", "disabled"} /\ member'[u] # "active"
        /\ \A v \in User \ {u} : account'[v] = account[v] /\ member'[v] = member[v]
    BY <2>1, <2>2 DEF AccountTypeOK
  <2> QED BY <2>1, <2>3, <2>4, RemovalAgrees
<1>8. ASSUME NEW b \in Branch, DeleteBranch(b)
      PROVE  AgreeInv'
  <2> DEFINE us == {u \in User : assigned[u].at = b}
  <2>1. /\ \A u \in us : /\ account'[u] = "deleted" /\ member'[u] = "none"
                         /\ assigned'[u] = Unassigned
        /\ \A u \in User \ us : /\ account'[u] = account[u] /\ member'[u] = member[u]
                                /\ assigned'[u] = assigned[u]
        /\ \A c \in Branch : c # b => branch'[c] = branch[c]
        /\ UNCHANGED <<application, organization>>
    BY <1>8 DEF DeleteBranch, AccountTypeOK
  <2>2. Owner \notin us
    BY Users DEF AgreeInv, OwnerAgrees, Unassigned
  <2>3. OwnerAgrees'
    <3> HIDE DEF us
    <3> QED BY <2>1, <2>2, Users DEF AgreeInv, OwnerAgrees
  <2>4. ASSUME NEW u \in Invitee PROVE MemberAgrees(u)'
    <3>1. CASE u \in us
      <4> HIDE DEF us
      <4> QED BY <2>1, <3>1 DEF MemberAgrees, Retained, Unassigned
    <3>2. CASE u \notin us
      <4>1. u \in User /\ assigned[u].at # b /\ assigned[u].at \in Branch \cup {None}
        BY <3>2, Users DEF AccountTypeOK
      <4> HIDE DEF us
      <4>2. /\ account'[u] = account[u] /\ member'[u] = member[u]
            /\ assigned'[u] = assigned[u]
        BY <2>1, <3>2, <4>1
      <4> QED BY <2>1, <4>1, <4>2 DEF AgreeInv, MemberAgrees, Retained
    <3> QED BY <3>1, <3>2
  <2> QED BY <2>3, <2>4 DEF AgreeInv
<1>9. CASE SuspendOrganization
  <2>1. /\ organization = "active" /\ organization' = "suspended"
        /\ application' = application
        /\ \A u \in User :
             /\ member'[u] = IF member[u] = "none" THEN "none" ELSE "inactive"
             /\ account'[u] = IF member[u] = "none" THEN account[u] ELSE "disabled"
             /\ assigned'[u] = IF assigned[u].is = "none" THEN assigned[u]
                               ELSE [assigned[u] EXCEPT !.is = "deactivated"]
    BY <1>9 DEF SuspendOrganization
  <2>2. OwnerAgrees'
    <3>1. assigned[Owner] = Unassigned /\ account[Owner] = "active" /\ member[Owner] = "active"
      BY <2>1 DEF AgreeInv, OwnerAgrees
    <3>2. assigned[Owner].is = "none"
      BY <3>1 DEF Unassigned
    <3>3. /\ assigned'[Owner] = Unassigned /\ member'[Owner] = "inactive"
          /\ account'[Owner] = "disabled"
      BY <2>1, <3>1, <3>2, Users
    <3> QED BY <2>1, <3>3 DEF AgreeInv, OwnerAgrees
  <2>3. ASSUME NEW u \in Invitee PROVE MemberAgrees(u)'
    <3>1. u \in User /\ MemberAgrees(u)
      BY Users DEF AgreeInv
    <3>2. assigned'[u].is \in {"none", "deactivated"}
      <4>1. CASE assigned[u].is = "none"
        <5>1. assigned'[u] = assigned[u]
          BY <2>1, <3>1, <4>1
        <5> QED BY <4>1, <5>1
      <4>2. CASE assigned[u].is # "none"
        <5>1. /\ assigned'[u] = [assigned[u] EXCEPT !.is = "deactivated"]
              /\ assigned[u] \in [at : Branch \cup {None},
                                   is : {"none", "invited", "active", "deactivated"}]
          BY <2>1, <3>1, <4>2 DEF AccountTypeOK
        <5> QED BY <5>1
      <4> QED BY <4>1, <4>2
    <3>3. account'[u] \notin {"active", "invited"} /\ member'[u] # "active"
      BY <2>1, <3>1 DEF MemberAgrees
    <3> QED BY <3>2, <3>3 DEF MemberAgrees, Retained
  <2> QED BY <2>2, <2>3 DEF AgreeInv
<1>10. CASE OutboxStep \/ UNCHANGED vars
  BY <1>10, AgreeSame DEF OutboxStep, vars, accountVars
<1> QED BY <1>1, <1>2, <1>3, <1>4, <1>5, <1>6, <1>7, <1>8, <1>9, <1>10
        DEF Next, AccountStep, Invitee

(* The four tables that say what an account may do agree, when no request of  *)
(* a suspended organization is still under way.                               *)
THEOREM AccountTablesAgree ==
    ASSUME Circumstance = {}
    PROVE  Spec => []AccountsAgree
<1>1. Init => Unborn /\ AgreeInv
  BY DEF Init, Unborn, AgreeInv, OwnerAgrees, MemberAgrees, Retained, Unassigned, User, Invitee
<1>2. AccountTypeOK /\ Unborn /\ AgreeInv /\ [Next]_vars => AgreeInv'
  BY AgreeStep
<1>3. AgreeInv => AccountsAgree
  <2> SUFFICES ASSUME AgreeInv PROVE AccountsAgree
    OBVIOUS
  <2>1. \A u \in User : /\ (account[u] = "active") <=> (member[u] = "active")
                        /\ account[u] = "active" => organization = "active"
    BY Users DEF AgreeInv, OwnerAgrees, MemberAgrees, Retained
  <2> QED BY <2>1 DEF AgreeInv, OwnerAgrees, MemberAgrees, AccountsAgree, Invitee
<1> QED BY <1>1, <1>2, <1>3, UnbornStep, AccountTypes, PTL DEF Spec

-----------------------------------------------------------------------------
(* Links and their mails.                                                     *)

Mail  == [status : EmailStatus, attempt : Int, link : BOOLEAN, mailed : BOOLEAN]
Claim == [id : Email, attempt : Int, link : BOOLEAN]
Work  == [todo : SUBSET Claim, at : {"ready", "accepted", "threw"}, now : SUBSET Claim]

MailTypeOK == email \in [Email -> Mail] /\ worker \in [Worker -> Work]

Linked(t) == token[t] = "live" =>
                \/ email[t].mailed
                \/ email[t].link /\ (Underway(t) \/ GivenUp(t))

(* The tokens of users that do not exist, and the mails of tokens that do     *)
(* not.                                                                       *)
NoToken == \A t \in Token : account[t.user] = "none" => token[t] = "none"
NoMail  == \A t \in Token : token[t] = "none" => email[t].status = "none"

(* A worker holds rows that are there, with attempts they have had, and has   *)
(* mailed what it says it has.                                                *)
WorkerKnows(w) ==
    /\ \A c \in worker[w].todo \cup worker[w].now :
          email[c.id].status # "none" /\ c.attempt <= email[c.id].attempt
    /\ worker[w].at = "accepted" => \A c \in worker[w].now : email[c.id].mailed
    /\ worker[w].at = "ready" => worker[w].now = {}

MailInv == MailTypeOK /\ \A w \in Worker : WorkerKnows(w)
LinkInv == NoMail /\ \A t \in Token : Linked(t)

LEMMA TokenMails == Token \subseteq Email /\ Notices \subseteq Email
                    /\ WithLink = Token /\ Token \cap Notices = {}
BY AccountAssumption DEF AccountAssumption, Token, Notices

(* Steps that change no row that a worker may hold, but to cancel it.         *)
LEMMA WorkersKnow ==
    ASSUME MailInv, worker' = worker, email' \in [Email -> Mail],
           \A e \in Email : email[e].status # "none" =>
                              /\ email'[e].status # "none"
                              /\ email'[e].mailed = email[e].mailed
                              /\ email'[e].attempt = email[e].attempt
    PROVE  MailInv'
BY DEF MailInv, MailTypeOK, WorkerKnows, Work, Claim

LEMMA EnqueueMails ==
    ASSUME MailInv, NEW rows \in SUBSET Email, OutboxOnly(Enqueued(rows))
    PROVE  /\ MailInv'
           /\ \A e \in Email : email[e].status # "none" \/ e \notin rows => email'[e] = email[e]
           /\ \A e \in rows : email[e].status = "none" =>
                 email'[e].status = "pending" /\ email'[e].link = (e \in WithLink)
<1>1. email \in [Email -> Mail] /\ worker' = worker
  BY DEF MailInv, MailTypeOK, OutboxOnly
<1>2. ASSUME NEW e \in Email
      PROVE  /\ email'[e] \in Mail
             /\ email[e].status # "none" \/ e \notin rows => email'[e] = email[e]
             /\ email[e].status = "none" /\ e \in rows =>
                  email'[e].status = "pending" /\ email'[e].link = (e \in WithLink)
  <2>1. CASE e \in rows /\ email[e].status = "none"
    <3> DEFINE link == e \in WithLink
    <3>0. link \in BOOLEAN
      OBVIOUS
    <3>1. email'[e] = [NoEmail EXCEPT !.status = "pending", !.link = link]
      BY <2>1 DEF OutboxOnly, Enqueued
    <3> HIDE DEF link
    <3>2. email'[e] = [status |-> "pending", attempt |-> 0, link |-> link, mailed |-> FALSE]
      BY <3>1 DEF NoEmail
    <3>3. email'[e] \in Mail /\ email'[e].status = "pending" /\ email'[e].link = link
      BY <3>0, <3>2 DEF Mail, EmailStatus
    <3> QED BY <2>1, <3>3 DEF link
  <2>2. CASE ~ (e \in rows /\ email[e].status = "none")
    <3>1. email'[e] = email[e]
      BY <2>2 DEF OutboxOnly, Enqueued
    <3> QED BY <1>1, <2>2, <3>1
  <2> QED BY <2>1, <2>2
<1>3. email' \in [Email -> Mail]
  <2>1. email' = [e \in Email |-> email'[e]]
    BY DEF OutboxOnly, Enqueued
  <2> QED BY <1>2, <2>1
<1>4. MailInv'
  BY <1>1, <1>2, <1>3, WorkersKnow
<1> QED BY <1>2, <1>4

LEMMA IssueLinks ==
    ASSUME AccountTypeOK, MailInv, LinkInv, NEW new \in SUBSET Token,
           \A t \in new : token[t] = "none", IssueAccountActions(new)
    PROVE  MailInv' /\ LinkInv' /\ \A t \in Token \ new : token'[t] = "none" <=> token[t] = "none"
<1>1. new \in SUBSET Email /\ OutboxOnly(Enqueued(new))
  BY TokenMails DEF IssueAccountActions
<1>2. /\ MailInv'
      /\ \A e \in Email : email[e].status # "none" \/ e \notin new => email'[e] = email[e]
      /\ \A e \in new : email[e].status = "none" =>
            email'[e].status = "pending" /\ email'[e].link = (e \in WithLink)
  BY <1>1, EnqueueMails
<1>3. \A t \in new : /\ token'[t] = "live"
                     /\ email'[t].status = "pending" /\ email'[t].link
  BY <1>2, TokenMails DEF IssueAccountActions, LinkInv, NoMail
<1>4. \A t \in Token \ new : /\ email'[t] = email[t]
                             /\ \/ token'[t] = token[t]
                                \/ token'[t] = "revoked" /\ token[t] = "live"
  BY <1>2, TokenMails DEF IssueAccountActions, RevokedActive
<1>5. NoMail'
  BY <1>3, <1>4 DEF LinkInv, NoMail
<1>6. \A t \in Token : Linked(t)'
  BY <1>3, <1>4 DEF LinkInv, Linked, Underway, GivenUp
<1> QED BY <1>2, <1>4, <1>5, <1>6 DEF LinkInv

(* Notices.                                                                   *)
LEMMA NoticesOnly ==
    ASSUME MailInv, LinkInv, NEW rows \in SUBSET Notices, OutboxOnly(Enqueued(rows)),
           token' = token
    PROVE  MailInv' /\ LinkInv'
<1>1. rows \in SUBSET Email
  BY TokenMails
<1>2. MailInv' /\ \A t \in Token : email'[t] = email[t]
  BY <1>1, EnqueueMails, TokenMails
<1> QED BY <1>2 DEF LinkInv, NoMail, Linked, Underway, GivenUp

(* Mails are cancelled of users whose tokens are deleted.                     *)
LEMMA CancelMails ==
    ASSUME AccountTypeOK, MailInv, LinkInv, NEW us \in SUBSET User, token' = WithoutTokens(us),
           NEW rows \in SUBSET Token, \A t \in rows : t.user \in us,
           \/ OutboxOnly(CancelledActions(rows))
           \/ OutboxOnly(CancelledWithBranch(rows))
    PROVE  MailInv' /\ LinkInv'
<1>1. email \in [Email -> Mail] /\ worker' = worker
  BY DEF MailInv, MailTypeOK, OutboxOnly
<1>2. ASSUME NEW e \in Email
      PROVE  /\ email'[e] \in Mail
             /\ email'[e].mailed = email[e].mailed
             /\ email'[e].attempt = email[e].attempt
             /\ (email'[e].status = "none") <=> (email[e].status = "none")
             /\ e \notin rows => email'[e] = email[e]
  <2>1. \/ email'[e] = email[e]
        \/ /\ e \in rows /\ email[e].status \in {"pending", "processing", "failed"}
           /\ \/ email'[e] = [email[e] EXCEPT !.status = "cancelled", !.link = FALSE]
              \/ email'[e] = [email[e] EXCEPT !.status = "cancelled"]
    BY DEF OutboxOnly, CancelledActions, CancelledWithBranch
  <2>2. email[e] \in Mail
    BY <1>1
  <2> QED BY <2>1, <2>2 DEF Mail, EmailStatus
<1>3. email' \in [Email -> Mail]
  <2>1. email' = [e \in Email |-> email'[e]]
    BY DEF OutboxOnly, CancelledActions, CancelledWithBranch
  <2> QED BY <1>2, <2>1
<1>4. MailInv'
  BY <1>1, <1>2, <1>3, WorkersKnow
<1>5. \A t \in Token : IF t.user \in us THEN token'[t] = "deleted"
                       ELSE token'[t] = token[t] /\ email'[t] = email[t]
  BY <1>2, TokenMails DEF WithoutTokens
<1> QED BY <1>2, <1>4, <1>5, TokenMails DEF LinkInv, NoMail, Linked, Underway, GivenUp

(* What a step of the job does to a row.                                      *)
RowGoesOn(e) ==
    /\ email'[e] \in Mail
    /\ (email'[e].status = "none") <=> (email[e].status = "none")
    /\ email[e].mailed => email'[e].mailed
    /\ email[e].attempt <= email'[e].attempt
    /\ \/ email'[e].mailed
       \/ /\ email'[e].link = email[e].link
          /\ Underway(e)' \/ GivenUp(e)' \/ email'[e].status = email[e].status

LEMMA JobKeepsLinks ==
    ASSUME MailInv, LinkInv, NEW w \in Worker, NEW job \in Work,
           email' = [e \in Email |-> email'[e]], \A e \in Email : RowGoesOn(e),
           worker' = [worker EXCEPT ![w] = job], WorkerKnows(w)', token' = token
    PROVE  MailInv' /\ LinkInv'
<1>1. MailTypeOK'
  BY DEF MailInv, MailTypeOK, RowGoesOn
<1>2. ASSUME NEW v \in Worker PROVE WorkerKnows(v)'
  <2>1. CASE v = w
    BY <2>1
  <2>2. CASE v # w
    <3>1. worker'[v] = worker[v] /\ worker[v] \in Work
      BY <2>2 DEF MailInv, MailTypeOK
    <3>2. \A c \in worker[v].todo \cup worker[v].now :
             c.id \in Email /\ c.attempt \in Int
      BY <3>1 DEF Work, Claim
    <3>3. \A e \in Email : email[e].attempt \in Int /\ email'[e].attempt \in Int
      BY DEF MailInv, MailTypeOK, RowGoesOn, Mail
    <3>4. \A c \in worker[v].todo \cup worker[v].now :
             email'[c.id].status # "none" /\ c.attempt <= email'[c.id].attempt
      BY <3>2, <3>3 DEF MailInv, WorkerKnows, RowGoesOn
    <3> QED BY <3>1, <3>2, <3>4 DEF MailInv, WorkerKnows, RowGoesOn
  <2> QED BY <2>1, <2>2
<1>3. NoMail'
  BY TokenMails DEF LinkInv, NoMail, RowGoesOn
<1>4. ASSUME NEW t \in Token PROVE Linked(t)'
  <2>1. t \in Email /\ RowGoesOn(t) /\ Linked(t)
    BY TokenMails DEF LinkInv
  <2>2. email[t].attempt \in Int /\ email'[t].attempt \in Int /\ MaxAttempts \in Int
    BY <2>1, EmailAssumption DEF EmailAssumption, MailInv, MailTypeOK, RowGoesOn, Mail
  <2>3. CASE email'[t].status = email[t].status
    BY <2>1, <2>2, <2>3 DEF Linked, RowGoesOn, Underway, GivenUp
  <2>4. CASE email'[t].status # email[t].status
    BY <2>1, <2>4 DEF Linked, RowGoesOn
  <2> QED BY <2>3, <2>4
<1> QED BY <1>1, <1>2, <1>3, <1>4 DEF MailInv, LinkInv

LEMMA ClaimKeepsLinks ==
    ASSUME MailInv, LinkInv, NEW w \in Worker, NEW rows \in SUBSET Delivered,
           ClaimDue(w, rows), token' = token
    PROVE  MailInv' /\ LinkInv'
<1>1. email \in [Email -> Mail] /\ worker \in [Worker -> Work] /\ rows \in SUBSET Email
  BY AccountAssumption, EmailAssumption DEF EmailAssumption, MailInv, MailTypeOK
<1>2. ASSUME NEW e \in Email
      PROVE  RowGoesOn(e) /\ (e \in rows => email'[e].status # "none")
                          /\ email'[e].attempt \in Int
  <2>1. email[e] \in Mail
    BY <1>1
  <2>2. CASE e \in rows
    <3>1. email[e].status \in {"pending", "processing"}
      BY <2>2 DEF ClaimDue, Due
    <3> DEFINE n == email[e].attempt + 1
    <3>a. email'[e] = [email[e] EXCEPT !.status = "processing", !.attempt = @ + 1]
      BY <2>2 DEF ClaimDue
    <3>2. email'[e] = [email[e] EXCEPT !.status = "processing", !.attempt = n] /\ n \in Int
      <4>1. n \in Int
        BY <2>1 DEF Mail
      <4>2. email'[e] = [email[e] EXCEPT !.status = "processing", !.attempt = n]
        BY <3>a
      <4> QED BY <4>1, <4>2
    <3> HIDE DEF n
    <3>3. /\ email'[e] \in Mail /\ email'[e].status = "processing"
          /\ email'[e].link = email[e].link /\ email'[e].mailed = email[e].mailed
          /\ email'[e].attempt = n
      BY <2>1, <3>2 DEF Mail, EmailStatus
    <3>4. email'[e].attempt \in Int /\ email[e].attempt <= email'[e].attempt
      BY <2>1, <3>2, <3>3 DEF Mail, n
    <3> QED BY <3>1, <3>3, <3>4 DEF RowGoesOn, Underway
  <2>3. CASE e \notin rows
    <3>1. email'[e] = email[e]
      BY <2>3 DEF ClaimDue
    <3> QED BY <2>1, <2>3, <3>1 DEF RowGoesOn, Mail
  <2> QED BY <2>2, <2>3
<1> DEFINE todo == {[id |-> e, attempt |-> email'[e].attempt, link |-> email[e].link] :
                      e \in rows}
           job == [todo |-> todo, at |-> "ready", now |-> {}]
<1>3. /\ todo \in SUBSET Claim
      /\ \A c \in todo : c.id \in rows /\ c.attempt <= email'[c.id].attempt
  BY <1>1, <1>2 DEF Claim, Mail
<1>4. worker' = [worker EXCEPT ![w] = job]
  <2>1. worker' = [worker EXCEPT ![w].todo = todo] /\ worker[w] = Ready
    BY DEF ClaimDue
  <2> HIDE DEF todo
  <2>2. [worker[w] EXCEPT !.todo = todo] = job
    BY <2>1 DEF Ready
  <2> QED BY <2>1, <2>2
<1> HIDE DEF todo
<1>5. job \in Work
  BY <1>3 DEF Work
<1>6. worker'[w] = job
  BY <1>1, <1>4
<1>7. WorkerKnows(w)'
  BY <1>1, <1>2, <1>3, <1>6 DEF WorkerKnows
<1>8. email' = [e \in Email |-> email'[e]]
  BY DEF ClaimDue
<1> HIDE DEF job
<1> QED BY <1>2, <1>4, <1>5, <1>7, <1>8, JobKeepsLinks

LEMMA DeliverKeepsLinks ==
    ASSUME MailInv, LinkInv, NEW w \in Worker, NEW c \in worker[w].todo,
           NEW accepted \in BOOLEAN, Deliver(w, c, accepted), token' = token
    PROVE  MailInv' /\ LinkInv'
<1>1. /\ email \in [Email -> Mail] /\ worker \in [Worker -> Work]
      /\ worker[w].todo \subseteq Claim /\ c \in Claim /\ c.id \in Email
  BY DEF MailInv, MailTypeOK, Work, Claim
<1>2. email' = [email EXCEPT ![c.id] = [email[c.id] EXCEPT
                                          !.mailed = email[c.id].mailed \/ accepted]]
  BY DEF Deliver
<1> DEFINE mailed == email[c.id].mailed \/ accepted
           row == [email[c.id] EXCEPT !.mailed = mailed]
<1>3. /\ row \in Mail /\ row.status = email[c.id].status /\ row.link = email[c.id].link
      /\ row.mailed = mailed /\ row.attempt = email[c.id].attempt
  <2>1. mailed \in BOOLEAN /\ email[c.id] \in Mail
    BY <1>1 DEF Mail
  <2> HIDE DEF mailed
  <2> QED BY <2>1 DEF Mail
<1>4. accepted \/ email[c.id].mailed => row.mailed
  <2> HIDE DEF row
  <2> QED BY <1>3
<1>5. email' = [email EXCEPT ![c.id] = row]
  BY <1>2
<1> HIDE DEF row, mailed
<1>6. email'[c.id] = row /\ \A e \in Email \ {c.id} : email'[e] = email[e]
  BY <1>1, <1>5
<1>7. email' = [e \in Email |-> email'[e]]
  BY <1>1, <1>5
<1>8. \A e \in Email : RowGoesOn(e)
  <2>1. RowGoesOn(c.id)
    BY <1>3, <1>4, <1>6 DEF RowGoesOn, Mail
  <2>2. ASSUME NEW e \in Email \ {c.id} PROVE RowGoesOn(e)
    BY <1>1, <1>6 DEF RowGoesOn, Mail
  <2> QED BY <2>1, <2>2
<1> DEFINE job == [todo |-> worker[w].todo \ {c}, now |-> {c},
                   at |-> IF accepted THEN "accepted" ELSE "threw"]
<1>9. worker' = [worker EXCEPT ![w] = job]
  BY DEF Deliver
<1>10. job \in Work
  BY <1>1 DEF Work
<1>11. worker'[w] = job
  BY <1>1, <1>9
<1>12. \A d \in worker[w].todo : /\ d.id \in Email /\ email[d.id].status # "none"
                                 /\ d.attempt <= email[d.id].attempt /\ d.attempt \in Int
  BY <1>1 DEF MailInv, WorkerKnows, Claim
<1>13. WorkerKnows(w)'
  <2>a. \A e \in Email : email[e].attempt \in Int /\ email'[e].attempt \in Int
    BY <1>1, <1>8 DEF RowGoesOn, Mail
  <2>1. \A d \in job.todo \cup job.now :
           email'[d.id].status # "none" /\ d.attempt <= email'[d.id].attempt
    BY <1>8, <1>12, <2>a DEF RowGoesOn
  <2>2. job.at = "accepted" => \A d \in job.now : email'[d.id].mailed
    BY <1>4, <1>6
  <2>3. job.at # "ready"
    OBVIOUS
  <2> HIDE DEF job
  <2> QED BY <1>11, <2>1, <2>2, <2>3 DEF WorkerKnows
<1> HIDE DEF job
<1> QED BY <1>7, <1>8, <1>9, <1>10, <1>13, JobKeepsLinks

(* The row is left as it is, or noted.                                        *)
LEMMA NoteKeepsLinks ==
    ASSUME MailInv, LinkInv, NEW w \in Worker, NEW c \in worker[w].now,
           Note(w, c) \/ NoteFails(w, c), token' = token
    PROVE  MailInv' /\ LinkInv'
<1>1. /\ email \in [Email -> Mail] /\ worker \in [Worker -> Work] /\ worker[w] \in Work
      /\ c \in Claim /\ c.id \in Email /\ email[c.id] \in Mail
  BY DEF MailInv, MailTypeOK, Work, Claim
<1>2. /\ email[c.id].status # "none" /\ (worker[w].at = "accepted" => email[c.id].mailed)
      /\ c.attempt <= email[c.id].attempt /\ worker[w].at \in {"accepted", "threw"}
  BY <1>1 DEF MailInv, WorkerKnows, Work
<1> DEFINE row == Noted(w, c)
<1>3. /\ row \in Mail /\ row.status \in {"sent", "pending", "failed"}
      /\ row.mailed = email[c.id].mailed
      /\ row.attempt = email[c.id].attempt
      /\ \/ row.mailed
         \/ /\ row.link = email[c.id].link
            /\ \/ row.status = "pending"
               \/ row.status = "failed" /\ row.attempt >= MaxAttempts
  <2>1. CASE worker[w].at = "accepted"
    <3>1. row = MarkSent(email[c.id])
      BY <2>1 DEF Noted
    <3> HIDE DEF row
    <3> QED BY <1>1, <1>2, <2>1, <3>1 DEF MarkSent, Mail, EmailStatus
  <2>2. CASE worker[w].at = "threw" /\ AttemptsLeft(c)
    <3>1. row = MarkRetry(email[c.id])
      BY <2>2 DEF Noted
    <3> HIDE DEF row
    <3> QED BY <1>1, <3>1 DEF MarkRetry, Mail, EmailStatus
  <2>3. CASE worker[w].at # "accepted" /\ ~ (worker[w].at = "threw" /\ AttemptsLeft(c))
    <3>1. row = MarkFailed(email[c.id])
      BY <2>3 DEF Noted
    <3>2. email[c.id].attempt >= MaxAttempts
      BY <1>1, <1>2, <2>3, EmailAssumption DEF EmailAssumption, AttemptsLeft, Claim, Mail
    <3> HIDE DEF row
    <3> QED BY <1>1, <3>1, <3>2 DEF MarkFailed, Mail, EmailStatus
  <2> QED BY <2>1, <2>2, <2>3
<1>4. email' = [email EXCEPT ![c.id] = row] \/ email' = email
  BY DEF Note, NoteFails
<1> HIDE DEF row
<1>5. email' = [e \in Email |-> email'[e]]
  BY <1>1, <1>4
<1>6. ASSUME NEW e \in Email PROVE RowGoesOn(e)
  <2>1. email'[e] = email[e] \/ (e = c.id /\ email'[e] = row)
    BY <1>1, <1>4
  <2>2. email[e] \in Mail
    BY <1>1
  <2> QED BY <1>2, <1>3, <2>1, <2>2 DEF RowGoesOn, Mail, Underway, GivenUp
<1> DEFINE idle == [worker[w] EXCEPT !.now = {}, !.at = "ready"]
           threw == [worker[w] EXCEPT !.at = "threw"]
<1>7. PICK job \in {idle, threw} : worker' = [worker EXCEPT ![w] = job]
  BY <1>1 DEF Note, NoteFails
<1>8. /\ job \in Work /\ job.todo = worker[w].todo /\ job.now \subseteq worker[w].now
      /\ job.at # "accepted" /\ (job.at = "ready" => job.now = {})
  BY <1>1 DEF Work
<1> HIDE DEF idle, threw
<1>9. worker'[w] = job
  BY <1>1, <1>7
<1>10. \A d \in worker[w].todo \cup worker[w].now :
          /\ d.id \in Email /\ email[d.id].status # "none"
          /\ d.attempt <= email[d.id].attempt /\ d.attempt \in Int
  BY <1>1 DEF MailInv, WorkerKnows, Work, Claim
<1>a. \A e \in Email : email[e].attempt \in Int /\ email'[e].attempt \in Int
  BY <1>1, <1>6 DEF RowGoesOn, Mail
<1>b. \A d \in worker[w].todo \cup worker[w].now :
         email'[d.id].status # "none" /\ d.attempt <= email'[d.id].attempt
  BY <1>6, <1>10, <1>a DEF RowGoesOn
<1>11. WorkerKnows(w)'
  BY <1>8, <1>9, <1>b DEF WorkerKnows
<1> QED BY <1>5, <1>6, <1>7, <1>8, <1>11, JobKeepsLinks

LEMMA DeathKeepsLinks ==
    ASSUME MailInv, LinkInv, NEW w \in Worker, Die(w), token' = token
    PROVE  MailInv' /\ LinkInv'
<1>1. email \in [Email -> Mail] /\ worker \in [Worker -> Work] /\ email' = email
  BY DEF Die, MailInv, MailTypeOK
<1>2. email' = [e \in Email |-> email'[e]]
  BY <1>1
<1>3. \A e \in Email : RowGoesOn(e)
  BY <1>1 DEF RowGoesOn, Mail
<1>4. worker' = [worker EXCEPT ![w] = Ready] /\ worker'[w] = Ready
  BY <1>1 DEF Die
<1>5. Ready \in Work /\ WorkerKnows(w)'
  BY <1>4 DEF Ready, Work, WorkerKnows
<1> QED BY <1>2, <1>3, <1>4, <1>5, JobKeepsLinks

-----------------------------------------------------------------------------
(* Every step keeps the links.                                                *)

(* Users are born with tokens that were not there.                            *)
LEMMA InviteLinks ==
    ASSUME AccountTypeOK, NoToken, MailInv, LinkInv,
           NEW us \in SUBSET User, NEW b \in Branch \cup {None}, Invite(us, b)
    PROVE  NoToken' /\ MailInv' /\ LinkInv'
<1> DEFINE new == {Invitation(u) : u \in us}
<1>1. new \in SUBSET Token /\ \A t \in new : t.user \in us
  BY DEF Invitation, Token
<1>2. \A t \in new : token[t] = "none"
  BY <1>1 DEF Invite, NoToken
<1>3. IssueAccountActions(new)
  BY DEF Invite
<1> HIDE DEF new
<1>4. MailInv' /\ LinkInv' /\ \A t \in Token \ new : token'[t] = "none" <=> token[t] = "none"
  BY <1>1, <1>2, <1>3, IssueLinks
<1>5. ASSUME NEW t \in Token, account'[t.user] = "none" PROVE token'[t] = "none"
  <2>1. t.user \in User
    BY Users
  <2>2. account[t.user] = "none" /\ t.user \notin us
    BY <1>5, <2>1 DEF Invite
  <2> QED BY <1>1, <1>4, <2>2 DEF NoToken
<1> QED BY <1>4, <1>5 DEF NoToken

LEMMA OutboxSame ==
    ASSUME MailInv, LinkInv, UNCHANGED <<email, worker>>,
           \A t \in Token : token'[t] = token[t] \/ token'[t] \in {"used", "deleted"}
    PROVE  MailInv' /\ LinkInv'
BY DEF MailInv, MailTypeOK, WorkerKnows, LinkInv, NoMail, Linked, Underway, GivenUp

LEMMA LinkStep ==
    ASSUME AccountTypeOK, NoToken, MailInv, LinkInv, [Next]_vars
    PROVE  NoToken' /\ MailInv' /\ LinkInv'
<1>1. CASE Submit \/ Reject
  <2>1. PICK rows \in SUBSET Notices : OutboxOnly(Enqueued(rows))
    BY <1>1 DEF Submit, Reject
  <2>2. token' = token /\ account' = account
    BY <1>1 DEF Submit, Reject
  <2> QED BY <2>1, <2>2, NoticesOnly DEF NoToken
<1>2. CASE Approve
  <2>1. {Owner} \in SUBSET User
    BY DEF User
  <2> QED BY <1>2, <2>1, InviteLinks DEF Approve
<1>3. ASSUME NEW t \in Token, Activate(t) \/ ResetPassword(t)
      PROVE  NoToken' /\ MailInv' /\ LinkInv'
  <2>1. /\ token[t] = "live" /\ token' = [token EXCEPT ![t] = "used"]
        /\ UNCHANGED <<email, worker>>
        /\ account' = [account EXCEPT ![t.user] = "active"] \/ account' = account
    BY <1>3 DEF Activate, ResetPassword, emailVars
  <2>2. MailInv' /\ LinkInv'
    BY <2>1, OutboxSame DEF AccountTypeOK
  <2>3. NoToken'
    BY <2>1, Users DEF AccountTypeOK, NoToken
  <2> QED BY <2>2, <2>3
<1>4. ASSUME NEW t \in Token, RequestPasswordReset(t)
      PROVE  NoToken' /\ MailInv' /\ LinkInv'
  <2>1. /\ {t} \in SUBSET Token /\ \A s \in {t} : token[s] = "none"
        /\ IssueAccountActions({t}) /\ account' = account /\ account[t.user] = "active"
    BY <1>4 DEF RequestPasswordReset
  <2>2. MailInv' /\ LinkInv' /\ \A s \in Token \ {t} : token'[s] = "none" <=> token[s] = "none"
    BY <2>1, IssueLinks
  <2>3. NoToken'
    BY <2>1, <2>2 DEF NoToken
  <2> QED BY <2>2, <2>3
<1>5. ASSUME NEW b \in Branch, NEW us \in SUBSET Manager, CreateBranch(b, us)
      PROVE  NoToken' /\ MailInv' /\ LinkInv'
  <2>1. us \in SUBSET User
    BY DEF User
  <2> QED BY <1>5, <2>1, InviteLinks DEF CreateBranch
<1>6. ASSUME NEW b \in Branch, NEW u \in User, InviteManager(b, u) \/ CreateStaff(b, u)
      PROVE  NoToken' /\ MailInv' /\ LinkInv'
  <2>1. {u} \in SUBSET User
    OBVIOUS
  <2> QED BY <1>6, <2>1, InviteLinks DEF InviteManager, CreateStaff
<1>7. ASSUME NEW b \in Branch, NEW u \in User, RemoveManager(b, u) \/ RemoveStaff(b, u)
      PROVE  NoToken' /\ MailInv' /\ LinkInv'
  <2>1. \A v \in User : account'[v] = "none" => account[v] = "none" /\ v # u
    BY <1>7 DEF RemoveManager, RemoveStaff, AccountTypeOK
  <2>2. CASE token' = token /\ UNCHANGED <<email, worker>>
    <3>1. MailInv' /\ LinkInv'
      BY <2>2, OutboxSame
    <3>2. NoToken'
      BY <2>1, <2>2, Users DEF NoToken
    <3> QED BY <3>1, <3>2
  <2>3. CASE /\ token' = WithoutTokens({u})
             /\ OutboxOnly(CancelledActions(TokensOf({u}, "account_activation")))
    <3> DEFINE rows == TokensOf({u}, "account_activation")
    <3>1. {u} \in SUBSET User /\ rows \in SUBSET Token /\ \A t \in rows : t.user \in {u}
      BY DEF TokensOf
    <3>2. MailInv' /\ LinkInv'
      <4> HIDE DEF rows
      <4>1. OutboxOnly(CancelledActions(rows))
        BY <2>3 DEF rows
      <4> QED BY <2>3, <3>1, <4>1, CancelMails
    <3>3. NoToken'
      BY <2>1, <2>3, Users DEF NoToken, WithoutTokens
    <3> QED BY <3>2, <3>3
  <2> QED BY <1>7, <2>2, <2>3 DEF RemoveManager, RemoveStaff, emailVars
<1>8. ASSUME NEW b \in Branch, DeleteBranch(b)
      PROVE  NoToken' /\ MailInv' /\ LinkInv'
  <2> DEFINE us == {u \in User : assigned[u].at = b}
             rows == {t \in Token : t.user \in us}
  <2>1. us \in SUBSET User /\ rows \in SUBSET Token /\ \A t \in rows : t.user \in us
    OBVIOUS
  <2>2. /\ \A v \in User : account'[v] = "none" => account[v] = "none" /\ v \notin us
        /\ token' = WithoutTokens(us) /\ OutboxOnly(CancelledWithBranch(rows))
    BY <1>8 DEF DeleteBranch
  <2> HIDE DEF us, rows
  <2>3. MailInv' /\ LinkInv'
    BY <2>1, <2>2, CancelMails
  <2>4. NoToken'
    BY <2>2, Users DEF NoToken, WithoutTokens
  <2> QED BY <2>3, <2>4
<1>9. CASE SuspendOrganization
  <2>1. /\ \A v \in User : account'[v] = "none" => account[v] = "none"
        /\ token' = token /\ UNCHANGED <<email, worker>>
    BY <1>9 DEF SuspendOrganization, emailVars
  <2>2. MailInv' /\ LinkInv'
    BY <2>1, OutboxSame
  <2>3. NoToken'
    BY <2>1, Users DEF NoToken
  <2> QED BY <2>2, <2>3
<1>10. CASE OutboxStep
  <2>1. token' = token /\ account' = account /\ EmailNext
    BY <1>10 DEF OutboxStep, accountVars
  <2>2. MailInv' /\ LinkInv'
    BY <2>1, ClaimKeepsLinks, DeliverKeepsLinks, NoteKeepsLinks, DeathKeepsLinks
    DEF EmailNext, WorkerStep
  <2> QED BY <2>1, <2>2 DEF NoToken
<1>11. CASE UNCHANGED vars
  <2>1. token' = token /\ account' = account /\ UNCHANGED <<email, worker>>
    BY <1>11 DEF vars, accountVars, emailVars
  <2>2. MailInv' /\ LinkInv'
    BY <2>1, OutboxSame
  <2> QED BY <2>1, <2>2 DEF NoToken
<1> QED BY <1>1, <1>2, <1>3, <1>4, <1>5, <1>6, <1>7, <1>8, <1>9, <1>10, <1>11
        DEF Next, AccountStep, User

LEMMA MailsKnown == Spec => [](MailInv /\ LinkInv)
<1>1. Init => NoToken /\ MailInv /\ LinkInv
  <2> SUFFICES ASSUME Init PROVE NoToken /\ MailInv /\ LinkInv
    OBVIOUS
  <2>1. \A t \in Token : token[t] = "none"
    BY DEF Init
  <2>2. /\ email = [e \in Email |-> NoEmail] /\ NoEmail \in Mail /\ NoEmail.status = "none"
        /\ worker = [w \in Worker |-> Ready] /\ Ready \in Work
    BY DEF Init, EmailInit, NoEmail, Mail, EmailStatus, Ready, Work
  <2>3. MailInv
    BY <2>2 DEF MailInv, MailTypeOK, WorkerKnows, Ready
  <2>4. NoToken /\ LinkInv
    BY <2>1, <2>2, TokenMails DEF NoToken, LinkInv, NoMail, Linked
  <2> QED BY <2>3, <2>4
<1>2. AccountTypeOK /\ NoToken /\ MailInv /\ LinkInv /\ [Next]_vars
        => NoToken' /\ MailInv' /\ LinkInv'
  BY LinkStep
<1> QED BY <1>1, <1>2, AccountTypes, PTL DEF Spec

(* A link that works has reached the mail server, is still to be mailed, or   *)
(* was refused as often as it may be, however often its mail is claimed,      *)
(* refused, noted late or lost with a worker.                                 *)
THEOREM LinksAreMailedOrGivenUp == Spec => []LinkIsMailedOrGivenUp
<1>1. LinkInv => LinkIsMailedOrGivenUp
  BY DEF LinkInv, Linked, LinkIsMailedOrGivenUp
<1> QED BY <1>1, MailsKnown, PTL

-----------------------------------------------------------------------------
(* Attempts.  A claim is one attempt more of its row, and workers that hold   *)
(* the row from before may put it back with the attempts they saw.  Every     *)
(* such claim has cost a fault: an overrun, a death or a note that failed.    *)

Holds(w, e)   == \E c \in worker[w].todo \cup worker[w].now : c.id = e
Retries(w, e) == \E c \in worker[w].todo \cup worker[w].now : c.id = e /\ AttemptsLeft(c)
Holders(e)    == {w \in Worker : Holds(w, e)}
Retrying(e)   == {w \in Worker : Retries(w, e)}

(* The row can be claimed without a fault.                                    *)
Free(e) == \/ email[e].status = "pending"
           \/ email[e].status = "processing" /\ Holders(e) = {}

Budget(e) ==
    LET holders  == Cardinality(Holders(e))
        retrying == Cardinality(Retrying(e)) IN
    /\ IsFiniteSet(Holders(e))
    /\ email[e].attempt \in Nat
    /\ holders <= faults + 1
    /\ email[e].attempt + retrying <= MaxAttempts + faults
    /\ Free(e) => /\ holders <= faults
                  /\ email[e].attempt + retrying < MaxAttempts + faults

(* A worker holds a row once, and delivers one at a time.                     *)
Hand(job) ==
    /\ \A c, d \in job.todo \cup job.now : c.id = d.id => c = d
    /\ job.todo \cap job.now = {}
    /\ \A c, d \in job.now : c = d
    /\ \A c \in job.todo \cup job.now : c.attempt \in 1 .. (MaxAttempts + MaxFaults)

AttemptInv ==
    /\ faults \in 0 .. MaxFaults
    /\ \A w \in Worker : Hand(worker[w])
    /\ \A e \in Email : Budget(e)

LEMMA Counts ==
    ASSUME NEW e, IsFiniteSet(Holders(e))
    PROVE  /\ Retrying(e) \subseteq Holders(e) /\ IsFiniteSet(Retrying(e))
           /\ Cardinality(Holders(e)) \in Nat /\ Cardinality(Retrying(e)) \in Nat
           /\ Cardinality(Retrying(e)) <= Cardinality(Holders(e))
           /\ Holders(e) = {} => Cardinality(Holders(e)) = 0 /\ Cardinality(Retrying(e)) = 0
<1>1. Retrying(e) \subseteq Holders(e)
  BY DEF Retrying, Holders, Retries, Holds
<1>2. /\ IsFiniteSet(Retrying(e)) /\ Cardinality(Retrying(e)) <= Cardinality(Holders(e))
  BY <1>1, FS_Subset
<1> QED BY <1>1, <1>2, FS_CardinalityType, FS_EmptySet

LEMMA OneFewer ==
    ASSUME NEW S, NEW T, NEW w, IsFiniteSet(S), T \in {S, S \ {w}}
    PROVE  /\ IsFiniteSet(T) /\ Cardinality(T) \in Nat /\ Cardinality(S) \in Nat
           /\ Cardinality(T) <= Cardinality(S)
           /\ T # S => Cardinality(T) = Cardinality(S) - 1
<1>1. CASE T = S
  BY <1>1, FS_CardinalityType
<1>2. CASE T # S
  <2>1. T = S \ {w} /\ w \in S
    BY <1>2
  <2>2. IsFiniteSet(T) /\ Cardinality(T) = Cardinality(S) - 1
    BY <2>1, FS_RemoveElement
  <2>3. Cardinality(T) \in Nat /\ Cardinality(S) \in Nat
    BY <2>2, FS_CardinalityType
  <2> QED BY <2>2, <2>3
<1> QED BY <1>1, <1>2

LEMMA OneMore ==
    ASSUME NEW S, NEW w, IsFiniteSet(S), w \notin S
    PROVE  /\ IsFiniteSet(S \cup {w}) /\ Cardinality(S) \in Nat
           /\ Cardinality(S \cup {w}) = Cardinality(S) + 1
BY FS_AddElement, FS_CardinalityType

(* One worker changes its batch.                                              *)
LEMMA HoldersChange ==
    ASSUME MailTypeOK, NEW w \in Worker, NEW job, worker' = [worker EXCEPT ![w] = job], NEW e
    PROVE  /\ Holders(e)' = IF \E c \in job.todo \cup job.now : c.id = e
                            THEN Holders(e) \cup {w} ELSE Holders(e) \ {w}
           /\ Retrying(e)' = IF \E c \in job.todo \cup job.now : c.id = e /\ AttemptsLeft(c)
                             THEN Retrying(e) \cup {w} ELSE Retrying(e) \ {w}
<1>1. worker'[w] = job /\ \A v \in Worker \ {w} : worker'[v] = worker[v]
  BY DEF MailTypeOK
<1>2. \A v \in Worker \ {w} : /\ Holds(v, e)' <=> Holds(v, e)
                              /\ Retries(v, e)' <=> Retries(v, e)
  BY <1>1 DEF Holds, Retries, AttemptsLeft
<1>3. /\ Holds(w, e)' <=> \E c \in job.todo \cup job.now : c.id = e
      /\ Retries(w, e)' <=> \E c \in job.todo \cup job.now : c.id = e /\ AttemptsLeft(c)
  BY <1>1 DEF Holds, Retries, AttemptsLeft
<1> QED BY <1>2, <1>3 DEF Holders, Retrying

(* A row that stays as it is, with the same holders or after a fault with     *)
(* fewer.                                                                     *)
LEMMA BudgetStays ==
    ASSUME NEW e \in Email, Budget(e), faults \in Nat, faults' \in Nat, faults <= faults',
           email'[e].attempt = email[e].attempt, email'[e].status = email[e].status,
           Holders(e)' = Holders(e), Retrying(e)' = Retrying(e)
    PROVE  Budget(e)'
<1>1. Cardinality(Holders(e)) \in Nat /\ Cardinality(Retrying(e)) \in Nat
  BY Counts DEF Budget
<1>2. MaxAttempts \in Nat
  BY EmailAssumption DEF EmailAssumption
<1> QED BY <1>1, <1>2 DEF Budget, Free

LEMMA BudgetAfterFault ==
    ASSUME NEW e \in Email, NEW w, Budget(e), faults \in Nat, faults' = faults + 1,
           email'[e].attempt = email[e].attempt,
           Holders(e)' \in {Holders(e), Holders(e) \ {w}},
           Retrying(e)' \in {Retrying(e), Retrying(e) \ {w}}
    PROVE  Budget(e)'
<1>1. /\ IsFiniteSet(Holders(e)) /\ IsFiniteSet(Retrying(e))
      /\ Cardinality(Holders(e)) \in Nat /\ Cardinality(Retrying(e)) \in Nat
  BY Counts DEF Budget
<1>2. /\ IsFiniteSet(Holders(e)') /\ Cardinality(Holders(e)') \in Nat
      /\ Cardinality(Holders(e)') <= Cardinality(Holders(e))
  <2> DEFINE S == Holders(e)
             T == Holders(e)'
  <2>1. IsFiniteSet(S) /\ T \in {S, S \ {w}}
    BY <1>1
  <2> HIDE DEF S, T
  <2>2. IsFiniteSet(T) /\ Cardinality(T) \in Nat /\ Cardinality(T) <= Cardinality(S)
    BY <2>1, OneFewer
  <2> QED BY <2>2 DEF S, T
<1>3. /\ Cardinality(Retrying(e)') \in Nat
      /\ Cardinality(Retrying(e)') <= Cardinality(Retrying(e))
  <2> DEFINE S == Retrying(e)
             T == Retrying(e)'
  <2>1. IsFiniteSet(S) /\ T \in {S, S \ {w}}
    BY <1>1
  <2> HIDE DEF S, T
  <2>2. Cardinality(T) \in Nat /\ Cardinality(T) <= Cardinality(S)
    BY <2>1, OneFewer
  <2> QED BY <2>2 DEF S, T
<1>4. MaxAttempts \in Nat
  BY EmailAssumption DEF EmailAssumption
<1> QED BY <1>1, <1>2, <1>3, <1>4 DEF Budget

(* The transactions write rows that nobody holds, or cancel them.             *)
LEMMA OutboxKeepsBudget ==
    ASSUME MailInv, AttemptInv, UNCHANGED <<worker, faults>>,
           \A e \in Email :
              \/ email'[e] = email[e]
              \/ /\ email[e].status = "none" /\ email'[e].attempt = 0
              \/ email'[e].status = "cancelled" /\ email'[e].attempt = email[e].attempt
    PROVE  AttemptInv'
<1>1. MaxAttempts \in Nat \ {0} /\ MaxFaults \in Nat /\ faults \in Nat
  BY EmailAssumption DEF EmailAssumption, AttemptInv
<1>2. ASSUME NEW e \in Email PROVE Budget(e)'
  <2>1. Holders(e)' = Holders(e) /\ Retrying(e)' = Retrying(e) /\ Budget(e)
    BY DEF Holders, Retrying, Holds, Retries, AttemptsLeft, AttemptInv
  <2>2. Cardinality(Holders(e)) \in Nat /\ Cardinality(Retrying(e)) \in Nat
    BY <2>1, Counts DEF Budget
  <2>3. CASE email'[e] = email[e]
    BY <1>1, <2>1, <2>3, BudgetStays
  <2>4. CASE email[e].status = "none" /\ email'[e].attempt = 0
    <3>1. Holders(e) = {}
      BY <2>4 DEF Holders, Holds, MailInv, WorkerKnows
    <3>2. Cardinality(Holders(e)) = 0 /\ Cardinality(Retrying(e)) = 0
      BY <2>1, <3>1, Counts DEF Budget
    <3> QED BY <1>1, <2>1, <2>4, <3>2 DEF Budget
  <2>5. CASE email'[e].status = "cancelled" /\ email'[e].attempt = email[e].attempt
    BY <1>1, <2>1, <2>2, <2>5 DEF Budget, Free
  <2> QED BY <2>3, <2>4, <2>5
<1> QED BY <1>2 DEF AttemptInv

(* The worker that is given a job has it in its hand.                         *)
LEMMA HandsStay ==
    ASSUME MailTypeOK, AttemptInv, NEW w \in Worker, NEW job, Hand(job),
           worker' = [worker EXCEPT ![w] = job]
    PROVE  \A v \in Worker : Hand(worker'[v])
BY DEF MailTypeOK, AttemptInv

LEMMA ClaimKeepsBudget ==
    ASSUME MailInv, AttemptInv, NEW w \in Worker, NEW rows \in SUBSET Delivered,
           ClaimDue(w, rows)
    PROVE  AttemptInv'
<1>1. /\ email \in [Email -> Mail] /\ worker \in [Worker -> Work] /\ rows \in SUBSET Email
      /\ MaxAttempts \in Nat \ {0} /\ MaxFaults \in Nat
      /\ faults \in Nat /\ faults <= MaxFaults
  BY EmailAssumption DEF EmailAssumption, MailInv, MailTypeOK, AttemptInv
<1> DEFINE overrun == {e \in rows : email[e].status = "processing" /\ Held(e)}
<1>2. IsFiniteSet(overrun) /\ Cardinality(overrun) \in Nat
  BY EmailAssumption, FS_Subset, FS_CardinalityType DEF EmailAssumption
<1>3. faults' = faults + Cardinality(overrun) /\ faults' \in 0 .. MaxFaults /\ faults <= faults'
  <2>1. faults' = faults + Cardinality(overrun) /\ faults' <= MaxFaults
    BY DEF ClaimDue, Overruns
  <2> HIDE DEF overrun
  <2> QED BY <1>1, <1>2, <2>1
<1>4. ASSUME NEW e \in overrun PROVE faults + 1 <= faults'
  <2>1. Cardinality(overrun) # 0
    BY <1>2, <1>4, FS_EmptySet
  <2> QED BY <1>1, <1>2, <1>3, <2>1
<1>5. \A e \in Email : Holders(e) # {} /\ e \in rows /\ email[e].status = "processing"
                         => e \in overrun
  BY DEF Holders, Holds, Held, Batched
<1> HIDE DEF overrun
<1> DEFINE todo == {[id |-> e, attempt |-> email'[e].attempt, link |-> email[e].link] :
                      e \in rows}
           job == [todo |-> todo, at |-> "ready", now |-> {}]
<1>6. worker' = [worker EXCEPT ![w] = job]
  <2>1. worker' = [worker EXCEPT ![w].todo = todo] /\ worker[w] = Ready
    BY DEF ClaimDue
  <2> HIDE DEF todo
  <2>2. [worker[w] EXCEPT !.todo = todo] = job
    BY <2>1 DEF Ready
  <2> QED BY <2>1, <2>2
<1>7. \A e \in Email : w \notin Holders(e) /\ w \notin Retrying(e)
  <2> HIDE DEF todo, job
  <2>0. worker[w] = Ready
    BY DEF ClaimDue
  <2>1. worker[w].todo = {} /\ worker[w].now = {}
    BY <2>0 DEF Ready
  <2> QED BY <2>1 DEF Holders, Retrying, Holds, Retries
<1>8. ASSUME NEW e \in rows
      PROVE  /\ email'[e].status = "processing" /\ email'[e].attempt = email[e].attempt + 1
             /\ email[e].status \in {"pending", "processing"}
  <2>1. email'[e] = [email[e] EXCEPT !.status = "processing", !.attempt = @ + 1]
    BY <1>1 DEF ClaimDue
  <2>2. email[e] \in Mail
    BY <1>1
  <2> QED BY <2>1, <2>2 DEF ClaimDue, Due, Mail
<1>9. \A e \in Email \ rows : email'[e] = email[e]
  BY DEF ClaimDue
<1>10. /\ \A e \in rows : \E c \in todo : c.id = e /\ c.attempt = email'[e].attempt
       /\ \A c \in todo : c.id \in rows /\ c.attempt = email'[c.id].attempt
       /\ \A c, d \in todo : c.id = d.id => c = d
  <2>1. ASSUME NEW e \in rows PROVE \E c \in todo : c.id = e /\ c.attempt = email'[e].attempt
    <3> DEFINE c == [id |-> e, attempt |-> email'[e].attempt, link |-> email[e].link]
    <3>1. c \in todo /\ c.id = e /\ c.attempt = email'[e].attempt
      OBVIOUS
    <3> HIDE DEF c, todo
    <3> QED BY <3>1
  <2>2. \A c \in todo : c.id \in rows /\ c.attempt = email'[c.id].attempt
                        /\ c = [id |-> c.id, attempt |-> email'[c.id].attempt,
                                link |-> email[c.id].link]
    OBVIOUS
  <2> HIDE DEF todo, job
  <2>3. \A c, d \in todo : c.id = d.id => c = d
    BY <2>2
  <2> QED BY <2>1, <2>2, <2>3
<1>11. job.todo = todo /\ job.now = {}
  OBVIOUS
<1> HIDE DEF todo, job
<1>12. ASSUME NEW e \in Email
       PROVE  /\ Holders(e)' = IF e \in rows THEN Holders(e) \cup {w} ELSE Holders(e)
              /\ Retrying(e)' = IF e \in rows /\ email'[e].attempt < MaxAttempts
                                THEN Retrying(e) \cup {w} ELSE Retrying(e)
  <2>1. /\ (\E c \in job.todo \cup job.now : c.id = e) <=> e \in rows
        /\ (\E c \in job.todo \cup job.now : c.id = e /\ AttemptsLeft(c))
             <=> e \in rows /\ email'[e].attempt < MaxAttempts
    BY <1>10, <1>11 DEF AttemptsLeft
  <2>2. /\ Holders(e)' = IF \E c \in job.todo \cup job.now : c.id = e
                         THEN Holders(e) \cup {w} ELSE Holders(e) \ {w}
        /\ Retrying(e)' = IF \E c \in job.todo \cup job.now : c.id = e /\ AttemptsLeft(c)
                          THEN Retrying(e) \cup {w} ELSE Retrying(e) \ {w}
    BY <1>6, HoldersChange DEF MailInv
  <2> QED BY <1>7, <2>1, <2>2
<1>13. ASSUME NEW e \in Email PROVE Budget(e)'
  <2>1. /\ Budget(e) /\ IsFiniteSet(Holders(e)) /\ IsFiniteSet(Retrying(e))
        /\ Cardinality(Holders(e)) \in Nat /\ Cardinality(Retrying(e)) \in Nat
        /\ Cardinality(Retrying(e)) <= Cardinality(Holders(e))
        /\ Holders(e) = {} => Cardinality(Holders(e)) = 0 /\ Cardinality(Retrying(e)) = 0
    BY Counts DEF AttemptInv, Budget
  <2>2. CASE e \notin rows
    <3>1. Holders(e)' = Holders(e) /\ Retrying(e)' = Retrying(e) /\ email'[e] = email[e]
      BY <1>9, <1>12, <2>2
    <3> QED BY <1>1, <1>3, <2>1, <3>1, BudgetStays
  <2>3. CASE e \in rows
    <3>1. /\ Holders(e)' = Holders(e) \cup {w} /\ w \notin Holders(e) /\ w \notin Retrying(e)
          /\ Holders(e)' # {}
          /\ Retrying(e)' \in {Retrying(e), Retrying(e) \cup {w}}
          /\ email'[e].attempt >= MaxAttempts => Retrying(e)' = Retrying(e)
      BY <1>1, <1>7, <1>8, <1>12, <2>1, <2>3 DEF Budget
    <3> DEFINE h == Cardinality(Holders(e))
               r == Cardinality(Retrying(e))
               n == email[e].attempt
    <3>2. /\ IsFiniteSet(Holders(e)') /\ Cardinality(Holders(e)') = h + 1
          /\ h \in Nat /\ r \in Nat /\ n \in Nat /\ r <= h
          /\ email'[e].attempt = n + 1 /\ email'[e].status = "processing"
      BY <1>8, <2>1, <2>3, <3>1, OneMore DEF Budget
    <3>3. Cardinality(Retrying(e)') = IF Retrying(e)' = Retrying(e) THEN r ELSE r + 1
      BY <2>1, <3>1, OneMore
    <3>4. n + 1 >= MaxAttempts => Cardinality(Retrying(e)') = r
      BY <3>1, <3>2, <3>3
    <3>5. Cardinality(Retrying(e)') \in {r, r + 1}
      BY <3>3
    <3>6. /\ h <= faults' /\ n + r < MaxAttempts + faults'
      <4>1. CASE Free(e)
        BY <1>1, <1>3, <2>1, <3>2, <4>1 DEF Budget
      <4>2. CASE ~ Free(e)
        <5>1. e \in overrun
          BY <1>5, <1>8, <2>3, <4>2 DEF Free
        <5>2. faults + 1 <= faults'
          BY <1>4, <5>1
        <5> QED BY <1>1, <1>3, <2>1, <3>2, <5>2 DEF Budget
      <4> QED BY <4>1, <4>2
    <3>7. n + 1 + Cardinality(Retrying(e)') <= MaxAttempts + faults'
      BY <1>1, <1>3, <3>2, <3>4, <3>5, <3>6
    <3>8. ~ Free(e)'
      BY <3>1, <3>2 DEF Free
    <3> HIDE DEF h, r, n
    <3> QED BY <1>1, <1>3, <3>2, <3>6, <3>7, <3>8 DEF Budget
  <2> QED BY <2>2, <2>3
<1>14. Hand(job)
  <2>1. \A c \in todo : c.attempt \in 1 .. (MaxAttempts + MaxFaults)
    <3> SUFFICES ASSUME NEW c \in todo PROVE c.attempt \in 1 .. (MaxAttempts + MaxFaults)
      OBVIOUS
    <3>1. c.id \in rows /\ c.id \in Email /\ c.attempt = email'[c.id].attempt
      BY <1>1, <1>10
    <3>2. c.attempt = email[c.id].attempt + 1 /\ email[c.id].attempt \in Nat
      BY <1>8, <3>1 DEF AttemptInv, Budget
    <3>3. Budget(c.id)' /\ IsFiniteSet(Holders(c.id))
      BY <1>13, <3>1 DEF AttemptInv, Budget
    <3>4. Cardinality(Retrying(c.id)') \in Nat
      <4>1. IsFiniteSet(Holders(c.id)')
        BY <3>3 DEF Budget
      <4>2. Retrying(c.id)' \subseteq Holders(c.id)'
        BY DEF Retrying, Holders, Retries, Holds
      <4> QED BY <4>1, <4>2, FS_Subset, FS_CardinalityType
    <3> QED BY <1>1, <1>3, <3>1, <3>2, <3>3, <3>4 DEF Budget
  <2> QED BY <1>10, <1>11, <2>1 DEF Hand
<1>15. \A v \in Worker : Hand(worker'[v])
  BY <1>6, <1>14, HandsStay DEF MailInv
<1> QED BY <1>3, <1>13, <1>15 DEF AttemptInv

(* A row that is only looked at.                                              *)
LEMMA DeliverKeepsBudget ==
    ASSUME MailInv, AttemptInv, NEW w \in Worker, NEW c \in worker[w].todo,
           NEW accepted \in BOOLEAN, Deliver(w, c, accepted)
    PROVE  AttemptInv'
<1>1. /\ email \in [Email -> Mail] /\ worker \in [Worker -> Work] /\ faults' = faults
      /\ worker[w].now = {} /\ Hand(worker[w]) /\ faults \in Nat
  BY EmailAssumption DEF EmailAssumption, MailInv, MailTypeOK, AttemptInv, Deliver
<1> DEFINE job == [todo |-> worker[w].todo \ {c}, now |-> {c},
                   at |-> IF accepted THEN "accepted" ELSE "threw"]
<1>2. worker' = [worker EXCEPT ![w] = job]
  BY DEF Deliver
<1>3. job.todo = worker[w].todo \ {c} /\ job.now = {c}
  OBVIOUS
<1> HIDE DEF job
<1>4. job.todo \cup job.now = worker[w].todo \cup worker[w].now /\ Hand(job)
  BY <1>1, <1>3 DEF Hand
<1>5. ASSUME NEW e \in Email PROVE Budget(e)'
  <2>1. email'[e].status = email[e].status /\ email'[e].attempt = email[e].attempt
    <3>1. email' = [email EXCEPT ![c.id].mailed = @ \/ accepted] /\ email[e] \in Mail
      BY <1>1 DEF Deliver
    <3> QED BY <1>1, <3>1 DEF Mail
  <2>2. Holders(e)' = Holders(e) /\ Retrying(e)' = Retrying(e)
    <3>1. /\ Holds(w, e) <=> \E d \in job.todo \cup job.now : d.id = e
          /\ Retries(w, e) <=> \E d \in job.todo \cup job.now : d.id = e /\ AttemptsLeft(d)
      BY <1>4 DEF Holds, Retries
    <3>2. (w \in Holders(e) <=> Holds(w, e)) /\ (w \in Retrying(e) <=> Retries(w, e))
      BY DEF Holders, Retrying
    <3>3. /\ Holders(e)' = IF \E d \in job.todo \cup job.now : d.id = e
                           THEN Holders(e) \cup {w} ELSE Holders(e) \ {w}
          /\ Retrying(e)' = IF \E d \in job.todo \cup job.now : d.id = e /\ AttemptsLeft(d)
                            THEN Retrying(e) \cup {w} ELSE Retrying(e) \ {w}
      BY <1>2, HoldersChange DEF MailInv
    <3> QED BY <3>1, <3>2, <3>3
  <2> QED BY <1>1, <2>1, <2>2, BudgetStays DEF AttemptInv
<1>6. \A v \in Worker : Hand(worker'[v])
  BY <1>2, <1>4, HandsStay DEF MailInv
<1> QED BY <1>1, <1>5, <1>6 DEF AttemptInv

(* What a worker that is done with a row still holds.                         *)
LEMMA RowLetGo ==
    ASSUME MailInv, AttemptInv, NEW w \in Worker, NEW c \in worker[w].now, NEW e \in Email,
           worker' = [worker EXCEPT ![w] = [worker[w] EXCEPT !.now = {}, !.at = "ready"]]
    PROVE  /\ Holders(e)' = IF e = c.id THEN Holders(e) \ {w} ELSE Holders(e)
           /\ Retrying(e)' = IF e = c.id THEN Retrying(e) \ {w} ELSE Retrying(e)
           /\ e = c.id => w \in Holders(e) /\ (w \in Retrying(e) <=> AttemptsLeft(c))
           /\ \A v \in Worker : Hand(worker'[v])
<1>1. worker \in [Worker -> Work] /\ worker[w] \in Work /\ Hand(worker[w])
  BY DEF MailInv, MailTypeOK, AttemptInv
<1> DEFINE job == [worker[w] EXCEPT !.now = {}, !.at = "ready"]
<1>2. job.todo = worker[w].todo /\ job.now = {}
  BY <1>1 DEF Work
<1>3. worker' = [worker EXCEPT ![w] = job]
  OBVIOUS
<1> HIDE DEF job
<1>4. worker[w].now = {c} /\ c \notin worker[w].todo
  BY <1>1 DEF Hand
<1>5. \A d \in worker[w].todo : d.id # c.id
  BY <1>1, <1>4 DEF Hand
<1>6. /\ (w \in Holders(e)) <=> \E d \in worker[w].todo \cup {c} : d.id = e
      /\ (w \in Retrying(e)) <=> \E d \in worker[w].todo \cup {c} : d.id = e /\ AttemptsLeft(d)
  BY <1>4 DEF Holders, Retrying, Holds, Retries
<1>7. /\ Holders(e)' = IF \E d \in job.todo \cup job.now : d.id = e
                       THEN Holders(e) \cup {w} ELSE Holders(e) \ {w}
      /\ Retrying(e)' = IF \E d \in job.todo \cup job.now : d.id = e /\ AttemptsLeft(d)
                        THEN Retrying(e) \cup {w} ELSE Retrying(e) \ {w}
  BY <1>3, HoldersChange DEF MailInv
<1>8. Hand(job)
  BY <1>1, <1>2 DEF Hand
<1>9. \A v \in Worker : Hand(worker'[v])
  BY <1>3, <1>8, HandsStay DEF MailInv
<1> QED BY <1>2, <1>5, <1>6, <1>7, <1>9

LEMMA NoteKeepsBudget ==
    ASSUME MailInv, AttemptInv, NEW w \in Worker, NEW c \in worker[w].now, Note(w, c)
    PROVE  AttemptInv'
<1>1. /\ email \in [Email -> Mail] /\ worker \in [Worker -> Work] /\ faults' = faults
      /\ faults \in Nat /\ MaxAttempts \in Nat
      /\ c.id \in Email /\ email[c.id] \in Mail
  BY EmailAssumption
  DEF EmailAssumption, MailInv, MailTypeOK, AttemptInv, Note, Work, Claim
<1>2. worker' = [worker EXCEPT ![w] = [worker[w] EXCEPT !.now = {}, !.at = "ready"]]
  BY <1>1 DEF Note
<1>3. /\ Noted(w, c).attempt = email[c.id].attempt
      /\ Noted(w, c).status \in {"sent", "failed"} \/ AttemptsLeft(c)
      /\ Noted(w, c).status # "processing"
  BY <1>1 DEF Noted, MarkSent, MarkRetry, MarkFailed, Mail
<1>4. email' = [email EXCEPT ![c.id] = Noted(w, c)]
  BY DEF Note
<1>5. ASSUME NEW e \in Email PROVE Budget(e)'
  <2>1. /\ Holders(e)' = IF e = c.id THEN Holders(e) \ {w} ELSE Holders(e)
        /\ Retrying(e)' = IF e = c.id THEN Retrying(e) \ {w} ELSE Retrying(e)
        /\ e = c.id => w \in Holders(e) /\ (w \in Retrying(e) <=> AttemptsLeft(c))
    BY <1>2, RowLetGo
  <2>2. CASE e # c.id
    <3>1. email'[e] = email[e]
      BY <1>1, <1>4, <2>2
    <3> QED BY <1>1, <2>1, <2>2, <3>1, BudgetStays DEF AttemptInv
  <2>3. CASE e = c.id
    <3> DEFINE h == Cardinality(Holders(e))
               r == Cardinality(Retrying(e))
    <3>1. /\ Budget(e) /\ IsFiniteSet(Holders(e)) /\ IsFiniteSet(Retrying(e))
          /\ h \in Nat /\ r \in Nat
      BY Counts DEF AttemptInv, Budget
    <3>2. Holders(e)' = Holders(e) \ {w} /\ w \in Holders(e)
          /\ Retrying(e)' = Retrying(e) \ {w} /\ (w \in Retrying(e) <=> AttemptsLeft(c))
      BY <2>1, <2>3
    <3>3. /\ IsFiniteSet(Holders(e)') /\ Cardinality(Holders(e)') = h - 1
          /\ Cardinality(Retrying(e)') = IF AttemptsLeft(c) THEN r - 1 ELSE r
      <4>1. /\ IsFiniteSet(Holders(e) \ {w}) /\ Cardinality(Holders(e) \ {w}) = h - 1
        BY <3>1, <3>2, FS_RemoveElement
      <4>2. Cardinality(Retrying(e) \ {w}) = IF w \in Retrying(e) THEN r - 1 ELSE r
        BY <3>1, FS_RemoveElement
      <4> HIDE DEF h, r
      <4> QED BY <3>2, <4>1, <4>2
    <3>4. email'[e].attempt = email[e].attempt /\ email'[e].status = Noted(w, c).status
      BY <1>1, <1>3, <1>4, <2>3
    <3>5. Free(e)' => AttemptsLeft(c)
      BY <1>3, <3>4 DEF Free
    <3> HIDE DEF h, r
    <3>6. Cardinality(Retrying(e)') <= r /\ Cardinality(Retrying(e)') \in Int
          /\ (Free(e)' => Cardinality(Retrying(e)') = r - 1)
      BY <3>1, <3>3, <3>5
    <3>7. /\ email[e].attempt \in Nat /\ h <= faults + 1
          /\ email[e].attempt + r <= MaxAttempts + faults
      BY <3>1 DEF Budget, h, r
    <3> QED BY <1>1, <3>1, <3>3, <3>4, <3>6, <3>7 DEF Budget
  <2> QED BY <2>2, <2>3
<1>6. \A v \in Worker : Hand(worker'[v])
  BY <1>1, <1>2, RowLetGo
<1>7. faults' \in 0 .. MaxFaults
  BY <1>1 DEF AttemptInv
<1> QED BY <1>5, <1>6, <1>7 DEF AttemptInv

LEMMA FaultKeepsBudget ==
    ASSUME MailInv, AttemptInv, NEW w \in Worker,
           Die(w) \/ \E c \in worker[w].now : NoteFails(w, c)
    PROVE  AttemptInv'
<1>1. /\ email \in [Email -> Mail] /\ worker \in [Worker -> Work] /\ worker[w] \in Work
      /\ Hand(worker[w]) /\ faults \in Nat /\ MaxFaults \in Nat /\ email' = email
      /\ faults < MaxFaults /\ faults' = faults + 1
  BY EmailAssumption
  DEF EmailAssumption, MailInv, MailTypeOK, AttemptInv, Die, NoteFails
<1>2. CASE Die(w) \/ \E c \in worker[w].now : NoteFails(w, c) /\ worker[w].at = "accepted"
  <2> DEFINE threw == [worker[w] EXCEPT !.at = "threw"]
  <2>1. PICK job \in {Ready, threw} : worker' = [worker EXCEPT ![w] = job]
    BY <1>1, <1>2 DEF Die, NoteFails
  <2>2. job.todo \cup job.now = {} \/ (job.todo = worker[w].todo /\ job.now = worker[w].now)
    BY <1>1, <2>1 DEF Ready, Work
  <2>3. job.todo \cup job.now = {} \/ job.todo \cup job.now = worker[w].todo \cup worker[w].now
    BY <2>2
  <2>4. Hand(job)
    <3>1. CASE job.todo \cup job.now = {}
      BY <3>1 DEF Hand
    <3>2. CASE job.todo = worker[w].todo /\ job.now = worker[w].now
      BY <1>1, <3>2 DEF Hand
    <3> QED BY <2>2, <3>1, <3>2
  <2> HIDE DEF threw
  <2>5. ASSUME NEW e \in Email PROVE Budget(e)'
    <3>1. /\ Holders(e)' = IF \E d \in job.todo \cup job.now : d.id = e
                           THEN Holders(e) \cup {w} ELSE Holders(e) \ {w}
          /\ Retrying(e)' = IF \E d \in job.todo \cup job.now : d.id = e /\ AttemptsLeft(d)
                            THEN Retrying(e) \cup {w} ELSE Retrying(e) \ {w}
      BY <2>1, HoldersChange DEF MailInv
    <3>2. /\ (w \in Holders(e)) <=> \E d \in worker[w].todo \cup worker[w].now : d.id = e
          /\ (w \in Retrying(e)) <=> \E d \in worker[w].todo \cup worker[w].now :
                                        d.id = e /\ AttemptsLeft(d)
      BY DEF Holders, Retrying, Holds, Retries
    <3>3. /\ Holders(e)' \in {Holders(e), Holders(e) \ {w}}
          /\ Retrying(e)' \in {Retrying(e), Retrying(e) \ {w}}
      BY <2>3, <3>1, <3>2
    <3> QED BY <1>1, <3>3, BudgetAfterFault DEF AttemptInv
  <2>6. \A v \in Worker : Hand(worker'[v])
    BY <2>1, <2>4, HandsStay DEF MailInv
  <2> QED BY <1>1, <2>5, <2>6 DEF AttemptInv
<1>3. ASSUME NEW c \in worker[w].now, NoteFails(w, c), worker[w].at # "accepted"
      PROVE  AttemptInv'
  <2>1. worker' = [worker EXCEPT ![w] = [worker[w] EXCEPT !.now = {}, !.at = "ready"]]
    BY <1>1, <1>3 DEF NoteFails
  <2>2. ASSUME NEW e \in Email PROVE Budget(e)'
    <3>1. /\ Holders(e)' \in {Holders(e), Holders(e) \ {w}}
          /\ Retrying(e)' \in {Retrying(e), Retrying(e) \ {w}}
      BY <2>1, RowLetGo
    <3> QED BY <1>1, <3>1, BudgetAfterFault DEF AttemptInv
  <2>3. \A v \in Worker : Hand(worker'[v])
    <3>1. c.id \in Email
      BY <1>1 DEF Work, Claim
    <3> QED BY <2>1, <3>1, RowLetGo
  <2> QED BY <1>1, <2>2, <2>3 DEF AttemptInv
<1> QED BY <1>2, <1>3

-----------------------------------------------------------------------------
(* What the transactions write to the outbox, and all types.                  *)

OutboxWrite ==
    /\ UNCHANGED <<worker, faults>>
    /\ \A e \in Email :
          \/ email'[e] = email[e]
          \/ /\ email[e].status = "none" /\ email'[e].attempt = 0
          \/ email'[e].status = "cancelled" /\ email'[e].attempt = email[e].attempt

LEMMA OutboxWrites ==
    ASSUME MailTypeOK, NEW rows,
           \/ OutboxOnly(Enqueued(rows))
           \/ OutboxOnly(CancelledActions(rows))
           \/ OutboxOnly(CancelledWithBranch(rows))
    PROVE  OutboxWrite
<1>1. UNCHANGED <<worker, faults>> /\ \A e \in Email : email[e] \in Mail
  BY DEF OutboxOnly, MailTypeOK
<1>2. ASSUME NEW e \in Email
      PROVE  \/ email'[e] = email[e]
             \/ email[e].status = "none" /\ email'[e].attempt = 0
             \/ email'[e].status = "cancelled" /\ email'[e].attempt = email[e].attempt
  <2>1. email[e] \in Mail
    BY <1>1
  <2>2. CASE OutboxOnly(Enqueued(rows))
    BY <2>2 DEF OutboxOnly, Enqueued, NoEmail
  <2>3. CASE OutboxOnly(CancelledActions(rows)) \/ OutboxOnly(CancelledWithBranch(rows))
    BY <2>1, <2>3 DEF OutboxOnly, CancelledActions, CancelledWithBranch, Mail
  <2> QED BY <2>2, <2>3
<1> QED BY <1>1, <1>2 DEF OutboxWrite

LEMMA StepWrites ==
    ASSUME MailTypeOK, AccountStep
    PROVE  OutboxWrite
<1>1. CASE \/ Submit \/ Reject
           \/ \E b \in Branch : DeleteBranch(b)
  BY <1>1, OutboxWrites DEF Submit, Reject, DeleteBranch
<1>2. CASE \/ Approve \/ \E t \in Token : RequestPasswordReset(t)
           \/ \E b \in Branch : \/ \E us \in SUBSET Manager : CreateBranch(b, us)
                                \/ \E u \in Manager : InviteManager(b, u)
                                \/ \E u \in Staff : CreateStaff(b, u)
  <2>1. PICK new : OutboxOnly(Enqueued(new))
    BY <1>2 DEF Approve, RequestPasswordReset, CreateBranch, InviteManager, CreateStaff,
                Invite, IssueAccountActions
  <2> QED BY <2>1, OutboxWrites
<1>3. CASE \/ \E t \in Token : Activate(t) \/ ResetPassword(t)
           \/ \E b \in Branch : \E u \in Staff : RemoveStaff(b, u)
           \/ SuspendOrganization
  BY <1>3 DEF Activate, ResetPassword, RemoveStaff, SuspendOrganization, emailVars, OutboxWrite
<1>4. ASSUME NEW b \in Branch, NEW u \in Manager, RemoveManager(b, u) PROVE OutboxWrite
  <2>1. \/ OutboxOnly(CancelledActions(TokensOf({u}, "account_activation")))
        \/ UNCHANGED emailVars
    BY <1>4 DEF RemoveManager
  <2> QED BY <2>1, OutboxWrites DEF emailVars, OutboxWrite
<1> QED BY <1>1, <1>2, <1>3, <1>4 DEF AccountStep

LEMMA AttemptStep ==
    ASSUME MailInv, AttemptInv, [Next]_vars
    PROVE  AttemptInv'
<1>1. CASE AccountStep \/ UNCHANGED vars
  <2>1. OutboxWrite
    BY <1>1, StepWrites DEF vars, emailVars, OutboxWrite, MailInv
  <2> QED BY <2>1, OutboxKeepsBudget DEF OutboxWrite
<1>2. CASE OutboxStep
  BY <1>2, ClaimKeepsBudget, DeliverKeepsBudget, NoteKeepsBudget, FaultKeepsBudget
  DEF OutboxStep, EmailNext, WorkerStep
<1> QED BY <1>1, <1>2 DEF Next

LEMMA TypesHold == AccountTypeOK /\ MailInv /\ AttemptInv => TypeOK
<1> SUFFICES ASSUME AccountTypeOK, MailInv, AttemptInv PROVE EmailTypeOK
  BY DEF TypeOK
<1>1. MaxAttempts \in Nat /\ MaxFaults \in Nat /\ faults \in 0 .. MaxFaults
  BY EmailAssumption DEF EmailAssumption, AttemptInv
<1>2. ASSUME NEW e \in Email PROVE email[e] \in EmailRow
  <2>1. Budget(e) /\ Cardinality(Retrying(e)) \in Nat
    BY Counts DEF AttemptInv, Budget
  <2>2. email[e].attempt \in 0 .. (MaxAttempts + MaxFaults)
    BY <1>1, <2>1 DEF Budget
  <2>3. email[e] \in Mail
    BY DEF MailInv, MailTypeOK
  <2> QED BY <2>2, <2>3 DEF Mail, EmailRow
<1>3. ASSUME NEW w \in Worker
      PROVE  /\ worker[w] \in [todo : SUBSET Claimed, at : {"ready", "accepted", "threw"},
                               now : SUBSET Claimed]
             /\ Cardinality(worker[w].now) <= 1
  <2>1. worker[w] \in Work /\ Hand(worker[w])
    BY DEF MailInv, MailTypeOK, AttemptInv
  <2>2. \A c \in worker[w].todo \cup worker[w].now : c \in Claimed
    BY <2>1 DEF Work, Claim, Claimed, Hand
  <2>3. Cardinality(worker[w].now) <= 1
    <3>1. CASE worker[w].now = {}
      BY <3>1, FS_EmptySet
    <3>2. CASE worker[w].now # {}
      <4>1. PICK c \in worker[w].now : worker[w].now = {c}
        BY <2>1, <3>2 DEF Hand
      <4>2. Cardinality({c}) = 1
        BY FS_Singleton
      <4> QED BY <4>1, <4>2
    <3> QED BY <3>1, <3>2
  <2> QED BY <2>1, <2>2, <2>3 DEF Work
<1>4. email \in [Email -> EmailRow]
  BY <1>2 DEF MailInv, MailTypeOK
<1>5. worker \in [Worker -> [todo : SUBSET Claimed, at : {"ready", "accepted", "threw"},
                             now : SUBSET Claimed]]
  BY <1>3 DEF MailInv, MailTypeOK
<1> QED BY <1>1, <1>3, <1>4, <1>5 DEF EmailTypeOK

(* All variables keep their types; in particular the attempts of a mail stay  *)
(* within its maximum and the faults there have been, and a worker delivers   *)
(* one mail at a time.                                                        *)
THEOREM AccountsTyped == Spec => []TypeOK
<1>1. Init => AttemptInv
  <2> SUFFICES ASSUME Init PROVE AttemptInv
    OBVIOUS
  <2>1. /\ email = [e \in Email |-> NoEmail] /\ worker = [w \in Worker |-> Ready] /\ faults = 0
        /\ MaxAttempts \in Nat \ {0} /\ MaxFaults \in Nat
    BY EmailAssumption DEF EmailAssumption, Init, EmailInit
  <2>2. \A e \in Email : Holders(e) = {} /\ Retrying(e) = {}
    BY <2>1 DEF Holders, Retrying, Holds, Retries, Ready
  <2>3. \A e \in Email : Budget(e)
    BY <2>1, <2>2, FS_EmptySet DEF Budget, Free, NoEmail
  <2>4. \A w \in Worker : Hand(worker[w])
    BY <2>1 DEF Hand, Ready
  <2> QED BY <2>1, <2>3, <2>4 DEF AttemptInv
<1>2. MailInv /\ AttemptInv /\ [Next]_vars => AttemptInv'
  BY AttemptStep
<1> QED BY <1>1, <1>2, AccountTypes, MailsKnown, TypesHold, PTL DEF Spec

=============================================================================
