----------------------------- MODULE AccessControl -----------------------------
(***************************************************************************)
(* Users, roles, sessions and the guards every request passes.             *)
(*                                                                         *)
(* A request is let in by the guards and by the checks its service makes   *)
(* outside a transaction (Begin); then it makes its writes.  A change of an*)
(* account opens a transaction, writes, counts the managers that would be  *)
(* left (CountManagers) and commits (CommitAccount).  A transaction sees   *)
(* its own writes and what others have committed.                          *)
(*                                                                         *)
(* Source: src/src/users, src/src/roles, src/src/auth, src/src/common/guards *)
(***************************************************************************)
EXTENDS Naturals, FiniteSets

CONSTANTS
    Users, Roles,
    SystemRoles,     \* roles with isSystemRole
    FirstUsers,      \* the roles each seeded user has; no entry: not seeded
    FirstRoles,      \* the permissions each seeded role grants
    AccessRequests,
    Asked,           \* bound: the requests that are made
    Same             \* a field the request leaves out

ManageUsers == "user.manage"
ManageRoles == "role.manage"
Permissions == {ManageUsers, ManageRoles}

VARIABLES
    role,       \* [state, grants] of each role
    user,       \* [state, status, roles, password, mustReset] of each user
    sessions,   \* the users with a session
    access      \* what each request is at

accessVars == <<role, user, sessions, access>>

Idle == [op |-> "none"]
NoAccount == [state |-> "absent", status |-> "INACTIVE", roles |-> {}, password |-> "none",
              mustReset |-> TRUE]

(* The seed gives every user a placeholder hash that no password matches;   *)
(* passwords of the first users have been set since.                        *)
AccessInit ==
    /\ role = [q \in Roles |->
          IF q \in DOMAIN FirstRoles THEN [state |-> "live", grants |-> FirstRoles[q]]
          ELSE [state |-> "absent", grants |-> {}]]
    /\ user = [u \in Users |->
          IF u \in DOMAIN FirstUsers
          THEN [state |-> "live", status |-> "ACTIVE", roles |-> FirstUsers[u],
                password |-> "own", mustReset |-> FALSE]
          ELSE NoAccount]
    /\ sessions = {}
    /\ access = [r \in AccessRequests |-> Idle]

-------------------------------------------------------------------------------
(* AuthService and the three guards.                                        *)

Live(u) == user[u].state = "live"
Usable(u) == Live(u) /\ user[u].status = "ACTIVE"

(* getPrincipal: the permissions of all roles the user has, deleted or not. *)
PermissionsOf(u) == UNION {role[q].grants : q \in user[u].roles}

Login(u) ==
    /\ Usable(u)
    /\ u \notin sessions
    /\ sessions' = sessions \cup {u}
    /\ UNCHANGED <<role, user, access>>

Logout(u) ==
    /\ u \in sessions
    /\ sessions' = sessions \ {u}
    /\ UNCHANGED <<role, user, access>>

Authenticated(u) == u \in sessions /\ Usable(u)
PasswordIsOwn(u) == ~user[u].mustReset
LetIn(u, permission) == Authenticated(u) /\ PasswordIsOwn(u) /\ permission \in PermissionsOf(u)

-------------------------------------------------------------------------------
(* Requests.                                                                *)

RolesExist(R) == \A q \in R : role[q].state = "live"

RequestsFor(op) ==
    CASE op = "createUser" ->
           [op : {op}, actor : Users, target : Users, roles : SUBSET Roles]
      [] op = "updateUser" ->
           [op : {op}, actor : Users, target : Users, roles : {Same} \cup SUBSET Roles,
            status : {Same, "ACTIVE", "INACTIVE"}]
      [] op \in {"deleteUser", "requireReset"} -> [op : {op}, actor : Users, target : Users]
      [] op = "resetPassword" -> [op : {op}, actor : Users]
      [] op \in {"createRole", "updateRole"} ->
           [op : {op}, actor : Users, role : Roles, grants : SUBSET Permissions]
      [] op = "deleteRole" -> [op : {op}, actor : Users, role : Roles]

Operations == {"createUser", "updateUser", "deleteUser", "requireReset", "resetPassword",
               "createRole", "updateRole", "deleteRole"}

ASSUME AccessAssumption == \A q \in Asked : q.op \in Operations /\ q \in RequestsFor(q.op)

GrantManage(R) == \E p \in R : ManageUsers \in role[p].grants

(* "Cannot remove your own user.manage", "cannot deactivate yourself".      *)
KeepsOwnAccess(q) ==
    q.actor = q.target =>
        /\ q.status # "INACTIVE"
        /\ q.roles # Same => GrantManage(q.roles)

MayCreateUser(q) == LetIn(q.actor, ManageUsers) /\ RolesExist(q.roles)

MayUpdateUser(q) ==
    /\ LetIn(q.actor, ManageUsers)
    /\ Live(q.target)
    /\ q.roles # Same => RolesExist(q.roles)
    /\ KeepsOwnAccess(q)

MayTouchOther(q) == LetIn(q.actor, ManageUsers) /\ Live(q.target) /\ q.target # q.actor

(* A role goes only while no user that is not deleted has it.               *)
MayDeleteRole(q) ==
    /\ LetIn(q.actor, ManageRoles)
    /\ role[q.role].state = "live"
    /\ q.role \notin SystemRoles
    /\ \A u \in Users : Live(u) => q.role \notin user[u].roles

Admissible(q) ==
    CASE q.op = "createUser" -> MayCreateUser(q)
      [] q.op = "updateUser" -> MayUpdateUser(q)
      [] q.op \in {"deleteUser", "requireReset"} -> MayTouchOther(q)
      [] q.op = "resetPassword" -> Authenticated(q.actor)
      [] q.op = "createRole" -> LetIn(q.actor, ManageRoles)
      [] q.op = "updateRole" -> LetIn(q.actor, ManageRoles) /\ role[q.role].state = "live"
      [] q.op = "deleteRole" -> MayDeleteRole(q)

Begin(r, q) ==
    /\ access[r] = Idle
    /\ Admissible(q)
    /\ access' = [access EXCEPT ![r] = q]
    /\ UNCHANGED <<role, user, sessions>>

-------------------------------------------------------------------------------
(* Account changes: update and softDelete.                                  *)

IsAccountChange(q) == q.op \in {"updateUser", "deleteUser"}

Changed(q) ==
    LET old == user[q.target]
    IN  IF q.op = "deleteUser"
        THEN [old EXCEPT !.state = "deleted", !.status = "INACTIVE"]
        ELSE [old EXCEPT !.roles = IF q.roles = Same THEN @ ELSE q.roles,
                         !.status = IF q.status = Same THEN @ ELSE q.status]

(* Mutated form: the count forgets that a manager has to be active.         *)
CountsInactive(accounts) ==
    {u \in Users : /\ accounts[u].state = "live"
                   /\ \E q \in accounts[u].roles :
                         role[q].state = "live" /\ ManageUsers \in role[q].grants}
Managers(accounts) ==
    {u \in Users : /\ accounts[u].state = "live" /\ accounts[u].status = "ACTIVE"
                   /\ \E q \in accounts[u].roles :
                         role[q].state = "live" /\ ManageUsers \in role[q].grants}

Covered(q) == Managers([user EXCEPT ![q.target] = Changed(q)]) # {}

(* The rows a change holds until it commits: the target's own, or those of  *)
(* its roles.  (Two changes of one user's roles that overlap would merge    *)
(* their roles; they wait for one another here.)                            *)
RowsOf(q) ==
    (IF q.op = "deleteUser" \/ q.status # Same THEN {<<q.target, "user">>} ELSE {})
        \cup (IF q.op = "updateUser" /\ q.roles # Same THEN {<<q.target, "roles">>} ELSE {})

(* The writes and the count.  `missed`: another account or role changed     *)
(* between the count and the commit.                                        *)
CountManagers(r) ==
    LET q == access[r]
    IN  /\ IsAccountChange(q)
        /\ \A s \in AccessRequests :
              access[s].op = "counted" => RowsOf(access[s].change) \cap RowsOf(q) = {}
        /\ access' = [access EXCEPT ![r] =
              IF Covered(q) THEN [op |-> "counted", change |-> q, missed |-> FALSE] ELSE Idle]
        /\ UNCHANGED <<role, user, sessions>>

DoneBehindCounts(r) ==
    access' = [s \in AccessRequests |->
        IF s = r THEN Idle
        ELSE IF access[s].op = "counted" THEN [access[s] EXCEPT !.missed = TRUE]
        ELSE access[s]]

CommitAccount(r) ==
    /\ access[r].op = "counted"
    /\ LET q == access[r].change
       IN  user' = [user EXCEPT ![q.target] = Changed(q)]
    /\ DoneBehindCounts(r)
    /\ UNCHANGED <<role, sessions>>

-------------------------------------------------------------------------------
(* The other requests write in one statement or transaction.                *)

Done(r) == access' = [access EXCEPT ![r] = Idle]

(* A taken email address refuses the row.                                   *)
CommitCreateUser(r) ==
    LET q == access[r]
    IN  /\ q.op = "createUser"
        /\ user' = IF user[q.target].state # "absent" THEN user
                   ELSE [user EXCEPT ![q.target] =
                            [state |-> "live", status |-> "ACTIVE", roles |-> q.roles,
                             password |-> "default", mustReset |-> TRUE]]
        /\ Done(r)
        /\ UNCHANGED <<role, sessions>>

CommitRequireReset(r) ==
    LET q == access[r]
    IN  /\ q.op = "requireReset"
        /\ user' = [user EXCEPT ![q.target].password = "default", ![q.target].mustReset = TRUE]
        /\ Done(r)
        /\ UNCHANGED <<role, sessions>>

CommitResetPassword(r) ==
    LET q == access[r]
    IN  /\ q.op = "resetPassword"
        /\ user' = [user EXCEPT ![q.actor].password = "own", ![q.actor].mustReset = FALSE]
        /\ Done(r)
        /\ UNCHANGED <<role, sessions>>

(* A taken name refuses the row, too.  No role request counts managers.     *)
CreatedRole(q) ==
    IF role[q.role].state # "absent" THEN role
    ELSE [role EXCEPT ![q.role] = [state |-> "live", grants |-> q.grants]]
UpdatedRole(q) == [role EXCEPT ![q.role].grants = q.grants]
DeletedRole(q) == [role EXCEPT ![q.role].state = "deleted"]

CommitWriteRole(r) ==
    LET q == access[r]
    IN  /\ \/ q.op = "createRole" /\ role' = CreatedRole(q)
           \/ q.op = "updateRole" /\ role' = UpdatedRole(q)
           \/ q.op = "deleteRole" /\ role' = DeletedRole(q)
        /\ DoneBehindCounts(r)
        /\ UNCHANGED <<user, sessions>>

-------------------------------------------------------------------------------
AccessNext ==
    \/ \E u \in Users : Login(u) \/ Logout(u)
    \/ \E r \in AccessRequests :
          \/ \E q \in Asked : Begin(r, q)
          \/ CountManagers(r) \/ CommitAccount(r)
          \/ CommitCreateUser(r) \/ CommitRequireReset(r) \/ CommitResetPassword(r)
          \/ CommitWriteRole(r)

AccessSpec == AccessInit /\ [][AccessNext]_accessVars

-------------------------------------------------------------------------------
(* Properties.                                                              *)

(* The accounts whose requests the guards let manage users.                 *)
CanManage == {u \in Users : Usable(u) /\ ManageUsers \in PermissionsOf(u)}

(* Whatever administrators do to one another's accounts, and although each  *)
(* request was let in before the others took effect, no change of an        *)
(* account leaves nobody who can manage users, unless another account or    *)
(* role changed between its count and its commit.                           *)
AccountChangesKeepAManager ==
    [][CanManage # {} /\ CanManage' = {} =>
          \/ role' # role
          \/ \E r \in AccessRequests : access[r].op = "counted" /\ access[r].missed
                                       /\ access'[r] = Idle]_accessVars
=============================================================================
