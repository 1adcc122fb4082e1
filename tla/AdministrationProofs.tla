------------------------- MODULE AdministrationProofs -------------------------
(***************************************************************************)
(* Changes of accounts keep somebody who can manage users, for any users,  *)
(* roles, requests and number of administrators at work at the same time.  *)
(* A number that is drawn under the advisory lock stays free, and the id   *)
(* ranges partition the ids, for any kinds, clerks and devices.            *)
(***************************************************************************)
EXTENDS AccessControl, Numbering, FiniteSetTheorems, TLAPS

-------------------------------------------------------------------------------
(* Accounts.                                                                *)

AccountFields == {"state", "status", "roles", "password", "mustReset"}
CountFields == {"op", "change", "missed"}

IsTarget(u) == u \in Users /\ user[u].state # "absent"

AccessTypes ==
    /\ user = [u \in Users |-> user[u]]
    /\ \A u \in Users : user[u] = [f \in AccountFields |-> user[u][f]]
    /\ access = [r \in AccessRequests |-> access[r]]

(* What is counted stays true until another account or role changes.        *)
CountStandsIn(w) ==
    /\ IsAccountChange(w) => IsTarget(w.target)
    /\ w.op = "counted" =>
          /\ w = [f \in CountFields |-> w[f]] /\ w.missed \in BOOLEAN
          /\ IsAccountChange(w.change) /\ IsTarget(w.change.target)
          /\ ~w.missed => Covered(w.change)

CountsStand == \A r \in AccessRequests : CountStandsIn(access[r])

AccessInv == AccessTypes /\ CountsStand

-------------------------------------------------------------------------------
(* Accounts whose state, status and roles are those they were.              *)
SameAccess(a, b) == a.state = b.state /\ a.status = b.status /\ a.roles = b.roles

(* Accounts keep what counts, but for those that did not exist.             *)
AccountsStand == \A u \in Users : SameAccess(user[u], user'[u]) \/ user[u].state = "absent"

LEMMA ChangedIsAccount ==
    ASSUME AccessTypes, NEW q, q.target \in Users
    PROVE  /\ Changed(q) = [f \in AccountFields |-> Changed(q)[f]]
           /\ Changed(q).state = IF q.op = "deleteUser" THEN "deleted" ELSE user[q.target].state
           /\ Changed(q).status = IF q.op = "deleteUser" THEN "INACTIVE"
                                  ELSE IF q.status = Same THEN user[q.target].status ELSE q.status
           /\ Changed(q).roles = IF q.op = "deleteUser" \/ q.roles = Same
                                 THEN user[q.target].roles ELSE q.roles
<1>1. PICK old : old = user[q.target]
  OBVIOUS
<1>2. old = [f \in AccountFields |-> old[f]]
  BY <1>1 DEF AccessTypes
<1>3. CASE q.op = "deleteUser"
  BY <1>1, <1>2, <1>3 DEF Changed, AccountFields
<1>4. CASE q.op # "deleteUser"
  BY <1>1, <1>2, <1>4 DEF Changed, AccountFields
<1> QED
  BY <1>3, <1>4

(* A count taken before such a step is as good after it.                    *)
LEMMA CountStands ==
    ASSUME AccessTypes, AccessTypes', AccountsStand, UNCHANGED role, NEW q,
           IsTarget(q.target), Covered(q)
    PROVE  Covered(q)'
<1>1. PICK t : t = q.target
  OBVIOUS
<1>2. t \in Users /\ SameAccess(user[t], user'[t])
  BY <1>1 DEF IsTarget, AccountsStand
<1>3. PICK old : old = Changed(q)
  OBVIOUS
<1>4. PICK new : new = Changed(q)'
  OBVIOUS
<1>5. SameAccess(old, new)
  <2>1. /\ old.state = IF q.op = "deleteUser" THEN "deleted" ELSE user[t].state
        /\ old.status = IF q.op = "deleteUser" THEN "INACTIVE"
                        ELSE IF q.status = Same THEN user[t].status ELSE q.status
        /\ old.roles = IF q.op = "deleteUser" \/ q.roles = Same THEN user[t].roles ELSE q.roles
    BY <1>1, <1>2, <1>3, ChangedIsAccount
  <2>2. /\ new.state = IF q.op = "deleteUser" THEN "deleted" ELSE user'[t].state
        /\ new.status = IF q.op = "deleteUser" THEN "INACTIVE"
                        ELSE IF q.status = Same THEN user'[t].status ELSE q.status
        /\ new.roles = IF q.op = "deleteUser" \/ q.roles = Same THEN user'[t].roles ELSE q.roles
    <3>1. PICK o : o = user'[t]
      OBVIOUS
    <3>2. o = [f \in AccountFields |-> o[f]]
      BY <1>2, <3>1 DEF AccessTypes
    <3>3. new = IF q.op = "deleteUser"
                THEN [o EXCEPT !.state = "deleted", !.status = "INACTIVE"]
                ELSE [o EXCEPT !.roles = IF q.roles = Same THEN @ ELSE q.roles,
                               !.status = IF q.status = Same THEN @ ELSE q.status]
      BY <1>1, <1>4, <3>1 DEF Changed
    <3>4. CASE q.op = "deleteUser"
      BY <3>1, <3>2, <3>3, <3>4 DEF AccountFields
    <3>5. CASE q.op # "deleteUser"
      BY <3>1, <3>2, <3>3, <3>5 DEF AccountFields
    <3> QED
      BY <3>4, <3>5
  <2> QED
    BY <1>2, <2>1, <2>2 DEF SameAccess
<1>6. PICK m \in Users : m \in Managers([user EXCEPT ![t] = old])
  BY <1>1, <1>3 DEF Covered, Managers
<1>7. PICK A : A = [user' EXCEPT ![t] = new]
  OBVIOUS
<1>8. /\ A[m].state = "live" /\ A[m].status = "ACTIVE"
      /\ \E p \in A[m].roles : role[p].state = "live" /\ ManageUsers \in role[p].grants
  <2>1. /\ [user EXCEPT ![t] = old][m] = IF m = t THEN old ELSE user[m]
        /\ A[m] = IF m = t THEN new ELSE user'[m]
    BY <1>2, <1>7 DEF AccessTypes
  <2>2. m # t => SameAccess(user[m], user'[m])
    BY <1>6, <2>1 DEF AccountsStand, Managers
  <2> QED
    BY <1>5, <1>6, <2>1, <2>2 DEF Managers, SameAccess
<1>9. A = [user EXCEPT ![q.target] = Changed(q)]'
  BY <1>1, <1>4, <1>7
<1>10. Managers(A)' # {}
  BY <1>8 DEF Managers
<1> QED
  BY <1>9, <1>10 DEF Covered

-------------------------------------------------------------------------------
(* The invariant.                                                           *)

LEMMA AccountsStandInv ==
    ASSUME AccessInv, AccessTypes', AccountsStand, UNCHANGED role,
           \A s \in AccessRequests : access'[s] \in {access[s], Idle}
    PROVE  AccessInv'
<1>1. \A u : IsTarget(u) => IsTarget(u)'
  BY DEF IsTarget, AccountsStand, SameAccess
<1>2. ASSUME NEW w, CountStandsIn(w) PROVE CountStandsIn(w)'
  <2>1. PICK q : q = w.change
    OBVIOUS
  <2>2. /\ IsAccountChange(w) => IsTarget(w.target)
        /\ w.op = "counted" =>
              /\ w = [f \in CountFields |-> w[f]] /\ w.missed \in BOOLEAN
              /\ IsAccountChange(q) /\ IsTarget(q.target)
              /\ ~w.missed => Covered(q)
    BY <1>2, <2>1 DEF CountStandsIn
  <2>3. IsTarget(q.target) /\ Covered(q) => Covered(q)'
    BY CountStands DEF AccessInv
  <2>4. PICK t : t = q.target
    OBVIOUS
  <2>5. PICK v : v = w.target
    OBVIOUS
  <2>6. (IsTarget(t) => IsTarget(t)') /\ (IsTarget(v) => IsTarget(v)')
    BY <1>1
  <2> QED
    BY <2>1, <2>2, <2>3, <2>4, <2>5, <2>6 DEF CountStandsIn
<1>3. CountStandsIn(Idle)'
  BY DEF CountStandsIn, Idle, IsAccountChange
<1>4. \A s \in AccessRequests : CountStandsIn(access[s])'
  <2> TAKE s \in AccessRequests
  <2>1. PICK w : w = access[s]
    OBVIOUS
  <2>2. CountStandsIn(w)'
    BY <1>2, <2>1 DEF AccessInv, CountsStand
  <2>3. access'[s] = w \/ access'[s] = Idle
    BY <2>1
  <2> QED
    BY <1>3, <2>2, <2>3
<1>5. CountsStand'
  BY <1>4 DEF CountsStand
<1> QED
  BY <1>5 DEF AccessInv

(* A request goes on to w.                                                  *)
LEMMA RequestInv ==
    ASSUME AccessInv, NEW r \in AccessRequests, NEW w, CountStandsIn(w),
           access' = [access EXCEPT ![r] = w], UNCHANGED <<user, role>>
    PROVE  AccessInv'
<1>1. AccessTypes'
  BY DEF AccessInv, AccessTypes
<1>2. \A s \in AccessRequests : access'[s] = IF s = r THEN w ELSE access[s]
  BY DEF AccessInv, AccessTypes
<1>3. \A v : CountStandsIn(v) => CountStandsIn(v)'
  BY DEF CountStandsIn, IsTarget, Covered, Changed, Managers
<1>4. \A s \in AccessRequests : CountStandsIn(access'[s])
  BY <1>2 DEF AccessInv, CountsStand
<1>5. CountsStand'
  <2> SUFFICES ASSUME NEW s \in AccessRequests PROVE CountStandsIn(access[s])'
    BY DEF CountsStand
  <2>1. PICK v : v = access'[s]
    OBVIOUS
  <2>2. CountStandsIn(v)'
    BY <1>3, <1>4, <2>1
  <2> QED
    BY <2>1, <2>2
<1> QED
  BY <1>1, <1>5 DEF AccessInv

LEMMA BeginInv ==
    ASSUME AccessAssumption, AccessInv, NEW r \in AccessRequests, NEW q \in Asked, Begin(r, q)
    PROVE  AccessInv'
<1>1. q.op \in Operations /\ q \in RequestsFor(q.op)
  BY DEF AccessAssumption
<1>2. q.op # "counted"
  BY <1>1 DEF Operations
<1>3. IsAccountChange(q) => IsTarget(q.target)
  <2>1. CASE q.op = "updateUser"
    <3>1. q.target \in Users
      BY <1>1, <2>1 DEF RequestsFor
    <3>2. Live(q.target)
      BY <2>1 DEF Begin, Admissible, MayUpdateUser
    <3> QED
      BY <3>1, <3>2 DEF Live, IsTarget
  <2>2. CASE q.op = "deleteUser"
    <3>1. q.target \in Users
      BY <1>1, <2>2 DEF RequestsFor
    <3>2. Live(q.target)
      BY <2>2 DEF Begin, Admissible, MayTouchOther
    <3> QED
      BY <3>1, <3>2 DEF Live, IsTarget
  <2> QED
    BY <2>1, <2>2 DEF IsAccountChange
<1>4. CountStandsIn(q)
  BY <1>2, <1>3 DEF CountStandsIn
<1> QED
  BY <1>4, RequestInv DEF Begin

LEMMA CountManagersInv ==
    ASSUME AccessInv, NEW r \in AccessRequests, CountManagers(r)
    PROVE  AccessInv'
<1>1. PICK q : q = access[r]
  OBVIOUS
<1>2. IsAccountChange(q) /\ IsTarget(q.target)
  BY <1>1 DEF CountManagers, AccessInv, CountsStand, CountStandsIn
<1>3. CASE Covered(q)
  <2>1. PICK w : w = [op |-> "counted", change |-> q, missed |-> FALSE]
    OBVIOUS
  <2>2. access' = [access EXCEPT ![r] = w] /\ UNCHANGED <<user, role>>
    BY <1>1, <1>3, <2>1 DEF CountManagers
  <2>3. CountStandsIn(w)
    BY <1>2, <1>3, <2>1 DEF CountStandsIn, IsAccountChange, CountFields
  <2> QED
    BY <2>2, <2>3, RequestInv
<1>4. CASE ~Covered(q)
  <2>1. access' = [access EXCEPT ![r] = Idle] /\ UNCHANGED <<user, role>>
    BY <1>1, <1>4 DEF CountManagers
  <2>2. CountStandsIn(Idle)
    BY DEF CountStandsIn, Idle, IsAccountChange
  <2> QED
    BY <2>1, <2>2, RequestInv
<1> QED
  BY <1>3, <1>4

(* Other counts learn that something changed behind them.                   *)
LEMMA BehindCountsInv ==
    ASSUME AccessInv, NEW r \in AccessRequests, DoneBehindCounts(r), AccessTypes',
           \A u \in Users : user[u].state # "absent" => user'[u].state # "absent"
    PROVE  AccessInv'
<1>1. \A u : IsTarget(u) => IsTarget(u)'
  BY DEF IsTarget
<1>2. CountStandsIn(Idle)'
  BY DEF CountStandsIn, Idle, IsAccountChange
<1>3. \A s \in AccessRequests : CountStandsIn(access[s])'
  <2> TAKE s \in AccessRequests
  <2>1. PICK w : w = access[s]
    OBVIOUS
  <2>2. CountStandsIn(w)
    BY <2>1 DEF AccessInv, CountsStand
  <2>3. CASE s = r
    BY <1>2, <2>3 DEF DoneBehindCounts
  <2>4. CASE s # r /\ w.op = "counted"
    <3>1. PICK v : v = [w EXCEPT !.missed = TRUE]
      OBVIOUS
    <3>2. w = [f \in CountFields |-> w[f]]
      BY <2>2, <2>4 DEF CountStandsIn
    <3>3. /\ v = [f \in CountFields |-> v[f]] /\ v.missed = TRUE /\ v.op = "counted"
          /\ v.change = w.change
      BY <2>4, <3>1, <3>2 DEF CountFields
    <3>4. PICK t : t = v.change.target
      OBVIOUS
    <3>5. IsAccountChange(v.change) /\ IsTarget(t)'
      BY <1>1, <2>2, <2>4, <3>3, <3>4 DEF CountStandsIn
    <3>6. CountStandsIn(v)'
      BY <3>3, <3>4, <3>5 DEF CountStandsIn, IsAccountChange
    <3> QED
      BY <2>1, <2>4, <3>1, <3>6 DEF DoneBehindCounts
  <2>5. CASE s # r /\ w.op # "counted"
    <3>1. PICK t : t = w.target
      OBVIOUS
    <3>2. IsTarget(t) => IsTarget(t)'
      BY <1>1
    <3>3. CountStandsIn(w)'
      BY <2>2, <2>5, <3>1, <3>2 DEF CountStandsIn
    <3> QED
      BY <2>1, <2>5, <3>3 DEF DoneBehindCounts
  <2> QED
    BY <2>3, <2>4, <2>5
<1>4. CountsStand'
  BY <1>3 DEF CountsStand
<1> QED
  BY <1>4 DEF AccessInv

-------------------------------------------------------------------------------
(* The step property.                                                       *)

KeepsAManager ==
    CanManage # {} /\ CanManage' = {} =>
        \/ role' # role
        \/ \E r \in AccessRequests : access[r].op = "counted" /\ access[r].missed
                                     /\ access'[r] = Idle

LEMMA AccountsStandKeep ==
    ASSUME AccountsStand, UNCHANGED role
    PROVE  KeepsAManager
<1> SUFFICES ASSUME NEW m \in CanManage PROVE m \in CanManage'
  BY DEF KeepsAManager
<1>1. m \in Users /\ SameAccess(user[m], user'[m])
  BY DEF AccountsStand, CanManage, Usable, Live
<1> QED
  BY <1>1 DEF CanManage, Usable, Live, PermissionsOf, SameAccess

(* Writes that touch no manager: new accounts and passwords.                *)
LEMMA QuietWrites ==
    ASSUME AccessInv, NEW r \in AccessRequests,
           CommitCreateUser(r) \/ CommitRequireReset(r) \/ CommitResetPassword(r)
    PROVE  AccessInv' /\ KeepsAManager
<1>1. UNCHANGED role /\ access' = [access EXCEPT ![r] = Idle]
  BY DEF CommitCreateUser, CommitRequireReset, CommitResetPassword, Done
<1>2. \A s \in AccessRequests : access'[s] \in {access[s], Idle}
  BY <1>1 DEF AccessInv, AccessTypes
<1>3. access' = [s \in AccessRequests |-> access'[s]]
  BY <1>1 DEF AccessInv, AccessTypes
<1>4. /\ user' = [u \in Users |-> user'[u]]
      /\ \A u \in Users : user'[u] = [f \in AccountFields |-> user'[u][f]]
      /\ AccountsStand
  <2>1. CASE CommitCreateUser(r)
    <3>1. PICK t : t = access[r].target
      OBVIOUS
    <3>2. PICK new : new = [state |-> "live", status |-> "ACTIVE", roles |-> access[r].roles,
                            password |-> "default", mustReset |-> TRUE]
      OBVIOUS
    <3>3. new = [f \in AccountFields |-> new[f]]
      BY <3>2 DEF AccountFields
    <3>4. user' = IF user[t].state # "absent" THEN user ELSE [user EXCEPT ![t] = new]
      BY <2>1, <3>1, <3>2 DEF CommitCreateUser
    <3>5. \A u \in Users : user'[u] = user[u] \/ (u = t /\ user'[u] = new /\ user[u].state = "absent")
      BY <3>4 DEF AccessInv, AccessTypes
    <3> QED
      BY <3>3, <3>4, <3>5 DEF AccessInv, AccessTypes, AccountsStand, SameAccess
  <2>2. CASE CommitRequireReset(r) \/ CommitResetPassword(r)
    <3>1. \E t, p, b : user' = [user EXCEPT ![t].password = p, ![t].mustReset = b]
      BY <2>2 DEF CommitRequireReset, CommitResetPassword
    <3>2. PICK t, p, b : user' = [user EXCEPT ![t].password = p, ![t].mustReset = b]
      BY <3>1
    <3>3. PICK new : new = [user[t] EXCEPT !.password = p, !.mustReset = b]
      OBVIOUS
    <3>4. t \in Users => new = [f \in AccountFields |-> new[f]] /\ SameAccess(user[t], new)
      BY <3>3 DEF AccessInv, AccessTypes, AccountFields, SameAccess
    <3>5. user' = [user EXCEPT ![t] = new]
      BY <3>2, <3>3 DEF AccessInv, AccessTypes
    <3>6. \A u \in Users : user'[u] = IF u = t THEN new ELSE user[u]
      BY <3>5 DEF AccessInv, AccessTypes
    <3> QED
      BY <3>4, <3>5, <3>6 DEF AccessInv, AccessTypes, AccountsStand, SameAccess
  <2> QED
    BY <2>1, <2>2
<1>5. AccessTypes'
  BY <1>3, <1>4 DEF AccessTypes
<1> QED
  BY <1>1, <1>2, <1>4, <1>5, AccountsStandInv, AccountsStandKeep

LEMMA CommitAccountStep ==
    ASSUME AccessInv, NEW r \in AccessRequests, CommitAccount(r)
    PROVE  AccessInv' /\ KeepsAManager
<1>1. PICK q : q = access[r].change
  OBVIOUS
<1>2. PICK t : t = q.target
  OBVIOUS
<1>3. /\ access[r].op = "counted" /\ IsAccountChange(q) /\ IsTarget(t)
      /\ access[r].missed \in BOOLEAN /\ (~access[r].missed => Covered(q))
  BY <1>1, <1>2 DEF CommitAccount, AccessInv, CountsStand, CountStandsIn
<1>4. PICK new : new = Changed(q)
  OBVIOUS
<1>5. /\ user' = [user EXCEPT ![t] = new] /\ UNCHANGED role /\ DoneBehindCounts(r)
  BY <1>1, <1>2, <1>4 DEF CommitAccount
<1>6. t \in Users /\ user[t].state # "absent"
  BY <1>3 DEF IsTarget
<1>7. new = [f \in AccountFields |-> new[f]] /\ new.state # "absent"
  BY <1>2, <1>4, <1>6, ChangedIsAccount DEF AccessInv
<1>8. \A u \in Users : user'[u] = IF u = t THEN new ELSE user[u]
  BY <1>5 DEF AccessInv, AccessTypes
<1>9. access' = [s \in AccessRequests |-> access'[s]] /\ access'[r] = Idle
  BY <1>5 DEF DoneBehindCounts
<1>10. AccessTypes'
  BY <1>5, <1>7, <1>8, <1>9 DEF AccessInv, AccessTypes
<1>11. AccessInv'
  BY <1>5, <1>7, <1>8, <1>10, BehindCountsInv
<1>12. KeepsAManager
  <2>1. CASE access[r].missed
    BY <1>3, <1>9, <2>1 DEF KeepsAManager
  <2>2. CASE ~access[r].missed
    <3>1. Managers(user') # {}
      BY <1>2, <1>3, <1>4, <1>5, <2>2 DEF Covered
    <3>2. PICK m \in Users : /\ user'[m].state = "live" /\ user'[m].status = "ACTIVE"
                             /\ \E p \in user'[m].roles : ManageUsers \in role[p].grants
      BY <3>1 DEF Managers
    <3>3. m \in CanManage'
      BY <1>5, <3>2 DEF CanManage, Usable, Live, PermissionsOf
    <3> QED
      BY <3>3 DEF KeepsAManager
  <2> QED
    BY <1>3, <2>1, <2>2
<1> QED
  BY <1>11, <1>12

LEMMA AccessStep ==
    ASSUME AccessAssumption, AccessInv, [AccessNext]_accessVars
    PROVE  AccessInv' /\ [KeepsAManager]_accessVars
<1>1. ASSUME UNCHANGED <<role, user, access>> PROVE AccessInv' /\ KeepsAManager
  <2>1. AccessTypes' /\ AccountsStand /\ \A s \in AccessRequests : access'[s] \in {access[s], Idle}
    BY <1>1 DEF AccessInv, AccessTypes, AccountsStand, SameAccess
  <2> QED
    BY <1>1, <2>1, AccountsStandInv, AccountsStandKeep
<1>2. ASSUME NEW u, Login(u) \/ Logout(u) PROVE AccessInv' /\ KeepsAManager
  BY <1>1, <1>2 DEF Login, Logout
<1>3. ASSUME NEW r \in AccessRequests, NEW q \in Asked, Begin(r, q)
      PROVE  AccessInv' /\ KeepsAManager
  <2>1. AccountsStand /\ UNCHANGED role
    BY <1>3 DEF Begin, AccountsStand, SameAccess
  <2> QED
    BY <1>3, <2>1, BeginInv, AccountsStandKeep
<1>4. ASSUME NEW r \in AccessRequests, CountManagers(r) PROVE AccessInv' /\ KeepsAManager
  <2>1. AccountsStand /\ UNCHANGED role
    BY <1>4 DEF CountManagers, AccountsStand, SameAccess
  <2> QED
    BY <1>4, <2>1, CountManagersInv, AccountsStandKeep
<1>5. ASSUME NEW r \in AccessRequests, CommitWriteRole(r) PROVE AccessInv' /\ KeepsAManager
  <2>1. UNCHANGED user /\ DoneBehindCounts(r)
    BY <1>5 DEF CommitWriteRole
  <2>2. AccessTypes'
    BY <2>1 DEF AccessInv, AccessTypes, DoneBehindCounts
  <2>3. AccessInv'
    BY <2>1, <2>2, BehindCountsInv
  <2>4. role' = role => KeepsAManager
    BY <2>1, AccountsStandKeep DEF AccountsStand, SameAccess
  <2> QED
    BY <2>3, <2>4 DEF KeepsAManager
<1> QED
  BY <1>1, <1>2, <1>3, <1>4, <1>5, QuietWrites, CommitAccountStep DEF AccessNext, accessVars

LEMMA AccessInitInv == ASSUME AccessInit PROVE AccessInv
<1>1. AccessTypes
  BY DEF AccessInit, AccessTypes, NoAccount, AccountFields
<1>2. \A r \in AccessRequests : access[r] = Idle
  BY DEF AccessInit
<1>3. CountsStand
  BY <1>2 DEF CountsStand, CountStandsIn, Idle, IsAccountChange
<1> QED
  BY <1>1, <1>3 DEF AccessInv

(* The recount inside the transaction (assertManagementCoverage) suffices:  *)
(* a change of an account leaves nobody who can manage users only if        *)
(* another account or a role changed between its count and its commit.      *)
THEOREM RecountKeepsAManager ==
    AccessSpec => AccountChangesKeepAManager
<1>1. AccessInit => AccessInv
  BY AccessInitInv
<1>2. AccessInv /\ [AccessNext]_accessVars => AccessInv' /\ [KeepsAManager]_accessVars
  BY AccessStep, AccessAssumption
<1>3. AccountChangesKeepAManager <=> [][KeepsAManager]_accessVars
  BY PTL DEF AccountChangesKeepAManager, KeepsAManager
<1> QED
  BY <1>1, <1>2, <1>3, PTL DEF AccessSpec

-------------------------------------------------------------------------------
(* Numbers and id ranges.                                                   *)

Workers == Clerks \cup Gadgets

AtWork == [step : {"locked", "read", "misread"}, kind : Kinds \cup IdTypes, count : Nat \ {0}, next : Nat]
Block == [device : Gadgets, type : IdTypes, start : Nat, end : Nat]

NumberingTypes ==
    /\ issued \in [Kinds -> SUBSET Nat]
    /\ brought \in [Kinds -> SUBSET Nat]
    /\ ranges \in SUBSET Block
    /\ numbering \in [Workers -> {NotNumbering} \cup AtWork]

LocksAreExclusive ==
    \A c, d \in Workers : \A k \in Kinds \cup IdTypes : Holds(c, k) /\ Holds(d, k) => c = d

(* MAX has a value: the greatest string of a kind, the greatest end.        *)
IsGreatest(m, S) == m \in S /\ \A n \in S \ {m} : StringBefore(n, m)
GreatestExists == \A k \in Kinds : issued[k] # {} => \E m \in issued[k] : IsGreatest(m, issued[k])

EndsOf(R, t) == {x.end : x \in {y \in R : y.type = t}}
IsEnd(e, R, t) ==
    /\ e \in Nat
    /\ \A x \in R : x.type = t => x.end <= e
    /\ e = 0 \/ \E x \in R : x.type = t /\ x.end = e
EndExists ==
    /\ \A x \in ranges : x.start # 0 /\ x.end # 0
    /\ \A t \in IdTypes : \E e \in Nat : IsEnd(e, ranges, t)

(* What was read under the lock is still so when it is written.             *)
NextIsCurrent ==
    \A c \in Workers : numbering[c].step = "read" /\ numbering[c].kind \in IdTypes
        => numbering[c].next = EndOf(numbering[c].kind) + 1

NextIsFree ==
    \A c \in Workers : numbering[c].step = "read" /\ numbering[c].kind \in Kinds =>
        \/ numbering[c].next \notin issued[numbering[c].kind]
        \/ numbering[c].next \in brought[numbering[c].kind]
        \/ numbering[c].next >= Radix

Covering(R, t, i) == {x \in R : x.type = t /\ i \in x.start .. x.end}
CoveredOnce ==
    \A t \in IdTypes : \A i \in 1 .. EndOf(t) : \E x : Covering(ranges, t, i) = {x}

NumberingInv ==
    /\ NumberingTypes /\ LocksAreExclusive /\ GreatestExists /\ EndExists
    /\ NextIsCurrent /\ NextIsFree /\ CoveredOnce

-------------------------------------------------------------------------------
(* The order of the strings is total.                                       *)
LEMMA DivGrows ==
    ASSUME NEW R \in Nat \ {0}, NEW m \in Nat, NEW n \in Nat, m <= n
    PROVE  m \div R \in Nat /\ n \div R \in Nat /\ m \div R <= n \div R
<1> DEFINE a == m \div R
           b == n \div R
<1>1. a \in Int /\ b \in Int
  OBVIOUS
<1>2. R * a <= m /\ n < R * (b + 1)
  OBVIOUS
<1>3. a >= 0 /\ b >= 0
  OBVIOUS
<1>4. R * a < R * (b + 1)
  BY <1>1, <1>2
<1> HIDE DEF a, b
<1>5. a < b + 1
  BY <1>1, <1>4
<1> QED
  BY <1>1, <1>3, <1>5 DEF a, b

LEMMA StringsAreOrdered ==
    ASSUME NumberingAssumption, NEW m \in Nat, NEW n \in Nat
    PROVE  /\ m # n => StringBefore(m, n) \/ StringBefore(n, m)
           /\ \A k \in Nat : StringBefore(m, n) /\ StringBefore(n, k) => StringBefore(m, k)
<1>1. Radix \in Nat \ {0}
  BY DEF NumberingAssumption
<1>2. \A i, j \in Nat : i <= j => /\ i \div Radix \in Nat /\ j \div Radix \in Nat
                                  /\ i \div Radix <= j \div Radix
  BY <1>1, DivGrows
<1> DEFINE f(i) == i \div Radix
<1>3. \A i, j \in Nat : StringBefore(i, j) <=>
         CASE (i < Radix) <=> (j < Radix) -> i < j
           [] i < Radix /\ j >= Radix -> i <= f(j)
           [] OTHER -> f(i) < j
  BY DEF StringBefore
<1>4. \A i, j \in Nat : f(i) \in Nat /\ (i <= j => f(i) <= f(j))
  BY <1>2
<1> HIDE DEF f
<1>5. /\ \A i, j \in Nat : i < Radix /\ j < Radix => (StringBefore(i, j) <=> i < j)
      /\ \A i, j \in Nat : ~(i < Radix) /\ ~(j < Radix) => (StringBefore(i, j) <=> i < j)
      /\ \A i, j \in Nat : i < Radix /\ ~(j < Radix) => (StringBefore(i, j) <=> i <= f(j))
      /\ \A i, j \in Nat : ~(i < Radix) /\ j < Radix => (StringBefore(i, j) <=> f(i) < j)
  BY <1>1, <1>3
<1>6. m # n => StringBefore(m, n) \/ StringBefore(n, m)
  BY <1>1, <1>4, <1>5
<1>7. ASSUME NEW k \in Nat, StringBefore(m, n), StringBefore(n, k) PROVE StringBefore(m, k)
  <2>1. m \in Nat /\ n \in Nat /\ k \in Nat /\ f(m) \in Nat /\ f(n) \in Nat /\ f(k) \in Nat /\ Radix \in Nat
    BY <1>1, <1>4
  <2>2. /\ m <= n => f(m) <= f(n)
        /\ n <= k => f(n) <= f(k)
        /\ k <= m => f(k) <= f(m)
    BY <1>4
  <2>3. /\ m < Radix /\ n < Radix => m < n
        /\ ~(m < Radix) /\ ~(n < Radix) => m < n
        /\ m < Radix /\ ~(n < Radix) => m <= f(n)
        /\ ~(m < Radix) /\ n < Radix => f(m) < n
    BY <1>5, <1>7
  <2>4. /\ n < Radix /\ k < Radix => n < k
        /\ ~(n < Radix) /\ ~(k < Radix) => n < k
        /\ n < Radix /\ ~(k < Radix) => n <= f(k)
        /\ ~(n < Radix) /\ k < Radix => f(n) < k
    BY <1>5, <1>7
  <2>5. /\ m < Radix /\ k < Radix => m < k
        /\ ~(m < Radix) /\ ~(k < Radix) => m < k
        /\ m < Radix /\ ~(k < Radix) => m <= f(k)
        /\ ~(m < Radix) /\ k < Radix => f(m) < k
    BY <2>1, <2>2, <2>3, <2>4
  <2> QED
    BY <2>5, <1>5
<1> QED
  BY <1>6, <1>7

LEMMA NothingBeforeItself == ASSUME NumberingAssumption, NEW m \in Nat PROVE ~StringBefore(m, m)
BY DEF StringBefore, NumberingAssumption

-------------------------------------------------------------------------------
(* What MAX reads.                                                          *)
LEMMA GreatestEnd ==
    ASSUME NEW R, \A x \in R : x.end \in Nat \ {0}, NEW t, NEW e \in Nat, IsEnd(e, R, t)
    PROVE  LET ends == EndsOf(R, t)
           IN  e = IF ends = {} THEN 0 ELSE CHOOSE m \in ends : \A n \in ends : n <= m
<1> DEFINE ends == EndsOf(R, t)
<1>1. ends \subseteq Nat /\ \A n \in ends : n <= e /\ n # 0
  BY DEF EndsOf, IsEnd
<1>2. CASE ends = {}
  <2>1. ~\E x \in R : x.type = t
    BY <1>2 DEF EndsOf
  <2> QED
    BY <1>2, <2>1 DEF IsEnd
<1>3. CASE ends # {}
  <2>1. e \in ends
    <3>1. PICK n \in ends : TRUE
      BY <1>3
    <3>2. e # 0
      BY <1>1, <3>1
    <3> QED
      BY <3>2 DEF IsEnd, EndsOf
  <2>2. \A m \in ends : (\A n \in ends : n <= m) => m = e
    BY <1>1, <2>1
  <2>3. \A n \in ends : n <= e
    BY <1>1
  <2> HIDE DEF ends
  <2>4. (CHOOSE m \in ends : \A n \in ends : n <= m) = e
    BY <2>1, <2>2, <2>3
  <2> QED
    BY <1>3, <2>4 DEF ends
<1> QED
  BY <1>2, <1>3

LEMMA EndIsGreatest ==
    ASSUME NumberingTypes, EndExists, NEW t \in IdTypes, NEW e \in Nat, IsEnd(e, ranges, t)
    PROVE  EndOf(t) = e
<1>1. \A x \in ranges : x.end \in Nat \ {0}
  BY DEF NumberingTypes, EndExists, Block
<1> QED
  BY <1>1, GreatestEnd DEF EndOf, EndsOf

LEMMA NextNumberIsFree ==
    ASSUME NumberingAssumption, NumberingTypes, GreatestExists, NEW k \in Kinds
    PROVE  NextNumber(k) \in Nat /\ (NextNumber(k) < Radix => NextNumber(k) \notin issued[k])
<1>1. issued[k] \subseteq Nat /\ Radix \in Nat /\ Radix > 1
  BY DEF NumberingTypes, NumberingAssumption
<1>2. CASE issued[k] = {}
  BY <1>1, <1>2 DEF NextNumber
<1>3. CASE issued[k] # {}
  <2> DEFINE top == CHOOSE m \in issued[k] : \A n \in issued[k] \ {m} : StringBefore(n, m)
  <2>1. top \in issued[k] /\ \A n \in issued[k] \ {top} : StringBefore(n, top)
    <3>1. \E m \in issued[k] : \A n \in issued[k] \ {m} : StringBefore(n, m)
      BY <1>3 DEF GreatestExists, IsGreatest
    <3> QED
      BY <3>1, Zenon
  <2>2. NextNumber(k) = 1 + top
    BY <1>3 DEF NextNumber
  <2> HIDE DEF top
  <2>3. top \in Nat
    BY <1>1, <2>1
  <2>4. \A n \in Nat : n < Radix /\ top < Radix /\ StringBefore(n, top) => n < top
    BY <1>1, <2>3 DEF StringBefore
  <2>5. ASSUME 1 + top < Radix, 1 + top \in issued[k] PROVE FALSE
    <3>1. StringBefore(1 + top, top) /\ 1 + top \in Nat /\ top < Radix
      BY <1>1, <2>1, <2>3, <2>5
    <3>2. 1 + top < top
      BY <2>4, <2>5, <3>1
    <3> QED
      BY <2>3, <3>2
  <2> QED
    BY <2>2, <2>3, <2>5
<1> QED
  BY <1>2, <1>3

(* The greatest of a set that one number joins.                             *)
LEMMA GreatestOfMore ==
    ASSUME NumberingAssumption, NEW S \in SUBSET Nat, NEW n \in Nat,
           S # {} => \E m \in S : IsGreatest(m, S)
    PROVE  \E m \in S \cup {n} : IsGreatest(m, S \cup {n})
<1>1. CASE S = {}
  BY <1>1 DEF IsGreatest
<1>2. CASE S # {}
  <2>1. PICK m \in S : IsGreatest(m, S)
    BY <1>2
  <2>2. m \in Nat
    BY <2>1
  <2>3. CASE n = m \/ StringBefore(n, m)
    BY <2>1, <2>3 DEF IsGreatest
  <2>4. CASE StringBefore(m, n)
    <3>1. \A k \in S \ {m} : StringBefore(k, n)
      BY <2>1, <2>2, <2>4, StringsAreOrdered DEF IsGreatest
    <3> QED
      BY <2>4, <3>1 DEF IsGreatest
  <2> QED
    BY <2>2, <2>3, <2>4, StringsAreOrdered
<1> QED
  BY <1>1, <1>2

-------------------------------------------------------------------------------
LEMMA NumberingInitInv == ASSUME NumberingAssumption, NumberingInit PROVE NumberingInv
<1>1. NumberingTypes
  BY DEF NumberingInit, NumberingTypes, Workers
<1>2. \A c \in Workers : numbering[c].step = "free"
  BY DEF NumberingInit, Workers, NotNumbering
<1>3. LocksAreExclusive /\ NextIsCurrent /\ NextIsFree
  BY <1>2 DEF LocksAreExclusive, Holds, NextIsCurrent, NextIsFree
<1>4. GreatestExists /\ EndExists
  BY DEF NumberingInit, GreatestExists, EndExists, IsEnd
<1>5. CoveredOnce
  <2>1. \A t \in IdTypes : EndOf(t) = 0
    BY DEF NumberingInit, EndOf
  <2> QED
    BY <2>1 DEF CoveredOnce
<1> QED
  BY <1>1, <1>3, <1>4, <1>5 DEF NumberingInv

(* Steps of one transaction that write no number.                           *)
LEMMA OneWorker ==
    ASSUME NumberingInv, UNCHANGED <<issued, brought, ranges>>, NEW c \in Workers,
           NEW q \in {NotNumbering} \cup AtWork, numbering' = [numbering EXCEPT ![c] = q],
           q # NotNumbering => \A d \in Workers \ {c} : ~Holds(d, q.kind),
           q.step = "read" => /\ q.kind \in IdTypes => q.next = EndOf(q.kind) + 1
                              /\ q.kind \in Kinds => \/ q.next \notin issued[q.kind]
                                                     \/ q.next \in brought[q.kind]
                                                     \/ q.next >= Radix
    PROVE  NumberingInv'
<1>1. numbering \in [Workers -> {NotNumbering} \cup AtWork]
  BY DEF NumberingInv, NumberingTypes
<1>2. \A d \in Workers : numbering'[d] = IF d = c THEN q ELSE numbering[d]
  BY <1>1
<1>3. NumberingTypes'
  BY <1>1 DEF NumberingInv, NumberingTypes
<1>4. LocksAreExclusive'
  <2>1. NotNumbering.step = "free"
    BY DEF NotNumbering
  <2> QED
    BY <1>2, <2>1 DEF NumberingInv, LocksAreExclusive, Holds
<1>5. \A t : EndOf(t)' = EndOf(t)
  BY DEF EndOf
<1>6. NextIsCurrent' /\ NextIsFree'
  BY <1>2, <1>5 DEF NumberingInv, NextIsCurrent, NextIsFree
<1>7. GreatestExists' /\ EndExists'
  BY DEF NumberingInv, GreatestExists, EndExists
<1>8. CoveredOnce'
  BY <1>5 DEF NumberingInv, CoveredOnce
<1> QED
  BY <1>3, <1>4, <1>6, <1>7, <1>8 DEF NumberingInv

LEMMA LockInv ==
    ASSUME NumberingInv, NEW c \in Workers, NEW k \in Kinds \cup IdTypes, NEW n \in Nat \ {0},
           Lock(c, k, n)
    PROVE  NumberingInv'
<1> DEFINE q == [step |-> "locked", kind |-> k, count |-> n, next |-> 0]
<1>1. q \in AtWork
  BY DEF AtWork
<1> QED
  BY <1>1, OneWorker DEF Lock, Unlocked, Workers

LEMMA ReadInv ==
    ASSUME NumberingAssumption, NumberingInv, NEW c \in Workers, ReadNumber(c) \/ ReadRange(c)
    PROVE  NumberingInv'
<1> DEFINE q == numbering[c]
           k == q.kind
<1>1. q \in AtWork /\ q.step = "locked" /\ k \in Kinds \cup IdTypes
  BY DEF NumberingInv, NumberingTypes, ReadNumber, ReadRange, AtWork, NotNumbering
<1>2. Kinds \cap IdTypes = {}
  BY DEF NumberingAssumption
<1>3. PICK n : /\ ReadNext(c, n)
               /\ k \in IdTypes => n = EndOf(k) + 1
               /\ k \in Kinds => n = NextNumber(k)
  BY <1>2 DEF ReadNumber, ReadRange
<1>4. n \in Nat /\ (k \in Kinds => n \notin issued[k] \/ n >= Radix)
  <2>1. CASE k \in IdTypes
    <3>1. PICK e \in Nat : IsEnd(e, ranges, k)
      BY <2>1 DEF NumberingInv, EndExists
    <3>2. EndOf(k) = e
      BY <2>1, <3>1, EndIsGreatest DEF NumberingInv, EndExists
    <3> QED
      BY <1>2, <1>3, <2>1, <3>2
  <2>2. CASE k \in Kinds
    <3>1. Radix \in Nat
      BY DEF NumberingAssumption
    <3> QED
      BY <1>3, <2>2, <3>1, NextNumberIsFree DEF NumberingInv
  <2> QED
    BY <1>1, <2>1, <2>2
<1> DEFINE p == [q EXCEPT !.step = "read", !.next = n]
<1>5. p \in AtWork /\ p.step = "read" /\ p.kind = k /\ p.next = n
  BY <1>1, <1>4 DEF AtWork
<1>6. numbering' = [numbering EXCEPT ![c] = p] /\ UNCHANGED <<issued, brought, ranges>>
  BY <1>3 DEF ReadNext, NumberingInv, NumberingTypes
<1>7. \A d \in Workers \ {c} : ~Holds(d, k)
  BY <1>1 DEF NumberingInv, LocksAreExclusive, Holds
<1> HIDE DEF p
<1> QED
  BY <1>3, <1>4, <1>5, <1>6, <1>7, OneWorker

(* A transaction that ends without a number, or with the one NaN.           *)
LEMMA RollbackInv ==
    ASSUME NumberingInv, NEW c \in Workers, Rollback(c) \/ InsertNaN(c)
    PROVE  NumberingInv'
<1>1. NotNumbering.step = "free"
  BY DEF NotNumbering
<1>2. numbering' = [numbering EXCEPT ![c] = NotNumbering] /\ UNCHANGED <<issued, brought, ranges>>
  BY DEF Rollback, InsertNaN, Release
<1> QED
  BY <1>1, <1>2, OneWorker

LEMMA ReadNaNInv ==
    ASSUME NumberingInv, NEW c \in Workers, ReadNaN(c)
    PROVE  NumberingInv'
<1> DEFINE q == numbering[c]
           p == [q EXCEPT !.step = "misread"]
<1>1. q \in AtWork /\ q.step = "locked"
  BY DEF NumberingInv, NumberingTypes, ReadNaN, AtWork, NotNumbering
<1>2. p \in AtWork /\ p.step = "misread" /\ p.kind = q.kind
  BY <1>1 DEF AtWork
<1>3. numbering' = [numbering EXCEPT ![c] = p] /\ UNCHANGED <<issued, brought, ranges>>
  BY DEF ReadNaN, NumberingInv, NumberingTypes
<1>4. \A d \in Workers \ {c} : ~Holds(d, q.kind)
  BY <1>1 DEF NumberingInv, LocksAreExclusive, Holds, AtWork
<1> HIDE DEF p
<1> QED
  BY <1>2, <1>3, <1>4, OneWorker

(* A number joins those of its kind: drawn under the lock, or brought.      *)
LEMMA NumberJoins ==
    ASSUME NumberingAssumption, NumberingInv, NEW k \in Kinds, NEW n \in Nat,
           issued' = [issued EXCEPT ![k] = @ \cup {n}]
    PROVE  GreatestExists' /\ issued' \in [Kinds -> SUBSET Nat]
           /\ \A j \in Kinds : issued'[j] = IF j = k THEN issued[k] \cup {n} ELSE issued[j]
<1>1. issued \in [Kinds -> SUBSET Nat]
  BY DEF NumberingInv, NumberingTypes
<1>2. \A j \in Kinds : issued'[j] = IF j = k THEN issued[k] \cup {n} ELSE issued[j]
  BY <1>1
<1>3. issued' \in [Kinds -> SUBSET Nat]
  BY <1>1
<1>4. \E m \in issued[k] \cup {n} : IsGreatest(m, issued[k] \cup {n})
  BY <1>1, GreatestOfMore DEF NumberingInv, GreatestExists
<1>5. GreatestExists'
  BY <1>2, <1>4 DEF NumberingInv, GreatestExists
<1> QED
  BY <1>2, <1>3, <1>5

LEMMA InsertNumberInv ==
    ASSUME NumberingAssumption, NumberingInv, NEW c \in Workers, InsertNumber(c)
    PROVE  NumberingInv'
<1> DEFINE q == numbering[c]
           k == q.kind
<1>1. q \in AtWork /\ q.step = "read" /\ k \in Kinds /\ q.next \in Nat /\ k \notin IdTypes
  BY DEF NumberingInv, NumberingTypes, InsertNumber, AtWork, NotNumbering, NumberingAssumption
<1>2. /\ issued' = [issued EXCEPT ![k] = @ \cup {q.next}]
      /\ UNCHANGED <<brought, ranges>>
      /\ numbering' = [numbering EXCEPT ![c] = NotNumbering]
  BY DEF InsertNumber, Release
<1>3. GreatestExists' /\ issued' \in [Kinds -> SUBSET Nat]
      /\ \A j \in Kinds : issued'[j] = IF j = k THEN issued[k] \cup {q.next} ELSE issued[j]
  BY <1>1, <1>2, NumberJoins
<1>4. numbering \in [Workers -> {NotNumbering} \cup AtWork] /\ NotNumbering.step = "free"
  BY DEF NumberingInv, NumberingTypes, NotNumbering
<1>5. \A d \in Workers : numbering'[d] = IF d = c THEN NotNumbering ELSE numbering[d]
  BY <1>2, <1>4
<1>6. NumberingTypes'
  BY <1>2, <1>3, <1>4 DEF NumberingInv, NumberingTypes
<1>7. LocksAreExclusive'
  BY <1>4, <1>5 DEF NumberingInv, LocksAreExclusive, Holds
<1>8. \A t : EndOf(t)' = EndOf(t)
  BY <1>2 DEF EndOf
<1>9. NextIsCurrent' /\ CoveredOnce' /\ EndExists'
  BY <1>2, <1>4, <1>5, <1>8 DEF NumberingInv, NextIsCurrent, CoveredOnce, EndExists
<1>10. NextIsFree'
  <2> SUFFICES ASSUME NEW d \in Workers, numbering'[d].step = "read", numbering'[d].kind \in Kinds
               PROVE  \/ numbering'[d].next \notin issued'[numbering'[d].kind]
                      \/ numbering'[d].next \in brought'[numbering'[d].kind]
                      \/ numbering'[d].next >= Radix
    BY DEF NextIsFree
  <2>1. d # c /\ numbering'[d] = numbering[d]
    BY <1>4, <1>5
  <2>2. numbering[d].kind # k
    BY <1>1, <2>1 DEF NumberingInv, LocksAreExclusive, Holds
  <2> QED
    BY <1>2, <1>3, <2>1, <2>2 DEF NumberingInv, NextIsFree
<1> QED
  BY <1>3, <1>6, <1>7, <1>9, <1>10 DEF NumberingInv

LEMMA BringNumberInv ==
    ASSUME NumberingAssumption, NumberingInv, NEW k \in Kinds, NEW n \in Custom, BringNumber(k, n)
    PROVE  NumberingInv'
<1>1. n \in Nat /\ UNCHANGED <<ranges, numbering>>
  BY DEF BringNumber, NumberingAssumption
<1>2. issued' = [issued EXCEPT ![k] = @ \cup {n}] /\ brought' = [brought EXCEPT ![k] = @ \cup {n}]
  BY DEF BringNumber
<1>3. GreatestExists' /\ issued' \in [Kinds -> SUBSET Nat]
      /\ \A j \in Kinds : issued'[j] = IF j = k THEN issued[k] \cup {n} ELSE issued[j]
  BY <1>1, <1>2, NumberJoins
<1>4. brought \in [Kinds -> SUBSET Nat]
  BY DEF NumberingInv, NumberingTypes
<1>5. \A j \in Kinds : brought'[j] = IF j = k THEN brought[k] \cup {n} ELSE brought[j]
  BY <1>2, <1>4
<1>6. NumberingTypes'
  BY <1>1, <1>2, <1>3, <1>4 DEF NumberingInv, NumberingTypes
<1>7. LocksAreExclusive'
  BY <1>1 DEF NumberingInv, LocksAreExclusive, Holds
<1>8. \A t : EndOf(t)' = EndOf(t)
  BY <1>1 DEF EndOf
<1>9. NextIsCurrent' /\ CoveredOnce' /\ EndExists'
  BY <1>1, <1>8 DEF NumberingInv, NextIsCurrent, CoveredOnce, EndExists
<1>10. NextIsFree'
  BY <1>1, <1>3, <1>5 DEF NumberingInv, NextIsFree
<1> QED
  BY <1>3, <1>6, <1>7, <1>9, <1>10 DEF NumberingInv

LEMMA InsertRangeInv ==
    ASSUME NumberingAssumption, NumberingInv, NEW c \in Gadgets, InsertRange(c)
    PROVE  NumberingInv'
<1> DEFINE q == numbering[c]
           x == [device |-> c, type |-> q.kind, start |-> q.next, end |-> q.next + q.count - 1]
<1>0. c \in Workers
  BY DEF Workers
<1> PICK k \in IdTypes : k = q.kind
  BY DEF InsertRange
<1>1. q \in AtWork /\ q.step = "read" /\ q.kind = k /\ k \notin Kinds
      /\ q.next \in Nat /\ q.count \in Nat \ {0}
  BY <1>0 DEF NumberingInv, NumberingTypes, InsertRange, AtWork, NotNumbering, NumberingAssumption
<1>2. /\ ranges' = ranges \cup {x}
      /\ UNCHANGED <<issued, brought>>
      /\ numbering' = [numbering EXCEPT ![c] = NotNumbering]
  BY DEF InsertRange, Release
<1>3. PICK e \in Nat : IsEnd(e, ranges, k)
  BY <1>1 DEF NumberingInv, EndExists
<1>4. EndOf(k) = e /\ q.next = e + 1
  BY <1>0, <1>1, <1>3, EndIsGreatest DEF NumberingInv, EndExists, NextIsCurrent
<1>5. x \in Block /\ x.type = k /\ x.start = e + 1 /\ x.end = e + q.count
  BY <1>1, <1>4 DEF Block
<1> HIDE DEF x
<1>6. NumberingTypes'
  BY <1>0, <1>2, <1>5 DEF NumberingInv, NumberingTypes
<1>7. IsEnd(e + q.count, ranges', k) /\ e + q.count \in Nat /\ e + q.count # 0
  <2>1. \A y \in ranges : y.type = k => y.end \in Nat /\ y.end <= e
    BY <1>3 DEF IsEnd, NumberingInv, NumberingTypes, Block
  <2> QED
    BY <1>1, <1>2, <1>5, <2>1 DEF IsEnd
<1>8. \A t \in IdTypes \ {k} : \A d \in Nat : IsEnd(d, ranges, t) => IsEnd(d, ranges', t)
  BY <1>2, <1>5 DEF IsEnd
<1>9. EndExists'
  <2>1. \A y \in ranges' : y.start # 0 /\ y.end # 0
    BY <1>1, <1>2, <1>5, <1>7 DEF NumberingInv, EndExists
  <2>2. ASSUME NEW t \in IdTypes PROVE \E d \in Nat : IsEnd(d, ranges', t)
    BY <1>7, <1>8 DEF NumberingInv, EndExists
  <2> QED
    BY <2>1, <2>2 DEF EndExists
<1>10. EndOf(k)' = e + q.count
  <2>1. \A y \in ranges' : y.end \in Nat \ {0}
    BY <1>6, <1>9 DEF NumberingTypes, EndExists, Block
  <2>2. LET ends == EndsOf(ranges', k)
        IN  e + q.count = IF ends = {} THEN 0 ELSE CHOOSE m \in ends : \A n \in ends : n <= m
    BY <1>7, <2>1, GreatestEnd
  <2> QED
    BY <2>2 DEF EndOf, EndsOf
<1>11. \A t \in IdTypes \ {k} : EndOf(t)' = EndOf(t)
  <2> SUFFICES ASSUME NEW t \in IdTypes \ {k} PROVE EndOf(t)' = EndOf(t)
    OBVIOUS
  <2>1. PICK d \in Nat : IsEnd(d, ranges, t) /\ IsEnd(d, ranges', t)
    BY <1>8 DEF NumberingInv, EndExists
  <2>2. EndOf(t) = d
    BY <2>1, EndIsGreatest DEF NumberingInv
  <2>3. \A y \in ranges' : y.end \in Nat \ {0}
    BY <1>6, <1>9 DEF NumberingTypes, EndExists, Block
  <2>4. LET ends == EndsOf(ranges', t)
        IN  d = IF ends = {} THEN 0 ELSE CHOOSE m \in ends : \A n \in ends : n <= m
    BY <2>1, <2>3, GreatestEnd
  <2>5. EndOf(t)' = d
    BY <2>4 DEF EndOf, EndsOf
  <2> QED
    BY <2>2, <2>5
<1>12. numbering \in [Workers -> {NotNumbering} \cup AtWork] /\ NotNumbering.step = "free"
  BY DEF NumberingInv, NumberingTypes, NotNumbering
<1>13. \A d \in Workers : numbering'[d] = IF d = c THEN NotNumbering ELSE numbering[d]
  BY <1>2, <1>12
<1>14. LocksAreExclusive' /\ NextIsFree' /\ GreatestExists'
  BY <1>2, <1>12, <1>13
     DEF NumberingInv, LocksAreExclusive, Holds, NextIsFree, GreatestExists
<1>15. NextIsCurrent'
  <2> SUFFICES ASSUME NEW d \in Workers, numbering'[d].step = "read", numbering'[d].kind \in IdTypes
               PROVE  (numbering[d].next = EndOf(numbering[d].kind) + 1)'
    BY DEF NextIsCurrent
  <2>1. d # c /\ numbering'[d] = numbering[d]
    BY <1>12, <1>13
  <2>2. numbering[d].kind # k
    BY <1>0, <1>1, <2>1 DEF NumberingInv, LocksAreExclusive, Holds
  <2>3. PICK t \in IdTypes : t = numbering[d].kind /\ t = numbering'[d].kind /\ t # k
    BY <2>1, <2>2
  <2>4. numbering'[d].next = EndOf(t) + 1
    BY <2>1, <2>3 DEF NumberingInv, NextIsCurrent
  <2>5. EndOf(t)' = EndOf(t)
    BY <1>11, <2>3
  <2>6. EndOf(numbering[d].kind)' = EndOf(t)'
    BY <2>3
  <2> QED
    BY <2>4, <2>5, <2>6
<1>16. CoveredOnce'
  <2> SUFFICES ASSUME NEW t \in IdTypes, NEW i \in 1 .. EndOf(t)'
               PROVE  \E y : Covering(ranges', t, i) = {y}
    BY DEF CoveredOnce
  <2>1. CASE t # k
    <3>1. Covering(ranges', t, i) = Covering(ranges, t, i)
      BY <1>2, <1>5, <2>1 DEF Covering
    <3> QED
      BY <1>11, <2>1, <3>1 DEF NumberingInv, CoveredOnce
  <2>2. CASE t = k /\ i <= e
    <3>1. i \notin x.start .. x.end /\ i \in 1 .. EndOf(k)
      BY <1>1, <1>4, <1>5, <1>10, <2>2
    <3>2. Covering(ranges', t, i) = Covering(ranges, t, i)
      BY <1>2, <3>1 DEF Covering
    <3> QED
      BY <1>1, <2>2, <3>1, <3>2 DEF NumberingInv, CoveredOnce
  <2>3. CASE t = k /\ ~(i <= e)
    <3>1. i \in x.start .. x.end
      BY <1>1, <1>5, <1>10, <2>3
    <3>2. \A y \in ranges : y.type = k => i \notin y.start .. y.end
      BY <1>1, <1>3, <1>10, <2>3 DEF IsEnd, NumberingInv, NumberingTypes, Block
    <3> QED
      BY <1>2, <1>5, <2>3, <3>1, <3>2 DEF Covering
  <2> QED
    BY <2>1, <2>2, <2>3
<1> QED
  BY <1>6, <1>9, <1>14, <1>15, <1>16 DEF NumberingInv

-------------------------------------------------------------------------------
LEMMA NumberingStep ==
    ASSUME NumberingAssumption, NumberingInv, [NumberingNext]_numberingVars
    PROVE  NumberingInv'
<1>1. ASSUME NEW c \in Clerks, NEW k \in Kinds, Lock(c, k, 1) PROVE NumberingInv'
  BY <1>1, LockInv DEF Workers
<1>2. ASSUME NEW d \in Gadgets, NEW t \in IdTypes, NEW n \in Counts, Lock(d, t, n)
      PROVE  NumberingInv'
  BY <1>2, LockInv DEF Workers, NumberingAssumption
<1>3. ASSUME NEW c \in Clerks, ReadNumber(c) \/ InsertNumber(c) \/ ReadNaN(c) PROVE NumberingInv'
  BY <1>3, ReadInv, InsertNumberInv, ReadNaNInv DEF Workers
<1>4. ASSUME NEW d \in Gadgets, ReadRange(d) \/ InsertRange(d) PROVE NumberingInv'
  BY <1>4, ReadInv, InsertRangeInv DEF Workers
<1>5. ASSUME NEW c \in Clerks \cup Gadgets, Rollback(c) \/ InsertNaN(c) PROVE NumberingInv'
  BY <1>5, RollbackInv DEF Workers
<1>6. ASSUME NEW k \in Kinds, NEW n \in Custom, BringNumber(k, n) PROVE NumberingInv'
  BY <1>6, BringNumberInv
<1>7. CASE UNCHANGED numberingVars \/ \E k \in Kinds : BringText(k)
  <2>1. UNCHANGED <<issued, brought, ranges, numbering>>
    BY <1>7 DEF numberingVars, BringText
  <2>2. \A t : EndOf(t)' = EndOf(t)
    BY <2>1 DEF EndOf
  <2> QED
    BY <2>1, <2>2 DEF NumberingInv, NumberingTypes, LocksAreExclusive, Holds,
       GreatestExists, EndExists, NextIsCurrent, NextIsFree, CoveredOnce
<1> QED
  BY <1>1, <1>2, <1>3, <1>4, <1>5, <1>6, <1>7 DEF NumberingNext

LEMMA NumberingAlways == NumberingSpec => []NumberingInv
<1>1. NumberingInit => NumberingInv
  BY NumberingInitInv, NumberingAssumption
<1>2. NumberingInv /\ [NumberingNext]_numberingVars => NumberingInv'
  BY NumberingStep, NumberingAssumption
<1> QED
  BY <1>1, <1>2, PTL DEF NumberingSpec

(* "correct by construction via the advisory lock" (the *-number.ts files): *)
(* for any number of transactions, below the width of the padding.          *)
THEOREM DrawnNumbersAreFree == NumberingSpec => []NumbersNeverClash
<1>1. NumberingInv => NumbersNeverClash
  BY DEF NumberingInv, NextIsFree, NumbersNeverClash, Workers
<1> QED
  BY <1>1, NumberingAlways, PTL

(* "adjacent non-overlapping blocks (never a reuse)" (sync.service.ts), for *)
(* any devices, types and lengths.                                          *)
THEOREM BlocksPartitionIds == NumberingSpec => []RangesAreDisjoint
<1>1. NumberingInv => RangesAreDisjoint
  <2> SUFFICES ASSUME NumberingInv, NEW t \in IdTypes, NEW i \in 1 .. EndOf(t)
               PROVE  Cardinality(Covering(ranges, t, i)) = 1
    BY DEF RangesAreDisjoint, Covering
  <2>1. PICK x : Covering(ranges, t, i) = {x}
    BY DEF NumberingInv, CoveredOnce
  <2> QED
    BY <2>1, FS_Singleton
<1> QED
  BY <1>1, NumberingAlways, PTL
=============================================================================
