-------------------------- MODULE UnitLifecycleProofs --------------------------
(***************************************************************************)
(* What holds of the warehouse for every set of units and variants and for *)
(* any number of requests served at one time; and, when one request is     *)
(* served at a time, that it implements the stock ledger, that jobs hold   *)
(* their units and that what became of a job is final.                     *)
(***************************************************************************)
EXTENDS UnitLifecycle, TLAPS

LEMMA StatusFacts ==
    /\ NoState \notin UnitStatus
    /\ CKD \in UnitStatus /\ SKD \in UnitStatus /\ CBU \in UnitStatus
    /\ InAssembly \in UnitStatus /\ "DAMAGED" \in UnitStatus
    /\ CKD # InAssembly /\ SKD # InAssembly /\ CBU # InAssembly /\ "DAMAGED" # InAssembly
BY DEF NoState, UnitStatus, Warehoused, SoldStates, CKD, SKD, CBU, InTransit, InAssembly,
       InRepair

LEMMA AdjustmentFacts ==
    ASSUME NEW from, NEW to, IsAdjustment(from, to)
    PROVE  to # InAssembly
BY DEF IsAdjustment, AdjustmentEdges, Warehoused, Assembled, InTransit, CKD, SKD, CBU,
       InRepair, InAssembly

LEMMA MovementTypes ==
    ASSUME NEW from, NEW to
    PROVE  AdjustmentMovement(from, to) \in MovementType
BY DEF AdjustmentMovement, MovementType, InRepair

(* Closing a job keeps the sequence a sequence of jobs, of the same length. *)
LEMMA CloseJobs ==
    ASSUME NEW s \in Seq(Job), NEW n, NEW x \in JobStatus
    PROVE  /\ [s EXCEPT ![n].status = x] \in Seq(Job)
           /\ DOMAIN [s EXCEPT ![n].status = x] = DOMAIN s
<1>1. DOMAIN [s EXCEPT ![n].status = x] = 1 .. Len(s) /\ Len(s) \in Nat
  OBVIOUS
<1>2. ASSUME NEW i \in 1 .. Len(s) PROVE [s EXCEPT ![n].status = x][i] \in Job
  <2>1. s[i] \in Job
    OBVIOUS
  <2>2. CASE i = n
    <3>1. [s EXCEPT ![n].status = x][i] = [s[i] EXCEPT !.status = x]
      BY <2>2
    <3>2. [s[i] EXCEPT !.status = x] \in Job
      BY <2>1 DEF Job
    <3>3. QED
      BY <3>1, <3>2
  <2>3. CASE i # n
    BY <2>1, <2>3
  <2>4. QED
    BY <2>2, <2>3
<1>3. [s EXCEPT ![n].status = x] \in [1 .. Len(s) -> Job]
  BY <1>1, <1>2
<1>4. QED
  BY <1>1, <1>3

-------------------------------------------------------------------------------
(* Only a start (or a pushed field) sends units to the assembly floor.      *)
Directed(q) == q.op # "syncStatus" => (q.op \in StartOps <=> q.to = InAssembly)

(* What a request that passed validation looks like.                        *)
Fresh(q) ==
    /\ q \in Request
    /\ q.op \in Endpoints
    /\ q.read = Nothing
    /\ q.locked = {}
    /\ Directed(q)

LEMMA ValidatedFresh ==
    ASSUME UnitsAssumption, TypeOK, NEW r \in Requests, NEW op \in Ops,
           NEW batch \in Seq(Units), NEW to \in UnitStatus, NEW mtype \in MovementType,
           NEW n \in Nat, Validated(r, op, batch, to, mtype, n),
           op # "syncStatus" => (op \in StartOps <=> to = InAssembly)
    PROVE  \E q : Fresh(q) /\ req' = [req EXCEPT ![r] = q]
<1> DEFINE q == [op |-> op, batch |-> batch, to |-> to, mtype |-> mtype,
                 job |-> n, read |-> Nothing, locked |-> {}]
<1>1. req' = [req EXCEPT ![r] = q] /\ op \in Endpoints
  BY DEF Validated
<1>2. Nothing \in [Units -> UnitStatus \cup {NoState}]
  BY DEF Nothing
<1>3. Fresh(q)
  BY <1>1, <1>2 DEF Fresh, Request, Directed
<1>4. QED
  BY <1>1, <1>3

(* Validation starts a fresh transaction and touches no row.                *)
LEMMA ValidateFresh ==
    ASSUME UnitsAssumption, TypeOK, NEW r \in Requests, Validate(r)
    PROVE  /\ UNCHANGED <<status, lastMove, jobs, discontinued>>
           /\ \E q : Fresh(q) /\ req' = [req EXCEPT ![r] = q]
<1> USE StatusFacts
<1>1. ASSUME NEW u \in Units, NEW to \in Targets, Adjust(r, u, to)
      PROVE  UNCHANGED <<status, lastMove, jobs, discontinued>>
             /\ \E q : Fresh(q) /\ req' = [req EXCEPT ![r] = q]
  <2>1. Validated(r, "adjust", <<u>>, to, AdjustmentMovement(status[u], to), 0)
    BY <1>1 DEF Adjust
  <2>2. to # InAssembly /\ AdjustmentMovement(status[u], to) \in MovementType
    BY <1>1, AdjustmentFacts, MovementTypes DEF Adjust
  <2>3. to \in UnitStatus /\ <<u>> \in Seq(Units) /\ "adjust" \in Ops /\ "adjust" \notin StartOps
    BY DEF UnitsAssumption, Ops, StartOps
  <2>4. \E q : Fresh(q) /\ req' = [req EXCEPT ![r] = q]
    BY <2>1, <2>2, <2>3, ValidatedFresh
  <2>5. QED
    BY <2>1, <2>4 DEF Validated
<1>2. ASSUME NEW u \in Units, NEW to \in Targets, SyncStatus(r, u, to)
      PROVE  UNCHANGED <<status, lastMove, jobs, discontinued>>
             /\ \E q : Fresh(q) /\ req' = [req EXCEPT ![r] = q]
  <2>1. Validated(r, "syncStatus", <<u>>, to, "ADJUSTMENT", 0)
    BY <1>2 DEF SyncStatus
  <2>2. to \in UnitStatus /\ <<u>> \in Seq(Units) /\ "syncStatus" \in Ops
        /\ "ADJUSTMENT" \in MovementType
    BY DEF UnitsAssumption, Ops, MovementType
  <2>3. \E q : Fresh(q) /\ req' = [req EXCEPT ![r] = q]
    BY <2>1, <2>2, ValidatedFresh
  <2>4. QED
    BY <2>1, <2>3 DEF Validated
<1>3. ASSUME NEW batch \in Batches, StartAssembly(r, batch)
      PROVE  UNCHANGED <<status, lastMove, jobs, discontinued>>
             /\ \E q : Fresh(q) /\ req' = [req EXCEPT ![r] = q]
  <2>1. Validated(r, "startAssembly", batch, InAssembly, "ASSEMBLY_START", 0)
    BY <1>3 DEF StartAssembly
  <2>2. batch \in Seq(Units)
    BY DEF Batches, UnitsAssumption
  <2>3. "startAssembly" \in StartOps /\ "startAssembly" \in Ops /\ "ASSEMBLY_START" \in MovementType
    BY DEF StartOps, Ops, MovementType
  <2>4. \E q : Fresh(q) /\ req' = [req EXCEPT ![r] = q]
    BY <2>1, <2>2, <2>3, ValidatedFresh
  <2>5. QED
    BY <2>1, <2>4 DEF Validated
<1>4. ASSUME NEW u \in Units, StartUpgrade(r, u)
      PROVE  UNCHANGED <<status, lastMove, jobs, discontinued>>
             /\ \E q : Fresh(q) /\ req' = [req EXCEPT ![r] = q]
  <2>1. Validated(r, "startUpgrade", <<u>>, InAssembly, "ASSEMBLY_START", 0)
    BY <1>4 DEF StartUpgrade
  <2>2. "startUpgrade" \in StartOps /\ "startUpgrade" \in Ops /\ "ASSEMBLY_START" \in MovementType
        /\ <<u>> \in Seq(Units)
    BY DEF StartOps, Ops, MovementType
  <2>3. \E q : Fresh(q) /\ req' = [req EXCEPT ![r] = q]
    BY <2>1, <2>2, ValidatedFresh
  <2>4. QED
    BY <2>1, <2>3 DEF Validated
<1>5. ASSUME NEW u \in Units, NEW n \in DOMAIN jobs[u],
             CompleteJob(r, u, n) \/ FailJob(r, u, n) \/ CancelJob(r, u, n)
      PROVE  UNCHANGED <<status, lastMove, jobs, discontinued>>
             /\ \E q : Fresh(q) /\ req' = [req EXCEPT ![r] = q]
  <2>1. n \in Nat /\ <<u>> \in Seq(Units)
    BY DEF TypeOK
  <2>2. /\ CloseOps \subseteq Ops /\ CloseOps \cap StartOps = {} /\ "syncStatus" \notin CloseOps
        /\ {"ASSEMBLY_COMPLETE", "DAMAGE", "ADJUSTMENT"} \subseteq MovementType
        /\ "complete" \in CloseOps /\ "fail" \in CloseOps /\ "cancel" \in CloseOps
    BY DEF CloseOps, Ops, StartOps, MovementType
  <2>3. PICK op \in CloseOps, to \in {CKD, SKD, CBU, "DAMAGED"},
             mtype \in {"ASSEMBLY_COMPLETE", "DAMAGE", "ADJUSTMENT"} :
             Validated(r, op, <<u>>, to, mtype, n)
    <3>1. CompletionTarget(u, n) \in {CKD, SKD, CBU, "DAMAGED"}
          /\ CancelTarget(u, n) \in {CKD, SKD, CBU, "DAMAGED"}
      BY DEF CompletionTarget, CancelTarget
    <3>2. CASE CompleteJob(r, u, n)
      BY <2>2, <3>1, <3>2 DEF CompleteJob
    <3>3. CASE FailJob(r, u, n)
      BY <2>2, <3>1, <3>3 DEF FailJob
    <3>4. CASE CancelJob(r, u, n)
      BY <2>2, <3>1, <3>4 DEF CancelJob
    <3>5. QED
      BY <1>5, <3>2, <3>3, <3>4
  <2>4. to \in UnitStatus /\ to # InAssembly
    BY <2>3
  <2>5. \E q : Fresh(q) /\ req' = [req EXCEPT ![r] = q]
    BY <2>1, <2>2, <2>3, <2>4, ValidatedFresh
  <2>6. QED
    BY <2>3, <2>5 DEF Validated
<1>6. QED
  BY <1>1, <1>2, <1>3, <1>4, <1>5 DEF Validate

(* A request whose slot is taken is not idle, and its fields are typed.     *)
LEMMA Busy ==
    ASSUME TypeOK, NEW r \in Requests, req[r] # Idle
    PROVE  req[r] \in Request
BY DEF TypeOK

LEMMA TurnBusy ==
    ASSUME TypeOK, NEW r \in Requests, NEW u, Turn(r, u)
    PROVE  req[r] # Idle
BY DEF Turn, Idle

-------------------------------------------------------------------------------
(* The invariant behind every safety theorem: nothing is locked unread, and *)
(* what was read allows the move the request is about to make.              *)
ReadBeforeWrite ==
    \A r \in Requests :
        /\ Directed(req[r])
        /\ \A u \in req[r].locked : Seen(r, u)
        /\ \A u \in Units : Seen(r, u) => CanTransition(req[r].read[u], req[r].to)

LEMMA FinishTyped ==
    ASSUME TypeOK, NEW r \in Requests, Finished(r)
    PROVE  req' \in [Requests -> Request \cup {Idle}]
BY DEF TypeOK, Finished

(* Every step of the system keeps every value in its type.                  *)
LEMMA TypeStep ==
    ASSUME UnitsAssumption, TypeOK, ReadBeforeWrite, [Next]_vars
    PROVE  TypeOK'
<1>1. CASE UNCHANGED vars
  BY <1>1 DEF vars, TypeOK
<1>2. ASSUME NEW r \in Requests, Validate(r) PROVE TypeOK'
  BY <1>2, ValidateFresh DEF TypeOK, Fresh
<1>3. ASSUME NEW r \in Requests, NEW u \in Units, ReadUnit(r, u) PROVE TypeOK'
  <2>1. req[r] \in Request
    BY <1>3, Busy, TurnBusy DEF ReadUnit
  <2>2. [req[r] EXCEPT !.read[u] = status[u]] \in Request
    BY <2>1 DEF Request, TypeOK
  <2>3. req' = [req EXCEPT ![r] = [req[r] EXCEPT !.read[u] = status[u]]]
    BY <1>3 DEF ReadUnit
  <2>4. QED
    BY <1>3, <2>2, <2>3 DEF ReadUnit, TypeOK
<1>4. ASSUME NEW r \in Requests, NEW u \in Units, LockUnit(r, u) PROVE TypeOK'
  <2>1. req[r] \in Request
    BY <1>4, Busy, TurnBusy DEF LockUnit
  <2>2. [req[r] EXCEPT !.locked = @ \cup {u}] \in Request
    BY <2>1 DEF Request
  <2>3. req' = [req EXCEPT ![r] = [req[r] EXCEPT !.locked = @ \cup {u}]]
    BY <1>4 DEF LockUnit
  <2>4. QED
    BY <1>4, <2>2, <2>3 DEF LockUnit, TypeOK
<1>5. ASSUME NEW r \in Requests, NEW u \in Units, Refuse(r, u) PROVE TypeOK'
  BY <1>5, FinishTyped DEF Refuse, TypeOK
<1>6. ASSUME NEW r \in Requests, Commit(r) PROVE TypeOK'
  <2>1. req[r] \in Request
    BY <1>6, Busy DEF Commit
  <2>2. status' \in [Units -> UnitStatus]
    BY <1>6, <2>1 DEF Commit, Request, TypeOK
  <2>3. ASSUME NEW u \in req[r].locked PROVE MovementOf(r, u) \in Movement
    <3>1. u \in Units /\ req[r].read[u] \in UnitStatus \cup {NoState}
      BY <2>1 DEF Request
    <3>2. QED
      BY <2>1, <3>1 DEF MovementOf, Movement, Request
  <2>4. lastMove' \in [Units -> Movement]
    BY <1>6, <2>3 DEF Commit, TypeOK
  <2>5. ASSUME NEW u \in Units PROVE JobsAfter(r, u) \in Seq(Job)
    <3>1. jobs[u] \in Seq(Job)
      BY DEF TypeOK
    <3>2. \A t \in JobType : Append(jobs[u], [type |-> t, status |-> "IN_PROGRESS"]) \in Seq(Job)
      BY <3>1 DEF Job, JobStatus
    <3>3. ClosedStatus(req[r].op) \in JobStatus
      BY DEF ClosedStatus, JobStatus
    <3>4. [jobs[u] EXCEPT ![req[r].job].status = ClosedStatus(req[r].op)] \in Seq(Job)
      BY <3>1, <3>3, CloseJobs
    <3>5. "CKD_TO_ASSEMBLED" \in JobType /\ "SKD_TO_CBU" \in JobType
      BY DEF JobType
    <3>6. QED
      BY <3>1, <3>2, <3>4, <3>5 DEF JobsAfter
  <2>6. jobs' \in [Units -> Seq(Job)]
    BY <1>6, <2>5 DEF Commit, TypeOK
  <2>7. QED
    BY <1>6, <2>2, <2>4, <2>6, FinishTyped DEF Commit, TypeOK
<1>7. ASSUME NEW r \in Requests, AbortDeadlock(r) \/ Lose(r) PROVE TypeOK'
  BY <1>7, FinishTyped DEF AbortDeadlock, Lose, TypeOK
<1>8. ASSUME NEW v \in Variants, SetVariantStatus(v) PROVE TypeOK'
  BY <1>8 DEF SetVariantStatus, TypeOK
<1>9. QED
  BY <1>1, <1>2, <1>3, <1>4, <1>5, <1>6, <1>7, <1>8 DEF Next, Transact

(* Every step keeps the discipline of reading, asserting, then locking.     *)
LEMMA ReadBeforeWriteStep ==
    ASSUME UnitsAssumption, TypeOK, ReadBeforeWrite, [Next]_vars
    PROVE  ReadBeforeWrite'
<1> USE DEF ReadBeforeWrite, Seen
<1>1. CASE UNCHANGED vars
  BY <1>1 DEF vars
<1>2. ASSUME NEW r \in Requests, NEW q, Fresh(q), req' = [req EXCEPT ![r] = q]
      PROVE  ReadBeforeWrite'
  BY <1>2 DEF Fresh, Nothing, TypeOK
<1>3. ASSUME NEW r \in Requests, NEW u \in Units, ReadUnit(r, u) PROVE ReadBeforeWrite'
  <2>1. req[r] \in Request
    BY <1>3, Busy, TurnBusy DEF ReadUnit
  <2>2. req' = [req EXCEPT ![r] = [req[r] EXCEPT !.read[u] = status[u]]]
    BY <1>3 DEF ReadUnit
  <2>3. /\ req'[r].op = req[r].op /\ req'[r].to = req[r].to
        /\ req'[r].locked = req[r].locked
        /\ req'[r].read = [req[r].read EXCEPT ![u] = status[u]]
        /\ \A p \in Requests \ {r} : req'[p] = req[p]
    BY <2>1, <2>2 DEF Request, TypeOK
  <2>4. status[u] # NoState
    BY StatusFacts DEF TypeOK
  <2>5. CanTransition(status[u], req[r].to)
    BY <1>3 DEF ReadUnit, Asserted
  <2>6. req[r].read \in [Units -> UnitStatus \cup {NoState}] /\ req[r].locked \subseteq Units
    BY <2>1 DEF Request
  <2>7. QED
    BY <2>3, <2>4, <2>5, <2>6 DEF Directed
<1>4. ASSUME NEW r \in Requests, NEW u \in Units, LockUnit(r, u) PROVE ReadBeforeWrite'
  <2>1. req[r] \in Request
    BY <1>4, Busy, TurnBusy DEF LockUnit
  <2>2. req' = [req EXCEPT ![r] = [req[r] EXCEPT !.locked = @ \cup {u}]]
    BY <1>4 DEF LockUnit
  <2>3. /\ req'[r].op = req[r].op /\ req'[r].to = req[r].to
        /\ req'[r].locked = req[r].locked \cup {u}
        /\ req'[r].read = req[r].read
        /\ \A p \in Requests \ {r} : req'[p] = req[p]
    BY <2>1, <2>2 DEF Request, TypeOK
  <2>4. Seen(r, u)
    BY <1>4 DEF LockUnit
  <2>5. QED
    BY <2>3, <2>4 DEF Directed
<1>5. ASSUME NEW r \in Requests, Finished(r) PROVE ReadBeforeWrite'
  <2>1. /\ req'[r] = Idle
        /\ \A p \in Requests \ {r} : req'[p] = req[p]
    BY <1>5 DEF Finished, TypeOK
  <2>2. Directed(Idle) /\ Idle.locked = {} /\ \A u \in Units : Idle.read[u] = NoState
    BY DEF Directed, Idle, Nothing, StartOps, NoState, InAssembly
  <2>3. QED
    BY <2>1, <2>2 DEF Directed
<1>6. ASSUME NEW v \in Variants, SetVariantStatus(v) PROVE ReadBeforeWrite'
  BY <1>6 DEF SetVariantStatus
<1>7. ASSUME NEW r \in Requests, Validate(r) PROVE ReadBeforeWrite'
  BY <1>2, <1>7, ValidateFresh
<1>8. QED
  BY <1>1, <1>3, <1>4, <1>5, <1>6, <1>7
  DEF Next, Transact, Refuse, Commit, AbortDeadlock, Lose

LEMMA InitTyped ==
    ASSUME UnitsAssumption, Init
    PROVE  TypeOK /\ ReadBeforeWrite
<1>1. CKD \in UnitStatus /\ "RECEIPT" \in MovementType
  BY StatusFacts DEF MovementType
<1>2. TypeOK
  BY <1>1 DEF Init, TypeOK, Movement
<1>3. ReadBeforeWrite
  BY DEF Init, ReadBeforeWrite, Directed, Seen, Idle, Nothing, StartOps, NoState, InAssembly
<1>4. QED
  BY <1>2, <1>3

(* Whatever requests run together, every variable keeps its type, every     *)
(* write follows a read, and every read allows the write that follows.      *)
THEOREM TypeCorrect ==
    ASSUME UnitsAssumption
    PROVE  Spec => [](TypeOK /\ ReadBeforeWrite)
<1>1. Init => TypeOK /\ ReadBeforeWrite
  BY InitTyped
<1>2. TypeOK /\ ReadBeforeWrite /\ [Next]_vars => (TypeOK /\ ReadBeforeWrite)'
  BY TypeStep, ReadBeforeWriteStep
<1>3. QED
  BY <1>1, <1>2, PTL DEF Spec

-------------------------------------------------------------------------------
(* What a commit does to the rows.                                          *)

LEMMA CommitLocked ==
    ASSUME TypeOK, ReadBeforeWrite, NEW r \in Requests, Commit(r), NEW u \in req[r].locked
    PROVE  /\ u \in Units
           /\ req[r] \in Request
           /\ Seen(r, u)
           /\ req[r].read[u] \in UnitStatus
           /\ CanTransition(req[r].read[u], req[r].to)
<1>1. req[r] \in Request
  BY Busy DEF Commit
<1>2. u \in Units /\ Seen(r, u)
  BY <1>1 DEF Request, ReadBeforeWrite
<1>3. req[r].read[u] \in UnitStatus
  BY <1>1, <1>2 DEF Request, Seen
<1>4. QED
  BY <1>1, <1>2, <1>3 DEF ReadBeforeWrite

(* Every step but a commit leaves the rows as they are.                     *)
LEMMA RowsChangeInCommits ==
    ASSUME UnitsAssumption, TypeOK, [Next]_vars
    PROVE  \/ UNCHANGED <<status, lastMove, jobs>>
           \/ \E r \in Requests : Commit(r)
<1>1. ASSUME NEW r \in Requests, Validate(r) PROVE UNCHANGED <<status, lastMove, jobs>>
  BY <1>1, ValidateFresh
<1>2. ASSUME NEW r \in Requests, Transact(r)
      PROVE  UNCHANGED <<status, lastMove, jobs>> \/ Commit(r)
  BY <1>2 DEF Transact, ReadUnit, LockUnit, Refuse, AbortDeadlock
<1>3. QED
  BY <1>1, <1>2 DEF Next, Lose, SetVariantStatus, vars

(* The I-3 ledger invariant, for any number of concurrent requests and with *)
(* pushed status fields: the newest movement of a unit ends in the unit's   *)
(* status and records a legal edge, because transitionUnit writes the two   *)
(* rows in one transaction after asserting the edge it read.                *)
THEOREM LedgerAlwaysAgrees ==
    ASSUME UnitsAssumption
    PROVE  Spec => []LedgerAgrees
<1>1. Init => LedgerAgrees
  BY DEF Init, LedgerAgrees
<1>2. TypeOK /\ ReadBeforeWrite /\ LedgerAgrees /\ [Next]_vars => LedgerAgrees'
  <2> SUFFICES ASSUME TypeOK, ReadBeforeWrite, LedgerAgrees, [Next]_vars
               PROVE  LedgerAgrees'
    OBVIOUS
  <2>1. CASE UNCHANGED <<status, lastMove, jobs>>
    BY <2>1 DEF LedgerAgrees
  <2>2. ASSUME NEW r \in Requests, Commit(r), NEW u \in Units
        PROVE  /\ lastMove'[u].to = status'[u]
               /\ lastMove'[u].from # NoState =>
                     CanTransition(lastMove'[u].from, lastMove'[u].to)
    <3>1. CASE u \in req[r].locked
      <4>1. status'[u] = req[r].to /\ lastMove'[u] = MovementOf(r, u)
        BY <2>2, <3>1 DEF Commit
      <4>2. CanTransition(req[r].read[u], req[r].to)
        BY <2>2, <3>1, CommitLocked
      <4>3. QED
        BY <4>1, <4>2 DEF MovementOf
    <3>2. CASE u \notin req[r].locked
      BY <2>2, <3>2 DEF Commit, LedgerAgrees
    <3>3. QED
      BY <3>1, <3>2
  <2>3. QED
    BY <2>1, <2>2, RowsChangeInCommits DEF LedgerAgrees
<1>3. QED
  BY <1>1, <1>2, TypeCorrect, PTL DEF Spec

-------------------------------------------------------------------------------
(* Assembly jobs.                                                           *)

LEMMA AppendOpen ==
    ASSUME NEW s \in Seq(Job), NEW j, j.status = "IN_PROGRESS"
    PROVE  {n \in DOMAIN Append(s, j) : Append(s, j)[n].status = "IN_PROGRESS"}
           = {n \in DOMAIN s : s[n].status = "IN_PROGRESS"} \cup {Len(s) + 1}
<1>1. /\ DOMAIN Append(s, j) = 1 .. (Len(s) + 1) /\ DOMAIN s = 1 .. Len(s) /\ Len(s) \in Nat
      /\ \A n \in 1 .. Len(s) : Append(s, j)[n] = s[n]
      /\ Append(s, j)[Len(s) + 1] = j
  OBVIOUS
<1>2. \A n \in 1 .. (Len(s) + 1) : n \in 1 .. Len(s) \/ n = Len(s) + 1
  BY <1>1
<1>3. QED
  BY <1>1, <1>2

LEMMA CloseOpen ==
    ASSUME NEW s \in Seq(Job), NEW m, NEW c \in JobStatus \ {"IN_PROGRESS"}
    PROVE  {n \in DOMAIN s : [s EXCEPT ![m].status = c][n].status = "IN_PROGRESS"}
           \subseteq {n \in DOMAIN s : s[n].status = "IN_PROGRESS"}
<1> SUFFICES ASSUME NEW n \in DOMAIN s,
                    [s EXCEPT ![m].status = c][n].status = "IN_PROGRESS"
             PROVE  s[n].status = "IN_PROGRESS"
  OBVIOUS
<1>1. CASE n = m
  <2>1. [s EXCEPT ![m].status = c][n] = [s[n] EXCEPT !.status = c]
    BY <1>1
  <2>2. s[n] \in Job
    OBVIOUS
  <2>3. [s[n] EXCEPT !.status = c].status = c
    BY <2>2 DEF Job
  <2>4. QED
    BY <2>1, <2>3
<1>2. CASE n # m
  BY <1>2
<1>3. QED
  BY <1>1, <1>2

(* A commit opens a job only for a start and only for units it has moved.   *)
LEMMA CommitOpen ==
    ASSUME TypeOK, ReadBeforeWrite, NEW r \in Requests, Commit(r), NEW u \in Units
    PROVE  /\ u \notin req[r].locked => Open(u)' = Open(u)
           /\ u \in req[r].locked /\ req[r].op \in StartOps =>
                 Open(u)' = Open(u) \cup {Len(jobs[u]) + 1}
           /\ req[r].op \notin StartOps => Open(u)' \subseteq Open(u)
<1>1. jobs[u] \in Seq(Job)
  BY DEF TypeOK
<1>2. /\ u \notin req[r].locked => jobs'[u] = jobs[u]
      /\ u \in req[r].locked => jobs'[u] = JobsAfter(r, u)
  BY DEF Commit
<1>3. CASE u \notin req[r].locked
  BY <1>2, <1>3 DEF Open
<1>4. CASE u \in req[r].locked /\ req[r].op \in StartOps
  <2>1. PICK j : j.status = "IN_PROGRESS" /\ jobs'[u] = Append(jobs[u], j)
    <3>1. \A t : [type |-> t, status |-> "IN_PROGRESS"].status = "IN_PROGRESS"
      OBVIOUS
    <3>2. CASE req[r].op = "startAssembly"
      <4>1. JobsAfter(r, u) =
              Append(jobs[u], [type |-> "CKD_TO_ASSEMBLED", status |-> "IN_PROGRESS"])
        BY <3>2 DEF JobsAfter, CloseOps
      <4>2. QED
        BY <1>2, <1>4, <3>1, <4>1
    <3>3. CASE req[r].op = "startUpgrade"
      <4>1. JobsAfter(r, u) =
              Append(jobs[u], [type |-> "SKD_TO_CBU", status |-> "IN_PROGRESS"])
        BY <3>3 DEF JobsAfter, CloseOps
      <4>2. QED
        BY <1>2, <1>4, <3>1, <4>1
    <3>4. QED
      BY <1>4, <3>2, <3>3 DEF StartOps
  <2>2. QED
    BY <1>1, <1>4, <2>1, AppendOpen DEF Open
<1>5. CASE u \in req[r].locked /\ req[r].op \notin StartOps
  <2>1. CASE req[r].op \in CloseOps
    <3>1. ClosedStatus(req[r].op) \in JobStatus \ {"IN_PROGRESS"}
      BY DEF ClosedStatus, JobStatus
    <3>2. jobs'[u] = [jobs[u] EXCEPT ![req[r].job].status = ClosedStatus(req[r].op)]
      BY <1>2, <1>5, <2>1 DEF JobsAfter, StartOps, CloseOps
    <3>3. DOMAIN jobs'[u] = DOMAIN jobs[u]
      BY <1>1, <3>2
    <3>4. QED
      BY <1>1, <1>5, <3>1, <3>2, <3>3, CloseOpen DEF Open
  <2>2. CASE req[r].op \notin CloseOps
    BY <1>2, <1>5, <2>2 DEF JobsAfter, StartOps, Open
  <2>3. QED
    BY <2>1, <2>2
<1>6. QED
  BY <1>3, <1>4, <1>5

(* Without pushed status fields only a start sends a unit to assembly.      *)
NoPush == \A r \in Requests : req[r].op # "syncStatus"

LEMMA NoPushHolds ==
    ASSUME UnitsAssumption, "syncStatus" \notin Endpoints
    PROVE  Spec => []NoPush
<1>1. Init => NoPush
  BY DEF Init, NoPush, Idle
<1>2. TypeOK /\ NoPush /\ [Next]_vars => NoPush'
  <2> SUFFICES ASSUME TypeOK, NoPush, [Next]_vars PROVE NoPush'
    OBVIOUS
  <2> USE DEF NoPush
  <2>1. CASE UNCHANGED req
    BY <2>1
  <2>2. ASSUME NEW r \in Requests, Validate(r) PROVE NoPush'
    <3>1. PICK q : Fresh(q) /\ req' = [req EXCEPT ![r] = q]
      BY <2>2, ValidateFresh
    <3>2. q.op # "syncStatus"
      BY <3>1 DEF Fresh
    <3>3. QED
      BY <3>1, <3>2 DEF TypeOK
  <2>3. ASSUME NEW r \in Requests, NEW u \in Units, ReadUnit(r, u) \/ LockUnit(r, u)
        PROVE  NoPush'
    <3>1. req[r] \in Request
      BY <2>3, Busy, TurnBusy DEF ReadUnit, LockUnit
    <3>2. req'[r].op = req[r].op /\ \A p \in Requests \ {r} : req'[p] = req[p]
      BY <2>3, <3>1 DEF ReadUnit, LockUnit, Request, TypeOK
    <3>3. QED
      BY <3>2
  <2>4. ASSUME NEW r \in Requests, Finished(r) PROVE NoPush'
    BY <2>4 DEF Finished, Idle, TypeOK
  <2>5. QED
    BY <2>1, <2>2, <2>3, <2>4
    DEF Next, Transact, Refuse, Commit, AbortDeadlock, Lose, SetVariantStatus, vars
<1>3. QED
  BY <1>1, <1>2, TypeCorrect, PTL DEF Spec

(* While status fields come only from the workflows, no unit is stranded on *)
(* the assembly floor without a job, however the requests interleave.       *)
THEOREM NoStrandedUnits ==
    ASSUME UnitsAssumption, "syncStatus" \notin Endpoints
    PROVE  Spec => []AssemblyHasOpenJob
<1>1. Init => AssemblyHasOpenJob
  BY DEF Init, AssemblyHasOpenJob, CKD, InAssembly
<1>2. TypeOK /\ ReadBeforeWrite /\ NoPush /\ AssemblyHasOpenJob /\ [Next]_vars
      => AssemblyHasOpenJob'
  <2> SUFFICES ASSUME TypeOK, ReadBeforeWrite, NoPush, AssemblyHasOpenJob, [Next]_vars
               PROVE  AssemblyHasOpenJob'
    OBVIOUS
  <2>1. CASE UNCHANGED <<status, lastMove, jobs>>
    BY <2>1 DEF AssemblyHasOpenJob, Open
  <2>2. ASSUME NEW r \in Requests, Commit(r), NEW u \in Units, status'[u] = InAssembly
        PROVE  Open(u)' # {}
    <3>1. CASE u \in req[r].locked
      <4>1. status'[u] = req[r].to
        BY <2>2, <3>1 DEF Commit
      <4>2. req[r].op \in StartOps
        BY <2>2, <4>1 DEF ReadBeforeWrite, Directed, NoPush
      <4>3. QED
        BY <2>2, <3>1, <4>2, CommitOpen
    <3>2. CASE u \notin req[r].locked
      <4>1. status[u] = InAssembly
        BY <2>2, <3>2 DEF Commit
      <4>2. QED
        BY <2>2, <3>2, <4>1, CommitOpen DEF AssemblyHasOpenJob
    <3>3. QED
      BY <3>1, <3>2
  <2>3. QED
    BY <2>1, <2>2, RowsChangeInCommits DEF AssemblyHasOpenJob
<1>3. QED
  BY <1>1, <1>2, TypeCorrect, NoPushHolds, PTL DEF Spec

(* An uncommitted job row holds the index entry of its unit alone.          *)
IndexHeld ==
    \A r \in Requests, u \in Units : Inserted(r, u) =>
        /\ Open(u) = {}
        /\ \A p \in Requests \ {r} : ~Inserted(p, u)

(* What IndexHeld tells apart of a request changes only in ReadUnit and     *)
(* where a request ends.                                                    *)
LEMMA IndexStep ==
    ASSUME UnitsAssumption, TypeOK, ReadBeforeWrite, IndexHeld, [Next]_vars
    PROVE  IndexHeld'
<1> USE DEF IndexHeld, Inserted, Seen
<1>1. CASE UNCHANGED <<req, jobs>>
  BY <1>1 DEF Open
<1>2. ASSUME NEW r \in Requests, Validate(r) PROVE IndexHeld'
  <2>1. PICK q : Fresh(q) /\ req' = [req EXCEPT ![r] = q]
    BY <1>2, ValidateFresh
  <2>2. \A u \in Units : ~Inserted(r, u)'
    BY <2>1 DEF Fresh, Nothing, TypeOK
  <2>3. \A p \in Requests \ {r} : req'[p] = req[p]
    BY <2>1 DEF TypeOK
  <2>4. UNCHANGED jobs
    BY <1>2, ValidateFresh
  <2>5. QED
    BY <2>2, <2>3, <2>4 DEF Open
<1>3. ASSUME NEW r \in Requests, NEW u \in Units, ReadUnit(r, u) PROVE IndexHeld'
  <2>1. req[r] \in Request
    BY <1>3, Busy, TurnBusy DEF ReadUnit
  <2>2. /\ req'[r].op = req[r].op
        /\ req'[r].read = [req[r].read EXCEPT ![u] = status[u]]
        /\ \A p \in Requests \ {r} : req'[p] = req[p]
    BY <1>3, <2>1 DEF ReadUnit, Request, TypeOK
  <2>3. req[r].op \in StartOps => Open(u) = {} /\ \A p \in Requests \ {r} : ~Inserted(p, u)
    BY <1>3 DEF ReadUnit, IndexHolders
  <2>4. UNCHANGED jobs /\ req[r].read \in [Units -> UnitStatus \cup {NoState}]
    BY <1>3, <2>1 DEF ReadUnit, Request
  <2>5. \A w \in Units \ {u} : Inserted(r, w)' = Inserted(r, w)
    BY <2>2, <2>4
  <2>6. QED
    BY <2>2, <2>3, <2>4, <2>5 DEF Open
<1>4. ASSUME NEW r \in Requests, NEW u \in Units, LockUnit(r, u) PROVE IndexHeld'
  <2>1. req[r] \in Request
    BY <1>4, Busy, TurnBusy DEF LockUnit
  <2>2. /\ req'[r].op = req[r].op /\ req'[r].read = req[r].read
        /\ \A p \in Requests \ {r} : req'[p] = req[p]
    BY <1>4, <2>1 DEF LockUnit, Request, TypeOK
  <2>3. UNCHANGED jobs
    BY <1>4 DEF LockUnit
  <2>4. QED
    BY <2>2, <2>3 DEF Open
<1>5. ASSUME NEW r \in Requests, Finished(r),
             \A u \in Units : Open(u)' \subseteq Open(u)
                              \/ \A p \in Requests \ {r} : ~Inserted(p, u)
      PROVE  IndexHeld'
  <2>1. \A u \in Units : ~Inserted(r, u)'
    BY <1>5 DEF Finished, Idle, Nothing, TypeOK
  <2>2. \A p \in Requests \ {r} : req'[p] = req[p]
    BY <1>5 DEF Finished, TypeOK
  <2>3. QED
    BY <1>5, <2>1, <2>2
<1>6. ASSUME NEW r \in Requests, Commit(r) PROVE IndexHeld'
  <2>1. ASSUME NEW u \in Units, ~(Open(u)' \subseteq Open(u))
        PROVE  \A p \in Requests \ {r} : ~Inserted(p, u)
    <3>1. u \in req[r].locked /\ req[r].op \in StartOps
      BY <1>6, <2>1, CommitOpen
    <3>2. Inserted(r, u)
      BY <3>1 DEF ReadBeforeWrite
    <3>3. QED
      BY <3>2
  <2>2. QED
    BY <1>5, <1>6, <2>1 DEF Commit
<1>7. ASSUME NEW r \in Requests, Finished(r), UNCHANGED jobs PROVE IndexHeld'
  BY <1>5, <1>7 DEF Open
<1>8. QED
  BY <1>1, <1>2, <1>3, <1>4, <1>6, <1>7
  DEF Next, Transact, Refuse, AbortDeadlock, Lose, SetVariantStatus, vars

(* The partial unique index: however many starts race, a unit has at most   *)
(* one assembly job in progress.                                            *)
THEOREM OneOpenJobAtATime ==
    ASSUME UnitsAssumption
    PROVE  Spec => []OneOpenJob
<1>1. Init => IndexHeld /\ OneOpenJob
  BY DEF Init, IndexHeld, OneOpenJob, Inserted, Seen, Open, Idle, Nothing
<1>2. TypeOK /\ ReadBeforeWrite /\ IndexHeld /\ OneOpenJob /\ [Next]_vars
      => IndexHeld' /\ OneOpenJob'
  <2> SUFFICES ASSUME TypeOK, ReadBeforeWrite, IndexHeld, OneOpenJob, [Next]_vars
               PROVE  IndexHeld' /\ OneOpenJob'
    OBVIOUS
  <2>1. IndexHeld'
    BY IndexStep
  <2>2. CASE UNCHANGED <<status, lastMove, jobs>>
    BY <2>1, <2>2 DEF OneOpenJob, Open
  <2>3. ASSUME NEW r \in Requests, Commit(r), NEW u \in Units,
               NEW m \in Open(u)', NEW n \in Open(u)'
        PROVE  m = n
    <3>1. CASE Open(u)' \subseteq Open(u)
      BY <3>1 DEF OneOpenJob
    <3>2. CASE ~(Open(u)' \subseteq Open(u))
      <4>1. u \in req[r].locked /\ req[r].op \in StartOps
        BY <2>3, <3>2, CommitOpen
      <4>2. Open(u) = {}
        BY <4>1 DEF ReadBeforeWrite, IndexHeld, Inserted
      <4>3. Open(u)' = {Len(jobs[u]) + 1}
        BY <2>3, <4>1, <4>2, CommitOpen
      <4>4. QED
        BY <4>3
    <3>3. QED
      BY <3>1, <3>2
  <2>4. QED
    BY <2>1, <2>2, <2>3, RowsChangeInCommits DEF OneOpenJob
<1>3. QED
  BY <1>1, <1>2, TypeCorrect, PTL DEF Spec

-------------------------------------------------------------------------------
(* One request at a time.                                                   *)

(* What the request in service has read is still so.                        *)
ReadsAreCurrent ==
    \A r \in Requests, u \in Units : Seen(r, u) => req[r].read[u] = status[u]

LEMMA CurrentStep ==
    ASSUME UnitsAssumption, TypeOK, ReadsAreCurrent, [Next]_vars,
           \A p, q \in Requests : p = q
    PROVE  ReadsAreCurrent'
<1> USE DEF ReadsAreCurrent, Seen
<1>1. CASE UNCHANGED <<req, status>>
  BY <1>1
<1>2. ASSUME NEW r \in Requests, Validate(r) PROVE ReadsAreCurrent'
  <2>1. PICK q : Fresh(q) /\ req' = [req EXCEPT ![r] = q]
    BY <1>2, ValidateFresh
  <2>2. req'[r] = q
    BY <2>1 DEF TypeOK
  <2>3. QED
    BY <2>1, <2>2 DEF Fresh, Nothing
<1>3. ASSUME NEW r \in Requests, NEW u \in Units, ReadUnit(r, u) PROVE ReadsAreCurrent'
  <2>1. req[r] \in Request
    BY <1>3, Busy, TurnBusy DEF ReadUnit
  <2>2. req'[r].read = [req[r].read EXCEPT ![u] = status[u]] /\ UNCHANGED status
    BY <1>3, <2>1 DEF ReadUnit, Request, TypeOK
  <2>3. req[r].read \in [Units -> UnitStatus \cup {NoState}]
    BY <2>1 DEF Request
  <2>4. QED
    BY <2>2, <2>3
<1>4. ASSUME NEW r \in Requests, NEW u \in Units, LockUnit(r, u) PROVE ReadsAreCurrent'
  <2>1. req[r] \in Request
    BY <1>4, Busy, TurnBusy DEF LockUnit
  <2>2. req'[r].read = req[r].read /\ UNCHANGED status
    BY <1>4, <2>1 DEF LockUnit, Request, TypeOK
  <2>3. QED
    BY <2>2
<1>5. ASSUME NEW r \in Requests, Finished(r) PROVE ReadsAreCurrent'
  <2>1. req'[r] = Idle
    BY <1>5 DEF Finished, TypeOK
  <2>2. QED
    BY <2>1 DEF Idle, Nothing
<1>6. QED
  BY <1>1, <1>2, <1>3, <1>4, <1>5
  DEF Next, Transact, Refuse, Commit, AbortDeadlock, Lose, SetVariantStatus, vars

(* The ledger's view of the state machine is the warehouse's.               *)
LEMMA SameStateMachine ==
    /\ Ledger!UnitStatus = UnitStatus
    /\ Ledger!Movement = Movement
    /\ \A from, to : Ledger!CanTransition(from, to) <=> CanTransition(from, to)
<1> USE DEF Ledger!InTransit, Ledger!CKD, Ledger!SKD, Ledger!CBU, Ledger!InAssembly,
            Ledger!InRepair, Ledger!Warehoused, Ledger!Assembled, Ledger!SoldStates,
            Ledger!NoState, InTransit, CKD, SKD, CBU, InAssembly, InRepair,
            Warehoused, Assembled, SoldStates, NoState
<1>1. Ledger!UnitStatus = UnitStatus
  BY Zenon DEF UnitStatus, Ledger!UnitStatus
<1>2. Ledger!MovementType = MovementType
  BY Zenon DEF MovementType, Ledger!MovementType
<1>3. Ledger!Movement = Movement
  BY <1>1, <1>2, Zenon DEF Movement, Ledger!Movement
<1>4. Ledger!Transitions = Transitions
  BY Zenon DEF Transitions, Ledger!Transitions
<1>5. QED
  BY <1>1, <1>3, <1>4 DEF CanTransition, Ledger!CanTransition

(* Served one request at a time, the warehouse implements the stock ledger: *)
(* each unit moves along legal edges only, and the ledger gets one movement *)
(* from where the unit was to where it goes.                                *)
THEOREM SerialRefinement ==
    ASSUME UnitsAssumption, \A p, q \in Requests : p = q
    PROVE  Spec => ImplementsLedger
<1>1. Init => Ledger!Init /\ ReadsAreCurrent
  <2> SUFFICES ASSUME Init PROVE Ledger!Init /\ ReadsAreCurrent
    OBVIOUS
  <2>1. TypeOK
    BY InitTyped
  <2>2. QED
    BY <2>1, SameStateMachine DEF Init, Ledger!Init, TypeOK, ReadsAreCurrent, Seen, Idle, Nothing
<1>2. TypeOK /\ ReadBeforeWrite /\ ReadsAreCurrent /\ [Next]_vars
      => ReadsAreCurrent' /\ [Ledger!Next]_(Ledger!ledgerVars)
  <2> SUFFICES ASSUME TypeOK, ReadBeforeWrite, ReadsAreCurrent, [Next]_vars
               PROVE  ReadsAreCurrent' /\ [Ledger!Next]_(Ledger!ledgerVars)
    OBVIOUS
  <2>1. ReadsAreCurrent'
    BY CurrentStep
  <2>2. TypeOK'
    BY TypeStep
  <2>3. CASE UNCHANGED <<status, lastMove, jobs>>
    BY <2>1, <2>3 DEF Ledger!ledgerVars
  <2>4. ASSUME NEW r \in Requests, Commit(r) PROVE Ledger!Next
    <3>1. req[r].locked \in SUBSET Units
      BY <2>4, CommitLocked
    <3>2. ASSUME NEW u \in req[r].locked
          PROVE  /\ CanTransition(status[u], status'[u])
                 /\ lastMove'[u].from = status[u]
                 /\ lastMove'[u].to = status'[u]
      <4>1. u \in Units /\ CanTransition(req[r].read[u], req[r].to)
            /\ req[r].read[u] = status[u]
        BY <2>4, CommitLocked DEF ReadsAreCurrent
      <4>2. status'[u] = req[r].to /\ lastMove'[u] = MovementOf(r, u)
        BY <2>4, <4>1 DEF Commit
      <4>3. QED
        BY <4>1, <4>2 DEF MovementOf
    <3>3. \A u \in Units \ req[r].locked : status'[u] = status[u] /\ lastMove'[u] = lastMove[u]
      BY <2>4 DEF Commit
    <3>4. Ledger!Move(req[r].locked)
      BY <2>2, <3>2, <3>3, SameStateMachine DEF Ledger!Move, TypeOK
    <3>5. QED
      BY <3>1, <3>4 DEF Ledger!Next
  <2>5. QED
    BY <2>1, <2>3, <2>4, RowsChangeInCommits
<1>3. QED
  BY <1>1, <1>2, TypeCorrect, PTL DEF Spec, Ledger!Spec, ImplementsLedger

-------------------------------------------------------------------------------
(* Assembly jobs, one request at a time.                                    *)

(* What a request found of the units of its batch and of the job it closes. *)
Found(q) ==
    \A i \in DOMAIN q.batch :
        /\ q.op = "adjust" => IsAdjustment(status[q.batch[i]], q.to)
        /\ q.op = "startAssembly" => status[q.batch[i]] = CKD
        /\ q.op = "startUpgrade" => status[q.batch[i]] = SKD
        /\ q.op \in CloseOps => q.job \in Open(q.batch[i])
        /\ q.op = "cancel" => q.to = CancelTarget(q.batch[i], q.job)

(* It is still so; and a request locks the units of its batch only.         *)
BatchStands ==
    \A r \in Requests :
        /\ \A u \in req[r].locked : \E i \in DOMAIN req[r].batch : req[r].batch[i] = u
        /\ Found(req[r])

(* A unit with a job in progress is in assembly, and its newest movement    *)
(* tells where the job took it from.                                        *)
JobsHoldUnits ==
    \A u \in Units : \A n \in Open(u) :
        status[u] = InAssembly /\ lastMove[u].from = CancelTarget(u, n)

(* Validation has just looked.                                             *)
LEMMA BatchValidate ==
    ASSUME UnitsAssumption, TypeOK, NEW r \in Requests, Validate(r)
    PROVE  req'[r].locked = {} /\ Found(req'[r])
<1> DEFINE Goal == req'[r].locked = {} /\ Found(req'[r])
<1> USE DEF Found
<1>1. ASSUME NEW op, NEW batch, NEW to, NEW mtype, NEW n, Validated(r, op, batch, to, mtype, n)
      PROVE  /\ req'[r].op = op /\ req'[r].batch = batch /\ req'[r].to = to
             /\ req'[r].job = n /\ req'[r].locked = {}
  BY <1>1 DEF Validated, TypeOK
<1>2. ASSUME NEW u \in Units PROVE \A i \in DOMAIN <<u>> : <<u>>[i] = u
  OBVIOUS
<1>3. ASSUME NEW u \in Units, NEW to \in Targets, Adjust(r, u, to) PROVE Goal
  <2>1. /\ req'[r].op = "adjust" /\ req'[r].batch = <<u>> /\ req'[r].to = to
        /\ req'[r].locked = {}
    BY <1>1, <1>3 DEF Adjust
  <2>2. IsAdjustment(status[u], to)
    BY <1>3 DEF Adjust
  <2>3. QED
    BY <1>2, <2>1, <2>2 DEF CloseOps
<1>4. ASSUME NEW u \in Units, NEW to \in Targets, SyncStatus(r, u, to) PROVE Goal
  <2>1. req'[r].op = "syncStatus" /\ req'[r].locked = {}
    BY <1>1, <1>4 DEF SyncStatus
  <2>2. QED
    BY <2>1 DEF CloseOps
<1>5. ASSUME NEW batch \in Batches, StartAssembly(r, batch) PROVE Goal
  <2>1. req'[r].op = "startAssembly" /\ req'[r].batch = batch /\ req'[r].locked = {}
    BY <1>1, <1>5 DEF StartAssembly
  <2>2. QED
    BY <1>5, <2>1 DEF StartAssembly, CloseOps
<1>6. ASSUME NEW u \in Units, StartUpgrade(r, u) PROVE Goal
  <2>1. req'[r].op = "startUpgrade" /\ req'[r].batch = <<u>> /\ req'[r].locked = {}
    BY <1>1, <1>6 DEF StartUpgrade
  <2>2. QED
    BY <1>2, <1>6, <2>1 DEF StartUpgrade, CloseOps
<1>7. ASSUME NEW u \in Units, NEW n \in DOMAIN jobs[u],
             CompleteJob(r, u, n) \/ FailJob(r, u, n) \/ CancelJob(r, u, n)
      PROVE  Goal
  <2>1. n \in Open(u)
    BY <1>7 DEF CompleteJob, FailJob, CancelJob, LoadInProgressJob
  <2>2. /\ req'[r].op \in CloseOps /\ req'[r].batch = <<u>> /\ req'[r].job = n
        /\ req'[r].locked = {}
        /\ req'[r].op = "cancel" => req'[r].to = CancelTarget(u, n)
    BY <1>1, <1>7 DEF CompleteJob, FailJob, CancelJob, CloseOps
  <2>3. QED
    BY <1>2, <2>1, <2>2 DEF CloseOps
<1>8. QED
  BY <1>3, <1>4, <1>5, <1>6, <1>7 DEF Validate

(* With nobody else at work nothing it has seen changes until its commit.   *)
LEMMA BatchStep ==
    ASSUME UnitsAssumption, TypeOK, BatchStands, [Next]_vars, \A p, q \in Requests : p = q
    PROVE  BatchStands'
<1>1. CASE UNCHANGED <<req, status, jobs>>
  BY <1>1 DEF BatchStands, Found, Open, CancelTarget
<1>2. ASSUME NEW r \in Requests, Validate(r) PROVE BatchStands'
  <2>1. UNCHANGED <<status, jobs>> /\ \A q \in Requests : q = r
    BY <1>2, ValidateFresh
  <2>2. QED
    BY <1>2, <2>1, BatchValidate DEF BatchStands, Found, Open, CancelTarget
<1>3. ASSUME NEW r \in Requests, NEW u \in Units, ReadUnit(r, u) \/ LockUnit(r, u)
      PROVE  BatchStands'
  <2>1. req[r] \in Request
    BY <1>3, Busy, TurnBusy DEF ReadUnit, LockUnit
  <2>2. /\ req'[r].op = req[r].op /\ req'[r].to = req[r].to /\ req'[r].job = req[r].job
        /\ req'[r].batch = req[r].batch
        /\ req'[r].locked \subseteq req[r].locked \cup {u}
    <3>1. CASE ReadUnit(r, u)
      <4>1. req' = [req EXCEPT ![r] = [req[r] EXCEPT !.read[u] = status[u]]]
        BY <3>1 DEF ReadUnit
      <4>2. QED
        BY <2>1, <4>1 DEF Request, TypeOK
    <3>2. CASE LockUnit(r, u)
      <4>1. req' = [req EXCEPT ![r] = [req[r] EXCEPT !.locked = @ \cup {u}]]
        BY <3>2 DEF LockUnit
      <4>2. QED
        BY <2>1, <4>1 DEF Request, TypeOK
    <3>3. QED
      BY <1>3, <3>1, <3>2
  <2>3. \E i \in DOMAIN req[r].batch : req[r].batch[i] = u
    BY <1>3 DEF ReadUnit, LockUnit, Turn
  <2>4. UNCHANGED <<status, jobs>> /\ \A q \in Requests : q = r
    BY <1>3 DEF ReadUnit, LockUnit
  <2>5. QED
    BY <2>2, <2>3, <2>4 DEF BatchStands, Found, Open, CancelTarget
<1>4. ASSUME NEW r \in Requests, Finished(r) PROVE BatchStands'
  <2>1. req'[r] = Idle /\ \A q \in Requests : q = r
    BY <1>4 DEF Finished, TypeOK
  <2>2. Idle.locked = {} /\ DOMAIN Idle.batch = {}
    BY DEF Idle
  <2>3. QED
    BY <2>1, <2>2 DEF BatchStands, Found
<1>5. QED
  BY <1>1, <1>2, <1>3, <1>4
  DEF Next, Transact, Refuse, Commit, AbortDeadlock, Lose, SetVariantStatus, vars

LEMMA BatchInit ==
    ASSUME Init
    PROVE  BatchStands /\ JobsHoldUnits
BY DEF Init, BatchStands, Found, JobsHoldUnits, Open, Idle

(* A locked unit is of the batch.                                           *)
LEMMA LockedInBatch ==
    ASSUME TypeOK, BatchStands, NEW r \in Requests, NEW u \in req[r].locked
    PROVE  /\ req[r].op = "adjust" => IsAdjustment(status[u], req[r].to)
           /\ req[r].op = "startAssembly" => status[u] = CKD
           /\ req[r].op = "startUpgrade" => status[u] = SKD
           /\ req[r].op \in CloseOps => req[r].job \in Open(u)
           /\ req[r].op = "cancel" => req[r].to = CancelTarget(u, req[r].job)
<1>1. PICK i \in DOMAIN req[r].batch : req[r].batch[i] = u
  BY DEF BatchStands
<1>2. QED
  BY <1>1 DEF BatchStands, Found

(* Served one request at a time, an outcome once recorded never changes,    *)
(* pushed status fields included.                                           *)
THEOREM OutcomesStand ==
    ASSUME UnitsAssumption, \A p, q \in Requests : p = q
    PROVE  Spec => OutcomesAreFinal
<1> DEFINE Kept == \A u \in Units : \A n \in DOMAIN jobs[u] \ Open(u) : jobs'[u][n] = jobs[u][n]
<1>1. Init => BatchStands
  BY BatchInit
<1>2. TypeOK /\ BatchStands /\ [Next]_vars => BatchStands'
  BY BatchStep
<1>3. TypeOK /\ ReadBeforeWrite /\ BatchStands /\ [Next]_vars => [Kept]_vars
  <2> SUFFICES ASSUME TypeOK, ReadBeforeWrite, BatchStands, [Next]_vars,
                      NEW u \in Units, NEW n \in DOMAIN jobs[u] \ Open(u)
               PROVE  jobs'[u][n] = jobs[u][n]
    OBVIOUS
  <2>1. ASSUME NEW r \in Requests, Commit(r) PROVE jobs'[u][n] = jobs[u][n]
    <3>1. CASE u \notin req[r].locked
      BY <2>1, <3>1 DEF Commit
    <3>2. CASE u \in req[r].locked
      <4>1. jobs'[u] = JobsAfter(r, u) /\ jobs[u] \in Seq(Job)
        BY <2>1, <3>2 DEF Commit, TypeOK
      <4>2. CASE req[r].op \in CloseOps
        <5>1. n # req[r].job
          BY <3>2, <4>2, LockedInBatch
        <5>2. jobs'[u] = [jobs[u] EXCEPT ![req[r].job].status = ClosedStatus(req[r].op)]
          BY <4>1, <4>2 DEF JobsAfter, CloseOps
        <5>3. QED
          BY <4>1, <5>1, <5>2
      <4>3. CASE req[r].op \in StartOps
        <5>1. \E j : jobs'[u] = Append(jobs[u], j)
          BY <4>1, <4>3 DEF JobsAfter, StartOps, CloseOps
        <5>2. n \in 1 .. Len(jobs[u])
          BY <4>1
        <5>3. QED
          BY <4>1, <5>1, <5>2
      <4>4. CASE req[r].op \notin StartOps \cup CloseOps
        BY <4>1, <4>4 DEF JobsAfter, StartOps, CloseOps
      <4>5. QED
        BY <4>2, <4>3, <4>4
    <3>3. QED
      BY <3>1, <3>2
  <2>2. QED
    BY <2>1, RowsChangeInCommits
<1>4. QED
  BY <1>1, <1>2, <1>3, TypeCorrect, PTL DEF Spec, OutcomesAreFinal

(* Closing the only open job leaves none open.                              *)
LEMMA CloseOnly ==
    ASSUME NEW s \in Seq(Job), NEW m \in DOMAIN s, NEW c \in JobStatus \ {"IN_PROGRESS"},
           \A n \in DOMAIN s : s[n].status = "IN_PROGRESS" => n = m
    PROVE  \A n \in DOMAIN s : [s EXCEPT ![m].status = c][n].status # "IN_PROGRESS"
<1> SUFFICES ASSUME NEW n \in DOMAIN s
             PROVE  [s EXCEPT ![m].status = c][n].status # "IN_PROGRESS"
  OBVIOUS
<1>1. CASE n = m
  <2>1. [s EXCEPT ![m].status = c][n] = [s[n] EXCEPT !.status = c]
    BY <1>1
  <2>2. s[n] \in Job
    OBVIOUS
  <2>3. QED
    BY <2>1, <2>2 DEF Job
<1>2. CASE n # m
  BY <1>2
<1>3. QED
  BY <1>1, <1>2

LEMMA SourceFacts ==
    /\ \A to : ~IsAdjustment(InAssembly, to)
    /\ CKD # InAssembly /\ SKD # InAssembly
BY DEF IsAdjustment, AdjustmentEdges, Warehoused, Assembled, InTransit, CKD, SKD, CBU,
       InRepair, InAssembly

(* What a commit does to a unit it has locked, jobs and source included.    *)
LEMMA CommitHolds ==
    ASSUME UnitsAssumption, TypeOK, ReadBeforeWrite, NoPush, ReadsAreCurrent, BatchStands,
           OneOpenJob, JobsHoldUnits, NEW r \in Requests, Commit(r), NEW u \in req[r].locked
    PROVE  \/ req[r].op = "adjust" /\ Open(u) = {} /\ Open(u)' = {}
           \/ /\ req[r].op \in StartOps /\ Open(u) = {}
              /\ status'[u] = InAssembly
              /\ \A n \in Open(u)' : lastMove'[u].from = CancelTarget(u, n)'
           \/ /\ req[r].op \in CloseOps /\ Open(u) = {req[r].job} /\ Open(u)' = {}
              /\ jobs'[u][req[r].job].status = ClosedStatus(req[r].op)
              /\ status'[u] = req[r].to
<1>1. /\ u \in Units /\ req[r] \in Request
      /\ req[r].read[u] = status[u]
      /\ status'[u] = req[r].to /\ lastMove'[u].from = status[u]
      /\ jobs'[u] = JobsAfter(r, u) /\ jobs[u] \in Seq(Job)
  BY CommitLocked DEF Commit, MovementOf, ReadsAreCurrent, TypeOK
<1>2. CASE req[r].op = "adjust"
  <2>1. Open(u) = {}
    BY <1>1, <1>2, LockedInBatch, SourceFacts DEF JobsHoldUnits
  <2>2. Open(u)' = {}
    BY <1>1, <1>2, <2>1, CommitOpen DEF StartOps
  <2>3. QED
    BY <1>2, <2>1, <2>2
<1>3. CASE req[r].op \in StartOps
  <2>1. Open(u) = {}
    BY <1>1, <1>3, LockedInBatch, SourceFacts DEF JobsHoldUnits, StartOps
  <2>2. Open(u)' = {Len(jobs[u]) + 1}
    BY <1>1, <1>3, <2>1, CommitOpen
  <2>3. status'[u] = InAssembly
    BY <1>1, <1>3 DEF ReadBeforeWrite, Directed, NoPush
  <2>4. jobs'[u][Len(jobs[u]) + 1].type = IF status[u] = SKD THEN "SKD_TO_CBU" ELSE "CKD_TO_ASSEMBLED"
    <3>1. CASE req[r].op = "startAssembly"
      <4>1. jobs'[u] = Append(jobs[u], [type |-> "CKD_TO_ASSEMBLED", status |-> "IN_PROGRESS"])
        BY <1>1, <3>1 DEF JobsAfter, CloseOps
      <4>2. status[u] = CKD /\ CKD # SKD
        BY <3>1, LockedInBatch DEF CKD, SKD
      <4>3. QED
        BY <1>1, <4>1, <4>2
    <3>2. CASE req[r].op = "startUpgrade"
      <4>1. jobs'[u] = Append(jobs[u], [type |-> "SKD_TO_CBU", status |-> "IN_PROGRESS"])
        BY <1>1, <3>2 DEF JobsAfter, CloseOps
      <4>2. status[u] = SKD
        BY <3>2, LockedInBatch
      <4>3. QED
        BY <1>1, <4>1, <4>2
    <3>3. QED
      BY <1>3, <3>1, <3>2 DEF StartOps
  <2>5. status[u] \in {CKD, SKD}
    BY <1>3, LockedInBatch DEF StartOps
  <2>6. \A n \in Open(u)' : CancelTarget(u, n)' = status[u]
    <3> DEFINE last == Len(jobs[u]) + 1
    <3>1. CASE status[u] = SKD
      <4>1. jobs'[u][last].type = "SKD_TO_CBU"
        BY <2>4, <3>1
      <4>2. QED
        BY <2>2, <3>1, <4>1 DEF CancelTarget
    <3>2. CASE status[u] # SKD
      <4>1. jobs'[u][last].type # "SKD_TO_CBU"
        BY <2>4, <3>2
      <4>2. QED
        BY <2>2, <2>5, <3>2, <4>1 DEF CancelTarget
    <3>3. QED
      BY <3>1, <3>2
  <2>7. QED
    BY <1>1, <1>3, <2>1, <2>2, <2>3, <2>6
<1>4. CASE req[r].op \in CloseOps
  <2>1. req[r].job \in Open(u) /\ Open(u) = {req[r].job}
    BY <1>1, <1>4, LockedInBatch DEF OneOpenJob
  <2>2. ClosedStatus(req[r].op) \in JobStatus \ {"IN_PROGRESS"}
    BY DEF ClosedStatus, JobStatus
  <2>3. jobs'[u] = [jobs[u] EXCEPT ![req[r].job].status = ClosedStatus(req[r].op)]
    BY <1>1, <1>4 DEF JobsAfter, CloseOps
  <2>4. \A n \in DOMAIN jobs[u] : jobs[u][n].status = "IN_PROGRESS" => n = req[r].job
    BY <2>1 DEF Open
  <2>5. req[r].job \in DOMAIN jobs[u]
    BY <2>1 DEF Open
  <2>6. \A n \in DOMAIN jobs'[u] : jobs'[u][n].status # "IN_PROGRESS"
    BY <1>1, <2>2, <2>3, <2>4, <2>5, CloseOnly
  <2>7. Open(u)' = {}
    BY <2>6 DEF Open
  <2>8. jobs'[u][req[r].job].status = ClosedStatus(req[r].op)
    <3>1. jobs'[u][req[r].job] = [jobs[u][req[r].job] EXCEPT !.status = ClosedStatus(req[r].op)]
      BY <1>1, <2>3, <2>5
    <3>2. jobs[u][req[r].job] \in Job
      BY <1>1, <2>5
    <3>3. QED
      BY <3>1, <3>2 DEF Job
  <2>9. QED
    BY <1>1, <1>4, <2>1, <2>7, <2>8
<1>5. QED
  BY <1>1, <1>2, <1>3, <1>4 DEF Request, Ops, StartOps, CloseOps, NoPush

LEMMA HoldsStep ==
    ASSUME UnitsAssumption, TypeOK, ReadBeforeWrite, NoPush, ReadsAreCurrent, BatchStands,
           OneOpenJob, JobsHoldUnits, [Next]_vars
    PROVE  JobsHoldUnits'
<1>1. CASE UNCHANGED <<status, lastMove, jobs>>
  BY <1>1 DEF JobsHoldUnits, Open, CancelTarget
<1>2. ASSUME NEW r \in Requests, Commit(r), NEW u \in Units, NEW n \in Open(u)'
      PROVE  status'[u] = InAssembly /\ lastMove'[u].from = CancelTarget(u, n)'
  <2>1. CASE u \in req[r].locked
    BY <1>2, <2>1, CommitHolds
  <2>2. CASE u \notin req[r].locked
    <3>1. jobs'[u] = jobs[u] /\ status'[u] = status[u] /\ lastMove'[u] = lastMove[u]
      BY <1>2, <2>2 DEF Commit
    <3>2. n \in Open(u) /\ CancelTarget(u, n)' = CancelTarget(u, n)
      BY <1>2, <3>1 DEF Open, CancelTarget
    <3>3. QED
      BY <3>1, <3>2 DEF JobsHoldUnits
  <2>3. QED
    BY <2>1, <2>2
<1>3. QED
  BY <1>1, <1>2, RowsChangeInCommits DEF JobsHoldUnits

LEMMA SerialJobs ==
    ASSUME UnitsAssumption, \A p, q \in Requests : p = q, "syncStatus" \notin Endpoints
    PROVE  Spec => [](ReadsAreCurrent /\ BatchStands /\ JobsHoldUnits)
<1>1. Init => ReadsAreCurrent /\ BatchStands /\ JobsHoldUnits
  <2>1. Init => ReadsAreCurrent
    BY DEF Init, ReadsAreCurrent, Seen, Idle, Nothing
  <2>2. QED
    BY <2>1, BatchInit
<1>2. TypeOK /\ ReadBeforeWrite /\ NoPush /\ OneOpenJob /\ ReadsAreCurrent /\ BatchStands
      /\ JobsHoldUnits /\ [Next]_vars => (ReadsAreCurrent /\ BatchStands /\ JobsHoldUnits)'
  BY CurrentStep, BatchStep, HoldsStep
<1>3. QED
  BY <1>1, <1>2, TypeCorrect, NoPushHolds, OneOpenJobAtATime, PTL DEF Spec

(* Served one request at a time and with no status fields pushed, a unit    *)
(* with a job in progress stays in assembly until the job is closed.        *)
THEOREM JobsKeepTheirUnits ==
    ASSUME UnitsAssumption, \A p, q \in Requests : p = q, "syncStatus" \notin Endpoints
    PROVE  Spec => []OpenJobHoldsUnit
<1>1. JobsHoldUnits => OpenJobHoldsUnit
  BY DEF JobsHoldUnits, OpenJobHoldsUnit
<1>2. QED
  BY <1>1, SerialJobs, PTL

(* Under the same conditions, a cancelled job puts its unit back where it   *)
(* was taken from: the movement the job began with says where.              *)
THEOREM CancelPutsBack ==
    ASSUME UnitsAssumption, \A p, q \in Requests : p = q, "syncStatus" \notin Endpoints
    PROVE  Spec => CancelRestoresSource
<1> DEFINE Restored == \A u \in Units : \A n \in Open(u) :
                          jobs'[u][n].status = "CANCELLED" => status'[u] = lastMove[u].from
<1>1. TypeOK /\ ReadBeforeWrite /\ NoPush /\ OneOpenJob /\ ReadsAreCurrent /\ BatchStands
      /\ JobsHoldUnits /\ [Next]_vars => [Restored]_vars
  <2> SUFFICES ASSUME TypeOK, ReadBeforeWrite, NoPush, OneOpenJob, ReadsAreCurrent,
                      BatchStands, JobsHoldUnits, [Next]_vars, NEW u \in Units,
                      NEW n \in Open(u), jobs'[u][n].status = "CANCELLED"
               PROVE  status'[u] = lastMove[u].from
    OBVIOUS
  <2>1. jobs'[u] # jobs[u]
    BY DEF Open
  <2>2. PICK r \in Requests : Commit(r)
    BY <2>1, RowsChangeInCommits
  <2>3. u \in req[r].locked
    BY <2>1, <2>2 DEF Commit
  <2>4. /\ req[r].op \in CloseOps /\ n = req[r].job /\ status'[u] = req[r].to
        /\ ClosedStatus(req[r].op) = "CANCELLED"
    BY <2>2, <2>3, CommitHolds
  <2>5. req[r].op = "cancel"
    BY <2>4 DEF CloseOps, ClosedStatus
  <2>6. QED
    BY <2>3, <2>4, <2>5, LockedInBatch DEF JobsHoldUnits
<1>2. QED
  BY <1>1, SerialJobs, TypeCorrect, NoPushHolds, OneOpenJobAtATime, PTL
  DEF Spec, CancelRestoresSource
=============================================================================
