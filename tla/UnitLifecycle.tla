----------------------------- MODULE UnitLifecycle -----------------------------
(***************************************************************************)
(* The warehouse side of a unit's life: IT-admin adjustments, assembly     *)
(* jobs and status fields pushed by the sync intake.  Every status change  *)
(* goes through transitionUnit, which reads the unit without a row lock,   *)
(* asserts the edge, updates the row and inserts the movement in the       *)
(* caller's transaction.                                                   *)
(*                                                                         *)
(* Requests are served concurrently by one or more backend processes on a  *)
(* READ COMMITTED database.  A request first validates outside a           *)
(* transaction (the actions named after the endpoints), then runs its      *)
(* transaction: for each unit of its batch, in order, a read (ReadUnit)    *)
(* and a row update (LockUnit), and last the commit.  A row update is      *)
(* buffered until the commit and holds the row lock until then, as in      *)
(* PostgreSQL; reads never wait.                                           *)
(*                                                                         *)
(* Source: src/src/units/{transition-unit,units.service}.ts,               *)
(* src/src/assembly/assembly.service.ts, src/src/sync/apply-entity-field.ts*)
(***************************************************************************)
EXTENDS UnitStates, Naturals, Sequences

CONSTANTS
    Units,
    Variants,
    VariantOf,        \* the product variant of each unit
    ThreeWheelers,    \* the variants whose productType is THREE_WHEELER
    Requests,         \* the requests the backend can be serving at one time
    Endpoints,        \* the operations clients call
    Targets,          \* bound: statuses adjust and sync requests ask for
    MaxBatch,         \* bound: units of one start request
    MaxJobs           \* bound: assembly jobs per unit

Ops == {"adjust", "startAssembly", "startUpgrade", "complete", "fail", "cancel", "syncStatus"}
StartOps == {"startAssembly", "startUpgrade"}
CloseOps == {"complete", "fail", "cancel"}

ASSUME UnitsAssumption ==
    /\ VariantOf \in [Units -> Variants]
    /\ ThreeWheelers \subseteq Variants
    /\ Endpoints \subseteq Ops
    /\ Targets \subseteq UnitStatus
    /\ MaxBatch \in Nat
    /\ MaxJobs \in Nat

VARIABLES
    status,          \* Unit.status
    lastMove,        \* the unit's newest StockMovement row
    jobs,            \* the unit's AssemblyJob rows, oldest first
    discontinued,    \* the variants whose status is DISCONTINUED
    req              \* what each request has read and locked so far

vars == <<status, lastMove, jobs, discontinued, req>>

JobType == {"CKD_TO_ASSEMBLED", "SKD_TO_CBU"}
JobStatus == {"IN_PROGRESS", "COMPLETED", "FAILED", "CANCELLED"}
Job == [type : JobType, status : JobStatus]

Nothing == [u \in Units |-> NoState]

(* A request: the units it moves, in order, to which status and with which  *)
(* movement type; the job it closes; the status transitionUnit read for     *)
(* each unit (NoState: not yet) and the units whose row it has updated.     *)
Idle == [op |-> "idle", batch |-> <<>>, to |-> NoState, mtype |-> NoState,
         job |-> 0, read |-> Nothing, locked |-> {}]

Request == [op : Ops, batch : Seq(Units), to : UnitStatus, mtype : MovementType,
            job : Nat, read : [Units -> UnitStatus \cup {NoState}], locked : SUBSET Units]

TypeOK ==
    /\ status \in [Units -> UnitStatus]
    /\ lastMove \in [Units -> Movement]
    /\ jobs \in [Units -> Seq(Job)]
    /\ discontinued \in SUBSET Variants
    /\ req \in [Requests -> Request \cup {Idle}]

(* Receipt and the bulk historical load create every unit as a kit.         *)
Init ==
    /\ status = [u \in Units |-> CKD]
    /\ lastMove = [u \in Units |-> [type |-> "RECEIPT", from |-> NoState, to |-> CKD]]
    /\ jobs = [u \in Units |-> <<>>]
    /\ discontinued = {}
    /\ req = [r \in Requests |-> Idle]

Open(u) == {n \in DOMAIN jobs[u] : jobs[u][n].status = "IN_PROGRESS"}

-------------------------------------------------------------------------------
(* Validation outside the transaction.                                      *)

Validated(r, op, batch, to, mtype, n) ==
    /\ req[r] = Idle
    /\ op \in Endpoints
    /\ req' = [req EXCEPT ![r] = [op |-> op, batch |-> batch, to |-> to, mtype |-> mtype,
                                  job |-> n, read |-> Nothing, locked |-> {}]]
    /\ UNCHANGED <<status, lastMove, jobs, discontinued>>

(* The movement type is fixed here, from the status read here.              *)
Adjust(r, u, to) ==
    /\ CanTransition(status[u], to)
    /\ IsAdjustment(status[u], to)
    /\ Validated(r, "adjust", <<u>>, to, AdjustmentMovement(status[u], to), 0)

(* A batch names each unit once (resolveUnits) and only kits.               *)
StartAssembly(r, batch) ==
    /\ \A i \in DOMAIN batch : /\ status[batch[i]] = CKD
                               /\ VariantOf[batch[i]] \notin discontinued
                               /\ Len(jobs[batch[i]]) < MaxJobs
    /\ Validated(r, "startAssembly", batch, InAssembly, "ASSEMBLY_START", 0)

StartUpgrade(r, u) ==
    /\ status[u] = SKD
    /\ VariantOf[u] \in ThreeWheelers
    /\ VariantOf[u] \notin discontinued
    /\ Len(jobs[u]) < MaxJobs
    /\ Validated(r, "startUpgrade", <<u>>, InAssembly, "ASSEMBLY_START", 0)

(* loadInProgressJob answers 409 unless the job is IN_PROGRESS.             *)
(* Mutated form: any job of the unit can be closed.                         *)
LoadAnyJob(u, n) == n \in DOMAIN jobs[u]
LoadInProgressJob(u, n) == n \in Open(u)

(* Where closing job n of unit u sends the unit, and how the move is typed. *)
CompletionTarget(u, n) ==
    IF jobs[u][n].type = "SKD_TO_CBU" \/ VariantOf[u] \notin ThreeWheelers THEN CBU ELSE SKD

(* Mutated form: the job type is not consulted.                             *)
CancelToKit(u, n) == CKD
CancelTarget(u, n) == IF jobs[u][n].type = "SKD_TO_CBU" THEN SKD ELSE CKD

CompleteJob(r, u, n) ==
    /\ LoadInProgressJob(u, n)
    /\ Validated(r, "complete", <<u>>, CompletionTarget(u, n), "ASSEMBLY_COMPLETE", n)

FailJob(r, u, n) ==
    /\ LoadInProgressJob(u, n)
    /\ Validated(r, "fail", <<u>>, "DAMAGED", "DAMAGE", n)

CancelJob(r, u, n) ==
    /\ LoadInProgressJob(u, n)
    /\ Validated(r, "cancel", <<u>>, CancelTarget(u, n), "ADJUSTMENT", n)

(* A pushed field that already has the wanted value is a no-op; otherwise   *)
(* the merge (or the resolver of a review item) applies any status at all.  *)
SyncStatus(r, u, to) ==
    /\ status[u] # to
    /\ Validated(r, "syncStatus", <<u>>, to, "ADJUSTMENT", 0)

-------------------------------------------------------------------------------
(* The transaction.                                                         *)

(* u is the unit of r's batch whose turn it is.                             *)
Turn(r, u) ==
    \E i \in DOMAIN req[r].batch :
        /\ req[r].batch[i] = u
        /\ u \notin req[r].locked
        /\ \A j \in 1 .. (i - 1) : req[r].batch[j] \in req[r].locked

Seen(r, u) == req[r].read[u] # NoState

(* A start inserts its job before it reads the unit, and the uncommitted    *)
(* row already occupies the partial unique index on IN_PROGRESS jobs.       *)
Inserted(r, u) == req[r].op \in StartOps /\ Seen(r, u)
(* Mutated form: no index, as before the SKD migration.                     *)
NoIndex(r, u) == {}
IndexHolders(r, u) == {q \in Requests \ {r} : Inserted(q, u)}
RowHolders(r, u) == {q \in Requests \ {r} : u \in req[q].locked}

(* assertUnitTransition on the status just read.                            *)
Asserted(r, u) == CanTransition(status[u], req[r].to)

ReadUnit(r, u) ==
    /\ Turn(r, u)
    /\ ~Seen(r, u)
    /\ Asserted(r, u)
    /\ req[r].op \in StartOps => Open(u) = {} /\ IndexHolders(r, u) = {}
    /\ req' = [req EXCEPT ![r].read[u] = status[u]]
    /\ UNCHANGED <<status, lastMove, jobs, discontinued>>

LockUnit(r, u) ==
    /\ Turn(r, u)
    /\ Seen(r, u)
    /\ RowHolders(r, u) = {}
    /\ req' = [req EXCEPT ![r].locked = @ \cup {u}]
    /\ UNCHANGED <<status, lastMove, jobs, discontinued>>

Finished(r) == req' = [req EXCEPT ![r] = Idle]

(* A 409 (illegal edge) or a unique violation: the transaction rolls back.  *)
Refuse(r, u) ==
    /\ Turn(r, u)
    /\ ~Seen(r, u)
    /\ \/ ~Asserted(r, u)
       \/ req[r].op \in StartOps /\ Open(u) # {}
    /\ Finished(r)
    /\ UNCHANGED <<status, lastMove, jobs, discontinued>>

ClosedStatus(op) ==
    CASE op = "complete" -> "COMPLETED" [] op = "fail" -> "FAILED" [] OTHER -> "CANCELLED"

(* Mutated form: a batch opens a job for its first unit only.               *)
OneJobPerBatch(r, u) ==
    IF u # req[r].batch[1] THEN jobs[u]
    ELSE IF req[r].op \in CloseOps
         THEN [jobs[u] EXCEPT ![req[r].job].status = ClosedStatus(req[r].op)]
         ELSE Append(jobs[u], [type |-> "CKD_TO_ASSEMBLED", status |-> "IN_PROGRESS"])

(* The unit's jobs after r's commit.                                        *)
JobsAfter(r, u) ==
    CASE req[r].op = "startAssembly" ->
            Append(jobs[u], [type |-> "CKD_TO_ASSEMBLED", status |-> "IN_PROGRESS"])
      [] req[r].op = "startUpgrade" ->
            Append(jobs[u], [type |-> "SKD_TO_CBU", status |-> "IN_PROGRESS"])
      [] req[r].op \in CloseOps ->
            [jobs[u] EXCEPT ![req[r].job].status = ClosedStatus(req[r].op)]
      [] OTHER -> jobs[u]

(* The movement r's commit inserts for u.                                   *)
(* Mutated form: the movement keeps the unit's earlier destination.         *)
StaleMovement(r, u) == [type |-> req[r].mtype, from |-> req[r].read[u], to |-> lastMove[u].to]
MovementOf(r, u) == [type |-> req[r].mtype, from |-> req[r].read[u], to |-> req[r].to]

Commit(r) ==
    /\ req[r] # Idle
    /\ \A i \in DOMAIN req[r].batch : req[r].batch[i] \in req[r].locked
    /\ status' = [u \in Units |-> IF u \in req[r].locked THEN req[r].to ELSE status[u]]
    /\ lastMove' = [u \in Units |->
            IF u \in req[r].locked THEN MovementOf(r, u) ELSE lastMove[u]]
    /\ jobs' = [u \in Units |-> IF u \in req[r].locked THEN JobsAfter(r, u) ELSE jobs[u]]
    /\ Finished(r)
    /\ UNCHANGED discontinued

(* The process dies or the interactive transaction times out before the     *)
(* commit: the database rolls back, the client gets no result.              *)
Lose(r) ==
    /\ req[r] # Idle
    /\ Finished(r)
    /\ UNCHANGED <<status, lastMove, jobs, discontinued>>

(* Requests waiting for each other in a circle: PostgreSQL aborts one.      *)
WaitsFor(r) ==
    UNION {IF Seen(r, u) THEN RowHolders(r, u)
           ELSE IF req[r].op \in StartOps THEN IndexHolders(r, u) ELSE {} :
           u \in {v \in Units : Turn(r, v)}}

Deadlocked(r) == \E C \in SUBSET Requests : r \in C /\ \A q \in C : WaitsFor(q) \cap C # {}

(* The error of the victim (P2034) reaches the client: nothing runs the     *)
(* transaction a second time.                                               *)
(* Mutated form: the victim's transaction is run again from its first unit. *)
RetryVictim(r) ==
    /\ Deadlocked(r)
    /\ req' = [req EXCEPT ![r].read = Nothing, ![r].locked = {}]
    /\ UNCHANGED <<status, lastMove, jobs, discontinued>>
AbortDeadlock(r) ==
    /\ Deadlocked(r)
    /\ Finished(r)
    /\ UNCHANGED <<status, lastMove, jobs, discontinued>>

(* ProductVariantsService.update flips the variant's status.                *)
SetVariantStatus(v) ==
    /\ discontinued' = IF v \in discontinued THEN discontinued \ {v} ELSE discontinued \cup {v}
    /\ UNCHANGED <<status, lastMove, jobs, req>>

-------------------------------------------------------------------------------
Batches ==
    {b \in UNION {[1 .. n -> Units] : n \in 1 .. MaxBatch} :
        \A i, j \in DOMAIN b : b[i] = b[j] => i = j}

Validate(r) ==
    \/ \E u \in Units, to \in Targets :
          Adjust(r, u, to) \/ SyncStatus(r, u, to)
    \/ \E batch \in Batches : StartAssembly(r, batch)
    \/ \E u \in Units : StartUpgrade(r, u)
    \/ \E u \in Units : \E n \in DOMAIN jobs[u] :
          CompleteJob(r, u, n) \/ FailJob(r, u, n) \/ CancelJob(r, u, n)

Transact(r) ==
    \/ \E u \in Units : ReadUnit(r, u) \/ LockUnit(r, u) \/ Refuse(r, u)
    \/ Commit(r)
    \/ AbortDeadlock(r)

Next ==
    \/ \E r \in Requests : Validate(r) \/ Transact(r) \/ Lose(r)
    \/ \E v \in Variants : SetVariantStatus(v)

Spec == Init /\ [][Next]_vars

(* The event loop keeps running what a request awaits, the deadlock         *)
(* detector runs, and row locks are granted in arrival order, so a request  *)
(* that can proceed again and again does.                                   *)
FairSpec == Spec /\ \A r \in Requests : SF_vars(Transact(r))

-------------------------------------------------------------------------------
(* Properties.                                                              *)

(* I-3, for any number of concurrent requests: the newest movement of a     *)
(* unit ends in the status the unit has, and records an edge of the state   *)
(* machine.  transitionUnit writes both rows in one transaction.            *)
LedgerAgrees ==
    \A u \in Units :
        /\ lastMove[u].to = status[u]
        /\ lastMove[u].from # NoState => CanTransition(lastMove[u].from, lastMove[u].to)

(* No adjustment edge leaves IN_ASSEMBLY, so a unit in assembly without an  *)
(* IN_PROGRESS job could never move again.  However requests interleave,    *)
(* start, complete, fail and cancel leave no unit so stranded.              *)
AssemblyHasOpenJob == \A u \in Units : status[u] = InAssembly => Open(u) # {}

(* The partial unique index assembly_jobs_unitId_in_progress_key keeps two  *)
(* concurrent starts from opening two jobs for one unit.                    *)
OneOpenJob == \A u \in Units : \A m, n \in Open(u) : m = n

(* An IN_PROGRESS job means its unit is on the assembly floor: nothing      *)
(* else takes a unit out of assembly while its job runs.                    *)
OpenJobHoldsUnit == \A u \in Units : Open(u) # {} => status[u] = InAssembly

(* A job leaves IN_PROGRESS once: loadInProgressJob lets nothing close a    *)
(* job a second time, so a recorded outcome never changes.                  *)
OutcomesAreFinal ==
    [][\A u \in Units : \A n \in DOMAIN jobs[u] \ Open(u) : jobs'[u][n] = jobs[u][n]]_vars

(* cancel puts the unit back where its assembly started from: a kit job     *)
(* reverts to CKD, an upgrade to SKD.                                       *)
CancelRestoresSource ==
    [][\A u \in Units : \A n \in Open(u) :
         jobs'[u][n].status = "CANCELLED" => status'[u] = lastMove[u].from]_vars

(* transitionUnit asserts every status change against the state machine and *)
(* the movement records exactly that change: the module implements the      *)
(* stock ledger.                                                            *)
Ledger == INSTANCE StockLedger WITH Units <- Units, status <- status, lastMove <- lastMove
ImplementsLedger == Ledger!Spec

(* A request in service ends, with a result, a refusal or as a deadlock's   *)
(* victim, even when two batches lock the same units in opposite orders.    *)
RequestsEnd == \A r \in Requests : req[r] # Idle ~> req[r] = Idle
=============================================================================
