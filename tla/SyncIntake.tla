------------------------------ MODULE SyncIntake ------------------------------
(***************************************************************************)
(* The intake of actions queued offline.  A device pushes its unacknowled- *)
(* ged actions as a batch and sends them again until it is answered.  The  *)
(* backend runs a batch in order; each action is looked up by its clientId,*)
(* done in a transaction of its own and only then recorded, so a crash may *)
(* fall between the two.  An ENTITY_UPDATE is merged field by field into   *)
(* the record; a collision on a high-stakes field waits for a supervisor.  *)
(*                                                                         *)
(* A push, an edit by the staff and a supervisor's decision each occupy    *)
(* one of Requests while they are served: one request is a backend that    *)
(* serves them one after the other.  The device is not part of this        *)
(* repository; it is modelled by what the comments of the intake expect.   *)
(*                                                                         *)
(* Source: src/src/sync/sync-{actions,idempotency,merge,conflicts}.*.ts    *)
(***************************************************************************)
EXTENDS UnitStates, Naturals, FiniteSets, Sequences, SequencesExt

CONSTANTS
    Devices, Actions,
    Outbox,           \* the actions each device queued, oldest first
    Changes,          \* the field changes of each action; none: another workflow's action
    Hopeless,         \* actions whose work always throws (payload, state, unique value)
    Fields, EntityOf, \* the fields of all records and the record each belongs to
    Reviewed,         \* the fields whose policy is REVIEW
    InitialValue,     \* the value of each field at first
    StaffEdits,       \* bound: <<field, value>> pairs the staff writes directly
    Requests,
    NoBase,           \* an oldValue that was left out
    MaxTime,          \* bound: the clock
    MaxFaults         \* bound: lost answers, transient failures and crashes

(* clientIds are unique: an action is queued on one device.                 *)
Queued(d, a) == \E i \in DOMAIN Outbox[d] : Outbox[d][i] = a

ASSUME IntakeAssumption ==
    /\ Outbox \in [Devices -> Seq(Actions)]
    /\ \A a \in Actions : \A d, e \in Devices : Queued(d, a) /\ Queued(e, a) => d = e
    /\ \A a \in Actions : IsFiniteSet(Changes[a])
    /\ \A a \in Actions : \A c \in Changes[a] : c.field \in Fields /\ c.stamp \in Nat

Entities == {EntityOf[f] : f \in Fields}
VARIABLES
    record,          \* the value of each field
    updatedAt,       \* the time of the last write to each record
    processed,       \* ProcessedSyncAction: the clientIds recorded
    reviews,         \* ConflictReviewItem rows, oldest first
    requests,        \* what each request is at
    clock, faults,
    acknowledged,    \* what the devices have learned: done with
    refused,         \*   ... or answered with an error at least once
    effects, doubts, \* history: how often an action's work committed, and
                     \*   how often that commit stayed unrecorded
    wroteAt,         \* history: when each field got its value
    taken            \* history: <<action, field>> whose value the field had

devicesVars == <<acknowledged, refused>>
history == <<effects, doubts, wroteAt, taken>>
intakeVars == <<record, updatedAt, processed, reviews, requests, clock, faults,
                devicesVars, history>>

Free == [phase |-> "free"]

IntakeInit ==
    /\ record = InitialValue
    /\ updatedAt = [e \in Entities |-> 0]
    /\ processed = {}
    /\ reviews = <<>>
    /\ requests = [r \in Requests |-> Free]
    /\ clock = 0
    /\ faults = 0
    /\ acknowledged = {}
    /\ refused = {}
    /\ effects = [a \in Actions |-> 0]
    /\ doubts = [a \in Actions |-> 0]
    /\ wroteAt = [f \in Fields |-> 0]
    /\ taken = {}

At(r, phase) == requests[r].phase = phase
Current(r) == Head(requests[r].batch)

-------------------------------------------------------------------------------
(* The device.  Its actions carry the time they were made at.               *)

Made(a) == \A c \in Changes[a] : c.stamp <= clock

(* The unacknowledged actions: their places in the outbox, in order.        *)
Pending(d) ==
    {i \in DOMAIN Outbox[d] : Outbox[d][i] \notin acknowledged /\ Made(Outbox[d][i])}
InOrder(S) ==
    {at \in [1 .. Cardinality(S) -> S] : \A i, j \in DOMAIN at : i < j => at[i] < at[j]}

(* One batch of a device is in service at a time: replay is sequential.     *)
Push(r, d) ==
    /\ At(r, "free")
    /\ \A q \in Requests : ~At(q, "free") /\ ~At(q, "resolve") => requests[q].device # d
    /\ Pending(d) # {}
    /\ \E at \in InOrder(Pending(d)) :
          requests' = [requests EXCEPT ![r] =
              [phase |-> "lookup", device |-> d, batch |-> [k \in DOMAIN at |-> Outbox[d][at[k]]],
               seen |-> record, seenAt |-> updatedAt, done |-> {}, failed |-> {}]]
    /\ UNCHANGED <<record, updatedAt, processed, reviews, clock, faults, devicesVars, history>>

Tick ==
    /\ clock < MaxTime
    /\ clock' = clock + 1
    /\ UNCHANGED <<record, updatedAt, processed, reviews, requests, faults, devicesVars, history>>

-------------------------------------------------------------------------------
(* processBatch and the idempotency service.                                *)

(* The request goes on with the next action of its batch.                   *)
Advance(r, answer) ==
    requests' = [requests EXCEPT ![r].batch = Tail(@), ![r].phase = "lookup",
                                 ![r][answer] = @ \cup {Current(r)}]

(* Mutated form: a replay is not recognised.                                *)
NeverReplayed(a) == FALSE
Replayed(a) == a \in processed

LookUp(r) ==
    /\ At(r, "lookup")
    /\ requests[r].batch # <<>>
    /\ IF Replayed(Current(r))
       THEN Advance(r, "done")
       ELSE requests' = [requests EXCEPT ![r].phase = "load"]
    /\ UNCHANGED <<record, updatedAt, processed, reviews, clock, faults, devicesVars, history>>

(* loadCurrent, outside the transaction that applies the changes.           *)
Load(r) ==
    /\ At(r, "load")
    /\ requests' = [requests EXCEPT ![r].phase = "apply", ![r].seen = record,
                                    ![r].seenAt = updatedAt]
    /\ UNCHANGED <<record, updatedAt, processed, reviews, clock, faults, devicesVars, history>>

Wanted(r) == {c \in Changes[Current(r)] : requests[r].seen[c.field] # c.new}
Collides(r, c) == c.base \notin {NoBase, requests[r].seen[c.field]}

(* Without a client timestamp the change counts as made now.                *)
(* Mutated form: a tie goes to the device.                                  *)
TiesWin(r, c) == c.stamp = 0 \/ c.stamp >= requests[r].seenAt[EntityOf[c.field]]
IncomingWins(r, c) == c.stamp = 0 \/ c.stamp > requests[r].seenAt[EntityOf[c.field]]

ToApply(r) ==
    {c \in Wanted(r) : ~Collides(r, c) \/ (c.field \notin Reviewed /\ IncomingWins(r, c))}

(* Mutated form: an unlisted field is settled by the server's value.        *)
NoReview(r) == {}
ToReview(r) == {c \in Wanted(r) : Collides(r, c) /\ c.field \in Reviewed}

(* applyEntityField: a status goes through transitionUnit and its state     *)
(* machine, any other field takes any value.                                *)
Applicable(f, v) == f = "status" => CanTransition(record[f], v)

Write(f, v) ==
    /\ record' = [record EXCEPT ![f] = v]
    /\ updatedAt' = [updatedAt EXCEPT ![EntityOf[f]] = clock]
    /\ wroteAt' = [wroteAt EXCEPT ![f] = clock]

Item(r, c) ==
    [action |-> Current(r), field |-> c.field, a |-> requests[r].seen[c.field],
     b |-> c.new, status |-> "OPEN"]

(* The transaction of the work: clean changes, last-write-wins changes and  *)
(* review items together; or the transaction of another workflow.           *)
WorkSucceeds(r) ==
    Current(r) \notin Hopeless /\ \A c \in ToApply(r) : Applicable(c.field, c.new)

ApplyWork(r) ==
    /\ At(r, "apply")
    /\ WorkSucceeds(r)
    /\ LET apply == ToApply(r)
           written == {c.field : c \in apply}
           valueOf(f) == (CHOOSE c \in apply : c.field = f).new
       IN  /\ record' = [f \in Fields |-> IF f \in written THEN valueOf(f) ELSE record[f]]
           /\ updatedAt' = [e \in Entities |->
                  IF \E f \in written : EntityOf[f] = e THEN clock ELSE updatedAt[e]]
           /\ wroteAt' = [f \in Fields |-> IF f \in written THEN clock ELSE wroteAt[f]]
           /\ taken' = taken \cup
                  {<<Current(r), c.field>> : c \in apply \cup (Changes[Current(r)] \ Wanted(r))}
           /\ reviews' = reviews \o SetToSeq({Item(r, c) : c \in ToReview(r)})
    /\ effects' = [effects EXCEPT ![Current(r)] = @ + 1]
    /\ requests' = [requests EXCEPT ![r].phase = "record"]
    /\ UNCHANGED <<processed, clock, faults, devicesVars, doubts>>

(* The work throws, always or for once: nothing is recorded, the action's   *)
(* own result is an error or a conflict, and the batch goes on.             *)
(* Mutated form: a failure ends the batch.                                  *)
StopBatch(r) == requests' = [requests EXCEPT ![r].batch = <<>>, ![r].phase = "lookup",
                                             ![r].failed = @ \cup {Current(r)}]
AfterFailure(r) == Advance(r, "failed")

FailWork(r) ==
    /\ At(r, "apply")
    /\ \/ ~WorkSucceeds(r) /\ UNCHANGED faults
       \/ WorkSucceeds(r) /\ faults < MaxFaults /\ faults' = faults + 1
    /\ AfterFailure(r)
    /\ UNCHANGED <<record, updatedAt, processed, reviews, clock, devicesVars, history>>

(* A clientId recorded meanwhile is answered as a duplicate: the device     *)
(* need not send it again either way.                                       *)
Record(r) ==
    /\ At(r, "record")
    /\ processed' = processed \cup {Current(r)}
    /\ Advance(r, "done")
    /\ UNCHANGED <<record, updatedAt, reviews, clock, faults, devicesVars, history>>

Respond(r) ==
    /\ At(r, "lookup")
    /\ requests[r].batch = <<>>
    /\ acknowledged' = acknowledged \cup requests[r].done
    /\ refused' = refused \cup requests[r].failed
    /\ requests' = [requests EXCEPT ![r] = Free]
    /\ UNCHANGED <<record, updatedAt, processed, reviews, clock, faults, history>>

(* The process dies or the answer is lost.  Between the work's commit and   *)
(* its record the effect is forgotten.                                      *)
Lose(r) ==
    /\ ~At(r, "free")
    /\ faults < MaxFaults
    /\ faults' = faults + 1
    /\ doubts' = IF At(r, "record") THEN [doubts EXCEPT ![Current(r)] = @ + 1] ELSE doubts
    /\ requests' = [requests EXCEPT ![r] = Free]
    /\ UNCHANGED <<record, updatedAt, processed, reviews, clock, devicesVars, effects, wroteAt, taken>>

-------------------------------------------------------------------------------
(* Writes that do not come from a device.                                   *)

(* CustomersService.update, UnitsService.adjust: one request, one write.    *)
StaffEdit(r, f, v) ==
    /\ At(r, "free")
    /\ record[f] # v
    /\ Applicable(f, v)
    /\ Write(f, v)
    /\ UNCHANGED <<processed, reviews, requests, clock, faults, devicesVars, effects, doubts, taken>>

(* SyncConflictsService.resolve: the item is read and must be OPEN.         *)
BeginResolve(r, i, v) ==
    /\ At(r, "free")
    /\ reviews[i].status = "OPEN"
    /\ requests' = [requests EXCEPT ![r] = [phase |-> "resolve", item |-> i, value |-> v]]
    /\ UNCHANGED <<record, updatedAt, processed, reviews, clock, faults, devicesVars, history>>

CommitResolve(r) ==
    /\ At(r, "resolve")
    /\ LET i == requests[r].item
       IN  /\ Applicable(reviews[i].field, requests[r].value)
           /\ Write(reviews[i].field, requests[r].value)
           /\ reviews' = [reviews EXCEPT ![i].status = "RESOLVED"]
    /\ requests' = [requests EXCEPT ![r] = Free]
    /\ UNCHANGED <<processed, clock, faults, devicesVars, effects, doubts, taken>>

RefuseResolve(r) ==
    /\ At(r, "resolve")
    /\ ~Applicable(reviews[requests[r].item].field, requests[r].value)
    /\ requests' = [requests EXCEPT ![r] = Free]
    /\ UNCHANGED <<record, updatedAt, processed, reviews, clock, faults, devicesVars, history>>

(* Version A, version B, or a merged value of the supervisor's own.         *)
Decisions(i) ==
    {reviews[i].a, reviews[i].b}
        \cup {e[2] : e \in {x \in StaffEdits : x[1] = reviews[i].field}}

-------------------------------------------------------------------------------
Serve(r) ==
    \/ LookUp(r) \/ Load(r) \/ ApplyWork(r) \/ FailWork(r) \/ Record(r) \/ Respond(r)
    \/ CommitResolve(r) \/ RefuseResolve(r)

IntakeNext ==
    \/ \E r \in Requests : Serve(r) \/ Lose(r)
    \/ \E r \in Requests, d \in Devices : Push(r, d)
    \/ \E r \in Requests, e \in StaffEdits : StaffEdit(r, e[1], e[2])
    \/ \E r \in Requests : \E i \in DOMAIN reviews :
          \E v \in Decisions(i) : BeginResolve(r, i, v)
    \/ Tick

IntakeSpec == IntakeInit /\ [][IntakeNext]_intakeVars

(* The backend goes on with what it serves, time passes, and a device that  *)
(* still has something to send gets through again and again.                *)
IntakeFairness ==
    /\ \A r \in Requests : WF_intakeVars(Serve(r))
    /\ \A d \in Devices : SF_intakeVars(\E r \in Requests : Push(r, d))
    /\ WF_intakeVars(Tick)

-------------------------------------------------------------------------------
(* Properties.                                                              *)

(* The promise of SyncIdempotencyService, with the crash its comment leaves *)
(* out: at most one effect more per crash between the work and its record,  *)
(* and no acknowledgement without an effect.                                *)
Delivery == INSTANCE ActionDelivery WITH
    Actions <- Actions, effects <- effects, doubts <- doubts, acknowledged <- acknowledged
ImplementsDelivery == Delivery!Spec

(* Last write wins: a pushed change that collides on a low-stakes field     *)
(* takes effect only if it was made after the value it replaces was         *)
(* written, although the merge compares with the time of the whole record.  *)
LaterWriteStands ==
    [][\A r \in Requests : At(r, "apply") =>
          \A c \in Changes[Current(r)] :
             (/\ record'[c.field] # record[c.field]
              /\ c.field \notin Reviewed
              /\ c.base \notin {NoBase, record[c.field]}
              /\ c.stamp # 0) => c.stamp > wroteAt[c.field]]_intakeVars

(* An acknowledged change of a high-stakes field was in the record or is in *)
(* the review queue, whatever was edited, lost and sent again in between.   *)
AcknowledgedIsAccountedFor ==
    \A a \in acknowledged : \A c \in Changes[a] :
        c.field \in Reviewed =>
            \/ <<a, c.field>> \in taken
            \/ \E i \in DOMAIN reviews :
                  reviews[i].action = a /\ reviews[i].field = c.field /\ reviews[i].b = c.new

(* Every queued action is answered: a failing action never keeps those      *)
(* behind it from being done, and lost answers are made good by replay.     *)
EveryActionIsAnswered == <>(Actions \subseteq acknowledged \cup refused)
=============================================================================
