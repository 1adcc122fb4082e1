------------------------------ MODULE SyncProofs ------------------------------
(***************************************************************************)
(* Offline work, for any devices, actions, merges and any number of        *)
(* requests in service, whatever crashes and is lost: the intake           *)
(* implements ActionDelivery, and no acknowledged change is forgotten.     *)
(* One request at a time, the later of two writes stands.  The pull keeps  *)
(* the mirror of a device current, for any rows and page size.             *)
(***************************************************************************)
EXTENDS SyncIntake, SyncPull, FiniteSetTheorems, FunctionTheorems, TLAPS

BatchFields == {"phase", "device", "batch", "seen", "seenAt", "done", "failed"}
Deciding == {"free", "resolve"}
Working == {"load", "apply", "record"}

(* A request that serves a batch works on its device's own actions.         *)
IsBatch(q) ==
    /\ q = [x \in BatchFields |-> q[x]]
    /\ q.phase \in {"lookup"} \cup Working
    /\ q.device \in Devices
    /\ q.batch \in Seq(Actions)
    /\ \A i \in DOMAIN q.batch : Queued(q.device, q.batch[i])
    /\ q.done \subseteq processed

IntakeTypes ==
    /\ requests = [r \in Requests |-> requests[r]]
    /\ processed \subseteq Actions
    /\ acknowledged \subseteq processed
    /\ effects \in [Actions -> Nat]
    /\ doubts \in [Actions -> Nat]
    /\ \A r \in Requests : requests[r].phase \in Deciding \/ IsBatch(requests[r])

OneBatchPerDevice ==
    \A r, s \in Requests :
        r # s /\ requests[r].phase \notin Deciding /\ requests[s].phase \notin Deciding
            => requests[r].device # requests[s].device

(* An action whose work is being done has not been recorded.                *)
WorkIsNew ==
    \A r \in Requests : requests[r].phase \in Working =>
        requests[r].batch # <<>> /\ Current(r) \notin processed

Unrecorded(a) == \E r \in Requests : requests[r].phase = "record" /\ Current(r) = a

(* An action has one effect that is not in doubt exactly while it is        *)
(* recorded, or about to be.                                                *)
EffectsCount ==
    \A a \in Actions :
        effects[a] = IF a \in processed \/ Unrecorded(a) THEN doubts[a] + 1 ELSE doubts[a]

IntakeInv == IntakeTypes /\ OneBatchPerDevice /\ WorkIsNew /\ EffectsCount

-------------------------------------------------------------------------------
LEMMA CurrentIsQueued ==
    ASSUME IntakeTypes, NEW r \in Requests, requests[r].phase \notin Deciding,
           requests[r].batch # <<>>
    PROVE  /\ Current(r) \in Actions /\ Queued(requests[r].device, Current(r))
           /\ requests[r].device \in Devices
           /\ Tail(requests[r].batch) \in Seq(Actions)
           /\ \A i \in DOMAIN Tail(requests[r].batch) :
                 Queued(requests[r].device, Tail(requests[r].batch)[i])
<1> DEFINE b == requests[r].batch
<1>1. b \in Seq(Actions) /\ \A i \in DOMAIN b : Queued(requests[r].device, b[i])
      /\ requests[r].device \in Devices
  BY DEF IntakeTypes, IsBatch
<1>2. Len(b) \in Nat /\ Len(b) # 0 /\ DOMAIN b = 1 .. Len(b) /\ b # <<>>
  BY <1>1
<1>3. Current(r) = b[1] /\ 1 \in DOMAIN b
  BY <1>1, <1>2 DEF Current
<1>4. Tail(b) \in Seq(Actions) /\ DOMAIN Tail(b) = 1 .. (Len(b) - 1)
  BY <1>1, <1>2
<1>5. \A i \in 1 .. (Len(b) - 1) : Tail(b)[i] = b[i + 1] /\ i + 1 \in DOMAIN b
  BY <1>1, <1>2
<1> QED
  BY <1>1, <1>3, <1>4, <1>5

(* Two requests never work on one action.                                   *)
LEMMA CurrentsDiffer ==
    ASSUME IntakeAssumption, IntakeInv, NEW r \in Requests, NEW s \in Requests \ {r},
           requests[r].phase \notin Deciding, requests[s].phase \notin Deciding,
           requests[r].batch # <<>>, requests[s].batch # <<>>
    PROVE  Current(r) # Current(s)
<1>1. Current(r) \in Actions /\ Queued(requests[r].device, Current(r)) /\ requests[r].device \in Devices
  BY CurrentIsQueued DEF IntakeInv
<1>2. Queued(requests[s].device, Current(s)) /\ requests[s].device \in Devices
  BY CurrentIsQueued DEF IntakeInv
<1> QED
  BY <1>1, <1>2 DEF IntakeInv, OneBatchPerDevice, IntakeAssumption

LEMMA IntakeInitInv == ASSUME IntakeInit PROVE IntakeInv
<1>1. \A r \in Requests : requests[r].phase = "free"
  BY DEF IntakeInit, Free
<1>2. IntakeTypes
  BY <1>1 DEF IntakeInit, IntakeTypes, Deciding
<1>3. OneBatchPerDevice /\ WorkIsNew
  BY <1>1 DEF OneBatchPerDevice, WorkIsNew, Deciding, Working
<1>4. EffectsCount
  BY <1>1 DEF IntakeInit, EffectsCount, Unrecorded
<1> QED
  BY <1>2, <1>3, <1>4 DEF IntakeInv

(* A step of one request, which becomes q, leaves the batches in order.     *)
LEMMA StructureInv ==
    ASSUME IntakeInv, NEW r \in Requests, NEW q,
           requests' = [requests EXCEPT ![r] = q],
           processed \subseteq processed', processed' \subseteq Actions,
           acknowledged' \subseteq processed',
           effects' \in [Actions -> Nat], doubts' \in [Actions -> Nat],
           q.phase \in Deciding \/ IsBatch(q)',
           q.phase \notin Deciding =>
              \A s \in Requests \ {r} :
                 requests[s].phase \notin Deciding => requests[s].device # q.device,
           q.phase \in Working => q.batch # <<>> /\ Head(q.batch) \notin processed',
           \A s \in Requests \ {r} :
              requests[s].phase \in Working => Current(s) \notin processed'
    PROVE  IntakeTypes' /\ OneBatchPerDevice' /\ WorkIsNew'
<1>1. \A s \in Requests : requests'[s] = IF s = r THEN q ELSE requests[s]
  BY DEF IntakeInv, IntakeTypes
<1>2. requests' = [s \in Requests |-> requests'[s]]
  BY DEF IntakeInv, IntakeTypes
<1>3. \A s \in Requests \ {r} : requests'[s].phase \in Deciding \/ IsBatch(requests[s])'
  BY <1>1 DEF IntakeInv, IntakeTypes, IsBatch
<1>4. IntakeTypes'
  BY <1>1, <1>2, <1>3 DEF IntakeTypes, IsBatch
<1>5. OneBatchPerDevice'
  BY <1>1 DEF IntakeInv, OneBatchPerDevice
<1>6. WorkIsNew'
  BY <1>1 DEF IntakeInv, WorkIsNew, Current
<1> QED
  BY <1>4, <1>5, <1>6

(* ... and the counts too, if it neither makes nor records an effect.       *)
LEMMA OneRequestInv ==
    ASSUME IntakeInv, NEW r \in Requests, NEW q,
           requests' = [requests EXCEPT ![r] = q],
           UNCHANGED <<processed, effects, doubts>>, acknowledged' \subseteq processed,
           requests[r].phase # "record", q.phase # "record",
           q.phase \in Deciding \/ IsBatch(q),
           q.phase \notin Deciding =>
              \A s \in Requests \ {r} :
                 requests[s].phase \notin Deciding => requests[s].device # q.device,
           q.phase \in Working => q.batch # <<>> /\ Head(q.batch) \notin processed
    PROVE  IntakeInv'
<1>1. \A s \in Requests : requests'[s] = IF s = r THEN q ELSE requests[s]
  BY DEF IntakeInv, IntakeTypes
<1>2. IsBatch(q)' <=> IsBatch(q)
  BY DEF IsBatch
<1>3. IntakeTypes' /\ OneBatchPerDevice' /\ WorkIsNew'
  <2>1. processed' \subseteq Actions /\ effects' \in [Actions -> Nat] /\ doubts' \in [Actions -> Nat]
    BY DEF IntakeInv, IntakeTypes
  <2>2. \A s \in Requests \ {r} : requests[s].phase \in Working => Current(s) \notin processed'
    BY DEF IntakeInv, WorkIsNew
  <2> QED
    BY <1>2, <2>1, <2>2, StructureInv
<1>4. \A a : Unrecorded(a)' <=> Unrecorded(a)
  BY <1>1 DEF Unrecorded, Current
<1>5. EffectsCount'
  BY <1>4 DEF IntakeInv, EffectsCount
<1> QED
  BY <1>3, <1>5 DEF IntakeInv

(* What Advance makes of a request.                                         *)
LEMMA Advanced ==
    ASSUME IntakeInv, NEW r \in Requests, requests[r].phase \notin Deciding,
           requests[r].batch # <<>>, NEW answer \in {"done", "failed"}, Advance(r, answer),
           processed \subseteq processed', answer = "done" => Current(r) \in processed'
    PROVE  \E q : /\ requests' = [requests EXCEPT ![r] = q]
                  /\ q.phase = "lookup" /\ q.device = requests[r].device
                  /\ IsBatch(q)'
<1> DEFINE w == requests[r]
<1>1. IsBatch(w) /\ requests = [s \in Requests |-> requests[s]]
  BY DEF IntakeInv, IntakeTypes
<1> DEFINE q0 == [x \in BatchFields |->
                    CASE x = "batch" -> Tail(w.batch)
                      [] x = "phase" -> "lookup"
                      [] x = answer  -> w[answer] \cup {Current(r)}
                      [] OTHER -> w[x]]
<1>2. requests' = [requests EXCEPT ![r] = q0]
  BY <1>1 DEF Advance, IsBatch, BatchFields
<1> PICK q : q = q0
  OBVIOUS
<1> HIDE DEF q0
<1>3. q = [x \in BatchFields |-> q[x]]
  BY DEF q0
<1>4. /\ q.phase = "lookup" /\ q.device = w.device /\ q.batch = Tail(w.batch)
      /\ q.done \subseteq w.done \cup {Current(r)}
      /\ answer # "done" => q.done = w.done
  BY DEF q0, BatchFields
<1>5. /\ q.device \in Devices /\ q.batch \in Seq(Actions)
      /\ \A i \in DOMAIN q.batch : Queued(q.device, q.batch[i])
  BY <1>4, CurrentIsQueued DEF IntakeInv
<1>6. q.done \subseteq processed'
  BY <1>1, <1>4 DEF IsBatch
<1>7. IsBatch(q)'
  BY <1>3, <1>4, <1>5, <1>6 DEF IsBatch, Queued
<1> QED
  BY <1>2, <1>4, <1>7 DEF q0

-------------------------------------------------------------------------------
(* One lemma per action.                                                    *)

LEMMA PushInv ==
    ASSUME IntakeAssumption, IntakeInv, NEW r \in Requests, NEW d \in Devices, Push(r, d)
    PROVE  IntakeInv'
<1>1. PICK at \in InOrder(Pending(d)) :
         requests' = [requests EXCEPT ![r] =
            [phase |-> "lookup", device |-> d, batch |-> [k \in DOMAIN at |-> Outbox[d][at[k]]],
             seen |-> record, seenAt |-> updatedAt, done |-> {}, failed |-> {}]]
  BY DEF Push
<1>2. Outbox[d] \in Seq(Actions) /\ DOMAIN Outbox[d] = 1 .. Len(Outbox[d]) /\ Len(Outbox[d]) \in Nat
  BY DEF IntakeAssumption
<1>3. Cardinality(Pending(d)) \in Nat
  <2>1. IsFiniteSet(1 .. Len(Outbox[d]))
    BY <1>2, FS_Interval
  <2>2. Pending(d) \subseteq 1 .. Len(Outbox[d])
    BY <1>2 DEF Pending
  <2> QED
    BY <2>1, <2>2, FS_Subset, FS_CardinalityType
<1>4. at \in [1 .. Cardinality(Pending(d)) -> Pending(d)] /\ Pending(d) \subseteq DOMAIN Outbox[d]
  BY DEF InOrder, Pending
<1> PICK b : b = [k \in DOMAIN at |-> Outbox[d][at[k]]]
  OBVIOUS
<1>5. b \in Seq(Actions) /\ \A i \in DOMAIN b : Queued(d, b[i])
  <2>1. b \in [1 .. Cardinality(Pending(d)) -> Actions]
    BY <1>2, <1>4
  <2>2. \A i \in DOMAIN b : Queued(d, b[i])
    BY <1>4 DEF Queued
  <2>3. b \in Seq(Actions)
    BY <1>3, <2>1
  <2> QED
    BY <2>2, <2>3
<1> PICK q : q = [phase |-> "lookup", device |-> d, batch |-> b, seen |-> record,
                  seenAt |-> updatedAt, done |-> {}, failed |-> {}]
  OBVIOUS
<1>6. requests' = [requests EXCEPT ![r] = q]
  BY <1>1
<1>7. q.phase = "lookup" /\ q.device = d
  OBVIOUS
<1>8. IsBatch(q)
  <2>1. q = [x \in BatchFields |-> q[x]]
    BY DEF BatchFields
  <2>2. q.batch = b /\ q.done = {}
    OBVIOUS
  <2> QED
    BY <1>5, <1>7, <2>1, <2>2 DEF IsBatch
<1>9. requests[r].phase = "free" /\ UNCHANGED <<processed, effects, doubts, acknowledged>>
  BY DEF Push, At, history, devicesVars
<1>10. \A s \in Requests \ {r} : requests[s].phase \notin Deciding => requests[s].device # d
  BY DEF Push, At, Deciding
<1>11. acknowledged' \subseteq processed
  BY <1>9 DEF IntakeInv, IntakeTypes
<1> QED
  BY <1>6, <1>7, <1>8, <1>9, <1>10, <1>11, OneRequestInv DEF Working, Deciding

LEMMA LookUpInv ==
    ASSUME IntakeAssumption, IntakeInv, NEW r \in Requests, LookUp(r)
    PROVE  IntakeInv'
<1> DEFINE w == requests[r]
<1>1. /\ w.phase = "lookup" /\ w.batch # <<>>
      /\ UNCHANGED <<processed, effects, doubts, acknowledged>>
  BY DEF LookUp, At, history, devicesVars
<1>2. IsBatch(w) /\ requests = [s \in Requests |-> requests[s]]
      /\ acknowledged' \subseteq processed /\ w.phase \notin Deciding
  BY <1>1 DEF IntakeInv, IntakeTypes, Deciding
<1>3. \A s \in Requests \ {r} : requests[s].phase \notin Deciding => requests[s].device # w.device
  BY <1>2 DEF IntakeInv, OneBatchPerDevice
<1>4. CASE Replayed(Current(r))
  <2>1. PICK q : /\ requests' = [requests EXCEPT ![r] = q]
                 /\ q.phase = "lookup" /\ q.device = w.device /\ IsBatch(q)'
    BY <1>1, <1>2, <1>4, Advanced DEF LookUp, Replayed
  <2>2. IsBatch(q)
    BY <1>1, <2>1 DEF IsBatch
  <2> QED
    BY <1>1, <1>2, <1>3, <2>1, <2>2, OneRequestInv DEF Working
<1>5. CASE ~Replayed(Current(r))
  <2>0. PICK q : q = [w EXCEPT !.phase = "load"]
    OBVIOUS
  <2>1. requests' = [requests EXCEPT ![r] = q]
    BY <1>2, <1>5, <2>0 DEF LookUp
  <2>2. q.phase = "load" /\ q.device = w.device /\ q.batch = w.batch /\ q.done = w.done
    BY <1>2, <2>0 DEF IsBatch, BatchFields
  <2>3. IsBatch(q)
    <3>1. q = [x \in BatchFields |-> q[x]]
      BY <1>2, <2>0 DEF IsBatch, BatchFields
    <3> QED
      BY <1>2, <2>2, <3>1 DEF IsBatch, Working
  <2>4. Head(q.batch) \notin processed /\ q.batch # <<>>
    BY <1>1, <1>5, <2>2 DEF Replayed, Current
  <2>5. \A s \in Requests \ {r} : requests[s].phase \notin Deciding => requests[s].device # q.device
    BY <1>3, <2>2
  <2>6. requests[r].phase # "record" /\ q.phase # "record"
    BY <1>1, <2>2
  <2> QED
    BY <1>1, <1>2, <2>1, <2>3, <2>4, <2>5, <2>6, OneRequestInv
<1> QED
  BY <1>4, <1>5

LEMMA LoadInv ==
    ASSUME IntakeAssumption, IntakeInv, NEW r \in Requests, Load(r)
    PROVE  IntakeInv'
<1> DEFINE w == requests[r]
<1>1. w.phase = "load" /\ UNCHANGED <<processed, effects, doubts, acknowledged>>
  BY DEF Load, At, history, devicesVars
<1>2. /\ IsBatch(w) /\ requests = [s \in Requests |-> requests[s]]
      /\ acknowledged' \subseteq processed /\ w.phase \notin Deciding
      /\ w.batch # <<>> /\ Head(w.batch) \notin processed
  BY <1>1 DEF IntakeInv, IntakeTypes, Deciding, WorkIsNew, Working, Current
<1>3. \A s \in Requests \ {r} : requests[s].phase \notin Deciding => requests[s].device # w.device
  BY <1>2 DEF IntakeInv, OneBatchPerDevice
<1>q. PICK q : q = [w EXCEPT !.phase = "apply", !.seen = record, !.seenAt = updatedAt]
  OBVIOUS
<1>4. requests' = [requests EXCEPT ![r] = q]
  BY <1>2, <1>q DEF Load
<1>5. q.phase = "apply" /\ q.device = w.device /\ q.batch = w.batch /\ q.done = w.done
  BY <1>2, <1>q DEF IsBatch, BatchFields
<1>6. IsBatch(q)
  <2>1. q = [x \in BatchFields |-> q[x]]
    BY <1>2, <1>q DEF IsBatch, BatchFields
  <2> QED
    BY <1>2, <1>5, <2>1 DEF IsBatch, Working
<1>7. \A s \in Requests \ {r} : requests[s].phase \notin Deciding => requests[s].device # q.device
  BY <1>3, <1>5
<1>8. /\ requests[r].phase # "record" /\ q.phase # "record"
      /\ q.batch # <<>> /\ Head(q.batch) \notin processed
  BY <1>1, <1>2, <1>5
<1> QED
  BY <1>1, <1>2, <1>4, <1>6, <1>7, <1>8, OneRequestInv

LEMMA FailWorkInv ==
    ASSUME IntakeAssumption, IntakeInv, NEW r \in Requests, FailWork(r)
    PROVE  IntakeInv'
<1> DEFINE w == requests[r]
<1>1. w.phase = "apply" /\ UNCHANGED <<processed, effects, doubts, acknowledged>>
  BY DEF FailWork, At, history, devicesVars
<1>2. /\ IsBatch(w) /\ acknowledged' \subseteq processed /\ w.phase \notin Deciding
      /\ w.batch # <<>>
  BY <1>1 DEF IntakeInv, IntakeTypes, Deciding, WorkIsNew, Working
<1>3. \A s \in Requests \ {r} : requests[s].phase \notin Deciding => requests[s].device # w.device
  BY <1>2 DEF IntakeInv, OneBatchPerDevice
<1>4. PICK q : /\ requests' = [requests EXCEPT ![r] = q]
               /\ q.phase = "lookup" /\ q.device = w.device /\ IsBatch(q)'
  BY <1>1, <1>2, Advanced DEF FailWork, AfterFailure
<1>5. IsBatch(q)
  BY <1>1, <1>4 DEF IsBatch
<1> QED
  BY <1>1, <1>2, <1>3, <1>4, <1>5, OneRequestInv DEF Working

(* A request that ends, with its answer or without, or that begins to       *)
(* resolve an item.                                                         *)
LEMMA DecidingInv ==
    ASSUME IntakeInv, NEW r \in Requests, NEW q, q.phase \in Deciding,
           requests[r].phase # "record", requests' = [requests EXCEPT ![r] = q],
           UNCHANGED <<processed, effects, doubts>>, acknowledged' \subseteq processed
    PROVE  IntakeInv'
<1>1. q.phase # "record" /\ q.phase \notin Working
  BY DEF Deciding, Working
<1> QED
  BY <1>1, OneRequestInv

LEMMA RespondInv ==
    ASSUME IntakeInv, NEW r \in Requests, Respond(r)
    PROVE  IntakeInv'
<1>1. requests[r].phase = "lookup" /\ UNCHANGED <<processed, effects, doubts>>
  BY DEF Respond, At, history
<1>2. acknowledged' \subseteq processed
  BY <1>1 DEF Respond, IntakeInv, IntakeTypes, IsBatch, Deciding
<1>3. requests' = [requests EXCEPT ![r] = Free] /\ Free.phase \in Deciding
  BY DEF Respond, Free, Deciding
<1>4. requests[r].phase # "record"
  BY <1>1
<1> QED
  BY <1>1, <1>2, <1>3, <1>4, DecidingInv

LEMMA ResolveInv ==
    ASSUME IntakeInv, NEW r \in Requests,
           \/ \E i, v : BeginResolve(r, i, v)
           \/ CommitResolve(r)
           \/ RefuseResolve(r)
    PROVE  IntakeInv'
<1>1. acknowledged \subseteq processed
  BY DEF IntakeInv, IntakeTypes
<1>2. ASSUME NEW i, NEW v, BeginResolve(r, i, v) PROVE IntakeInv'
  <2> PICK q : q = [phase |-> "resolve", item |-> i, value |-> v]
    OBVIOUS
  <2>1. /\ requests[r].phase # "record" /\ requests' = [requests EXCEPT ![r] = q]
        /\ UNCHANGED <<processed, effects, doubts, acknowledged>>
    BY <1>2 DEF BeginResolve, At, devicesVars, history
  <2>2. q.phase \in Deciding
    BY DEF Deciding
  <2> QED
    BY <1>1, <2>1, <2>2, DecidingInv
<1>3. ASSUME CommitResolve(r) \/ RefuseResolve(r) PROVE IntakeInv'
  <2>1. /\ requests[r].phase # "record" /\ requests' = [requests EXCEPT ![r] = Free]
        /\ UNCHANGED <<processed, effects, doubts, acknowledged>>
    BY <1>3 DEF CommitResolve, RefuseResolve, At, devicesVars, history
  <2>2. Free.phase \in Deciding
    BY DEF Free, Deciding
  <2> QED
    BY <1>1, <2>1, <2>2, DecidingInv
<1> QED
  BY <1>2, <1>3

LEMMA StandingInv ==
    ASSUME IntakeInv, UNCHANGED <<requests, processed, effects, doubts, acknowledged>>
    PROVE  IntakeInv'
<1>1. IntakeTypes'
  BY DEF IntakeInv, IntakeTypes, IsBatch
<1>2. OneBatchPerDevice' /\ WorkIsNew'
  BY DEF IntakeInv, OneBatchPerDevice, WorkIsNew, Current
<1>3. EffectsCount'
  BY DEF IntakeInv, EffectsCount, Unrecorded, Current
<1> QED
  BY <1>1, <1>2, <1>3 DEF IntakeInv

LEMMA ApplyWorkInv ==
    ASSUME IntakeAssumption, IntakeInv, NEW r \in Requests, ApplyWork(r)
    PROVE  /\ IntakeInv'
           /\ Current(r) \in Actions \ acknowledged
           /\ effects[Current(r)] <= doubts[Current(r)]
<1> DEFINE w == requests[r]
<1>1. w.phase = "apply" /\ UNCHANGED <<processed, doubts, acknowledged>>
  BY DEF ApplyWork, At, devicesVars
<1>2. /\ IsBatch(w) /\ requests = [s \in Requests |-> requests[s]]
      /\ w.phase \notin Deciding
      /\ w.batch # <<>> /\ Head(w.batch) \notin processed
      /\ acknowledged \subseteq processed
  BY <1>1 DEF IntakeInv, IntakeTypes, Deciding, WorkIsNew, Working, Current
<1>3. Current(r) \in Actions
  BY <1>2, CurrentIsQueued DEF IntakeInv
<1> PICK a : a = Current(r)
  OBVIOUS
<1>4. \A s \in Requests \ {r} : requests[s].phase \in Working => Current(s) # a
  <2> TAKE s \in Requests \ {r}
  <2> HAVE requests[s].phase \in Working
  <2>1. requests[s].phase \notin Deciding /\ requests[s].batch # <<>>
    BY DEF Deciding, Working, IntakeInv, WorkIsNew
  <2> QED
    BY <1>2, <2>1, CurrentsDiffer
<1>5. ~Unrecorded(a) /\ a \notin processed
  BY <1>1, <1>2, <1>4 DEF Unrecorded, Working, Current
<1>6. effects[a] = doubts[a] /\ doubts[a] \in Nat
  BY <1>3, <1>5 DEF IntakeInv, EffectsCount, IntakeTypes
<1>q. PICK q : q = [w EXCEPT !.phase = "record"]
  OBVIOUS
<1>7. requests' = [requests EXCEPT ![r] = q]
  BY <1>2, <1>q DEF ApplyWork
<1>8. q.phase = "record" /\ q.device = w.device /\ q.batch = w.batch /\ q.done = w.done
  BY <1>2, <1>q DEF IsBatch, BatchFields
<1>9. IsBatch(q)'
  <2>1. q = [x \in BatchFields |-> q[x]]
    BY <1>2, <1>q DEF IsBatch, BatchFields
  <2> QED
    BY <1>1, <1>2, <1>8, <2>1 DEF IsBatch, Working
<1>10. effects' = [effects EXCEPT ![a] = @ + 1]
  BY DEF ApplyWork
<1>11. IntakeTypes' /\ OneBatchPerDevice' /\ WorkIsNew'
  <2>1. /\ effects' \in [Actions -> Nat] /\ doubts' \in [Actions -> Nat]
        /\ processed \subseteq processed' /\ processed' \subseteq Actions
        /\ acknowledged' \subseteq processed'
    <3>1. /\ effects \in [Actions -> Nat] /\ doubts \in [Actions -> Nat]
          /\ processed \subseteq Actions /\ acknowledged \subseteq processed
      BY DEF IntakeInv, IntakeTypes
    <3>2. effects' \in [Actions -> Nat]
      BY <1>3, <1>10, <3>1
    <3> QED
      BY <1>1, <3>1, <3>2
  <2>2. \A s \in Requests \ {r} : requests[s].phase \notin Deciding => requests[s].device # q.device
    BY <1>2, <1>8 DEF IntakeInv, OneBatchPerDevice
  <2>3. \A s \in Requests \ {r} : requests[s].phase \in Working => Current(s) \notin processed'
    BY <1>1 DEF IntakeInv, WorkIsNew
  <2>4. q.batch # <<>> /\ Head(q.batch) \notin processed'
    BY <1>1, <1>2, <1>8
  <2> HIDE DEF w
  <2> QED
    BY <1>7, <1>9, <2>1, <2>2, <2>3, <2>4, StructureInv, Zenon
<1>12. \A s \in Requests : requests'[s] = IF s = r THEN q ELSE requests[s]
  BY <1>2, <1>7
<1>13. \A b : Unrecorded(b)' <=> Unrecorded(b) \/ b = a
  BY <1>1, <1>8, <1>12 DEF Unrecorded, Current
<1>14. EffectsCount'
  <2> SUFFICES ASSUME NEW b \in Actions
               PROVE  effects'[b] = IF b \in processed' \/ Unrecorded(b)'
                                    THEN doubts'[b] + 1 ELSE doubts'[b]
    BY DEF EffectsCount
  <2>1. CASE b = a
    BY <1>1, <1>3, <1>6, <1>10, <1>13, <2>1 DEF IntakeInv, IntakeTypes
  <2>2. CASE b # a
    BY <1>1, <1>10, <1>13, <2>2 DEF IntakeInv, EffectsCount, IntakeTypes
  <2> QED
    BY <2>1, <2>2
<1> QED
  BY <1>2, <1>3, <1>5, <1>6, <1>11, <1>14 DEF IntakeInv

LEMMA RecordInv ==
    ASSUME IntakeAssumption, IntakeInv, NEW r \in Requests, Record(r)
    PROVE  IntakeInv'
<1> DEFINE w == requests[r]
<1>1. w.phase = "record" /\ UNCHANGED <<effects, doubts, acknowledged>>
  BY DEF Record, At, devicesVars, history
<1>2. /\ requests = [s \in Requests |-> requests[s]] /\ w.phase \notin Deciding
      /\ w.batch # <<>> /\ acknowledged \subseteq processed
  BY <1>1 DEF IntakeInv, IntakeTypes, Deciding, WorkIsNew, Working
<1>3. Current(r) \in Actions
  BY <1>2, CurrentIsQueued DEF IntakeInv
<1> PICK a : a = Current(r)
  OBVIOUS
<1>4. \A s \in Requests \ {r} : requests[s].phase \in Working => Current(s) # a
  <2> TAKE s \in Requests \ {r}
  <2> HAVE requests[s].phase \in Working
  <2>1. requests[s].phase \notin Deciding /\ requests[s].batch # <<>>
    BY DEF Deciding, Working, IntakeInv, WorkIsNew
  <2> QED
    BY <1>2, <2>1, CurrentsDiffer
<1>5. processed' = processed \cup {a}
  BY DEF Record
<1>6. PICK q : /\ requests' = [requests EXCEPT ![r] = q]
               /\ q.phase = "lookup" /\ q.device = w.device /\ IsBatch(q)'
  BY <1>2, <1>5, Advanced DEF Record
<1>7. IntakeTypes' /\ OneBatchPerDevice' /\ WorkIsNew'
  <2>1. /\ effects' \in [Actions -> Nat] /\ doubts' \in [Actions -> Nat]
        /\ processed \subseteq processed' /\ processed' \subseteq Actions
        /\ acknowledged' \subseteq processed'
    BY <1>1, <1>3, <1>5 DEF IntakeInv, IntakeTypes
  <2>2. \A s \in Requests \ {r} : requests[s].phase \notin Deciding => requests[s].device # q.device
    BY <1>2, <1>6 DEF IntakeInv, OneBatchPerDevice
  <2>3. \A s \in Requests \ {r} : requests[s].phase \in Working => Current(s) \notin processed'
    BY <1>4, <1>5 DEF IntakeInv, WorkIsNew
  <2>4. q.phase \notin Working
    BY <1>6 DEF Working
  <2> QED
    BY <1>6, <2>1, <2>2, <2>3, <2>4, StructureInv
<1>8. \A s \in Requests : requests'[s] = IF s = r THEN q ELSE requests[s]
  BY <1>2, <1>6
<1>9. \A b : b \in processed' \/ Unrecorded(b)' <=> b \in processed \/ Unrecorded(b)
  BY <1>1, <1>5, <1>6, <1>8 DEF Unrecorded, Current
<1>10. EffectsCount'
  BY <1>1, <1>9 DEF IntakeInv, EffectsCount
<1> QED
  BY <1>7, <1>10 DEF IntakeInv

LEMMA LoseInv ==
    ASSUME IntakeAssumption, IntakeInv, NEW r \in Requests, Lose(r)
    PROVE  /\ IntakeInv'
           /\ requests[r].phase = "record" =>
                 /\ Current(r) \in Actions \ acknowledged
                 /\ effects[Current(r)] > doubts[Current(r)]
<1> DEFINE w == requests[r]
<1>1. requests' = [requests EXCEPT ![r] = Free] /\ UNCHANGED <<processed, effects, acknowledged>>
  BY DEF Lose, devicesVars
<1>2. requests = [s \in Requests |-> requests[s]] /\ acknowledged \subseteq processed
  BY DEF IntakeInv, IntakeTypes
<1>3. Free.phase = "free" /\ "free" \in Deciding /\ "free" \notin Working
  BY DEF Free, Deciding, Working
<1>4. CASE w.phase # "record"
  BY <1>1, <1>2, <1>3, <1>4, DecidingInv DEF Lose, At
<1>5. CASE w.phase = "record"
  <2>1. w.batch # <<>> /\ Current(r) \notin processed /\ w.phase \notin Deciding
    BY <1>5 DEF IntakeInv, WorkIsNew, Working, Deciding
  <2>2. Current(r) \in Actions
    BY <2>1, CurrentIsQueued DEF IntakeInv
  <2> PICK a : a = Current(r)
    OBVIOUS
  <2>3. effects[a] = doubts[a] + 1 /\ doubts[a] \in Nat
    BY <1>5, <2>2 DEF IntakeInv, EffectsCount, IntakeTypes, Unrecorded
  <2>4. \A s \in Requests \ {r} : requests[s].phase = "record" => Current(s) # a
    <3> TAKE s \in Requests \ {r}
    <3> HAVE requests[s].phase = "record"
    <3>1. requests[s].phase \notin Deciding /\ requests[s].batch # <<>>
      BY DEF Deciding, Working, IntakeInv, WorkIsNew
    <3> QED
      BY <2>1, <3>1, CurrentsDiffer
  <2>5. doubts' = [doubts EXCEPT ![a] = @ + 1]
    BY <1>5 DEF Lose, At
  <2>6. IntakeTypes' /\ OneBatchPerDevice' /\ WorkIsNew'
    <3>1. /\ effects' \in [Actions -> Nat] /\ doubts' \in [Actions -> Nat]
          /\ processed \subseteq processed' /\ processed' \subseteq Actions
          /\ acknowledged' \subseteq processed'
      <4>1. /\ effects \in [Actions -> Nat] /\ doubts \in [Actions -> Nat]
            /\ processed \subseteq Actions /\ acknowledged \subseteq processed
        BY DEF IntakeInv, IntakeTypes
      <4>2. doubts' \in [Actions -> Nat]
        BY <2>2, <2>5, <4>1
      <4> QED
        BY <1>1, <4>1, <4>2
    <3>2. \A s \in Requests \ {r} : requests[s].phase \in Working => Current(s) \notin processed'
      BY <1>1 DEF IntakeInv, WorkIsNew
    <3>3. Free.phase \in Deciding /\ Free.phase \notin Working
      BY <1>3
    <3> HIDE DEF w
    <3> QED
      BY <1>1, <3>1, <3>2, <3>3, StructureInv, Zenon
  <2>7. \A s \in Requests : requests'[s] = IF s = r THEN Free ELSE requests[s]
    BY <1>1, <1>2
  <2>8. \A b : Unrecorded(b)' <=> Unrecorded(b) /\ b # a
    BY <1>3, <1>5, <2>4, <2>7 DEF Unrecorded, Current
  <2>9. EffectsCount'
    <3> SUFFICES ASSUME NEW b \in Actions
                 PROVE  effects'[b] = IF b \in processed' \/ Unrecorded(b)'
                                      THEN doubts'[b] + 1 ELSE doubts'[b]
      BY DEF EffectsCount
    <3>1. CASE b = a
      BY <1>1, <2>1, <2>2, <2>3, <2>5, <2>8, <3>1 DEF IntakeInv, IntakeTypes
    <3>2. CASE b # a
      BY <1>1, <2>5, <2>8, <3>2 DEF IntakeInv, EffectsCount, IntakeTypes
    <3> QED
      BY <3>1, <3>2
  <2> QED
    BY <1>2, <2>1, <2>2, <2>3, <2>6, <2>9 DEF IntakeInv
<1> QED
  BY <1>4, <1>5

-------------------------------------------------------------------------------
(* The refinement.                                                          *)

ServeCase(r) ==
    LookUp(r) \/ Load(r) \/ FailWork(r) \/ RefuseResolve(r) \/ CommitResolve(r)

(* Every step of the intake is a step of ActionDelivery or none.            *)
LEMMA IntakeStep ==
    ASSUME IntakeAssumption, IntakeInv, [IntakeNext]_intakeVars
    PROVE  IntakeInv' /\ [Delivery!Next]_(Delivery!deliveryVars)
<1> USE DEF Delivery!deliveryVars
<1>1. CASE UNCHANGED intakeVars
  BY <1>1, StandingInv DEF intakeVars, devicesVars, history
<1>2. ASSUME NEW r \in Requests, NEW d \in Devices, Push(r, d)
      PROVE  IntakeInv' /\ UNCHANGED Delivery!deliveryVars
  BY <1>2, PushInv DEF Push, devicesVars, history
<1>3. ASSUME NEW r \in Requests, ServeCase(r)
      PROVE  IntakeInv' /\ UNCHANGED Delivery!deliveryVars
  <2>1. IntakeInv'
    BY <1>3, LookUpInv, LoadInv, FailWorkInv, ResolveInv DEF ServeCase
  <2>2. UNCHANGED <<effects, doubts, acknowledged>>
    BY <1>3 DEF ServeCase, LookUp, Load, FailWork, RefuseResolve, CommitResolve, devicesVars, history
  <2> QED
    BY <2>1, <2>2
<1>4. ASSUME NEW r \in Requests, ApplyWork(r)
      PROVE  IntakeInv' /\ Delivery!Next
  <2>1. IntakeInv' /\ Current(r) \in Actions
    BY <1>4, ApplyWorkInv
  <2>2. Delivery!TakeEffect(Current(r))
    BY <1>4, ApplyWorkInv DEF Delivery!TakeEffect, ApplyWork, devicesVars
  <2> QED
    BY <2>1, <2>2 DEF Delivery!Next
<1>5. ASSUME NEW r \in Requests, Record(r)
      PROVE  IntakeInv' /\ UNCHANGED Delivery!deliveryVars
  BY <1>5, RecordInv DEF Record, devicesVars, history
<1>6. ASSUME NEW r \in Requests, Respond(r)
      PROVE  IntakeInv' /\ Delivery!Next
  <2>1. requests[r].phase = "lookup"
    BY <1>6 DEF Respond, At
  <2>2. requests[r].done \subseteq processed /\ processed \subseteq Actions
    BY <2>1 DEF IntakeInv, IntakeTypes, IsBatch, Deciding
  <2>3. \A a \in processed : effects[a] > doubts[a]
    BY DEF IntakeInv, IntakeTypes, EffectsCount
  <2>4. Delivery!Acknowledge(requests[r].done)
    BY <1>6, <2>2, <2>3 DEF Respond, Delivery!Acknowledge, history
  <2> QED
    BY <1>6, <2>2, <2>4, RespondInv DEF Delivery!Next
<1>7. ASSUME NEW r \in Requests, Lose(r)
      PROVE  IntakeInv' /\ [Delivery!Next]_(Delivery!deliveryVars)
  <2>1. CASE requests[r].phase = "record"
    <3>1. IntakeInv' /\ Current(r) \in Actions
      BY <1>7, <2>1, LoseInv
    <3>2. Delivery!Forget(Current(r))
      BY <1>7, <2>1, LoseInv DEF Delivery!Forget, Lose, At, devicesVars
    <3> QED
      BY <3>1, <3>2 DEF Delivery!Next
  <2>2. CASE requests[r].phase # "record"
    BY <1>7, <2>2, LoseInv DEF Lose, At, devicesVars
  <2> QED
    BY <2>1, <2>2
<1>8. ASSUME NEW r \in Requests, NEW f, NEW v, StaffEdit(r, f, v)
      PROVE  IntakeInv' /\ UNCHANGED Delivery!deliveryVars
  BY <1>8, StandingInv DEF StaffEdit, devicesVars
<1>9. ASSUME NEW r \in Requests, NEW i, NEW v, BeginResolve(r, i, v)
      PROVE  IntakeInv' /\ UNCHANGED Delivery!deliveryVars
  BY <1>9, ResolveInv DEF BeginResolve, devicesVars, history
<1>10. ASSUME Tick PROVE IntakeInv' /\ UNCHANGED Delivery!deliveryVars
  BY <1>10, StandingInv DEF Tick, devicesVars, history
<1> QED
  BY <1>1, <1>2, <1>3, <1>4, <1>5, <1>6, <1>7, <1>8, <1>9, <1>10
     DEF IntakeNext, Serve, ServeCase

LEMMA IntakeInitDelivery == ASSUME IntakeInit PROVE Delivery!Init
BY DEF IntakeInit, Delivery!Init

(* Whatever a device sends again and the backend forgets, an action takes   *)
(* effect once and once more per crash between its work and its record, and *)
(* is acknowledged only after it did (SyncActionsService.processBatch and   *)
(* SyncIdempotencyService), for any number of requests in service.          *)
THEOREM IntakeImplementsDelivery ==
    IntakeSpec => ImplementsDelivery
<1>1. IntakeInit => IntakeInv /\ Delivery!Init
  BY IntakeInitInv, IntakeInitDelivery
<1>2. IntakeInv /\ [IntakeNext]_intakeVars
        => IntakeInv' /\ [Delivery!Next]_(Delivery!deliveryVars)
  BY IntakeStep, IntakeAssumption
<1> QED
  BY <1>1, <1>2, PTL DEF IntakeSpec, ImplementsDelivery, Delivery!Spec

-------------------------------------------------------------------------------
(* The review queue.                                                        *)

ItemFields == {"action", "field", "a", "b", "status"}
IsItem(x) == x = [f \in ItemFields |-> x[f]]

ReviewsTyped ==
    /\ reviews \in Seq({reviews[i] : i \in DOMAIN reviews})
    /\ \A i \in DOMAIN reviews : IsItem(reviews[i])

(* The change c of action a was in the record, or it is in the queue.       *)
InRecord(a, c) == <<a, c.field>> \in taken
InQueue(a, c) ==
    \E i \in DOMAIN reviews :
        reviews[i].action = a /\ reviews[i].field = c.field /\ reviews[i].b = c.new
Accounted(a) ==
    \A c \in Changes[a] : c.field \in Reviewed => InRecord(a, c) \/ InQueue(a, c)

(* The work of an action accounts for it when it commits, before the action *)
(* is recorded and long before it is acknowledged.                          *)
AccountInv ==
    /\ ReviewsTyped
    /\ \A a \in processed : Accounted(a)
    /\ \A r \in Requests : requests[r].phase = "record" => Accounted(Current(r))

LEMMA SetToSeqCovers ==
    ASSUME NEW S, IsFiniteSet(S)
    PROVE  /\ SetToSeq(S) \in Seq(S)
           /\ \A x \in S : \E i \in DOMAIN SetToSeq(S) : SetToSeq(S)[i] = x
<1> DEFINE n == Cardinality(S)
<1>1. n \in Nat /\ ExistsBijection(1 .. n, S)
  BY FS_CardinalityType
<1>2. \E f \in [1 .. n -> S] : IsInjective(f)
  BY <1>1 DEF ExistsBijection, Bijection, Injection, IsInjective
<1>3. SetToSeq(S) \in [1 .. n -> S] /\ IsInjective(SetToSeq(S))
  BY <1>2 DEF SetToSeq
<1> HIDE DEF n
<1>4. SetToSeq(S) \in Injection(1 .. n, S)
  BY <1>3 DEF Injection, IsInjective
<1>5. Cardinality(1 .. n) = n
  BY <1>1, FS_Interval
<1>6. SetToSeq(S) \in Surjection(1 .. n, S)
  BY <1>4, <1>5, FS_Injection DEF n
<1>7. \A x \in S : \E i \in 1 .. n : SetToSeq(S)[i] = x
  BY <1>6 DEF Surjection
<1>8. QED
  BY <1>1, <1>3, <1>7

(* Nothing that accounts for an action is taken back: values taken stay in  *)
(* the history and items stay in the queue, resolved or not.                *)
QueueGrows ==
    /\ taken \subseteq taken'
    /\ \A i \in DOMAIN reviews :
          /\ i \in DOMAIN reviews'
          /\ reviews'[i].action = reviews[i].action
          /\ reviews'[i].field = reviews[i].field
          /\ reviews'[i].b = reviews[i].b

LEMMA AccountedKept ==
    ASSUME QueueGrows, NEW a, Accounted(a)
    PROVE  Accounted(a)'
BY DEF QueueGrows, Accounted, InRecord, InQueue

LEMMA AccountKept ==
    ASSUME AccountInv, QueueGrows, ReviewsTyped',
           \A a \in processed' : a \in processed \/ Accounted(a),
           \A s \in Requests : requests'[s].phase = "record" =>
              \/ requests[s].phase = "record" /\ requests'[s].batch = requests[s].batch
              \/ Accounted(Current(s))'
    PROVE  AccountInv'
<1>1. \A a \in processed' : Accounted(a)'
  BY AccountedKept DEF AccountInv
<1>2. ASSUME NEW s \in Requests, requests'[s].phase = "record"
      PROVE  Accounted(Current(s))'
  <2>1. CASE requests[s].phase = "record" /\ requests'[s].batch = requests[s].batch
    <3>1. Accounted(Current(s))
      BY <2>1 DEF AccountInv
    <3>2. Current(s)' = Current(s)
      BY <2>1 DEF Current
    <3>3. QED
      BY <3>1, <3>2 DEF QueueGrows, Accounted, InRecord, InQueue
  <2>2. QED
    BY <1>2, <2>1
<1>3. QED
  BY <1>1, <1>2 DEF AccountInv

LEMMA SameQueue ==
    ASSUME AccountInv, UNCHANGED <<reviews, taken>>
    PROVE  QueueGrows /\ ReviewsTyped'
BY DEF AccountInv, QueueGrows, ReviewsTyped, IsItem

LEMMA NoRequestYet == ASSUME IntakeInit PROVE AccountInv
<1>1. \A r \in Requests : requests[r].phase = "free"
  BY DEF IntakeInit, Free
<1>2. reviews = <<>> /\ processed = {}
  BY DEF IntakeInit
<1>3. ReviewsTyped
  BY <1>2 DEF ReviewsTyped
<1>4. QED
  BY <1>1, <1>2, <1>3 DEF AccountInv

(* A step of request r that neither does work nor decides a review.         *)
LEMMA RequestMoves ==
    ASSUME IntakeInv, AccountInv, NEW r \in Requests, NEW q,
           requests' = [requests EXCEPT ![r] = q], q.phase # "record",
           UNCHANGED <<reviews, taken>>,
           \A a \in processed' : a \in processed \/ Accounted(a)
    PROVE  AccountInv'
<1>1. requests = [s \in Requests |-> requests[s]]
  BY DEF IntakeInv, IntakeTypes
<1>2. \A s \in Requests : requests'[s].phase = "record" =>
         requests[s].phase = "record" /\ requests'[s].batch = requests[s].batch
  BY <1>1
<1>3. QED
  BY <1>2, SameQueue, AccountKept

(* Every wanted change is either clean and applied, or goes to review.      *)
LEMMA ChangesGoSomewhere ==
    ASSUME NEW r \in Requests, NEW c \in Changes[Current(r)], c.field \in Reviewed
    PROVE  c \in ToApply(r) \/ c \in ToReview(r) \/ c \notin Wanted(r)
BY DEF ToApply, ToReview

LEMMA ItemIs ==
    ASSUME NEW r, NEW c
    PROVE  /\ IsItem(Item(r, c))
           /\ Item(r, c).action = Current(r) /\ Item(r, c).field = c.field
           /\ Item(r, c).b = c.new
BY DEF Item, IsItem, ItemFields

LEMMA ApplyWorkAccounts ==
    ASSUME IntakeAssumption, IntakeInv, AccountInv, NEW r \in Requests, ApplyWork(r)
    PROVE  AccountInv'
<1> PICK a : a = Current(r)
  OBVIOUS
<1> DEFINE items == {Item(r, c) : c \in ToReview(r)}
           old == {reviews[i] : i \in DOMAIN reviews}
           S == old \cup items
           t == SetToSeq(items)
<1>0. requests[r].phase = "apply" /\ a \in Actions
  BY ApplyWorkInv DEF ApplyWork, At
<1>1. IsFiniteSet(items)
  <2>1. IsFiniteSet(ToReview(r))
    <3>1. ToReview(r) \subseteq Changes[a]
      BY DEF ToReview, Wanted
    <3>2. QED
      BY <1>0, <3>1, FS_Subset DEF IntakeAssumption
  <2> DEFINE f == [c \in ToReview(r) |-> Item(r, c)]
  <2>2. f \in Surjection(ToReview(r), items)
    BY DEF Surjection
  <2>3. QED
    BY <2>1, <2>2, FS_Surjection
<1>2. t \in Seq(items) /\ \A x \in items : \E i \in DOMAIN t : t[i] = x
  BY <1>1, SetToSeqCovers
<1>3. reviews' = reviews \o t
  BY DEF ApplyWork
<1>4. reviews \in Seq(old) /\ \A x \in old : IsItem(x)
  BY DEF AccountInv, ReviewsTyped
<1>5. \A x \in items : IsItem(x)
  BY ItemIs
<1>t. taken' = taken \cup {<<a, c.field>> : c \in ToApply(r) \cup (Changes[a] \ Wanted(r))}
  BY DEF ApplyWork
<1>p. requests' = [requests EXCEPT ![r].phase = "record"] /\ UNCHANGED processed
  BY DEF ApplyWork
<1> HIDE DEF t, items, old
<1>6. reviews \in Seq(S) /\ t \in Seq(S)
  BY <1>2, <1>4
<1> HIDE DEF S
<1>7. /\ Len(reviews) \in Nat /\ Len(t) \in Nat
      /\ DOMAIN reviews = 1 .. Len(reviews) /\ DOMAIN t = 1 .. Len(t)
      /\ reviews' \in Seq(S) /\ DOMAIN reviews' = 1 .. (Len(reviews) + Len(t))
      /\ \A i \in DOMAIN reviews : i \in DOMAIN reviews' /\ reviews'[i] = reviews[i]
      /\ \A i \in DOMAIN t : /\ Len(reviews) + i \in DOMAIN reviews'
                             /\ reviews'[Len(reviews) + i] = t[i]
  BY <1>3, <1>6
<1>8. QueueGrows
  BY <1>7, <1>t DEF QueueGrows
<1>9. ReviewsTyped'
  <2>1. \A i \in DOMAIN reviews' : reviews'[i] \in S
    BY <1>7
  <2>2. \A i \in DOMAIN reviews' : IsItem(reviews'[i])
    BY <1>4, <1>5, <2>1 DEF S
  <2> DEFINE T == {reviews'[i] : i \in DOMAIN reviews'}
             n == Len(reviews) + Len(t)
  <2>3. n \in Nat /\ reviews' \in [1 .. n -> T]
    BY <1>7
  <2> HIDE DEF T, n
  <2>4. reviews' \in Seq(T)
    BY <2>3
  <2>5. QED
    BY <2>2, <2>4 DEF ReviewsTyped, T, IsItem
<1>10. Accounted(a)'
  <2> SUFFICES ASSUME NEW c \in Changes[a], c.field \in Reviewed
               PROVE  InRecord(a, c)' \/ InQueue(a, c)'
    BY DEF Accounted
  <2>1. CASE c \in ToApply(r) \/ c \notin Wanted(r)
    BY <1>t, <2>1 DEF InRecord
  <2>2. CASE c \in ToReview(r)
    <3>1. Item(r, c) \in items
      BY <2>2 DEF items
    <3>2. PICK i \in DOMAIN t : t[i] = Item(r, c)
      BY <1>2, <3>1
    <3>3. reviews'[Len(reviews) + i] = Item(r, c) /\ Len(reviews) + i \in DOMAIN reviews'
      BY <1>7, <3>2
    <3>4. QED
      BY <3>3, ItemIs DEF InQueue
  <2>3. QED
    BY <2>1, <2>2, ChangesGoSomewhere
<1>11. ASSUME NEW s \in Requests, requests'[s].phase = "record"
       PROVE  \/ requests[s].phase = "record" /\ requests'[s].batch = requests[s].batch
              \/ Accounted(Current(s))'
  <2>1. /\ requests = [x \in Requests |-> requests[x]]
        /\ IsBatch(requests[r])
    BY <1>0 DEF IntakeInv, IntakeTypes, Deciding
  <2>2. CASE s = r
    <3>1. requests'[r].batch = requests[r].batch
      BY <1>p, <2>1 DEF IsBatch, BatchFields
    <3>2. Current(s)' = a
      BY <2>2, <3>1 DEF Current
    <3>3. QED
      BY <1>10, <3>2 DEF Accounted, InRecord, InQueue
  <2>3. CASE s # r
    BY <1>p, <1>11, <2>1, <2>3
  <2>4. QED
    BY <2>2, <2>3
<1>12. QED
  BY <1>p, <1>8, <1>9, <1>11, AccountKept

LEMMA ResolveAccounts ==
    ASSUME IntakeInv, AccountInv, NEW r \in Requests, CommitResolve(r)
    PROVE  AccountInv'
<1> DEFINE i == requests[r].item
           S == {reviews[j] : j \in DOMAIN reviews}
           x == [reviews[i] EXCEPT !.status = "RESOLVED"]
<1>1. /\ reviews' = [reviews EXCEPT ![i] = x]
      /\ requests' = [requests EXCEPT ![r] = Free]
      /\ UNCHANGED <<processed, taken>>
  BY DEF CommitResolve
<1>2. reviews \in Seq(S) /\ \A j \in DOMAIN reviews : IsItem(reviews[j])
  BY DEF AccountInv, ReviewsTyped
<1>3. ASSUME i \in DOMAIN reviews
      PROVE  /\ x.action = reviews[i].action /\ x.field = reviews[i].field
             /\ x.b = reviews[i].b /\ IsItem(x)
  <2>1. reviews[i] = [f \in ItemFields |-> reviews[i][f]]
    BY <1>2, <1>3 DEF IsItem
  <2>2. QED
    BY <2>1 DEF IsItem, ItemFields
<1> HIDE DEF x, i
<1>4. /\ DOMAIN reviews' = DOMAIN reviews
      /\ \A j \in DOMAIN reviews : reviews'[j] = IF j = i THEN x ELSE reviews[j]
  BY <1>1, <1>2
<1>5. QueueGrows
  BY <1>1, <1>3, <1>4 DEF QueueGrows
<1>6. ReviewsTyped'
  <2>1. \A j \in DOMAIN reviews' : IsItem(reviews'[j])
    BY <1>2, <1>3, <1>4
  <2> DEFINE T == {reviews'[j] : j \in DOMAIN reviews'}
             n == Len(reviews)
  <2>2. n \in Nat /\ DOMAIN reviews' = 1 .. n
    BY <1>2, <1>4
  <2>3. reviews' = [j \in 1 .. n |-> reviews'[j]]
    <3>1. reviews = [j \in 1 .. n |-> reviews[j]]
      BY <1>2
    <3>2. QED
      BY <1>1, <3>1
  <2>4. reviews' \in [1 .. n -> T]
    BY <2>2, <2>3
  <2> HIDE DEF T, n
  <2>5. reviews' \in Seq(T)
    BY <2>2, <2>4
  <2>6. QED
    BY <2>1, <2>5 DEF ReviewsTyped, T, IsItem
<1>7. \A s \in Requests : requests'[s].phase = "record" =>
         requests[s].phase = "record" /\ requests'[s].batch = requests[s].batch
  BY <1>1 DEF IntakeInv, IntakeTypes, Free
<1>8. QED
  BY <1>1, <1>5, <1>6, <1>7, AccountKept

LEMMA ServeAccounts ==
    ASSUME IntakeAssumption, IntakeInv, AccountInv, NEW r \in Requests, Serve(r)
    PROVE  AccountInv'
<1>1. CASE LookUp(r)
  <2>1. /\ requests[r].phase = "lookup" /\ requests[r].batch # <<>>
        /\ UNCHANGED <<reviews, taken, processed>>
    BY <1>1 DEF LookUp, At, history
  <2>2. IsBatch(requests[r]) /\ requests[r].phase \notin Deciding
    BY <2>1 DEF IntakeInv, IntakeTypes, Deciding
  <2>3. \E q : requests' = [requests EXCEPT ![r] = q] /\ q.phase # "record"
    <3>1. CASE Replayed(Current(r))
      <4>1. Advance(r, "done") /\ Current(r) \in processed'
        BY <1>1, <2>1, <3>1 DEF LookUp, Replayed
      <4>2. QED
        BY <2>1, <2>2, <4>1, Advanced
    <3>2. CASE ~Replayed(Current(r))
      <4>1. requests' = [requests EXCEPT ![r] = [requests[r] EXCEPT !.phase = "load"]]
        BY <1>1, <3>2 DEF LookUp, IntakeInv, IntakeTypes
      <4>2. [requests[r] EXCEPT !.phase = "load"].phase = "load"
        BY <2>2 DEF IsBatch, BatchFields
      <4>3. QED
        BY <4>1, <4>2
    <3>3. QED
      BY <3>1, <3>2
  <2>4. QED
    BY <2>1, <2>3, RequestMoves
<1>2. CASE Load(r)
  <2> DEFINE q == [requests[r] EXCEPT !.phase = "apply", !.seen = record, !.seenAt = updatedAt]
  <2>1. requests[r].phase = "load" /\ UNCHANGED <<reviews, taken, processed>>
    BY <1>2 DEF Load, At, history
  <2>2. IsBatch(requests[r]) /\ requests = [s \in Requests |-> requests[s]]
    BY <2>1 DEF IntakeInv, IntakeTypes, Deciding
  <2>3. requests' = [requests EXCEPT ![r] = q]
    BY <1>2, <2>2 DEF Load
  <2>4. q.phase = "apply"
    BY <2>2 DEF IsBatch, BatchFields
  <2> HIDE DEF q
  <2>5. QED
    BY <2>1, <2>3, <2>4, RequestMoves
<1>3. CASE ApplyWork(r)
  BY <1>3, ApplyWorkAccounts
<1>4. CASE FailWork(r)
  <2>1. requests[r].phase = "apply" /\ UNCHANGED <<reviews, taken, processed>>
    BY <1>4 DEF FailWork, At, history
  <2>2. requests[r].phase \notin Deciding /\ requests[r].batch # <<>>
    BY <2>1 DEF IntakeInv, WorkIsNew, Working, Deciding
  <2>3. \E q : requests' = [requests EXCEPT ![r] = q] /\ q.phase # "record"
    BY <1>4, <2>1, <2>2, Advanced DEF FailWork, AfterFailure
  <2>4. QED
    BY <2>1, <2>3, RequestMoves
<1>5. CASE Record(r)
  <2>1. /\ requests[r].phase = "record" /\ processed' = processed \cup {Current(r)}
        /\ UNCHANGED <<reviews, taken>>
    BY <1>5 DEF Record, At, history
  <2>2. requests[r].phase \notin Deciding /\ requests[r].batch # <<>>
    BY <2>1 DEF IntakeInv, WorkIsNew, Working, Deciding
  <2>3. \E q : requests' = [requests EXCEPT ![r] = q] /\ q.phase # "record"
    BY <1>5, <2>1, <2>2, Advanced DEF Record
  <2>4. Accounted(Current(r))
    BY <2>1 DEF AccountInv
  <2>5. QED
    BY <2>1, <2>3, <2>4, RequestMoves
<1>6. CASE Respond(r) \/ RefuseResolve(r)
  <2>1. UNCHANGED <<reviews, taken, processed>> /\ requests' = [requests EXCEPT ![r] = Free]
    BY <1>6 DEF Respond, RefuseResolve, history
  <2>2. Free.phase # "record"
    BY DEF Free
  <2>3. QED
    BY <2>1, <2>2, RequestMoves
<1>7. CASE CommitResolve(r)
  BY <1>7, ResolveAccounts
<1>8. QED
  BY <1>1, <1>2, <1>3, <1>4, <1>5, <1>6, <1>7 DEF Serve

LEMMA AccountStep ==
    ASSUME IntakeAssumption, IntakeInv, AccountInv, [IntakeNext]_intakeVars
    PROVE  AccountInv'
<1>1. ASSUME UNCHANGED <<reviews, taken, processed, requests>>
      PROVE  AccountInv'
  BY <1>1, SameQueue, AccountKept
<1>2. ASSUME NEW r \in Requests, Serve(r)
      PROVE  AccountInv'
  BY <1>2, ServeAccounts
<1>3. ASSUME NEW r \in Requests, Lose(r)
      PROVE  AccountInv'
  <2>1. UNCHANGED <<reviews, taken, processed>> /\ requests' = [requests EXCEPT ![r] = Free]
    BY <1>3 DEF Lose
  <2>2. Free.phase # "record"
    BY DEF Free
  <2>3. QED
    BY <2>1, <2>2, RequestMoves
<1>4. ASSUME NEW r \in Requests, NEW d \in Devices, Push(r, d)
      PROVE  AccountInv'
  <2>1. UNCHANGED <<reviews, taken, processed>>
    BY <1>4 DEF Push, history
  <2>2. PICK b : requests' = [requests EXCEPT ![r] =
                    [phase |-> "lookup", device |-> d, batch |-> b,
                     seen |-> record, seenAt |-> updatedAt, done |-> {}, failed |-> {}]]
    BY <1>4, Zenon DEF Push
  <2>q. PICK q : q = [phase |-> "lookup", device |-> d, batch |-> b,
                      seen |-> record, seenAt |-> updatedAt, done |-> {}, failed |-> {}]
    OBVIOUS
  <2>3. q.phase # "record" /\ requests' = [requests EXCEPT ![r] = q]
    BY <2>2, <2>q
  <2>4. QED
    BY <2>1, <2>3, RequestMoves
<1>5. ASSUME NEW r \in Requests, NEW i, NEW v, BeginResolve(r, i, v)
      PROVE  AccountInv'
  <2>1. UNCHANGED <<reviews, taken, processed>>
    BY <1>5 DEF BeginResolve, history
  <2>2. requests' = [requests EXCEPT ![r] = [phase |-> "resolve", item |-> i, value |-> v]]
    BY <1>5 DEF BeginResolve
  <2>q. PICK q : q = [phase |-> "resolve", item |-> i, value |-> v]
    OBVIOUS
  <2>3. q.phase # "record" /\ requests' = [requests EXCEPT ![r] = q]
    BY <2>2, <2>q
  <2>4. QED
    BY <2>1, <2>3, RequestMoves
<1>6. ASSUME NEW r \in Requests, NEW f, NEW v, StaffEdit(r, f, v)
      PROVE  AccountInv'
  BY <1>1, <1>6 DEF StaffEdit
<1>7. ASSUME Tick
      PROVE  AccountInv'
  BY <1>1, <1>7 DEF Tick, history
<1>8. CASE UNCHANGED intakeVars
  BY <1>1, <1>8 DEF intakeVars, history
<1>9. QED
  BY <1>2, <1>3, <1>4, <1>5, <1>6, <1>7, <1>8 DEF IntakeNext

(* SyncMergeService.applyFieldMerge and SyncIdempotencyService lose no      *)
(* change of a high-stakes field that the device was told is done: it was   *)
(* in the record or is in the review queue, for any number of requests in   *)
(* service, whatever is edited, lost, decided and sent again in between.    *)
THEOREM NothingAcknowledgedIsLost == IntakeSpec => []AcknowledgedIsAccountedFor
<1>1. IntakeInit => IntakeInv /\ AccountInv
  BY IntakeInitInv, NoRequestYet
<1>2. IntakeInv /\ AccountInv /\ [IntakeNext]_intakeVars => IntakeInv' /\ AccountInv'
  BY IntakeStep, AccountStep, IntakeAssumption
<1>3. IntakeInv /\ AccountInv => AcknowledgedIsAccountedFor
  BY DEF IntakeInv, IntakeTypes, AccountInv, Accounted, InRecord, InQueue,
         AcknowledgedIsAccountedFor
<1>4. QED
  BY <1>1, <1>2, <1>3, PTL DEF IntakeSpec

-------------------------------------------------------------------------------
(* Last write wins, one request at a time.                                  *)

OneAtATime == \A r, s \in Requests : r = s

(* A device names a field at most once in an update.                        *)
OneChangePerField ==
    \A a \in Actions : \A c, d \in Changes[a] : c.field = d.field => c = d

(* The time of a record is that of its latest field, and a merge still sees *)
(* what it has loaded.                                                      *)
TimesInv ==
    /\ clock \in Nat
    /\ updatedAt \in [Entities -> Nat]
    /\ \A e \in Entities : updatedAt[e] <= clock
    /\ wroteAt \in [Fields -> Nat]
    /\ \A f \in Fields : wroteAt[f] <= updatedAt[EntityOf[f]]
    /\ \A r \in Requests : requests[r].phase = "apply" =>
          requests[r].seen = record /\ requests[r].seenAt = updatedAt

Later ==
    \A r \in Requests : At(r, "apply") =>
          \A c \in Changes[Current(r)] :
             (/\ record'[c.field] # record[c.field]
              /\ c.field \notin Reviewed
              /\ c.base \notin {NoBase, record[c.field]}
              /\ c.stamp # 0) => c.stamp > wroteAt[c.field]

LEMMA NoTimeYet == ASSUME IntakeInit PROVE TimesInv
<1>1. \A r \in Requests : requests[r].phase = "free"
  BY DEF IntakeInit, Free
<1>2. \A f \in Fields : EntityOf[f] \in Entities
  BY DEF Entities
<1>3. QED
  BY <1>1, <1>2 DEF IntakeInit, TimesInv

(* The written fields and their records get the time of the write.          *)
LEMMA WrittenLater ==
    ASSUME TimesInv, clock' = clock, NEW F,
           updatedAt' = [e \in Entities |->
              IF \E f \in F : EntityOf[f] = e THEN clock ELSE updatedAt[e]],
           wroteAt' = [f \in Fields |-> IF f \in F THEN clock ELSE wroteAt[f]],
           \A s \in Requests : requests'[s].phase # "apply"
    PROVE  TimesInv'
<1>1. \A f \in Fields : EntityOf[f] \in Entities
  BY DEF Entities
<1>2. \A e \in Entities : updatedAt'[e] \in Nat /\ updatedAt[e] <= updatedAt'[e]
                           /\ updatedAt'[e] <= clock
  BY DEF TimesInv
<1>3. \A f \in Fields : wroteAt'[f] \in Nat /\ wroteAt'[f] <= updatedAt'[EntityOf[f]]
  BY <1>1, <1>2 DEF TimesInv
<1>4. QED
  BY <1>2, <1>3 DEF TimesInv

(* Only the work of a request at "apply", an edit and a decision write.     *)
LEMMA TimesStep ==
    ASSUME IntakeAssumption, OneAtATime, IntakeInv, TimesInv, [IntakeNext]_intakeVars
    PROVE  TimesInv'
<1>1. ASSUME UNCHANGED <<record, updatedAt, wroteAt>>,
             clock' \in Nat, clock <= clock',
             \A r \in Requests : requests'[r].phase = "apply" =>
                \/ requests'[r] = requests[r]
                \/ requests'[r].seen = record /\ requests'[r].seenAt = updatedAt
      PROVE  TimesInv'
  BY <1>1 DEF TimesInv
<1>2. clock \in Nat /\ clock <= clock
  BY DEF TimesInv
<1>3. requests = [r \in Requests |-> requests[r]]
  BY DEF IntakeInv, IntakeTypes
<1>4. ASSUME NEW r \in Requests, LookUp(r) \/ FailWork(r) \/ Record(r)
      PROVE  TimesInv'
  <2>1. UNCHANGED <<record, updatedAt, wroteAt, clock>>
    BY <1>4 DEF LookUp, FailWork, Record, history
  <2>2. IsBatch(requests[r]) /\ requests[r].phase \notin Deciding
    BY <1>4 DEF LookUp, FailWork, Record, At, IntakeInv, IntakeTypes, Deciding
  <2>3. requests[r].batch # <<>>
    BY <1>4 DEF LookUp, FailWork, Record, At, IntakeInv, WorkIsNew, Working
  <2>4. \E q : requests' = [requests EXCEPT ![r] = q] /\ q.phase # "apply"
    <3>1. CASE requests' = [requests EXCEPT ![r].phase = "load"]
      <4>1. requests' = [requests EXCEPT ![r] = [requests[r] EXCEPT !.phase = "load"]]
        BY <1>3, <3>1
      <4>2. [requests[r] EXCEPT !.phase = "load"].phase = "load"
        BY <2>2 DEF IsBatch, BatchFields
      <4>3. QED
        BY <4>1, <4>2
    <3>2. CASE /\ Advance(r, "done") /\ processed \subseteq processed'
               /\ Current(r) \in processed'
      BY <2>2, <2>3, <3>2, Advanced
    <3>3. CASE Advance(r, "failed") /\ processed \subseteq processed'
      BY <2>2, <2>3, <3>3, Advanced
    <3>4. QED
      BY <1>4, <3>1, <3>2, <3>3 DEF LookUp, FailWork, Record, Replayed, AfterFailure
  <2>5. QED
    BY <1>1, <1>2, <1>3, <2>1, <2>4
<1>5. ASSUME NEW r \in Requests, Load(r)
      PROVE  TimesInv'
  <2>1. UNCHANGED <<record, updatedAt, wroteAt, clock>> /\ requests[r].phase = "load"
    BY <1>5 DEF Load, At, history
  <2>2. IsBatch(requests[r])
    BY <2>1 DEF IntakeInv, IntakeTypes, Deciding
  <2>3. requests'[r].seen = record /\ requests'[r].seenAt = updatedAt
    BY <1>3, <1>5, <2>2 DEF Load, IsBatch, BatchFields
  <2>4. \A s \in Requests \ {r} : requests'[s] = requests[s]
    BY <1>3, <1>5 DEF Load
  <2>5. QED
    BY <1>1, <1>2, <2>1, <2>3, <2>4
<1>6. ASSUME NEW r \in Requests, ApplyWork(r)
      PROVE  TimesInv'
  <2> DEFINE F == {c.field : c \in ToApply(r)}
  <2>1. /\ clock' = clock
        /\ updatedAt' = [e \in Entities |->
              IF \E f \in F : EntityOf[f] = e THEN clock ELSE updatedAt[e]]
        /\ wroteAt' = [f \in Fields |-> IF f \in F THEN clock ELSE wroteAt[f]]
    BY <1>6 DEF ApplyWork
  <2>2. IsBatch(requests[r])
    BY <1>6 DEF ApplyWork, At, IntakeInv, IntakeTypes, Deciding
  <2>3. requests'[r].phase = "record"
    BY <1>3, <1>6, <2>2 DEF ApplyWork, IsBatch, BatchFields
  <2>4. \A s \in Requests : requests'[s].phase # "apply"
    BY <2>3 DEF OneAtATime
  <2> HIDE DEF F
  <2>5. QED
    BY <2>1, <2>4, WrittenLater
<1>7. ASSUME NEW r \in Requests, NEW f, NEW v, Write(f, v), clock' = clock,
             requests'[r].phase # "apply"
      PROVE  TimesInv'
  <2>1. \A s \in Requests : requests'[s].phase # "apply"
    BY <1>7 DEF OneAtATime
  <2>2. /\ updatedAt' = [updatedAt EXCEPT ![EntityOf[f]] = clock]
        /\ wroteAt' = [wroteAt EXCEPT ![f] = clock]
    BY <1>7 DEF Write
  <2>3. \A e \in Entities : /\ updatedAt'[e] \in Nat /\ updatedAt[e] <= updatedAt'[e]
                            /\ updatedAt'[e] <= clock
    BY <2>2 DEF TimesInv
  <2>4. \A g \in Fields : EntityOf[g] \in Entities
    BY DEF Entities
  <2>5. \A g \in Fields : wroteAt'[g] \in Nat /\ wroteAt'[g] <= updatedAt'[EntityOf[g]]
    BY <2>2, <2>3, <2>4 DEF TimesInv
  <2>6. QED
    BY <1>7, <2>1, <2>2, <2>3, <2>5 DEF TimesInv
<1>8. ASSUME NEW r \in Requests, CommitResolve(r)
      PROVE  TimesInv'
  <2>1. requests'[r] = Free /\ clock' = clock
    BY <1>3, <1>8 DEF CommitResolve
  <2>2. requests'[r].phase # "apply"
    BY <2>1 DEF Free
  <2>3. PICK f, v : Write(f, v)
    BY <1>8 DEF CommitResolve
  <2>4. QED
    BY <1>7, <2>1, <2>2, <2>3
<1>9. ASSUME NEW r \in Requests, NEW f, NEW v, StaffEdit(r, f, v)
      PROVE  TimesInv'
  <2>1. requests'[r] = requests[r] /\ requests[r].phase = "free" /\ clock' = clock /\ Write(f, v)
    BY <1>9 DEF StaffEdit, At
  <2>2. QED
    BY <1>7, <2>1
<1>10. ASSUME NEW r \in Requests, Respond(r) \/ RefuseResolve(r) \/ Lose(r)
       PROVE  TimesInv'
  <2>1. UNCHANGED <<record, updatedAt, wroteAt, clock>> /\ requests' = [requests EXCEPT ![r] = Free]
    BY <1>10 DEF Respond, RefuseResolve, Lose, history
  <2>2. Free.phase # "apply"
    BY DEF Free
  <2>3. QED
    BY <1>1, <1>2, <1>3, <2>1, <2>2
<1>11. ASSUME NEW r \in Requests, NEW d \in Devices, Push(r, d)
       PROVE  TimesInv'
  <2>1. UNCHANGED <<record, updatedAt, wroteAt, clock>>
    BY <1>11 DEF Push, history
  <2>2. requests'[r].phase = "lookup" /\ \A s \in Requests \ {r} : requests'[s] = requests[s]
    BY <1>3, <1>11 DEF Push
  <2>3. QED
    BY <1>1, <1>2, <2>1, <2>2
<1>12. ASSUME NEW r \in Requests, NEW i, NEW v, BeginResolve(r, i, v)
       PROVE  TimesInv'
  <2>1. UNCHANGED <<record, updatedAt, wroteAt, clock>>
    BY <1>12 DEF BeginResolve, history
  <2>2. requests'[r].phase = "resolve" /\ \A s \in Requests \ {r} : requests'[s] = requests[s]
    BY <1>3, <1>12 DEF BeginResolve
  <2>3. QED
    BY <1>1, <1>2, <2>1, <2>2
<1>13. ASSUME Tick
       PROVE  TimesInv'
  <2>1. UNCHANGED <<record, updatedAt, wroteAt, requests>> /\ clock' = clock + 1
    BY <1>13 DEF Tick, history
  <2>2. QED
    BY <1>1, <1>2, <2>1
<1>14. CASE UNCHANGED intakeVars
  BY <1>1, <1>2, <1>14 DEF intakeVars, history
<1>15. QED
  BY <1>4, <1>5, <1>6, <1>8, <1>9, <1>10, <1>11, <1>12, <1>13, <1>14 DEF IntakeNext, Serve

LEMMA LaterStep ==
    ASSUME IntakeAssumption, OneAtATime, OneChangePerField, IntakeInv, TimesInv,
           [IntakeNext]_intakeVars
    PROVE  Later
<1> SUFFICES ASSUME NEW r \in Requests, At(r, "apply"), NEW c \in Changes[Current(r)],
                    record'[c.field] # record[c.field], c.field \notin Reviewed,
                    c.base \notin {NoBase, record[c.field]}, c.stamp # 0
             PROVE  c.stamp > wroteAt[c.field]
  BY DEF Later
<1>1. ApplyWork(r)
  <2>1. \A s \in Requests : requests[s].phase = "apply"
    BY DEF At, OneAtATime
  <2>2. \A s \in Requests : ~(LookUp(s) \/ Load(s) \/ Record(s) \/ Respond(s)
                              \/ CommitResolve(s) \/ RefuseResolve(s))
    BY <2>1 DEF LookUp, Load, Record, Respond, CommitResolve, RefuseResolve, At
  <2>3. \A s \in Requests : \A f, v : ~StaffEdit(s, f, v)
    BY <2>1 DEF StaffEdit, At
  <2>4. record' # record
    OBVIOUS
  <2>5. \A s \in Requests : ~Lose(s) /\ ~FailWork(s)
    BY <2>4 DEF Lose, FailWork
  <2>6. ~Tick /\ ~UNCHANGED intakeVars
    BY <2>4 DEF Tick, intakeVars
  <2>7. \A s \in Requests, d \in Devices : ~Push(s, d)
    BY <2>4 DEF Push
  <2>8. \A s \in Requests : \A i, v : ~BeginResolve(s, i, v)
    BY <2>4 DEF BeginResolve
  <2>9. \E s \in Requests : ApplyWork(s)
    BY <2>2, <2>3, <2>5, <2>6, <2>7, <2>8 DEF IntakeNext, Serve
  <2>10. QED
    BY <2>9 DEF OneAtATime
<1>2. Current(r) \in Actions
  BY <1>1, ApplyWorkInv
<1>3. c.field \in Fields /\ c.stamp \in Nat
  BY <1>2 DEF IntakeAssumption
<1>4. PICK d \in ToApply(r) : d.field = c.field
  BY <1>1, <1>3 DEF ApplyWork
<1>5. c \in ToApply(r)
  BY <1>2, <1>4 DEF OneChangePerField, ToApply, Wanted
<1>6. requests[r].seen = record /\ requests[r].seenAt = updatedAt
  BY DEF TimesInv, At
<1>7. IncomingWins(r, c)
  BY <1>5, <1>6 DEF ToApply, Collides
<1>8. c.stamp > updatedAt[EntityOf[c.field]]
  BY <1>6, <1>7 DEF IncomingWins
<1>9. /\ updatedAt[EntityOf[c.field]] \in Nat /\ wroteAt[c.field] \in Nat
      /\ wroteAt[c.field] <= updatedAt[EntityOf[c.field]]
  BY <1>3 DEF TimesInv, Entities
<1>10. QED
  BY <1>3, <1>8, <1>9

(* Last write wins in SyncMergeService.applyFieldMerge, requests being      *)
(* served one at a time and no update naming a field twice: a change that   *)
(* collides on a low-stakes field is later than the value it replaces.      *)
THEOREM LaterWrites ==
    ASSUME OneAtATime, OneChangePerField
    PROVE  IntakeSpec => LaterWriteStands
<1>1. IntakeInit => IntakeInv /\ TimesInv
  BY IntakeInitInv, NoTimeYet
<1>2. IntakeInv /\ TimesInv /\ [IntakeNext]_intakeVars => IntakeInv' /\ TimesInv'
  BY IntakeStep, TimesStep, IntakeAssumption
<1>3. IntakeInv /\ TimesInv /\ [IntakeNext]_intakeVars =>
        [\A r \in Requests : At(r, "apply") =>
          \A c \in Changes[Current(r)] :
             (/\ record'[c.field] # record[c.field]
              /\ c.field \notin Reviewed
              /\ c.base \notin {NoBase, record[c.field]}
              /\ c.stamp # 0) => c.stamp > wroteAt[c.field]]_intakeVars
  BY LaterStep, IntakeAssumption DEF Later
<1>4. QED
  BY <1>1, <1>2, <1>3, PTL DEF IntakeSpec, LaterWriteStands

-------------------------------------------------------------------------------
(* The pull.  What a device has and what it asks for, between any two steps. *)
Pulls ==
    [mode : {"since", "windowed"}, low : Nat, to : Nat, cursor : Nat \X Nat,
     step : {"ask", "answer"}, clock : Nat, first : Nat]

PullTypes ==
    /\ now \in Nat /\ since \in Nat /\ since <= now
    /\ stamp \in [Rows -> Nat] /\ pending \in [Rows -> Nat] /\ mirror \in [Rows -> Nat]
    /\ \A r \in Rows : stamp[r] <= now /\ pending[r] <= now
    /\ between \subseteq References
    /\ pull \in Pulls \cup {NoPull}

Pulling == pull # NoPull
Continuing == pull.cursor # Start      \* a page after the first one

(* The times of a pull under way are in order.                              *)
PullTimes ==
    Pulling =>
        /\ pull.low = since
        /\ pull.to <= now /\ pull.first <= pull.clock /\ pull.clock <= now
        /\ pull.cursor[1] <= pull.clock
        /\ pull.step = "answer" \/ Continuing => pull.to <= pull.clock
        /\ pull.step = "answer" /\ ~Continuing => pull.first = pull.clock
        /\ pull.mode = "windowed" =>
              /\ pull.low < pull.to
              /\ \A r \in Rows : stamp[r] # pull.to /\ pending[r] # pull.to

(* A version that no pull has seen open is younger than what pulls asked for. *)
OpenIsYounger ==
    \A r \in Rows \ straddling : pending[r] # 0 =>
        pending[r] > since /\ (Pulling => pending[r] > pull.clock)

(* The device has every unit up to the cursor,                              *)
UnitsUpToCursor ==
    Pulling => \A u \in Units \ late :
        stamp[u] # 0 /\ ~AfterCursor(u) => mirror[u] = stamp[u]

(* and after the first page every reference up to that page's end,          *)
FirstPageEnd == IF pull.mode = "since" THEN pull.first ELSE pull.to
ReferencesOfFirstPage ==
    Pulling /\ Continuing => \A r \in References \ (late \cup between) :
        stamp[r] # 0 /\ stamp[r] <= FirstPageEnd => mirror[r] = stamp[r]

(* beyond which only those written between two pages lie.                   *)
NoneBetween ==
    Pulling /\ Continuing /\ pull.mode = "since" /\ pull.step = "answer" =>
        \A r \in References \ (late \cup between) :
            stamp[r] <= pull.first \/ stamp[r] > pull.clock

PullInv ==
    /\ PullTypes /\ PullTimes /\ OpenIsYounger /\ MirrorIsCurrent
    /\ UnitsUpToCursor /\ ReferencesOfFirstPage /\ NoneBetween

-------------------------------------------------------------------------------
(* A page is the beginning of what was found, and all of it when not cut.   *)
LEMMA PageIsABeginning ==
    ASSUME PullAssumption, stamp \in [Rows -> Nat]
    PROVE  /\ Page \subseteq Found /\ Found \subseteq Units
           /\ ~Truncated => Page = Found
           /\ \A last \in Page, u \in Found : ~Before(last, u) => u \in Page
<1> DEFINE Ahead(u) == {v \in Found : Before(v, u)}
<1>1. Page \subseteq Found /\ Found \subseteq Units
  BY DEF Page, Found
<1>2. IsFiniteSet(Found) /\ Cardinality(Found) \in Nat
  BY <1>1, FS_Subset, FS_CardinalityType DEF PullAssumption
<1>3. \A u \in Units : stamp[u] \in Nat /\ u \in Nat
  BY DEF PullAssumption, Rows
<1>4. \A u \in Found : /\ IsFiniteSet(Ahead(u)) /\ Cardinality(Ahead(u)) \in Nat
                       /\ Cardinality(Ahead(u)) < Cardinality(Found)
  <2> SUFFICES ASSUME NEW u \in Found
               PROVE  /\ IsFiniteSet(Ahead(u)) /\ Cardinality(Ahead(u)) \in Nat
                      /\ Cardinality(Ahead(u)) < Cardinality(Found)
    OBVIOUS
  <2>1. ~Before(u, u)
    BY <1>1, <1>3 DEF Before
  <2>2. Ahead(u) \subseteq Found /\ Ahead(u) # Found
    BY <2>1
  <2>3. IsFiniteSet(Ahead(u)) /\ Cardinality(Ahead(u)) \in Nat
    BY <1>2, <2>2, FS_Subset, FS_CardinalityType
  <2> QED BY <1>2, <2>2, <2>3, FS_Subset, FS_CardinalityType
<1>5. PageLimit \in Nat
  BY DEF PullAssumption
<1>6. ~Truncated => Page = Found
  <2> SUFFICES ASSUME ~Truncated, NEW u \in Found PROVE u \in Page
    BY <1>1
  <2>1. Cardinality(Found) <= PageLimit
    BY <1>2, <1>5 DEF Truncated
  <2>2. Cardinality(Ahead(u)) \in Nat /\ Cardinality(Ahead(u)) < Cardinality(Found)
    BY <1>4
  <2>3. Cardinality(Ahead(u)) < PageLimit
    <3> HIDE DEF Ahead
    <3> QED BY <1>2, <1>5, <2>1, <2>2
  <2> QED BY <2>3 DEF Page
<1>7. ASSUME NEW last \in Page, NEW u \in Found, ~Before(last, u)
      PROVE  u \in Page
  <2>1. Cardinality(Ahead(last)) < PageLimit
    BY DEF Page
  <2>2. Ahead(u) \subseteq Ahead(last)
    <3> SUFFICES ASSUME NEW v \in Found, Before(v, u) PROVE Before(v, last)
      OBVIOUS
    <3>1. /\ v \in Nat /\ u \in Nat /\ last \in Nat
          /\ stamp[v] \in Nat /\ stamp[u] \in Nat /\ stamp[last] \in Nat
      BY <1>1, <1>3
    <3> HIDE DEF Ahead
    <3> QED BY <1>7, <3>1 DEF Before
  <2>3. Cardinality(Ahead(u)) <= Cardinality(Ahead(last))
    BY <1>1, <1>4, <2>2, FS_Subset
  <2>4. Cardinality(Ahead(u)) < PageLimit
    BY <1>1, <1>4, <1>5, <2>1, <2>3
  <2> QED BY <2>4 DEF Page
<1> QED BY <1>1, <1>6, <1>7

LEMMA PullInitially == ASSUME PullAssumption, PullInit PROVE PullInv
<1> QED BY DEF PullAssumption, PullInit, PullInv, PullTypes, PullTimes, OpenIsYounger, MirrorIsCurrent,
           UnitsUpToCursor, ReferencesOfFirstPage, NoneBetween, Pulling, NoPull

(* The times a step needs, as numbers.                                      *)
LEMMA PullNumbers ==
    ASSUME PullAssumption, PullTypes
    PROVE  /\ \A r \in Rows : stamp[r] \in Nat /\ pending[r] \in Nat /\ mirror[r] \in Nat
           /\ Units \subseteq Rows /\ References \subseteq Rows /\ Units \subseteq Nat
           /\ Pulling => /\ pull \in Pulls
                         /\ pull.low \in Nat /\ pull.to \in Nat /\ pull.clock \in Nat /\ pull.first \in Nat
                         /\ pull.mode \in {"since", "windowed"} /\ pull.step \in {"ask", "answer"}
                         /\ pull.cursor[1] \in Nat /\ pull.cursor[2] \in Nat
                         /\ pull.cursor \in Nat \X Nat
<1> QED BY DEF PullAssumption, PullTypes, Pulling, Pulls, Rows

LEMMA UpdateKeepsPull ==
    ASSUME PullAssumption, PullInv, NEW S \in SUBSET Rows, Update(S)
    PROVE  PullInv'
<1>1. PullTypes'
  BY DEF PullInv, PullTypes, Update
<1>2. PullTimes'
  BY PullNumbers DEF PullInv, PullTypes, PullTimes, Update, Pulling, Continuing
<1>3. OpenIsYounger'
  BY PullNumbers DEF PullInv, PullTypes, PullTimes, OpenIsYounger, Update, Pulling
<1>4. MirrorIsCurrent' /\ UnitsUpToCursor' /\ ReferencesOfFirstPage' /\ NoneBetween'
  BY DEF PullInv, MirrorIsCurrent, UnitsUpToCursor, ReferencesOfFirstPage, NoneBetween,
         Pulling, Continuing, AfterCursor, FirstPageEnd, Update
<1> QED BY <1>1, <1>2, <1>3, <1>4 DEF PullInv

LEMMA CommitKeepsPull ==
    ASSUME PullAssumption, PullInv, NEW S \in SUBSET Rows, Commit(S)
    PROVE  PullInv'
<1>1. PICK t \in 1 .. now : S = {r \in Rows : pending[r] = t}
  BY DEF Commit
<1>2. \A r \in S : /\ r \in Rows /\ pending[r] # 0 /\ stamp'[r] = pending[r] /\ pending'[r] = 0
                   /\ r \in straddling => r \in late'
  BY <1>1 DEF Commit, PullInv, PullTypes
<1>3. \A r \in Rows \ S : /\ stamp'[r] = stamp[r] /\ pending'[r] = pending[r]
                          /\ r \in late => r \in late'
                          /\ r \in between => r \in between'
                          /\ r \in straddling => r \in straddling'
  BY DEF Commit
<1>4. UNCHANGED <<now, since, pull, mirror>> /\ between' \subseteq between
  BY DEF Commit
<1>5. \A r \in S \ late' : /\ stamp'[r] > since
                           /\ Pulling => stamp'[r] > pull.clock
  BY <1>2 DEF PullInv, OpenIsYounger
<1>6. PullTypes'
  <2>1. stamp' \in [Rows -> Nat] /\ pending' \in [Rows -> Nat]
    BY PullNumbers DEF PullInv, Commit
  <2> QED BY <1>2, <1>3, <1>4, <2>1, PullNumbers DEF PullInv, PullTypes
<1>7. PullTimes'
  <2> SUFFICES ASSUME Pulling, pull.mode = "windowed", NEW r \in Rows
               PROVE  stamp'[r] # pull.to /\ pending'[r] # pull.to
    BY <1>4 DEF PullInv, PullTimes, Pulling, Continuing
  <2> QED BY <1>2, <1>3, PullNumbers DEF PullInv, PullTimes
<1>8. OpenIsYounger'
  BY <1>2, <1>3, <1>4 DEF PullInv, OpenIsYounger, Pulling
<1>9. MirrorIsCurrent'
  <2> SUFFICES ASSUME NEW r \in Rows \ (late' \cup between'), stamp'[r] # 0, stamp'[r] <= since
               PROVE  mirror[r] = stamp'[r]
    BY <1>4 DEF MirrorIsCurrent
  <2>1. CASE r \in S
    <3>1. stamp'[r] = pending[r] /\ stamp'[r] > since
      BY <1>2, <1>5, <2>1
    <3> QED BY <3>1, PullNumbers DEF PullInv, PullTypes
  <2>2. CASE r \notin S
    BY <1>3, <2>2 DEF PullInv, MirrorIsCurrent
  <2> QED BY <2>1, <2>2
<1>10. UnitsUpToCursor'
  <2> SUFFICES ASSUME Pulling, NEW u \in Units \ late', stamp'[u] # 0, ~AfterCursor(u)'
               PROVE  mirror[u] = stamp'[u]
    BY <1>4 DEF UnitsUpToCursor, Pulling
  <2>1. u \in Rows /\ pull.cursor[1] <= pull.clock
    BY PullNumbers DEF PullInv, PullTimes
  <2>2. CASE u \in S
    BY <1>2, <1>4, <1>5, <2>1, <2>2, PullNumbers DEF PullInv, AfterCursor
  <2>3. CASE u \notin S
    BY <1>3, <1>4, <2>1, <2>3 DEF PullInv, UnitsUpToCursor, AfterCursor
  <2> QED BY <2>2, <2>3
<1>11. ReferencesOfFirstPage'
  <2> SUFFICES ASSUME Pulling, Continuing, NEW r \in References \ (late' \cup between'),
                      stamp'[r] # 0, stamp'[r] <= FirstPageEnd
               PROVE  mirror[r] = stamp'[r]
    BY <1>4 DEF ReferencesOfFirstPage, Pulling, Continuing, FirstPageEnd
  <2>1. FirstPageEnd <= pull.clock /\ FirstPageEnd \in Nat /\ pull.clock \in Nat /\ r \in Rows
    BY PullNumbers DEF PullInv, PullTimes, FirstPageEnd
  <2>2. CASE r \in S
    BY <1>2, <1>5, <2>1, <2>2, PullNumbers DEF PullInv
  <2>3. CASE r \notin S
    BY <1>3, <2>1, <2>3 DEF PullInv, ReferencesOfFirstPage
  <2> QED BY <2>2, <2>3
<1>12. NoneBetween'
  <2> SUFFICES ASSUME Pulling, Continuing, pull.mode = "since", pull.step = "answer",
                      NEW r \in References \ (late' \cup between')
               PROVE  stamp'[r] <= pull.first \/ stamp'[r] > pull.clock
    BY <1>4 DEF NoneBetween, Pulling, Continuing
  <2> QED BY <1>3, <1>5, PullNumbers DEF PullInv, NoneBetween
<1> QED BY <1>6, <1>7, <1>8, <1>9, <1>10, <1>11, <1>12 DEF PullInv

(* A new pull has no cursor yet, before which no row is.                    *)
LEMMA NewPull ==
    ASSUME PullAssumption, PullInv, ~Pulling,
           pull' \in Pulls, pull'.low = since, pull'.to <= now, pull'.cursor = Start, pull'.step = "ask",
           pull'.clock = 0, pull'.first = 0,
           pull'.mode = "windowed" =>
               since < pull'.to /\ \A r \in Rows : stamp[r] # pull'.to /\ pending[r] # pull'.to,
           UNCHANGED <<now, stamp, pending, since, mirror, losses, straddling, late, between>>
    PROVE  PullInv'
<1>1. PullTypes'
  BY DEF PullInv, PullTypes
<1>2. PullTimes'
  BY DEF PullInv, PullTypes, PullTimes, Continuing, Start
<1>3. OpenIsYounger'
  BY PullNumbers DEF PullInv, PullTypes, OpenIsYounger
<1>4. MirrorIsCurrent' /\ ReferencesOfFirstPage' /\ NoneBetween'
  BY DEF PullInv, MirrorIsCurrent, ReferencesOfFirstPage, NoneBetween, Continuing
<1>5. UnitsUpToCursor'
  BY PullNumbers DEF PullInv, UnitsUpToCursor, AfterCursor, Start
<1> QED BY <1>1, <1>2, <1>3, <1>4, <1>5 DEF PullInv

LEMMA StartPullKeepsPull ==
    ASSUME PullAssumption, PullInv, StartPull PROVE PullInv'
<1>1. pull' \in Pulls
  BY DEF StartPull, Pulls, PullInv, PullTypes, Start
<1> QED BY <1>1, NewPull DEF StartPull, Pulling, PullInv, PullTypes

LEMMA StartWindowKeepsPull ==
    ASSUME PullAssumption, PullInv, NEW to \in 1 .. now, StartWindow(to) PROVE PullInv'
<1>1. pull' \in Pulls /\ to <= now
  BY DEF StartWindow, Pulls, PullInv, PullTypes, Start
<1> QED BY <1>1, NewPull DEF StartWindow, Pulling, PullInv, PullTypes

LEMMA ReadClockKeepsPull ==
    ASSUME PullAssumption, PullInv, ReadClock PROVE PullInv'
<1>1. /\ Pulling /\ pull' \in Pulls /\ pull' # NoPull
      /\ pull'.mode = pull.mode /\ pull'.low = pull.low /\ pull'.to = pull.to
      /\ pull'.cursor = pull.cursor /\ pull'.step = "answer" /\ pull'.clock = now
      /\ pull'.first = IF Continuing THEN pull.first ELSE now
  BY PullNumbers DEF PullInv, PullTypes, Pulling, Continuing, Pulls, ReadClock, NoPull
<1>2. UNCHANGED <<now, stamp, pending, since, mirror, losses, late>> /\ between \subseteq between'
  BY DEF ReadClock
<1>3. PullTypes'
  <2>1. between' \subseteq References
    BY DEF ReadClock, PullInv, PullTypes
  <2> QED BY <1>1, <1>2, <2>1 DEF PullInv, PullTypes
<1>4. PullTimes'
  BY <1>1, <1>2, PullNumbers DEF PullInv, PullTypes, PullTimes, Continuing
<1>5. OpenIsYounger'
  BY DEF ReadClock, OpenIsYounger
<1>6. MirrorIsCurrent'
  BY <1>2 DEF PullInv, MirrorIsCurrent
<1>7. UnitsUpToCursor'
  BY <1>1, <1>2 DEF PullInv, UnitsUpToCursor, AfterCursor
<1>8. ReferencesOfFirstPage'
  BY <1>1, <1>2 DEF PullInv, ReferencesOfFirstPage, FirstPageEnd, Continuing
<1>9. NoneBetween'
  <2> SUFFICES ASSUME Continuing, pull.mode = "since",
                      NEW r \in References \ (late \cup between')
               PROVE  stamp[r] <= pull.first
    BY <1>1, <1>2 DEF NoneBetween, Continuing
  <2>1. between' = between \cup {x \in References : stamp[x] > pull.first}
    BY DEF ReadClock, Continuing
  <2> QED BY <1>1, <2>1, PullNumbers DEF PullInv
<1> QED BY <1>3, <1>4, <1>5, <1>6, <1>7, <1>8, <1>9 DEF PullInv

LEMMA LosePageKeepsPull ==
    ASSUME PullAssumption, PullInv, LosePage PROVE PullInv'
<1>1. UNCHANGED <<now, stamp, pending, since, mirror, straddling, late, between>>
  BY DEF LosePage
<1>2. CASE pull' = NoPull
  BY <1>1, <1>2 DEF PullInv, PullTypes, PullTimes, OpenIsYounger, MirrorIsCurrent,
           UnitsUpToCursor, ReferencesOfFirstPage, NoneBetween, Pulling
<1>3. CASE pull.step = "answer" /\ pull' = [pull EXCEPT !.step = "ask"]
  <2>1. /\ Pulling /\ pull' \in Pulls /\ pull' # NoPull
        /\ pull'.mode = pull.mode /\ pull'.low = pull.low /\ pull'.to = pull.to
        /\ pull'.cursor = pull.cursor /\ pull'.step = "ask" /\ pull'.clock = pull.clock
        /\ pull'.first = pull.first
    BY <1>3, PullNumbers DEF PullInv, PullTypes, Pulling, Pulls, LosePage, NoPull
  <2>2. PullTypes' /\ PullTimes'
    BY <1>1, <2>1 DEF PullInv, PullTypes, PullTimes, Continuing
  <2>3. OpenIsYounger' /\ MirrorIsCurrent' /\ NoneBetween'
    BY <1>1, <2>1 DEF PullInv, OpenIsYounger, MirrorIsCurrent, NoneBetween
  <2>4. UnitsUpToCursor' /\ ReferencesOfFirstPage'
    BY <1>1, <2>1 DEF PullInv, UnitsUpToCursor, AfterCursor, ReferencesOfFirstPage, FirstPageEnd, Continuing
  <2> QED BY <2>2, <2>3, <2>4 DEF PullInv
<1> QED BY <1>2, <1>3 DEF LosePage

(* What a page brings: below its end, every unit up to the last one of the  *)
(* page, all of them when it was not cut, and with the first the references. *)
LEMMA WhatAPageBrings ==
    ASSUME PullAssumption, PullInv, ReadPage
    PROVE  /\ \A r \in Rows : mirror'[r] \in {mirror[r], stamp[r]}
           /\ \A u \in Units \ late : stamp[u] # 0 /\ BelowHigh(stamp[u])
                 => mirror'[u] = stamp[u] \/ u \in Found \ Page
           /\ \A r \in References \ (late \cup between) :
                 stamp[r] # 0 /\ BelowHigh(stamp[r]) /\ (Continuing => stamp[r] <= FirstPageEnd)
                 => mirror'[r] = stamp[r]
<1>1. \A r \in Rows : mirror'[r] = IF r \in Page \cup ReferenceDelta THEN stamp[r] ELSE mirror[r]
  BY DEF ReadPage
<1>2. Pulling
  BY DEF ReadPage, Pulling
<1>3. \A r \in Rows \ (late \cup between) :
        stamp[r] # 0 /\ ~AboveLow(stamp[r]) => mirror[r] = stamp[r]
  BY <1>2, PullNumbers DEF PullInv, PullTimes, PullTypes, MirrorIsCurrent, AboveLow
<1>4. ASSUME NEW u \in Units \ late, stamp[u] # 0, BelowHigh(stamp[u]), u \notin Found
      PROVE  mirror[u] = stamp[u]
  <2>1. CASE Continuing
    BY <1>2, <1>4, <2>1 DEF Found, Continuing, PullInv, UnitsUpToCursor
  <2>2. CASE ~Continuing
    <3>1. ~AboveLow(stamp[u])
      BY <1>4, <2>2 DEF Found, Continuing, InWindow
    <3>2. u \in Rows \ (late \cup between)
      BY DEF Rows, PullInv, PullTypes, PullAssumption
    <3> QED BY <1>3, <1>4, <3>1, <3>2
  <2> QED BY <2>1, <2>2
<1>5. ASSUME NEW r \in References \ (late \cup between), stamp[r] # 0, BelowHigh(stamp[r]),
             Continuing => stamp[r] <= FirstPageEnd
      PROVE  mirror'[r] = stamp[r]
  <2>1. r \in Rows
    BY DEF Rows
  <2>2. CASE Continuing
    BY <1>1, <1>2, <1>5, <2>1, <2>2 DEF PullInv, ReferencesOfFirstPage
  <2>3. CASE ~Continuing /\ AboveLow(stamp[r])
    BY <1>1, <1>5, <2>1, <2>3 DEF ReferenceDelta, InWindow, Continuing
  <2>4. CASE ~Continuing /\ ~AboveLow(stamp[r])
    BY <1>1, <1>3, <1>5, <2>1, <2>4
  <2> QED BY <2>2, <2>3, <2>4
<1>6. Units \subseteq Rows
  BY DEF Rows
<1> QED BY <1>1, <1>4, <1>5, <1>6

LEMMA ReadPageKeepsPull ==
    ASSUME PullAssumption, PullInv, ReadPage PROVE PullInv'
<1>1. UNCHANGED <<now, stamp, pending, losses, straddling, late, between>>
  BY DEF ReadPage
<1>2. Pulling /\ pull.step = "answer"
  BY DEF ReadPage, Pulling
<1>3. mirror' \in [Rows -> Nat]
  <2>1. \A r \in Rows : stamp[r] \in Nat /\ mirror[r] \in Nat
    BY PullNumbers DEF PullInv
  <2> QED BY <2>1 DEF ReadPage
<1>4. \A t \in Nat : BelowHigh(t) => t <= pull.clock
  BY <1>2, PullNumbers DEF PullInv, PullTimes, BelowHigh
<1>5. CASE ~Truncated
  <2>1. pull' = NoPull /\ since' = NextSince
    BY <1>5 DEF ReadPage
  <2>2. since' \in Nat /\ since' <= pull.clock
    BY <1>2, <2>1, PullNumbers DEF PullInv, PullTimes, NextSince
  <2>3. PullTypes'
    BY <1>1, <1>2, <1>3, <2>1, <2>2, PullNumbers DEF PullInv, PullTypes, PullTimes
  <2>4. OpenIsYounger'
    BY <1>1, <1>2, <2>1, <2>2, PullNumbers DEF PullInv, OpenIsYounger, Pulling
  <2>5. MirrorIsCurrent'
    <3> SUFFICES ASSUME NEW r \in Rows \ (late \cup between), stamp[r] # 0, stamp[r] <= since'
                 PROVE  mirror'[r] = stamp[r]
      BY <1>1 DEF MirrorIsCurrent
    <3>1. BelowHigh(stamp[r])
      BY <1>2, <2>1, PullNumbers DEF PullInv, PullTimes, NextSince, BelowHigh
    <3>2. CASE r \in Units
      BY <1>5, <3>1, <3>2, WhatAPageBrings, PageIsABeginning DEF PullInv, PullTypes
    <3>3. CASE r \in References
      <4>1. Continuing => stamp[r] <= FirstPageEnd
        BY <1>2, <2>1, <3>1, <3>3, PullNumbers
           DEF PullInv, NoneBetween, FirstPageEnd, BelowHigh
      <4> QED BY <3>1, <3>3, <4>1, WhatAPageBrings
    <3> QED BY <3>2, <3>3 DEF Rows
  <2>6. PullTimes' /\ UnitsUpToCursor' /\ ReferencesOfFirstPage' /\ NoneBetween'
    BY <2>1 DEF PullTimes, UnitsUpToCursor, ReferencesOfFirstPage, NoneBetween, Pulling
  <2> QED BY <2>3, <2>4, <2>5, <2>6 DEF PullInv
<1>6. CASE Truncated
  <2>1. PICK last \in Page : /\ pull' = [pull EXCEPT !.cursor = <<stamp[last], last>>, !.step = "ask"]
                             /\ since' = since
    BY <1>6 DEF ReadPage
  <2>2. last \in Found /\ last \in Units /\ last \in Nat /\ stamp[last] \in Nat
    BY PullNumbers, PageIsABeginning DEF PullInv, PullTypes
  <2>3. stamp[last] # 0 /\ BelowHigh(stamp[last])
    BY <2>2 DEF Found, InWindow
  <2>4. /\ pull' \in Pulls /\ pull' # NoPull
        /\ pull'.mode = pull.mode /\ pull'.low = pull.low /\ pull'.to = pull.to
        /\ pull'.cursor = <<stamp[last], last>> /\ pull'.step = "ask" /\ pull'.clock = pull.clock
        /\ pull'.first = pull.first
    BY <1>2, <2>1, <2>2, PullNumbers DEF PullInv, PullTypes, Pulling, Pulls, NoPull
  <2>5. PullTypes'
    BY <1>1, <1>3, <2>1, <2>4 DEF PullInv, PullTypes
  <2>6. PullTimes'
    <3>1. pull'.cursor[1] <= pull.clock
      BY <1>4, <2>2, <2>3, <2>4
    <3> QED BY <1>1, <1>2, <2>1, <2>4, <3>1 DEF PullInv, PullTimes, Continuing
  <2>7. OpenIsYounger' /\ NoneBetween'
    BY <1>1, <1>2, <2>1, <2>4 DEF PullInv, OpenIsYounger, NoneBetween
  <2>8. MirrorIsCurrent'
    BY <1>1, <2>1, WhatAPageBrings DEF PullInv, MirrorIsCurrent
  <2>9. UnitsUpToCursor'
    <3> SUFFICES ASSUME NEW u \in Units \ late, stamp[u] # 0, ~AfterCursor(u)'
                 PROVE  mirror'[u] = stamp[u]
      BY <1>1 DEF UnitsUpToCursor
    <3>1. stamp[u] \in Nat /\ u \in Nat
      BY PullNumbers DEF PullInv
    <3>2. ~Before(last, u) /\ stamp[u] <= stamp[last]
      BY <1>1, <2>2, <2>4, <3>1 DEF AfterCursor, Before
    <3>3. BelowHigh(stamp[u])
      BY <1>2, <2>2, <2>3, <3>1, <3>2, PullNumbers DEF PullInv, BelowHigh
    <3>4. u \notin Found \ Page
      BY <2>1, <3>2, PageIsABeginning DEF PullInv, PullTypes
    <3> QED BY <3>3, <3>4, WhatAPageBrings
  <2>10. ReferencesOfFirstPage'
    <3> SUFFICES ASSUME NEW r \in References \ (late \cup between), stamp[r] # 0,
                        stamp[r] <= FirstPageEnd
                 PROVE  mirror'[r] = stamp[r]
      BY <1>1, <2>4 DEF ReferencesOfFirstPage, FirstPageEnd
    <3>1. BelowHigh(stamp[r])
      BY <1>2, PullNumbers DEF PullInv, PullTimes, FirstPageEnd, BelowHigh
    <3> QED BY <3>1, WhatAPageBrings
  <2> QED BY <2>5, <2>6, <2>7, <2>8, <2>9, <2>10 DEF PullInv
<1> QED BY <1>5, <1>6

LEMMA PullIdle == ASSUME PullInv, UNCHANGED pullVars PROVE PullInv'
<1> QED BY DEF pullVars, PullInv, PullTypes, PullTimes, OpenIsYounger, MirrorIsCurrent,
           UnitsUpToCursor, ReferencesOfFirstPage, NoneBetween, Pulling, Continuing,
           AfterCursor, FirstPageEnd

(* sync-pull.service.ts, for any rows, page size and clock: once a pull is  *)
(* complete the device has the current version of every row stamped up to   *)
(* its nextSince, but for rows of transactions open while a pull read the   *)
(* clock and references written between two pages.                          *)
THEOREM MirrorStaysCurrent ==
    ASSUME PullAssumption PROVE PullSpec => []MirrorIsCurrent
<1>1. PullInit => PullInv
  BY PullInitially
<1>2. PullInv /\ [PullNext]_pullVars => PullInv'
  BY UpdateKeepsPull, CommitKeepsPull, StartPullKeepsPull, StartWindowKeepsPull,
     ReadClockKeepsPull, ReadPageKeepsPull, LosePageKeepsPull, PullIdle DEF PullNext
<1>3. PullInv => MirrorIsCurrent
  BY DEF PullInv
<1> QED BY <1>1, <1>2, <1>3, PTL DEF PullSpec
===============================================================================
