------------------------------ MODULE SupplyChain ------------------------------
(***************************************************************************)
(* The supply side: purchase orders, the supplier's proforma invoices for  *)
(* them, the shipments that answer them and the receipt of units.  Three   *)
(* services write the status of a purchase order: its own, proforma        *)
(* approval (which pulls it forward) and receipt completion (which sets it *)
(* to partially or fully received).                                        *)
(*                                                                         *)
(* Requests run as in SalesOrders: validation outside the transaction, the *)
(* reads of the transaction in a Begin step, its writes at the commit, by  *)
(* id.  createProforma alone locks a row it has only read.                 *)
(*                                                                         *)
(* Source: src/src/purchase-orders/{purchase-orders.service,state-machine},*)
(* src/src/proforma-invoices/proforma-invoices.service,                    *)
(* src/src/shipments/{shipments.service,state-machine}.ts                  *)
(***************************************************************************)
EXTENDS Integers, Sequences, FiniteSets, FiniteSetsExt, SequencesExt

CONSTANTS
    Orders, Proformas, Shipments, ManifestLines,   \* rows that may come to exist
    Engines, Chassis,    \* the numbers stamped on the kits
    None,                \* SQL NULL
    Baskets,             \* sets of purchase order lines a client may ask for
    TotalOf,             \* computeTotal of the lines of a set of baskets
    QuantityOf,          \* their SUM of quantityOrdered
    Quantities,          \* bound: declared quantities
    Requests,            \* the requests the backend can be serving at one time
    Endpoints,           \* the operations clients call
    MaxReceipt           \* bound: units of one receipt request

Ops == {"createOrder", "updateOrder", "submitOrder", "approveOrder",
        "createProforma", "approveProforma", "rejectProforma",
        "createShipment", "updateShipment", "receive", "resolveVariance",
        "completeReceipt", "closeShipment"}

ASSUME SupplyAssumption ==
    /\ None \notin Orders \cup Proformas \cup Shipments \cup ManifestLines \cup Baskets
    /\ TotalOf \in [SUBSET Baskets -> Nat]
    /\ QuantityOf \in [SUBSET Baskets -> Nat]
    /\ Quantities \subseteq Nat \ {0}
    /\ Endpoints \subseteq Ops
    /\ MaxReceipt \in Nat

VARIABLES
    order,      \* PurchaseOrder rows: status, the baskets its lines are of, totalValue
    pi,         \* ProformaInvoice rows: order, revisionNumber, status
    ship,       \* Shipment rows: order, status
    line,       \* ManifestLine rows
    units,      \* the identities of the units received, and their shipment
    req         \* what each request has read so far

rows == <<order, pi, ship, line, units>>
vars == <<rows, req>>

(* PO_LIFECYCLE_ORDER.  CANCELLED is off the line and has rank -1 in the    *)
(* code; no operation of the backend sets it.                               *)
Lifecycle == <<"DRAFT", "PENDING_APPROVAL", "APPROVED", "SENT_TO_SUPPLIER", "PI_RECEIVED",
               "AWAITING_SHIPMENT", "PARTIALLY_RECEIVED", "FULLY_RECEIVED", "CLOSED">>
PoStatus == ToSet(Lifecycle)
Rank(s) == CHOOSE n \in DOMAIN Lifecycle : Lifecycle[n] = s

(* PO_STATE_TRANSITIONS, as far as submit and approve use it.               *)
PoCanMove(from, to) ==
    \/ from = "DRAFT" /\ to = "PENDING_APPROVAL"
    \/ from = "PENDING_APPROVAL" /\ to = "APPROVED"

PiStatus == {"PENDING_REVIEW", "ACTIVE", "SUPERSEDED", "REJECTED"}

(* SHIPMENT_STATE_TRANSITIONS: strictly linear.                             *)
Voyage == <<"IN_TRANSIT", "AT_PORT", "CLEARING", "CLEARED", "RECEIVED", "CLOSED">>
ShipStatus == ToSet(Voyage)
ShipCanMove(from, to) ==
    \E n \in 1 .. (Len(Voyage) - 1) : from = Voyage[n] /\ to = Voyage[n + 1]
PatchTargets == {"AT_PORT", "CLEARING", "CLEARED"}

(* assertReachableViaPatch and assertShipmentTransition.                     *)
(* Mutated form: PATCH asks only for the target.                            *)
AnyPatchTarget(from, to) == to \in PatchTargets
Patchable(from, to) == to \in PatchTargets /\ ShipCanMove(from, to)

ManifestEditable(s) == ship[s].status \notin {"RECEIVED", "CLOSED"}

NoRow == "NONE"
Scan == [line : ManifestLines, engine : Engines, chassis : Chassis]
Entry == [line : ManifestLines, declared : Quantities]
NoReceipts == [l \in ManifestLines |-> 0]

(* What a request remembers: the rows it is for, the lines or manifest or   *)
(* units it brings, the status it asks for, what its transaction has read   *)
(* (received counts, proformas to supersede, a revision number, whether to  *)
(* move the order on), how far that transaction is, and whether the rows    *)
(* its deleteMany saw are still the lines of the order or shipment.         *)
Ask(op, o, p, s) ==
    [op |-> op, order |-> o, pi |-> p, ship |-> s,
     basket |-> None, manifest |-> {}, to |-> None, batch |-> {}, lines |-> {},
     seen |-> NoReceipts, olds |-> {}, revision |-> 0, advance |-> FALSE,
     begun |-> 0, covers |-> FALSE]

Idle == Ask("idle", None, None, None)

Request ==
    [op : Ops \cup {"idle"}, order : Orders \cup {None}, pi : Proformas \cup {None},
     ship : Shipments \cup {None}, basket : Baskets \cup {None}, manifest : SUBSET Entry,
     to : ShipStatus \cup {None}, batch : SUBSET Scan, lines : SUBSET ManifestLines,
     seen : [ManifestLines -> Nat], olds : SUBSET Proformas, revision : Nat,
     advance : BOOLEAN, begun : 0 .. 2, covers : BOOLEAN]

Order == [status : PoStatus, baskets : SUBSET Baskets, total : Nat]
Proforma == [order : Orders, revision : Nat, status : PiStatus]
Shipment == [order : Orders, status : ShipStatus]
ManifestLine == [ship : Shipments, declared : Nat, received : Nat, variance : Int,
                 resolved : BOOLEAN]
Unit == [engine : Engines, chassis : Chassis, ship : Shipments]

(* A row that does not exist (yet, or any more) has no fields to speak of.  *)
Absent == [status |-> NoRow]

TypeOK ==
    /\ order \in [Orders -> Order \cup {Absent}]
    /\ pi \in [Proformas -> Proforma \cup {Absent}]
    /\ ship \in [Shipments -> Shipment \cup {Absent}]
    /\ line \in [ManifestLines -> ManifestLine \cup {Absent}]
    /\ units \in SUBSET Unit
    /\ req \in [Requests -> Request]

Init ==
    /\ order = [o \in Orders |-> Absent]
    /\ pi = [p \in Proformas |-> Absent]
    /\ ship = [s \in Shipments |-> Absent]
    /\ line = [l \in ManifestLines |-> Absent]
    /\ units = {}
    /\ req = [r \in Requests |-> Idle]

OrdersThatExist == {o \in Orders : order[o] # Absent}
ProformasOf(o) == {p \in Proformas : pi[p] # Absent /\ pi[p].order = o}
LinesOf(s) == {l \in ManifestLines : line[l] # Absent /\ line[l].ship = s}
Active(o) == {p \in ProformasOf(o) : pi[p].status = "ACTIVE"}
ShipmentsOf(o) == {s \in Shipments : ship[s] # Absent /\ ship[s].order = o}
ReceivedFor(o) ==
    MapThenSumSet(LAMBDA l : line[l].received, UNION {LinesOf(s) : s \in ShipmentsOf(o)})

-------------------------------------------------------------------------------
(* Validation outside the transaction, of a request that has just come in   *)
(* (its slot is Idle, see ValidateOrder and its siblings).                  *)

Accept(r, q) ==
    /\ q.op \in Endpoints
    /\ req' = [req EXCEPT ![r] = q]
    /\ UNCHANGED rows

CreateOrder(r, o, b) ==
    /\ order[o] = Absent
    /\ \A q \in Requests : req[q].order # o       \* a fresh id
    /\ Accept(r, [Ask("createOrder", o, None, None) EXCEPT !.basket = b])

OrderEditable(o) == order[o].status = "DRAFT"

UpdateOrder(r, o, b) ==
    /\ OrderEditable(o)
    /\ Accept(r, [Ask("updateOrder", o, None, None) EXCEPT !.basket = b])

SubmitOrder(r, o) ==
    /\ PoCanMove(order[o].status, "PENDING_APPROVAL")
    /\ Accept(r, Ask("submitOrder", o, None, None))

ApproveOrder(r, o) ==
    /\ PoCanMove(order[o].status, "APPROVED")
    /\ Accept(r, Ask("approveOrder", o, None, None))

CreateProforma(r, o, p) ==
    /\ order[o] # Absent
    /\ pi[p] = Absent
    /\ \A q \in Requests : req[q].pi # p          \* a fresh id
    /\ Accept(r, Ask("createProforma", o, p, None))

(* Mutated form: a proforma can be decided again.                           *)
AlsoDecided(p) == pi[p] # Absent
UnderReview(p) == pi[p].status = "PENDING_REVIEW"

ApproveProforma(r, p) ==
    /\ UnderReview(p)
    /\ Accept(r, Ask("approveProforma", pi[p].order, p, None))

RejectProforma(r, p) ==
    /\ UnderReview(p)
    /\ Accept(r, Ask("rejectProforma", pi[p].order, p, None))

(* Manifest lines are inserted with fresh ids.                              *)
Fresh(new) ==
    \A e \in new :
        /\ line[e.line] = Absent
        /\ \A q \in Requests :
              /\ e.line \notin req[q].lines
              /\ \A f \in req[q].manifest : f.line # e.line

CreateShipment(r, o, s, new) ==
    /\ order[o] # Absent
    /\ ship[s] = Absent
    /\ \A q \in Requests : req[q].ship # s        \* a fresh id
    /\ new # {} /\ Fresh(new)
    /\ Accept(r, [Ask("createShipment", o, None, s) EXCEPT !.manifest = new])

(* PATCH replaces the manifest (new # {}), moves the status (to # None) or  *)
(* both.                                                                    *)
UpdateShipment(r, s, new, to) ==
    /\ ship[s] # Absent
    /\ new # {} \/ to # None
    /\ new # {} => ManifestEditable(s) /\ Fresh(new)
    /\ to # None => Patchable(ship[s].status, to)
    /\ Accept(r, [Ask("updateShipment", ship[s].order, None, s)
                     EXCEPT !.manifest = new, !.to = to])

(* Two units are the same one for the receipt if they share a number: both  *)
(* numbers are unique.                                                      *)
(* Mutated form: the chassis number is not looked at.                       *)
EngineClash(a, b) == a.engine = b.engine
Clash(a, b) == a.engine = b.engine \/ a.chassis = b.chassis

(* collectReceiptDuplicates: within the batch and against the database.     *)
Duplicates(batch) ==
    {a \in batch : (\E b \in batch \ {a} : Clash(a, b)) \/ (\E u \in units : Clash(a, u))}

Receive(r, s, batch) ==
    /\ ship[s] # Absent
    /\ batch # {} /\ Duplicates(batch) = {}
    /\ Accept(r, [Ask("receive", ship[s].order, None, s)
                     EXCEPT !.batch = batch, !.lines = {a.line : a \in batch}])

(* Any line of the shipment, whatever the status of the shipment.           *)
ResolveVariance(r, s, ls) ==
    /\ ls # {} /\ ls \subseteq LinesOf(s)
    /\ Accept(r, [Ask("resolveVariance", ship[s].order, None, s) EXCEPT !.lines = ls])

CompleteReceipt(r, s) ==
    /\ ship[s] # Absent
    /\ Accept(r, Ask("completeReceipt", ship[s].order, None, s))

Settled(l) == line[l].variance = 0 \/ line[l].resolved

(* I-7 is checked here, on the lines read here.                             *)
(* Mutated form: one settled line lets the shipment close.                  *)
OneSettled(s) == \E l \in LinesOf(s) : Settled(l)
AllSettled(s) == \A l \in LinesOf(s) : Settled(l)

CloseShipment(r, s) ==
    /\ ShipCanMove(ship[s].status, "CLOSED")
    /\ AllSettled(s)
    /\ Accept(r, Ask("closeShipment", ship[s].order, None, s))

-------------------------------------------------------------------------------
(* Reads inside the transaction.                                            *)

Ready(r, op) == req[r].op = op /\ req[r].begun = 0

Begun(r, changed) ==
    /\ req' = [req EXCEPT ![r] = changed]
    /\ UNCHANGED rows

(* The deleteMany of the order's or the shipment's lines.                   *)
BeginReplace(r) ==
    /\ Ready(r, "updateOrder") \/ (Ready(r, "updateShipment") /\ req[r].manifest # {})
    /\ Begun(r, [req[r] EXCEPT !.begun = 1, !.covers = TRUE])

(* SELECT ... FOR UPDATE on the purchase order, then MAX(revisionNumber)+1. *)
(* Mutated form: the row is read without a lock.                            *)
NotLocked(r) == TRUE
OrderLocked(r) ==
    \A q \in Requests \ {r} :
        ~(req[q].op = "createProforma" /\ req[q].begun = 1 /\ req[q].order = req[r].order)

NextRevision(o) == Max({0} \cup {pi[p].revision : p \in ProformasOf(o)}) + 1

BeginProforma(r) ==
    /\ Ready(r, "createProforma")
    /\ OrderLocked(r)
    /\ Begun(r, [req[r] EXCEPT !.begun = 1, !.revision = NextRevision(req[r].order)])

(* The proformas whose row a transaction has updated stay locked until it   *)
(* commits.                                                                 *)
Updating(p) == {q \in Requests : req[q].op = "approveProforma" /\ req[q].begun = 1
                                 /\ p \in req[q].olds \cup {req[q].pi}}

(* Mutated forms: the order is never, or always, taken to PI_RECEIVED.      *)
StaysBehind(o) == FALSE
AlwaysMoved(o) == TRUE
PullForward(o) == Rank(order[o].status) < Rank("PI_RECEIVED")

(* approve supersedes the ACTIVE proformas it sees, activates its own and   *)
(* reads the order.                                                         *)
BeginApprove(r) ==
    LET o == req[r].order IN
    /\ Ready(r, "approveProforma")
    /\ Updating(req[r].pi) = {}
    /\ \A p \in Active(o) : Updating(p) = {}
    /\ Begun(r, [req[r] EXCEPT !.begun = 1, !.olds = Active(o), !.advance = PullForward(o)])

(* The lines a receipt names are on the shipment, which is CLEARED; their   *)
(* counts are read once, at the start.                                      *)
Receivable(r) ==
    /\ ship[req[r].ship].status = "CLEARED"
    /\ req[r].lines \subseteq LinesOf(req[r].ship)

BeginReceive(r) ==
    /\ Ready(r, "receive")
    /\ Receivable(r)
    /\ Begun(r, [req[r] EXCEPT !.begun = 1,
                    !.seen = [l \in ManifestLines |-> IF l \in req[r].lines
                                                      THEN line[l].received ELSE 0]])

BeginComplete(r) ==
    /\ Ready(r, "completeReceipt")
    /\ ShipCanMove(ship[req[r].ship].status, "RECEIVED")
    /\ Begun(r, [req[r] EXCEPT !.begun = 1])

(* I-6: what the order's shipments have received against what it ordered,   *)
(* summed once the shipment's row is updated, hence locked.                 *)
FullyReceived(o) == ReceivedFor(o) >= QuantityOf[order[o].baskets]

CountReceipts(r) ==
    /\ req[r].op = "completeReceipt" /\ req[r].begun = 1
    /\ \A q \in Requests : ~(req[q].op = "completeReceipt" /\ req[q].begun = 2
                             /\ req[q].ship = req[r].ship)
    /\ Begun(r, [req[r] EXCEPT !.begun = 2, !.advance = FullyReceived(req[r].order)])

-------------------------------------------------------------------------------
(* Commits.                                                                 *)

Finished(r) == req' = [req EXCEPT ![r] = Idle]

CommitOrder(r) ==
    LET b == req[r].basket IN
    /\ req[r].op = "createOrder"
    /\ order' = [order EXCEPT ![req[r].order] =
                    [status |-> "DRAFT", baskets |-> {b}, total |-> TotalOf[{b}]]]
    /\ Finished(r)
    /\ UNCHANGED <<pi, ship, line, units>>

(* The lines a replacement's deleteMany saw are gone for the others, too.   *)
FinishedReplacing(r, others) ==
    req' = [q \in Requests |->
              IF q = r THEN Idle
              ELSE IF q \in others THEN [req[q] EXCEPT !.covers = FALSE] ELSE req[q]]

Kept(r) == IF req[r].covers THEN {} ELSE order[req[r].order].baskets

CommitUpdateOrder(r) ==
    LET o == req[r].order
        b == req[r].basket
    IN  /\ req[r].op = "updateOrder" /\ req[r].begun = 1
        /\ order' = [order EXCEPT ![o].baskets = Kept(r) \cup {b}, ![o].total = TotalOf[{b}]]
        /\ FinishedReplacing(r, {q \in Requests : req[q].op = "updateOrder" /\ req[q].order = o})
        /\ UNCHANGED <<pi, ship, line, units>>

StatusAfter(op) == IF op = "submitOrder" THEN "PENDING_APPROVAL" ELSE "APPROVED"

CommitStatus(r) ==
    /\ req[r].op \in {"submitOrder", "approveOrder"}
    /\ order' = [order EXCEPT ![req[r].order].status = StatusAfter(req[r].op)]
    /\ Finished(r)
    /\ UNCHANGED <<pi, ship, line, units>>

CommitProforma(r) ==
    /\ req[r].op = "createProforma" /\ req[r].begun = 1
    /\ pi' = [pi EXCEPT ![req[r].pi] =
                 [order |-> req[r].order, revision |-> req[r].revision,
                  status |-> "PENDING_REVIEW"]]
    /\ Finished(r)
    /\ UNCHANGED <<order, ship, line, units>>

(* The partial unique index one_active_pi_per_po admits the activation.     *)
(* Mutated form: no index.                                                  *)
AlwaysAdmitted(r) == TRUE
Admitted(r) == Active(req[r].order) \subseteq req[r].olds \cup {req[r].pi}

CommitApprove(r) ==
    LET o == req[r].order
        p == req[r].pi
    IN  /\ req[r].op = "approveProforma" /\ req[r].begun = 1
        /\ Admitted(r)
        /\ pi' = [q \in Proformas |->
                    IF q = p THEN [pi[q] EXCEPT !.status = "ACTIVE"]
                    ELSE IF q \in req[r].olds THEN [pi[q] EXCEPT !.status = "SUPERSEDED"]
                    ELSE pi[q]]
        /\ order' = [order EXCEPT ![o].status = IF req[r].advance THEN "PI_RECEIVED" ELSE @]
        /\ Finished(r)
        /\ UNCHANGED <<ship, line, units>>

CommitReject(r) ==
    /\ req[r].op = "rejectProforma"
    /\ Updating(req[r].pi) = {}
    /\ pi' = [pi EXCEPT ![req[r].pi].status = "REJECTED"]
    /\ Finished(r)
    /\ UNCHANGED <<order, ship, line, units>>

(* A line inserted for shipment s: its variance defaults to 0, not to what  *)
(* is still missing.                                                        *)
NewLine(new, s, l) ==
    [ship |-> s, declared |-> (CHOOSE e \in new : e.line = l).declared,
     received |-> 0, variance |-> 0, resolved |-> FALSE]
Named(new) == {e.line : e \in new}

CommitShipment(r) ==
    LET s == req[r].ship IN
    /\ req[r].op = "createShipment"
    /\ ship' = [ship EXCEPT ![s] = [order |-> req[r].order, status |-> "IN_TRANSIT"]]
    /\ line' = [l \in ManifestLines |->
                  IF l \in Named(req[r].manifest) THEN NewLine(req[r].manifest, s, l)
                  ELSE line[l]]
    /\ Finished(r)
    /\ UNCHANGED <<order, pi, units>>

CommitUpdateShipment(r) ==
    LET s == req[r].ship
        gone == IF req[r].covers THEN LinesOf(s) ELSE {}
    IN  /\ req[r].op = "updateShipment"
        /\ req[r].manifest # {} => req[r].begun = 1
        /\ line' = [l \in ManifestLines |->
                      IF l \in Named(req[r].manifest) THEN NewLine(req[r].manifest, s, l)
                      ELSE IF l \in gone THEN Absent
                      ELSE line[l]]
        /\ ship' = [ship EXCEPT ![s].status = IF req[r].to = None THEN @ ELSE req[r].to]
        /\ IF req[r].manifest = {} THEN Finished(r)
           ELSE FinishedReplacing(r, {q \in Requests : /\ req[q].op = "updateShipment"
                                                      /\ req[q].ship = s})
        /\ UNCHANGED <<order, pi, units>>

(* The counts are written as numbers computed from what was read, the       *)
(* variance with them.  The unique indexes admit the new units.             *)
NewCount(r, l) == req[r].seen[l] + Cardinality({a \in req[r].batch : a.line = l})
NewVariance(r, l) == NewCount(r, l) - line[l].declared

CommitReceive(r) ==
    LET s == req[r].ship IN
    /\ req[r].op = "receive" /\ req[r].begun = 1
    /\ req[r].lines \subseteq LinesOf(s)
    /\ Duplicates(req[r].batch) = {}
    /\ units' = units \cup {[engine |-> a.engine, chassis |-> a.chassis, ship |-> s] :
                              a \in req[r].batch}
    /\ line' = [l \in ManifestLines |->
                  IF l \in req[r].lines
                  THEN [line[l] EXCEPT !.received = NewCount(r, l), !.variance = NewVariance(r, l)]
                  ELSE line[l]]
    /\ Finished(r)
    /\ UNCHANGED <<order, pi, ship>>

CommitResolve(r) ==
    /\ req[r].op = "resolveVariance"
    /\ req[r].lines \subseteq LinesOf(req[r].ship)
    /\ line' = [l \in ManifestLines |->
                  IF l \in req[r].lines THEN [line[l] EXCEPT !.resolved = TRUE] ELSE line[l]]
    /\ Finished(r)
    /\ UNCHANGED <<order, pi, ship, units>>

CommitComplete(r) ==
    /\ req[r].op = "completeReceipt" /\ req[r].begun = 2
    /\ ship' = [ship EXCEPT ![req[r].ship].status = "RECEIVED"]
    /\ order' = [order EXCEPT ![req[r].order].status =
                    IF req[r].advance THEN "FULLY_RECEIVED" ELSE "PARTIALLY_RECEIVED"]
    /\ Finished(r)
    /\ UNCHANGED <<pi, line, units>>

CommitClose(r) ==
    /\ req[r].op = "closeShipment"
    /\ ship' = [ship EXCEPT ![req[r].ship].status = "CLOSED"]
    /\ Finished(r)
    /\ UNCHANGED <<order, pi, line, units>>

(* A 409, a unique violation or a row that is gone: the transaction rolls   *)
(* back.                                                                    *)
Refuse(r) ==
    /\ \/ req[r].op = "approveProforma" /\ req[r].begun = 1 /\ ~Admitted(r)
       \/ Ready(r, "receive") /\ ~Receivable(r)
       \/ req[r].op = "receive" /\ req[r].begun = 1 /\ Duplicates(req[r].batch) # {}
       \/ /\ req[r].op \in {"receive", "resolveVariance"}
          /\ ~(req[r].lines \subseteq LinesOf(req[r].ship))
       \/ Ready(r, "completeReceipt") /\ ~ShipCanMove(ship[req[r].ship].status, "RECEIVED")
    /\ Finished(r)
    /\ UNCHANGED rows

(* The process dies before the commit: the database rolls back.             *)
Lose(r) ==
    /\ req[r] # Idle
    /\ Finished(r)
    /\ UNCHANGED rows

-------------------------------------------------------------------------------
(* The manifests and the receipts clients may send.                         *)
Manifests ==
    UNION {{{[line |-> l, declared |-> f[l]] : l \in S} : f \in [S -> Quantities]} :
             S \in SUBSET ManifestLines}
Receipts ==
    LET Scans == [line : UNION {LinesOf(s) : s \in Shipments}, engine : Engines,
                  chassis : Chassis]
    IN  {batch \in UNION {kSubset(n, Scans) : n \in 1 .. MaxReceipt} : IsFiniteSet(batch)}

ValidateOrder(r) ==
    /\ req[r] = Idle
    /\ \E o \in Orders :
         \/ \E b \in Baskets : CreateOrder(r, o, b) \/ UpdateOrder(r, o, b)
         \/ SubmitOrder(r, o) \/ ApproveOrder(r, o)

ValidateProforma(r) ==
    /\ req[r] = Idle
    /\ \E p \in Proformas :
         \/ \E o \in Orders : CreateProforma(r, o, p)
         \/ ApproveProforma(r, p) \/ RejectProforma(r, p)

ValidateShipment(r) ==
    /\ req[r] = Idle
    /\ \E s \in Shipments :
         \/ \E o \in Orders, new \in Manifests : CreateShipment(r, o, s, new)
         \/ \E new \in Manifests, to \in PatchTargets \cup {None} : UpdateShipment(r, s, new, to)
         \/ \E batch \in Receipts : Receive(r, s, batch)
         \/ \E ls \in SUBSET ManifestLines : ResolveVariance(r, s, ls)
         \/ CompleteReceipt(r, s) \/ CloseShipment(r, s)

Begin(r) ==
    \/ BeginReplace(r) \/ BeginProforma(r) \/ BeginApprove(r) \/ BeginReceive(r)
    \/ BeginComplete(r) \/ CountReceipts(r)

Commit(r) ==
    \/ CommitOrder(r) \/ CommitUpdateOrder(r) \/ CommitStatus(r)
    \/ CommitProforma(r) \/ CommitApprove(r) \/ CommitReject(r)
    \/ CommitShipment(r) \/ CommitUpdateShipment(r) \/ CommitReceive(r)
    \/ CommitResolve(r) \/ CommitComplete(r) \/ CommitClose(r)

Next ==
    \E r \in Requests :
        \/ ValidateOrder(r) \/ ValidateProforma(r) \/ ValidateShipment(r)
        \/ Begin(r) \/ Commit(r) \/ Refuse(r) \/ Lose(r)

Spec == Init /\ [][Next]_vars

-------------------------------------------------------------------------------
(* Properties.                                                              *)

(* I-5, for any number of concurrent requests: a purchase order has at most *)
(* one ACTIVE proforma.  approve supersedes only the ones it sees; the      *)
(* partial unique index refuses what it could not see.                      *)
OneActiveProforma == \A o \in Orders : \A p, q \in Active(o) : p = q

(* The revisions of an order are numbered 1, 2, 3 ... without a duplicate   *)
(* or a gap, for any number of concurrent requests: createProforma takes    *)
(* MAX + 1 under a lock of the order's row.                                 *)
RevisionsCount ==
    \A o \in Orders : {pi[p].revision : p \in ProformasOf(o)} = 1 .. Cardinality(ProformasOf(o))

(* An engine or a chassis number identifies one unit in the warehouse,      *)
(* however many receipts name it.                                           *)
IdentitiesAreUnique ==
    \A u, v \in units : u.engine = v.engine \/ u.chassis = v.chassis => u = v

(* An order with an ACTIVE proforma is at PI_RECEIVED or beyond, so it can  *)
(* be neither edited nor submitted any more: the agreed lines stand.        *)
AgreedOrdersStand ==
    \A o \in OrdersThatExist : Active(o) # {} => Rank(order[o].status) >= Rank("PI_RECEIVED")

(* A proforma is decided once, and an approved one only gives way to a      *)
(* later approval for the same order.                                       *)
ProformasAreDecidedOnce ==
    [][\A p \in Proformas : (pi[p] # Absent /\ pi'[p] # pi[p]) =>
          \/ pi[p].status = "PENDING_REVIEW" /\ pi'[p].status \in {"ACTIVE", "REJECTED"}
          \/ /\ pi[p].status = "ACTIVE" /\ pi'[p].status = "SUPERSEDED"
             /\ \E q \in ProformasOf(pi[p].order) \ {p} : pi'[q].status = "ACTIVE"]_vars

(* I-7 as the code checks it: no line of a CLOSED shipment has a recorded   *)
(* variance that nobody resolved; neither its manifest nor its counts       *)
(* change after receipt.                                                    *)
ClosedShipmentsSettled ==
    \A s \in Shipments : ship[s].status = "CLOSED" => \A l \in LinesOf(s) : Settled(l)

(* I-7 as it is meant: a shipment closes only when what was declared has    *)
(* been received or the difference has been resolved.                       *)
ClosedShipmentsAccountedFor ==
    \A s \in Shipments : ship[s].status = "CLOSED" =>
        \A l \in LinesOf(s) : line[l].received = line[l].declared \/ line[l].resolved

(* Shipments move along SHIPMENT_STATE_TRANSITIONS, one leg at a time.      *)
ShipmentsFollowStateMachine ==
    [][\A s \in Shipments : ship[s] # Absent =>
          (ship'[s].status # ship[s].status => ShipCanMove(ship[s].status, ship'[s].status))]_vars

(* The order of a received shipment knows: receipt completion takes it to   *)
(* PARTIALLY or FULLY_RECEIVED and proforma approval never takes it back.   *)
ReceiptsReachOrder ==
    \A s \in Shipments : ship[s].status \in {"RECEIVED", "CLOSED"} =>
        order[ship[s].order].status \in {"PARTIALLY_RECEIVED", "FULLY_RECEIVED"}

(* I-6: once all of an order's shipments are received, it is FULLY_RECEIVED *)
(* exactly if the units it ordered have arrived.                            *)
FullyReceivedMeansUnits ==
    \A o \in OrdersThatExist :
        /\ ShipmentsOf(o) # {}
        /\ \A s \in ShipmentsOf(o) : ship[s].status \in {"RECEIVED", "CLOSED"}
        => (order[o].status = "FULLY_RECEIVED" <=>
              Cardinality({u \in units : u.ship \in ShipmentsOf(o)})
                >= QuantityOf[order[o].baskets])
=============================================================================
