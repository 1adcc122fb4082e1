--------------------------- MODULE SupplyChainProofs ---------------------------
(***************************************************************************)
(* What holds of the supply side for all orders, proformas, shipments and  *)
(* units and any number of concurrent requests: value types, at most one   *)
(* ACTIVE proforma per order, revisions without duplicates or gaps, and    *)
(* engine and chassis numbers that identify a unit.  Last, what holds when *)
(* requests are served one at a time: what the three services that write   *)
(* the status of a purchase order leave of it, and the lives of proformas  *)
(* and shipments.                                                          *)
(***************************************************************************)
EXTENDS SupplyChain, FiniteSetTheorems, TLAPS

PiOps == {"createProforma", "approveProforma", "rejectProforma"}
ShipOps == {"createShipment", "updateShipment", "receive", "resolveVariance",
            "completeReceipt", "closeShipment"}

(* The rows a request is for exist, except the one it is to insert.         *)
Sound(q) ==
    /\ q.op \in Ops => q.order \in Orders
    /\ q.op \in Ops \ {"createOrder"} => order[q.order] # Absent
    /\ q.op \in {"createOrder", "updateOrder"} => q.basket \in Baskets
    /\ q.op \in PiOps => q.pi \in Proformas
    /\ q.op \notin PiOps => q.pi = None
    /\ q.op = "createProforma" => pi[q.pi] = Absent
    /\ q.op \in {"approveProforma", "rejectProforma"} =>
          pi[q.pi] # Absent /\ pi[q.pi].order = q.order
    /\ q.olds # {} => q.op = "approveProforma"
    /\ \A p \in q.olds : pi[p] # Absent /\ pi[p].order = q.order
    /\ q.op \in ShipOps => q.ship \in Shipments
    /\ q.op \in ShipOps \ {"createShipment"} => ship[q.ship] # Absent
    /\ IsFiniteSet(q.batch)

RowsRefer ==
    /\ \A p \in Proformas : pi[p] # Absent => order[pi[p].order] # Absent
    /\ \A s \in Shipments : ship[s] # Absent => order[ship[s].order] # Absent
    /\ \A l \in ManifestLines : line[l] # Absent => ship[line[l].ship] # Absent

References ==
    /\ RowsRefer
    /\ \A r \in Requests : Sound(req[r])
    /\ \A r \in Requests : \A q \in Requests \ {r} :
          req[r].op = "createProforma" => req[q].pi # req[r].pi

-------------------------------------------------------------------------------
(* Values.                                                                  *)

LEMMA PoStatuses ==
    /\ {"DRAFT", "PENDING_APPROVAL", "APPROVED", "PI_RECEIVED",
        "PARTIALLY_RECEIVED", "FULLY_RECEIVED"} \subseteq PoStatus
    /\ NoRow \notin PoStatus
<1>1. /\ DOMAIN Lifecycle = 1 .. 9
      /\ Lifecycle[1] = "DRAFT" /\ Lifecycle[2] = "PENDING_APPROVAL"
      /\ Lifecycle[3] = "APPROVED" /\ Lifecycle[4] = "SENT_TO_SUPPLIER"
      /\ Lifecycle[5] = "PI_RECEIVED" /\ Lifecycle[6] = "AWAITING_SHIPMENT"
      /\ Lifecycle[7] = "PARTIALLY_RECEIVED" /\ Lifecycle[8] = "FULLY_RECEIVED"
      /\ Lifecycle[9] = "CLOSED"
  BY DEF Lifecycle
<1>2. PoStatus = {Lifecycle[n] : n \in 1 .. 9}
  BY <1>1 DEF PoStatus, ToSet
<1>3. \A n \in 1 .. 9 : Lifecycle[n] # "NONE"
  BY <1>1
<1>4. QED
  BY <1>1, <1>2, <1>3 DEF NoRow

LEMMA ShipStatuses ==
    /\ PatchTargets \cup {"IN_TRANSIT", "RECEIVED", "CLOSED"} \subseteq ShipStatus
    /\ NoRow \notin ShipStatus
<1>1. /\ DOMAIN Voyage = 1 .. 6
      /\ Voyage[1] = "IN_TRANSIT" /\ Voyage[2] = "AT_PORT" /\ Voyage[3] = "CLEARING"
      /\ Voyage[4] = "CLEARED" /\ Voyage[5] = "RECEIVED" /\ Voyage[6] = "CLOSED"
  BY DEF Voyage
<1>2. ShipStatus = {Voyage[n] : n \in 1 .. 6}
  BY <1>1 DEF ShipStatus, ToSet
<1>3. \A n \in 1 .. 6 : Voyage[n] # "NONE"
  BY <1>1
<1>4. QED
  BY <1>1, <1>2, <1>3 DEF NoRow, PatchTargets

(* A row that exists has a status of its kind, and its references are rows. *)
LEMMA Existing ==
    ASSUME TypeOK
    PROVE  /\ \A o \in Orders : order[o].status # NoRow => order[o] # Absent
           /\ \A o \in Orders : order[o] # Absent => order[o] \in Order
           /\ \A p \in Proformas : pi[p].status # NoRow => pi[p] # Absent
           /\ \A p \in Proformas : pi[p] # Absent => pi[p] \in Proforma
           /\ \A s \in Shipments : ship[s].status # NoRow => ship[s] # Absent
           /\ \A s \in Shipments : ship[s] # Absent => ship[s] \in Shipment
           /\ \A l \in ManifestLines : line[l] # Absent => line[l] \in ManifestLine
<1>1. Absent.status = NoRow
  BY DEF Absent
<1>2. QED
  BY <1>1 DEF TypeOK

LEMMA Movable ==
    ASSUME NEW from, NEW to
    PROVE  /\ PoCanMove(from, to) => from # NoRow
           /\ ShipCanMove(from, to) => from # NoRow
<1>1. PoCanMove(from, to) => from # NoRow
  BY DEF PoCanMove, NoRow
<1>2. ShipCanMove(from, to) => from \in ShipStatus
  <2>1. Len(Voyage) = 6 /\ DOMAIN Voyage = 1 .. 6
    BY DEF Voyage
  <2>2. QED
    BY <2>1 DEF ShipCanMove, ShipStatus, ToSet
<1>3. QED
  BY <1>1, <1>2, ShipStatuses

IdleFacts ==
    /\ Idle \in Request
    /\ Idle.op = "idle" /\ Idle.pi = None /\ Idle.olds = {} /\ IsFiniteSet(Idle.batch)

LEMMA IdleTyped == IdleFacts
<1>1. /\ Idle.op = "idle" /\ Idle.pi = None /\ Idle.olds = {}
      /\ Idle.order = None /\ Idle.ship = None /\ Idle.batch = {}
  BY DEF Idle, Ask
<1>2. Idle \in Request
  BY DEF Idle, Ask, Request, NoReceipts
<1>3. QED
  BY <1>1, <1>2, FS_EmptySet DEF IdleFacts

-------------------------------------------------------------------------------
(* Validation leaves the rows alone and asks for what it has found.         *)

LEMMA AskTyped ==
    ASSUME NEW op \in Ops, NEW o \in Orders, NEW p \in Proformas \cup {None},
           NEW s \in Shipments \cup {None}
    PROVE  /\ Ask(op, o, p, s) \in Request
           /\ Ask(op, o, p, s).op = op /\ Ask(op, o, p, s).order = o
           /\ Ask(op, o, p, s).pi = p /\ Ask(op, o, p, s).ship = s
           /\ Ask(op, o, p, s).begun = 0 /\ Ask(op, o, p, s).olds = {}
           /\ Ask(op, o, p, s).batch = {}
<1>1. NoReceipts \in [ManifestLines -> Nat]
  BY DEF NoReceipts
<1>2. QED
  BY <1>1 DEF Ask, Request

(* A request of this form can be asked.                                     *)
Askable(op, o, p, s, b) ==
    /\ op \in Ops /\ o \in Orders
    /\ op # "createOrder" => order[o] # Absent
    /\ op \in {"createOrder", "updateOrder"} => b \in Baskets
    /\ op \in PiOps => p \in Proformas
    /\ op \notin PiOps => p = None
    /\ op = "createProforma" => pi[p] = Absent /\ \A q \in Requests : req[q].pi # p
    /\ op \in {"approveProforma", "rejectProforma"} => pi[p] # Absent /\ pi[p].order = o
    /\ op \in ShipOps => s \in Shipments
    /\ op \in ShipOps \ {"createShipment"} => ship[s] # Absent

Fit(q) ==
    /\ q \in Request /\ q.op \in Ops /\ q.begun = 0 /\ q.olds = {}
    /\ Sound(q)
    /\ q.op = "createProforma" => \A t \in Requests : req[t].pi # q.pi

LEMMA AskFits ==
    ASSUME NEW op, NEW o, NEW p \in Proformas \cup {None},
           NEW s \in Shipments \cup {None}, NEW b \in Baskets \cup {None},
           NEW new \in SUBSET Entry, NEW to \in ShipStatus \cup {None},
           NEW batch \in SUBSET Scan, NEW ls \in SUBSET ManifestLines,
           IsFiniteSet(batch), Askable(op, o, p, s, b)
    PROVE  /\ Fit([Ask(op, o, p, s) EXCEPT !.basket = b])
           /\ op # "updateOrder" /\ op # "createOrder" =>
                 /\ Fit(Ask(op, o, p, s))
                 /\ Fit([Ask(op, o, p, s) EXCEPT !.manifest = new])
                 /\ Fit([Ask(op, o, p, s) EXCEPT !.manifest = new, !.to = to])
                 /\ Fit([Ask(op, o, p, s) EXCEPT !.lines = ls])
                 /\ Fit([Ask(op, o, p, s) EXCEPT !.batch = batch, !.lines = ls])
<1> DEFINE a == Ask(op, o, p, s)
<1>1. op \in Ops /\ o \in Orders
  BY DEF Askable
<1>2. /\ a \in Request
      /\ a.op = op /\ a.order = o /\ a.pi = p /\ a.ship = s /\ a.begun = 0 /\ a.olds = {}
      /\ a.batch = {}
  BY <1>1, AskTyped
<1> HIDE DEF a
<1>0. IsFiniteSet(a.batch)
  BY <1>2, FS_EmptySet
<1>3. ASSUME NEW q \in Request, q.op = op, q.order = o, q.pi = p, q.ship = s,
             q.begun = 0, q.olds = {}, IsFiniteSet(q.batch),
             op \in {"createOrder", "updateOrder"} => q.basket = b
      PROVE  Fit(q)
  BY <1>1, <1>3 DEF Fit, Sound, Askable
<1>4. Fit([a EXCEPT !.basket = b])
  <2>1. [a EXCEPT !.basket = b] \in Request
    BY <1>2 DEF Request
  <2>2. QED
    BY <1>0, <1>2, <1>3, <2>1 DEF Request
<1>5. ASSUME op # "updateOrder" /\ op # "createOrder"
      PROVE  /\ Fit(a)
             /\ Fit([a EXCEPT !.manifest = new])
             /\ Fit([a EXCEPT !.manifest = new, !.to = to])
             /\ Fit([a EXCEPT !.lines = ls])
             /\ Fit([a EXCEPT !.batch = batch, !.lines = ls])
  <2>1. Fit(a)
    BY <1>0, <1>2, <1>3, <1>5
  <2>2. Fit([a EXCEPT !.manifest = new])
    <3>1. [a EXCEPT !.manifest = new] \in Request
      BY <1>2 DEF Request
    <3>2. QED
      BY <1>0, <1>2, <1>3, <1>5, <3>1 DEF Request
  <2>3. Fit([a EXCEPT !.manifest = new, !.to = to])
    <3>1. [a EXCEPT !.manifest = new, !.to = to] \in Request
      <4>1. [a EXCEPT !.manifest = new] \in Request
        BY <1>2 DEF Request
      <4>2. \A q \in Request : [q EXCEPT !.to = to] \in Request
        BY DEF Request
      <4>3. [a EXCEPT !.manifest = new, !.to = to] = [[a EXCEPT !.manifest = new] EXCEPT !.to = to]
        BY Zenon
      <4>4. QED
        BY <4>1, <4>2, <4>3, Zenon
    <3>2. QED
      BY <1>0, <1>2, <1>3, <1>5, <3>1 DEF Request
  <2>4. Fit([a EXCEPT !.lines = ls])
    <3>1. [a EXCEPT !.lines = ls] \in Request
      BY <1>2 DEF Request
    <3>2. QED
      BY <1>0, <1>2, <1>3, <1>5, <3>1 DEF Request
  <2>5. Fit([a EXCEPT !.batch = batch, !.lines = ls])
    <3>1. [a EXCEPT !.batch = batch, !.lines = ls] \in Request
      BY <1>2 DEF Request
    <3>2. QED
      BY <1>0, <1>2, <1>3, <1>5, <3>1 DEF Request
  <2>6. QED
    BY <2>1, <2>2, <2>3, <2>4, <2>5
<1>6. QED
  BY <1>4, <1>5 DEF a

(* What the validation of request r comes to.                               *)
Accepts(r) ==
    /\ UNCHANGED rows
    /\ req[r] = Idle
    /\ \E q \in Request : Fit(q) /\ req' = [req EXCEPT ![r] = q]

LEMMA FitAccepted ==
    ASSUME NEW r \in Requests, NEW q, req[r] = Idle, Fit(q), Accept(r, q)
    PROVE  Accepts(r)
BY DEF Accepts, Accept, Fit

LEMMA ValidateOrderAccepts ==
    ASSUME TypeOK, References, NEW r \in Requests, ValidateOrder(r)
    PROVE  Accepts(r)
<1>0. req[r] = Idle
  BY DEF ValidateOrder
<1> USE <1>0
<1>1. PICK o \in Orders :
         \/ \E b \in Baskets : CreateOrder(r, o, b) \/ UpdateOrder(r, o, b)
         \/ SubmitOrder(r, o) \/ ApproveOrder(r, o)
  BY DEF ValidateOrder
<1>2. CASE \E b \in Baskets : CreateOrder(r, o, b)
  <2>1. PICK b \in Baskets : CreateOrder(r, o, b)
    BY <1>2
  <2>2. Askable("createOrder", o, None, None, b)
    BY DEF Askable, Ops, PiOps, ShipOps
  <2>3. QED
    BY <2>1, <2>2, AskFits, FS_EmptySet, FitAccepted DEF CreateOrder
<1>3. CASE \E b \in Baskets : UpdateOrder(r, o, b)
  <2>1. PICK b \in Baskets : UpdateOrder(r, o, b)
    BY <1>3
  <2>2. order[o] # Absent
    BY <2>1, Existing DEF UpdateOrder, OrderEditable, NoRow
  <2>3. Askable("updateOrder", o, None, None, b)
    BY <2>2 DEF Askable, Ops, PiOps, ShipOps
  <2>4. QED
    BY <2>1, <2>3, AskFits, FS_EmptySet, FitAccepted DEF UpdateOrder
<1>4. CASE SubmitOrder(r, o)
  <2>1. order[o] # Absent
    BY <1>4, Existing, Movable DEF SubmitOrder
  <2>2. Askable("submitOrder", o, None, None, None)
    BY <2>1 DEF Askable, Ops, PiOps, ShipOps
  <2>3. QED
    BY <1>4, <2>2, AskFits, FS_EmptySet, FitAccepted DEF SubmitOrder
<1>5. CASE ApproveOrder(r, o)
  <2>1. order[o] # Absent
    BY <1>5, Existing, Movable DEF ApproveOrder
  <2>2. Askable("approveOrder", o, None, None, None)
    BY <2>1 DEF Askable, Ops, PiOps, ShipOps
  <2>3. QED
    BY <1>5, <2>2, AskFits, FS_EmptySet, FitAccepted DEF ApproveOrder
<1>6. QED
  BY <1>1, <1>2, <1>3, <1>4, <1>5

LEMMA ValidateProformaAccepts ==
    ASSUME TypeOK, References, NEW r \in Requests, ValidateProforma(r)
    PROVE  Accepts(r)
<1>0. req[r] = Idle
  BY DEF ValidateProforma
<1> USE <1>0
<1>1. PICK p \in Proformas :
         \/ \E o \in Orders : CreateProforma(r, o, p)
         \/ ApproveProforma(r, p) \/ RejectProforma(r, p)
  BY DEF ValidateProforma
<1>2. CASE \E o \in Orders : CreateProforma(r, o, p)
  <2>1. PICK o \in Orders : CreateProforma(r, o, p)
    BY <1>2
  <2>2. Askable("createProforma", o, p, None, None)
    BY <2>1 DEF Askable, Ops, PiOps, ShipOps, CreateProforma
  <2>3. QED
    BY <2>1, <2>2, AskFits, FS_EmptySet, FitAccepted DEF CreateProforma
<1>3. CASE ApproveProforma(r, p) \/ RejectProforma(r, p)
  <2>1. pi[p] # Absent /\ pi[p] \in Proforma
    BY <1>3, Existing DEF ApproveProforma, RejectProforma, UnderReview, NoRow
  <2>2. pi[p].order \in Orders /\ order[pi[p].order] # Absent
    BY <2>1 DEF Proforma, References, RowsRefer
  <2>3. /\ Askable("approveProforma", pi[p].order, p, None, None)
        /\ Askable("rejectProforma", pi[p].order, p, None, None)
    BY <2>1, <2>2 DEF Askable, Ops, PiOps, ShipOps
  <2>4. /\ Fit(Ask("approveProforma", pi[p].order, p, None))
        /\ Fit(Ask("rejectProforma", pi[p].order, p, None))
    BY <2>3, AskFits, FS_EmptySet
  <2>5. QED
    BY <1>3, <2>4, FitAccepted DEF ApproveProforma, RejectProforma
<1>4. QED
  BY <1>1, <1>2, <1>3

LEMMA ManifestsTyped == Manifests \subseteq SUBSET Entry
BY DEF Manifests, Entry

LEMMA ReceiptsTyped ==
    ASSUME NEW batch \in Receipts
    PROVE  /\ batch \in SUBSET Scan /\ IsFiniteSet(batch)
           /\ {a.line : a \in batch} \subseteq ManifestLines
<1> DEFINE Seen == UNION {LinesOf(s) : s \in Shipments}
           Scans == [line : Seen, engine : Engines, chassis : Chassis]
<1>1. Seen \subseteq ManifestLines
  BY DEF LinesOf
<1>2. IsFiniteSet(batch) /\ \E n \in 1 .. MaxReceipt : batch \in kSubset(n, Scans)
  BY DEF Receipts
<1>3. batch \in SUBSET Scans
  BY <1>2 DEF kSubset
<1> HIDE DEF Seen
<1>4. batch \in SUBSET Scan
  BY <1>1, <1>3 DEF Scan
<1>5. QED
  BY <1>2, <1>4 DEF Scan

LEMMA ValidateShipmentAccepts ==
    ASSUME TypeOK, References, NEW r \in Requests, ValidateShipment(r)
    PROVE  Accepts(r)
<1>0. req[r] = Idle
  BY DEF ValidateShipment
<1> USE <1>0
<1>1. PICK s \in Shipments :
         \/ \E o \in Orders, new \in Manifests : CreateShipment(r, o, s, new)
         \/ \E new \in Manifests, to \in PatchTargets \cup {None} : UpdateShipment(r, s, new, to)
         \/ \E batch \in Receipts : Receive(r, s, batch)
         \/ \E ls \in SUBSET ManifestLines : ResolveVariance(r, s, ls)
         \/ CompleteReceipt(r, s) \/ CloseShipment(r, s)
  BY DEF ValidateShipment
<1>2. ASSUME ship[s] # Absent,
             NEW op \in ShipOps \ {"createShipment"}
      PROVE  Askable(op, ship[s].order, None, s, None)
  <2>1. ship[s].order \in Orders /\ order[ship[s].order] # Absent
    BY <1>2, Existing DEF Shipment, References, RowsRefer
  <2>2. QED
    BY <1>2, <2>1 DEF Askable, Ops, PiOps, ShipOps
<1>3. CASE \E o \in Orders, new \in Manifests : CreateShipment(r, o, s, new)
  <2>1. PICK o \in Orders, new \in Manifests : CreateShipment(r, o, s, new)
    BY <1>3
  <2>2. Askable("createShipment", o, None, s, None)
    BY <2>1 DEF Askable, Ops, PiOps, ShipOps, CreateShipment
  <2>3. QED
    BY <2>1, <2>2, AskFits, FS_EmptySet, FitAccepted, ManifestsTyped DEF CreateShipment
<1>4. CASE \E new \in Manifests, to \in PatchTargets \cup {None} : UpdateShipment(r, s, new, to)
  <2>1. PICK new \in Manifests, to \in PatchTargets \cup {None} : UpdateShipment(r, s, new, to)
    BY <1>4
  <2>2. Askable("updateShipment", ship[s].order, None, s, None)
    BY <1>2, <2>1 DEF UpdateShipment, ShipOps
  <2>3. new \in SUBSET Entry /\ to \in ShipStatus \cup {None}
    BY <2>1, ManifestsTyped, ShipStatuses
  <2>4. Fit([Ask("updateShipment", ship[s].order, None, s) EXCEPT !.manifest = new, !.to = to])
    <3>1. /\ None \in Proformas \cup {None} /\ s \in Shipments \cup {None}
          /\ None \in Baskets \cup {None} /\ {} \in SUBSET Scan /\ {} \in SUBSET ManifestLines
          /\ IsFiniteSet({}) /\ "updateShipment" # "updateOrder" /\ "updateShipment" # "createOrder"
      BY FS_EmptySet
    <3>2. QED
      BY <2>2, <2>3, <3>1, AskFits, Zenon
  <2>5. QED
    BY <2>1, <2>4, FitAccepted DEF UpdateShipment
<1>5. CASE \E batch \in Receipts : Receive(r, s, batch)
  <2>1. PICK batch \in Receipts : Receive(r, s, batch)
    BY <1>5
  <2>2. Askable("receive", ship[s].order, None, s, None)
    BY <1>2, <2>1 DEF Receive, ShipOps
  <2>3. Fit([Ask("receive", ship[s].order, None, s)
               EXCEPT !.batch = batch, !.lines = {a.line : a \in batch}])
    BY <2>2, AskFits, ReceiptsTyped
  <2>4. QED
    BY <2>1, <2>3, FitAccepted DEF Receive
<1>6. CASE \E ls \in SUBSET ManifestLines : ResolveVariance(r, s, ls)
  <2>1. PICK ls \in SUBSET ManifestLines : ResolveVariance(r, s, ls)
    BY <1>6
  <2>2. ship[s] # Absent
    BY <2>1 DEF ResolveVariance, LinesOf, References, RowsRefer
  <2>3. Askable("resolveVariance", ship[s].order, None, s, None)
    BY <1>2, <2>2 DEF ShipOps
  <2>4. QED
    BY <2>1, <2>3, AskFits, FS_EmptySet, FitAccepted DEF ResolveVariance
<1>7. CASE CompleteReceipt(r, s) \/ CloseShipment(r, s)
  <2>1. ship[s] # Absent
    BY <1>7, Existing, Movable DEF CompleteReceipt, CloseShipment
  <2>2. \A op \in {"completeReceipt", "closeShipment"} :
           Askable(op, ship[s].order, None, s, None)
    BY <1>2, <2>1 DEF ShipOps
  <2>3. QED
    BY <1>7, <2>2, AskFits, FS_EmptySet, FitAccepted DEF CompleteReceipt, CloseShipment
<1>8. QED
  BY <1>1, <1>3, <1>4, <1>5, <1>6, <1>7

-------------------------------------------------------------------------------
(* Effects of the steps.                                                    *)

(* Rows never disappear, except manifest lines, and keep what they are for. *)
Grows ==
    /\ \A o \in Orders : order[o] # Absent => order'[o] # Absent
    /\ \A p \in Proformas : pi[p] # Absent => pi'[p] # Absent /\ pi'[p].order = pi[p].order
    /\ \A s \in Shipments : ship[s] # Absent => ship'[s] # Absent

Same(q) ==
    /\ req'[q].op = req[q].op /\ req'[q].order = req[q].order /\ req'[q].pi = req[q].pi
    /\ req'[q].ship = req[q].ship /\ req'[q].basket = req[q].basket
    /\ req'[q].olds = req[q].olds /\ req'[q].begun = req[q].begun
    /\ req'[q].revision = req[q].revision /\ req'[q].batch = req[q].batch

(* The request r ends; the others go on with what they are doing.           *)
Ended(r) ==
    /\ req' \in [Requests -> Request]
    /\ req'[r] = Idle
    /\ \A q \in Requests \ {r} : Same(q)

LEMMA FinishedEnds ==
    ASSUME TypeOK, NEW r \in Requests, Finished(r)
    PROVE  Ended(r)
BY IdleTyped DEF Ended, Finished, TypeOK, Same, IdleFacts

LEMMA ReplacingEnds ==
    ASSUME TypeOK, NEW r \in Requests, NEW others, FinishedReplacing(r, others)
    PROVE  Ended(r)
<1>1. req' = [q \in Requests |->
                IF q = r THEN Idle
                ELSE IF q \in others THEN [req[q] EXCEPT !.covers = FALSE] ELSE req[q]]
  BY DEF FinishedReplacing
<1>2. ASSUME NEW q \in Requests \ {r}
      PROVE  req'[q] \in Request /\ Same(q)
  <2>1. req[q] \in Request
    BY DEF TypeOK
  <2>2. CASE q \in others
    <3>1. req'[q] = [req[q] EXCEPT !.covers = FALSE]
      BY <1>1, <2>2
    <3>2. QED
      BY <2>1, <3>1 DEF Request, Same
  <2>3. CASE q \notin others
    BY <1>1, <2>1, <2>3 DEF Same
  <2>4. QED
    BY <2>2, <2>3
<1>3. QED
  BY <1>1, <1>2, IdleTyped DEF Ended, IdleFacts

(* A request that goes on stays sound while rows only grow.                 *)
LEMMA SoundKept ==
    ASSUME NEW q \in Requests, TypeOK, Sound(req[q]), Same(q), Grows,
           req[q].op = "createProforma" => pi'[req[q].pi] = Absent
    PROVE  Sound(req[q])'
<1>1. req[q] \in Request
  BY DEF TypeOK
<1>2. req[q].olds \subseteq Proformas
  BY <1>1 DEF Request
<1>3. \A p \in req[q].olds : pi'[p] # Absent /\ pi'[p].order = req[q].order
  BY <1>2 DEF Sound, Grows
<1>4. req[q].op \in {"approveProforma", "rejectProforma"} =>
         pi'[req[q].pi] # Absent /\ pi'[req[q].pi].order = req[q].order
  BY DEF Sound, Grows, PiOps
<1>5. req[q].op \in Ops \ {"createOrder"} => order'[req[q].order] # Absent
  BY DEF Sound, Grows
<1>6. req[q].op \in ShipOps \ {"createShipment"} => ship'[req[q].ship] # Absent
  BY DEF Sound, Grows
<1>7. QED
  BY <1>3, <1>4, <1>5, <1>6 DEF Sound, Same

(* Writing one of what a transaction has read.                              *)
Alike(a, b) ==
    /\ a.op = b.op /\ a.order = b.order /\ a.pi = b.pi
    /\ a.ship = b.ship /\ a.basket = b.basket /\ a.batch = b.batch

LEMMA Written ==
    ASSUME NEW a \in Request
    PROVE  /\ \A n \in {1, 2} : LET b == [a EXCEPT !.begun = n]
                                IN  b \in Request /\ Alike(b, a) /\ b.olds = a.olds /\ b.begun = n
           /\ \A c \in BOOLEAN : LET b == [a EXCEPT !.covers = c]
                                 IN  b \in Request /\ Alike(b, a) /\ b.olds = a.olds
           /\ \A c \in BOOLEAN : LET b == [a EXCEPT !.advance = c]
                                 IN  b \in Request /\ Alike(b, a) /\ b.olds = a.olds
           /\ \A sn \in [ManifestLines -> Nat] : LET b == [a EXCEPT !.seen = sn]
                                                 IN  b \in Request /\ Alike(b, a) /\ b.olds = a.olds
           /\ \A ps \in SUBSET Proformas : LET b == [a EXCEPT !.olds = ps]
                                           IN  b \in Request /\ Alike(b, a) /\ b.olds = ps
           /\ \A v \in Nat : LET b == [a EXCEPT !.revision = v]
                             IN  /\ b \in Request /\ Alike(b, a)
                                 /\ b.olds = a.olds /\ b.revision = v /\ b.begun = a.begun
<1> USE DEF Request, Alike
<1>1. \A n \in {1, 2} : LET b == [a EXCEPT !.begun = n]
                       IN  b \in Request /\ Alike(b, a) /\ b.olds = a.olds /\ b.begun = n
  OBVIOUS
<1>2. \A c \in BOOLEAN : LET b == [a EXCEPT !.covers = c]
                        IN  b \in Request /\ Alike(b, a) /\ b.olds = a.olds
  OBVIOUS
<1>3. \A c \in BOOLEAN : LET b == [a EXCEPT !.advance = c]
                        IN  b \in Request /\ Alike(b, a) /\ b.olds = a.olds
  OBVIOUS
<1>4. \A sn \in [ManifestLines -> Nat] : LET b == [a EXCEPT !.seen = sn]
                                        IN  b \in Request /\ Alike(b, a) /\ b.olds = a.olds
  OBVIOUS
<1>5. \A ps \in SUBSET Proformas : LET b == [a EXCEPT !.olds = ps]
                                  IN  b \in Request /\ Alike(b, a) /\ b.olds = ps
  OBVIOUS
<1>6. \A v \in Nat : LET b == [a EXCEPT !.revision = v]
                    IN  /\ b \in Request /\ Alike(b, a)
                        /\ b.olds = a.olds /\ b.revision = v /\ b.begun = a.begun
  OBVIOUS
<1>7. QED
  BY <1>1, <1>2, <1>3, <1>4, <1>5, <1>6

(* Reading changes what the reader has read and nothing else.  A proforma   *)
(* about to be created is the only request that gets a revision number.     *)
LEMMA BeginEffect ==
    ASSUME TypeOK, References, NEW r \in Requests, Begin(r), ~BeginProforma(r)
    PROVE  /\ UNCHANGED rows
           /\ req' \in [Requests -> Request]
           /\ req[r].op # "createProforma"
           /\ req'[r].op = req[r].op /\ req'[r].pi = req[r].pi
           /\ Sound(req'[r])
           /\ \A q \in Requests \ {r} : req'[q] = req[q]
<1> DEFINE Effect(new) ==
             /\ new \in Request
             /\ new.op = req[r].op /\ new.pi = req[r].pi
             /\ Sound(new)
<1>1. req[r] \in Request /\ Sound(req[r])
  BY DEF TypeOK, References
<1>2. ASSUME NEW new, Begun(r, new), Effect(new), req[r].op # "createProforma"
      PROVE  /\ UNCHANGED rows
             /\ req' \in [Requests -> Request]
             /\ req[r].op # "createProforma"
             /\ req'[r].op = req[r].op /\ req'[r].pi = req[r].pi
             /\ Sound(req'[r])
             /\ \A q \in Requests \ {r} : req'[q] = req[q]
  <2>1. UNCHANGED rows /\ req' = [req EXCEPT ![r] = new]
    BY <1>2 DEF Begun
  <2>2. req'[r] = new
    BY <2>1 DEF TypeOK
  <2>3. QED
    BY <1>2, <2>1, <2>2 DEF TypeOK
<1>3. CASE BeginReplace(r)
  <2> DEFINE b == [req[r] EXCEPT !.begun = 1]
             new == [b EXCEPT !.covers = TRUE]
  <2>1. Begun(r, new) /\ req[r].op # "createProforma"
    BY <1>3 DEF BeginReplace, Ready
  <2>2. b \in Request /\ Alike(b, req[r]) /\ b.olds = req[r].olds
    BY <1>1, Written, Zenon
  <2> HIDE DEF b
  <2>3. new \in Request /\ Alike(new, b) /\ new.olds = b.olds
    BY <2>2, Written
  <2> HIDE DEF new
  <2>4. Effect(new)
    BY <1>1, <2>2, <2>3 DEF Sound, Alike
  <2>5. QED
    BY <1>2, <2>1, <2>4
<1>4. CASE BeginApprove(r)
  <2> DEFINE o == req[r].order
             adv == PullForward(o)
             b == [req[r] EXCEPT !.begun = 1]
             c == [b EXCEPT !.olds = Active(o)]
             new == [c EXCEPT !.advance = adv]
  <2>1. Begun(r, new) /\ req[r].op = "approveProforma"
    BY <1>4 DEF BeginApprove, Ready
  <2>2. adv \in BOOLEAN
    BY DEF PullForward
  <2>3. Active(o) \in SUBSET Proformas /\ \A p \in Active(o) : pi[p] # Absent /\ pi[p].order = o
    BY DEF Active, ProformasOf
  <2>4. b \in Request /\ Alike(b, req[r])
    BY <1>1, Written, Zenon
  <2> HIDE DEF adv, b
  <2>5. c \in Request /\ Alike(c, b) /\ c.olds = Active(o)
    BY <2>3, <2>4, Written, Zenon
  <2> HIDE DEF c
  <2>6. new \in Request /\ Alike(new, c) /\ new.olds = c.olds
    BY <2>2, <2>5, Written
  <2> HIDE DEF new
  <2>7. Effect(new)
    BY <1>1, <2>1, <2>3, <2>4, <2>5, <2>6 DEF Sound, Alike
  <2>8. QED
    BY <1>2, <2>1, <2>7
<1>5. CASE BeginReceive(r)
  <2> DEFINE sn == [l \in ManifestLines |-> IF l \in req[r].lines THEN line[l].received ELSE 0]
             b == [req[r] EXCEPT !.begun = 1]
             new == [b EXCEPT !.seen = sn]
  <2>1. Begun(r, new) /\ req[r].op = "receive"
    BY <1>5 DEF BeginReceive, Ready
  <2>2. sn \in [ManifestLines -> Nat]
    <3>1. \A l \in req[r].lines : l \in ManifestLines /\ line[l] # Absent
      BY <1>5 DEF BeginReceive, Receivable, LinesOf
    <3>2. QED
      BY <3>1, Existing DEF ManifestLine
  <2>3. b \in Request /\ Alike(b, req[r]) /\ b.olds = req[r].olds
    BY <1>1, Written, Zenon
  <2> HIDE DEF sn, b
  <2>4. new \in Request /\ Alike(new, b) /\ new.olds = b.olds
    BY <2>2, <2>3, Written
  <2> HIDE DEF new
  <2>5. Effect(new)
    BY <1>1, <2>3, <2>4 DEF Sound, Alike
  <2>6. QED
    BY <1>2, <2>1, <2>5
<1>6. CASE BeginComplete(r)
  <2> DEFINE new == [req[r] EXCEPT !.begun = 1]
  <2>1. Begun(r, new) /\ req[r].op # "createProforma"
    BY <1>6 DEF BeginComplete, Ready
  <2>2. new \in Request /\ Alike(new, req[r]) /\ new.olds = req[r].olds
    BY <1>1, Written, Zenon
  <2> HIDE DEF new
  <2>3. Effect(new)
    BY <1>1, <2>2 DEF Sound, Alike
  <2>4. QED
    BY <1>2, <2>1, <2>3
<1>7. CASE CountReceipts(r)
  <2> DEFINE adv == FullyReceived(req[r].order)
             b == [req[r] EXCEPT !.begun = 2]
             new == [b EXCEPT !.advance = adv]
  <2>1. Begun(r, new) /\ req[r].op # "createProforma"
    BY <1>7 DEF CountReceipts
  <2>2. adv \in BOOLEAN
    BY DEF FullyReceived
  <2>3. b \in Request /\ Alike(b, req[r]) /\ b.olds = req[r].olds
    BY <1>1, Written, Zenon
  <2> HIDE DEF adv, b
  <2>4. new \in Request /\ Alike(new, b) /\ new.olds = b.olds
    BY <2>2, <2>3, Written
  <2> HIDE DEF new
  <2>5. Effect(new)
    BY <1>1, <2>3, <2>4 DEF Sound, Alike
  <2>6. QED
    BY <1>2, <2>1, <2>5
<1>8. QED
  BY <1>3, <1>4, <1>5, <1>6, <1>7 DEF Begin

(* Rows that exist are not Absent.                                          *)
LEMMA Distinct ==
    /\ Absent \notin Order /\ Absent \notin Proforma
    /\ Absent \notin Shipment /\ Absent \notin ManifestLine
<1>1. Absent.status = NoRow /\ "status" \in DOMAIN Absent
  BY DEF Absent
<1>2. Absent \notin Order /\ Absent \notin Shipment
  BY <1>1, PoStatuses, ShipStatuses DEF Order, Shipment
<1>3. Absent \notin Proforma
  BY <1>1 DEF Proforma, PiStatus, NoRow
<1>4. Absent \notin ManifestLine
  <2>1. \A x \in ManifestLine : "status" \notin DOMAIN x
    BY DEF ManifestLine
  <2>2. QED
    BY <1>1, <2>1
<1>5. QED
  BY <1>2, <1>3, <1>4

RowsTyped ==
    /\ order \in [Orders -> Order \cup {Absent}]
    /\ pi \in [Proformas -> Proforma \cup {Absent}]
    /\ ship \in [Shipments -> Shipment \cup {Absent}]
    /\ line \in [ManifestLines -> ManifestLine \cup {Absent}]
    /\ units \in SUBSET Unit

(* What every commit of request r leaves behind.                            *)
Committed(r) ==
    /\ Ended(r)
    /\ RowsTyped'
    /\ Grows
    /\ RowsRefer'
    /\ \A p \in Proformas : pi[p] = Absent /\ pi'[p] # Absent =>
          req[r].op = "createProforma" /\ p = req[r].pi

(* Writes to the purchase order alone.                                      *)
LEMMA OrderWritten ==
    ASSUME TypeOK, References, NEW r \in Requests, Ended(r),
           NEW o \in Orders, NEW new \in Order,
           order' = [order EXCEPT ![o] = new],
           UNCHANGED <<pi, ship, line, units>>
    PROVE  Committed(r)
<1>1. new # Absent
  BY Distinct
<1>2. \A p \in Orders : order'[p] = IF p = o THEN new ELSE order[p]
  BY DEF TypeOK
<1>3. RowsTyped'
  BY DEF TypeOK, RowsTyped
<1>4. Grows
  BY <1>1, <1>2 DEF Grows
<1>5. RowsRefer'
  <2>1. \A p \in Proformas : pi[p] # Absent => order'[pi[p].order] # Absent
    <3>1. ASSUME NEW p \in Proformas, pi[p] # Absent PROVE order'[pi[p].order] # Absent
      <4>1. pi[p].order \in Orders /\ order[pi[p].order] # Absent
        BY <3>1, Existing DEF Proforma, References, RowsRefer
      <4>2. QED
        BY <1>1, <1>2, <4>1
    <3>2. QED
      BY <3>1
  <2>2. \A s \in Shipments : ship[s] # Absent => order'[ship[s].order] # Absent
    <3>1. ASSUME NEW s \in Shipments, ship[s] # Absent PROVE order'[ship[s].order] # Absent
      <4>1. ship[s].order \in Orders /\ order[ship[s].order] # Absent
        BY <3>1, Existing DEF Shipment, References, RowsRefer
      <4>2. QED
        BY <1>1, <1>2, <4>1
    <3>2. QED
      BY <3>1
  <2>3. QED
    BY <2>1, <2>2 DEF RowsRefer, References
<1>6. QED
  BY <1>3, <1>4, <1>5 DEF Committed

LEMMA CommitOrderEffect ==
    ASSUME SupplyAssumption, TypeOK, References, NEW r \in Requests,
           CommitOrder(r) \/ CommitUpdateOrder(r) \/ CommitStatus(r)
    PROVE  Committed(r) /\ req[r].op \in Ops
<1> DEFINE o == req[r].order
           b == req[r].basket
<1>1. Sound(req[r])
  BY DEF References
<1>2. CASE CommitOrder(r)
  <2>1. o \in Orders /\ b \in Baskets /\ req[r].op \in Ops
    BY <1>1, <1>2 DEF CommitOrder, Sound, Ops
  <2>2. TotalOf[{b}] \in Nat
    BY <2>1 DEF SupplyAssumption
  <2>3. [status |-> "DRAFT", baskets |-> {b}, total |-> TotalOf[{b}]] \in Order
    BY <2>1, <2>2, PoStatuses DEF Order
  <2>4. QED
    BY <1>2, <2>1, <2>3, OrderWritten, FinishedEnds DEF CommitOrder
<1>3. CASE CommitUpdateOrder(r)
  <2>1. o \in Orders /\ b \in Baskets /\ req[r].op \in Ops /\ order[o] # Absent
    BY <1>1, <1>3 DEF CommitUpdateOrder, Sound, Ops
  <2>2. TotalOf[{b}] \in Nat
    BY <2>1 DEF SupplyAssumption
  <2>3. order[o] \in Order
    BY <2>1, Existing
  <2>4. Kept(r) \cup {b} \in SUBSET Baskets
    BY <2>1, <2>3 DEF Kept, Order
  <2> DEFINE new == [order[o] EXCEPT !.baskets = Kept(r) \cup {b}, !.total = TotalOf[{b}]]
  <2>5. new \in Order
    BY <2>2, <2>3, <2>4 DEF Order
  <2>6. order' = [order EXCEPT ![o] = new]
    BY <1>3, <2>1 DEF CommitUpdateOrder, TypeOK
  <2>7. Ended(r) /\ UNCHANGED <<pi, ship, line, units>>
    BY <1>3, ReplacingEnds DEF CommitUpdateOrder
  <2> HIDE DEF new
  <2>8. QED
    BY <2>1, <2>5, <2>6, <2>7, OrderWritten
<1>4. CASE CommitStatus(r)
  <2>1. o \in Orders /\ req[r].op \in Ops /\ order[o] # Absent
    BY <1>1, <1>4 DEF CommitStatus, Sound, Ops
  <2>2. order[o] \in Order
    BY <2>1, Existing
  <2> DEFINE new == [order[o] EXCEPT !.status = StatusAfter(req[r].op)]
  <2>3. new \in Order
    BY <2>2, PoStatuses DEF Order, StatusAfter
  <2>4. order' = [order EXCEPT ![o] = new]
    BY <1>4, <2>1 DEF CommitStatus, TypeOK
  <2>5. Ended(r) /\ UNCHANGED <<pi, ship, line, units>>
    BY <1>4, FinishedEnds DEF CommitStatus
  <2> HIDE DEF new
  <2>6. QED
    BY <2>1, <2>3, <2>4, <2>5, OrderWritten
<1>5. QED
  BY <1>2, <1>3, <1>4

(* A status written into an order that exists.                              *)
LEMMA StatusWritten ==
    ASSUME TypeOK, NEW o \in Orders, order[o] # Absent, NEW st \in PoStatus,
           order' = [order EXCEPT ![o].status = st]
    PROVE  /\ order' \in [Orders -> Order \cup {Absent}]
           /\ \A q \in Orders : order[q] # Absent => order'[q] # Absent
<1> DEFINE new == [order[o] EXCEPT !.status = st]
<1>1. new \in Order
  BY Existing DEF Order
<1>2. order' = [order EXCEPT ![o] = new]
  BY DEF TypeOK
<1> HIDE DEF new
<1>3. QED
  BY <1>1, <1>2, Distinct DEF TypeOK

(* Writes to proformas and the status of their order.                       *)
LEMMA ProformasWritten ==
    ASSUME TypeOK, References, NEW r \in Requests, Ended(r),
           order' \in [Orders -> Order \cup {Absent}],
           \A o \in Orders : order[o] # Absent => order'[o] # Absent,
           \A p \in Proformas : pi[p] # Absent =>
              pi'[p] \in Proforma /\ pi'[p].order = pi[p].order,
           pi' \in [Proformas -> Proforma \cup {Absent}],
           \A p \in Proformas : pi[p] = Absent /\ pi'[p] # Absent =>
              /\ req[r].op = "createProforma" /\ p = req[r].pi
              /\ order[pi'[p].order] # Absent,
           UNCHANGED <<ship, line, units>>
    PROVE  Committed(r)
<1>1. RowsTyped'
  BY DEF RowsTyped, TypeOK
<1>2. Grows
  BY Distinct DEF Grows
<1>3. \A p \in Proformas : pi'[p] # Absent => order'[pi'[p].order] # Absent
  <2>1. ASSUME NEW p \in Proformas, pi'[p] # Absent
        PROVE  order'[pi'[p].order] # Absent
    <3>1. pi'[p].order \in Orders
      BY <2>1 DEF Proforma
    <3>2. order[pi'[p].order] # Absent
      BY <2>1 DEF References, RowsRefer
    <3>3. QED
      BY <3>1, <3>2
  <2>2. QED
    BY <2>1
<1>4. \A s \in Shipments : ship[s] # Absent => order'[ship[s].order] # Absent
  BY Existing DEF Shipment, References, RowsRefer
<1>5. RowsRefer'
  BY <1>3, <1>4 DEF RowsRefer, References
<1>6. QED
  BY <1>1, <1>2, <1>5 DEF Committed

LEMMA CommitProformaEffect ==
    ASSUME TypeOK, References, NEW r \in Requests,
           CommitProforma(r) \/ CommitApprove(r) \/ CommitReject(r)
    PROVE  Committed(r) /\ req[r].op \in Ops
<1> DEFINE p == req[r].pi
           o == req[r].order
<1>1. req[r] \in Request /\ Sound(req[r])
  BY DEF TypeOK, References
<1>2. /\ req[r].op \in PiOps /\ req[r].op \in Ops \ {"createOrder"}
      /\ Ended(r)
  BY FinishedEnds DEF CommitProforma, CommitApprove, CommitReject, PiOps, Ops
<1>3. p \in Proformas /\ o \in Orders /\ order[o] # Absent
  BY <1>1, <1>2 DEF Sound
<1>4. CASE CommitProforma(r)
  <2> DEFINE new == [order |-> o, revision |-> req[r].revision, status |-> "PENDING_REVIEW"]
  <2>1. new \in Proforma /\ new.order = o
    BY <1>1, <1>3 DEF Proforma, PiStatus, Request
  <2>2. pi' = [pi EXCEPT ![p] = new]
    BY <1>4 DEF CommitProforma
  <2> HIDE DEF new
  <2>3. pi[p] = Absent /\ UNCHANGED <<order, ship, line, units>> /\ req[r].op = "createProforma"
    BY <1>1, <1>4 DEF CommitProforma, Sound
  <2>4. \A q \in Proformas : pi'[q] = IF q = p THEN new ELSE pi[q]
    BY <2>2 DEF TypeOK
  <2>5. \A q \in Proformas : pi[q] # Absent => pi'[q] \in Proforma /\ pi'[q].order = pi[q].order
    BY <2>3, <2>4, Existing
  <2>6. pi' \in [Proformas -> Proforma \cup {Absent}]
    BY <2>1, <2>2 DEF TypeOK
  <2>7. order' \in [Orders -> Order \cup {Absent}]
    BY <2>3 DEF TypeOK
  <2>8. \A q \in Proformas : pi[q] = Absent /\ pi'[q] # Absent =>
           q = p /\ order[pi'[q].order] # Absent
    BY <1>3, <2>1, <2>4
  <2>9. QED
    BY <1>2, <2>3, <2>5, <2>6, <2>7, <2>8, ProformasWritten
<1>5. CASE CommitApprove(r)
  <2> DEFINE Chosen(q) == IF q = p THEN [pi[q] EXCEPT !.status = "ACTIVE"]
                          ELSE IF q \in req[r].olds THEN [pi[q] EXCEPT !.status = "SUPERSEDED"]
                          ELSE pi[q]
  <2>1. /\ pi' = [q \in Proformas |-> Chosen(q)]
        /\ req[r].op = "approveProforma" /\ UNCHANGED <<ship, line, units>>
        /\ order' = [order EXCEPT ![o].status = IF req[r].advance THEN "PI_RECEIVED" ELSE @]
    BY <1>5 DEF CommitApprove
  <2>2. order[o] \in Order
    BY <1>3, Existing
  <2> DEFINE st == IF req[r].advance THEN "PI_RECEIVED" ELSE order[o].status
  <2>3. st \in PoStatus /\ order' = [order EXCEPT ![o].status = st]
    BY <2>1, <2>2, PoStatuses DEF Order
  <2> HIDE DEF st
  <2>4. /\ order' \in [Orders -> Order \cup {Absent}]
        /\ \A q \in Orders : order[q] # Absent => order'[q] # Absent
    BY <1>3, <2>3, StatusWritten
  <2>5. \A q \in Proformas : pi[q] # Absent =>
           Chosen(q) \in Proforma /\ Chosen(q).order = pi[q].order
    BY Existing DEF Proforma, PiStatus
  <2>6. \A q \in Proformas : pi[q] = Absent => Chosen(q) = Absent
    BY <1>1, <2>1 DEF Sound
  <2> HIDE DEF Chosen
  <2>7. pi' \in [Proformas -> Proforma \cup {Absent}]
    BY <2>1, <2>5, <2>6
  <2>8. QED
    BY <1>2, <2>1, <2>4, <2>5, <2>6, <2>7, ProformasWritten
<1>6. CASE CommitReject(r)
  <2>1. pi[p] # Absent /\ pi[p] \in Proforma
    BY <1>1, <1>3, <1>6, Existing DEF CommitReject, Sound
  <2> DEFINE new == [pi[p] EXCEPT !.status = "REJECTED"]
  <2>2. new \in Proforma /\ new.order = pi[p].order
    BY <2>1 DEF Proforma, PiStatus
  <2>3. pi' = [pi EXCEPT ![p] = new] /\ UNCHANGED <<order, ship, line, units>>
    BY <1>3, <1>6 DEF CommitReject, TypeOK
  <2> HIDE DEF new
  <2>4. \A q \in Proformas : pi'[q] = IF q = p THEN new ELSE pi[q]
    BY <2>3 DEF TypeOK
  <2>5. \A q \in Proformas : pi[q] # Absent => pi'[q] \in Proforma /\ pi'[q].order = pi[q].order
    BY <2>2, <2>4, Existing
  <2>6. pi' \in [Proformas -> Proforma \cup {Absent}]
    BY <2>2, <2>3 DEF TypeOK
  <2>7. order' \in [Orders -> Order \cup {Absent}]
    BY <2>3 DEF TypeOK
  <2>8. \A q \in Proformas : pi[q] = Absent => pi'[q] = Absent
    BY <2>1, <2>4
  <2>9. QED
    BY <1>2, <2>3, <2>5, <2>6, <2>7, <2>8, ProformasWritten
<1>7. QED
  BY <1>2, <1>4, <1>5, <1>6

(* Writes to shipments, their lines, units and the status of an order.      *)
LEMMA ShipmentsWritten ==
    ASSUME TypeOK, References, NEW r \in Requests, Ended(r),
           order' \in [Orders -> Order \cup {Absent}],
           \A o \in Orders : order[o] # Absent => order'[o] # Absent,
           pi' = pi,
           ship' \in [Shipments -> Shipment \cup {Absent}],
           \A s \in Shipments : ship[s] # Absent => ship'[s] # Absent,
           \A s \in Shipments : ship'[s] # Absent => order[ship'[s].order] # Absent,
           line' \in [ManifestLines -> ManifestLine \cup {Absent}],
           \A l \in ManifestLines : line'[l] # Absent => ship'[line'[l].ship] # Absent,
           units' \in SUBSET Unit
    PROVE  Committed(r)
<1>1. RowsTyped'
  BY DEF RowsTyped, TypeOK
<1>2. Grows
  BY DEF Grows
<1>3. \A p \in Proformas : pi[p] # Absent => order'[pi[p].order] # Absent
  BY Existing DEF Proforma, References, RowsRefer
<1>4. \A s \in Shipments : ship'[s] # Absent => order'[ship'[s].order] # Absent
  BY DEF Shipment
<1>5. RowsRefer'
  BY <1>3, <1>4 DEF RowsRefer
<1>6. QED
  BY <1>1, <1>2, <1>5 DEF Committed

(* A status written into a shipment that exists.                            *)
LEMMA ShipStatusWritten ==
    ASSUME TypeOK, References, NEW s \in Shipments, ship[s] # Absent, NEW st \in ShipStatus,
           ship' = [ship EXCEPT ![s].status = st]
    PROVE  /\ ship' \in [Shipments -> Shipment \cup {Absent}]
           /\ \A t \in Shipments : ship[t] # Absent => ship'[t] # Absent
           /\ \A t \in Shipments : ship'[t] # Absent => order[ship'[t].order] # Absent
<1> DEFINE new == [ship[s] EXCEPT !.status = st]
<1>1. new \in Shipment /\ new.order = ship[s].order
  BY Existing DEF Shipment
<1>2. ship' = [ship EXCEPT ![s] = new]
  BY DEF TypeOK
<1> HIDE DEF new
<1>3. \A t \in Shipments : ship'[t] = IF t = s THEN new ELSE ship[t]
  BY <1>2 DEF TypeOK
<1>4. QED
  BY <1>1, <1>2, <1>3, Distinct DEF TypeOK, References, RowsRefer

(* New manifest lines for shipment s, which exists then; others may be      *)
(* deleted.                                                                 *)
LEMMA LinesWritten ==
    ASSUME SupplyAssumption, TypeOK, References, NEW s \in Shipments,
           NEW new \in SUBSET Entry,
           line' = [l \in ManifestLines |-> line'[l]],
           \A l \in ManifestLines :
              IF l \in Named(new) THEN line'[l] = NewLine(new, s, l)
              ELSE line'[l] \in {line[l], Absent},
           ship'[s] # Absent,
           \A t \in Shipments : ship[t] # Absent => ship'[t] # Absent
    PROVE  /\ line' \in [ManifestLines -> ManifestLine \cup {Absent}]
           /\ \A l \in ManifestLines : line'[l] # Absent => ship'[line'[l].ship] # Absent
<1>1. ASSUME NEW l \in Named(new)
      PROVE  NewLine(new, s, l) \in ManifestLine /\ NewLine(new, s, l).ship = s
  <2>1. PICK e \in new : e.line = l
    BY <1>1 DEF Named
  <2> DEFINE f == CHOOSE g \in new : g.line = l
  <2>2. f \in new
    BY <2>1
  <2> HIDE DEF f
  <2>3. f.declared \in Nat
    BY <2>2 DEF Entry, SupplyAssumption
  <2>4. NewLine(new, s, l) = [ship |-> s, declared |-> f.declared,
                              received |-> 0, variance |-> 0, resolved |-> FALSE]
    BY DEF NewLine, f
  <2>5. QED
    BY <2>3, <2>4 DEF ManifestLine
<1>2. ASSUME NEW l \in ManifestLines
      PROVE  /\ line'[l] \in ManifestLine \cup {Absent}
             /\ line'[l] # Absent => ship'[line'[l].ship] # Absent
  <2>1. CASE l \in Named(new)
    <3>1. line'[l] = NewLine(new, s, l)
      BY <2>1
    <3>2. QED
      BY <1>1, <2>1, <3>1
  <2>2. CASE line'[l] = Absent
    BY <2>2
  <2>3. CASE l \notin Named(new) /\ line'[l] = line[l]
    <3>1. line'[l] = line[l] /\ line[l] \in ManifestLine \cup {Absent}
      BY <2>3 DEF TypeOK
    <3>2. line[l] # Absent => line[l].ship \in Shipments /\ ship[line[l].ship] # Absent
      BY <3>1 DEF ManifestLine, References, RowsRefer
    <3>3. QED
      BY <3>1, <3>2
  <2>4. QED
    BY <2>1, <2>2, <2>3
<1>3. QED
  BY <1>2

(* Changes of lines that stay where they are.                               *)
LEMMA LinesChanged ==
    ASSUME TypeOK, References,
           \A s \in Shipments : ship[s] # Absent => ship'[s] # Absent,
           line' = [l \in ManifestLines |-> line'[l]],
           \A l \in ManifestLines :
              \/ line'[l] = line[l]
              \/ line[l] # Absent /\ line'[l] \in ManifestLine /\ line'[l].ship = line[l].ship
    PROVE  /\ line' \in [ManifestLines -> ManifestLine \cup {Absent}]
           /\ \A l \in ManifestLines : line'[l] # Absent => ship'[line'[l].ship] # Absent
<1>1. ASSUME NEW l \in ManifestLines
      PROVE  /\ line'[l] \in ManifestLine \cup {Absent}
             /\ line'[l] # Absent => ship'[line'[l].ship] # Absent
  <2>1. line[l] # Absent => line[l].ship \in Shipments /\ ship[line[l].ship] # Absent
    BY Existing DEF ManifestLine, References, RowsRefer
  <2>2. line[l] \in ManifestLine \cup {Absent}
    BY DEF TypeOK
  <2>3. QED
    BY <2>1, <2>2
<1>2. QED
  BY <1>1

LEMMA CommitManifestEffect ==
    ASSUME SupplyAssumption, TypeOK, References, NEW r \in Requests,
           CommitShipment(r) \/ CommitUpdateShipment(r)
    PROVE  Committed(r) /\ req[r].op \in Ops
<1> DEFINE s == req[r].ship
           new == req[r].manifest
<1>1. req[r] \in Request /\ Sound(req[r])
  BY DEF TypeOK, References
<1>2. /\ req[r].op \in ShipOps /\ req[r].op \in Ops \ {"createOrder"}
      /\ UNCHANGED <<order, pi, units>>
  BY DEF CommitShipment, CommitUpdateShipment, ShipOps, Ops
<1>3. s \in Shipments /\ order[req[r].order] # Absent /\ req[r].order \in Orders
  BY <1>1, <1>2 DEF Sound
<1>4. new \in SUBSET Entry /\ req[r].to \in ShipStatus \cup {None}
  BY <1>1 DEF Request
<1>5. Ended(r)
  BY FinishedEnds, ReplacingEnds DEF CommitShipment, CommitUpdateShipment
<1>6. /\ order' \in [Orders -> Order \cup {Absent}]
      /\ \A o \in Orders : order[o] # Absent => order'[o] # Absent
      /\ units' \in SUBSET Unit
  BY <1>2 DEF TypeOK
<1>7. CASE CommitShipment(r)
  <2> DEFINE row == [order |-> req[r].order, status |-> "IN_TRANSIT"]
  <2>1. row \in Shipment /\ row.order = req[r].order
    BY <1>3, ShipStatuses DEF Shipment
  <2>2. /\ ship' = [ship EXCEPT ![s] = row]
        /\ line' = [l \in ManifestLines |-> line'[l]]
        /\ \A l \in ManifestLines : IF l \in Named(new) THEN line'[l] = NewLine(new, s, l)
                                    ELSE line'[l] \in {line[l], Absent}
    BY <1>7 DEF CommitShipment
  <2> HIDE DEF row
  <2>3. /\ ship' \in [Shipments -> Shipment \cup {Absent}]
        /\ ship'[s] # Absent
        /\ \A t \in Shipments : ship[t] # Absent => ship'[t] # Absent
        /\ \A t \in Shipments : ship'[t] # Absent => order[ship'[t].order] # Absent
    BY <1>3, <2>1, <2>2, Distinct DEF TypeOK, References, RowsRefer
  <2>4. /\ line' \in [ManifestLines -> ManifestLine \cup {Absent}]
        /\ \A l \in ManifestLines : line'[l] # Absent => ship'[line'[l].ship] # Absent
    BY <1>3, <1>4, <2>2, <2>3, LinesWritten
  <2>5. QED
    BY <1>2, <1>5, <1>6, <2>3, <2>4, ShipmentsWritten
<1>8. CASE CommitUpdateShipment(r)
  <2> DEFINE st == IF req[r].to = None THEN ship[s].status ELSE req[r].to
  <2>1. /\ ship' = [ship EXCEPT ![s].status = st]
        /\ line' = [l \in ManifestLines |-> line'[l]]
        /\ \A l \in ManifestLines : IF l \in Named(new) THEN line'[l] = NewLine(new, s, l)
                                    ELSE line'[l] \in {line[l], Absent}
    BY <1>8 DEF CommitUpdateShipment
  <2>2. ship[s] # Absent
    BY <1>1, <1>8 DEF CommitUpdateShipment, Sound, ShipOps
  <2>3. st \in ShipStatus
    BY <1>3, <1>4, <2>2, Existing DEF Shipment
  <2> HIDE DEF st
  <2>4. /\ ship' \in [Shipments -> Shipment \cup {Absent}]
        /\ \A t \in Shipments : ship[t] # Absent => ship'[t] # Absent
        /\ \A t \in Shipments : ship'[t] # Absent => order[ship'[t].order] # Absent
    BY <1>3, <2>1, <2>2, <2>3, ShipStatusWritten
  <2>5. /\ line' \in [ManifestLines -> ManifestLine \cup {Absent}]
        /\ \A l \in ManifestLines : line'[l] # Absent => ship'[line'[l].ship] # Absent
    BY <1>3, <1>4, <2>1, <2>2, <2>4, LinesWritten
  <2>6. QED
    BY <1>2, <1>5, <1>6, <2>4, <2>5, ShipmentsWritten
<1>9. QED
  BY <1>2, <1>7, <1>8

LEMMA CommitReceiptEffect ==
    ASSUME SupplyAssumption, TypeOK, References, NEW r \in Requests,
           \/ CommitReceive(r) \/ CommitResolve(r) \/ CommitComplete(r) \/ CommitClose(r)
    PROVE  Committed(r) /\ req[r].op \in Ops
<1> DEFINE s == req[r].ship
           o == req[r].order
<1>1. req[r] \in Request /\ Sound(req[r])
  BY DEF TypeOK, References
<1>2. /\ req[r].op \in ShipOps \ {"createShipment"} /\ req[r].op \in Ops \ {"createOrder"}
      /\ Ended(r) /\ pi' = pi
  BY FinishedEnds DEF CommitReceive, CommitResolve, CommitComplete, CommitClose, ShipOps, Ops
<1>3. s \in Shipments /\ ship[s] # Absent /\ o \in Orders /\ order[o] # Absent
  BY <1>1, <1>2 DEF Sound
<1>4. CASE CommitReceive(r) \/ CommitResolve(r)
  <2>1. order' = order /\ ship' = ship
    BY <1>4 DEF CommitReceive, CommitResolve
  <2>2. units' \in SUBSET Unit
    <3>1. CASE CommitReceive(r)
      <4>1. req[r].batch \in SUBSET Scan
        BY <1>1 DEF Request
      <4>2. \A a \in req[r].batch :
               [engine |-> a.engine, chassis |-> a.chassis, ship |-> s] \in Unit
        BY <1>3, <4>1 DEF Scan, Unit
      <4>3. units' = units \cup {[engine |-> a.engine, chassis |-> a.chassis, ship |-> s] :
                                   a \in req[r].batch}
        BY <3>1 DEF CommitReceive
      <4>4. QED
        BY <4>2, <4>3 DEF TypeOK
    <3>2. CASE CommitResolve(r)
      BY <3>2 DEF CommitResolve, TypeOK
    <3>3. QED
      BY <1>4, <3>1, <3>2
  <2>3. /\ line' = [l \in ManifestLines |-> line'[l]]
        /\ \A l \in ManifestLines :
              \/ line'[l] = line[l]
              \/ line[l] # Absent /\ line'[l] \in ManifestLine /\ line'[l].ship = line[l].ship
    <3>1. CASE CommitReceive(r)
      <4>1. line' = [l \in ManifestLines |->
                       IF l \in req[r].lines
                       THEN [line[l] EXCEPT !.received = NewCount(r, l),
                                            !.variance = NewVariance(r, l)]
                       ELSE line[l]]
        BY <3>1 DEF CommitReceive
      <4>2. ASSUME NEW l \in ManifestLines, l \in req[r].lines
            PROVE  /\ line[l] # Absent /\ line'[l] \in ManifestLine
                   /\ line'[l].ship = line[l].ship
        <5>1. line[l] # Absent /\ line[l] \in ManifestLine
          BY <3>1, <4>2, Existing DEF CommitReceive, LinesOf
        <5>2. Cardinality({a \in req[r].batch : a.line = l}) \in Nat
          <6>1. IsFiniteSet(req[r].batch)
            BY <1>1 DEF Sound
          <6>2. IsFiniteSet({a \in req[r].batch : a.line = l})
            BY <6>1, FS_Subset
          <6>3. QED
            BY <6>2, FS_CardinalityType
        <5>3. NewCount(r, l) \in Nat /\ NewVariance(r, l) \in Int
          BY <1>1, <5>1, <5>2 DEF NewCount, NewVariance, Request, ManifestLine
        <5>4. line'[l] = [line[l] EXCEPT !.received = NewCount(r, l),
                                         !.variance = NewVariance(r, l)]
          BY <4>1, <4>2
        <5>5. QED
          BY <5>1, <5>3, <5>4 DEF ManifestLine
      <4>3. QED
        BY <4>1, <4>2
    <3>2. CASE CommitResolve(r)
      <4>1. line' = [l \in ManifestLines |->
                       IF l \in req[r].lines THEN [line[l] EXCEPT !.resolved = TRUE]
                       ELSE line[l]]
        BY <3>2 DEF CommitResolve
      <4>2. ASSUME NEW l \in ManifestLines, l \in req[r].lines
            PROVE  /\ line[l] # Absent /\ line'[l] \in ManifestLine
                   /\ line'[l].ship = line[l].ship
        <5>1. line[l] # Absent /\ line[l] \in ManifestLine
          BY <3>2, <4>2, Existing DEF CommitResolve, LinesOf
        <5>2. line'[l] = [line[l] EXCEPT !.resolved = TRUE]
          BY <4>1, <4>2
        <5>3. QED
          BY <5>1, <5>2 DEF ManifestLine
      <4>3. QED
        BY <4>1, <4>2
    <3>3. QED
      BY <1>4, <3>1, <3>2
  <2>4. /\ line' \in [ManifestLines -> ManifestLine \cup {Absent}]
        /\ \A l \in ManifestLines : line'[l] # Absent => ship'[line'[l].ship] # Absent
    BY <2>1, <2>3, LinesChanged
  <2>5. QED
    BY <1>2, <2>1, <2>2, <2>4, ShipmentsWritten DEF TypeOK, References, RowsRefer
<1>5. CASE CommitComplete(r) \/ CommitClose(r)
  <2>1. PICK st \in {"RECEIVED", "CLOSED"} : ship' = [ship EXCEPT ![s].status = st]
    BY <1>5 DEF CommitComplete, CommitClose
  <2>2. /\ ship' \in [Shipments -> Shipment \cup {Absent}]
        /\ \A t \in Shipments : ship[t] # Absent => ship'[t] # Absent
        /\ \A t \in Shipments : ship'[t] # Absent => order[ship'[t].order] # Absent
    BY <1>3, <2>1, ShipStatuses, ShipStatusWritten
  <2>3. /\ order' \in [Orders -> Order \cup {Absent}]
        /\ \A q \in Orders : order[q] # Absent => order'[q] # Absent
    <3>1. CASE CommitComplete(r)
      <4>1. PICK pst \in {"FULLY_RECEIVED", "PARTIALLY_RECEIVED"} :
               order' = [order EXCEPT ![o].status = pst]
        BY <3>1 DEF CommitComplete
      <4>2. QED
        BY <1>3, <4>1, PoStatuses, StatusWritten
    <3>2. CASE CommitClose(r)
      BY <3>2 DEF CommitClose, TypeOK
    <3>3. QED
      BY <1>5, <3>1, <3>2
  <2>4. line' = line /\ units' = units
    BY <1>5 DEF CommitComplete, CommitClose
  <2>5. \A l \in ManifestLines : line[l] # Absent => ship'[line[l].ship] # Absent
    BY <2>2, Existing DEF ManifestLine, References, RowsRefer
  <2>6. QED
    BY <1>2, <2>2, <2>3, <2>4, <2>5, ShipmentsWritten DEF TypeOK
<1>6. QED
  BY <1>2, <1>4, <1>5

LEMMA CommitEffect ==
    ASSUME SupplyAssumption, TypeOK, References, NEW r \in Requests, Commit(r)
    PROVE  Committed(r) /\ req[r].op \in Ops
BY CommitOrderEffect, CommitProformaEffect, CommitManifestEffect, CommitReceiptEffect DEF Commit

LEMMA BeginProformaEffect ==
    ASSUME TypeOK, NEW r \in Requests, BeginProforma(r),
           NextRevision(req[r].order) \in Nat
    PROVE  /\ UNCHANGED rows
           /\ req[r].op = "createProforma" /\ req[r].begun = 0 /\ OrderLocked(r)
           /\ req' \in [Requests -> Request]
           /\ Alike(req'[r], req[r]) /\ req'[r].olds = req[r].olds
           /\ req'[r].begun = 1 /\ req'[r].revision = NextRevision(req[r].order)
           /\ \A q \in Requests \ {r} : req'[q] = req[q]
<1> DEFINE v == NextRevision(req[r].order)
           b == [req[r] EXCEPT !.begun = 1]
           new == [b EXCEPT !.revision = v]
<1>1. req[r] \in Request
  BY DEF TypeOK
<1>2. req' = [req EXCEPT ![r] = new] /\ UNCHANGED rows
  BY DEF BeginProforma, Begun
<1>3. b \in Request /\ Alike(b, req[r]) /\ b.olds = req[r].olds /\ b.begun = 1
  BY <1>1, Written, Zenon
<1> HIDE DEF v, b
<1>4. v \in Nat
  BY DEF v
<1>5. /\ new \in Request /\ Alike(new, b) /\ new.olds = b.olds
      /\ new.begun = b.begun /\ new.revision = v
  BY <1>3, <1>4, Written
<1> HIDE DEF new
<1>6. /\ req'[r] = new /\ req' \in [Requests -> Request]
      /\ \A q \in Requests \ {r} : req'[q] = req[q]
  BY <1>2, <1>5 DEF TypeOK
<1>7. /\ Alike(req'[r], req[r]) /\ req'[r].olds = req[r].olds
      /\ req'[r].begun = 1 /\ req'[r].revision = v
  BY <1>3, <1>5, <1>6 DEF Alike
<1>8. QED
  BY <1>2, <1>6, <1>7 DEF BeginProforma, Ready, v

-------------------------------------------------------------------------------
(* The type invariant and the references.                                   *)

LEMMA CommittedReferences ==
    ASSUME SupplyAssumption, TypeOK, References, NEW r \in Requests, Committed(r)
    PROVE  (TypeOK /\ References)'
<1> USE DEF Committed
<1>1. TypeOK'
  BY DEF Ended, RowsTyped, TypeOK
<1>2. ASSUME NEW q \in Requests PROVE Sound(req[q])'
  <2>1. CASE q = r
    <3>1. req'[q] = Idle
      BY <2>1 DEF Ended
    <3>2. QED
      BY <3>1, IdleTyped DEF Sound, IdleFacts, Ops, PiOps, ShipOps
  <2>2. CASE q # r
    <3>1. Sound(req[q]) /\ Same(q)
      BY <2>2 DEF References, Ended
    <3>2. req[q].op = "createProforma" => pi'[req[q].pi] = Absent
      <4>1. ASSUME req[q].op = "createProforma" PROVE pi'[req[q].pi] = Absent
        <5>1. pi[req[q].pi] = Absent /\ req[q].pi \in Proformas /\ req[q].pi # req[r].pi
          BY <2>2, <3>1, <4>1 DEF Sound, PiOps, References
        <5>2. QED
          BY <5>1
      <4>2. QED
        BY <4>1
    <3>3. QED
      BY <3>1, <3>2, SoundKept
  <2>3. QED
    BY <2>1, <2>2
<1>3. ASSUME NEW t \in Requests, NEW q \in Requests \ {t}, req'[t].op = "createProforma"
      PROVE  req'[q].pi # req'[t].pi
  <2>1. t # r
    BY <1>3, IdleTyped DEF Ended, IdleFacts
  <2>2. req[t].op = "createProforma" /\ req'[t].pi = req[t].pi /\ req[t].pi \in Proformas
    BY <1>3, <2>1 DEF Ended, Same, References, Sound, PiOps
  <2>3. CASE q = r
    BY <2>2, <2>3, IdleTyped DEF Ended, IdleFacts, SupplyAssumption
  <2>4. CASE q # r
    BY <2>2, <2>4 DEF Ended, Same, References
  <2>5. QED
    BY <2>3, <2>4
<1>4. QED
  BY <1>1, <1>2, <1>3 DEF References

LEMMA ReadReferences ==
    ASSUME SupplyAssumption, TypeOK, References, NEW r \in Requests,
           UNCHANGED rows, req' \in [Requests -> Request],
           \A q \in Requests \ {r} : req'[q] = req[q],
           Sound(req'[r]),
           \/ req'[r].pi = req[r].pi /\ req'[r].op = req[r].op
           \/ req[r] = Idle /\ Fit(req'[r])
    PROVE  (TypeOK /\ References)'
<1>1. TypeOK' /\ RowsRefer'
  BY DEF rows, TypeOK, References, RowsRefer
<1>2. ASSUME NEW q \in Requests PROVE Sound(req[q])'
  <2>1. Sound(req'[q])
    BY DEF References
  <2>2. QED
    BY <2>1 DEF Sound, rows
<1>3. ASSUME NEW t \in Requests, NEW q \in Requests \ {t}, req'[t].op = "createProforma"
      PROVE  req'[q].pi # req'[t].pi
  <2>1. CASE req'[r].pi = req[r].pi /\ req'[r].op = req[r].op
    BY <1>3, <2>1 DEF References
  <2>2. CASE req[r] = Idle /\ Fit(req'[r])
    <3>1. CASE t = r
      BY <1>3, <2>2, <3>1 DEF Fit
    <3>2. CASE q = r
      <4>1. req[t].op = "createProforma" /\ req'[t] = req[t] /\ req[t].pi \in Proformas
            /\ pi[req[t].pi] = Absent
        BY <1>3, <3>2 DEF References, Sound, PiOps
      <4>2. CASE req'[r].op = "createProforma"
        BY <2>2, <3>2, <4>1, <4>2 DEF Fit
      <4>3. CASE req'[r].op \in {"approveProforma", "rejectProforma"}
        BY <3>2, <4>1, <4>3 DEF Sound
      <4>4. CASE req'[r].op \notin PiOps
        BY <3>2, <4>1, <4>4 DEF Sound, SupplyAssumption
      <4>5. QED
        BY <4>2, <4>3, <4>4 DEF PiOps
    <3>3. CASE t # r /\ q # r
      BY <1>3, <3>3 DEF References
    <3>4. QED
      BY <3>1, <3>2, <3>3
  <2>3. QED
    BY <2>1, <2>2
<1>4. QED
  BY <1>1, <1>2, <1>3 DEF References

-------------------------------------------------------------------------------
(* Revisions.  While a transaction holds the lock of an order, no other one *)
(* numbers a proforma of that order, so what it read stays one more than    *)
(* the revisions there are.                                                 *)

Numbering(q) == req[q].op = "createProforma" /\ req[q].begun = 1

Numbered ==
    /\ RevisionsCount
    /\ \A o \in Orders : IsFiniteSet(ProformasOf(o))
    /\ \A q \in Requests : Numbering(q) =>
          req[q].revision = Cardinality(ProformasOf(req[q].order)) + 1
    /\ \A q \in Requests : \A t \in Requests \ {q} :
          Numbering(q) /\ Numbering(t) => req[q].order # req[t].order

LEMMA NextIsFree ==
    ASSUME Numbered, NEW o \in Orders
    PROVE  /\ NextRevision(o) = Cardinality(ProformasOf(o)) + 1
           /\ NextRevision(o) \in Nat
<1> DEFINE n == Cardinality(ProformasOf(o))
           S == {0} \cup {pi[p].revision : p \in ProformasOf(o)}
<1>1. n \in Nat
  BY FS_CardinalityType DEF Numbered
<1>2. S = 0 .. n
  <2>1. {pi[p].revision : p \in ProformasOf(o)} = 1 .. n
    BY DEF Numbered, RevisionsCount
  <2> HIDE DEF n
  <2>2. {0} \cup 1 .. n = 0 .. n
    BY <1>1
  <2>3. QED
    BY <2>1, <2>2
<1> HIDE DEF n, S
<1>3. Max(S) = n
  <2>1. n \in S /\ \A y \in S : n >= y
    BY <1>1, <1>2
  <2>2. \A x \in S : (\A y \in S : x >= y) => x = n
    BY <1>1, <1>2
  <2> DEFINE m == CHOOSE x \in S : \A y \in S : x >= y
  <2>3. m \in S /\ \A y \in S : m >= y
    BY <2>1
  <2>4. m = n
    BY <2>2, <2>3
  <2>5. QED
    BY <2>4 DEF Max
<1>4. NextRevision(o) = n + 1
  BY <1>3 DEF NextRevision, S
<1>5. QED
  BY <1>1, <1>4 DEF n

(* No proforma added, no number read.                                       *)
LEMMA NumberedKept ==
    ASSUME TypeOK, Numbered,
           \A p \in Proformas : pi'[p] = Absent <=> pi[p] = Absent,
           \A p \in Proformas : pi[p] # Absent =>
              pi'[p].order = pi[p].order /\ pi'[p].revision = pi[p].revision,
           \A q \in Requests : Numbering(q)' =>
              /\ Numbering(q) /\ req'[q].order = req[q].order
              /\ req'[q].revision = req[q].revision
    PROVE  Numbered'
<1>1. \A o : ProformasOf(o)' = ProformasOf(o)
  BY DEF ProformasOf
<1>2. \A o : \A p \in ProformasOf(o) : pi'[p].revision = pi[p].revision
  BY DEF ProformasOf
<1>3. ASSUME NEW o \in Orders
      PROVE  {pi'[p].revision : p \in ProformasOf(o)} = 1 .. Cardinality(ProformasOf(o))
  <2>1. {pi'[p].revision : p \in ProformasOf(o)} = {pi[p].revision : p \in ProformasOf(o)}
    BY <1>2
  <2>2. QED
    BY <2>1 DEF Numbered, RevisionsCount
<1>4. RevisionsCount'
  BY <1>1, <1>3 DEF RevisionsCount
<1>5. QED
  BY <1>1, <1>4 DEF Numbered

LEMMA BeginProformaNumbered ==
    ASSUME TypeOK, References, Numbered, NEW r \in Requests, BeginProforma(r)
    PROVE  Numbered'
<1> DEFINE o == req[r].order
<1>1. req[r].op = "createProforma" /\ o \in Orders
  BY DEF BeginProforma, Ready, References, Sound, Ops
<1>2. NextRevision(o) = Cardinality(ProformasOf(o)) + 1 /\ NextRevision(o) \in Nat
  BY <1>1, NextIsFree
<1>3. /\ UNCHANGED rows /\ OrderLocked(r)
      /\ req'[r].order = o /\ req'[r].revision = NextRevision(o)
      /\ \A q \in Requests \ {r} : req'[q] = req[q]
  BY <1>2, BeginProformaEffect DEF Alike
<1>4. RevisionsCount' /\ \A q \in Orders : IsFiniteSet(ProformasOf(q))'
  BY <1>3 DEF Numbered, RevisionsCount, ProformasOf, rows
<1>5. \A q : ProformasOf(q)' = ProformasOf(q)
  BY <1>3 DEF ProformasOf, rows
<1>6. ASSUME NEW q \in Requests, Numbering(q)'
      PROVE  req'[q].revision = Cardinality(ProformasOf(req'[q].order)) + 1
  <2>1. CASE q = r
    BY <1>2, <1>3, <2>1
  <2>2. CASE q # r
    BY <1>3, <1>6, <2>2 DEF Numbered, Numbering
  <2>3. QED
    BY <2>1, <2>2
<1>7. \A q \in Requests \ {r} : Numbering(q)' => Numbering(q) /\ req[q].order # o
  BY <1>3 DEF Numbering, OrderLocked
<1>8. \A q \in Requests : \A t \in Requests \ {q} :
         Numbering(q)' /\ Numbering(t)' => req'[q].order # req'[t].order
  BY <1>3, <1>7 DEF Numbered
<1>9. QED
  BY <1>4, <1>5, <1>6, <1>8 DEF Numbered

LEMMA CommitProformaNumbered ==
    ASSUME SupplyAssumption, TypeOK, References, Numbered, NEW r \in Requests,
           CommitProforma(r)
    PROVE  Numbered'
<1>0. PICK o \in Orders, p \in Proformas, v \in Nat :
         o = req[r].order /\ p = req[r].pi /\ v = req[r].revision
  BY DEF CommitProforma, TypeOK, Request, References, Sound, Ops, PiOps
<1> DEFINE n == Cardinality(ProformasOf(o))
           new == [order |-> o, revision |-> v, status |-> "PENDING_REVIEW"]
<1>1. Numbering(r) /\ pi' = [pi EXCEPT ![p] = new]
  BY <1>0 DEF CommitProforma, Numbering
<1>2. o \in Orders /\ p \in Proformas /\ pi[p] = Absent
  BY <1>0, <1>1 DEF References, Sound, Numbering, Ops, PiOps
<1>3. IsFiniteSet(ProformasOf(o)) /\ n \in Nat /\ v = n + 1
  BY <1>0, <1>1, <1>2, FS_CardinalityType DEF Numbered
<1>4. new # Absent /\ new.order = o /\ new.revision = v
  <2>1. new.status = "PENDING_REVIEW" /\ Absent.status = "NONE"
    BY DEF Absent, NoRow
  <2>2. QED
    BY <2>1
<1> HIDE DEF new
<1>5. \A q \in Proformas : pi'[q] = IF q = p THEN new ELSE pi[q]
  BY <1>1 DEF TypeOK
<1>6. ProformasOf(o)' = ProformasOf(o) \cup {p} /\ p \notin ProformasOf(o)
  BY <1>2, <1>4, <1>5 DEF ProformasOf
<1>7. \A q \in Orders \ {o} : ProformasOf(q)' = ProformasOf(q)
  BY <1>2, <1>4, <1>5 DEF ProformasOf
<1>8. IsFiniteSet(ProformasOf(o)') /\ Cardinality(ProformasOf(o)') = n + 1
  BY <1>3, <1>6, FS_AddElement
<1>9. ASSUME NEW q \in Orders
      PROVE  {pi'[s].revision : s \in ProformasOf(q)'} = 1 .. Cardinality(ProformasOf(q)')
  <2>1. \A s \in ProformasOf(q) : pi'[s].revision = pi[s].revision
    BY <1>2, <1>5 DEF ProformasOf
  <2>2. {pi[s].revision : s \in ProformasOf(q)} = 1 .. Cardinality(ProformasOf(q))
    BY DEF Numbered, RevisionsCount
  <2>3. {pi'[s].revision : s \in ProformasOf(q)} = {pi[s].revision : s \in ProformasOf(q)}
    BY <2>1
  <2>4. CASE q = o
    <3>1. {pi'[s].revision : s \in ProformasOf(o) \cup {p}}
             = {pi'[s].revision : s \in ProformasOf(o)} \cup {v}
      BY <1>2, <1>4, <1>5
    <3> HIDE DEF n
    <3>2. {pi'[s].revision : s \in ProformasOf(o)'} = (1 .. n) \cup {v}
      BY <1>6, <2>2, <2>3, <2>4, <3>1 DEF n
    <3>3. (1 .. n) \cup {v} = 1 .. (n + 1)
      BY <1>3
    <3>4. QED
      BY <1>8, <2>4, <3>2, <3>3
  <2>5. CASE q # o
    BY <1>7, <2>2, <2>3, <2>5
  <2>6. QED
    BY <2>4, <2>5
<1>10. RevisionsCount'
  BY <1>9 DEF RevisionsCount
<1>11. Ended(r)
  BY FinishedEnds DEF CommitProforma
<1>12. ASSUME NEW q \in Requests, Numbering(q)'
       PROVE  /\ q # r /\ Numbering(q)
              /\ req'[q].order = req[q].order /\ req'[q].revision = req[q].revision
              /\ req[q].order \in Orders \ {o}
  <2>1. q # r
    BY <1>11, <1>12, IdleTyped DEF Ended, Numbering, IdleFacts
  <2>2. Same(q) /\ Numbering(q)
    BY <1>11, <1>12, <2>1 DEF Ended, Same, Numbering
  <2>3. req[q].order # o
    BY <1>0, <1>1, <2>1, <2>2 DEF Numbered
  <2>4. req[q].order \in Orders
    BY <2>2 DEF References, Sound, Numbering, Ops
  <2>5. QED
    BY <2>1, <2>2, <2>3, <2>4 DEF Same
<1>13. \A q \in Orders : IsFiniteSet(ProformasOf(q)')
  BY <1>7, <1>8 DEF Numbered
<1>14. \A q \in Requests : Numbering(q)' =>
          (req[q].revision = Cardinality(ProformasOf(req[q].order)) + 1)'
  <2>1. ASSUME NEW q \in Requests, Numbering(q)'
        PROVE  (req[q].revision = Cardinality(ProformasOf(req[q].order)) + 1)'
    <3>1. PICK oq \in Orders \ {o} : oq = req[q].order /\ oq = req'[q].order
      BY <1>12, <2>1
    <3>2. ProformasOf(oq)' = ProformasOf(oq)
      BY <1>7
    <3>3. req'[q].revision = Cardinality(ProformasOf(oq)') + 1
      BY <1>12, <2>1, <3>1, <3>2 DEF Numbered
    <3>4. QED
      BY <3>1, <3>3
  <2>2. QED
    BY <2>1
<1>15. \A q \in Requests : \A t \in Requests \ {q} :
          Numbering(q)' /\ Numbering(t)' => req'[q].order # req'[t].order
  BY <1>12 DEF Numbered
<1>16. QED
  BY <1>10, <1>13, <1>14, <1>15 DEF Numbered

-------------------------------------------------------------------------------
(* I-5 and identities.                                                      *)

(* The index: what is ACTIVE after an approval is its own proforma.         *)
LEMMA ApproveActivatesOne ==
    ASSUME TypeOK, References, OneActiveProforma, NEW r \in Requests, CommitApprove(r)
    PROVE  OneActiveProforma'
<1> DEFINE p == req[r].pi
           o == req[r].order
<1>1. /\ pi[p] # Absent /\ pi[p].order = o /\ p \in Proformas
      /\ \A q \in req[r].olds : pi[q] # Absent /\ pi[q].order = o
  BY DEF CommitApprove, References, Sound, PiOps
<1>2. /\ Active(o) \subseteq req[r].olds \cup {p}
      /\ pi' = [q \in Proformas |->
                  IF q = p THEN [pi[q] EXCEPT !.status = "ACTIVE"]
                  ELSE IF q \in req[r].olds THEN [pi[q] EXCEPT !.status = "SUPERSEDED"]
                  ELSE pi[q]]
  BY DEF CommitApprove, Admitted
<1>3. ASSUME NEW q \in Proformas, pi'[q] # Absent, pi'[q].status = "ACTIVE", q # p
      PROVE  pi[q] # Absent /\ pi[q].status = "ACTIVE" /\ pi'[q].order = pi[q].order
             /\ pi[q].order # o
  <2>1. q \notin req[r].olds
    <3>1. ASSUME q \in req[r].olds PROVE FALSE
      <4>1. pi[q] \in Proforma
        BY <1>1, <3>1, Existing
      <4>2. pi'[q].status = "SUPERSEDED"
        BY <1>2, <1>3, <3>1, <4>1 DEF Proforma
      <4>3. QED
        BY <1>3, <4>2
    <3>2. QED
      BY <3>1
  <2>2. pi'[q] = pi[q]
    BY <1>2, <1>3, <2>1
  <2>3. pi[q].order # o
    BY <1>2, <1>3, <2>1, <2>2 DEF Active, ProformasOf
  <2>4. QED
    BY <1>3, <2>2, <2>3
<1>4. pi'[p].order = o
  BY <1>1, <1>2, Existing DEF Proforma
<1>5. ASSUME NEW q \in Orders, NEW a \in Active(q)', NEW b \in Active(q)'
      PROVE  a = b
  <2>1. /\ a \in Proformas /\ pi'[a] # Absent /\ pi'[a].order = q /\ pi'[a].status = "ACTIVE"
        /\ b \in Proformas /\ pi'[b] # Absent /\ pi'[b].order = q /\ pi'[b].status = "ACTIVE"
    BY DEF Active, ProformasOf
  <2>2. CASE a = p \/ b = p
    BY <1>3, <1>4, <2>1, <2>2
  <2>3. CASE a # p /\ b # p
    <3>1. a \in Active(q) /\ b \in Active(q)
      BY <1>3, <2>1, <2>3 DEF Active, ProformasOf
    <3>2. QED
      BY <3>1 DEF OneActiveProforma
  <2>4. QED
    BY <2>2, <2>3
<1>6. QED
  BY <1>5 DEF OneActiveProforma

(* A step that activates no proforma.                                       *)
LEMMA ActiveKept ==
    ASSUME OneActiveProforma,
           \A p \in Proformas : pi'[p] # Absent /\ pi'[p].status = "ACTIVE" =>
              pi[p] # Absent /\ pi[p].status = "ACTIVE" /\ pi'[p].order = pi[p].order
    PROVE  OneActiveProforma'
<1>1. \A o \in Orders : Active(o)' \subseteq Active(o)
  BY DEF Active, ProformasOf
<1>2. QED
  BY <1>1 DEF OneActiveProforma

LEMMA ReceiveKeepsIdentities ==
    ASSUME IdentitiesAreUnique, NEW r \in Requests, CommitReceive(r)
    PROVE  IdentitiesAreUnique'
<1> DEFINE s == req[r].ship
           made == {[engine |-> a.engine, chassis |-> a.chassis, ship |-> s] : a \in req[r].batch}
<1>1. units' = units \cup made
  BY DEF CommitReceive
<1>2. /\ \A a \in req[r].batch : \A b \in req[r].batch \ {a} : ~Clash(a, b)
      /\ \A a \in req[r].batch : \A u \in units : ~Clash(a, u)
  BY DEF CommitReceive, Duplicates
<1>3. ASSUME NEW u \in made, NEW w \in units \cup made,
             u.engine = w.engine \/ u.chassis = w.chassis
      PROVE  u = w
  <2>1. PICK a \in req[r].batch : u = [engine |-> a.engine, chassis |-> a.chassis, ship |-> s]
    OBVIOUS
  <2>2. u.engine = a.engine /\ u.chassis = a.chassis
    BY <2>1
  <2>3. CASE w \in units
    BY <1>2, <1>3, <2>2, <2>3 DEF Clash
  <2>4. CASE w \in made
    <3>1. PICK b \in req[r].batch : w = [engine |-> b.engine, chassis |-> b.chassis, ship |-> s]
      BY <2>4
    <3>2. w.engine = b.engine /\ w.chassis = b.chassis
      BY <3>1
    <3>3. a = b
      BY <1>2, <1>3, <2>2, <3>2 DEF Clash
    <3>4. QED
      BY <2>1, <3>1, <3>3
  <2>5. QED
    BY <2>3, <2>4
<1> HIDE DEF made
<1>4. QED
  BY <1>1, <1>3 DEF IdentitiesAreUnique

-------------------------------------------------------------------------------
(* The invariant.                                                           *)

IInv ==
    /\ TypeOK
    /\ References
    /\ Numbered
    /\ OneActiveProforma
    /\ IdentitiesAreUnique

LEMMA InitInv == ASSUME SupplyAssumption, Init PROVE IInv
<1>1. /\ \A o \in Orders : order[o] = Absent
      /\ \A p \in Proformas : pi[p] = Absent
      /\ \A s \in Shipments : ship[s] = Absent
      /\ \A l \in ManifestLines : line[l] = Absent
      /\ \A r \in Requests : req[r] = Idle
      /\ units = {}
  BY DEF Init
<1>2. TypeOK
  BY IdleTyped DEF Init, TypeOK, IdleFacts
<1>3. RowsRefer
  BY <1>1 DEF RowsRefer
<1>4. Sound(Idle)
  BY IdleTyped DEF IdleFacts, Sound, Ops, PiOps, ShipOps
<1>5. References
  BY <1>1, <1>3, <1>4, IdleTyped DEF References, IdleFacts
<1>6. \A o : ProformasOf(o) = {}
  BY <1>1 DEF ProformasOf
<1>7. IsFiniteSet({}) /\ Cardinality({}) = 0
  BY FS_EmptySet
<1>8. RevisionsCount
  <2>1. \A o : {pi[p].revision : p \in ProformasOf(o)} = {}
    BY <1>6
  <2>2. \A o : 1 .. Cardinality(ProformasOf(o)) = {}
    <3>1. \A o : Cardinality(ProformasOf(o)) = 0
      BY <1>6, <1>7, Zenon
    <3>2. 1 .. 0 = {}
      OBVIOUS
    <3>3. QED
      BY <3>1, <3>2, Zenon
  <2>3. QED
    BY <2>1, <2>2 DEF RevisionsCount
<1>9. \A r \in Requests : ~Numbering(r)
  BY <1>1, IdleTyped DEF Numbering, IdleFacts
<1>10. Numbered
  BY <1>6, <1>7, <1>8, <1>9 DEF Numbered
<1>11. OneActiveProforma /\ IdentitiesAreUnique
  BY <1>1, <1>6 DEF OneActiveProforma, Active, IdentitiesAreUnique
<1>12. QED
  BY <1>2, <1>5, <1>10, <1>11 DEF IInv

(* Nothing but the request r changes, and it reads no revision.             *)
Quiet(r) ==
    /\ UNCHANGED rows
    /\ \A q \in Requests \ {r} : req'[q] = req[q]
    /\ ~Numbering(r)'

LEMMA QuietKeeps ==
    ASSUME IInv, NEW r \in Requests, Quiet(r)
    PROVE  (Numbered /\ OneActiveProforma /\ IdentitiesAreUnique)'
<1> USE DEF IInv
<1>1. pi' = pi /\ units' = units
  BY DEF Quiet, rows
<1>2. \A q \in Requests : Numbering(q)' => Numbering(q) /\ req'[q] = req[q]
  BY DEF Quiet, Numbering
<1>3. Numbered'
  BY <1>1, <1>2, NumberedKept
<1>4. OneActiveProforma'
  BY <1>1, ActiveKept
<1>5. IdentitiesAreUnique'
  BY <1>1 DEF IdentitiesAreUnique
<1>6. QED
  BY <1>3, <1>4, <1>5

LEMMA ReadKeepsInv ==
    ASSUME SupplyAssumption, IInv, NEW r \in Requests,
           \/ ValidateOrder(r) \/ ValidateProforma(r) \/ ValidateShipment(r)
           \/ Begin(r) /\ ~BeginProforma(r)
    PROVE  IInv'
<1> USE DEF IInv
<1>1. CASE ValidateOrder(r) \/ ValidateProforma(r) \/ ValidateShipment(r)
  <2>1. Accepts(r)
    BY <1>1, ValidateOrderAccepts, ValidateProformaAccepts, ValidateShipmentAccepts
  <2>2. PICK q \in Request : Fit(q) /\ req' = [req EXCEPT ![r] = q]
    BY <2>1 DEF Accepts
  <2>3. /\ req' \in [Requests -> Request] /\ req'[r] = q
        /\ \A t \in Requests \ {r} : req'[t] = req[t]
    BY <2>2 DEF TypeOK
  <2>4. UNCHANGED rows /\ req[r] = Idle /\ Sound(req'[r]) /\ Fit(req'[r])
    BY <2>1, <2>2, <2>3 DEF Accepts, Fit
  <2>5. Quiet(r)
    BY <2>2, <2>3, <2>4 DEF Quiet, Numbering, Fit
  <2>6. QED
    BY <2>3, <2>4, <2>5, ReadReferences, QuietKeeps
<1>2. CASE Begin(r) /\ ~BeginProforma(r)
  <2>1. /\ UNCHANGED rows
        /\ req' \in [Requests -> Request]
        /\ req[r].op # "createProforma"
        /\ req'[r].op = req[r].op /\ req'[r].pi = req[r].pi
        /\ Sound(req'[r])
        /\ \A q \in Requests \ {r} : req'[q] = req[q]
    BY <1>2, BeginEffect
  <2>2. Quiet(r)
    BY <2>1 DEF Quiet, Numbering
  <2>3. QED
    BY <2>1, <2>2, ReadReferences, QuietKeeps
<1>3. QED
  BY <1>1, <1>2

LEMMA BeginProformaKeepsInv ==
    ASSUME SupplyAssumption, IInv, NEW r \in Requests, BeginProforma(r)
    PROVE  IInv'
<1> USE DEF IInv
<1>1. Numbered'
  BY BeginProformaNumbered
<1>2. req[r].op = "createProforma" /\ req[r].order \in Orders /\ Sound(req[r])
  BY DEF BeginProforma, Ready, References, Sound, Ops
<1>3. /\ UNCHANGED rows
      /\ req' \in [Requests -> Request]
      /\ Alike(req'[r], req[r]) /\ req'[r].olds = req[r].olds
      /\ \A q \in Requests \ {r} : req'[q] = req[q]
  BY <1>2, NextIsFree, BeginProformaEffect
<1>4. Sound(req'[r])
  BY <1>2, <1>3 DEF Sound, Alike
<1>5. (TypeOK /\ References)'
  BY <1>3, <1>4, ReadReferences DEF Alike
<1>6. OneActiveProforma' /\ IdentitiesAreUnique'
  <2>1. pi' = pi /\ units' = units
    BY <1>3 DEF rows
  <2>2. QED
    BY <2>1, ActiveKept DEF IdentitiesAreUnique
<1>7. QED
  BY <1>1, <1>5, <1>6

LEMMA EndKeepsInv ==
    ASSUME SupplyAssumption, IInv, NEW r \in Requests, Refuse(r) \/ Lose(r)
    PROVE  IInv'
<1> USE DEF IInv
<1>1. Ended(r) /\ UNCHANGED rows
  BY FinishedEnds DEF Refuse, Lose
<1>2. Committed(r)
  BY <1>1 DEF Committed, Grows, RowsTyped, TypeOK, References, RowsRefer, rows
<1>3. (TypeOK /\ References)'
  BY <1>2, CommittedReferences
<1>4. ASSUME NEW q \in Requests, Numbering(q)'
      PROVE  Numbering(q) /\ Same(q)
  BY <1>1, <1>4, IdleTyped DEF Ended, Numbering, Same, IdleFacts
<1>5. Numbered'
  BY <1>1, <1>4, NumberedKept DEF rows, Same
<1>6. OneActiveProforma' /\ IdentitiesAreUnique'
  <2>1. pi' = pi /\ units' = units
    BY <1>1 DEF rows
  <2>2. QED
    BY <2>1, ActiveKept DEF IdentitiesAreUnique
<1>7. QED
  BY <1>3, <1>5, <1>6

LEMMA CommitKeepsNumbers ==
    ASSUME SupplyAssumption, IInv, NEW r \in Requests, Commit(r)
    PROVE  Numbered'
<1> USE DEF IInv
<1>1. Committed(r)
  BY CommitEffect
<1>2. CASE CommitProforma(r)
  BY <1>2, CommitProformaNumbered
<1>3. CASE ~CommitProforma(r)
  <2>1. ASSUME NEW q \in Requests, Numbering(q)'
        PROVE  Numbering(q) /\ Same(q)
    BY <1>1, <2>1, IdleTyped DEF Committed, Ended, Numbering, Same, IdleFacts
  <2>2. \/ pi' = pi
        \/ CommitApprove(r) \/ CommitReject(r)
    BY <1>3 DEF Commit, CommitOrder, CommitUpdateOrder, CommitStatus, CommitShipment,
                CommitUpdateShipment, CommitReceive, CommitResolve, CommitComplete, CommitClose
  <2>3. \A p \in Proformas : pi[p] # Absent => pi'[p].revision = pi[p].revision
    BY <2>2, Existing DEF CommitApprove, CommitReject, Proforma, TypeOK
  <2>4. req[r].op = "createProforma" => pi' = pi
    BY <2>2 DEF CommitApprove, CommitReject
  <2>5. \A p \in Proformas : pi'[p] = Absent <=> pi[p] = Absent
    BY <1>1, <2>4 DEF Committed, Grows
  <2>6. \A p \in Proformas : pi[p] # Absent => pi'[p].order = pi[p].order
    BY <1>1 DEF Committed, Grows
  <2>7. QED
    BY <2>1, <2>3, <2>5, <2>6, NumberedKept DEF Same
<1>4. QED
  BY <1>2, <1>3

LEMMA CommitKeepsInv ==
    ASSUME SupplyAssumption, IInv, NEW r \in Requests, Commit(r)
    PROVE  IInv'
<1> USE DEF IInv
<1>1. (TypeOK /\ References)'
  BY CommitEffect, CommittedReferences
<1>2. Numbered'
  BY CommitKeepsNumbers
<1>3. OneActiveProforma'
  <2>1. CASE CommitApprove(r)
    BY <2>1, ApproveActivatesOne
  <2>2. CASE CommitProforma(r)
    <3>1. \A p \in Proformas : pi'[p] # pi[p] => pi'[p].status = "PENDING_REVIEW"
      BY <2>2 DEF CommitProforma, TypeOK
    <3>2. QED
      BY <3>1, ActiveKept
  <2>3. CASE CommitReject(r)
    <3>1. pi' = [pi EXCEPT ![req[r].pi].status = "REJECTED"]
          /\ pi[req[r].pi] # Absent /\ req[r].pi \in Proformas
      BY <2>3 DEF CommitReject, References, Sound, PiOps
    <3>2. \A p \in Proformas : pi'[p] # pi[p] => pi'[p].status = "REJECTED"
      BY <3>1, Existing DEF TypeOK, Proforma
    <3>3. QED
      BY <3>2, ActiveKept
  <2>4. CASE ~CommitApprove(r) /\ ~CommitProforma(r) /\ ~CommitReject(r)
    <3>1. pi' = pi
      BY <2>4 DEF Commit, CommitOrder, CommitUpdateOrder, CommitStatus, CommitShipment,
                  CommitUpdateShipment, CommitReceive, CommitResolve, CommitComplete, CommitClose
    <3>2. QED
      BY <3>1, ActiveKept
  <2>5. QED
    BY <2>1, <2>2, <2>3, <2>4
<1>4. IdentitiesAreUnique'
  <2>1. CASE CommitReceive(r)
    BY <2>1, ReceiveKeepsIdentities
  <2>2. CASE ~CommitReceive(r)
    <3>1. units' = units
      BY <2>2 DEF Commit, CommitOrder, CommitUpdateOrder, CommitStatus, CommitShipment,
                  CommitUpdateShipment, CommitResolve, CommitComplete, CommitClose,
                  CommitProforma, CommitApprove, CommitReject
    <3>2. QED
      BY <3>1 DEF IdentitiesAreUnique
  <2>3. QED
    BY <2>1, <2>2
<1>5. QED
  BY <1>1, <1>2, <1>3, <1>4

LEMMA StutterKeepsInv ==
    ASSUME IInv, UNCHANGED vars
    PROVE  IInv'
<1> USE DEF IInv
<1>1. /\ order' = order /\ pi' = pi /\ ship' = ship /\ line' = line
      /\ units' = units /\ req' = req
  BY DEF vars, rows
<1>2. TypeOK'
  BY <1>1 DEF TypeOK
<1>3. References'
  BY <1>1 DEF References, RowsRefer, Sound
<1>4. Numbered'
  BY <1>1, NumberedKept DEF Numbering
<1>5. OneActiveProforma' /\ IdentitiesAreUnique'
  BY <1>1, ActiveKept DEF IdentitiesAreUnique
<1>6. QED
  BY <1>2, <1>3, <1>4, <1>5

(* The invariant is inductive, whatever the requests and the rows.          *)
THEOREM Invariant == Spec => []IInv
<1>1. Init => IInv
  BY SupplyAssumption, InitInv
<1>2. IInv /\ [Next]_vars => IInv'
  <2> SUFFICES ASSUME IInv, [Next]_vars PROVE IInv'
    OBVIOUS
  <2>1. ASSUME NEW r \in Requests,
               \/ ValidateOrder(r) \/ ValidateProforma(r) \/ ValidateShipment(r)
               \/ Begin(r) \/ Commit(r) \/ Refuse(r) \/ Lose(r)
        PROVE  IInv'
    <3>1. CASE ValidateOrder(r) \/ ValidateProforma(r) \/ ValidateShipment(r)
      BY <3>1, SupplyAssumption, ReadKeepsInv
    <3>2. CASE Begin(r)
      BY <3>2, SupplyAssumption, ReadKeepsInv, BeginProformaKeepsInv
    <3>3. CASE Commit(r)
      BY <3>3, SupplyAssumption, CommitKeepsInv
    <3>4. CASE Refuse(r) \/ Lose(r)
      BY <3>4, SupplyAssumption, EndKeepsInv
    <3>5. QED
      BY <2>1, <3>1, <3>2, <3>3, <3>4
  <2>2. CASE UNCHANGED vars
    BY <2>2, StutterKeepsInv
  <2>3. QED
    BY <2>1, <2>2 DEF Next
<1>3. QED
  BY <1>1, <1>2, PTL DEF Spec

(* Rows and requests have the values their columns and DTOs declare.        *)
THEOREM TypeCorrect == Spec => []TypeOK
<1>1. IInv => TypeOK
  BY DEF IInv
<1>2. QED
  BY <1>1, Invariant, PTL

(* I-5, of ProformaInvoicesService.approve under any concurrency: the       *)
(* partial unique index admits one ACTIVE proforma per order.               *)
THEOREM ProformasAreExclusive == Spec => []OneActiveProforma
<1>1. IInv => OneActiveProforma
  BY DEF IInv
<1>2. QED
  BY <1>1, Invariant, PTL

(* ProformaInvoicesService.create numbers the revisions of an order without *)
(* a duplicate or a gap under any concurrency, thanks to the row lock.      *)
THEOREM RevisionsAreCounted == Spec => []RevisionsCount
<1>1. IInv => RevisionsCount
  BY DEF IInv, Numbered
<1>2. QED
  BY <1>1, Invariant, PTL

(* ShipmentsService.receiveUnits never lets an engine or a chassis number   *)
(* name two units, under any concurrency.                                   *)
THEOREM IdentitiesAreKept == Spec => []IdentitiesAreUnique
<1>1. IInv => IdentitiesAreUnique
  BY DEF IInv
<1>2. QED
  BY <1>1, Invariant, PTL

-------------------------------------------------------------------------------
(* One request at a time.                                                   *)

OneAtATime == \A p, q \in Requests : p = q

(* What a request has checked or read is still so when it writes.           *)
Stands(q) ==
    /\ q.op = "createOrder" => order[q.order] = Absent
    /\ q.op = "submitOrder" => order[q.order].status = "DRAFT"
    /\ q.op = "approveOrder" => order[q.order].status = "PENDING_APPROVAL"
    /\ q.op \in {"approveProforma", "rejectProforma"} => UnderReview(q.pi)
    /\ q.op = "approveProforma" /\ q.begun = 1 =>
          q.olds = Active(q.order) /\ q.advance = PullForward(q.order)
    /\ q.op = "createShipment" => ship[q.ship] = Absent
    /\ q.op \in {"updateShipment", "completeReceipt", "closeShipment"} =>
          ship[q.ship].order = q.order
    /\ q.op = "updateShipment" /\ q.to # None => Patchable(ship[q.ship].status, q.to)
    /\ q.op = "receive" /\ q.begun = 1 => ship[q.ship].status = "CLEARED"
    /\ q.op = "completeReceipt" /\ q.begun # 0 => ShipCanMove(ship[q.ship].status, "RECEIVED")
    /\ q.op = "closeShipment" =>
          ShipCanMove(ship[q.ship].status, "CLOSED") /\ AllSettled(q.ship)

Upheld ==
    /\ AgreedOrdersStand
    /\ ClosedShipmentsSettled
    /\ ReceiptsReachOrder

SerialInv == (\A r \in Requests : Stands(req[r])) /\ Upheld

LEMMA Ranks ==
    /\ Rank("DRAFT") = 1 /\ Rank("PENDING_APPROVAL") = 2 /\ Rank("PI_RECEIVED") = 5
    /\ Rank("PARTIALLY_RECEIVED") = 7 /\ Rank("FULLY_RECEIVED") = 8
    /\ \A s \in PoStatus : Rank(s) \in 1 .. 9
<1>1. /\ DOMAIN Lifecycle = 1 .. 9
      /\ Lifecycle[1] = "DRAFT" /\ Lifecycle[2] = "PENDING_APPROVAL"
      /\ Lifecycle[3] = "APPROVED" /\ Lifecycle[4] = "SENT_TO_SUPPLIER"
      /\ Lifecycle[5] = "PI_RECEIVED" /\ Lifecycle[6] = "AWAITING_SHIPMENT"
      /\ Lifecycle[7] = "PARTIALLY_RECEIVED" /\ Lifecycle[8] = "FULLY_RECEIVED"
      /\ Lifecycle[9] = "CLOSED"
  BY DEF Lifecycle
<1>2. \A n, m \in 1 .. 9 : Lifecycle[n] = Lifecycle[m] => n = m
  BY <1>1
<1>3. ASSUME NEW n \in 1 .. 9
      PROVE  Rank(Lifecycle[n]) = n
  BY <1>1, <1>2 DEF Rank
<1>4. PoStatus = {Lifecycle[n] : n \in 1 .. 9}
  BY <1>1 DEF PoStatus, ToSet
<1>5. \A s \in PoStatus : Rank(s) \in 1 .. 9
  BY <1>3, <1>4
<1>6. QED
  BY <1>1, <1>3, <1>5

LEMMA Voyages ==
    ASSUME NEW from, NEW to
    PROVE  /\ ShipCanMove(from, "RECEIVED") => from = "CLEARED"
           /\ ShipCanMove(from, "CLOSED") => from = "RECEIVED"
           /\ ShipCanMove(from, to) /\ to \in PatchTargets =>
                 from \notin {"RECEIVED", "CLOSED"} /\ to \notin {"RECEIVED", "CLOSED"}
           /\ "CLEARED" # "CLOSED"
<1>1. /\ Len(Voyage) = 6
      /\ Voyage[1] = "IN_TRANSIT" /\ Voyage[2] = "AT_PORT" /\ Voyage[3] = "CLEARING"
      /\ Voyage[4] = "CLEARED" /\ Voyage[5] = "RECEIVED" /\ Voyage[6] = "CLOSED"
  BY DEF Voyage
<1>2. QED
  BY <1>1 DEF ShipCanMove, PatchTargets

(* The fields of what the validation asks for.                              *)
LEMMA Asked ==
    ASSUME NEW op, NEW o, NEW p, NEW s, NEW b, NEW new, NEW to, NEW batch, NEW ls,
           NEW q \in {[Ask(op, o, p, s) EXCEPT !.basket = b],
                      Ask(op, o, p, s),
                      [Ask(op, o, p, s) EXCEPT !.manifest = new],
                      [Ask(op, o, p, s) EXCEPT !.lines = ls],
                      [Ask(op, o, p, s) EXCEPT !.batch = batch, !.lines = ls],
                      [Ask(op, o, p, s) EXCEPT !.manifest = new, !.to = to]}
    PROVE  q.op = op /\ q.order = o /\ q.pi = p /\ q.ship = s /\ q.begun = 0
<1> DEFINE a == Ask(op, o, p, s)
<1>1. CASE q = a \/ q = [a EXCEPT !.basket = b] \/ q = [a EXCEPT !.manifest = new]
  BY <1>1 DEF Ask
<1>2. CASE q = [a EXCEPT !.lines = ls]
  BY <1>2 DEF Ask
<1>3. CASE q = [a EXCEPT !.batch = batch, !.lines = ls]
  BY <1>3 DEF Ask
<1>4. CASE q = [a EXCEPT !.manifest = new, !.to = to]
  BY <1>4 DEF Ask
<1> HIDE DEF a
<1>5. QED
  BY <1>1, <1>2, <1>3, <1>4 DEF a

LEMMA AskedTo ==
    ASSUME NEW op, NEW o, NEW p, NEW s, NEW new, NEW to
    PROVE  [Ask(op, o, p, s) EXCEPT !.manifest = new, !.to = to].to = to
BY DEF Ask

(* A request that has just come in relies only on what validation checked.  *)
LEMMA StandsAsked ==
    ASSUME TypeOK, NEW r \in Requests, NEW q, Accept(r, q), Stands(q)
    PROVE  Stands(req[r])'
<1>1. UNCHANGED rows /\ req'[r] = q
  BY DEF Accept, TypeOK
<1>2. QED
  BY <1>1 DEF Stands, rows, UnderReview, Active, ProformasOf, PullForward, AllSettled, LinesOf,
              Settled

LEMMA ValidateStands ==
    ASSUME TypeOK, References, NEW r \in Requests,
           ValidateOrder(r) \/ ValidateProforma(r) \/ ValidateShipment(r)
    PROVE  Stands(req[r])'
<1>1. CASE ValidateOrder(r)
  <2>1. PICK o \in Orders :
           \/ \E b \in Baskets : CreateOrder(r, o, b) \/ UpdateOrder(r, o, b)
           \/ SubmitOrder(r, o) \/ ApproveOrder(r, o)
    BY <1>1 DEF ValidateOrder
  <2>2. ASSUME NEW b \in Baskets, CreateOrder(r, o, b) \/ UpdateOrder(r, o, b)
        PROVE  Stands(req[r])'
    <3>1. PICK op \in {"createOrder", "updateOrder"} :
             /\ Accept(r, [Ask(op, o, None, None) EXCEPT !.basket = b])
             /\ op = "createOrder" => order[o] = Absent
      BY <2>2 DEF CreateOrder, UpdateOrder
    <3> DEFINE q == [Ask(op, o, None, None) EXCEPT !.basket = b]
    <3>2. q.op = op /\ q.order = o
      BY Asked
    <3>3. Stands(q)
      BY <3>1, <3>2 DEF Stands
    <3>4. QED
      BY <3>1, <3>3, StandsAsked
  <2>3. ASSUME SubmitOrder(r, o) \/ ApproveOrder(r, o)
        PROVE  Stands(req[r])'
    <3>1. PICK op \in {"submitOrder", "approveOrder"} :
             /\ Accept(r, Ask(op, o, None, None))
             /\ op = "submitOrder" => order[o].status = "DRAFT"
             /\ op = "approveOrder" => order[o].status = "PENDING_APPROVAL"
      BY <2>3 DEF SubmitOrder, ApproveOrder, PoCanMove
    <3> DEFINE q == Ask(op, o, None, None)
    <3>2. q.op = op /\ q.order = o
      BY Asked
    <3>3. Stands(q)
      BY <3>1, <3>2 DEF Stands
    <3>4. QED
      BY <3>1, <3>3, StandsAsked
  <2>4. QED
    BY <2>1, <2>2, <2>3
<1>2. CASE ValidateProforma(r)
  <2>1. PICK p \in Proformas :
           \/ \E o \in Orders : CreateProforma(r, o, p)
           \/ ApproveProforma(r, p) \/ RejectProforma(r, p)
    BY <1>2 DEF ValidateProforma
  <2>2. PICK op, o :
           /\ op \in PiOps
           /\ Accept(r, Ask(op, o, p, None))
           /\ op # "createProforma" => UnderReview(p)
    BY <2>1 DEF CreateProforma, ApproveProforma, RejectProforma, PiOps
  <2> DEFINE q == Ask(op, o, p, None)
  <2>3. q.op = op /\ q.pi = p /\ q.begun = 0
    BY Asked
  <2>4. Stands(q)
    BY <2>2, <2>3 DEF Stands, PiOps
  <2>5. QED
    BY <2>2, <2>4, StandsAsked
<1>3. CASE ValidateShipment(r)
  <2>1. PICK s \in Shipments :
           \/ \E o \in Orders, new \in Manifests : CreateShipment(r, o, s, new)
           \/ \E new \in Manifests, to \in PatchTargets \cup {None} : UpdateShipment(r, s, new, to)
           \/ \E batch \in Receipts : Receive(r, s, batch)
           \/ \E ls \in SUBSET ManifestLines : ResolveVariance(r, s, ls)
           \/ CompleteReceipt(r, s) \/ CloseShipment(r, s)
    BY <1>3 DEF ValidateShipment
  <2>2. ASSUME NEW o \in Orders, NEW new \in Manifests, CreateShipment(r, o, s, new)
        PROVE  Stands(req[r])'
    <3> DEFINE q == [Ask("createShipment", o, None, s) EXCEPT !.manifest = new]
    <3>1. q.op = "createShipment" /\ q.ship = s
      BY Asked
    <3>2. Stands(q)
      BY <2>2, <3>1 DEF Stands, CreateShipment
    <3>3. QED
      BY <2>2, <3>2, StandsAsked DEF CreateShipment
  <2>3. ASSUME NEW new \in Manifests, NEW to \in PatchTargets \cup {None},
               UpdateShipment(r, s, new, to)
        PROVE  Stands(req[r])'
    <3> DEFINE q == [Ask("updateShipment", ship[s].order, None, s)
                        EXCEPT !.manifest = new, !.to = to]
    <3>1. q.op = "updateShipment" /\ q.ship = s /\ q.order = ship[s].order
      BY Asked
    <3>2. q.to = to
      BY AskedTo
    <3>3. Stands(q)
      BY <2>3, <3>1, <3>2 DEF Stands, UpdateShipment
    <3>4. QED
      BY <2>3, <3>3, StandsAsked DEF UpdateShipment
  <2>4. ASSUME NEW batch \in Receipts, Receive(r, s, batch)
        PROVE  Stands(req[r])'
    <3> DEFINE q == [Ask("receive", ship[s].order, None, s)
                        EXCEPT !.batch = batch, !.lines = {a.line : a \in batch}]
    <3>1. q.op = "receive" /\ q.begun = 0
      BY Asked
    <3>2. Stands(q)
      BY <3>1 DEF Stands
    <3>3. QED
      BY <2>4, <3>2, StandsAsked DEF Receive
  <2>5. ASSUME NEW ls \in SUBSET ManifestLines, ResolveVariance(r, s, ls)
        PROVE  Stands(req[r])'
    <3> DEFINE q == [Ask("resolveVariance", ship[s].order, None, s) EXCEPT !.lines = ls]
    <3>1. q.op = "resolveVariance"
      BY Asked
    <3>2. Stands(q)
      BY <3>1 DEF Stands
    <3>3. QED
      BY <2>5, <3>2, StandsAsked DEF ResolveVariance
  <2>6. ASSUME CompleteReceipt(r, s) \/ CloseShipment(r, s)
        PROVE  Stands(req[r])'
    <3>1. PICK op \in {"completeReceipt", "closeShipment"} :
             /\ Accept(r, Ask(op, ship[s].order, None, s))
             /\ op = "closeShipment" => ShipCanMove(ship[s].status, "CLOSED") /\ AllSettled(s)
      BY <2>6 DEF CompleteReceipt, CloseShipment
    <3> DEFINE q == Ask(op, ship[s].order, None, s)
    <3>2. q.op = op /\ q.ship = s /\ q.order = ship[s].order /\ q.begun = 0
      BY Asked
    <3>3. Stands(q)
      BY <3>1, <3>2 DEF Stands
    <3>4. QED
      BY <3>1, <3>3, StandsAsked
  <2>7. QED
    BY <2>1, <2>2, <2>3, <2>4, <2>5, <2>6
<1>4. QED
  BY <1>1, <1>2, <1>3

(* What reading adds: how far the transaction is, and what approve saw.     *)
LEMMA BeginStands ==
    ASSUME TypeOK, NEW r \in Requests, Begin(r), Stands(req[r])
    PROVE  UNCHANGED rows /\ Stands(req[r])'
<1> DEFINE a == req[r]
<1>1. a \in Request
  BY DEF TypeOK
<1>2. ASSUME NEW q, Begun(r, q), Stands(q)
      PROVE  UNCHANGED rows /\ Stands(req[r])'
  <2>1. UNCHANGED rows /\ req'[r] = q
    BY <1>2 DEF Begun, TypeOK
  <2>2. QED
    BY <1>2, <2>1 DEF Stands, rows, UnderReview, Active, ProformasOf, PullForward, AllSettled,
                      LinesOf, Settled
<1>3. CASE BeginReplace(r)
  <2> DEFINE b == [a EXCEPT !.begun = 1]
             q == [b EXCEPT !.covers = TRUE]
  <2>1. b \in Request /\ Alike(b, a) /\ b.to = a.to
    BY <1>1, Zenon, Written DEF Request
  <2> HIDE DEF b
  <2>2. Alike(q, b) /\ q.to = b.to
    BY <2>1 DEF Request, Alike
  <2> HIDE DEF q
  <2>3. Stands(q)
    BY <1>3, <2>1, <2>2 DEF Stands, Alike, BeginReplace, Ready
  <2>4. Begun(r, q)
    BY <1>3 DEF BeginReplace, b, q
  <2>5. QED
    BY <1>2, <2>3, <2>4
<1>4. CASE BeginProforma(r)
  <2> DEFINE b == [a EXCEPT !.begun = 1]
             q == [b EXCEPT !.revision = NextRevision(a.order)]
  <2>1. b \in Request /\ Alike(b, a)
    BY <1>1, Zenon, Written
  <2> HIDE DEF b
  <2>2. q.op = b.op
    BY <2>1 DEF Request
  <2> HIDE DEF q
  <2>3. Stands(q)
    BY <1>4, <2>1, <2>2 DEF Stands, Alike, BeginProforma, Ready
  <2>4. Begun(r, q)
    BY <1>4 DEF BeginProforma, b, q
  <2>5. QED
    BY <1>2, <2>3, <2>4
<1>5. CASE BeginApprove(r)
  <2> DEFINE o == a.order
             b == [a EXCEPT !.begun = 1]
             c == [b EXCEPT !.olds = Active(o)]
             q == [c EXCEPT !.advance = PullForward(o)]
  <2>1. b \in Request /\ Alike(b, a)
    BY <1>1, Zenon, Written
  <2> HIDE DEF b
  <2>2. Active(o) \in SUBSET Proformas
    BY DEF Active, ProformasOf
  <2>3. c \in Request /\ Alike(c, b) /\ c.olds = Active(o)
    BY <2>1, <2>2, Written, Zenon
  <2> HIDE DEF c
  <2>4. Alike(q, c) /\ q.olds = c.olds /\ q.advance = PullForward(o)
    BY <2>3 DEF Request, Alike
  <2> HIDE DEF q
  <2>5. Stands(q)
    BY <1>5, <2>1, <2>3, <2>4 DEF Stands, Alike, BeginApprove, Ready
  <2>6. Begun(r, q)
    BY <1>5 DEF BeginApprove, b, c, q
  <2>7. QED
    BY <1>2, <2>5, <2>6
<1>6. CASE BeginReceive(r)
  <2> DEFINE sn == [l \in ManifestLines |-> IF l \in a.lines THEN line[l].received ELSE 0]
             b == [a EXCEPT !.begun = 1]
             q == [b EXCEPT !.seen = sn]
  <2>1. b \in Request /\ Alike(b, a)
    BY <1>1, Zenon, Written
  <2> HIDE DEF b, sn
  <2>2. q.op = b.op /\ q.ship = b.ship
    BY <2>1 DEF Request
  <2> HIDE DEF q
  <2>3. Stands(q)
    BY <1>6, <2>1, <2>2 DEF Stands, Alike, BeginReceive, Ready, Receivable
  <2>4. Begun(r, q)
    BY <1>6 DEF BeginReceive, b, q, sn
  <2>5. QED
    BY <1>2, <2>3, <2>4
<1>7. CASE BeginComplete(r)
  <2> DEFINE q == [a EXCEPT !.begun = 1]
  <2>1. Alike(q, a)
    BY <1>1, Zenon, Written
  <2> HIDE DEF q
  <2>2. Stands(q)
    BY <1>7, <2>1 DEF Stands, Alike, BeginComplete, Ready
  <2>3. Begun(r, q)
    BY <1>7 DEF BeginComplete, q
  <2>4. QED
    BY <1>2, <2>2, <2>3
<1>8. CASE CountReceipts(r)
  <2> DEFINE b == [a EXCEPT !.begun = 2]
             q == [b EXCEPT !.advance = FullyReceived(a.order)]
  <2>1. b \in Request /\ Alike(b, a)
    BY <1>1, Zenon, Written
  <2> HIDE DEF b
  <2>2. Alike(q, b)
    BY <2>1 DEF Request, Alike
  <2> HIDE DEF q
  <2>3. Stands(q)
    BY <1>8, <2>1, <2>2 DEF Stands, Alike, CountReceipts
  <2>4. Begun(r, q)
    BY <1>8 DEF CountReceipts, b, q
  <2>5. QED
    BY <1>2, <2>3, <2>4
<1>9. QED
  BY <1>3, <1>4, <1>5, <1>6, <1>7, <1>8 DEF Begin

-------------------------------------------------------------------------------
(* The commits, one by one: what is upheld, and how the rows move.          *)

Decided(p) ==
    (pi[p] # Absent /\ pi'[p] # pi[p]) =>
          \/ pi[p].status = "PENDING_REVIEW" /\ pi'[p].status \in {"ACTIVE", "REJECTED"}
          \/ /\ pi[p].status = "ACTIVE" /\ pi'[p].status = "SUPERSEDED"
             /\ \E q \in ProformasOf(pi[p].order) \ {p} : pi'[q].status = "ACTIVE"

Sailed(s) ==
    ship[s] # Absent =>
        (ship'[s].status # ship[s].status => ShipCanMove(ship[s].status, ship'[s].status))

Legal ==
    /\ Upheld'
    /\ \A p \in Proformas : Decided(p)
    /\ \A s \in Shipments : Sailed(s)

Arrived == {"PARTIALLY_RECEIVED", "FULLY_RECEIVED"}

(* An order may change its status unless units have arrived for it; with an *)
(* ACTIVE proforma it stays at PI_RECEIVED or beyond.                       *)
LEMMA OrdersMove ==
    ASSUME TypeOK, RowsRefer, Upheld, UNCHANGED <<pi, ship, line>>,
           \A o \in Orders : order[o] # Absent =>
              \/ order'[o].status = order[o].status
              \/ /\ order[o].status \notin Arrived
                 /\ Active(o) # {} => Rank(order'[o].status) >= Rank("PI_RECEIVED")
    PROVE  Legal
<1>1. \A o : Active(o)' = Active(o)
  BY DEF Active, ProformasOf
<1>2. AgreedOrdersStand'
  <2>1. ASSUME NEW o \in Orders, Active(o) # {}
        PROVE  order[o] # Absent
    BY <2>1 DEF Active, ProformasOf, RowsRefer
  <2>2. QED
    BY <1>1, <2>1 DEF AgreedOrdersStand, Upheld, OrdersThatExist
<1>3. ClosedShipmentsSettled'
  BY DEF ClosedShipmentsSettled, Upheld, LinesOf, Settled
<1>4. ReceiptsReachOrder'
  <2>1. ASSUME NEW s \in Shipments, ship[s].status \in {"RECEIVED", "CLOSED"}
        PROVE  order'[ship[s].order].status \in Arrived
    <3>1. ship[s] # Absent
      BY <2>1, Existing DEF NoRow
    <3>2. ship[s].order \in Orders /\ order[ship[s].order] # Absent
      BY <3>1, Existing DEF Shipment, RowsRefer
    <3>3. order[ship[s].order].status \in Arrived
      BY <2>1 DEF Upheld, ReceiptsReachOrder, Arrived
    <3>4. QED
      BY <3>2, <3>3
  <2>2. QED
    BY <2>1 DEF ReceiptsReachOrder, Arrived
<1>5. QED
  BY <1>2, <1>3, <1>4 DEF Legal, Upheld, Decided, Sailed

LEMMA OrderCommitsLegal ==
    ASSUME TypeOK, References, Upheld, NEW r \in Requests, Stands(req[r]),
           CommitOrder(r) \/ CommitUpdateOrder(r) \/ CommitStatus(r)
    PROVE  Legal
<1> DEFINE o == req[r].order
<1>1. RowsRefer /\ Sound(req[r])
  BY DEF References
<1>2. CASE CommitOrder(r)
  <2>1. order[o] = Absent
    BY <1>2 DEF CommitOrder, Stands
  <2>2. \A x \in Orders : order[x] # Absent => order'[x] = order[x]
    BY <1>2, <2>1 DEF CommitOrder, TypeOK
  <2>3. QED
    BY <1>1, <1>2, <2>2, OrdersMove DEF CommitOrder
<1>3. CASE CommitUpdateOrder(r)
  <2>1. o \in Orders /\ order[o] # Absent
    BY <1>1, <1>3 DEF CommitUpdateOrder, Sound, Ops
  <2>2. order[o] \in Order
    BY <2>1, Existing
  <2>3. order'[o].status = order[o].status
    BY <1>3, <2>1, <2>2 DEF CommitUpdateOrder, TypeOK, Order
  <2>4. \A x \in Orders \ {o} : order'[x] = order[x]
    BY <1>3 DEF CommitUpdateOrder, TypeOK
  <2>5. QED
    BY <1>1, <1>3, <2>3, <2>4, OrdersMove DEF CommitUpdateOrder
<1>4. CASE CommitStatus(r)
  <2>1. o \in Orders /\ order[o] # Absent
    BY <1>1, <1>4 DEF CommitStatus, Sound, Ops
  <2>2. order[o].status \in {"DRAFT", "PENDING_APPROVAL"}
    BY <1>4 DEF CommitStatus, Stands
  <2>3. Active(o) = {}
    BY <2>1, <2>2, Ranks DEF Upheld, AgreedOrdersStand, OrdersThatExist
  <2>4. \A x \in Orders \ {o} : order'[x] = order[x]
    BY <1>4 DEF CommitStatus, TypeOK
  <2>5. QED
    BY <1>1, <1>4, <2>2, <2>3, <2>4, OrdersMove DEF CommitStatus, Arrived
<1>5. QED
  BY <1>2, <1>3, <1>4

LEMMA ProformasMove ==
    ASSUME TypeOK, RowsRefer, Upheld, UNCHANGED <<ship, line>>,
           \A o \in Orders : order[o] # Absent =>
              \/ order'[o].status = order[o].status
              \/ order[o].status \notin Arrived,
           \A o \in Orders : order'[o] # Absent /\ Active(o)' # {} =>
              \/ Active(o) # {} /\ order[o] # Absent /\ order'[o].status = order[o].status
              \/ Rank(order'[o].status) >= Rank("PI_RECEIVED"),
           \A p \in Proformas : Decided(p)
    PROVE  Legal
<1>1. AgreedOrdersStand'
  BY DEF AgreedOrdersStand, Upheld, OrdersThatExist
<1>2. ClosedShipmentsSettled'
  BY DEF ClosedShipmentsSettled, Upheld, LinesOf, Settled
<1>3. ReceiptsReachOrder'
  <2>1. ASSUME NEW s \in Shipments, ship[s].status \in {"RECEIVED", "CLOSED"}
        PROVE  order'[ship[s].order].status \in Arrived
    <3>1. ship[s] # Absent
      BY <2>1, Existing DEF NoRow
    <3>2. ship[s].order \in Orders /\ order[ship[s].order] # Absent
      BY <3>1, Existing DEF Shipment, RowsRefer
    <3>3. order[ship[s].order].status \in Arrived
      BY <2>1 DEF Upheld, ReceiptsReachOrder, Arrived
    <3>4. QED
      BY <3>2, <3>3
  <2>2. QED
    BY <2>1 DEF ReceiptsReachOrder, Arrived
<1>4. QED
  BY <1>1, <1>2, <1>3 DEF Legal, Upheld, Sailed

LEMMA ProformaCommitsLegal ==
    ASSUME TypeOK, References, Upheld, NEW r \in Requests, Stands(req[r]),
           CommitProforma(r) \/ CommitApprove(r) \/ CommitReject(r)
    PROVE  Legal
<1> DEFINE o == req[r].order
           p == req[r].pi
<1>1. RowsRefer /\ Sound(req[r])
  BY DEF References
<1>2. p \in Proformas /\ o \in Orders /\ order[o] # Absent
  BY <1>1 DEF CommitProforma, CommitApprove, CommitReject, Sound, PiOps, Ops
<1>3. ASSUME NEW x \in Orders, Active(x) # {}
      PROVE  order[x] # Absent
  BY <1>1, <1>3 DEF Active, ProformasOf, RowsRefer
<1>4. CASE CommitProforma(r)
  <2>1. pi[p] = Absent /\ \A q \in Proformas \ {p} : pi'[q] = pi[q]
    BY <1>1, <1>4 DEF CommitProforma, Sound, TypeOK
  <2>2. pi'[p].status = "PENDING_REVIEW"
    BY <1>2, <1>4 DEF CommitProforma, TypeOK
  <2>3. \A x : Active(x)' \subseteq Active(x)
    BY <2>1, <2>2 DEF Active, ProformasOf
  <2>4. UNCHANGED <<order, ship, line>>
    BY <1>4 DEF CommitProforma
  <2>5. \A q \in Proformas : Decided(q)
    BY <2>1 DEF Decided
  <2>6. QED
    BY <1>1, <1>3, <2>3, <2>4, <2>5, ProformasMove
<1>5. CASE CommitReject(r)
  <2>1. pi[p] # Absent /\ pi[p].status = "PENDING_REVIEW" /\ pi[p] \in Proforma
    BY <1>1, <1>2, <1>5, Existing DEF CommitReject, Sound, Stands, UnderReview
  <2>2. pi'[p].status = "REJECTED" /\ \A q \in Proformas \ {p} : pi'[q] = pi[q]
    BY <1>2, <1>5, <2>1 DEF CommitReject, TypeOK, Proforma
  <2>3. \A x : Active(x)' \subseteq Active(x)
    BY <2>1, <2>2 DEF Active, ProformasOf
  <2>4. UNCHANGED <<order, ship, line>>
    BY <1>5 DEF CommitReject
  <2>5. \A q \in Proformas : Decided(q)
    BY <2>1, <2>2 DEF Decided
  <2>6. QED
    BY <1>1, <1>3, <2>3, <2>4, <2>5, ProformasMove
<1>6. CASE CommitApprove(r)
  <2>1. /\ pi[p] # Absent /\ pi[p].status = "PENDING_REVIEW" /\ pi[p].order = o
        /\ req[r].olds = Active(o) /\ req[r].advance = PullForward(o)
    BY <1>1, <1>6 DEF CommitApprove, Sound, Stands, UnderReview
  <2>2. p \notin Active(o)
    BY <2>1 DEF Active
  <2>3. pi' = [q \in Proformas |->
                 IF q = p THEN [pi[q] EXCEPT !.status = "ACTIVE"]
                 ELSE IF q \in Active(o) THEN [pi[q] EXCEPT !.status = "SUPERSEDED"]
                 ELSE pi[q]]
    BY <1>6, <2>1 DEF CommitApprove
  <2>4. \A q \in Proformas : pi[q] # Absent => pi[q] \in Proforma
    BY Existing
  <2>5. pi'[p].status = "ACTIVE" /\ pi'[p].order = o
    BY <1>2, <2>1, <2>3, <2>4 DEF Proforma
  <2>6. ASSUME NEW q \in Active(o)
        PROVE  /\ q \in Proformas /\ pi[q] # Absent /\ pi[q].status = "ACTIVE"
               /\ pi[q].order = o /\ pi'[q].status = "SUPERSEDED" /\ q # p
    <3>1. q \in Proformas /\ pi[q] # Absent /\ pi[q].status = "ACTIVE" /\ pi[q].order = o
      BY DEF Active, ProformasOf
    <3>2. pi'[q] = [pi[q] EXCEPT !.status = "SUPERSEDED"]
      BY <2>2, <2>3, <3>1
    <3>3. QED
      BY <2>2, <2>4, <3>1, <3>2 DEF Proforma
  <2>7. \A q \in Proformas : q # p /\ q \notin Active(o) => pi'[q] = pi[q]
    BY <2>3
  <2>8. \A q \in Proformas : Decided(q)
    <3>1. Decided(p)
      BY <2>1, <2>5 DEF Decided
    <3>2. \A q \in Active(o) : Decided(q)
      BY <1>2, <2>1, <2>5, <2>6 DEF Decided, ProformasOf
    <3>3. \A q \in Proformas : q # p /\ q \notin Active(o) => Decided(q)
      BY <2>7 DEF Decided
    <3>4. QED
      BY <3>1, <3>2, <3>3
  <2>9. \A x \in Orders \ {o} : Active(x)' \subseteq Active(x)
    BY <2>5, <2>6, <2>7 DEF Active, ProformasOf
  <2>10. UNCHANGED <<ship, line>>
    BY <1>6 DEF CommitApprove
  <2>11. order[o] \in Order /\ \A x \in Orders \ {o} : order'[x] = order[x]
    BY <1>2, <1>6, Existing DEF CommitApprove, TypeOK
  <2>12. order'[o].status = IF PullForward(o) THEN "PI_RECEIVED" ELSE order[o].status
    BY <1>2, <1>6, <2>1, <2>11 DEF CommitApprove, TypeOK, Order
  <2>13. Rank(order'[o].status) >= Rank("PI_RECEIVED")
    BY <2>11, <2>12, Ranks DEF PullForward, Order
  <2>14. order'[o].status # order[o].status => order[o].status \notin Arrived
    BY <2>12, Ranks DEF PullForward, Arrived
  <2>15. QED
    BY <1>1, <1>3, <2>8, <2>9, <2>10, <2>11, <2>13, <2>14, ProformasMove
<1>7. QED
  BY <1>4, <1>5, <1>6

-------------------------------------------------------------------------------
(* Shipments, their lines and the receipt.                                  *)

LEMMA ClosedKept ==
    ASSUME ClosedShipmentsSettled,
           \A x \in Shipments : ship'[x].status = "CLOSED" =>
              ship[x].status = "CLOSED" \/ AllSettled(x),
           \A l \in ManifestLines :
              line'[l] # Absent /\ ship'[line'[l].ship].status = "CLOSED" =>
                 \/ line'[l].variance = 0 \/ line'[l].resolved
                 \/ line'[l] = line[l]
    PROVE  ClosedShipmentsSettled'
<1>1. ASSUME NEW x \in Shipments, ship'[x].status = "CLOSED", NEW l \in LinesOf(x)'
      PROVE  Settled(l)'
  <2>1. l \in ManifestLines /\ line'[l] # Absent /\ line'[l].ship = x
    BY DEF LinesOf
  <2>2. CASE line'[l].variance = 0 \/ line'[l].resolved
    BY <2>2 DEF Settled
  <2>3. CASE line'[l] = line[l]
    <3>1. l \in LinesOf(x)
      BY <2>1, <2>3 DEF LinesOf
    <3>2. Settled(l)
      BY <1>1, <3>1 DEF ClosedShipmentsSettled, AllSettled
    <3>3. QED
      BY <2>3, <3>2 DEF Settled
  <2>4. QED
    BY <1>1, <2>1, <2>2, <2>3
<1>2. QED
  BY <1>1 DEF ClosedShipmentsSettled

(* Orders and proformas do not change; no shipment becomes received or      *)
(* closed but one that was received.                                        *)
LEMMA ShipmentsMove ==
    ASSUME Upheld, UNCHANGED <<order, pi>>, ClosedShipmentsSettled',
           \A x \in Shipments : ship'[x].status \in {"RECEIVED", "CLOSED"} =>
              ship[x].status \in {"RECEIVED", "CLOSED"} /\ ship'[x].order = ship[x].order,
           \A x \in Shipments : Sailed(x)
    PROVE  Legal
<1>1. AgreedOrdersStand'
  BY DEF AgreedOrdersStand, Upheld, OrdersThatExist, Active, ProformasOf
<1>2. ReceiptsReachOrder'
  BY DEF ReceiptsReachOrder, Upheld
<1>3. QED
  BY <1>1, <1>2 DEF Legal, Upheld, Decided

LEMMA NewLineSettled ==
    ASSUME NEW new, NEW s, NEW l
    PROVE  NewLine(new, s, l).variance = 0 /\ NewLine(new, s, l).ship = s
BY DEF NewLine

LEMMA ManifestCommitsLegal ==
    ASSUME TypeOK, References, Upheld, NEW r \in Requests, Stands(req[r]),
           CommitShipment(r) \/ CommitUpdateShipment(r)
    PROVE  Legal
<1> DEFINE s == req[r].ship
           new == req[r].manifest
<1>1. s \in Shipments /\ Sound(req[r])
  BY DEF CommitShipment, CommitUpdateShipment, References, Sound, ShipOps
<1>2. ASSUME NEW l \in ManifestLines
      PROVE  \/ line'[l] = line[l] \/ line'[l] = Absent \/ line'[l].variance = 0
  BY NewLineSettled DEF CommitShipment, CommitUpdateShipment
<1>3. CASE CommitShipment(r)
  <2>1. ship[s] = Absent
    BY <1>3 DEF CommitShipment, Stands
  <2>2. ship'[s].status = "IN_TRANSIT" /\ \A x \in Shipments \ {s} : ship'[x] = ship[x]
    BY <1>1, <1>3 DEF CommitShipment, TypeOK
  <2>3. ClosedShipmentsSettled'
    BY <1>2, <2>2, ClosedKept DEF Upheld
  <2>4. \A x \in Shipments : Sailed(x)
    BY <2>1, <2>2 DEF Sailed
  <2>5. QED
    BY <1>3, <2>2, <2>3, <2>4, ShipmentsMove DEF CommitShipment
<1>4. CASE CommitUpdateShipment(r)
  <2>1. ship[s] # Absent /\ ship[s] \in Shipment
    BY <1>1, <1>4, Existing DEF CommitUpdateShipment, Sound, ShipOps
  <2>2. /\ ship'[s].status = IF req[r].to = None THEN ship[s].status ELSE req[r].to
        /\ ship'[s].order = ship[s].order
        /\ \A x \in Shipments \ {s} : ship'[x] = ship[x]
    BY <1>1, <1>4, <2>1 DEF CommitUpdateShipment, TypeOK, Shipment
  <2>3. req[r].to # None => /\ req[r].to \in PatchTargets
                            /\ ShipCanMove(ship[s].status, req[r].to)
    BY <1>4 DEF CommitUpdateShipment, Stands, Patchable
  <2>4. req[r].to # None => req[r].to \notin {"RECEIVED", "CLOSED"}
    BY <2>3, Voyages
  <2>5. ClosedShipmentsSettled'
    BY <1>2, <2>2, <2>4, ClosedKept DEF Upheld
  <2>6. \A x \in Shipments : Sailed(x)
    BY <2>2, <2>3 DEF Sailed
  <2>7. QED
    BY <1>4, <2>2, <2>4, <2>5, <2>6, ShipmentsMove DEF CommitUpdateShipment
<1>5. QED
  BY <1>3, <1>4

LEMMA ReceiptCommitsLegal ==
    ASSUME TypeOK, References, Upheld, NEW r \in Requests, Stands(req[r]),
           CommitReceive(r) \/ CommitResolve(r)
    PROVE  Legal
<1> DEFINE s == req[r].ship
           ls == req[r].lines
<1>1. UNCHANGED <<order, pi, ship>> /\ ls \subseteq LinesOf(s)
  BY DEF CommitReceive, CommitResolve
<1>2. \A l \in ls : l \in ManifestLines /\ line[l] \in ManifestLine /\ line[l].ship = s
  BY <1>1, Existing DEF LinesOf
<1>3. \A l \in ManifestLines \ ls : line'[l] = line[l]
  BY DEF CommitReceive, CommitResolve
<1>4. CASE CommitReceive(r)
  <2>1. \A l \in ls : line'[l].ship = s
    BY <1>2, <1>4 DEF CommitReceive, ManifestLine
  <2>2. ship[s].status = "CLEARED"
    BY <1>4 DEF CommitReceive, Stands
  <2>3. ClosedShipmentsSettled'
    BY <1>1, <1>3, <2>1, <2>2, ClosedKept DEF Upheld
  <2>4. QED
    BY <1>1, <2>3, ShipmentsMove DEF Sailed
<1>5. CASE CommitResolve(r)
  <2>1. \A l \in ls : line'[l].resolved = TRUE
    BY <1>2, <1>5 DEF CommitResolve, ManifestLine
  <2>2. ClosedShipmentsSettled'
    BY <1>1, <1>3, <2>1, ClosedKept DEF Upheld
  <2>3. QED
    BY <1>1, <2>2, ShipmentsMove DEF Sailed
<1>6. QED
  BY <1>4, <1>5

LEMMA CompletionCommitsLegal ==
    ASSUME TypeOK, References, Upheld, NEW r \in Requests, Stands(req[r]),
           CommitComplete(r) \/ CommitClose(r)
    PROVE  Legal
<1> DEFINE s == req[r].ship
           o == req[r].order
<1>1. /\ s \in Shipments /\ ship[s] # Absent /\ ship[s] \in Shipment
      /\ o \in Orders /\ order[o] # Absent /\ order[o] \in Order
      /\ ship[s].order = o
  BY Existing DEF CommitComplete, CommitClose, References, Sound, Ops, ShipOps, Stands
<1>2. CASE CommitClose(r)
  <2>1. ship[s].status = "RECEIVED" /\ ShipCanMove(ship[s].status, "CLOSED") /\ AllSettled(s)
    BY <1>2, Voyages DEF CommitClose, Stands
  <2>2. /\ ship'[s].status = "CLOSED" /\ ship'[s].order = ship[s].order
        /\ \A x \in Shipments \ {s} : ship'[x] = ship[x]
    BY <1>1, <1>2 DEF CommitClose, TypeOK, Shipment
  <2>3. UNCHANGED <<order, pi, line>>
    BY <1>2 DEF CommitClose
  <2>4. ClosedShipmentsSettled'
    BY <2>1, <2>2, <2>3, ClosedKept DEF Upheld
  <2>5. QED
    BY <2>1, <2>2, <2>3, <2>4, ShipmentsMove DEF Sailed
<1>3. CASE CommitComplete(r)
  <2>1. ship[s].status = "CLEARED" /\ ShipCanMove(ship[s].status, "RECEIVED")
    BY <1>3, Voyages DEF CommitComplete, Stands
  <2>2. /\ ship'[s].status = "RECEIVED" /\ ship'[s].order = o
        /\ \A x \in Shipments \ {s} : ship'[x] = ship[x]
    BY <1>1, <1>3 DEF CommitComplete, TypeOK, Shipment
  <2>3. UNCHANGED <<pi, line>>
    BY <1>3 DEF CommitComplete
  <2>4. order'[o].status \in Arrived /\ \A x \in Orders \ {o} : order'[x] = order[x]
    BY <1>1, <1>3 DEF CommitComplete, TypeOK, Order, Arrived
  <2>5. ClosedShipmentsSettled'
    BY <2>2, <2>3, ClosedKept DEF Upheld
  <2>6. AgreedOrdersStand'
    <3>1. Rank(order'[o].status) >= Rank("PI_RECEIVED")
      BY <2>4, Ranks DEF Arrived
    <3>2. \A x : Active(x)' = Active(x)
      BY <2>3 DEF Active, ProformasOf
    <3>3. QED
      BY <2>4, <3>1, <3>2 DEF AgreedOrdersStand, Upheld, OrdersThatExist
  <2>7. ReceiptsReachOrder'
    <3>1. ASSUME NEW x \in Shipments, ship'[x].status \in {"RECEIVED", "CLOSED"}
          PROVE  order'[ship'[x].order].status \in Arrived
      <4>1. CASE x = s
        BY <2>2, <2>4, <4>1
      <4>2. CASE x # s
        <5>1. ship'[x] = ship[x] /\ ship[x] # Absent
          BY <2>2, <3>1, <4>2, Existing DEF NoRow
        <5>2. ship[x].order \in Orders
          BY <5>1, Existing DEF Shipment
        <5>3. order[ship[x].order].status \in Arrived
          BY <3>1, <5>1 DEF Upheld, ReceiptsReachOrder, Arrived
        <5>4. QED
          BY <2>4, <5>1, <5>2, <5>3
      <4>3. QED
        BY <4>1, <4>2
    <3>2. QED
      BY <3>1 DEF ReceiptsReachOrder, Arrived
  <2>8. QED
    BY <2>1, <2>2, <2>3, <2>5, <2>6, <2>7 DEF Legal, Upheld, Decided, Sailed
<1>4. QED
  BY <1>2, <1>3

-------------------------------------------------------------------------------
(* The serial invariant.                                                    *)

LEMMA IdleStands == Stands(Idle)
BY IdleTyped DEF IdleFacts, Stands

LEMMA InitSerial == ASSUME Init PROVE SerialInv
<1>1. /\ \A o \in Orders : order[o] = Absent
      /\ \A s \in Shipments : ship[s] = Absent
      /\ \A r \in Requests : req[r] = Idle
  BY DEF Init
<1>2. Absent.status \notin {"RECEIVED", "CLOSED"}
  BY DEF Absent, NoRow
<1>3. Upheld
  BY <1>1, <1>2 DEF Upheld, AgreedOrdersStand, OrdersThatExist, ClosedShipmentsSettled,
                    ReceiptsReachOrder
<1>4. \A r \in Requests : Stands(req[r])
  BY <1>1, IdleStands
<1>5. QED
  BY <1>3, <1>4 DEF SerialInv

(* Steps that leave the rows alone.                                         *)
LEMMA RowsStill ==
    ASSUME Upheld, UNCHANGED rows
    PROVE  Legal
<1>1. order' = order /\ pi' = pi /\ ship' = ship /\ line' = line
  BY DEF rows
<1>2. Upheld'
  BY <1>1 DEF Upheld, AgreedOrdersStand, OrdersThatExist, Active, ProformasOf,
              ClosedShipmentsSettled, LinesOf, Settled, ReceiptsReachOrder
<1>3. QED
  BY <1>1, <1>2 DEF Legal, Decided, Sailed

LEMMA SerialStep ==
    ASSUME SupplyAssumption, OneAtATime, IInv, SerialInv, NEW r \in Requests,
           \/ ValidateOrder(r) \/ ValidateProforma(r) \/ ValidateShipment(r)
           \/ Begin(r) \/ Commit(r) \/ Refuse(r) \/ Lose(r)
    PROVE  Legal /\ SerialInv'
<1> USE DEF IInv
<1>1. Stands(req[r]) /\ Upheld /\ \A q \in Requests : q = r
  BY DEF OneAtATime, SerialInv
<1>2. ASSUME Legal, Stands(req[r])'
      PROVE  Legal /\ SerialInv'
  BY <1>1, <1>2 DEF Legal, SerialInv
<1>3. ASSUME Ended(r)
      PROVE  Stands(req[r])'
  <2>1. req'[r] = Idle
    BY <1>3 DEF Ended
  <2>2. QED
    BY <2>1, IdleTyped DEF Stands, IdleFacts
<1>4. CASE ValidateOrder(r) \/ ValidateProforma(r) \/ ValidateShipment(r)
  <2>1. UNCHANGED rows
    BY <1>4, ValidateOrderAccepts, ValidateProformaAccepts, ValidateShipmentAccepts DEF Accepts
  <2>2. QED
    BY <1>1, <1>2, <1>4, <2>1, ValidateStands, RowsStill
<1>5. CASE Begin(r)
  BY <1>1, <1>2, <1>5, BeginStands, RowsStill
<1>6. CASE Commit(r)
  <2>1. Ended(r)
    BY <1>6, CommitEffect DEF Committed
  <2>2. Legal
    BY <1>1, <1>6, OrderCommitsLegal, ProformaCommitsLegal, ManifestCommitsLegal,
       ReceiptCommitsLegal, CompletionCommitsLegal DEF Commit
  <2>3. QED
    BY <1>2, <1>3, <2>1, <2>2
<1>7. CASE Refuse(r) \/ Lose(r)
  <2>1. Ended(r) /\ UNCHANGED rows
    BY <1>7, FinishedEnds DEF Refuse, Lose
  <2>2. QED
    BY <1>1, <1>2, <1>3, <2>1, RowsStill
<1>8. QED
  BY <1>4, <1>5, <1>6, <1>7

LEMMA SerialNext ==
    ASSUME SupplyAssumption, OneAtATime, IInv, SerialInv, [Next]_vars
    PROVE  Legal /\ SerialInv'
<1>1. CASE UNCHANGED vars
  <2>1. UNCHANGED rows /\ req' = req
    BY <1>1 DEF vars
  <2>2. Legal
    BY <2>1, RowsStill DEF SerialInv
  <2>3. \A r \in Requests : Stands(req[r])'
    BY <2>1 DEF SerialInv, Stands, rows, UnderReview, Active, ProformasOf, PullForward,
                AllSettled, LinesOf, Settled
  <2>4. QED
    BY <2>2, <2>3 DEF Legal, SerialInv
<1>2. CASE Next
  BY <1>2, SerialStep DEF Next
<1>3. QED
  BY <1>1, <1>2

(* One request at a time, what a request checked is still so when it        *)
(* writes.                                                                  *)
THEOREM SerialSupply ==
    ASSUME OneAtATime
    PROVE  Spec => []SerialInv
<1>1. Init => SerialInv
  BY InitSerial
<1>2. IInv /\ SerialInv /\ [Next]_vars => SerialInv'
  BY SupplyAssumption, SerialNext
<1>3. QED
  BY <1>1, <1>2, Invariant, PTL DEF Spec

(* One request at a time, ProformaInvoicesService.approve leaves no order   *)
(* with an ACTIVE proforma behind PI_RECEIVED, and none gets back there.    *)
THEOREM AgreedOrders ==
    ASSUME OneAtATime
    PROVE  Spec => []AgreedOrdersStand
<1>1. SerialInv => AgreedOrdersStand
  BY DEF SerialInv, Upheld
<1>2. QED
  BY <1>1, SerialSupply, PTL

(* I-7 as ShipmentsService.close checks it: one request at a time, every    *)
(* recorded variance of a CLOSED shipment has been resolved.                *)
THEOREM ClosedAreSettled ==
    ASSUME OneAtATime
    PROVE  Spec => []ClosedShipmentsSettled
<1>1. SerialInv => ClosedShipmentsSettled
  BY DEF SerialInv, Upheld
<1>2. QED
  BY <1>1, SerialSupply, PTL

(* One request at a time, the order of a shipment that ShipmentsService has *)
(* received or closed is PARTIALLY or FULLY_RECEIVED.                       *)
THEOREM ReceiptsArrive ==
    ASSUME OneAtATime
    PROVE  Spec => []ReceiptsReachOrder
<1>1. SerialInv => ReceiptsReachOrder
  BY DEF SerialInv, Upheld
<1>2. QED
  BY <1>1, SerialSupply, PTL

(* One request at a time, a proforma is decided once, and an ACTIVE one     *)
(* only gives way to a later approval for its order.                        *)
THEOREM DecidedOnce ==
    ASSUME OneAtATime
    PROVE  Spec => ProformasAreDecidedOnce
<1>1. IInv /\ SerialInv /\ [Next]_vars =>
        [\A p \in Proformas : (pi[p] # Absent /\ pi'[p] # pi[p]) =>
          \/ pi[p].status = "PENDING_REVIEW" /\ pi'[p].status \in {"ACTIVE", "REJECTED"}
          \/ /\ pi[p].status = "ACTIVE" /\ pi'[p].status = "SUPERSEDED"
             /\ \E q \in ProformasOf(pi[p].order) \ {p} : pi'[q].status = "ACTIVE"]_vars
  BY SupplyAssumption, SerialNext DEF Legal, Decided
<1>2. QED
  BY <1>1, Invariant, SerialSupply, PTL DEF Spec, ProformasAreDecidedOnce

(* One request at a time, a shipment moves along SHIPMENT_STATE_TRANSITIONS *)
(* one leg at a time, whichever of PATCH, receipt or close moves it.        *)
THEOREM ShipmentsMoveLegally ==
    ASSUME OneAtATime
    PROVE  Spec => ShipmentsFollowStateMachine
<1>1. IInv /\ SerialInv /\ [Next]_vars =>
        [\A s \in Shipments : ship[s] # Absent =>
          (ship'[s].status # ship[s].status => ShipCanMove(ship[s].status, ship'[s].status))]_vars
  BY SupplyAssumption, SerialNext DEF Legal, Sailed
<1>2. QED
  BY <1>1, Invariant, SerialSupply, PTL DEF Spec, ShipmentsFollowStateMachine
=============================================================================
