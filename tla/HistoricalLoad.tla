----------------------------- MODULE HistoricalLoad -----------------------------
(***************************************************************************)
(* The variant catalogue and the loads that fill it: a CSV of historical   *)
(* units is validated as a whole, then its new variants are created in one *)
(* transaction and its units in batches of one transaction each, so that a *)
(* load may stop between two of them.  A purchase order line and the staff *)
(* create variants, too.                                                   *)
(*                                                                         *)
(* supplierSkuCode has no unique index: a variant is a row, and a SKU may  *)
(* in principle have several.  Engine and chassis numbers are unique.      *)
(* Requests are served one after the other here; what happens when they    *)
(* overlap is among the races the README lists.                            *)
(*                                                                         *)
(* Source: src/src/historical-load, src/src/products.                      *)
(***************************************************************************)
EXTENDS Naturals, Sequences, FiniteSets, SequencesExt, FiniteSetsExt

CONSTANTS
    Skus,
    Threshold,     \* the edit distance up to which a SKU counts as similar
    Distance,      \* edit distance of two SKUs
    LongPrefix,    \* pairs of SKUs that share their first 15 characters
    FirstVariants, \* the SKUs of the catalogue at first
    Files,         \* the CSVs: sequences of [sku, engine, chassis]
    Blank,         \* an empty cell
    BatchSize,     \* UNIT_BATCH_SIZE
    PoSkus,        \* bound: the SKUs purchase order lines ask for
    MaxVariants,   \* bound: rows of the catalogue
    MaxStops       \* bound: loads that stop half way

Row == [sku : Skus \cup {Blank}, engine : Nat \cup {Blank}, chassis : Nat \cup {Blank}]

ASSUME LoadAssumption ==
    /\ BatchSize \in Nat \ {0}
    /\ Files \subseteq Seq(Row)
    /\ FirstVariants \cup PoSkus \subseteq Skus /\ IsFiniteSet(FirstVariants)
    /\ Threshold \in [Skus -> Nat] /\ Distance \in [Skus \X Skus -> Nat]
    /\ \A s, t \in Skus : Distance[<<s, t>>] = Distance[<<t, s>>]
    /\ \A p \in LongPrefix : <<p[2], p[1]>> \in LongPrefix

VARIABLES
    catalogue,   \* the variants: [sku, status, override] in the order they were created
    parked,      \* the units loaded: [engine, chassis, variant]
    loading,     \* the load in service
    stopped,     \* what is left of a load that stopped after its first writes
    stops

loadVars == <<catalogue, parked, loading, stopped, stops>>

NoLoad == [step |-> "none"]

LoadInit ==
    /\ catalogue = SetToSeq({[sku |-> s, status |-> "ACTIVE", override |-> FALSE]
                                : s \in FirstVariants})
    /\ parked = {}
    /\ loading = NoLoad
    /\ stopped = {}
    /\ stops = 0

-------------------------------------------------------------------------------
(* Similarity.                                                              *)

ActiveSkus == {catalogue[i].sku : i \in {j \in DOMAIN catalogue : catalogue[j].status = "ACTIVE"}}
KnownSkus == {catalogue[i].sku : i \in DOMAIN catalogue}
RetiredSkus == {s \in KnownSkus : \E i \in DOMAIN catalogue :
                                     catalogue[i].sku = s /\ catalogue[i].status # "ACTIVE"}

(* findSimilarVariant, with the threshold of the incoming SKU.              *)
Resembles(s, t) ==
    s # t /\ (Distance[<<s, t>>] <= Threshold[s] \/ <<s, t>> \in LongPrefix)
SimilarTo(s) == {t \in ActiveSkus : Resembles(s, t)}

(* The check among the SKUs of one file: the one that comes first gives the *)
(* threshold, and prefixes are not compared.                                *)
FirstRow(rows, s) == Min({i \in DOMAIN rows : rows[i].sku = s})
NearInFile(rows, s, t) ==
    LET x == IF FirstRow(rows, s) < FirstRow(rows, t) THEN s ELSE t
    IN  s # t /\ Distance[<<s, t>>] <= Threshold[x]

-------------------------------------------------------------------------------
(* loadUnits: validation of the whole file.                                 *)

SkusOf(rows) == {rows[i].sku : i \in DOMAIN rows} \ {Blank}

(* Mutated form: every SKU of the file passes the similarity check.         *)
AllSkus(rows) == SkusOf(rows)
UnknownSkus(rows) == SkusOf(rows) \ KnownSkus

(* Mutated form: only the catalogue is searched for similar SKUs.           *)
HeldBackByCatalogue(rows, s) == s \in UnknownSkus(rows) /\ SimilarTo(s) # {}
HeldBack(rows, s) ==
    /\ s \in UnknownSkus(rows)
    /\ \/ SimilarTo(s) # {}
       \/ \E t \in UnknownSkus(rows) : NearInFile(rows, s, t)

SkuErrors(rows, override) ==
    {i \in DOMAIN rows :
        \/ rows[i].sku \in RetiredSkus
        \/ ~override /\ HeldBack(rows, rows[i].sku)}
BlankErrors(rows) ==
    {i \in DOMAIN rows : Blank \in {rows[i].sku, rows[i].engine, rows[i].chassis}}
RepeatErrors(rows) ==
    {i \in DOMAIN rows : \E j \in 1 .. (i - 1) :
        \/ rows[i].engine # Blank /\ rows[j].engine = rows[i].engine
        \/ rows[i].chassis # Blank /\ rows[j].chassis = rows[i].chassis}
DatabaseErrors(rows) ==
    {i \in DOMAIN rows : \E u \in parked :
        u.engine = rows[i].engine \/ u.chassis = rows[i].chassis}

Clean(rows, override) ==
    SkuErrors(rows, override) \cup BlankErrors(rows) \cup RepeatErrors(rows)
        \cup DatabaseErrors(rows) = {}

(* A dry run, and a file with an error, write nothing.                      *)
Accept(rows, override) ==
    /\ loading = NoLoad
    /\ rows # <<>>
    /\ Clean(rows, override)
    /\ loading' = [step |-> "variants", rows |-> rows, override |-> override]
    /\ UNCHANGED <<catalogue, parked, stopped, stops>>

-------------------------------------------------------------------------------
(* ... and its writes.                                                      *)

Variant(s, o) == [sku |-> s, status |-> "ACTIVE", override |-> o]

(* createAutoVariant for every new SKU, with its audit row, in one          *)
(* transaction.                                                             *)
CreateVariants ==
    LET new == UnknownSkus(loading.rows)
    IN  /\ loading.step = "variants"
        /\ catalogue' = catalogue \o SetToSeq({Variant(s, loading.override) : s \in new})
        /\ loading' = [loading EXCEPT !.step = "units"]
        /\ UNCHANGED <<parked, stopped, stops>>

VariantOf(s) == Min({i \in DOMAIN catalogue : catalogue[i].sku = s})

(* Each unit with its RECEIPT movement; the batch commits together.         *)
Batch == SubSeq(loading.rows, 1, BatchSize)
Rest == SubSeq(loading.rows, BatchSize + 1, Len(loading.rows))

LoadBatch ==
    /\ loading.step = "units"
    /\ parked' = parked \cup
          {[engine |-> Batch[i].engine, chassis |-> Batch[i].chassis,
            variant |-> VariantOf(Batch[i].sku)] : i \in 1 .. Min({BatchSize, Len(loading.rows)})}
    /\ loading' = IF Rest = <<>> THEN NoLoad ELSE [loading EXCEPT !.rows = Rest]
    /\ UNCHANGED <<catalogue, stopped, stops>>

(* The process dies, or a transaction fails.                                *)
StopLoad ==
    /\ loading.step # "none"
    /\ stops < MaxStops
    /\ stops' = stops + 1
    /\ stopped' = IF loading.step = "units"
                  THEN {[rows |-> loading.rows, override |-> loading.override]} ELSE stopped
    /\ loading' = NoLoad
    /\ UNCHANGED <<catalogue, parked>>

(* What the staff does about it: the rest is loaded again as a file.        *)
Resume ==
    \E f \in stopped :
        /\ loading = NoLoad
        /\ Clean(f.rows, f.override)
        /\ loading' = [step |-> "variants", rows |-> f.rows, override |-> f.override]
        /\ stopped' = {}
        /\ UNCHANGED <<catalogue, parked, stops>>

-------------------------------------------------------------------------------
(* Other writers of the catalogue.                                          *)

Room == Len(catalogue) < MaxVariants /\ loading = NoLoad

(* resolveOrCreateVariant, for a purchase order line.                       *)
OrderLine(s, override) ==
    /\ Room
    /\ s \notin KnownSkus
    /\ override \/ SimilarTo(s) = {}
    /\ catalogue' = Append(catalogue, Variant(s, override))
    /\ UNCHANGED <<parked, loading, stopped, stops>>

(* ProductVariantsService.create checks the SKU, not its likeness.          *)
StaffCreate(s) ==
    /\ Room
    /\ s \notin KnownSkus
    /\ catalogue' = Append(catalogue, Variant(s, TRUE))
    /\ UNCHANGED <<parked, loading, stopped, stops>>

(* ProductVariantsService.update: discontinue or reactivate; not while the  *)
(* rest of a stopped load waits, which would rightly be refused.            *)
SetVariantStatus(i, status) ==
    /\ loading = NoLoad
    /\ stopped = {}
    /\ catalogue[i].status # status
    /\ catalogue' = [catalogue EXCEPT ![i].status = status]
    /\ UNCHANGED <<parked, loading, stopped, stops>>

-------------------------------------------------------------------------------
LoadNext ==
    \/ \E f \in Files, override \in BOOLEAN : Accept(f, override)
    \/ CreateVariants \/ LoadBatch \/ StopLoad \/ Resume
    \/ \E s \in PoSkus, override \in BOOLEAN : OrderLine(s, override)
    \/ \E s \in PoSkus : StaffCreate(s)
    \/ \E i \in DOMAIN catalogue, status \in {"ACTIVE", "DISCONTINUED"} :
          SetVariantStatus(i, status)

LoadSpec == LoadInit /\ [][LoadNext]_loadVars

-------------------------------------------------------------------------------
(* Properties.                                                              *)

(* "a mid-load failure leaves these valid catalogue rows, which is          *)
(* harmless": at whichever batch a load stopped, and whatever was added to  *)
(* the catalogue since, the rows it did not load pass validation as they    *)
(* are, unless units with their numbers came from another file meanwhile.   *)
StoppedLoadsCanBeFinished ==
    \A f \in stopped : DatabaseErrors(f.rows) = {} => Clean(f.rows, f.override)

(* A variant nobody confirmed is created only if no active variant, created *)
(* with it or before it, is within the edit distance both SKUs allow.       *)
NewVariantsHaveNoTwin ==
    [][\A i \in DOMAIN catalogue' \ DOMAIN catalogue :
          ~catalogue'[i].override =>
              \A j \in 1 .. (i - 1) :
                 LET s == catalogue'[i].sku
                     t == catalogue'[j].sku
                 IN  catalogue'[j].status = "ACTIVE"
                        => Distance[<<s, t>>] > Min({Threshold[s], Threshold[t]})]_loadVars
=============================================================================
