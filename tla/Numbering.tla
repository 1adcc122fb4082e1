------------------------------- MODULE Numbering -------------------------------
(***************************************************************************)
(* Document numbers and the id ranges of offline devices.  Both read a MAX *)
(* and insert the next value in one transaction, under an advisory lock of *)
(* their kind (idType) that is held until the transaction ends.            *)
(*                                                                         *)
(* A document number is a string of PadWidth digits or more, and MAX is    *)
(* the greatest string.  The prefix and its year are left out: a kind is   *)
(* the numbers of one year.  Digits are of base Radix and PadWidth is one, *)
(* so that Radix - 1 stands for 9999.                                      *)
(*                                                                         *)
(* A historical shipment may bring its own PO number and reference, any    *)
(* string at all: here a number, or a text of letters, which comes after   *)
(* every number.  parseInt makes NaN of it, so that every later draw of    *)
(* the kind is the same string "0NaN", until the year ends.  A text that   *)
(* begins with digits (parseInt reads those) is left out.                  *)
(*                                                                         *)
(* Source: the *-number.ts files, shipment-reference.ts, sync.service.ts   *)
(***************************************************************************)
EXTENDS Naturals, FiniteSets

CONSTANTS
    Kinds,            \* kinds of document numbers
    IdTypes,
    Clerks, Gadgets,  \* transactions that number documents, devices that ask for ranges
    Radix,
    Custom,           \* bound: numbers historical shipments bring
    Counts,           \* bound: lengths of the ranges asked for
    MaxNumber         \* bound

ASSUME NumberingAssumption ==
    /\ Radix \in Nat /\ Radix > 1
    /\ Custom \subseteq Nat
    /\ Counts \subseteq Nat \ {0}
    /\ Kinds \cap IdTypes = {}
    /\ MaxNumber \in Nat /\ MaxNumber < Radix * Radix

VARIABLES
    issued,     \* the committed numbers of each kind
    brought,    \* history: those of them a historical shipment brought
    odd,        \* the committed strings of each kind that are not numbers
    ranges,     \* the committed IdRangeAllocation rows
    numbering   \* what each transaction is at

numberingVars == <<issued, brought, odd, ranges, numbering>>

NotNumbering == [step |-> "free"]

NumberingInit ==
    /\ issued = [k \in Kinds |-> {}]
    /\ brought = [k \in Kinds |-> {}]
    /\ odd = [k \in Kinds |-> {}]
    /\ ranges = {}
    /\ numbering = [c \in Clerks \cup Gadgets |-> NotNumbering]

-------------------------------------------------------------------------------
(* pg_advisory_xact_lock.                                                   *)

Holds(c, k) == numbering[c].step \in {"locked", "read", "misread"} /\ numbering[c].kind = k

(* Mutated form: the lock is left out.                                      *)
NeverLocked(k) == TRUE
Unlocked(k) == \A c \in Clerks \cup Gadgets : ~Holds(c, k)

Lock(c, k, n) ==
    /\ numbering[c].step = "free"
    /\ Unlocked(k)
    /\ numbering' = [numbering EXCEPT ![c] =
          [step |-> "locked", kind |-> k, count |-> n, next |-> 0]]
    /\ UNCHANGED <<issued, brought, odd, ranges>>

ReadNext(c, n) ==
    /\ numbering[c].step = "locked"
    /\ numbering' = [numbering EXCEPT ![c].step = "read", ![c].next = n]
    /\ UNCHANGED <<issued, brought, odd, ranges>>

Release(c) == numbering' = [numbering EXCEPT ![c] = NotNumbering]

(* The transaction fails for a reason of its own.                           *)
Rollback(c) ==
    /\ numbering[c].step # "free"
    /\ Release(c)
    /\ UNCHANGED <<issued, brought, odd, ranges>>

-------------------------------------------------------------------------------
(* Document numbers.                                                        *)

(* The order of the strings: 9999 comes after 10000.                        *)
StringBefore(m, n) ==
    CASE (m < Radix) <=> (n < Radix) -> m < n
      [] m < Radix /\ n >= Radix -> m <= n \div Radix
      [] OTHER -> m \div Radix < n

NextNumber(k) ==
    IF issued[k] = {} THEN 1
    ELSE 1 + CHOOSE m \in issued[k] : \A n \in issued[k] \ {m} : StringBefore(n, m)

DrawsNaN(k) == "text" \in odd[k]

ReadNumber(c) == numbering[c].step = "locked" /\ numbering[c].kind \in Kinds
                 /\ ~DrawsNaN(numbering[c].kind)
                 /\ ReadNext(c, NextNumber(numbering[c].kind))

ReadNaN(c) ==
    /\ numbering[c].step = "locked" /\ numbering[c].kind \in Kinds
    /\ DrawsNaN(numbering[c].kind)
    /\ numbering' = [numbering EXCEPT ![c].step = "misread"]
    /\ UNCHANGED <<issued, brought, odd, ranges>>

(* The unique index refuses a number that is taken: the request fails.      *)
InsertNumber(c) ==
    LET q == numbering[c]
    IN  /\ q.step = "read" /\ q.kind \in Kinds
        /\ q.next <= MaxNumber
        /\ issued' = [issued EXCEPT ![q.kind] = @ \cup {q.next}]
        /\ Release(c)
        /\ UNCHANGED <<brought, odd, ranges>>

InsertNaN(c) ==
    LET k == numbering[c].kind
    IN  /\ numbering[c].step = "misread"
        /\ "NaN" \notin odd[k]
        /\ odd' = [odd EXCEPT ![k] = @ \cup {"NaN"}]
        /\ Release(c)
        /\ UNCHANGED <<issued, brought, ranges>>

BringNumber(k, n) ==
    /\ n \notin issued[k]
    /\ issued' = [issued EXCEPT ![k] = @ \cup {n}]
    /\ brought' = [brought EXCEPT ![k] = @ \cup {n}]
    /\ UNCHANGED <<odd, ranges, numbering>>

BringText(k) ==
    /\ "text" \notin odd[k]
    /\ odd' = [odd EXCEPT ![k] = @ \cup {"text"}]
    /\ UNCHANGED <<issued, brought, ranges, numbering>>

-------------------------------------------------------------------------------
(* Id ranges.                                                               *)

EndOf(t) ==
    LET ends == {x.end : x \in {y \in ranges : y.type = t}}
    IN  IF ends = {} THEN 0 ELSE CHOOSE m \in ends : \A n \in ends : n <= m

ReadRange(c) == numbering[c].step = "locked" /\ numbering[c].kind \in IdTypes
                /\ ReadNext(c, EndOf(numbering[c].kind) + 1)

InsertRange(c) ==
    LET q == numbering[c]
    IN  /\ q.step = "read" /\ q.kind \in IdTypes
        /\ q.next + q.count - 1 <= MaxNumber
        /\ ranges' = ranges \cup {[device |-> c, type |-> q.kind, start |-> q.next,
                                   end |-> q.next + q.count - 1]}
        /\ Release(c)
        /\ UNCHANGED <<issued, brought, odd>>

-------------------------------------------------------------------------------
NumberingNext ==
    \/ \E c \in Clerks, k \in Kinds : Lock(c, k, 1)
    \/ \E d \in Gadgets, t \in IdTypes, n \in Counts : Lock(d, t, n)
    \/ \E c \in Clerks : ReadNumber(c) \/ InsertNumber(c) \/ ReadNaN(c) \/ InsertNaN(c)
    \/ \E d \in Gadgets : ReadRange(d) \/ InsertRange(d)
    \/ \E c \in Clerks \cup Gadgets : Rollback(c)
    \/ \E k \in Kinds, n \in Custom : BringNumber(k, n)
    \/ \E k \in Kinds : BringText(k)

NumberingSpec == NumberingInit /\ [][NumberingNext]_numberingVars

-------------------------------------------------------------------------------
(* Properties.                                                              *)

(* "correct by construction via the advisory lock": a number that was drawn *)
(* is free until it is inserted, whatever runs beside it, up to 9999 and    *)
(* but for a number that a historical shipment brought in the meantime.     *)
(* A draw after a text reads no number: the second of them always clashes.  *)
NumbersNeverClash ==
    \A c \in Clerks : numbering[c].step = "read" /\ numbering[c].kind \in Kinds =>
        \/ numbering[c].next \notin issued[numbering[c].kind]
        \/ numbering[c].next \in brought[numbering[c].kind]
        \/ numbering[c].next >= Radix

(* "two devices get adjacent non-overlapping blocks (never a reuse)": the   *)
(* blocks of a type cover 1 .. EndOf without gap or overlap.                *)
RangesAreDisjoint ==
    \A t \in IdTypes : \A i \in 1 .. EndOf(t) :
        Cardinality({x \in ranges : x.type = t /\ i \in x.start .. x.end}) = 1
=============================================================================
