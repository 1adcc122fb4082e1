------------------------------ MODULE EditDistance ------------------------------
(***************************************************************************)
(* levenshtein(a, b), which tells likely typos among SKUs: two rows of the *)
(* distance table that change places, one cell a step.                     *)
(*                                                                         *)
(* Source: src/src/products/variant-auto-create.ts                         *)
(***************************************************************************)
EXTENDS Naturals, Sequences, SequencesExt

CONSTANTS Letters, MaxLength   \* bound: the strings compared

ASSUME DistanceAssumption == MaxLength \in Nat

Strings == UNION {[1 .. n -> Letters] : n \in 0 .. MaxLength}

VARIABLES left, right, prev, curr, row, column, distance

distanceVars == <<left, right, prev, curr, row, column, distance>>

Undecided == MaxLength + 1

(* The row of 0 .. |b|: prev[j + 1] is the cell of column j.                *)
FirstRowOf(b) == [j \in 1 .. Len(b) + 1 |-> j - 1]

DistanceInit ==
    /\ left \in Strings /\ right \in Strings
    /\ prev = FirstRowOf(right)
    /\ curr = [FirstRowOf(right) EXCEPT ![1] = 1]
    /\ row = 1 /\ column = 1
    /\ distance = CASE left = right -> 0
                    [] left = <<>> /\ right # <<>> -> Len(right)
                    [] right = <<>> /\ left # <<>> -> Len(left)
                    [] OTHER -> Undecided

(* Mutated form: the diagonal always costs a substitution.                  *)
AlwaysSubstituted(i, j) == 1
Cost(i, j) == IF left[i] = right[j] THEN 0 ELSE 1

Cell ==
    /\ distance = Undecided
    /\ row <= Len(left) /\ column <= Len(right)
    /\ curr' = [curr EXCEPT ![column + 1] =
          Min({prev[column + 1] + 1, curr[column] + 1, prev[column] + Cost(row, column)})]
    /\ column' = column + 1
    /\ UNCHANGED <<left, right, prev, row, distance>>

NextRow ==
    /\ distance = Undecided
    /\ row <= Len(left) /\ column > Len(right)
    /\ prev' = curr
    /\ curr' = [prev EXCEPT ![1] = row + 1]
    /\ row' = row + 1
    /\ column' = 1
    /\ UNCHANGED <<left, right, distance>>

Finish ==
    /\ distance = Undecided
    /\ row > Len(left)
    /\ distance' = prev[Len(right) + 1]
    /\ UNCHANGED <<left, right, prev, curr, row, column>>

DistanceNext == Cell \/ NextRow \/ Finish
DistanceSpec == DistanceInit /\ [][DistanceNext]_distanceVars

-------------------------------------------------------------------------------
(* The reference: the strings that are n edits away.                        *)
EditsOf(s) ==
    {RemoveAt(s, i) : i \in DOMAIN s}
        \cup {ReplaceAt(s, i, c) : i \in DOMAIN s, c \in Letters}
        \cup {InsertAt(s, i, c) : i \in 1 .. Len(s) + 1, c \in Letters}

Within(s, n) ==
    LET ball[k \in 0 .. n] == IF k = 0 THEN {s} ELSE ball[k - 1] \cup UNION {EditsOf(t) : t \in ball[k - 1]}
    IN  ball[n]

(* The result is the least number of insertions, deletions and              *)
(* substitutions between the two strings, although the rows are reused.     *)
DistanceIsLevenshtein ==
    distance # Undecided =>
        /\ right \in Within(left, distance)
        /\ distance > 0 => right \notin Within(left, distance - 1)
=============================================================================
