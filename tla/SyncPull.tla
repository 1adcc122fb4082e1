------------------------------- MODULE SyncPull -------------------------------
(***************************************************************************)
(* The read mirror of an offline device.  The device pulls what changed    *)
(* since its last pull: reference and workflow rows in full with the first *)
(* page, units in pages of PageLimit that continue at a keyset cursor.     *)
(* Two modes: since-mode reads (since, serverNow], windowed mode [from,to).*)
(*                                                                         *)
(* A row carries the time its statement ran, and becomes visible when its  *)
(* transaction commits, which may be after a pull has read the clock.      *)
(* Every transaction gets a millisecond of its own here, but the rows of   *)
(* one transaction share it.  A row's version is its time stamp.           *)
(*                                                                         *)
(* The device is not part of this repository; it is modelled by what the   *)
(* comments of the endpoint ask of it.                                     *)
(*                                                                         *)
(* Source: src/src/sync/sync-pull.service.ts                               *)
(***************************************************************************)
EXTENDS Naturals, FiniteSets

CONSTANTS
    Units,        \* ids of units, the paged collection: numbers, in id order
    References,   \* ids of all other mirrored rows, numbers too
    PageLimit,
    MaxWrites,    \* bound: the clock, which is the number of transactions
    MaxLosses     \* bound: answers that never reach the device

ASSUME PullAssumption ==
    /\ Units \subseteq Nat /\ IsFiniteSet(Units)
    /\ References \cap Units = {}
    /\ PageLimit \in Nat \ {0}

Rows == Units \cup References

VARIABLES
    now,         \* the server's clock
    stamp,       \* updatedAt of the committed version of each row, 0: no row yet
    pending,     \* updatedAt of the version in an open transaction, 0: none
    since,       \* device: nextSince of its last complete pull
    pull,        \* device: the pull under way
    mirror,      \* device: the version of each row it has, 0: none
    losses,
    straddling,  \* history: rows in a transaction open while a pull read the clock
    late,        \* history: rows whose committed version came from such a transaction
    between      \* history: references written between two pages of one pull

pullVars == <<now, stamp, pending, since, pull, mirror, losses, straddling, late, between>>

NoPull == [mode |-> "none"]
Start == <<0, 0>>      \* no cursor

PullInit ==
    /\ now = 0
    /\ stamp = [r \in Rows |-> 0]
    /\ pending = [r \in Rows |-> 0]
    /\ since = 0
    /\ pull = NoPull
    /\ mirror = [r \in Rows |-> 0]
    /\ losses = 0
    /\ straddling = {}
    /\ late = {}
    /\ between = {}

-------------------------------------------------------------------------------
(* The rest of the backend writes rows.                                     *)

Update(S) ==
    /\ now < MaxWrites
    /\ \A r \in S : pending[r] = 0
    /\ now' = now + 1
    /\ pending' = [r \in Rows |-> IF r \in S THEN now + 1 ELSE pending[r]]
    /\ UNCHANGED <<stamp, since, pull, mirror, losses, straddling, late, between>>

Commit(S) ==
    /\ \E t \in 1 .. now : S = {r \in Rows : pending[r] = t}
    /\ S # {}
    /\ stamp' = [r \in Rows |-> IF r \in S THEN pending[r] ELSE stamp[r]]
    /\ pending' = [r \in Rows |-> IF r \in S THEN 0 ELSE pending[r]]
    /\ straddling' = straddling \ S
    /\ late' = (late \ S) \cup (S \cap straddling)
    /\ between' = between \ S
    /\ UNCHANGED <<now, since, pull, mirror, losses>>

-------------------------------------------------------------------------------
(* The device and the endpoint.                                             *)

StartPull ==
    /\ pull = NoPull
    /\ pull' = [mode |-> "since", low |-> since, to |-> 0, cursor |-> Start,
              step |-> "ask", clock |-> 0, first |-> 0]
    /\ UNCHANGED <<now, stamp, pending, since, mirror, losses, straddling, late, between>>

(* A window starts where the last one ended.  Its end is a time of the      *)
(* device's choosing; that no row was written in that very millisecond is   *)
(* an assumption: since-mode goes on strictly after it.                     *)
StartWindow(to) ==
    /\ pull = NoPull
    /\ since < to
    /\ \A r \in Rows : stamp[r] # to /\ pending[r] # to
    /\ pull' = [mode |-> "windowed", low |-> since, to |-> to, cursor |-> Start,
              step |-> "ask", clock |-> 0, first |-> 0]
    /\ UNCHANGED <<now, stamp, pending, since, mirror, losses, straddling, late, between>>

(* serverNow, at the start of every page's request.  References stamped     *)
(* after the first page's serverNow are not in that page.                   *)
ReadClock ==
    /\ pull # NoPull
    /\ pull.step = "ask"
    /\ pull' = [pull EXCEPT !.clock = now, !.step = "answer",
                            !.first = IF pull.cursor = Start THEN now ELSE @]
    /\ straddling' = straddling \cup {r \in Rows : pending[r] # 0}
    /\ between' = IF pull.mode = "since" /\ pull.cursor # Start
                  THEN between \cup {r \in References : stamp[r] > pull.first}
                  ELSE between
    /\ UNCHANGED <<now, stamp, pending, since, mirror, losses, late>>

(* resolveWindow: (low, serverNow] or [low, to).                            *)
BelowHigh(t) == IF pull.mode = "since" THEN t <= pull.clock ELSE t < pull.to
AboveLow(t) == IF pull.mode = "since" THEN t > pull.low ELSE t >= pull.low
InWindow(t) == t # 0 /\ AboveLow(t) /\ BelowHigh(t)

(* Keyset continuation: after (ts, id), still below the window's end.       *)
(* Mutated form: the cursor is not consulted.                               *)
AfterLow(u) == AboveLow(stamp[u])
AfterCursor(u) ==
    \/ stamp[u] > pull.cursor[1]
    \/ stamp[u] = pull.cursor[1] /\ u > pull.cursor[2]

Found ==
    IF pull.cursor = Start
    THEN {u \in Units : InWindow(stamp[u])}
    ELSE {u \in Units : stamp[u] # 0 /\ AfterCursor(u) /\ BelowHigh(stamp[u])}

(* orderBy updatedAt, id.                                                   *)
Before(u, v) == stamp[u] < stamp[v] \/ (stamp[u] = stamp[v] /\ u < v)
Page == {u \in Found : Cardinality({v \in Found : Before(v, u)}) < PageLimit}
Truncated == Cardinality(Found) > PageLimit

(* Reference rows come with the first page only.                            *)
ReferenceDelta ==
    IF pull.cursor = Start THEN {r \in References : InWindow(stamp[r])} ELSE {}

(* Mutated form: the next pull starts when this one was answered.           *)
AnswerTime == IF pull.mode = "since" THEN now ELSE pull.to
NextSince == IF pull.mode = "since" THEN pull.clock ELSE pull.to

ReadPage ==
    /\ pull # NoPull
    /\ pull.step = "answer"
    /\ mirror' = [r \in Rows |-> IF r \in Page \cup ReferenceDelta THEN stamp[r] ELSE mirror[r]]
    /\ IF Truncated
       THEN \E last \in Page :
              /\ \A u \in Page : ~Before(last, u)
              /\ pull' = [pull EXCEPT !.cursor = <<stamp[last], last>>, !.step = "ask"]
              /\ UNCHANGED since
       ELSE pull' = NoPull /\ since' = NextSince
    /\ UNCHANGED <<now, stamp, pending, losses, straddling, late, between>>

(* The answer is lost: the device asks for the page again, or drops the     *)
(* pull and starts over from the nextSince it has.                          *)
LosePage ==
    /\ pull # NoPull
    /\ losses < MaxLosses
    /\ losses' = losses + 1
    /\ \/ pull.step = "answer" /\ pull' = [pull EXCEPT !.step = "ask"]
       \/ pull' = NoPull
    /\ UNCHANGED <<now, stamp, pending, since, mirror, straddling, late, between>>

-------------------------------------------------------------------------------
PullNext ==
    \/ \E S \in SUBSET Rows \ {{}} : Update(S) \/ Commit(S)
    \/ StartPull
    \/ \E to \in 1 .. now : StartWindow(to)
    \/ ReadClock \/ ReadPage \/ LosePage

PullSpec == PullInit /\ [][PullNext]_pullVars

(* Open transactions end, the device pulls regularly and is answered.       *)
PullFairness ==
    /\ \A S \in SUBSET Rows : WF_pullVars(Commit(S))
    /\ WF_pullVars(StartPull)
    /\ WF_pullVars(ReadClock)
    /\ WF_pullVars(ReadPage)

-------------------------------------------------------------------------------
(* Properties.                                                              *)

(* What nextSince stands for: the device has the current version of every   *)
(* row stamped up to it, however pages, writes and lost answers interleave. *)
(* The only rows it can miss are those of a transaction that was open while *)
(* a pull read the clock, and references written between two pages.         *)
MirrorIsCurrent ==
    \A r \in Rows \ (late \cup between) :
        stamp[r] # 0 /\ stamp[r] <= since => mirror[r] = stamp[r]

(* "the client re-pulls with the same window plus the cursor until          *)
(* truncated is false, then adopts nextSince": once that is done, reference *)
(* rows that no transaction held back are in the mirror, too.               *)
ReferencesReachMirror ==
    \A r \in References \ late :
        stamp[r] # 0 /\ stamp[r] <= since => mirror[r] = stamp[r]

(* When writes cease the mirror catches up with every unit not held back:   *)
(* paging always ends, and what a page misses a later pull brings.          *)
MirrorConverges == <>[](\A u \in Units \ late : mirror[u] = stamp[u])
=============================================================================
