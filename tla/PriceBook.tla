------------------------------ MODULE PriceBook ------------------------------
(***************************************************************************)
(* The selling prices of a variant for a customer tier: one entry is       *)
(* current (effectiveTo null), the closed ones are the price history.      *)
(* setPrice closes the current entry and opens the new one in one          *)
(* transaction, both with a time it read before the transaction began.     *)
(*                                                                         *)
(* Requests overlap on a READ COMMITTED database: an UPDATE picks its rows *)
(* when it starts, waits for the transaction that holds one of them, and   *)
(* then leaves out a row that no longer qualifies.                         *)
(*                                                                         *)
(* Source: src/src/pricing/pricing.service.ts, the index one_current_price *)
(***************************************************************************)
EXTENDS Naturals, Sequences

CONSTANTS
    Prices,          \* the (variant, tier) pairs
    PriceRequests,
    MaxPriceTime,    \* bound: the clock
    MaxEntries       \* bound: the entries of a pair

ASSUME PriceAssumption == MaxPriceTime \in Nat /\ MaxEntries \in Nat

VARIABLES
    entries,   \* the committed entries of each pair in the order they were made
    active,    \* whether the variant of the pair is ACTIVE
    setting,   \* what each request is at
    time

priceVars == <<entries, active, setting, time>>

Null == 0
Unset == [step |-> "free", price |-> Null, from |-> Null, seen |-> 0, closes |-> 0]

PriceInit ==
    /\ entries = [p \in Prices |-> <<>>]
    /\ active = [p \in Prices |-> TRUE]
    /\ setting = [r \in PriceRequests |-> Unset]
    /\ time = 1

CurrentOf(es) == {i \in DOMAIN es : es[i].to = Null}

-------------------------------------------------------------------------------
AdvanceTime ==
    /\ time < MaxPriceTime
    /\ time' = time + 1
    /\ UNCHANGED <<entries, active, setting>>

(* PATCH of a variant's status; prices that exist keep resolving.           *)
SetStatus(p, on) ==
    /\ active[p] # on
    /\ active' = [active EXCEPT ![p] = on]
    /\ UNCHANGED <<entries, setting, time>>

(* The checks, then the time, both outside the transaction.                 *)
SetPrice(r, p) ==
    /\ setting[r].step = "free"
    /\ active[p]
    /\ setting' = [setting EXCEPT ![r] =
          [step |-> "checked", price |-> p, from |-> Null, seen |-> 0, closes |-> 0]]
    /\ UNCHANGED <<entries, active, time>>

ReadTime(r) ==
    /\ setting[r].step = "checked"
    /\ setting' = [setting EXCEPT ![r].step = "timed", ![r].from = time]
    /\ UNCHANGED <<entries, active, time>>

(* The updateMany starts: it picks the entry that is current now.           *)
PickCurrent(r) ==
    LET es == entries[setting[r].price]
    IN  /\ setting[r].step = "timed"
        /\ \E i \in CurrentOf(es) \cup {0} :
              /\ i = 0 => CurrentOf(es) = {}
              /\ setting' = [setting EXCEPT ![r].step = "picked", ![r].seen = i]
        /\ UNCHANGED <<entries, active, time>>

(* ... and closes it, unless it was closed while the statement waited.      *)
Held(r, s) ==
    /\ setting[s].step = "closed" /\ setting[s].closes # 0
    /\ setting[s].price = setting[r].price /\ setting[s].closes = setting[r].seen

StillCurrent(r) ==
    setting[r].seen # 0 /\ entries[setting[r].price][setting[r].seen].to = Null

CloseCurrent(r) ==
    /\ setting[r].step = "picked"
    /\ \A s \in PriceRequests : ~Held(r, s)
    /\ setting' = [setting EXCEPT ![r].step = "closed",
                                  ![r].closes = IF StillCurrent(r) THEN setting[r].seen ELSE 0]
    /\ UNCHANGED <<entries, active, time>>

(* one_current_price: another current entry than the one being closed.      *)
IndexRefuses(p, closing) == \E i \in CurrentOf(entries[p]) : i # closing

(* Mutated form: the updateMany forgets that effectiveTo must be null.      *)
AllClosed(es, i, at) == [j \in DOMAIN es |-> [es[j] EXCEPT !.to = at]]
Closed(es, i, at) == [j \in DOMAIN es |-> IF j = i THEN [es[j] EXCEPT !.to = at] ELSE es[j]]

(* Create and commit, or a 409 that takes the closing back.                 *)
OpenPrice(r) ==
    LET q == setting[r]
    IN  /\ q.step = "closed"
        /\ Len(entries[q.price]) < MaxEntries
        /\ entries' = IF IndexRefuses(q.price, q.closes) THEN entries
                      ELSE [entries EXCEPT ![q.price] =
                              Append(Closed(@, q.closes, q.from), [from |-> q.from, to |-> Null])]
        /\ setting' = [setting EXCEPT ![r] = Unset]
        /\ UNCHANGED <<active, time>>

PriceNext ==
    \/ AdvanceTime
    \/ \E p \in Prices, on \in BOOLEAN : SetStatus(p, on)
    \/ \E r \in PriceRequests :
          \/ \E p \in Prices : SetPrice(r, p)
          \/ ReadTime(r) \/ PickCurrent(r) \/ CloseCurrent(r) \/ OpenPrice(r)

PriceSpec == PriceInit /\ [][PriceNext]_priceVars

-------------------------------------------------------------------------------
(* "The shared timestamp makes the closed entry's effectiveTo equal the new *)
(* one's effectiveFrom (a continuous history)": each entry ends when the    *)
(* next begins and only the last is current, however many price changes     *)
(* run together.  So a price that was set once always resolves to one entry.*)
HistoryIsChained ==
    \A p \in Prices : \A i \in DOMAIN entries[p] :
        entries[p][i].to =
            IF i = Len(entries[p]) THEN Null ELSE entries[p][i + 1].from
=============================================================================
