----------------------------- MODULE ProductProofs -----------------------------
(***************************************************************************)
(* Prices and variants.  The price history is continuous for any pairs of  *)
(* variant and tier and any number of concurrent price changes.  For any   *)
(* files and batch size, what a stopped load left out can be loaded later, *)
(* and no likely typo becomes a variant unconfirmed.                       *)
(***************************************************************************)
EXTENDS PriceBook, HistoricalLoad, FiniteSetTheorems, TLAPS

Entry == [from : Nat, to : Nat]
Setting ==
    [step : {"free", "checked", "timed", "picked", "closed"}, price : Prices \cup {Null},
     from : Nat, seen : Nat, closes : Nat]

(* Types; a request that is under way has a pair, and has read a time       *)
(* before it picks, so that no entry ends at Null.                          *)
PriceTypes ==
    /\ entries \in [Prices -> Seq(Entry)]
    /\ active \in [Prices -> BOOLEAN]
    /\ setting \in [PriceRequests -> Setting]
    /\ time \in Nat \ {0}
    /\ \A p \in Prices : \A i \in DOMAIN entries[p] : entries[p][i].from # Null
    /\ \A r \in PriceRequests :
          /\ setting[r].step # "free" => setting[r].price \in Prices
          /\ setting[r].step \in {"timed", "picked", "closed"} => setting[r].from # Null

(* What the row locks are for: an entry that is being closed is still       *)
(* current, and nobody else is closing it.                                  *)
ClosingIsExclusive ==
    \A r \in PriceRequests :
        setting[r].step = "closed" /\ setting[r].closes # 0 =>
            /\ setting[r].closes \in CurrentOf(entries[setting[r].price])
            /\ \A s \in PriceRequests \ {r} :
                  setting[s].step = "closed" /\ setting[s].price = setting[r].price
                      => setting[s].closes # setting[r].closes

SeenExists ==
    \A r \in PriceRequests :
        setting[r].step = "picked" /\ setting[r].seen # 0
            => setting[r].seen \in DOMAIN entries[setting[r].price]

PriceInv == PriceTypes /\ SeenExists /\ ClosingIsExclusive /\ HistoryIsChained

-------------------------------------------------------------------------------
(* A chained history has one current entry, its last.                       *)
LEMMA CurrentIsLast ==
    ASSUME PriceTypes, HistoryIsChained, NEW p \in Prices
    PROVE  CurrentOf(entries[p]) = IF entries[p] = <<>> THEN {} ELSE {Len(entries[p])}
<1> DEFINE es == entries[p]
<1>1. es \in Seq(Entry)
  BY DEF PriceTypes
<1>2. \A i \in DOMAIN es : es[i].to = IF i = Len(es) THEN Null ELSE es[i + 1].from
  BY DEF HistoryIsChained
<1>3. \A i \in DOMAIN es : es[i].from # Null
  BY DEF PriceTypes
<1>4. DOMAIN es = 1 .. Len(es) /\ Len(es) \in Nat
  BY <1>1
<1>5. \A i \in DOMAIN es : i # Len(es) => es[i].to # Null
  BY <1>2, <1>3, <1>4
<1>6. es # <<>> => Len(es) \in DOMAIN es
  BY <1>1, <1>4
<1>7. es = <<>> => DOMAIN es = {}
  BY <1>4
<1> QED
  BY <1>2, <1>5, <1>6, <1>7 DEF CurrentOf

(* Closing the last entry and appending the next keeps the chain.           *)
LEMMA ChainGrows ==
    ASSUME NEW es \in Seq(Entry), NEW i \in Nat, NEW at \in Nat \ {0},
           \A j \in DOMAIN es : es[j].to = IF j = Len(es) THEN Null ELSE es[j + 1].from,
           \A j \in DOMAIN es : es[j].from # Null,
           i = Len(es)
    PROVE  LET new == Append(Closed(es, i, at), [from |-> at, to |-> Null])
           IN  /\ new \in Seq(Entry) /\ Len(new) = Len(es) + 1
               /\ \A j \in DOMAIN new : new[j].from # Null
               /\ \A j \in DOMAIN new : new[j].to = IF j = Len(new) THEN Null ELSE new[j + 1].from
<1> DEFINE cl == Closed(es, i, at)
           last == [from |-> at, to |-> Null]
           new == Append(cl, last)
<1>1. DOMAIN es = 1 .. Len(es) /\ Len(es) \in Nat
  OBVIOUS
<1>2. cl = [j \in 1 .. Len(es) |-> IF j = i THEN [es[j] EXCEPT !.to = at] ELSE es[j]]
  BY <1>1 DEF Closed
<1>3. \A j \in 1 .. Len(es) : es[j] \in Entry
  OBVIOUS
<1>4. \A j \in 1 .. Len(es) : cl[j] \in Entry /\ cl[j].from = es[j].from
                              /\ cl[j].to = IF j = i THEN at ELSE es[j].to
  BY <1>2, <1>3 DEF Entry
<1>5. cl \in Seq(Entry) /\ Len(cl) = Len(es)
  BY <1>1, <1>2, <1>4
<1>6. last \in Entry
  BY DEF Entry, Null
<1> HIDE DEF cl, last
<1>7. new \in Seq(Entry) /\ Len(new) = Len(es) + 1 /\ DOMAIN new = 1 .. Len(es) + 1
  BY <1>1, <1>5, <1>6
<1>8. \A j \in 1 .. Len(es) : new[j] = cl[j]
  BY <1>1, <1>5, <1>6
<1>9. new[Len(es) + 1] = last
  BY <1>1, <1>5, <1>6
<1>10. last.from = at /\ last.to = Null
  BY DEF last
<1>11. \A j \in DOMAIN new : new[j].from # Null
  BY <1>1, <1>4, <1>7, <1>8, <1>9, <1>10 DEF Null
<1>12. \A j \in DOMAIN new : new[j].to = IF j = Len(new) THEN Null ELSE new[j + 1].from
  <2> TAKE j \in DOMAIN new
  <2>1. CASE j = Len(es) + 1
    BY <2>1, <1>1, <1>7, <1>9, <1>10
  <2>2. CASE j = Len(es) /\ j # 0
    BY <2>2, <1>1, <1>4, <1>7, <1>8, <1>9, <1>10
  <2>3. CASE j \in 1 .. (Len(es) - 1)
    <3>1. j + 1 \in 1 .. Len(es) /\ j \in 1 .. Len(es) /\ j # i /\ j # Len(es) /\ j # Len(es) + 1
      BY <2>3, <1>1
    <3>2. new[j].to = es[j + 1].from
      BY <3>1, <1>1, <1>4, <1>8
    <3>3. new[j + 1].from = es[j + 1].from
      BY <3>1, <1>4, <1>8
    <3> QED
      BY <3>1, <3>2, <3>3, <1>7
  <2> QED
    BY <2>1, <2>2, <2>3, <1>1, <1>7
<1> QED
  BY <1>7, <1>11, <1>12 DEF cl, last

-------------------------------------------------------------------------------
LEMMA PriceInitInv == ASSUME PriceAssumption, PriceInit PROVE PriceInv
<1>1. \A p \in Prices : entries[p] = <<>> /\ DOMAIN entries[p] = {}
  <2>1. \A p \in Prices : entries[p] = <<>>
    BY DEF PriceInit
  <2>2. DOMAIN <<>> = {}
    OBVIOUS
  <2> QED
    BY <2>1, <2>2, Zenon
<1>2. PriceTypes
  <2>1. entries \in [Prices -> Seq(Entry)]
    BY DEF PriceInit
  <2>2. Unset \in Setting /\ Unset.step = "free"
    BY DEF Setting, Unset, Null
  <2>3. setting \in [PriceRequests -> Setting] /\ \A r \in PriceRequests : setting[r] = Unset
    BY <2>2 DEF PriceInit
  <2>4. active \in [Prices -> BOOLEAN] /\ time \in Nat \ {0}
    BY DEF PriceInit
  <2> QED
    BY <1>1, <2>1, <2>2, <2>3, <2>4 DEF PriceTypes
<1>3. SeenExists /\ ClosingIsExclusive
  BY DEF PriceInit, SeenExists, ClosingIsExclusive, Unset
<1>4. HistoryIsChained
  BY <1>1 DEF HistoryIsChained
<1> QED
  BY <1>2, <1>3, <1>4 DEF PriceInv

(* A step that leaves the entries alone and touches one request.            *)
LEMMA OneRequest ==
    ASSUME PriceInv, NEW r \in PriceRequests, NEW s \in Setting,
           setting' = [setting EXCEPT ![r] = s],
           UNCHANGED entries, active' \in [Prices -> BOOLEAN], time' \in Nat \ {0},
           s.step # "free" => s.price \in Prices,
           s.step \in {"timed", "picked", "closed"} => s.from # Null,
           s.step = "picked" /\ s.seen # 0 => s.seen \in DOMAIN entries[s.price],
           s.step = "closed" /\ s.closes # 0 =>
              /\ s.closes \in CurrentOf(entries[s.price])
              /\ \A q \in PriceRequests \ {r} :
                    setting[q].step = "closed" /\ setting[q].price = s.price
                       => setting[q].closes # s.closes
    PROVE  PriceInv'
<1>1. setting \in [PriceRequests -> Setting]
  BY DEF PriceInv, PriceTypes
<1>2. \A q \in PriceRequests : setting'[q] = IF q = r THEN s ELSE setting[q]
  BY <1>1
<1>3. PriceTypes'
  BY <1>1, <1>2 DEF PriceInv, PriceTypes
<1>4. SeenExists'
  BY <1>2 DEF PriceInv, SeenExists
<1>5. ClosingIsExclusive'
  BY <1>2 DEF PriceInv, ClosingIsExclusive
<1>6. HistoryIsChained'
  BY DEF PriceInv, HistoryIsChained
<1> QED
  BY <1>3, <1>4, <1>5, <1>6 DEF PriceInv

LEMMA OpenPriceInv ==
    ASSUME PriceInv, NEW r \in PriceRequests, OpenPrice(r)
    PROVE  PriceInv'
<1> DEFINE q == setting[r]
           p == q.price
           es == entries[p]
           new == Append(Closed(es, q.closes, q.from), [from |-> q.from, to |-> Null])
<1>1. PriceTypes /\ SeenExists /\ ClosingIsExclusive /\ HistoryIsChained
  BY DEF PriceInv
<1>2. q \in Setting /\ q.step = "closed" /\ p \in Prices /\ q.from \in Nat \ {0} /\ q.closes \in Nat
  BY <1>1 DEF OpenPrice, PriceTypes, Setting, Null
<1>3. es \in Seq(Entry)
  BY <1>1, <1>2 DEF PriceTypes
<1>4. \A s \in PriceRequests : setting'[s] = IF s = r THEN Unset ELSE setting[s]
  BY <1>1 DEF OpenPrice, PriceTypes
<1>5. Unset \in Setting /\ Unset.step = "free"
  BY DEF Unset, Setting, Null
<1>6. setting' \in [PriceRequests -> Setting]
  BY <1>1, <1>5 DEF OpenPrice, PriceTypes
<1>7. CASE IndexRefuses(p, q.closes)
  <2>1. UNCHANGED <<entries, active, time>>
    BY <1>7 DEF OpenPrice
  <2> QED
    BY <1>1, <1>5, <2>1, OneRequest DEF OpenPrice, PriceTypes
<1>8. CASE ~IndexRefuses(p, q.closes)
  <2>1. entries' = [entries EXCEPT ![p] = new] /\ UNCHANGED <<active, time>>
    BY <1>8 DEF OpenPrice
  <2>2. CurrentOf(es) = IF es = <<>> THEN {} ELSE {Len(es)}
    BY <1>1, <1>2, CurrentIsLast
  <2>3. q.closes = Len(es)
    <3>1. q.closes # 0 => q.closes \in CurrentOf(es)
      BY <1>1, <1>2 DEF ClosingIsExclusive
    <3>2. \A i \in CurrentOf(es) : i = q.closes
      BY <1>8 DEF IndexRefuses
    <3>3. CASE es = <<>>
      BY <3>1, <3>3, <2>2, <1>3
    <3>4. CASE es # <<>>
      BY <3>2, <3>4, <2>2
    <3> QED
      BY <3>3, <3>4
  <2>4. /\ \A j \in DOMAIN es : es[j].to = IF j = Len(es) THEN Null ELSE es[j + 1].from
        /\ \A j \in DOMAIN es : es[j].from # Null
    BY <1>1, <1>2 DEF HistoryIsChained, PriceTypes
  <2>5. /\ new \in Seq(Entry) /\ Len(new) = Len(es) + 1
        /\ \A j \in DOMAIN new : new[j].from # Null
        /\ \A j \in DOMAIN new : new[j].to = IF j = Len(new) THEN Null ELSE new[j + 1].from
    BY <1>2, <1>3, <2>3, <2>4, ChainGrows
  <2> HIDE DEF new
  <2>6. \A x \in Prices : entries'[x] = IF x = p THEN new ELSE entries[x]
    BY <1>1, <2>1 DEF PriceTypes
  <2>7. entries' \in [Prices -> Seq(Entry)]
    BY <1>1, <2>1, <2>5 DEF PriceTypes
  <2>8. PriceTypes'
    <3>1. \A x \in Prices : \A i \in DOMAIN entries'[x] : entries'[x][i].from # Null
      BY <1>1, <2>5, <2>6 DEF PriceTypes
    <3>2. \A s \in PriceRequests :
             /\ setting'[s].step # "free" => setting'[s].price \in Prices
             /\ setting'[s].step \in {"timed", "picked", "closed"} => setting'[s].from # Null
      BY <1>1, <1>4, <1>5 DEF PriceTypes
    <3> QED
      BY <1>1, <1>6, <2>1, <2>7, <3>1, <3>2 DEF PriceTypes
  <2>9. HistoryIsChained'
    <3>1. \A x \in Prices \ {p} : entries'[x] = entries[x]
      BY <2>6
    <3>2. entries'[p] = new
      BY <1>2, <2>6
    <3>3. ASSUME NEW x \in Prices \ {p}, NEW j \in DOMAIN entries'[x]
          PROVE  entries'[x][j].to =
                    IF j = Len(entries'[x]) THEN Null ELSE entries'[x][j + 1].from
      <4>1. entries'[x] = entries[x]
        BY <3>1
      <4>2. j \in DOMAIN entries[x]
        BY <4>1, <3>3, Zenon
      <4>3. entries[x][j].to = IF j = Len(entries[x]) THEN Null ELSE entries[x][j + 1].from
        BY <1>1, <4>2 DEF HistoryIsChained
      <4> QED
        BY <4>1, <4>3, Zenon
    <3> QED
      BY <3>2, <3>3, <2>5, Zenon DEF HistoryIsChained
  <2>10. SeenExists'
    <3> SUFFICES ASSUME NEW s \in PriceRequests, setting'[s].step = "picked", setting'[s].seen # 0
                 PROVE  setting'[s].seen \in DOMAIN entries'[setting'[s].price]
      BY DEF SeenExists
    <3>1. s # r /\ setting'[s] = setting[s]
      BY <1>4, <1>5
    <3>2. setting[s].seen \in DOMAIN entries[setting[s].price] /\ setting[s].price \in Prices
      BY <1>1, <3>1 DEF SeenExists, PriceTypes
    <3>3. CASE setting[s].price = p
      BY <3>1, <3>2, <3>3, <2>6, <2>5, <1>3
    <3> QED
      BY <3>1, <3>2, <3>3, <2>6
  <2>11. ClosingIsExclusive'
    <3> SUFFICES ASSUME NEW s \in PriceRequests, setting'[s].step = "closed", setting'[s].closes # 0
                 PROVE  /\ setting'[s].closes \in CurrentOf(entries'[setting'[s].price])
                        /\ \A t \in PriceRequests \ {s} :
                              setting'[t].step = "closed" /\ setting'[t].price = setting'[s].price
                                 => setting'[t].closes # setting'[s].closes
      BY DEF ClosingIsExclusive
    <3>1. s # r /\ setting'[s] = setting[s]
      BY <1>4, <1>5
    <3>2. /\ setting[s].closes \in CurrentOf(entries[setting[s].price])
          /\ setting[s].price \in Prices
          /\ setting[s].price = p => setting[s].closes # q.closes
          /\ \A t \in PriceRequests \ {s} :
                setting[t].step = "closed" /\ setting[t].price = setting[s].price
                   => setting[t].closes # setting[s].closes
      BY <1>1, <1>2, <3>1 DEF ClosingIsExclusive, PriceTypes
    <3>3. setting[s].price # p
      BY <3>2, <1>8 DEF IndexRefuses
    <3>4. entries'[setting[s].price] = entries[setting[s].price]
      BY <3>2, <3>3, <2>6
    <3> QED
      BY <1>4, <1>5, <3>1, <3>2, <3>4
  <2> QED
    BY <2>8, <2>9, <2>10, <2>11 DEF PriceInv
<1> QED
  BY <1>7, <1>8

LEMMA PriceStep == ASSUME PriceInv, [PriceNext]_priceVars PROVE PriceInv'
<1>1. PriceTypes /\ setting \in [PriceRequests -> Setting]
  BY DEF PriceInv, PriceTypes
<1>2. CASE UNCHANGED <<entries, setting>> /\ active' \in [Prices -> BOOLEAN] /\ time' \in Nat \ {0}
  BY <1>2 DEF PriceInv, PriceTypes, SeenExists, ClosingIsExclusive, HistoryIsChained
<1>3. CASE AdvanceTime
  <2>1. time' \in Nat \ {0}
    BY <1>1, <1>3 DEF AdvanceTime, PriceTypes
  <2> QED
    BY <1>1, <1>2, <1>3, <2>1 DEF AdvanceTime, PriceTypes
<1>4. ASSUME NEW p \in Prices, NEW on \in BOOLEAN, SetStatus(p, on) PROVE PriceInv'
  BY <1>1, <1>2, <1>4 DEF SetStatus, PriceTypes
<1>5. ASSUME NEW r \in PriceRequests, NEW p \in Prices, SetPrice(r, p) PROVE PriceInv'
  <2> DEFINE s == [step |-> "checked", price |-> p, from |-> Null, seen |-> 0, closes |-> 0]
  <2>1. s \in Setting
    BY DEF Setting, Null
  <2> QED
    BY <1>1, <1>5, <2>1, OneRequest DEF SetPrice, PriceTypes
<1>6. ASSUME NEW r \in PriceRequests, ReadTime(r) PROVE PriceInv'
  <2> DEFINE s == [setting[r] EXCEPT !.step = "timed", !.from = time]
  <2>1. s \in Setting /\ s.step = "timed" /\ s.from = time /\ s.price = setting[r].price
    BY <1>1 DEF Setting, PriceTypes
  <2>2. setting' = [setting EXCEPT ![r] = s]
    BY <1>1, <1>6 DEF ReadTime
  <2>3. setting[r].price \in Prices /\ time # Null /\ UNCHANGED <<entries, active, time>>
    BY <1>1, <1>6 DEF ReadTime, PriceTypes, Null
  <2> HIDE DEF s
  <2> QED
    BY <1>1, <2>1, <2>2, <2>3, OneRequest DEF PriceTypes
<1>7. ASSUME NEW r \in PriceRequests, PickCurrent(r) PROVE PriceInv'
  <2>1. PICK i \in CurrentOf(entries[setting[r].price]) \cup {0} :
           setting' = [setting EXCEPT ![r].step = "picked", ![r].seen = i]
    BY <1>7 DEF PickCurrent
  <2> DEFINE s == [setting[r] EXCEPT !.step = "picked", !.seen = i]
  <2>2. setting[r].price \in Prices /\ setting[r].from # Null /\ UNCHANGED <<entries, active, time>>
    BY <1>1, <1>7 DEF PickCurrent, PriceTypes
  <2>3. i \in Nat /\ (i # 0 => i \in DOMAIN entries[setting[r].price])
    <3>1. entries[setting[r].price] \in Seq(Entry)
      BY <1>1, <2>2 DEF PriceTypes
    <3> QED
      BY <3>1 DEF CurrentOf
  <2>4. s \in Setting /\ s.step = "picked" /\ s.seen = i /\ s.price = setting[r].price
        /\ s.from = setting[r].from
    BY <1>1, <2>3 DEF Setting
  <2>5. setting' = [setting EXCEPT ![r] = s]
    BY <1>1, <2>1
  <2> HIDE DEF s
  <2> QED
    BY <1>1, <2>2, <2>3, <2>4, <2>5, OneRequest DEF PriceTypes
<1>8. ASSUME NEW r \in PriceRequests, CloseCurrent(r) PROVE PriceInv'
  <2> DEFINE n == IF StillCurrent(r) THEN setting[r].seen ELSE 0
             s == [setting[r] EXCEPT !.step = "closed", !.closes = n]
  <2>1. setting[r].price \in Prices /\ setting[r].from # Null /\ UNCHANGED <<entries, active, time>>
        /\ setting[r].seen \in Nat
    BY <1>1, <1>8 DEF CloseCurrent, PriceTypes, Setting
  <2>2. s \in Setting /\ s.step = "closed" /\ s.closes = n /\ s.price = setting[r].price
        /\ s.from = setting[r].from
    BY <1>1, <2>1 DEF Setting
  <2>3. setting' = [setting EXCEPT ![r] = s]
    BY <1>1, <1>8 DEF CloseCurrent
  <2>4. n # 0 => n = setting[r].seen /\ n \in CurrentOf(entries[setting[r].price])
    BY <1>8 DEF StillCurrent, CloseCurrent, PriceInv, SeenExists, CurrentOf
  <2>5. \A q \in PriceRequests \ {r} :
           n # 0 /\ setting[q].step = "closed" /\ setting[q].price = setting[r].price
              => setting[q].closes # n
    BY <1>8, <2>4 DEF CloseCurrent, Held
  <2> HIDE DEF s, n
  <2> QED
    BY <1>1, <2>1, <2>2, <2>3, <2>4, <2>5, OneRequest DEF PriceTypes
<1>9. CASE UNCHANGED priceVars
  BY <1>1, <1>2, <1>9 DEF priceVars, PriceTypes
<1> QED
  BY <1>3, <1>4, <1>5, <1>6, <1>7, <1>8, <1>9, OpenPriceInv DEF PriceNext

(* "a continuous history" (pricing.service.ts), whatever price changes run  *)
(* together: each entry ends when the next begins, only the last is current.*)
THEOREM PriceHistoriesAreChained == PriceSpec => []HistoryIsChained
<1>1. PriceInit => PriceInv
  BY PriceInitInv, PriceAssumption
<1>2. PriceInv /\ [PriceNext]_priceVars => PriceInv'
  BY PriceStep
<1>3. PriceInv => HistoryIsChained
  BY DEF PriceInv
<1> QED
  BY <1>1, <1>2, <1>3, PTL DEF PriceSpec

-------------------------------------------------------------------------------
(* The catalogue and its loads.                                             *)
VariantRow == [sku : Skus, status : {"ACTIVE", "DISCONTINUED"}, override : BOOLEAN]

LoadTypes ==
    /\ catalogue \in Seq(VariantRow)
    /\ loading \in {NoLoad} \cup [step : {"variants", "units"}, rows : Seq(Row), override : BOOLEAN]
    /\ stopped \subseteq [rows : Seq(Row), override : BOOLEAN]

(* Rows whose SKUs the catalogue has, and which the file does not repeat.   *)
Settled(rows) ==
    /\ \A i \in DOMAIN rows : rows[i].sku \in KnownSkus \ RetiredSkus
    /\ BlankErrors(rows) = {} /\ RepeatErrors(rows) = {}

LoadInv ==
    /\ LoadTypes
    /\ loading.step = "variants" => Clean(loading.rows, loading.override)
    /\ loading.step = "units" => Settled(loading.rows)
    /\ \A f \in stopped : Settled(f.rows)

-------------------------------------------------------------------------------
(* SetToSeq lists a finite set, each member once.                           *)
LEMMA SetToSeqLists ==
    ASSUME NEW S, IsFiniteSet(S)
    PROVE  /\ SetToSeq(S) \in Seq(S) /\ Len(SetToSeq(S)) \in Nat
           /\ \A x \in S : \E i \in 1 .. Len(SetToSeq(S)) : SetToSeq(S)[i] = x
           /\ \A i, j \in 1 .. Len(SetToSeq(S)) : SetToSeq(S)[i] = SetToSeq(S)[j] => i = j
<1> DEFINE n == Cardinality(S)
<1>1. n \in Nat /\ ExistsBijection(1 .. n, S)
  BY FS_CardinalityType
<1>2. \E f \in [1 .. n -> S] : IsInjective(f)
  BY <1>1 DEF ExistsBijection, Bijection, Injection, IsInjective
<1>3. SetToSeq(S) \in [1 .. n -> S] /\ IsInjective(SetToSeq(S))
  BY <1>2 DEF SetToSeq
<1> HIDE DEF n
<1>4. SetToSeq(S) \in Injection(1 .. n, S)
  BY <1>3 DEF Injection, IsInjective
<1>5. Cardinality(1 .. n) = n
  BY <1>1, FS_Interval
<1>6. SetToSeq(S) \in Surjection(1 .. n, S)
  BY <1>4, <1>5, FS_Injection DEF n
<1>7. \A x \in S : \E i \in 1 .. n : SetToSeq(S)[i] = x
  BY <1>6 DEF Surjection
<1>8. SetToSeq(S) \in Seq(S) /\ Len(SetToSeq(S)) = n
  BY <1>1, <1>3
<1> QED BY <1>1, <1>3, <1>7, <1>8 DEF IsInjective

LEMMA ImageIsFinite ==
    ASSUME NEW S, IsFiniteSet(S), NEW f
    PROVE  IsFiniteSet({f[x] : x \in S})
<1> DEFINE g == [x \in S |-> f[x]]
<1>1. g \in Surjection(S, {f[x] : x \in S})
  BY DEF Surjection
<1> QED BY <1>1, FS_Surjection

LEMMA SetOfSkusFinite ==
    ASSUME NEW rows \in Seq(Row)
    PROVE  IsFiniteSet(UnknownSkus(rows)) /\ UnknownSkus(rows) \subseteq Skus
<1>1. IsFiniteSet(1 .. Len(rows)) /\ DOMAIN rows = 1 .. Len(rows)
  BY FS_Interval
<1> DEFINE skuOf == [i \in 1 .. Len(rows) |-> rows[i].sku]
<1>2. IsFiniteSet({skuOf[i] : i \in 1 .. Len(rows)})
  BY <1>1, ImageIsFinite
<1>3. UnknownSkus(rows) \subseteq {skuOf[i] : i \in 1 .. Len(rows)}
  BY <1>1 DEF UnknownSkus, SkusOf
<1>4. \A i \in DOMAIN rows : rows[i].sku \in Skus \cup {Blank}
  <2> SUFFICES ASSUME NEW i \in DOMAIN rows PROVE rows[i].sku \in Skus \cup {Blank}
    OBVIOUS
  <2>1. rows[i] \in Row
    OBVIOUS
  <2> QED BY <2>1 DEF Row
<1>5. UnknownSkus(rows) \subseteq Skus
  BY <1>4 DEF UnknownSkus, SkusOf
<1> QED BY <1>2, <1>3, <1>5, FS_Subset

(* The catalogue only grows, by active variants.                            *)
CatalogueGrows ==
    /\ \A i \in DOMAIN catalogue : i \in DOMAIN catalogue' /\ catalogue'[i] = catalogue[i]
    /\ \A i \in DOMAIN catalogue' \ DOMAIN catalogue : catalogue'[i].status = "ACTIVE"

LEMMA SettledStays ==
    ASSUME CatalogueGrows, NEW rows, Settled(rows) PROVE Settled(rows)'
<1>1. KnownSkus \subseteq KnownSkus'
  BY DEF CatalogueGrows, KnownSkus
<1>2. KnownSkus \cap RetiredSkus' \subseteq RetiredSkus
  BY DEF CatalogueGrows, KnownSkus, RetiredSkus
<1> QED BY <1>1, <1>2 DEF Settled, BlankErrors, RepeatErrors

LEMMA Lengthened ==
    ASSUME catalogue \in Seq(VariantRow), NEW new \in Seq(VariantRow),
           catalogue' = catalogue \o new
    PROVE  /\ catalogue' \in Seq(VariantRow)
           /\ \A i \in DOMAIN catalogue : i \in DOMAIN catalogue' /\ catalogue'[i] = catalogue[i]
           /\ \A i \in DOMAIN catalogue' \ DOMAIN catalogue :
                 \E k \in 1 .. Len(new) : i = Len(catalogue) + k /\ catalogue'[i] = new[k]
           /\ \A k \in 1 .. Len(new) :
                 Len(catalogue) + k \in DOMAIN catalogue' /\ catalogue'[Len(catalogue) + k] = new[k]
<1>1. /\ Len(catalogue) \in Nat /\ Len(new) \in Nat
      /\ DOMAIN catalogue = 1 .. Len(catalogue) /\ DOMAIN new = 1 .. Len(new)
  OBVIOUS
<1>2. /\ catalogue' \in Seq(VariantRow) /\ Len(catalogue') = Len(catalogue) + Len(new)
      /\ DOMAIN catalogue' = 1 .. (Len(catalogue) + Len(new))
  BY <1>1
<1>3. \A i \in 1 .. (Len(catalogue) + Len(new)) :
        catalogue'[i] = IF i <= Len(catalogue) THEN catalogue[i] ELSE new[i - Len(catalogue)]
  BY <1>1
<1>4. ASSUME NEW i \in DOMAIN catalogue' \ DOMAIN catalogue
      PROVE  \E k \in 1 .. Len(new) : i = Len(catalogue) + k /\ catalogue'[i] = new[k]
  <2>1. i \in Nat /\ i > Len(catalogue) /\ i <= Len(catalogue) + Len(new)
    BY <1>1, <1>2
  <2>2. i - Len(catalogue) \in 1 .. Len(new) /\ i = Len(catalogue) + (i - Len(catalogue))
    BY <1>1, <2>1
  <2> QED BY <1>1, <1>2, <1>3, <2>1, <2>2
<1>5. ASSUME NEW k \in 1 .. Len(new)
      PROVE  Len(catalogue) + k \in DOMAIN catalogue' /\ catalogue'[Len(catalogue) + k] = new[k]
  <2>1. Len(catalogue) + k \in 1 .. (Len(catalogue) + Len(new)) /\ ~(Len(catalogue) + k <= Len(catalogue))
        /\ (Len(catalogue) + k) - Len(catalogue) = k
    BY <1>1
  <2> QED BY <1>2, <1>3, <2>1
<1> QED BY <1>1, <1>2, <1>3, <1>4, <1>5

LEMMA VariantsFinite ==
    ASSUME NEW T \in SUBSET Skus, IsFiniteSet(T), NEW o \in BOOLEAN, NEW S,
           S = {Variant(s, o) : s \in T}
    PROVE  IsFiniteSet(S) /\ S \subseteq VariantRow
<1> DEFINE f == [s \in T |-> Variant(s, o)]
<1>1. IsFiniteSet({f[s] : s \in T})
  BY ImageIsFinite
<1>2. S \subseteq {f[s] : s \in T}
  OBVIOUS
<1>3. ASSUME NEW s \in T PROVE Variant(s, o) \in VariantRow
  BY DEF Variant, VariantRow
<1> QED BY <1>1, <1>2, <1>3, FS_Subset

LEMMA LoadInitially == ASSUME LoadAssumption, LoadInit PROVE LoadInv
<1> DEFINE S == {Variant(s, FALSE) : s \in FirstVariants}
<1>a. FirstVariants \subseteq Skus /\ IsFiniteSet(FirstVariants)
  BY DEF LoadAssumption
<1>1. IsFiniteSet(S) /\ S \subseteq VariantRow
  BY <1>a, VariantsFinite, Zenon
<1>3. catalogue \in Seq(S)
  <2>1. catalogue = SetToSeq(S)
    BY DEF LoadInit, Variant
  <2> QED BY <1>1, <2>1, SetToSeqLists
<1> HIDE DEF S
<1>4. catalogue \in Seq(VariantRow)
  BY <1>1, <1>3
<1> QED BY <1>4 DEF LoadInit, LoadInv, LoadTypes, NoLoad

(* Validation looks at nothing but the catalogue and the units.             *)
LEMMA Unmoved ==
    ASSUME UNCHANGED <<catalogue, parked>>, NEW rows, NEW override, Clean(rows, override)
    PROVE  Clean(rows, override)'
<1>1. /\ KnownSkus' = KnownSkus /\ ActiveSkus' = ActiveSkus /\ RetiredSkus' = RetiredSkus
      /\ parked' = parked
  BY DEF KnownSkus, ActiveSkus, RetiredSkus
<1>2. UnknownSkus(rows)' = UnknownSkus(rows)
  BY <1>1 DEF UnknownSkus, SkusOf
<1>3. \A s : SimilarTo(s)' = SimilarTo(s)
  BY <1>1 DEF SimilarTo, Resembles
<1>4. \A s, t : NearInFile(rows, s, t)' <=> NearInFile(rows, s, t)
  BY DEF NearInFile, FirstRow
<1>5. \A s : HeldBack(rows, s)' <=> HeldBack(rows, s)
  BY <1>2, <1>3, <1>4 DEF HeldBack
<1>6. SkuErrors(rows, override)' = SkuErrors(rows, override)
  BY <1>1, <1>5 DEF SkuErrors
<1>7. DatabaseErrors(rows)' = DatabaseErrors(rows)
  BY <1>1 DEF DatabaseErrors
<1>8. BlankErrors(rows)' = BlankErrors(rows) /\ RepeatErrors(rows)' = RepeatErrors(rows)
  BY DEF BlankErrors, RepeatErrors
<1> QED BY <1>6, <1>7, <1>8 DEF Clean

LEMMA AcceptKeepsLoad ==
    ASSUME LoadAssumption, LoadInv, NEW rows \in Seq(Row), NEW override \in BOOLEAN,
           Clean(rows, override), stopped' \subseteq stopped,
           loading' = [step |-> "variants", rows |-> rows, override |-> override],
           UNCHANGED <<catalogue, parked>>
    PROVE  LoadInv'
<1>1. LoadTypes'
  BY DEF LoadInv, LoadTypes
<1>2. Clean(rows, override)'
  BY Unmoved
<1>3. \A f : Settled(f.rows) => Settled(f.rows)'
  BY DEF Settled, BlankErrors, RepeatErrors, KnownSkus, RetiredSkus
<1> QED BY <1>1, <1>2, <1>3 DEF LoadInv

LEMMA NewVariants ==
    ASSUME LoadAssumption, LoadInv, CreateVariants
    PROVE  LET S == {Variant(s, loading.override) : s \in UnknownSkus(loading.rows)}
           IN  /\ loading.rows \in Seq(Row) /\ loading.override \in BOOLEAN
               /\ IsFiniteSet(S) /\ SetToSeq(S) \in Seq(VariantRow)
               /\ catalogue' = catalogue \o SetToSeq(S)
<1> DEFINE S == {Variant(s, loading.override) : s \in UnknownSkus(loading.rows)}
<1>1. loading.rows \in Seq(Row) /\ loading.override \in BOOLEAN
  BY DEF CreateVariants, LoadInv, LoadTypes, NoLoad
<1>2. IsFiniteSet(UnknownSkus(loading.rows)) /\ UnknownSkus(loading.rows) \subseteq Skus
  BY <1>1, SetOfSkusFinite
<1>3. IsFiniteSet(S) /\ S \subseteq VariantRow
  BY <1>1, <1>2, VariantsFinite, Zenon
<1>5. SetToSeq(S) \in Seq(S)
  BY <1>3, SetToSeqLists
<1>6. SetToSeq(S) \in Seq(VariantRow)
  BY <1>3, <1>5
<1> QED BY <1>1, <1>3, <1>6 DEF CreateVariants

LEMMA CreateVariantsKeepsLoad ==
    ASSUME LoadAssumption, LoadInv, CreateVariants PROVE LoadInv'
<1> DEFINE S == {Variant(s, loading.override) : s \in UnknownSkus(loading.rows)}
           new == SetToSeq(S)
<1>1. /\ loading.rows \in Seq(Row) /\ loading.override \in BOOLEAN
      /\ IsFiniteSet(S) /\ new \in Seq(VariantRow) /\ catalogue' = catalogue \o new
  BY NewVariants
<1>2. /\ new \in Seq(S)
      /\ \A v \in S : \E k \in 1 .. Len(new) : new[k] = v
  BY <1>1, SetToSeqLists
<1>3. \A v \in S : v.status = "ACTIVE"
  BY DEF Variant
<1>5. catalogue \in Seq(VariantRow)
  BY DEF LoadInv, LoadTypes
<1> HIDE DEF S, new
<1>4. \A k \in 1 .. Len(new) : new[k] \in S
  BY <1>2
<1>a. /\ catalogue' \in Seq(VariantRow)
      /\ \A i \in DOMAIN catalogue : i \in DOMAIN catalogue' /\ catalogue'[i] = catalogue[i]
      /\ \A i \in DOMAIN catalogue' \ DOMAIN catalogue :
            \E k \in 1 .. Len(new) : i = Len(catalogue) + k /\ catalogue'[i] = new[k]
      /\ \A k \in 1 .. Len(new) :
            Len(catalogue) + k \in DOMAIN catalogue' /\ catalogue'[Len(catalogue) + k] = new[k]
  BY <1>1, <1>5, Lengthened, Zenon
<1>6. CatalogueGrows
  BY <1>3, <1>4, <1>a DEF CatalogueGrows
<1>7. \A v \in S : v.sku \in KnownSkus'
  <2> SUFFICES ASSUME NEW v \in S PROVE v.sku \in KnownSkus'
    OBVIOUS
  <2>1. PICK k \in 1 .. Len(new) : new[k] = v
    BY <1>2
  <2>2. Len(catalogue) + k \in DOMAIN catalogue' /\ catalogue'[Len(catalogue) + k] = v
    BY <1>a, <2>1
  <2> QED BY <2>2 DEF KnownSkus
<1>8. Clean(loading.rows, loading.override)
  BY DEF CreateVariants, LoadInv
<1>9. Settled(loading.rows)'
  <2>1. /\ BlankErrors(loading.rows) = {} /\ RepeatErrors(loading.rows) = {}
        /\ \A i \in DOMAIN loading.rows : loading.rows[i].sku \notin RetiredSkus
    BY <1>8 DEF Clean, SkuErrors
  <2>2. ASSUME NEW i \in DOMAIN loading.rows
        PROVE  loading.rows[i].sku \in KnownSkus' \ RetiredSkus'
    <3> DEFINE s == loading.rows[i].sku
    <3>1. s # Blank
      BY <2>1 DEF BlankErrors
    <3>2. s \in KnownSkus => s \in KnownSkus'
      BY <1>6 DEF CatalogueGrows, KnownSkus
    <3>3. s \notin KnownSkus => Variant(s, loading.override) \in S
      BY <3>1 DEF S, UnknownSkus, SkusOf
    <3>4. s \in KnownSkus'
      BY <1>7, <3>2, <3>3 DEF Variant
    <3>5. s \notin RetiredSkus'
      <4>1. s \notin RetiredSkus
        BY <2>1
      <4>2. RetiredSkus' \subseteq RetiredSkus
        BY <1>6 DEF CatalogueGrows, RetiredSkus, KnownSkus
      <4> QED BY <4>1, <4>2
    <3> QED BY <3>4, <3>5
  <2>3. loading'.rows = loading.rows
    BY DEF CreateVariants, LoadInv, LoadTypes, NoLoad
  <2> QED BY <2>1, <2>2, <2>3 DEF Settled, BlankErrors, RepeatErrors
<1>10. loading' = [loading EXCEPT !.step = "units"] /\ stopped' = stopped
  BY DEF CreateVariants
<1>11. loading \in [step : {"variants", "units"}, rows : Seq(Row), override : BOOLEAN]
  BY DEF CreateVariants, LoadInv, LoadTypes, NoLoad
<1>12. LoadTypes' /\ loading'.step = "units" /\ loading'.rows = loading.rows
  BY <1>a, <1>10, <1>11 DEF LoadInv, LoadTypes
<1>13. \A f \in stopped : Settled(f.rows)'
  BY <1>6, SettledStays DEF LoadInv
<1> QED BY <1>9, <1>10, <1>12, <1>13 DEF LoadInv

LEMMA OneMoreVariant ==
    ASSUME LoadAssumption, LoadInv, NEW s \in PoSkus, NEW override \in BOOLEAN,
           catalogue' = Append(catalogue, Variant(s, override))
    PROVE  /\ CatalogueGrows /\ catalogue' \in Seq(VariantRow)
           /\ \A i \in DOMAIN catalogue' \ DOMAIN catalogue :
                 i = Len(catalogue) + 1 /\ catalogue'[i] = Variant(s, override)
           /\ \A i \in DOMAIN catalogue : catalogue'[i] = catalogue[i]
<1>1. Variant(s, override) \in VariantRow /\ Variant(s, override).status = "ACTIVE"
  BY DEF LoadAssumption, Variant, VariantRow
<1>2. catalogue \in Seq(VariantRow)
  BY DEF LoadInv, LoadTypes
<1> DEFINE v == Variant(s, override)
<1> HIDE DEF v
<1>3. /\ catalogue' = Append(catalogue, v)
      /\ v \in VariantRow /\ v.status = "ACTIVE"
  BY <1>1 DEF v
<1>4. /\ catalogue' \in Seq(VariantRow)
      /\ DOMAIN catalogue = 1 .. Len(catalogue) /\ DOMAIN catalogue' = 1 .. (Len(catalogue) + 1)
      /\ Len(catalogue) \in Nat
      /\ \A i \in 1 .. Len(catalogue) : catalogue'[i] = catalogue[i]
      /\ catalogue'[Len(catalogue) + 1] = v
  BY <1>2, <1>3
<1>5. \A i \in DOMAIN catalogue' \ DOMAIN catalogue : i = Len(catalogue) + 1
  BY <1>4
<1>6. CatalogueGrows
  BY <1>3, <1>4, <1>5 DEF CatalogueGrows
<1> QED BY <1>4, <1>5, <1>6 DEF v

LEMMA GrowingKeepsLoad ==
    ASSUME LoadInv, CatalogueGrows, catalogue' \in Seq(VariantRow), loading = NoLoad,
           UNCHANGED <<parked, loading, stopped, stops>>
    PROVE  LoadInv'
<1>1. \A f \in stopped : Settled(f.rows)'
  BY SettledStays DEF LoadInv
<1> QED BY <1>1 DEF LoadInv, LoadTypes, NoLoad

LEMMA LoadBatchKeepsLoad ==
    ASSUME LoadAssumption, LoadInv, LoadBatch PROVE LoadInv'
<1> DEFINE rows == loading.rows
<1>1. /\ loading \in [step : {"variants", "units"}, rows : Seq(Row), override : BOOLEAN]
      /\ loading.step = "units"
  BY DEF LoadBatch, LoadInv, LoadTypes, NoLoad
<1>2. rows \in Seq(Row) /\ Len(rows) \in Nat /\ DOMAIN rows = 1 .. Len(rows)
  BY <1>1
<1>3. BatchSize \in Nat \ {0}
  BY DEF LoadAssumption
<1>4. /\ Rest \in Seq(Row) /\ DOMAIN Rest = 1 .. Len(Rest)
      /\ \A i \in DOMAIN Rest : i \in Nat /\ i + BatchSize \in DOMAIN rows /\ Rest[i] = rows[i + BatchSize]
  <2> HIDE DEF rows
  <2>1. Rest = SubSeq(rows, BatchSize + 1, Len(rows))
    BY DEF Rest, rows
  <2>2. Rest \in Seq(Row)
    BY <1>2, <1>3, <2>1
  <2>3. Len(Rest) = IF BatchSize + 1 <= Len(rows) THEN Len(rows) - BatchSize ELSE 0
    BY <1>2, <1>3, <2>1
  <2>4. \A i \in 1 .. Len(Rest) : Rest[i] = rows[i + BatchSize]
    BY <1>2, <1>3, <2>1, <2>3
  <2>5. DOMAIN Rest = 1 .. Len(Rest)
    BY <2>2
  <2> QED BY <1>2, <1>3, <2>2, <2>3, <2>4, <2>5
<1>5. Settled(rows)
  BY <1>1 DEF LoadInv
<1>6. Settled(Rest)
  <2>1. \A i \in DOMAIN Rest : Rest[i].sku \in KnownSkus \ RetiredSkus
    BY <1>4, <1>5 DEF Settled
  <2>2. BlankErrors(Rest) = {}
    BY <1>4, <1>5 DEF Settled, BlankErrors
  <2>3. RepeatErrors(Rest) = {}
    <3> SUFFICES ASSUME NEW i \in DOMAIN Rest, NEW j \in 1 .. (i - 1),
                        \/ Rest[i].engine # Blank /\ Rest[j].engine = Rest[i].engine
                        \/ Rest[i].chassis # Blank /\ Rest[j].chassis = Rest[i].chassis
                 PROVE  FALSE
      BY DEF RepeatErrors
    <3>1. j \in DOMAIN Rest /\ j + BatchSize \in 1 .. (i + BatchSize - 1)
      BY <1>3, <1>4
    <3>2. i + BatchSize \in RepeatErrors(rows)
      BY <1>4, <3>1 DEF RepeatErrors
    <3> QED BY <1>5, <3>2 DEF Settled
  <2> QED BY <2>1, <2>2, <2>3 DEF Settled
<1>7. /\ UNCHANGED <<catalogue, stopped>>
      /\ loading' = IF Rest = <<>> THEN NoLoad ELSE [loading EXCEPT !.rows = Rest]
  BY DEF LoadBatch
<1> HIDE DEF rows
<1>8. LoadTypes'
  BY <1>1, <1>4, <1>7 DEF LoadInv, LoadTypes
<1>9. loading'.step = "variants" => FALSE
  BY <1>1, <1>7 DEF NoLoad
<1>10. ASSUME NEW f, Settled(f) PROVE Settled(f)'
  BY <1>7, <1>10 DEF Settled, KnownSkus, RetiredSkus, BlankErrors, RepeatErrors
<1>11. loading'.step = "units" => loading'.rows = Rest
  BY <1>1, <1>4, <1>7 DEF NoLoad
<1> QED BY <1>6, <1>7, <1>8, <1>9, <1>10, <1>11 DEF LoadInv

LEMMA StopLoadKeepsLoad == ASSUME LoadInv, StopLoad PROVE LoadInv'
<1>1. /\ loading \in [step : {"variants", "units"}, rows : Seq(Row), override : BOOLEAN]
      /\ UNCHANGED <<catalogue, parked>> /\ loading' = NoLoad
      /\ stopped' = IF loading.step = "units"
                    THEN {[rows |-> loading.rows, override |-> loading.override]} ELSE stopped
  BY DEF StopLoad, LoadInv, LoadTypes, NoLoad
<1>2. LoadTypes'
  BY <1>1 DEF LoadInv, LoadTypes
<1>3. \A f \in stopped' : Settled(f.rows)
  BY <1>1 DEF LoadInv
<1>4. ASSUME NEW f \in stopped' PROVE Settled(f.rows)'
  <2>1. CatalogueGrows
    BY <1>1 DEF CatalogueGrows
  <2> QED BY <1>3, <2>1, SettledStays
<1> QED BY <1>1, <1>2, <1>4 DEF LoadInv, NoLoad

LEMMA ResumeKeepsLoad == ASSUME LoadAssumption, LoadInv, Resume PROVE LoadInv'
<1>1. PICK f \in stopped :
         /\ Clean(f.rows, f.override)
         /\ loading' = [step |-> "variants", rows |-> f.rows, override |-> f.override]
         /\ stopped' = {} /\ UNCHANGED <<catalogue, parked>>
  BY DEF Resume
<1>2. f.rows \in Seq(Row) /\ f.override \in BOOLEAN
  BY DEF LoadInv, LoadTypes
<1> QED BY <1>1, <1>2, AcceptKeepsLoad

LEMMA StatusKeepsLoad ==
    ASSUME LoadInv, NEW i \in DOMAIN catalogue, NEW status \in {"ACTIVE", "DISCONTINUED"},
           SetVariantStatus(i, status)
    PROVE  LoadInv'
<1>1. catalogue \in Seq(VariantRow)
  BY DEF LoadInv, LoadTypes
<1>2. catalogue[i] \in VariantRow
  BY <1>1
<1>3. [catalogue[i] EXCEPT !.status = status] \in VariantRow
  BY <1>2 DEF VariantRow
<1> DEFINE v == [catalogue[i] EXCEPT !.status = status]
<1>4. catalogue' = [catalogue EXCEPT ![i] = v]
  BY DEF SetVariantStatus
<1> HIDE DEF v
<1>5. catalogue' \in Seq(VariantRow)
  BY <1>1, <1>3, <1>4 DEF v
<1> QED BY <1>5 DEF SetVariantStatus, LoadInv, LoadTypes, NoLoad

LEMMA OthersKeepLoad ==
    ASSUME LoadAssumption, LoadInv, NEW s \in PoSkus, NEW override \in BOOLEAN,
           OrderLine(s, override) \/ StaffCreate(s)
    PROVE  LoadInv'
<1>1. loading = NoLoad /\ UNCHANGED <<parked, loading, stopped, stops>>
  BY DEF OrderLine, StaffCreate, Room
<1>2. CatalogueGrows /\ catalogue' \in Seq(VariantRow)
  BY OneMoreVariant DEF OrderLine, StaffCreate
<1> QED BY <1>1, <1>2, GrowingKeepsLoad

LEMMA LoadIdle == ASSUME LoadInv, UNCHANGED loadVars PROVE LoadInv'
<1>1. CatalogueGrows /\ UNCHANGED <<catalogue, parked, loading, stopped>>
  BY DEF CatalogueGrows, loadVars
<1>2. \A rows : Settled(rows) => Settled(rows)'
  BY <1>1, SettledStays
<1>3. ASSUME NEW rows, NEW o, Clean(rows, o) PROVE Clean(rows, o)'
  BY <1>1, <1>3, Unmoved
<1> QED BY <1>1, <1>2, <1>3 DEF LoadInv, LoadTypes

LEMMA LoadStep ==
    ASSUME LoadAssumption, LoadInv, [LoadNext]_loadVars PROVE LoadInv'
<1>1. ASSUME NEW f \in Files, NEW override \in BOOLEAN, Accept(f, override) PROVE LoadInv'
  <2>1. f \in Seq(Row)
    BY DEF LoadAssumption
  <2> QED BY <1>1, <2>1, AcceptKeepsLoad DEF Accept
<1>2. CASE CreateVariants \/ LoadBatch \/ StopLoad \/ Resume
  BY <1>2, CreateVariantsKeepsLoad, LoadBatchKeepsLoad, StopLoadKeepsLoad, ResumeKeepsLoad
<1>3. ASSUME NEW s \in PoSkus, NEW override \in BOOLEAN, OrderLine(s, override) PROVE LoadInv'
  BY <1>3, OthersKeepLoad
<1>4. ASSUME NEW s \in PoSkus, StaffCreate(s) PROVE LoadInv'
  BY <1>4, OthersKeepLoad
<1>5. ASSUME NEW i \in DOMAIN catalogue, NEW status \in {"ACTIVE", "DISCONTINUED"},
             SetVariantStatus(i, status)
      PROVE  LoadInv'
  BY <1>5, StatusKeepsLoad
<1> QED BY <1>1, <1>2, <1>3, <1>4, <1>5, LoadIdle DEF LoadNext

(* "a mid-load failure leaves these valid catalogue rows, which is          *)
(* harmless" (historical-load.service.ts), for any files, batch size and    *)
(* number of stops: the rows that a stopped load did not load pass          *)
(* validation as they are, unless units with their numbers came meanwhile.  *)
THEOREM StoppedLoadsAreHarmless ==
    ASSUME LoadAssumption PROVE LoadSpec => []StoppedLoadsCanBeFinished
<1>1. LoadInit => LoadInv
  BY LoadInitially
<1>2. LoadInv /\ [LoadNext]_loadVars => LoadInv'
  BY LoadStep
<1>3. LoadInv => StoppedLoadsCanBeFinished
  <2> SUFFICES ASSUME LoadInv, NEW f \in stopped, DatabaseErrors(f.rows) = {}
               PROVE  Clean(f.rows, f.override)
    BY DEF StoppedLoadsCanBeFinished
  <2>1. Settled(f.rows)
    BY DEF LoadInv
  <2>2. UnknownSkus(f.rows) = {}
    BY <2>1 DEF Settled, UnknownSkus, SkusOf
  <2>3. SkuErrors(f.rows, f.override) = {}
    BY <2>1, <2>2 DEF Settled, SkuErrors, HeldBack
  <2> QED BY <2>1, <2>3 DEF Settled, Clean
<1> QED BY <1>1, <1>2, <1>3, PTL DEF LoadSpec

-------------------------------------------------------------------------------
(* Likely typos.                                                            *)
LEMMA MinOfTwo ==
    ASSUME NEW a \in Nat, NEW b \in Nat
    PROVE  Min({a, b}) \in {a, b} /\ Min({a, b}) <= a /\ Min({a, b}) <= b
<1>1. \E x \in {a, b} : \A y \in {a, b} : x <= y
  <2>1. CASE a <= b
    BY <2>1
  <2>2. CASE ~(a <= b)
    BY <2>2
  <2> QED BY <2>1, <2>2
<1>2. Min({a, b}) \in {a, b} /\ \A y \in {a, b} : Min({a, b}) <= y
  BY <1>1 DEF Min
<1> QED BY <1>2

Apart(s, t) == Distance[<<s, t>>] > Min({Threshold[s], Threshold[t]})

LEMMA FarIsApart ==
    ASSUME LoadAssumption, NEW s \in Skus, NEW t \in Skus,
           \/ ~(Distance[<<s, t>>] <= Threshold[s])
           \/ ~(Distance[<<s, t>>] <= Threshold[t])
    PROVE  Apart(s, t)
<1>1. Distance[<<s, t>>] \in Nat /\ Threshold[s] \in Nat /\ Threshold[t] \in Nat
  BY DEF LoadAssumption
<1>2. Min({Threshold[s], Threshold[t]}) \in Nat
      /\ Min({Threshold[s], Threshold[t]}) <= Threshold[s]
      /\ Min({Threshold[s], Threshold[t]}) <= Threshold[t]
  BY <1>1, MinOfTwo
<1> QED BY <1>1, <1>2 DEF Apart

(* A SKU that passed the check of the catalogue is apart from active ones.  *)
LEMMA CheckedIsApart ==
    ASSUME LoadAssumption, LoadInv, NEW s \in Skus \ KnownSkus, SimilarTo(s) = {},
           NEW j \in DOMAIN catalogue, catalogue[j].status = "ACTIVE"
    PROVE  Apart(s, catalogue[j].sku)
<1> DEFINE t == catalogue[j].sku
<1>1. catalogue[j] \in VariantRow
  BY DEF LoadInv, LoadTypes
<1>2. t \in Skus /\ t \in ActiveSkus /\ t \in KnownSkus
  BY <1>1 DEF VariantRow, ActiveSkus, KnownSkus
<1>3. ~(Distance[<<s, t>>] <= Threshold[s])
  BY <1>2 DEF SimilarTo, Resembles
<1> QED BY <1>2, <1>3, FarIsApart

NoTwinAdded ==
    \A i \in DOMAIN catalogue' \ DOMAIN catalogue :
        ~catalogue'[i].override =>
            \A j \in 1 .. (i - 1) : catalogue'[j].status = "ACTIVE"
                => Apart(catalogue'[i].sku, catalogue'[j].sku)

LEMMA LoadAddsNoTwin ==
    ASSUME LoadAssumption, LoadInv, CreateVariants PROVE NoTwinAdded
<1> DEFINE rows == loading.rows
           S == {Variant(s, loading.override) : s \in UnknownSkus(rows)}
           new == SetToSeq(S)
<1>1. /\ rows \in Seq(Row) /\ loading.override \in BOOLEAN
      /\ IsFiniteSet(S) /\ new \in Seq(VariantRow) /\ catalogue' = catalogue \o new
  BY NewVariants
<1>2. /\ new \in Seq(S) /\ Len(new) \in Nat
      /\ \A k, m \in 1 .. Len(new) : new[k] = new[m] => k = m
  BY <1>1, SetToSeqLists
<1>3. UnknownSkus(rows) \subseteq Skus \ KnownSkus
  BY <1>1, SetOfSkusFinite DEF UnknownSkus
<1>4. catalogue \in Seq(VariantRow) /\ Clean(rows, loading.override)
  BY DEF LoadInv, LoadTypes, CreateVariants
<1>5. \A v \in S : /\ v.sku \in UnknownSkus(rows) /\ v.override = loading.override
                   /\ v = Variant(v.sku, loading.override)
  BY DEF Variant
<1>6. ASSUME ~loading.override, NEW s \in UnknownSkus(rows)
      PROVE  SimilarTo(s) = {} /\ \A t \in UnknownSkus(rows) : ~NearInFile(rows, s, t)
  <2>1. PICK r \in DOMAIN rows : rows[r].sku = s
    BY DEF UnknownSkus, SkusOf
  <2>2. ~HeldBack(rows, s)
    BY <1>4, <1>6, <2>1 DEF Clean, SkuErrors
  <2> QED BY <2>2 DEF HeldBack
<1> HIDE DEF S, new, rows
<1>7. /\ \A i \in DOMAIN catalogue : i \in DOMAIN catalogue' /\ catalogue'[i] = catalogue[i]
      /\ \A i \in DOMAIN catalogue' \ DOMAIN catalogue :
            \E k \in 1 .. Len(new) : i = Len(catalogue) + k /\ catalogue'[i] = new[k]
      /\ \A k \in 1 .. Len(new) :
            Len(catalogue) + k \in DOMAIN catalogue' /\ catalogue'[Len(catalogue) + k] = new[k]
  BY <1>1, <1>4, Lengthened, Zenon
<1>8. DOMAIN catalogue = 1 .. Len(catalogue) /\ Len(catalogue) \in Nat
  BY <1>4
<1> SUFFICES ASSUME NEW i \in DOMAIN catalogue' \ DOMAIN catalogue, ~catalogue'[i].override,
                    NEW j \in 1 .. (i - 1), catalogue'[j].status = "ACTIVE"
             PROVE  Apart(catalogue'[i].sku, catalogue'[j].sku)
  BY DEF NoTwinAdded
<1>9. PICK k \in 1 .. Len(new) : i = Len(catalogue) + k /\ catalogue'[i] = new[k]
  BY <1>7
<1>10. new[k] \in S
  BY <1>2
<1> DEFINE s == new[k].sku
<1>11. s \in UnknownSkus(rows) /\ s \in Skus \ KnownSkus /\ ~loading.override
  BY <1>3, <1>5, <1>9, <1>10
<1>12. CASE j \in DOMAIN catalogue
  BY <1>6, <1>7, <1>9, <1>11, <1>12, CheckedIsApart
<1>13. CASE j \notin DOMAIN catalogue
  <2> DEFINE m == j - Len(catalogue)
  <2>1. m \in 1 .. Len(new) /\ j = Len(catalogue) + m /\ m # k
    BY <1>2, <1>8, <1>9, <1>13
  <2>2. catalogue'[j] = new[m] /\ new[m] \in S /\ new[m] # new[k]
    BY <1>2, <1>7, <2>1
  <2> DEFINE t == new[m].sku
  <2>3. t \in UnknownSkus(rows) /\ t \in Skus /\ t # s
    BY <1>3, <1>5, <1>10, <2>2
  <2>4. ~NearInFile(rows, s, t)
    BY <1>6, <1>11, <2>3
  <2>5. \/ ~(Distance[<<s, t>>] <= Threshold[s])
        \/ ~(Distance[<<s, t>>] <= Threshold[t])
    BY <2>3, <2>4 DEF NearInFile
  <2> QED BY <1>9, <1>11, <2>2, <2>3, <2>5, FarIsApart
<1> QED BY <1>12, <1>13

LEMMA OrderLineAddsNoTwin ==
    ASSUME LoadAssumption, LoadInv, NEW s \in PoSkus, NEW override \in BOOLEAN,
           OrderLine(s, override)
    PROVE  NoTwinAdded
<1>1. /\ \A i \in DOMAIN catalogue' \ DOMAIN catalogue :
            i = Len(catalogue) + 1 /\ catalogue'[i] = Variant(s, override)
      /\ \A i \in DOMAIN catalogue : catalogue'[i] = catalogue[i]
  BY OneMoreVariant DEF OrderLine
<1>2. s \in Skus \ KnownSkus /\ (override \/ SimilarTo(s) = {})
  BY DEF OrderLine, LoadAssumption
<1>3. Len(catalogue) \in Nat /\ DOMAIN catalogue = 1 .. Len(catalogue)
  BY DEF LoadInv, LoadTypes
<1> SUFFICES ASSUME NEW i \in DOMAIN catalogue' \ DOMAIN catalogue, ~catalogue'[i].override,
                    NEW j \in 1 .. (i - 1), catalogue'[j].status = "ACTIVE"
             PROVE  Apart(catalogue'[i].sku, catalogue'[j].sku)
  BY DEF NoTwinAdded
<1>4. catalogue'[i].sku = s /\ ~override
  BY <1>1 DEF Variant
<1>5. j \in DOMAIN catalogue /\ catalogue'[j] = catalogue[j]
  BY <1>1, <1>3
<1> QED BY <1>2, <1>4, <1>5, CheckedIsApart

LEMMA StaffAddsNoTwin ==
    ASSUME LoadAssumption, LoadInv, NEW s \in PoSkus, StaffCreate(s) PROVE NoTwinAdded
<1>1. \A i \in DOMAIN catalogue' \ DOMAIN catalogue : catalogue'[i] = Variant(s, TRUE)
  BY OneMoreVariant DEF StaffCreate
<1> QED BY <1>1 DEF NoTwinAdded, Variant

LEMMA NothingAdded ==
    ASSUME DOMAIN catalogue' = DOMAIN catalogue PROVE NoTwinAdded
BY DEF NoTwinAdded

LEMMA LoadStepAddsNoTwin ==
    ASSUME LoadAssumption, LoadInv, LoadNext PROVE NoTwinAdded
<1>1. CASE catalogue' = catalogue
  BY <1>1, NothingAdded
<1>2. CASE CreateVariants
  BY <1>2, LoadAddsNoTwin
<1>3. ASSUME NEW s \in PoSkus, NEW override \in BOOLEAN, OrderLine(s, override)
      PROVE  NoTwinAdded
  BY <1>3, OrderLineAddsNoTwin
<1>4. ASSUME NEW s \in PoSkus, StaffCreate(s) PROVE NoTwinAdded
  BY <1>4, StaffAddsNoTwin
<1>5. ASSUME NEW i \in DOMAIN catalogue, NEW status \in {"ACTIVE", "DISCONTINUED"},
             SetVariantStatus(i, status)
      PROVE  NoTwinAdded
  <2>1. DOMAIN catalogue' = DOMAIN catalogue
    BY <1>5 DEF SetVariantStatus
  <2> QED BY <2>1, NothingAdded
<1>6. CASE LoadBatch \/ StopLoad \/ Resume \/ \E f \in Files, override \in BOOLEAN : Accept(f, override)
  BY <1>1, <1>6 DEF LoadBatch, StopLoad, Resume, Accept
<1> QED BY <1>2, <1>3, <1>4, <1>5, <1>6 DEF LoadNext

(* variant-auto-create.ts and the load, for any SKUs, thresholds, files and *)
(* batch sizes: a variant that nobody confirmed is never within the edit    *)
(* distance both SKUs allow of an active variant created before or with it. *)
THEOREM LikelyTyposAreHeldBack ==
    ASSUME LoadAssumption PROVE LoadSpec => NewVariantsHaveNoTwin
<1>1. LoadInit => LoadInv
  BY LoadInitially
<1>2. LoadInv /\ [LoadNext]_loadVars => LoadInv'
  BY LoadStep
<1>3. LoadInv /\ [LoadNext]_loadVars
        => [\A i \in DOMAIN catalogue' \ DOMAIN catalogue :
               ~catalogue'[i].override =>
                   \A j \in 1 .. (i - 1) :
                      LET s == catalogue'[i].sku
                          t == catalogue'[j].sku
                      IN  catalogue'[j].status = "ACTIVE"
                             => Distance[<<s, t>>] > Min({Threshold[s], Threshold[t]})]_loadVars
  BY LoadStepAddsNoTwin DEF NoTwinAdded, Apart
<1> QED BY <1>1, <1>2, <1>3, PTL DEF LoadSpec, NewVariantsHaveNoTwin
===============================================================================
