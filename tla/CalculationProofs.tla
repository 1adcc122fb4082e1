-------------------------- MODULE CalculationProofs --------------------------
(***************************************************************************)
(* The two calculations.  The shares of any landed costs add up to them,   *)
(* for any units, amounts and rates and any number of accountants who      *)
(* allocate at the same time: it needs that sums over finite sets are      *)
(* numbers that do not depend on the order in which one adds.  And the     *)
(* distance table finds the least number of edits between any two strings: *)
(* it needs that edits in any order come to a plan that goes through both  *)
(* strings once, from left to right, and back.                             *)
(***************************************************************************)
EXTENDS LandedCosts, EditDistance, FiniteSetTheorems, SequenceTheorems,
        WellFoundedInduction, TLAPS

(* A set with 0 and every successor has all natural numbers.                *)
LEMMA Counting ==
    ASSUME NEW S, 0 \in S, \A n \in Nat : n \in S => n + 1 \in S
    PROVE  Nat \subseteq S
<1> SUFFICES ASSUME Nat \ S # {} PROVE FALSE
  OBVIOUS
<1> DEFINE T == Nat \ S
<1>1. \E x \in T : \A y \in T : ~ (<<y, x>> \in OpToRel(<, Nat))
  <2>1. T \subseteq Nat /\ T # {}
    OBVIOUS
  <2> HIDE DEF T
  <2>2. QED
    BY <2>1, NatLessThanWellFounded, WFMin, Zenon
<1>2. PICK x \in T : \A y \in T : ~ (<<y, x>> \in OpToRel(<, Nat))
  BY <1>1
<1>3. x \in Nat /\ x # 0 /\ x - 1 \in Nat
  OBVIOUS
<1>4. \A y \in T : ~(y < x)
  BY <1>2 DEF OpToRel
<1>5. x - 1 \in S
  BY <1>3, <1>4
<1>6. QED
  BY <1>3, <1>5

(* What holds of the empty set, and of a set if it holds without any one of *)
(* its members, holds of every finite set.                                  *)
LEMMA SetInduction ==
    ASSUME NEW D, IsFiniteSet(D), NEW P, {} \in P,
           \A s \in SUBSET D : s # {} /\ (\A x \in s : s \ {x} \in P) => s \in P
    PROVE  SUBSET D \subseteq P
<1> DEFINE N == {n \in Nat : \A s \in SUBSET D : Cardinality(s) = n => s \in P}
<1>1. \A s \in SUBSET D : IsFiniteSet(s) /\ Cardinality(s) \in Nat
  BY FS_Subset, FS_CardinalityType
<1>2. 0 \in N
  BY <1>1, FS_EmptySet
<1>3. ASSUME NEW n \in Nat, n \in N PROVE n + 1 \in N
  <2> SUFFICES ASSUME NEW s \in SUBSET D, Cardinality(s) = n + 1 PROVE s \in P
    OBVIOUS
  <2>1. s # {}
    <3>1. Cardinality({}) = 0
      BY FS_EmptySet
    <3>2. Cardinality(s) # 0
      OBVIOUS
    <3>3. QED
      BY <3>1, <3>2, Zenon
  <2>2. ASSUME NEW x \in s PROVE s \ {x} \in P
    <3>1. Cardinality(s \ {x}) = n
      BY <1>1, FS_RemoveElement
    <3>2. QED
      BY <1>3, <3>1
  <2>3. QED
    BY <2>1, <2>2
<1> HIDE DEF N
<1>4. Nat \subseteq N
  BY <1>2, <1>3, Counting
<1>5. QED
  BY <1>1, <1>4 DEF N

-------------------------------------------------------------------------------
(* Sums.                                                                    *)

Pick(s) == CHOOSE x \in s : TRUE
AddUp(g, f, s) == IF s = {} THEN 0 ELSE f[Pick(s)] + g[s \ {Pick(s)}]
Sums(f, D) == CHOOSE g : g = [s \in SUBSET D |-> AddUp(g, f, s)]

LEMMA SumIsLast ==
    ASSUME NEW f, NEW D PROVE SumFunctionOnSet(f, D) = Sums(f, D)[D]
BY DEF SumFunctionOnSet, FoldFunctionOnSet, MapThenFoldSet, Sums, AddUp, Pick

LEMMA Picked == ASSUME NEW s, s # {} PROVE Pick(s) \in s
BY DEF Pick

(* There is a function of all partial sums.                                 *)
LEMMA SumsExist ==
    ASSUME NEW D, IsFiniteSet(D), NEW f, \A x \in D : f[x] \in Int
    PROVE  \E g : g = [s \in SUBSET D |-> AddUp(g, f, s)]
<1> DEFINE N == {n \in Nat : \E g \in [SUBSET D -> Int] :
                    \A s \in SUBSET D : Cardinality(s) <= n => g[s] = AddUp(g, f, s)}
<1>1. \A s \in SUBSET D : IsFiniteSet(s) /\ Cardinality(s) \in Nat
  BY FS_Subset, FS_CardinalityType
<1>2. 0 \in N
  <2> DEFINE g == [s \in SUBSET D |-> 0]
  <2>1. \A s \in SUBSET D : Cardinality(s) <= 0 => s = {}
    BY <1>1, FS_EmptySet
  <2>2. g \in [SUBSET D -> Int] /\ \A s \in SUBSET D : Cardinality(s) <= 0 => g[s] = AddUp(g, f, s)
    BY <2>1 DEF AddUp
  <2> HIDE DEF g
  <2>3. QED
    BY <2>2
<1>3. ASSUME NEW n \in Nat, n \in N PROVE n + 1 \in N
  <2>1. PICK g \in [SUBSET D -> Int] :
           \A s \in SUBSET D : Cardinality(s) <= n => g[s] = AddUp(g, f, s)
    BY <1>3
  <2> DEFINE h == [s \in SUBSET D |-> IF Cardinality(s) <= n THEN g[s] ELSE AddUp(g, f, s)]
  <2>2. \A s \in SUBSET D : s # {} => /\ Pick(s) \in D /\ s \ {Pick(s)} \in SUBSET D
                                      /\ Cardinality(s \ {Pick(s)}) = Cardinality(s) - 1
    BY <1>1, Picked, FS_RemoveElement
  <2>3. \A s \in SUBSET D : AddUp(g, f, s) \in Int
    BY <2>2 DEF AddUp
  <2>4. h \in [SUBSET D -> Int]
    BY <2>3
  <2>5. ASSUME NEW s \in SUBSET D, Cardinality(s) <= n + 1 PROVE h[s] = AddUp(h, f, s)
    <3>1. h[s] = AddUp(g, f, s)
      BY <2>1
    <3>2. CASE s = {}
      BY <3>1, <3>2 DEF AddUp
    <3>3. CASE s # {}
      <4>1. Cardinality(s \ {Pick(s)}) <= n
        BY <1>1, <2>2, <2>5, <3>3
      <4>2. h[s \ {Pick(s)}] = g[s \ {Pick(s)}]
        BY <2>2, <3>3, <4>1
      <4>3. QED
        BY <3>1, <3>3, <4>2 DEF AddUp
    <3>4. QED
      BY <3>2, <3>3
  <2> HIDE DEF h
  <2>6. QED
    BY <2>4, <2>5
<1> HIDE DEF N
<1>4. Cardinality(D) \in N
  BY <1>1, <1>2, <1>3, Counting
<1>5. PICK g \in [SUBSET D -> Int] :
         \A s \in SUBSET D : Cardinality(s) <= Cardinality(D) => g[s] = AddUp(g, f, s)
  BY <1>4 DEF N
<1>6. \A s \in SUBSET D : Cardinality(s) <= Cardinality(D)
  BY FS_Subset
<1>7. g = [s \in SUBSET D |-> AddUp(g, f, s)]
  BY <1>5, <1>6
<1>8. QED
  BY <1>7

LEMMA SumsAddUp ==
    ASSUME NEW D, IsFiniteSet(D), NEW f, \A x \in D : f[x] \in Int
    PROVE  \A s \in SUBSET D : Sums(f, D)[s] = AddUp(Sums(f, D), f, s)
<1>1. Sums(f, D) = [s \in SUBSET D |-> AddUp(Sums(f, D), f, s)]
  BY SumsExist DEF Sums
<1>2. QED
  BY <1>1

(* A partial sum is a number, whatever it is a part of.                     *)
LEMMA SumsAgree ==
    ASSUME NEW D, IsFiniteSet(D), NEW f, \A x \in D : f[x] \in Int,
           NEW s \in SUBSET D
    PROVE  Sums(f, D)[s] \in Int /\ SumFunctionOnSet(f, s) = Sums(f, D)[s]
<1> DEFINE g == Sums(f, D)
           h == Sums(f, s)
           P == {t \in SUBSET s : g[t] \in Int /\ h[t] = g[t]}
<1>1. IsFiniteSet(s) /\ \A x \in s : f[x] \in Int
  BY FS_Subset
<1>2. /\ \A t \in SUBSET D : g[t] = AddUp(g, f, t)
      /\ \A t \in SUBSET s : h[t] = AddUp(h, f, t)
  BY <1>1, SumsAddUp
<1> HIDE DEF g, h
<1>3. {} \in P
  <2>1. {} \in SUBSET D /\ {} \in SUBSET s
    OBVIOUS
  <2>2. g[{}] = 0 /\ h[{}] = 0
    BY <1>2, <2>1, Zenon DEF AddUp
  <2>3. QED
    BY <2>1, <2>2
<1>4. ASSUME NEW t \in SUBSET s, t # {}, \A x \in t : t \ {x} \in P PROVE t \in P
  <2>1. Pick(t) \in t /\ t \ {Pick(t)} \in P
    BY <1>4, Picked
  <2>2. g[t] = f[Pick(t)] + g[t \ {Pick(t)}] /\ h[t] = f[Pick(t)] + h[t \ {Pick(t)}]
    BY <1>2, <1>4 DEF AddUp
  <2>3. QED
    BY <1>1, <2>1, <2>2
<1> HIDE DEF P
<1>5. s \in P
  BY <1>1, <1>3, <1>4, SetInduction
<1>6. QED
  BY <1>5, SumIsLast DEF P, g, h

(* One can take out any member first.                                       *)
LEMMA SumTakesOut ==
    ASSUME NEW D, IsFiniteSet(D), NEW f, \A x \in D : f[x] \in Int
    PROVE  \A s \in SUBSET D : \A x \in s : Sums(f, D)[s] = Sums(f, D)[s \ {x}] + f[x]
<1> DEFINE g == Sums(f, D)
           P == {s \in SUBSET D : \A x \in s : g[s] = g[s \ {x}] + f[x]}
<1>1. \A s \in SUBSET D : g[s] \in Int /\ g[s] = AddUp(g, f, s)
  BY SumsAddUp, SumsAgree
<1> HIDE DEF g
<1>2. ASSUME NEW s \in SUBSET D, s # {}, \A x \in s : s \ {x} \in P PROVE s \in P
  <2> SUFFICES ASSUME NEW x \in s PROVE g[s] = g[s \ {x}] + f[x]
    OBVIOUS
  <2> DEFINE p == Pick(s)
  <2>1. p \in s
    BY Picked
  <2> HIDE DEF p
  <2>2. g[s] = f[p] + g[s \ {p}]
    BY <1>1 DEF AddUp, p
  <2>3. CASE x = p
    BY <1>1, <2>1, <2>2, <2>3
  <2>4. CASE x # p
    <3>1. g[s \ {p}] = g[(s \ {p}) \ {x}] + f[x]
      BY <1>2, <2>1, <2>4
    <3>2. g[s \ {x}] = g[(s \ {x}) \ {p}] + f[p]
      BY <1>2, <2>1, <2>4
    <3>3. (s \ {p}) \ {x} = (s \ {x}) \ {p}
      OBVIOUS
    <3>4. g[(s \ {x}) \ {p}] \in Int /\ f[x] \in Int /\ f[p] \in Int
      BY <1>1, <2>1
    <3>5. g[s \ {x}] = g[(s \ {p}) \ {x}] + f[p]
      BY <3>2, <3>3
    <3> DEFINE a == g[(s \ {p}) \ {x}]
               b == f[x]
               c == f[p]
    <3>6. a \in Int /\ b \in Int /\ c \in Int
      BY <3>3, <3>4
    <3>7. g[s] = c + (a + b) /\ g[s \ {x}] = a + c
      BY <2>2, <3>1, <3>5
    <3> HIDE DEF a, c
    <3> SUFFICES g[s] = g[s \ {x}] + b
      OBVIOUS
    <3> HIDE DEF b
    <3>8. QED
      BY <3>6, <3>7
  <2>5. QED
    BY <2>3, <2>4
<1>3. {} \in P
  OBVIOUS
<1> HIDE DEF P
<1>4. SUBSET D \subseteq P
  BY <1>2, <1>3, SetInduction
<1>5. QED
  BY <1>4 DEF P, g

LEMMA SumOfNothing == ASSUME NEW f PROVE SumFunctionOnSet(f, {}) = 0
<1>1. IsFiniteSet({})
  BY FS_EmptySet
<1>2. Sums(f, {})[{}] = AddUp(Sums(f, {}), f, {})
  BY <1>1, SumsAddUp
<1>3. QED
  BY <1>2, SumIsLast DEF AddUp

LEMMA SumOfOneMore ==
    ASSUME NEW S, IsFiniteSet(S), NEW x, x \notin S,
           NEW f, \A y \in S : f[y] \in Int, f[x] \in Int
    PROVE  /\ SumFunctionOnSet(f, S) \in Int
           /\ SumFunctionOnSet(f, S \cup {x}) = SumFunctionOnSet(f, S) + f[x]
<1> DEFINE D == S \cup {x}
<1>1. IsFiniteSet(D) /\ \A y \in D : f[y] \in Int
  BY FS_AddElement
<1>2. D \in SUBSET D /\ S \in SUBSET D /\ x \in D /\ D \ {x} = S
  OBVIOUS
<1> HIDE DEF D
<1>3. Sums(f, D)[D] = Sums(f, D)[S] + f[x]
  BY <1>1, <1>2, SumTakesOut
<1>4. SumFunctionOnSet(f, S) = Sums(f, D)[S] /\ Sums(f, D)[S] \in Int
      /\ SumFunctionOnSet(f, D) = Sums(f, D)[D]
  BY <1>1, <1>2, SumsAgree
<1>5. QED
  BY <1>3, <1>4 DEF D

LEMMA SumIsNumber ==
    ASSUME NEW S, IsFiniteSet(S), NEW f, \A x \in S : f[x] \in Int
    PROVE  SumFunctionOnSet(f, S) \in Int
BY SumsAgree

(* Adding in the order of a list that names every member once.              *)
Lists(q, n, S) ==
    /\ n \in Nat /\ q \in [1 .. n -> S]
    /\ \A i, j \in 1 .. n : q[i] = q[j] => i = j
    /\ \A x \in S : \E i \in 1 .. n : q[i] = x

Accumulates(p, q, n, f) ==
    /\ p \in [0 .. n -> Int] /\ p[0] = 0
    /\ \A k \in 0 .. (n - 1) : p[k + 1] = p[k] + f[q[k + 1]]

LEMMA SumInOrder ==
    ASSUME NEW S, NEW n, NEW q, Lists(q, n, S),
           NEW f, \A x \in S : f[x] \in Int,
           NEW p, Accumulates(p, q, n, f)
    PROVE  SumFunctionOnSet(f, S) = p[n]
<1>0. ASSUME NEW F \in SUBSET S, IsFiniteSet(F), NEW z \in S, z \notin F
      PROVE  /\ IsFiniteSet(F \cup {z})
             /\ SumFunctionOnSet(f, F \cup {z}) = SumFunctionOnSet(f, F) + f[z]
  BY <1>0, FS_AddElement, SumOfOneMore
<1> DEFINE First(k) == {q[i] : i \in 1 .. k}
           N == {k \in Nat : k <= n => IsFiniteSet(First(k)) /\ SumFunctionOnSet(f, First(k)) = p[k]}
<1>1. 0 \in N
  <2>1. First(0) = {} /\ p[0] = 0
    BY DEF Accumulates
  <2> HIDE DEF First
  <2>2. QED
    BY <2>1, SumOfNothing, FS_EmptySet
<1>2. ASSUME NEW k \in Nat, k \in N PROVE k + 1 \in N
  <2> SUFFICES ASSUME k + 1 <= n
               PROVE  /\ IsFiniteSet(First(k + 1))
                      /\ SumFunctionOnSet(f, First(k + 1)) = p[k + 1]
    OBVIOUS
  <2>1. k \in 0 .. (n - 1) /\ k + 1 \in 1 .. n /\ k <= n
    BY DEF Lists
  <2>2. IsFiniteSet(First(k)) /\ SumFunctionOnSet(f, First(k)) = p[k]
    BY <1>2, <2>1
  <2>3. First(k) \subseteq S /\ q[k + 1] \in S /\ q[k + 1] \notin First(k)
    BY <2>1 DEF Lists
  <2>4. First(k + 1) = First(k) \cup {q[k + 1]}
    <3>1. 1 .. (k + 1) = (1 .. k) \cup {k + 1}
      OBVIOUS
    <3>2. QED
      BY <3>1
  <2>5. p[k + 1] = p[k] + f[q[k + 1]]
    BY <2>1 DEF Accumulates
  <2> HIDE DEF First, N
  <2>6. /\ IsFiniteSet(First(k) \cup {q[k + 1]})
        /\ SumFunctionOnSet(f, First(k) \cup {q[k + 1]})
             = SumFunctionOnSet(f, First(k)) + f[q[k + 1]]
    BY <1>0, <2>2, <2>3
  <2>7. QED
    BY <2>2, <2>4, <2>5, <2>6
<1>3. First(n) = S /\ n \in Nat
  BY DEF Lists
<1> HIDE DEF N
<1>4. n \in N
  BY <1>1, <1>2, <1>3, Counting
<1> HIDE DEF First
<1>5. QED
  BY <1>3, <1>4 DEF N

-------------------------------------------------------------------------------
(* orderBy engineNumber lists every unit once, the smaller number first: the *)
(* unit at place i is the one with i units at or below it.                  *)

Ascends(q, n) == \A i, j \in 1 .. n : i < j => q[i] < q[j]

LEMMA OrderExists ==
    ASSUME NEW U, U \subseteq Nat, IsFiniteSet(U)
    PROVE  \E q \in [1 .. Cardinality(U) -> U] : Ascends(q, Cardinality(U))
<1> DEFINE n == Cardinality(U)
           Below(e) == {d \in U : d <= e}
           rank == [e \in U |-> Cardinality(Below(e))]
<1>1. n \in Nat /\ IsFiniteSet(1 .. n) /\ Cardinality(1 .. n) = n
  BY FS_CardinalityType, FS_Interval
<1>2. ASSUME NEW e \in U
      PROVE  /\ IsFiniteSet(Below(e)) /\ Cardinality(Below(e)) \in 1 .. n
  <2>1. /\ IsFiniteSet(Below(e)) /\ Cardinality(Below(e)) <= n /\ Cardinality(Below(e)) \in Nat
    BY FS_Subset, FS_CardinalityType
  <2>2. Below(e) # {}
    OBVIOUS
  <2>3. Cardinality(Below(e)) # 0
    BY <2>1, <2>2, FS_EmptySet
  <2>4. QED
    BY <1>1, <2>1, <2>3
<1>3. ASSUME NEW d \in U, NEW e \in U, d < e PROVE Cardinality(Below(d)) < Cardinality(Below(e))
  <2>0. \A x \in U : x \in Nat
    OBVIOUS
  <2>1. Below(d) \in SUBSET Below(e) /\ Below(d) # Below(e)
    <3>1. Below(d) \in SUBSET Below(e)
      <4>1. d \in Nat /\ e \in Nat
        BY <2>0
      <4>2. ASSUME NEW x \in U, x <= d PROVE x <= e
        <5>1. x \in Nat
          BY <2>0
        <5>2. QED
          BY <1>3, <4>1, <4>2, <5>1
      <4>3. QED
        BY <4>2
    <3>2. e \in Below(e) /\ e \notin Below(d)
      BY <1>3, <2>0
    <3>3. QED
      BY <3>1, <3>2
  <2>2. Cardinality(Below(d)) <= Cardinality(Below(e)) /\ Cardinality(Below(d)) # Cardinality(Below(e))
    BY <1>2, <2>1, FS_Subset
  <2>3. QED
    BY <1>2, <2>2
<1>4. rank \in [U -> 1 .. n] /\ \A d, e \in U : d < e => rank[d] < rank[e]
  BY <1>2, <1>3
<1> HIDE DEF rank, n
<1>5. \A d, e \in U : rank[d] = rank[e] => d = e
  <2> SUFFICES ASSUME NEW d \in U, NEW e \in U, d # e PROVE rank[d] # rank[e]
    OBVIOUS
  <2>1. (d < e \/ e < d) /\ rank[d] \in Int /\ rank[e] \in Int
    BY <1>1, <1>4
  <2>2. QED
    BY <1>4, <2>1
<1>6. rank \in Injection(U, 1 .. n)
  BY <1>4, <1>5 DEF Injection, IsInjective
<1>7. rank \in Surjection(U, 1 .. n)
  BY <1>1, <1>6, FS_Injection DEF n
<1>8. \A i \in 1 .. n : \E e \in U : rank[e] = i
  BY <1>7 DEF Surjection
<1> DEFINE q == [i \in 1 .. n |-> CHOOSE e \in U : rank[e] = i]
<1>9. q \in [1 .. n -> U] /\ \A i \in 1 .. n : rank[q[i]] = i
  BY <1>8
<1> HIDE DEF q
<1>10. ASSUME NEW i \in 1 .. n, NEW j \in 1 .. n, i < j PROVE q[i] < q[j]
  <2>1. q[i] \in U /\ q[j] \in U /\ q[i] # q[j] /\ rank[q[i]] = i /\ rank[q[j]] = j
    BY <1>9, <1>10
  <2>2. ASSUME q[j] < q[i] PROVE FALSE
    <3>1. rank[q[j]] < rank[q[i]]
      BY <1>4, <2>1, <2>2
    <3>2. j < i /\ i \in Int /\ j \in Int
      BY <1>1, <2>1, <3>1
    <3>3. QED
      BY <1>10, <3>2
  <2>3. q[i] \in Nat /\ q[j] \in Nat
    BY <2>1
  <2>4. QED
    BY <2>1, <2>2, <2>3
<1>11. QED
  BY <1>9, <1>10 DEF Ascends, n

LEMMA OrderLists ==
    ASSUME NEW U, U \subseteq Nat, IsFiniteSet(U)
    PROVE  /\ Lists(InOrder(U), Cardinality(U), U)
           /\ Ascends(InOrder(U), Cardinality(U))
           /\ Len(InOrder(U)) = Cardinality(U)
<1> DEFINE n == Cardinality(U)
           q == InOrder(U)
<1>1. n \in Nat /\ IsFiniteSet(1 .. n) /\ Cardinality(1 .. n) = n
  BY FS_CardinalityType, FS_Interval
<1>2. q \in [1 .. n -> U] /\ Ascends(q, n)
  <2>1. \E r \in [1 .. n -> U] : \A i, j \in DOMAIN r : i < j => r[i] < r[j]
    BY OrderExists DEF Ascends
  <2>2. q \in [1 .. n -> U] /\ \A i, j \in DOMAIN q : i < j => q[i] < q[j]
    BY <2>1 DEF InOrder
  <2>3. QED
    BY <2>2 DEF Ascends
<1> HIDE DEF q, n
<1>3. \A i, j \in 1 .. n : q[i] = q[j] => i = j
  <2> SUFFICES ASSUME NEW i \in 1 .. n, NEW j \in 1 .. n, i # j PROVE q[i] # q[j]
    OBVIOUS
  <2>1. q[i] \in U /\ q[j] \in U
    BY <1>2
  <2>2. q[i] \in Nat /\ q[j] \in Nat
    BY <2>1
  <2>3. i < j \/ j < i
    BY <1>1
  <2>4. QED
    BY <1>2, <2>2, <2>3 DEF Ascends
<1>4. q \in Injection(1 .. n, U)
  BY <1>2, <1>3 DEF Injection, IsInjective
<1>5. q \in Surjection(1 .. n, U)
  BY <1>1, <1>4, FS_Injection DEF n
<1>6. \A x \in U : \E i \in 1 .. n : q[i] = x
  BY <1>5 DEF Surjection
<1>7. Lists(q, n, U)
  BY <1>1, <1>2, <1>3, <1>6 DEF Lists
<1>8. Len(q) = n
  BY <1>1, <1>2
<1>9. QED
  BY <1>2, <1>7, <1>8 DEF q, n

-------------------------------------------------------------------------------
(* The shares of any total, on any units.                                   *)

LEMMA DivFact ==
    ASSUME NEW t \in Int, NEW n \in Nat, n > 0
    PROVE  t \div n \in Int /\ t - (t \div n) * n \in 0 .. (n - 1)
OBVIOUS

LEMMA SharesOfTotal ==
    ASSUME NEW S, NEW n, NEW q, Lists(q, n, S), n > 0, NEW t \in Int,
           NEW f, \A i \in 1 .. n : f[q[i]] = Share(t, n, i)
    PROVE  /\ \A x \in S : f[x] \in Int
           /\ SumFunctionOnSet(f, S) = t
           /\ \A i, j \in 1 .. n : i < j => f[q[i]] - f[q[j]] \in {0, 1}
<1> DEFINE base == t \div n
           rem == t - base * n
           p == [k \in 0 .. n |-> k * base + (IF k <= rem THEN k ELSE rem)]
<1>1. n \in Nat
  BY DEF Lists
<1>2. base \in Int /\ base * n \in Int /\ rem \in Int /\ rem >= 0 /\ rem < n
  BY <1>1, DivFact
<1>3. \A i \in 1 .. n : f[q[i]] = IF i <= rem THEN base + 1 ELSE base
  BY DEF Share
<1>4. t = base * n + rem
  BY <1>2
<1> HIDE DEF base, rem
<1>5. \A i \in 1 .. n : f[q[i]] \in Int
  BY <1>2, <1>3
<1>6. \A x \in S : f[x] \in Int
  BY <1>5 DEF Lists
<1>7. \A k \in 0 .. n : k * base \in Int /\ (k + 1) * base = k * base + base
  <2> SUFFICES ASSUME NEW k \in 0 .. n PROVE k * base \in Int /\ (k + 1) * base = k * base + base
    OBVIOUS
  <2>1. k \in Int
    BY <1>1
  <2>2. QED
    BY <1>2, <2>1
<1>8. Accumulates(p, q, n, f)
  <2>1. p \in [0 .. n -> Int]
    BY <1>1, <1>2, <1>7
  <2>2. p[0] = 0
    BY <1>1, <1>2
  <2>3. ASSUME NEW k \in 0 .. (n - 1) PROVE p[k + 1] = p[k] + f[q[k + 1]]
    <3>1. k \in 0 .. n /\ k + 1 \in 0 .. n /\ k + 1 \in 1 .. n /\ k \in Nat
      BY <1>1
    <3>2. /\ p[k] = k * base + (IF k <= rem THEN k ELSE rem)
          /\ p[k + 1] = (k + 1) * base + (IF k + 1 <= rem THEN k + 1 ELSE rem)
      BY <3>1
    <3>3. f[q[k + 1]] = IF k + 1 <= rem THEN base + 1 ELSE base
      BY <1>3, <3>1
    <3>4. (k + 1) * base = k * base + base /\ k * base \in Int
      BY <1>7, <3>1
    <3> HIDE DEF p
    <3>5. QED
      BY <1>2, <3>1, <3>2, <3>3, <3>4
  <2> HIDE DEF p
  <2>4. QED
    BY <2>1, <2>2, <2>3 DEF Accumulates
<1>9. p[n] = t
  <2>1. p[n] = n * base + rem
    BY <1>1, <1>2
  <2>2. n * base = base * n
    BY <1>1, <1>2
  <2>3. QED
    BY <1>2, <1>4, <2>1, <2>2
<1>10. ASSUME NEW i \in 1 .. n, NEW j \in 1 .. n, i < j PROVE f[q[i]] - f[q[j]] \in {0, 1}
  <2>1. i \in Int /\ j \in Int
    BY <1>1
  <2>2. QED
    BY <1>2, <1>3, <1>10, <2>1
<1> HIDE DEF p
<1>11. SumFunctionOnSet(f, S) = p[n]
  BY <1>6, <1>8, SumInOrder
<1>12. QED
  BY <1>6, <1>9, <1>10, <1>11

(* So written on any units, in their order.                                 *)
LEMMA SharesOnUnits ==
    ASSUME NEW U, U \subseteq Nat, IsFiniteSet(U), U # {}, NEW t \in Int,
           NEW f, \A i \in 1 .. Cardinality(U) :
                     f[InOrder(U)[i]] = Share(t, Cardinality(U), i)
    PROVE  /\ \A x \in U : f[x] \in Int
           /\ SumFunctionOnSet(f, U) = t
           /\ \A d, e \in U : d < e => f[d] - f[e] \in {0, 1}
<1> DEFINE q == InOrder(U)
           n == Cardinality(U)
<1>1. Lists(q, n, U) /\ Ascends(q, n)
  BY OrderLists
<1>2. n \in Nat /\ n > 0
  BY FS_EmptySet, FS_CardinalityType
<1>3. \A i \in 1 .. n : f[q[i]] = Share(t, n, i)
  OBVIOUS
<1> HIDE DEF q, n
<1>4. /\ \A x \in U : f[x] \in Int
      /\ SumFunctionOnSet(f, U) = t
      /\ \A i, j \in 1 .. n : i < j => f[q[i]] - f[q[j]] \in {0, 1}
  BY <1>1, <1>2, <1>3, SharesOfTotal
<1>5. ASSUME NEW d \in U, NEW e \in U, d < e PROVE f[d] - f[e] \in {0, 1}
  <2>1. PICK i, j \in 1 .. n : q[i] = d /\ q[j] = e
    BY <1>1 DEF Lists
  <2>2. i < j
    <3>1. d \in Nat /\ e \in Nat /\ i \in Int /\ j \in Int
      BY <1>2, <1>5
    <3>2. ~(j < i) /\ i # j
      BY <1>1, <1>5, <2>1, <3>1 DEF Ascends
    <3>3. QED
      BY <3>1, <3>2
  <2>3. QED
    BY <1>4, <2>1, <2>2
<1>6. QED
  BY <1>4, <1>5

-------------------------------------------------------------------------------
(* The desk.                                                                *)

CostsTypes ==
    /\ received \subseteq Engines /\ IsFiniteSet(received)
    /\ component \in [Components -> Costs \cup {NoCost}]
    /\ DOMAIN allocating = Accountants

(* What a request has read is a number, and units that are still there.     *)
HasRead(q) ==
    /\ q.step \in {"total", "units"} => q.total \in Int
    /\ q.step = "units" => \E U \in SUBSET received : U # {} /\ q.units = InOrder(U)

CostsInv ==
    /\ CostsTypes
    /\ \A a \in Accountants : HasRead(allocating[a])
    /\ SharesAddUp

LEMMA TotalIsNumber ==
    ASSUME CostsAssumption, NEW cs \in [Components -> Costs \cup {NoCost}]
    PROVE  TotalCents(cs) \in Int
<1> DEFINE added == {c \in Components : cs[c] # NoCost}
           f == [c \in added |-> cs[c][1] * cs[c][2]]
<1>1. IsFiniteSet(added)
  BY FS_Subset DEF CostsAssumption
<1>2. ASSUME NEW c \in added PROVE f[c] \in Int
  <2>1. cs[c] \in Costs
    OBVIOUS
  <2>2. cs[c][1] \in Nat /\ cs[c][2] \in Nat
    BY <2>1 DEF CostsAssumption
  <2>3. QED
    BY <2>2
<1> HIDE DEF added, f
<1>3. SumFunctionOnSet(f, added) \in Int
  BY <1>1, <1>2, SumIsNumber
<1>4. TotalCents(cs) = RoundHalfUp(SumFunctionOnSet(f, added))
  BY DEF TotalCents, f, added
<1>5. ASSUME NEW x \in Int PROVE RoundHalfUp(x) \in Int
  BY DEF RoundHalfUp
<1>6. QED
  BY <1>3, <1>4, <1>5

LEMMA CostsInitInv == ASSUME CostsAssumption, CostsInit PROVE CostsInv
<1>1. CostsTypes
  BY FS_EmptySet DEF CostsInit, CostsTypes
<1>2. \A a \in Accountants : HasRead(allocating[a])
  BY DEF CostsInit, HasRead, NotAllocating
<1>3. SharesAddUp
  BY DEF CostsInit, SharesAddUp
<1>4. QED
  BY <1>1, <1>2, <1>3 DEF CostsInv

LEMMA ReceiveUnitInv ==
    ASSUME CostsInv, NEW e \in Engines, ReceiveUnit(e) PROVE CostsInv'
<1>1. CostsTypes'
  BY FS_AddElement DEF CostsInv, CostsTypes, ReceiveUnit
<1>2. (\A a \in Accountants : HasRead(allocating[a]))'
  <2> SUFFICES ASSUME NEW a \in Accountants PROVE HasRead(allocating[a])'
    OBVIOUS
  <2>1. SUBSET received \subseteq SUBSET received' /\ allocating' = allocating
    BY DEF ReceiveUnit
  <2>2. QED
    BY <2>1 DEF CostsInv, HasRead
<1>3. SharesAddUp'
  BY DEF ReceiveUnit, SharesAddUp
<1>4. QED
  BY <1>1, <1>2, <1>3 DEF CostsInv

LEMMA SetComponentInv ==
    ASSUME CostsInv, NEW c \in Components, NEW cost \in Costs, SetComponent(c, cost)
    PROVE  CostsInv'
<1>1. CostsTypes'
  BY DEF CostsInv, CostsTypes, SetComponent
<1>2. (\A a \in Accountants : HasRead(allocating[a]))'
  BY DEF CostsInv, HasRead, SetComponent
<1>3. SharesAddUp'
  BY DEF SetComponent, SharesAddUp
<1>4. QED
  BY <1>1, <1>2, <1>3 DEF CostsInv

LEMMA ReadComponentsInv ==
    ASSUME CostsAssumption, CostsInv, NEW a \in Accountants, ReadComponents(a) PROVE CostsInv'
<1>1. CostsTypes' /\ SharesAddUp'
  BY DEF CostsInv, CostsTypes, SharesAddUp, TotalCents, ReadComponents
<1>2. TotalCents(component) \in Int
  BY TotalIsNumber DEF CostsInv, CostsTypes
<1>3. ASSUME NEW b \in Accountants PROVE HasRead(allocating[b])'
  <2>1. CASE b = a
    BY <1>2, <2>1 DEF CostsInv, CostsTypes, HasRead, ReadComponents
  <2>2. CASE b # a
    BY <2>2 DEF CostsInv, CostsTypes, HasRead, ReadComponents
  <2>3. QED
    BY <2>1, <2>2
<1>4. QED
  BY <1>1, <1>3 DEF CostsInv

LEMMA ReadUnitsInv ==
    ASSUME CostsInv, NEW a \in Accountants, ReadUnits(a) PROVE CostsInv'
<1>1. CostsTypes' /\ SharesAddUp'
  BY DEF CostsInv, CostsTypes, SharesAddUp, TotalCents, ReadUnits
<1>2. ASSUME NEW b \in Accountants PROVE HasRead(allocating[b])'
  <2>1. CASE b = a
    <3>1. CASE received = {}
      BY <2>1, <3>1 DEF CostsInv, CostsTypes, HasRead, ReadUnits, NotAllocating
    <3>2. CASE received # {}
      <4>1. allocating'[a] = [allocating[a] EXCEPT !.step = "units", !.units = InOrder(received)]
        BY <3>2 DEF CostsInv, CostsTypes, ReadUnits
      <4>2. allocating[a].total \in Int /\ received' = received
        BY DEF CostsInv, HasRead, ReadUnits
      <4>3. QED
        BY <2>1, <3>2, <4>1, <4>2 DEF HasRead
    <3>3. QED
      BY <3>1, <3>2
  <2>2. CASE b # a
    BY <2>2 DEF CostsInv, CostsTypes, HasRead, ReadUnits
  <2>3. QED
    BY <2>1, <2>2
<1>3. QED
  BY <1>1, <1>2 DEF CostsInv

(* Whatever an allocation has read, the shares it writes add up to that.    *)
LEMMA AllocationAddsUp ==
    ASSUME CostsAssumption, CostsInv, NEW a \in Accountants, Allocate(a),
           NEW U \in SUBSET received, U # {}, allocating[a].units = InOrder(U)
    PROVE  /\ \A e \in U : landed'[e] \in Int
           /\ SumFunctionOnSet(landed', U) = allocating[a].total
           /\ \A d, e \in U : d < e => landed'[d] - landed'[e] \in {0, 1}
<1> DEFINE q == allocating[a].units
           n == Cardinality(U)
           t == allocating[a].total
<1>1. U \subseteq Nat /\ U \subseteq Engines /\ IsFiniteSet(U)
  BY FS_Subset DEF CostsAssumption, CostsInv, CostsTypes
<1>2. Lists(q, n, U) /\ Len(q) = n
  BY <1>1, OrderLists
<1>3. t \in Int
  BY DEF CostsInv, HasRead, Allocate
<1>4. ASSUME NEW i \in 1 .. n PROVE landed'[InOrder(U)[i]] = Share(t, n, i)
  <2> HIDE DEF q, n, t
  <2>1. q[i] \in Engines
    BY <1>1, <1>2 DEF Lists
  <2>2. (CHOOSE k \in 1 .. n : q[k] = q[i]) = i
    BY <1>2 DEF Lists
  <2>3. landed' = [e \in Engines |->
                     IF \E k \in 1 .. n : q[k] = e
                     THEN Share(t, n, CHOOSE k \in 1 .. n : q[k] = e)
                     ELSE landed[e]]
    BY <1>2 DEF Allocate, q, t
  <2>4. landed'[q[i]] = Share(t, n, i)
    BY <2>1, <2>2, <2>3
  <2>5. QED
    BY <2>4 DEF q
<1> HIDE DEF t
<1>5. QED
  BY <1>1, <1>3, <1>4, SharesOnUnits DEF t

LEMMA AllocateInv ==
    ASSUME CostsAssumption, CostsInv, NEW a \in Accountants, Allocate(a) PROVE CostsInv'
<1>1. CostsTypes'
  BY DEF CostsInv, CostsTypes, Allocate
<1>2. ASSUME NEW b \in Accountants PROVE HasRead(allocating[b])'
  <2>1. CASE b = a
    BY <2>1 DEF CostsInv, CostsTypes, HasRead, Allocate, NotAllocating
  <2>2. CASE b # a
    BY <2>2 DEF CostsInv, CostsTypes, HasRead, Allocate
  <2>3. QED
    BY <2>1, <2>2
<1>3. SharesAddUp'
  <2> SUFFICES ASSUME settled'
               PROVE  /\ SumFunctionOnSet(landed', received') = TotalCents(component')
                      /\ \A d, e \in received' : d < e => landed'[d] - landed'[e] \in {0, 1}
    BY DEF SharesAddUp, TotalCents
  <2>1. /\ received' = received /\ component' = component
        /\ allocating[a].units = InOrder(received)
        /\ allocating[a].total = TotalCents(component)
    BY DEF Allocate
  <2>2. received # {}
    BY DEF CostsInv, HasRead, Allocate
  <2>3. QED
    BY <2>1, <2>2, AllocationAddsUp
<1>4. QED
  BY <1>1, <1>2, <1>3 DEF CostsInv

LEMMA CostsStep == ASSUME CostsAssumption, CostsInv, [CostsNext]_costVars PROVE CostsInv'
<1>1. CASE \E e \in Engines : ReceiveUnit(e)
  BY <1>1, ReceiveUnitInv
<1>2. CASE \E c \in Components, cost \in Costs : SetComponent(c, cost)
  BY <1>2, SetComponentInv
<1>3. CASE \E a \in Accountants : ReadComponents(a) \/ ReadUnits(a) \/ Allocate(a)
  BY <1>3, ReadComponentsInv, ReadUnitsInv, AllocateInv
<1>4. CASE UNCHANGED costVars
  BY <1>4 DEF costVars, CostsInv, CostsTypes, HasRead, SharesAddUp, TotalCents
<1>5. QED
  BY <1>1, <1>2, <1>3, <1>4 DEF CostsNext

(* Whatever is received and whatever it cost, and however many accountants  *)
(* allocate it at the same time: once an allocation of what is current is   *)
(* written, the shares on the units sum back to the landed costs, to the    *)
(* cent, and the first units by engine number carry the odd cents.          *)
THEOREM SharesSumBack == CostsSpec => []SharesAddUp
<1>1. CostsAssumption => (CostsSpec => []CostsInv)
  <2> SUFFICES ASSUME CostsAssumption PROVE CostsSpec => []CostsInv
    OBVIOUS
  <2>1. CostsInit => CostsInv
    BY CostsInitInv
  <2>2. CostsInv /\ [CostsNext]_costVars => CostsInv'
    BY CostsStep
  <2>3. QED
    BY <2>1, <2>2, PTL DEF CostsSpec
<1>2. CostsInv => SharesAddUp
  BY DEF CostsInv
<1>3. QED
  BY <1>1, <1>2, CostsAssumption, PTL

-------------------------------------------------------------------------------
(* Edits, letter by letter.                                                 *)

(* t is s without its p-th letter.                                          *)
Deletes(s, t, p) ==
    /\ Len(s) = Len(t) + 1
    /\ \A q \in 1 .. Len(t) : t[q] = IF q < p THEN s[q] ELSE s[q + 1]

Substitutes(s, t, p) ==
    /\ Len(s) = Len(t)
    /\ \A q \in 1 .. Len(t) : q # p => t[q] = s[q]

LEMMA Strung ==
    ASSUME NEW s \in Seq(Letters)
    PROVE  /\ Len(s) \in Nat /\ DOMAIN s = 1 .. Len(s)
           /\ \A i \in 1 .. Len(s) : s[i] \in Letters
BY LenProperties

LEMMA OfLetters ==
    ASSUME NEW n \in Nat, NEW s \in [1 .. n -> Letters]
    PROVE  s \in Seq(Letters) /\ Len(s) = n
<1>1. s \in Seq(Letters)
  BY SeqDef
<1>2. DOMAIN s = 1 .. n /\ DOMAIN s = 1 .. Len(s) /\ Len(s) \in Nat
  BY <1>1, Strung
<1>3. Len(s) = n
  <2>1. \A i \in Nat : i \in 1 .. n <=> i \in 1 .. Len(s)
    BY <1>2
  <2>2. n >= 1 => n <= Len(s)
    BY <2>1
  <2>3. Len(s) >= 1 => Len(s) <= n
    BY <1>2, <2>1
  <2>4. QED
    BY <1>2, <2>2, <2>3
<1>4. QED
  BY <1>1, <1>3

LEMMA Deletion ==
    ASSUME NEW s \in Seq(Letters), NEW p \in 1 .. Len(s)
    PROVE  RemoveAt(s, p) \in Seq(Letters) /\ Deletes(s, RemoveAt(s, p), p)
<1> DEFINE u == SubSeq(s, 1, p - 1)
           v == SubSeq(s, p + 1, Len(s))
           w == u \o v
<1>1. Len(s) \in Nat /\ p \in Nat /\ p >= 1 /\ p <= Len(s)
  BY Strung
<1>2. u \in Seq(Letters) /\ Len(u) = p - 1 /\ \A i \in 1 .. p - 1 : u[i] = s[i]
  BY <1>1, Strung, SubSeqProperties
<1>3. v \in Seq(Letters) /\ Len(v) = Len(s) - p /\ \A i \in 1 .. Len(s) - p : v[i] = s[p + i]
  BY <1>1, Strung, SubSeqProperties
<1> HIDE DEF u, v
<1>4. /\ w \in Seq(Letters) /\ Len(w) = Len(u) + Len(v)
      /\ \A i \in 1 .. Len(u) + Len(v) : w[i] = IF i <= Len(u) THEN u[i] ELSE v[i - Len(u)]
  BY <1>2, <1>3, ConcatProperties
<1> HIDE DEF w
<1>5. Len(w) = Len(s) - 1
  BY <1>1, <1>2, <1>3, <1>4
<1>6. ASSUME NEW i \in 1 .. Len(w) PROVE w[i] = IF i < p THEN s[i] ELSE s[i + 1]
  <2>1. i \in Nat /\ i >= 1 /\ i <= Len(s) - 1 /\ i \in 1 .. Len(u) + Len(v)
    BY <1>1, <1>4, <1>5
  <2>2. CASE i < p
    <3>1. i \in 1 .. p - 1 /\ i <= Len(u)
      BY <1>1, <1>2, <2>1, <2>2
    <3>2. w[i] = u[i] /\ u[i] = s[i]
      BY <1>2, <1>4, <2>1, <3>1
    <3>3. QED
      BY <2>2, <3>2
  <2>3. CASE ~(i < p)
    <3>1. i - (p - 1) \in 1 .. Len(s) - p /\ p + (i - (p - 1)) = i + 1
      BY <1>1, <2>1, <2>3
    <3>2. w[i] = v[i - (p - 1)]
      BY <1>1, <1>2, <1>4, <2>1, <2>3
    <3>3. QED
      BY <1>3, <2>3, <3>1, <3>2
  <2>4. QED
    BY <2>2, <2>3
<1>7. RemoveAt(s, p) = w
  BY DEF RemoveAt, w, u, v
<1>8. Len(s) = Len(w) + 1
  BY <1>1, <1>5
<1>9. QED
  BY <1>4, <1>6, <1>7, <1>8 DEF Deletes

LEMMA Insertion ==
    ASSUME NEW s \in Seq(Letters), NEW p \in 1 .. Len(s) + 1, NEW c \in Letters
    PROVE  /\ InsertAt(s, p, c) \in Seq(Letters)
           /\ Deletes(InsertAt(s, p, c), s, p) /\ InsertAt(s, p, c)[p] = c
<1> DEFINE u == SubSeq(s, 1, p - 1)
           v == SubSeq(s, p, Len(s))
           w == u \o <<c>>
           x == w \o v
<1>1. Len(s) \in Nat /\ p \in Nat /\ p >= 1 /\ p <= Len(s) + 1
  BY Strung
<1>2. u \in Seq(Letters) /\ Len(u) = p - 1 /\ \A i \in 1 .. p - 1 : u[i] = s[i]
  BY <1>1, Strung, SubSeqProperties
<1>3. /\ v \in Seq(Letters) /\ Len(v) = Len(s) - p + 1
      /\ \A i \in 1 .. Len(s) - p + 1 : v[i] = s[p + i - 1]
  BY <1>1, Strung, SubSeqProperties
<1> HIDE DEF u, v
<1>4. <<c>> \in Seq(Letters) /\ Len(<<c>>) = 1 /\ <<c>>[1] = c
  OBVIOUS
<1>5. /\ w \in Seq(Letters) /\ Len(w) = Len(u) + Len(<<c>>)
      /\ \A i \in 1 .. Len(u) + Len(<<c>>) : w[i] = IF i <= Len(u) THEN u[i] ELSE <<c>>[i - Len(u)]
  BY <1>2, <1>4, ConcatProperties
<1> HIDE DEF w
<1>6. /\ Len(w) = p
      /\ \A i \in 1 .. p : w[i] = IF i < p THEN s[i] ELSE c
  <2>1. ASSUME NEW i \in 1 .. p PROVE w[i] = IF i < p THEN s[i] ELSE c
    <3>1. i \in Nat /\ i >= 1 /\ (i < p \/ i = p)
      BY <1>1
    <3>2. QED
      BY <1>1, <1>2, <1>4, <1>5, <3>1
  <2>2. QED
    BY <1>1, <1>2, <1>4, <1>5, <2>1
<1>7. /\ x \in Seq(Letters) /\ Len(x) = Len(w) + Len(v)
      /\ \A i \in 1 .. Len(w) + Len(v) : x[i] = IF i <= Len(w) THEN w[i] ELSE v[i - Len(w)]
  <2>1. w \in Seq(Letters) /\ v \in Seq(Letters)
    BY <1>3, <1>5
  <2>2. QED
    BY <2>1, ConcatProperties
<1> HIDE DEF x
<1>8. Len(x) = Len(s) + 1
  BY <1>1, <1>3, <1>6, <1>7
<1>9. x[p] = c
  BY <1>1, <1>6, <1>7, <1>8
<1>10. ASSUME NEW i \in 1 .. Len(s) PROVE s[i] = IF i < p THEN x[i] ELSE x[i + 1]
  <2>1. /\ i \in Nat /\ i >= 1 /\ i <= Len(s)
        /\ i \in 1 .. Len(w) + Len(v) /\ i + 1 \in 1 .. Len(w) + Len(v)
    BY <1>1, <1>7, <1>8
  <2>2. CASE i < p
    BY <1>1, <1>6, <1>7, <2>1, <2>2
  <2>3. CASE ~(i < p)
    <3>1. (i + 1) - p \in 1 .. Len(s) - p + 1 /\ p + ((i + 1) - p) - 1 = i
      BY <1>1, <2>1, <2>3
    <3>2. x[i + 1] = v[(i + 1) - p]
      BY <1>1, <1>6, <1>7, <2>1, <2>3
    <3>3. QED
      BY <1>3, <2>3, <3>1, <3>2
  <2>4. QED
    BY <2>2, <2>3
<1>11. InsertAt(s, p, c) = x
  BY DEF InsertAt, x, w, u, v
<1>12. QED
  BY <1>7, <1>8, <1>9, <1>10, <1>11 DEF Deletes

LEMMA EditsByLetter ==
    ASSUME NEW s \in Seq(Letters), NEW t \in EditsOf(s)
    PROVE  /\ t \in Seq(Letters)
           /\ \/ \E p \in 1 .. Len(s) : Deletes(s, t, p) \/ Substitutes(s, t, p)
              \/ \E p \in 1 .. Len(s) + 1 : Deletes(t, s, p)
<1>1. ASSUME NEW i \in DOMAIN s, t = RemoveAt(s, i)
      PROVE  t \in Seq(Letters) /\ \E p \in 1 .. Len(s) : Deletes(s, t, p)
  BY <1>1, Strung, Deletion
<1>2. ASSUME NEW i \in DOMAIN s, NEW c \in Letters, t = ReplaceAt(s, i, c)
      PROVE  t \in Seq(Letters) /\ \E p \in 1 .. Len(s) : Substitutes(s, t, p)
  <2>1. t \in Seq(Letters) /\ Len(t) = Len(s) /\ \A q \in 1 .. Len(s) : q # i => t[q] = s[q]
    BY <1>2, Strung DEF ReplaceAt
  <2>2. QED
    BY <2>1, Strung DEF Substitutes
<1>3. ASSUME NEW i \in 1 .. Len(s) + 1, NEW c \in Letters, t = InsertAt(s, i, c)
      PROVE  t \in Seq(Letters) /\ \E p \in 1 .. Len(s) + 1 : Deletes(t, s, p)
  BY <1>3, Insertion
<1>4. QED
  BY <1>1, <1>2, <1>3 DEF EditsOf

LEMMA LettersMakeEdits ==
    ASSUME NEW s \in Seq(Letters), NEW t \in Seq(Letters), NEW p
    PROVE  /\ p \in 1 .. Len(s) /\ Deletes(s, t, p) => t \in EditsOf(s)
           /\ p \in 1 .. Len(s) /\ Substitutes(s, t, p) => t \in EditsOf(s)
           /\ p \in 1 .. Len(s) + 1 /\ Deletes(t, s, p) => t \in EditsOf(s)
<1>1. /\ DOMAIN s = 1 .. Len(s) /\ Len(s) \in Nat /\ Len(t) \in Nat
      /\ \A i \in 1 .. Len(t) : t[i] \in Letters
  BY Strung
<1>2. ASSUME p \in 1 .. Len(s), Deletes(s, t, p) PROVE t \in EditsOf(s)
  <2> DEFINE d == RemoveAt(s, p)
  <2>1. d \in Seq(Letters) /\ Deletes(s, d, p)
    BY <1>2, Deletion
  <2>2. d \in EditsOf(s)
    BY <1>1, <1>2 DEF EditsOf
  <2> HIDE DEF d
  <2>3. Len(d) \in Nat
    BY <2>1, Strung
  <2>4. Len(d) = Len(t) /\ \A i \in 1 .. Len(d) : d[i] = t[i]
    BY <1>1, <1>2, <2>1, <2>3 DEF Deletes
  <2>5. d = t
    BY <2>1, <2>4, SeqEqual
  <2>6. QED
    BY <2>2, <2>5
<1>3. ASSUME p \in 1 .. Len(s), Substitutes(s, t, p) PROVE t \in EditsOf(s)
  <2> DEFINE d == ReplaceAt(s, p, t[p])
  <2>1. p \in 1 .. Len(t) /\ t[p] \in Letters
    BY <1>1, <1>3 DEF Substitutes
  <2>2. d \in EditsOf(s)
    BY <1>1, <1>3, <2>1 DEF EditsOf
  <2>3. d \in Seq(Letters) /\ Len(d) = Len(s) /\ \A i \in 1 .. Len(s) : d[i] = t[i]
    BY <1>1, <1>3, <2>1 DEF Substitutes, ReplaceAt
  <2> HIDE DEF d
  <2>4. d = t
    BY <1>3, <2>3, SeqEqual DEF Substitutes
  <2>5. QED
    BY <2>2, <2>4
<1>4. ASSUME p \in 1 .. Len(s) + 1, Deletes(t, s, p) PROVE t \in EditsOf(s)
  <2> DEFINE c == t[p]
             d == InsertAt(s, p, c)
  <2>1. Len(t) = Len(s) + 1 /\ c \in Letters
    BY <1>1, <1>4 DEF Deletes
  <2> HIDE DEF c
  <2>2. d \in Seq(Letters) /\ Deletes(d, s, p) /\ d[p] = c
    BY <1>4, <2>1, Insertion
  <2>3. d \in EditsOf(s)
    BY <1>4, <2>1 DEF EditsOf
  <2> HIDE DEF d
  <2>4. Len(d) = Len(t)
    BY <2>1, <2>2 DEF Deletes
  <2>5. ASSUME NEW i \in 1 .. Len(d) PROVE d[i] = t[i]
    <3>1. i \in Nat /\ i >= 1 /\ i <= Len(s) + 1 /\ p \in Nat /\ p >= 1
      BY <1>1, <1>4, <2>1, <2>4
    <3>2. CASE i < p
      <4>1. i \in 1 .. Len(s)
        BY <1>1, <1>4, <3>1, <3>2
      <4>2. s[i] = t[i] /\ s[i] = d[i]
        BY <1>4, <2>2, <3>2, <4>1 DEF Deletes
      <4>3. QED
        BY <4>2
    <3>3. CASE i = p
      BY <2>2, <3>3 DEF c
    <3>4. CASE i > p
      <4>1. i - 1 \in 1 .. Len(s) /\ ~(i - 1 < p) /\ (i - 1) + 1 = i
        BY <1>1, <3>1, <3>4
      <4>2. s[i - 1] = t[i] /\ s[i - 1] = d[i]
        BY <1>4, <2>2, <4>1 DEF Deletes
      <4>3. QED
        BY <4>2
    <3>5. QED
      BY <3>1, <3>2, <3>3, <3>4
  <2>6. d = t
    BY <2>2, <2>4, <2>5, SeqEqual
  <2>7. QED
    BY <2>3, <2>6
<1>5. QED
  BY <1>2, <1>3, <1>4

-------------------------------------------------------------------------------
(* A plan goes through both strings from left to right.  Plan(S, i, j, k)   *)
(* says that it takes the first i letters of one to the first j of the      *)
(* other with at most k edits; Plans(a, b) is the least set of plans.       *)

Triples == Nat \X Nat \X Nat
Plan(S, i, j, k) == <<i, j, k>> \in S

Diagonal(a, b, i, j) == IF a[i + 1] = b[j + 1] THEN 0 ELSE 1

Closed(S, a, b) ==
    /\ \A k \in Nat : Plan(S, 0, 0, k)
    /\ \A i, j, k \in Nat : Plan(S, i, j, k) =>
          /\ i < Len(a) => Plan(S, i + 1, j, k + 1)
          /\ j < Len(b) => Plan(S, i, j + 1, k + 1)
          /\ i < Len(a) /\ j < Len(b) => Plan(S, i + 1, j + 1, k + Diagonal(a, b, i, j))

Plans(a, b) == {x \in Triples : \A S \in SUBSET Triples : Closed(S, a, b) => x \in S}

LEMMA DiagonalType ==
    ASSUME NEW a, NEW b, NEW i, NEW j PROVE Diagonal(a, b, i, j) \in {0, 1}
BY DEF Diagonal

LEMMA ClosedSteps ==
    ASSUME NEW a, NEW b, NEW S, Closed(S, a, b),
           NEW i \in Nat, NEW j \in Nat, NEW k \in Nat, Plan(S, i, j, k)
    PROVE  /\ i < Len(a) => Plan(S, i + 1, j, k + 1)
           /\ j < Len(b) => Plan(S, i, j + 1, k + 1)
           /\ i < Len(a) /\ j < Len(b) => Plan(S, i + 1, j + 1, k + Diagonal(a, b, i, j))
BY Zenon DEF Closed

LEMMA PlansClosed == ASSUME NEW a, NEW b PROVE Closed(Plans(a, b), a, b)
<1>1. ASSUME NEW k \in Nat PROVE Plan(Plans(a, b), 0, 0, k)
  BY DEF Plan, Plans, Closed, Triples
<1>2. ASSUME NEW i \in Nat, NEW j \in Nat, NEW k \in Nat, Plan(Plans(a, b), i, j, k)
      PROVE  /\ i < Len(a) => Plan(Plans(a, b), i + 1, j, k + 1)
             /\ j < Len(b) => Plan(Plans(a, b), i, j + 1, k + 1)
             /\ i < Len(a) /\ j < Len(b) => Plan(Plans(a, b), i + 1, j + 1, k + Diagonal(a, b, i, j))
  <2> DEFINE c == Diagonal(a, b, i, j)
  <2>1. /\ <<i + 1, j, k + 1>> \in Triples /\ <<i, j + 1, k + 1>> \in Triples
        /\ <<i + 1, j + 1, k + c>> \in Triples
    <3>1. c \in {0, 1}
      BY DiagonalType
    <3> HIDE DEF c
    <3>2. QED
      BY <3>1 DEF Triples
  <2>2. ASSUME NEW S \in SUBSET Triples, Closed(S, a, b)
        PROVE  /\ i < Len(a) => Plan(S, i + 1, j, k + 1)
               /\ j < Len(b) => Plan(S, i, j + 1, k + 1)
               /\ i < Len(a) /\ j < Len(b) => Plan(S, i + 1, j + 1, k + c)
    <3>1. Plan(S, i, j, k)
      BY <1>2, <2>2 DEF Plan, Plans
    <3>2. QED
      BY <2>2, <3>1, ClosedSteps
  <2> HIDE DEF c
  <2>3. ASSUME i < Len(a) PROVE Plan(Plans(a, b), i + 1, j, k + 1)
    BY <2>1, <2>2, <2>3 DEF Plan, Plans
  <2>4. ASSUME j < Len(b) PROVE Plan(Plans(a, b), i, j + 1, k + 1)
    BY <2>1, <2>2, <2>4 DEF Plan, Plans
  <2>5. ASSUME i < Len(a), j < Len(b) PROVE Plan(Plans(a, b), i + 1, j + 1, k + c)
    BY <2>1, <2>2, <2>5 DEF Plan, Plans
  <2>6. QED
    BY <2>3, <2>4, <2>5 DEF c
<1>3. QED
  BY <1>1, <1>2 DEF Closed

LEMMA PlansLeast ==
    ASSUME NEW a, NEW b, NEW S \in SUBSET Triples, Closed(S, a, b)
    PROVE  Plans(a, b) \subseteq S
BY DEF Plan, Plans

(* With one edit to spare.                                                  *)
LEMMA PlansGrow ==
    ASSUME NEW a, NEW b, NEW i \in Nat, NEW j \in Nat, NEW k \in Nat, Plan(Plans(a, b), i, j, k)
    PROVE  Plan(Plans(a, b), i, j, k + 1)
<1> DEFINE R == Plans(a, b)
           S == {x \in Triples : Plan(R, x[1], x[2], x[3] + 1)}
<1>1. Closed(R, a, b)
  BY PlansClosed
<1> HIDE DEF R
<1>2. \A l, m, n \in Nat : Plan(S, l, m, n) <=> Plan(R, l, m, n + 1)
  BY DEF Plan, Triples
<1>3. S \in SUBSET Triples
  OBVIOUS
<1> HIDE DEF S
<1>4. Closed(S, a, b)
  <2>1. ASSUME NEW n \in Nat PROVE Plan(S, 0, 0, n)
    <3>1. n + 1 \in Nat /\ \A m \in Nat : Plan(R, 0, 0, m)
      BY <1>1 DEF Closed
    <3>2. QED
      BY <1>2, <3>1
  <2>2. ASSUME NEW l \in Nat, NEW m \in Nat, NEW n \in Nat, Plan(S, l, m, n)
        PROVE  /\ l < Len(a) => Plan(S, l + 1, m, n + 1)
               /\ m < Len(b) => Plan(S, l, m + 1, n + 1)
               /\ l < Len(a) /\ m < Len(b) => Plan(S, l + 1, m + 1, n + Diagonal(a, b, l, m))
    <3> DEFINE c == Diagonal(a, b, l, m)
    <3>1. c \in {0, 1}
      BY DiagonalType
    <3>2. Plan(R, l, m, n + 1)
      BY <1>2, <2>2
    <3>3. /\ l < Len(a) => Plan(R, l + 1, m, (n + 1) + 1)
          /\ m < Len(b) => Plan(R, l, m + 1, (n + 1) + 1)
          /\ l < Len(a) /\ m < Len(b) => Plan(R, l + 1, m + 1, (n + 1) + c)
      <4>1. n + 1 \in Nat
        OBVIOUS
      <4>2. QED
        BY <1>1, <3>2, <4>1, ClosedSteps
    <3> HIDE DEF c
    <3>4. /\ l + 1 \in Nat /\ m + 1 \in Nat /\ n + 1 \in Nat
          /\ n + c \in Nat /\ (n + 1) + c = (n + c) + 1
      BY <3>1
    <3>5. /\ l < Len(a) => Plan(S, l + 1, m, n + 1)
          /\ m < Len(b) => Plan(S, l, m + 1, n + 1)
          /\ l < Len(a) /\ m < Len(b) => Plan(S, l + 1, m + 1, n + c)
      BY <1>2, <3>3, <3>4
    <3>6. QED
      BY <3>5 DEF c
  <2>3. QED
    BY <2>1, <2>2 DEF Closed
<1>5. R \subseteq S
  BY <1>3, <1>4, PlansLeast DEF R
<1>6. Plan(R, i, j, k) => Plan(S, i, j, k)
  BY <1>5 DEF Plan
<1>7. QED
  BY <1>2, <1>6 DEF R

(* Every plan has a last edit.                                              *)
LastEdit(a, b, i, j, k) ==
    \/ i = 0 /\ j = 0
    \/ i > 0 /\ i <= Len(a) /\ k > 0 /\ Plan(Plans(a, b), i - 1, j, k - 1)
    \/ j > 0 /\ j <= Len(b) /\ k > 0 /\ Plan(Plans(a, b), i, j - 1, k - 1)
    \/ /\ i > 0 /\ i <= Len(a) /\ j > 0 /\ j <= Len(b)
       /\ k >= Diagonal(a, b, i - 1, j - 1)
       /\ Plan(Plans(a, b), i - 1, j - 1, k - Diagonal(a, b, i - 1, j - 1))

LEMMA PlansEnd ==
    ASSUME NEW a, NEW b, Len(a) \in Nat, Len(b) \in Nat,
           NEW i \in Nat, NEW j \in Nat, NEW k \in Nat, Plan(Plans(a, b), i, j, k)
    PROVE  LastEdit(a, b, i, j, k)
<1> DEFINE R == Plans(a, b)
           S == {x \in Triples : Plan(R, x[1], x[2], x[3]) /\ LastEdit(a, b, x[1], x[2], x[3])}
<1>1. Closed(R, a, b)
  BY PlansClosed
<1> HIDE DEF R
<1>2. \A l, m, n \in Nat : Plan(S, l, m, n) <=> Plan(R, l, m, n) /\ LastEdit(a, b, l, m, n)
  BY DEF Plan, Triples
<1>3. S \in SUBSET Triples
  OBVIOUS
<1> HIDE DEF S
<1>4. Closed(S, a, b)
  <2>1. ASSUME NEW n \in Nat PROVE Plan(S, 0, 0, n)
    BY <1>1, <1>2 DEF Closed, LastEdit
  <2>2. ASSUME NEW l \in Nat, NEW m \in Nat, NEW n \in Nat, Plan(S, l, m, n)
        PROVE  /\ l < Len(a) => Plan(S, l + 1, m, n + 1)
               /\ m < Len(b) => Plan(S, l, m + 1, n + 1)
               /\ l < Len(a) /\ m < Len(b) => Plan(S, l + 1, m + 1, n + Diagonal(a, b, l, m))
    <3> DEFINE c == Diagonal(a, b, l, m)
    <3>1. c \in {0, 1}
      BY DiagonalType
    <3>2. Plan(R, l, m, n)
      BY <1>2, <2>2
    <3>3. /\ l < Len(a) => Plan(R, l + 1, m, n + 1)
          /\ m < Len(b) => Plan(R, l, m + 1, n + 1)
          /\ l < Len(a) /\ m < Len(b) => Plan(R, l + 1, m + 1, n + c)
      BY <1>1, <3>2, ClosedSteps
    <3>4. ASSUME l < Len(a) PROVE LastEdit(a, b, l + 1, m, n + 1)
      <4>1. l + 1 > 0 /\ l + 1 <= Len(a) /\ n + 1 > 0 /\ (l + 1) - 1 = l /\ (n + 1) - 1 = n
        BY <3>4
      <4>2. QED
        BY <3>2, <4>1 DEF LastEdit, R
    <3>5. ASSUME m < Len(b) PROVE LastEdit(a, b, l, m + 1, n + 1)
      <4>1. m + 1 > 0 /\ m + 1 <= Len(b) /\ n + 1 > 0 /\ (m + 1) - 1 = m /\ (n + 1) - 1 = n
        BY <3>5
      <4>2. QED
        BY <3>2, <4>1 DEF LastEdit, R
    <3>6. ASSUME l < Len(a), m < Len(b) PROVE LastEdit(a, b, l + 1, m + 1, n + c)
      <4>1. /\ l + 1 > 0 /\ l + 1 <= Len(a) /\ (l + 1) - 1 = l
            /\ m + 1 > 0 /\ m + 1 <= Len(b) /\ (m + 1) - 1 = m
        BY <3>6
      <4> HIDE DEF c
      <4>2. n + c >= c /\ (n + c) - c = n
        BY <3>1
      <4>3. QED
        BY <3>2, <4>1, <4>2 DEF LastEdit, c, R
    <3> HIDE DEF c
    <3>7. n + c \in Nat
      BY <3>1
    <3>8. QED
      BY <1>2, <3>3, <3>4, <3>5, <3>6, <3>7 DEF c
  <2>3. QED
    BY <2>1, <2>2 DEF Closed
<1>5. R \subseteq S
  BY <1>3, <1>4, PlansLeast DEF R
<1>6. Plan(R, i, j, k) => Plan(S, i, j, k)
  BY <1>5 DEF Plan
<1>7. QED
  BY <1>2, <1>6 DEF R

-------------------------------------------------------------------------------
(* One edit of the second string costs a plan one edit more.                *)

(* When the p-th letter is deleted from the second string,                  *)
LEMMA PlanWithout ==
    ASSUME NEW a, NEW t \in Seq(Letters), NEW u \in Seq(Letters),
           NEW p \in 1 .. Len(t), Deletes(t, u, p),
           NEW i \in Nat, NEW k \in Nat, Plan(Plans(a, t), i, Len(t), k)
    PROVE  Plan(Plans(a, u), i, Len(u), k + 1)
<1> DEFINE R == Plans(a, u)
           S == {x \in Triples : /\ x[2] < p => Plan(R, x[1], x[2], x[3])
                                 /\ x[2] >= p => Plan(R, x[1], x[2] - 1, x[3] + 1)}
<1>1. Closed(R, a, u)
  BY PlansClosed
<1>10. \A l, m, n \in Nat : Plan(R, l, m, n) => Plan(R, l, m, n + 1)
  BY PlansGrow
<1> HIDE DEF R
<1>2. /\ Len(t) \in Nat /\ Len(u) \in Nat /\ Len(t) = Len(u) + 1
      /\ p \in Nat /\ p >= 1 /\ p <= Len(t)
      /\ \A q \in 1 .. Len(u) : u[q] = IF q < p THEN t[q] ELSE t[q + 1]
  BY Strung DEF Deletes
<1>3. \A l, m, n \in Nat : Plan(S, l, m, n) <=>
         /\ m < p => Plan(R, l, m, n)
         /\ m >= p => Plan(R, l, m - 1, n + 1)
  BY DEF Plan, Triples
<1>4. S \in SUBSET Triples
  OBVIOUS
<1> HIDE DEF S
<1>5. ASSUME NEW n \in Nat PROVE Plan(S, 0, 0, n)
  BY <1>1, <1>2, <1>3 DEF Closed
<1>6. ASSUME NEW l \in Nat, NEW m \in Nat, NEW n \in Nat, Plan(S, l, m, n)
      PROVE  /\ l < Len(a) => Plan(S, l + 1, m, n + 1)
             /\ m < Len(t) => Plan(S, l, m + 1, n + 1)
             /\ l < Len(a) /\ m < Len(t) => Plan(S, l + 1, m + 1, n + Diagonal(a, t, l, m))
  <2> DEFINE c == Diagonal(a, t, l, m)
  <2>1. c \in {0, 1} /\ n + c \in Nat
    <3>1. c \in {0, 1}
      BY DiagonalType
    <3> HIDE DEF c
    <3>2. QED
      BY <3>1
  <2>2. CASE m < p
    <3>1. Plan(R, l, m, n)
      BY <1>3, <1>6, <2>2
    <3>2. /\ l < Len(a) => Plan(R, l + 1, m, n + 1)
          /\ m < Len(u) => Plan(R, l, m + 1, n + 1)
          /\ l < Len(a) /\ m < Len(u) => Plan(R, l + 1, m + 1, n + Diagonal(a, u, l, m))
      BY <1>1, <3>1, ClosedSteps
    <3>3. ASSUME l < Len(a) PROVE Plan(S, l + 1, m, n + 1)
      <4>1. ~(m >= p) /\ l + 1 \in Nat /\ n + 1 \in Nat
        BY <1>2, <2>2
      <4>2. QED
        BY <1>3, <3>2, <3>3, <4>1
    <3>4. ASSUME m + 1 < p, l < Len(a) PROVE Plan(S, l + 1, m + 1, n + c)
      <4>1. m + 1 \in 1 .. Len(u) /\ m < Len(u) /\ u[m + 1] = t[m + 1]
        BY <1>2, <3>4
      <4>2. Diagonal(a, u, l, m) = c
        BY <4>1 DEF Diagonal
      <4> HIDE DEF c
      <4>3. QED
        BY <1>2, <1>3, <2>1, <3>2, <3>4, <4>1, <4>2
    <3>5. ASSUME m + 1 < p PROVE Plan(S, l, m + 1, n + 1)
      <4>1. m < Len(u) /\ m + 1 \in Nat /\ n + 1 \in Nat /\ ~(m + 1 >= p)
        BY <1>2, <3>5
      <4>2. QED
        BY <1>2, <1>3, <3>2, <3>5, <4>1
    <3>6. ASSUME m + 1 = p PROVE Plan(S, l, m + 1, n + 1)
      <4>1. Plan(R, l, m, n + 1)
        BY <1>10, <3>1
      <4>2. Plan(R, l, m, (n + 1) + 1)
        BY <1>10, <4>1
      <4>3. (m + 1) - 1 = m /\ m + 1 >= p /\ ~(m + 1 < p)
        BY <1>2, <3>6
      <4>4. QED
        BY <1>3, <4>2, <4>3
    <3>7. ASSUME m + 1 = p, l < Len(a) PROVE Plan(S, l + 1, m + 1, n + c)
      <4>1. Plan(R, l + 1, m, n + 1)
        BY <3>2, <3>7
      <4>2. Plan(R, l + 1, m, (n + 1) + 1)
        BY <1>10, <4>1
      <4>3. (m + 1) - 1 = m /\ m + 1 >= p /\ ~(m + 1 < p)
        BY <1>2, <3>7
      <4> HIDE DEF c
      <4>4. Plan(R, l + 1, m, (n + c) + 1)
        BY <2>1, <4>1, <4>2
      <4>5. QED
        BY <1>3, <2>1, <4>3, <4>4
    <3> HIDE DEF c
    <3>8. m + 1 < p \/ m + 1 = p
      BY <1>2, <2>2
    <3>9. QED
      BY <3>3, <3>4, <3>5, <3>6, <3>7, <3>8 DEF c
  <2>3. CASE m >= p
    <3>1. Plan(R, l, m - 1, n + 1) /\ m - 1 \in Nat /\ (m - 1) + 1 = m
      BY <1>2, <1>3, <1>6, <2>3
    <3>2. /\ l < Len(a) => Plan(R, l + 1, m - 1, (n + 1) + 1)
          /\ m - 1 < Len(u) => Plan(R, l, m, (n + 1) + 1)
          /\ l < Len(a) /\ m - 1 < Len(u) =>
                Plan(R, l + 1, m, (n + 1) + Diagonal(a, u, l, m - 1))
      BY <1>1, <3>1, ClosedSteps
    <3>3. ASSUME l < Len(a) PROVE Plan(S, l + 1, m, n + 1)
      <4>1. ~(m < p) /\ l + 1 \in Nat /\ n + 1 \in Nat
        BY <1>2, <2>3
      <4>2. QED
        BY <1>3, <2>3, <3>2, <3>3, <4>1
    <3>4. ASSUME m < Len(t)
          PROVE  /\ m - 1 < Len(u) /\ m + 1 >= p /\ ~(m + 1 < p) /\ (m + 1) - 1 = m
                 /\ Diagonal(a, u, l, m - 1) = c
      <4>1. m \in 1 .. Len(u) /\ u[m] = t[m + 1]
        BY <1>2, <2>3, <3>4
      <4>2. QED
        BY <1>2, <2>3, <3>1, <3>4, <4>1 DEF Diagonal
    <3>5. ASSUME m < Len(t) PROVE Plan(S, l, m + 1, n + 1)
      BY <1>3, <3>2, <3>4, <3>5
    <3>6. ASSUME l < Len(a), m < Len(t) PROVE Plan(S, l + 1, m + 1, n + c)
      <4> HIDE DEF c
      <4>1. (n + 1) + c = (n + c) + 1
        BY <2>1
      <4>2. QED
        BY <1>3, <2>1, <3>2, <3>4, <3>6, <4>1
    <3>7. QED
      BY <3>3, <3>5, <3>6
  <2>4. QED
    BY <1>2, <2>2, <2>3
<1>7. Plans(a, t) \subseteq S
  <2>1. Closed(S, a, t)
    BY <1>5, <1>6 DEF Closed
  <2>2. QED
    BY <1>4, <2>1, PlansLeast
<1>8. Plan(S, i, Len(t), k)
  BY <1>7 DEF Plan
<1>9. QED
  BY <1>2, <1>3, <1>8 DEF R

(* when one is inserted there,                                              *)
LEMMA PlanWith ==
    ASSUME NEW a, NEW t \in Seq(Letters), NEW u \in Seq(Letters),
           NEW p \in 1 .. Len(t) + 1, Deletes(u, t, p),
           NEW i \in Nat, NEW k \in Nat, Plan(Plans(a, t), i, Len(t), k)
    PROVE  Plan(Plans(a, u), i, Len(u), k + 1)
<1> DEFINE R == Plans(a, u)
           S == {x \in Triples : /\ x[2] < p => Plan(R, x[1], x[2], x[3])
                                 /\ x[2] + 1 >= p => Plan(R, x[1], x[2] + 1, x[3] + 1)}
<1>1. Closed(R, a, u)
  BY PlansClosed
<1> HIDE DEF R
<1>2. /\ Len(t) \in Nat /\ Len(u) \in Nat /\ Len(u) = Len(t) + 1
      /\ p \in Nat /\ p >= 1 /\ p <= Len(t) + 1
      /\ \A q \in 1 .. Len(t) : t[q] = IF q < p THEN u[q] ELSE u[q + 1]
  BY Strung DEF Deletes
<1>3. \A l, m, n \in Nat : Plan(S, l, m, n) <=>
         /\ m < p => Plan(R, l, m, n)
         /\ m + 1 >= p => Plan(R, l, m + 1, n + 1)
  BY DEF Plan, Triples
<1>4. S \in SUBSET Triples
  OBVIOUS
<1> HIDE DEF S
<1>5. ASSUME NEW n \in Nat PROVE Plan(S, 0, 0, n)
  <2>1. Plan(R, 0, 0, n)
    BY <1>1 DEF Closed
  <2>2. Plan(R, 0, 0 + 1, n + 1)
    BY <1>1, <1>2, <2>1, ClosedSteps
  <2>3. QED
    BY <1>2, <1>3, <2>1, <2>2
<1>6. ASSUME NEW l \in Nat, NEW m \in Nat, NEW n \in Nat, Plan(S, l, m, n)
      PROVE  /\ l < Len(a) => Plan(S, l + 1, m, n + 1)
             /\ m < Len(t) => Plan(S, l, m + 1, n + 1)
             /\ l < Len(a) /\ m < Len(t) => Plan(S, l + 1, m + 1, n + Diagonal(a, t, l, m))
  <2> DEFINE c == Diagonal(a, t, l, m)
  <2>1. c \in {0, 1} /\ n + c \in Nat
    <3>1. c \in {0, 1}
      BY DiagonalType
    <3> HIDE DEF c
    <3>2. QED
      BY <3>1
  <2>2. ASSUME m < p
        PROVE  /\ l < Len(a) => Plan(R, l + 1, m, n + 1)
               /\ m < Len(t) => Plan(R, l, m + 1, n + 1)
               /\ l < Len(a) /\ m < Len(t) /\ m + 1 < p => Plan(R, l + 1, m + 1, n + c)
    <3>1. Plan(R, l, m, n)
      BY <1>3, <1>6, <2>2
    <3>2. /\ l < Len(a) => Plan(R, l + 1, m, n + 1)
          /\ m < Len(u) => Plan(R, l, m + 1, n + 1)
          /\ l < Len(a) /\ m < Len(u) => Plan(R, l + 1, m + 1, n + Diagonal(a, u, l, m))
      BY <1>1, <3>1, ClosedSteps
    <3>3. ASSUME m < Len(t), m + 1 < p PROVE Diagonal(a, u, l, m) = c
      <4>1. m + 1 \in 1 .. Len(t) /\ t[m + 1] = u[m + 1]
        BY <1>2, <3>3
      <4>2. QED
        BY <4>1 DEF Diagonal
    <3>4. m < Len(t) => m < Len(u)
      BY <1>2
    <3> HIDE DEF c
    <3>5. QED
      BY <3>2, <3>3, <3>4
  <2>3. ASSUME m + 1 >= p
        PROVE  /\ l < Len(a) => Plan(R, l + 1, m + 1, (n + 1) + 1)
               /\ m < Len(t) => Plan(R, l, (m + 1) + 1, (n + 1) + 1)
               /\ l < Len(a) /\ m < Len(t) => Plan(R, l + 1, (m + 1) + 1, (n + c) + 1)
    <3>1. Plan(R, l, m + 1, n + 1)
      BY <1>3, <1>6, <2>3
    <3>2. /\ l < Len(a) => Plan(R, l + 1, m + 1, (n + 1) + 1)
          /\ m + 1 < Len(u) => Plan(R, l, (m + 1) + 1, (n + 1) + 1)
          /\ l < Len(a) /\ m + 1 < Len(u) =>
                Plan(R, l + 1, (m + 1) + 1, (n + 1) + Diagonal(a, u, l, m + 1))
      BY <1>1, <3>1, ClosedSteps
    <3>3. ASSUME m < Len(t) PROVE m + 1 < Len(u) /\ Diagonal(a, u, l, m + 1) = c
      <4>1. m + 1 \in 1 .. Len(t) /\ t[m + 1] = u[(m + 1) + 1]
        BY <1>2, <2>3, <3>3
      <4>2. QED
        BY <1>2, <3>3, <4>1 DEF Diagonal
    <3> HIDE DEF c
    <3>4. (n + 1) + c = (n + c) + 1
      BY <2>1
    <3>5. QED
      BY <3>2, <3>3, <3>4
  <2>4. ASSUME m + 1 < p, (m + 1) + 1 >= p, m < Len(t)
        PROVE  /\ Plan(R, l, (m + 1) + 1, (n + 1) + 1)
               /\ l < Len(a) => Plan(R, l + 1, (m + 1) + 1, (n + c) + 1)
    <3>1. m < p /\ m + 1 < Len(u)
      BY <1>2, <2>4
    <3>2. Plan(R, l, m + 1, n + 1) /\ (l < Len(a) => Plan(R, l + 1, m + 1, n + c))
      BY <2>2, <2>4, <3>1
    <3> HIDE DEF c
    <3>3. Plan(R, l, (m + 1) + 1, (n + 1) + 1)
      BY <1>1, <3>1, <3>2, ClosedSteps
    <3>4. ASSUME l < Len(a) PROVE Plan(R, l + 1, (m + 1) + 1, (n + c) + 1)
      <4>1. l + 1 \in Nat /\ m + 1 \in Nat /\ n + c \in Nat /\ Plan(R, l + 1, m + 1, n + c)
        BY <2>1, <3>2, <3>4
      <4>2. QED
        BY <1>1, <3>1, <4>1, ClosedSteps
    <3>5. QED
      BY <3>3, <3>4
  <2> HIDE DEF c
  <2>5. ASSUME l < Len(a) PROVE Plan(S, l + 1, m, n + 1)
    <3>1. l + 1 \in Nat /\ n + 1 \in Nat
      OBVIOUS
    <3>2. QED
      BY <1>3, <2>2, <2>3, <2>5, <3>1
  <2>6. ASSUME m < Len(t) PROVE Plan(S, l, m + 1, n + 1)
    <3>1. m + 1 < p => m < p
      BY <1>2
    <3>2. ASSUME (m + 1) + 1 >= p PROVE Plan(R, l, (m + 1) + 1, (n + 1) + 1)
      BY <1>2, <2>3, <2>4, <2>6, <3>2
    <3>3. ASSUME m + 1 < p PROVE Plan(R, l, m + 1, n + 1)
      BY <2>2, <2>6, <3>1, <3>3
    <3>4. m + 1 \in Nat /\ n + 1 \in Nat
      OBVIOUS
    <3>5. QED
      BY <1>3, <3>2, <3>3, <3>4
  <2>7. ASSUME l < Len(a), m < Len(t) PROVE Plan(S, l + 1, m + 1, n + c)
    <3>1. m + 1 < p => m < p
      BY <1>2
    <3>2. ASSUME (m + 1) + 1 >= p PROVE Plan(R, l + 1, (m + 1) + 1, (n + c) + 1)
      BY <1>2, <2>3, <2>4, <2>7, <3>2
    <3>3. ASSUME m + 1 < p PROVE Plan(R, l + 1, m + 1, n + c)
      BY <2>2, <2>7, <3>1, <3>3
    <3>4. l + 1 \in Nat /\ m + 1 \in Nat
      OBVIOUS
    <3>5. QED
      BY <1>3, <2>1, <3>2, <3>3, <3>4
  <2>8. QED
    BY <2>5, <2>6, <2>7 DEF c
<1>7. Plans(a, t) \subseteq S
  <2>1. Closed(S, a, t)
    BY <1>5, <1>6 DEF Closed
  <2>2. QED
    BY <1>4, <2>1, PlansLeast
<1>8. Plan(S, i, Len(t), k)
  BY <1>7 DEF Plan
<1>9. QED
  BY <1>2, <1>3, <1>8 DEF R
(* when it is another letter,                                               *)
LEMMA PlanChanged ==
    ASSUME NEW a, NEW t \in Seq(Letters), NEW u \in Seq(Letters),
           NEW p \in 1 .. Len(t), Substitutes(t, u, p),
           NEW i \in Nat, NEW k \in Nat, Plan(Plans(a, t), i, Len(t), k)
    PROVE  Plan(Plans(a, u), i, Len(u), k + 1)
<1> DEFINE R == Plans(a, u)
           S == {x \in Triples : /\ x[2] < p => Plan(R, x[1], x[2], x[3])
                                 /\ Plan(R, x[1], x[2], x[3] + 1)}
<1>1. Closed(R, a, u)
  BY PlansClosed
<1>2. \A l, m, n \in Nat : Plan(R, l, m, n) => Plan(R, l, m, n + 1)
  BY PlansGrow
<1> HIDE DEF R
<1>3. /\ Len(t) \in Nat /\ Len(u) = Len(t) /\ p \in Nat /\ p >= 1 /\ p <= Len(t)
      /\ \A q \in 1 .. Len(u) : q # p => u[q] = t[q]
  BY Strung DEF Substitutes
<1>4. \A l, m, n \in Nat : Plan(S, l, m, n) <=>
         /\ m < p => Plan(R, l, m, n)
         /\ Plan(R, l, m, n + 1)
  BY DEF Plan, Triples
<1>5. S \in SUBSET Triples
  OBVIOUS
<1> HIDE DEF S
<1>6. ASSUME NEW n \in Nat PROVE Plan(S, 0, 0, n)
  BY <1>1, <1>4 DEF Closed
<1>7. ASSUME NEW l \in Nat, NEW m \in Nat, NEW n \in Nat, Plan(S, l, m, n)
      PROVE  /\ l < Len(a) => Plan(S, l + 1, m, n + 1)
             /\ m < Len(t) => Plan(S, l, m + 1, n + 1)
             /\ l < Len(a) /\ m < Len(t) => Plan(S, l + 1, m + 1, n + Diagonal(a, t, l, m))
  <2> DEFINE c == Diagonal(a, t, l, m)
             d == Diagonal(a, u, l, m)
  <2>1. c \in {0, 1} /\ d \in {0, 1}
    BY DiagonalType
  <2>2. ASSUME m + 1 # p, m < Len(t) PROVE d = c
    <3>1. m + 1 \in 1 .. Len(u)
      BY <1>3, <2>2
    <3>2. u[m + 1] = t[m + 1]
      BY <1>3, <2>2, <3>1
    <3>3. QED
      BY <3>2 DEF Diagonal
  <2>3. /\ l < Len(a) => Plan(R, l + 1, m, (n + 1) + 1)
        /\ m < Len(t) => Plan(R, l, m + 1, (n + 1) + 1)
        /\ l < Len(a) /\ m < Len(t) => Plan(R, l + 1, m + 1, (n + 1) + d)
    <3>1. Plan(R, l, m, n + 1) /\ n + 1 \in Nat
      BY <1>4, <1>7
    <3>2. QED
      BY <1>1, <1>3, <3>1, ClosedSteps
  <2>4. ASSUME m < p
        PROVE  /\ l < Len(a) => Plan(R, l + 1, m, n + 1)
               /\ m < Len(t) => Plan(R, l, m + 1, n + 1)
               /\ l < Len(a) /\ m < Len(t) => Plan(R, l + 1, m + 1, n + d)
    <3>1. Plan(R, l, m, n)
      BY <1>4, <1>7, <2>4
    <3>2. QED
      BY <1>1, <1>3, <3>1, ClosedSteps
  <2> HIDE DEF c, d
  <2>5. /\ l + 1 \in Nat /\ m + 1 \in Nat /\ n + 1 \in Nat /\ n + c \in Nat
        /\ m + 1 < p => m < p
        /\ (n + 1) + c = (n + c) + 1
    BY <1>3, <2>1
  <2>6. ASSUME l < Len(a) PROVE Plan(S, l + 1, m, n + 1)
    BY <1>4, <2>3, <2>4, <2>5, <2>6
  <2>7. ASSUME m < Len(t) PROVE Plan(S, l, m + 1, n + 1)
    BY <1>4, <2>3, <2>4, <2>5, <2>7
  <2>8. ASSUME l < Len(a), m < Len(t) PROVE Plan(S, l + 1, m + 1, n + c)
    <3>1. CASE m + 1 # p
      BY <1>3, <1>4, <2>2, <2>3, <2>4, <2>5, <2>8, <3>1
    <3>2. CASE m + 1 = p
      <4>1. m < p /\ ~(m + 1 < p)
        BY <1>3, <3>2
      <4>2. Plan(R, l + 1, m + 1, n + d)
        BY <2>4, <2>8, <4>1
      <4>3. Plan(R, l + 1, m + 1, n + 1)
        BY <1>2, <2>1, <2>5, <4>2
      <4>4. Plan(R, l + 1, m + 1, (n + c) + 1)
        BY <1>2, <2>1, <2>5, <4>3
      <4>5. QED
        BY <1>4, <2>5, <4>1, <4>4
    <3>3. QED
      BY <3>1, <3>2
  <2>9. QED
    BY <2>6, <2>7, <2>8 DEF c
<1>8. Plans(a, t) \subseteq S
  <2>1. Closed(S, a, t)
    BY <1>6, <1>7 DEF Closed
  <2>2. QED
    BY <1>5, <2>1, PlansLeast
<1>9. Plan(S, i, Len(t), k)
  BY <1>8 DEF Plan
<1>10. QED
  BY <1>3, <1>4, <1>9 DEF R

(* and so after any edit.                                                   *)
LEMMA PlanOfEdit ==
    ASSUME NEW a, NEW t \in Seq(Letters), NEW u \in EditsOf(t),
           NEW i \in Nat, NEW k \in Nat, Plan(Plans(a, t), i, Len(t), k)
    PROVE  u \in Seq(Letters) /\ Plan(Plans(a, u), i, Len(u), k + 1)
<1>1. u \in Seq(Letters)
  BY EditsByLetter
<1>2. ASSUME NEW p \in 1 .. Len(t), Deletes(t, u, p)
      PROVE  Plan(Plans(a, u), i, Len(u), k + 1)
  BY <1>1, <1>2, PlanWithout
<1>3. ASSUME NEW p \in 1 .. Len(t), Substitutes(t, u, p)
      PROVE  Plan(Plans(a, u), i, Len(u), k + 1)
  BY <1>1, <1>3, PlanChanged
<1>4. ASSUME NEW p \in 1 .. Len(t) + 1, Deletes(u, t, p)
      PROVE  Plan(Plans(a, u), i, Len(u), k + 1)
  BY <1>1, <1>4, PlanWith
<1>5. QED
  BY <1>1, <1>2, <1>3, <1>4, EditsByLetter

-------------------------------------------------------------------------------
(* The strings within n edits, one edit after the other.                    *)

Around(B) == B \cup UNION {EditsOf(t) : t \in B}

IsBall(g, s, n) == g = [k \in 0 .. n |-> IF k = 0 THEN {s} ELSE Around(g[k - 1])]

LEMMA BallsAgree ==
    ASSUME NEW s, NEW n \in Nat, NEW m \in Nat, n <= m,
           NEW g, IsBall(g, s, n), NEW h, IsBall(h, s, m)
    PROVE  \A k \in 0 .. n : g[k] = h[k]
<1> DEFINE S == {k \in Nat : k <= n => g[k] = h[k]}
<1>1. 0 \in S
  BY DEF IsBall
<1>2. ASSUME NEW k \in Nat, k \in S PROVE k + 1 \in S
  <2>1. ASSUME k + 1 <= n PROVE g[k + 1] = h[k + 1]
    <3>1. k + 1 \in 0 .. n /\ k + 1 \in 0 .. m /\ k + 1 # 0 /\ (k + 1) - 1 = k /\ k <= n
      BY <2>1
    <3>2. g[k + 1] = Around(g[k]) /\ h[k + 1] = Around(h[k])
      BY <3>1 DEF IsBall
    <3>3. QED
      BY <1>2, <3>1, <3>2
  <2>2. QED
    BY <2>1
<1> HIDE DEF S
<1>3. Nat \subseteq S
  BY <1>1, <1>2, Counting
<1>4. QED
  BY <1>3 DEF S

LEMMA BallsExist == ASSUME NEW s PROVE \A n \in Nat : \E g : IsBall(g, s, n)
<1> DEFINE S == {n \in Nat : \E g : IsBall(g, s, n)}
<1>1. 0 \in S
  <2>1. IsBall([k \in 0 .. 0 |-> {s}], s, 0)
    BY DEF IsBall
  <2>2. QED
    BY <2>1
<1>2. ASSUME NEW n \in Nat, n \in S PROVE n + 1 \in S
  <2>1. PICK g : IsBall(g, s, n)
    BY <1>2
  <2> DEFINE h == [k \in 0 .. n + 1 |-> IF k = 0 THEN {s} ELSE Around(g[k - 1])]
  <2>2. \A k \in 0 .. n : h[k] = g[k]
    <3>1. \A k \in 0 .. n : g[k] = IF k = 0 THEN {s} ELSE Around(g[k - 1])
      BY <2>1 DEF IsBall
    <3>2. \A k \in 0 .. n : k \in 0 .. n + 1
      OBVIOUS
    <3>3. QED
      BY <3>1, <3>2
  <2>3. \A k \in 0 .. n + 1 : k # 0 => k - 1 \in 0 .. n
    OBVIOUS
  <2>4. \A k \in 0 .. n + 1 : h[k] = IF k = 0 THEN {s} ELSE Around(h[k - 1])
    BY <2>2, <2>3
  <2>5. h = [k \in 0 .. n + 1 |-> h[k]]
    OBVIOUS
  <2> HIDE DEF h
  <2>6. IsBall(h, s, n + 1)
    BY <2>4, <2>5 DEF IsBall
  <2>7. QED
    BY <2>6
<1> HIDE DEF S
<1>3. Nat \subseteq S
  BY <1>1, <1>2, Counting
<1>4. QED
  BY <1>3 DEF S

LEMMA WithinIsBall ==
    ASSUME NEW s, NEW n \in Nat
    PROVE  \E g : IsBall(g, s, n) /\ Within(s, n) = g[n]
<1> DEFINE g == CHOOSE f : IsBall(f, s, n)
<1>1. IsBall(g, s, n)
  BY BallsExist
<1>2. Within(s, n) = g[n]
  BY DEF Within, IsBall, Around
<1>3. QED
  BY <1>1, <1>2

(* One more edit.                                                           *)
LEMMA WithinSteps ==
    ASSUME NEW s
    PROVE  /\ Within(s, 0) = {s}
           /\ \A n \in Nat : Within(s, n + 1) = Around(Within(s, n))
<1>1. Within(s, 0) = {s}
  BY WithinIsBall DEF IsBall
<1>2. ASSUME NEW n \in Nat PROVE Within(s, n + 1) = Around(Within(s, n))
  <2>1. PICK g : IsBall(g, s, n) /\ Within(s, n) = g[n]
    BY WithinIsBall
  <2>2. PICK h : IsBall(h, s, n + 1) /\ Within(s, n + 1) = h[n + 1]
    BY WithinIsBall
  <2>3. g[n] = h[n]
    BY <2>1, <2>2, BallsAgree
  <2>4. n + 1 \in 0 .. n + 1 /\ n + 1 # 0 /\ (n + 1) - 1 = n
    OBVIOUS
  <2>5. h[n + 1] = Around(h[n])
    BY <2>2, <2>4 DEF IsBall
  <2>6. QED
    BY <2>1, <2>2, <2>3, <2>5
<1>3. QED
  BY <1>1, <1>2
-------------------------------------------------------------------------------
(* Plans and edits come to the same.                                        *)

LEMMA NothingToDo ==
    ASSUME NEW a \in Seq(Letters) PROVE Plan(Plans(a, a), Len(a), Len(a), 0)
<1> DEFINE S == {i \in Nat : i <= Len(a) => Plan(Plans(a, a), i, i, 0)}
<1>1. Closed(Plans(a, a), a, a)
  BY PlansClosed
<1>2. 0 \in S
  BY <1>1 DEF Closed
<1>3. ASSUME NEW i \in Nat, i \in S PROVE i + 1 \in S
  <2>1. ASSUME i + 1 <= Len(a) PROVE Plan(Plans(a, a), i + 1, i + 1, 0)
    <3>1. i < Len(a) /\ Plan(Plans(a, a), i, i, 0)
      BY <1>3, <2>1, Strung
    <3>2. Diagonal(a, a, i, i) = 0
      BY DEF Diagonal
    <3>3. Plan(Plans(a, a), i + 1, i + 1, 0 + Diagonal(a, a, i, i))
      BY <1>1, <3>1, ClosedSteps
    <3>4. QED
      BY <3>2, <3>3
  <2>2. QED
    BY <2>1
<1> HIDE DEF S
<1>4. Nat \subseteq S
  BY <1>2, <1>3, Counting
<1>5. QED
  BY <1>4, Strung DEF S

(* The strings within n edits have plans of n edits,                        *)
LEMMA EditsArePlanned ==
    ASSUME NEW a \in Seq(Letters), NEW n \in Nat, NEW b \in Within(a, n)
    PROVE  b \in Seq(Letters) /\ Plan(Plans(a, b), Len(a), Len(b), n)
<1> DEFINE S == {k \in Nat : \A t \in Within(a, k) :
                    t \in Seq(Letters) /\ Plan(Plans(a, t), Len(a), Len(t), k)}
<1>1. 0 \in S
  BY WithinSteps, NothingToDo
<1>2. ASSUME NEW k \in Nat, k \in S PROVE k + 1 \in S
  <2>1. ASSUME NEW t \in Within(a, k + 1)
        PROVE  t \in Seq(Letters) /\ Plan(Plans(a, t), Len(a), Len(t), k + 1)
    <3>1. t \in Around(Within(a, k))
      BY <2>1, WithinSteps
    <3>2. CASE t \in Within(a, k)
      BY <1>2, <3>2, PlansGrow, Strung
    <3>3. CASE \E s \in Within(a, k) : t \in EditsOf(s)
      <4>1. PICK s \in Within(a, k) : t \in EditsOf(s)
        BY <3>3
      <4>2. s \in Seq(Letters) /\ Plan(Plans(a, s), Len(a), Len(s), k) /\ Len(a) \in Nat
        BY <1>2, Strung
      <4>3. QED
        BY <4>1, <4>2, PlanOfEdit
    <3>4. QED
      BY <3>1, <3>2, <3>3 DEF Around
  <2>2. QED
    BY <2>1
<1> HIDE DEF S
<1>3. Nat \subseteq S
  BY <1>1, <1>2, Counting
<1>4. QED
  BY <1>3 DEF S

(* The first j letters of b, then what follows the first i of a.            *)
Mix(a, b, i, j) ==
    [q \in 1 .. j + (Len(a) - i) |-> IF q <= j THEN b[q] ELSE a[(q - j) + i]]

LEMMA Mixed ==
    ASSUME NEW a \in Seq(Letters), NEW b \in Seq(Letters),
           NEW i \in 0 .. Len(a), NEW j \in 0 .. Len(b)
    PROVE  /\ Mix(a, b, i, j) \in Seq(Letters)
           /\ Len(Mix(a, b, i, j)) = j + (Len(a) - i)
           /\ \A q \in 1 .. j + (Len(a) - i) :
                 Mix(a, b, i, j)[q] = IF q <= j THEN b[q] ELSE a[(q - j) + i]
<1>1. Len(a) \in Nat /\ Len(b) \in Nat /\ j + (Len(a) - i) \in Nat
  BY Strung
<1>2. ASSUME NEW q \in 1 .. j + (Len(a) - i)
      PROVE  (IF q <= j THEN b[q] ELSE a[(q - j) + i]) \in Letters
  <2>1. q <= j => q \in 1 .. Len(b)
    BY <1>1
  <2>2. ~(q <= j) => (q - j) + i \in 1 .. Len(a)
    BY <1>1
  <2>3. QED
    BY <2>1, <2>2, Strung
<1>3. Mix(a, b, i, j) \in [1 .. j + (Len(a) - i) -> Letters]
  BY <1>2 DEF Mix
<1>4. Mix(a, b, i, j) \in Seq(Letters) /\ Len(Mix(a, b, i, j)) = j + (Len(a) - i)
  BY <1>1, <1>3, OfLetters
<1>5. QED
  BY <1>4 DEF Mix

(* A step of a plan is an edit of the mix, or leaves it as it is.           *)
LEMMA MixSteps ==
    ASSUME NEW a \in Seq(Letters), NEW b \in Seq(Letters),
           NEW i \in 0 .. Len(a), NEW j \in 0 .. Len(b)
    PROVE  /\ i < Len(a) => Mix(a, b, i + 1, j) \in EditsOf(Mix(a, b, i, j))
           /\ j < Len(b) => Mix(a, b, i, j + 1) \in EditsOf(Mix(a, b, i, j))
           /\ i < Len(a) /\ j < Len(b) =>
                 IF a[i + 1] = b[j + 1] THEN Mix(a, b, i + 1, j + 1) = Mix(a, b, i, j)
                                        ELSE Mix(a, b, i + 1, j + 1) \in EditsOf(Mix(a, b, i, j))
<1> DEFINE s == Mix(a, b, i, j)
           n == j + (Len(a) - i)
<1>1. /\ s \in Seq(Letters) /\ Len(s) = n
      /\ \A q \in 1 .. n : s[q] = IF q <= j THEN b[q] ELSE a[(q - j) + i]
  BY Mixed
<1>2. /\ Len(a) \in Nat /\ Len(b) \in Nat /\ i \in Nat /\ j \in Nat /\ n \in Nat
      /\ i <= Len(a) /\ j <= Len(b) /\ n >= j
  BY Strung
<1> HIDE DEF s
<1>3. ASSUME i < Len(a) PROVE Mix(a, b, i + 1, j) \in EditsOf(s)
  <2> DEFINE t == Mix(a, b, i + 1, j)
  <2>1. i + 1 \in 0 .. Len(a) /\ j + (Len(a) - (i + 1)) = n - 1
    BY <1>2, <1>3
  <2>2. /\ t \in Seq(Letters) /\ Len(t) = n - 1
        /\ \A q \in 1 .. n - 1 : t[q] = IF q <= j THEN b[q] ELSE a[(q - j) + (i + 1)]
    <3>1. /\ t \in Seq(Letters) /\ Len(t) = j + (Len(a) - (i + 1))
          /\ \A q \in 1 .. j + (Len(a) - (i + 1)) :
                t[q] = IF q <= j THEN b[q] ELSE a[(q - j) + (i + 1)]
      BY <2>1, Mixed
    <3> HIDE DEF t, n
    <3>2. QED
      BY <2>1, <3>1
  <2> HIDE DEF t
  <2>3. ASSUME NEW q \in 1 .. n - 1 PROVE t[q] = IF q < j + 1 THEN s[q] ELSE s[q + 1]
    <3>1. q \in 1 .. n /\ q + 1 \in 1 .. n /\ (q < j + 1 <=> q <= j)
      BY <1>2
    <3>2. CASE q <= j
      BY <1>1, <2>2, <3>1, <3>2
    <3>3. CASE ~(q <= j)
      <4>1. ~(q + 1 <= j) /\ ((q + 1) - j) + i = (q - j) + (i + 1)
        BY <1>2, <3>3
      <4>2. t[q] = a[(q - j) + (i + 1)] /\ s[q + 1] = a[((q + 1) - j) + i]
        BY <1>1, <2>2, <3>1, <3>3, <4>1
      <4>3. QED
        BY <3>1, <3>3, <4>1, <4>2
    <3>4. QED
      BY <3>2, <3>3
  <2>4. j + 1 \in 1 .. Len(s) /\ Len(s) = Len(t) + 1
    BY <1>1, <1>2, <1>3, <2>2
  <2>5. Deletes(s, t, j + 1)
    BY <2>2, <2>3, <2>4 DEF Deletes
  <2>6. QED
    BY <1>1, <2>2, <2>4, <2>5, LettersMakeEdits DEF t
<1>4. ASSUME j < Len(b) PROVE Mix(a, b, i, j + 1) \in EditsOf(s)
  <2> DEFINE t == Mix(a, b, i, j + 1)
  <2>1. j + 1 \in 0 .. Len(b) /\ (j + 1) + (Len(a) - i) = n + 1
    BY <1>2, <1>4
  <2>2. /\ t \in Seq(Letters) /\ Len(t) = n + 1
        /\ \A q \in 1 .. n + 1 : t[q] = IF q <= j + 1 THEN b[q] ELSE a[(q - (j + 1)) + i]
    <3>1. /\ t \in Seq(Letters) /\ Len(t) = (j + 1) + (Len(a) - i)
          /\ \A q \in 1 .. (j + 1) + (Len(a) - i) :
                t[q] = IF q <= j + 1 THEN b[q] ELSE a[(q - (j + 1)) + i]
      BY <2>1, Mixed
    <3> HIDE DEF t, n
    <3>2. QED
      BY <2>1, <3>1
  <2> HIDE DEF t
  <2>3. ASSUME NEW q \in 1 .. n PROVE s[q] = IF q < j + 1 THEN t[q] ELSE t[q + 1]
    <3>1. q \in 1 .. n + 1 /\ q + 1 \in 1 .. n + 1 /\ (q < j + 1 <=> q <= j)
      BY <1>2
    <3>2. CASE q <= j
      BY <1>1, <1>2, <2>2, <3>1, <3>2
    <3>3. CASE ~(q <= j)
      <4>1. ~(q + 1 <= j + 1) /\ ((q + 1) - (j + 1)) + i = (q - j) + i
        BY <1>2, <3>3
      <4>2. s[q] = a[(q - j) + i] /\ t[q + 1] = a[((q + 1) - (j + 1)) + i]
        BY <1>1, <2>2, <3>1, <3>3, <4>1
      <4>3. QED
        BY <3>1, <3>3, <4>1, <4>2
    <3>4. QED
      BY <3>2, <3>3
  <2>4. j + 1 \in 1 .. Len(s) + 1 /\ Len(t) = Len(s) + 1
    BY <1>1, <1>2, <1>4, <2>2
  <2>5. Deletes(t, s, j + 1)
    BY <1>1, <2>3, <2>4 DEF Deletes
  <2>6. QED
    BY <1>1, <2>2, <2>4, <2>5, LettersMakeEdits DEF t
<1>5. ASSUME i < Len(a), j < Len(b)
      PROVE  IF a[i + 1] = b[j + 1] THEN Mix(a, b, i + 1, j + 1) = s
                                    ELSE Mix(a, b, i + 1, j + 1) \in EditsOf(s)
  <2> DEFINE t == Mix(a, b, i + 1, j + 1)
  <2>1. /\ i + 1 \in 0 .. Len(a) /\ j + 1 \in 0 .. Len(b)
        /\ (j + 1) + (Len(a) - (i + 1)) = n
    BY <1>2, <1>5
  <2>2. /\ t \in Seq(Letters) /\ Len(t) = n
        /\ \A q \in 1 .. n : t[q] = IF q <= j + 1 THEN b[q] ELSE a[(q - (j + 1)) + (i + 1)]
    <3>1. /\ t \in Seq(Letters) /\ Len(t) = (j + 1) + (Len(a) - (i + 1))
          /\ \A q \in 1 .. (j + 1) + (Len(a) - (i + 1)) :
                t[q] = IF q <= j + 1 THEN b[q] ELSE a[(q - (j + 1)) + (i + 1)]
      BY <2>1, Mixed
    <3> HIDE DEF t, n
    <3>2. QED
      BY <2>1, <3>1
  <2> HIDE DEF t
  <2>3. j + 1 \in 1 .. n /\ t[j + 1] = b[j + 1] /\ s[j + 1] = a[i + 1]
    <3>1. j + 1 \in 1 .. n /\ ~(j + 1 <= j) /\ ((j + 1) - j) + i = i + 1
      BY <1>2, <1>5
    <3>2. QED
      BY <1>1, <2>2, <3>1
  <2>4. ASSUME NEW q \in 1 .. n, q # j + 1 PROVE t[q] = s[q]
    <3>1. CASE q <= j
      BY <1>1, <1>2, <2>2, <3>1
    <3>2. CASE ~(q <= j)
      <4>1. ~(q <= j + 1) /\ (q - (j + 1)) + (i + 1) = (q - j) + i
        BY <1>2, <2>4, <3>2
      <4>2. QED
        BY <1>1, <2>2, <3>2, <4>1
    <3>3. QED
      BY <3>1, <3>2
  <2>5. ASSUME a[i + 1] = b[j + 1] PROVE t = s
    <3>1. \A q \in 1 .. Len(t) : t[q] = s[q]
      BY <2>2, <2>3, <2>4, <2>5
    <3>2. QED
      BY <1>1, <2>2, <3>1, SeqEqual
  <2>6. Substitutes(s, t, j + 1)
    BY <1>1, <2>2, <2>4 DEF Substitutes
  <2>7. t \in EditsOf(s)
    BY <1>1, <2>2, <2>3, <2>6, LettersMakeEdits
  <2>8. QED
    BY <2>5, <2>7 DEF t
<1>6. QED
  BY <1>3, <1>4, <1>5 DEF s
(* Doing nothing to s is within any number of edits.                        *)
LEMMA WithinGrows ==
    ASSUME NEW s PROVE \A n \in Nat : s \in Within(s, n)
<1> DEFINE S == {n \in Nat : s \in Within(s, n)}
<1>1. 0 \in S
  BY WithinSteps
<1>2. ASSUME NEW n \in Nat, n \in S PROVE n + 1 \in S
  BY <1>2, WithinSteps DEF Around
<1> HIDE DEF S
<1>3. Nat \subseteq S
  BY <1>1, <1>2, Counting
<1>4. QED
  BY <1>3 DEF S

(* and plans of n edits lead to strings within n edits.                     *)
LEMMA PlansAreEdits ==
    ASSUME NEW a \in Seq(Letters), NEW b \in Seq(Letters), NEW n \in Nat,
           Plan(Plans(a, b), Len(a), Len(b), n)
    PROVE  b \in Within(a, n)
<1> DEFINE Good(i, j, k) == i <= Len(a) /\ j <= Len(b) /\ Mix(a, b, i, j) \in Within(a, k)
           S == {x \in Triples : Good(x[1], x[2], x[3])}
<1>1. Len(a) \in Nat /\ Len(b) \in Nat
  BY Strung
<1>2. \A i, j, k \in Nat : Plan(S, i, j, k) <=> Good(i, j, k)
  BY DEF Plan, Triples
<1>3. S \in SUBSET Triples
  OBVIOUS
<1> HIDE DEF S
<1>4. ASSUME NEW k \in Nat PROVE Plan(S, 0, 0, k)
  <2>1. /\ Mix(a, b, 0, 0) \in Seq(Letters) /\ Len(Mix(a, b, 0, 0)) = Len(a)
        /\ \A q \in 1 .. Len(a) : Mix(a, b, 0, 0)[q] = a[q]
    <3>1. 0 \in 0 .. Len(a) /\ 0 \in 0 .. Len(b) /\ 0 + (Len(a) - 0) = Len(a)
      BY <1>1
    <3>2. \A q \in 1 .. Len(a) : ~(q <= 0) /\ (q - 0) + 0 = q
      BY <1>1
    <3>3. /\ Mix(a, b, 0, 0) \in Seq(Letters) /\ Len(Mix(a, b, 0, 0)) = 0 + (Len(a) - 0)
          /\ \A q \in 1 .. 0 + (Len(a) - 0) :
                Mix(a, b, 0, 0)[q] = IF q <= 0 THEN b[q] ELSE a[(q - 0) + 0]
      BY <3>1, Mixed
    <3>4. QED
      BY <3>1, <3>2, <3>3
  <2>2. Mix(a, b, 0, 0) = a
    BY <2>1, SeqEqual
  <2>3. QED
    BY <1>1, <1>2, <2>2, WithinGrows
<1>5. ASSUME NEW i \in Nat, NEW j \in Nat, NEW k \in Nat, Plan(S, i, j, k)
      PROVE  /\ i < Len(a) => Plan(S, i + 1, j, k + 1)
             /\ j < Len(b) => Plan(S, i, j + 1, k + 1)
             /\ i < Len(a) /\ j < Len(b) => Plan(S, i + 1, j + 1, k + Diagonal(a, b, i, j))
  <2>1. i \in 0 .. Len(a) /\ j \in 0 .. Len(b) /\ Mix(a, b, i, j) \in Within(a, k)
    BY <1>1, <1>2, <1>5
  <2>2. \A t \in EditsOf(Mix(a, b, i, j)) : t \in Within(a, k + 1)
    <3>1. Within(a, k + 1) = Around(Within(a, k))
      BY WithinSteps
    <3> HIDE DEF Good
    <3>2. QED
      BY <2>1, <3>1 DEF Around
  <2>3. i + 1 \in Nat /\ j + 1 \in Nat /\ k + 1 \in Nat
    OBVIOUS
  <2>4. ASSUME i < Len(a) PROVE Plan(S, i + 1, j, k + 1)
    <3>1. Mix(a, b, i + 1, j) \in Within(a, k + 1)
      BY <2>1, <2>2, <2>4, MixSteps
    <3>2. i + 1 <= Len(a) /\ j <= Len(b)
      BY <1>1, <2>1, <2>4
    <3>3. QED
      BY <1>2, <2>3, <3>1, <3>2
  <2>5. ASSUME j < Len(b) PROVE Plan(S, i, j + 1, k + 1)
    <3>1. Mix(a, b, i, j + 1) \in Within(a, k + 1)
      BY <2>1, <2>2, <2>5, MixSteps
    <3>2. i <= Len(a) /\ j + 1 <= Len(b)
      BY <1>1, <2>1, <2>5
    <3>3. QED
      BY <1>2, <2>3, <3>1, <3>2
  <2>6. ASSUME i < Len(a), j < Len(b)
        PROVE  Plan(S, i + 1, j + 1, k + Diagonal(a, b, i, j))
    <3>1. i + 1 <= Len(a) /\ j + 1 <= Len(b)
      BY <1>1, <2>6
    <3>2. CASE a[i + 1] = b[j + 1]
      <4>1. Mix(a, b, i + 1, j + 1) \in Within(a, k)
        BY <2>1, <2>6, <3>2, MixSteps
      <4>2. k + Diagonal(a, b, i, j) = k
        BY <3>2 DEF Diagonal
      <4>3. QED
        BY <1>2, <2>3, <3>1, <4>1, <4>2
    <3>3. CASE a[i + 1] # b[j + 1]
      <4>1. Mix(a, b, i + 1, j + 1) \in Within(a, k + 1)
        BY <2>1, <2>2, <2>6, <3>3, MixSteps
      <4>2. k + Diagonal(a, b, i, j) = k + 1
        BY <3>3 DEF Diagonal
      <4>3. QED
        BY <1>2, <2>3, <3>1, <4>1, <4>2
    <3>4. QED
      BY <3>2, <3>3
  <2>7. QED
    BY <2>4, <2>5, <2>6
<1>6. Plans(a, b) \subseteq S
  <2>1. Closed(S, a, b)
    BY <1>4, <1>5 DEF Closed
  <2>2. QED
    BY <1>3, <2>1, PlansLeast
<1>7. Mix(a, b, Len(a), Len(b)) \in Within(a, n)
  <2>1. Plan(S, Len(a), Len(b), n)
    BY <1>6 DEF Plan
  <2>2. QED
    BY <1>1, <1>2, <2>1
<1>8. Mix(a, b, Len(a), Len(b)) = b
  <2> DEFINE s == Mix(a, b, Len(a), Len(b))
  <2>1. Len(a) \in 0 .. Len(a) /\ Len(b) \in 0 .. Len(b) /\ Len(b) + (Len(a) - Len(a)) = Len(b)
    BY <1>1
  <2>2. /\ s \in Seq(Letters) /\ Len(s) = Len(b) + (Len(a) - Len(a))
        /\ \A q \in 1 .. Len(b) + (Len(a) - Len(a)) :
              s[q] = IF q <= Len(b) THEN b[q] ELSE a[(q - Len(b)) + Len(a)]
    BY <2>1, Mixed
  <2> HIDE DEF s
  <2>3. Len(s) = Len(b) /\ \A q \in 1 .. Len(s) : s[q] = b[q]
    BY <1>1, <2>1, <2>2
  <2>4. s = b
    BY <2>2, <2>3, SeqEqual
  <2>5. QED
    BY <2>4 DEF s
<1>9. QED
  BY <1>7, <1>8
-------------------------------------------------------------------------------
(* The table: each cell is the least number of edits of a plan.             *)

IsCell(a, b, i, j, v) ==
    v \in Nat /\ \A n \in Nat : Plan(Plans(a, b), i, j, n) <=> v <= n

LEMMA FirstRow ==
    ASSUME NEW a \in Seq(Letters), NEW b \in Seq(Letters), NEW j \in 0 .. Len(b)
    PROVE  IsCell(a, b, 0, j, j)
<1> DEFINE S == {m \in Nat : m <= Len(b) => IsCell(a, b, 0, m, m)}
<1>1. Closed(Plans(a, b), a, b) /\ Len(a) \in Nat /\ Len(b) \in Nat
  BY PlansClosed, Strung
<1>2. 0 \in S
  BY <1>1 DEF IsCell, Closed
<1>3. ASSUME NEW m \in Nat, m \in S PROVE m + 1 \in S
  <2>1. ASSUME m + 1 <= Len(b), NEW n \in Nat
        PROVE  Plan(Plans(a, b), 0, m + 1, n) <=> m + 1 <= n
    <3>1. m < Len(b) /\ \A k \in Nat : Plan(Plans(a, b), 0, m, k) <=> m <= k
      BY <1>1, <1>3, <2>1 DEF IsCell
    <3>2. ASSUME Plan(Plans(a, b), 0, m + 1, n) PROVE m + 1 <= n
      <4>1. LastEdit(a, b, 0, m + 1, n)
        BY <1>1, <3>2, PlansEnd
      <4>2. n > 0 /\ Plan(Plans(a, b), 0, (m + 1) - 1, n - 1) /\ (m + 1) - 1 = m
        BY <4>1 DEF LastEdit
      <4>3. QED
        BY <3>1, <4>2
    <3>3. ASSUME m + 1 <= n PROVE Plan(Plans(a, b), 0, m + 1, n)
      <4>1. n - 1 \in Nat /\ m <= n - 1 /\ (n - 1) + 1 = n
        BY <3>3
      <4>2. Plan(Plans(a, b), 0, m, n - 1)
        BY <3>1, <4>1
      <4>3. Plan(Plans(a, b), 0, m + 1, (n - 1) + 1)
        BY <1>1, <3>1, <4>1, <4>2, ClosedSteps
      <4>4. QED
        BY <4>1, <4>3
    <3>4. QED
      BY <3>2, <3>3
  <2>2. QED
    BY <2>1 DEF IsCell
<1> HIDE DEF S
<1>4. Nat \subseteq S
  BY <1>2, <1>3, Counting
<1>5. QED
  BY <1>1, <1>4 DEF S

LEMMA FirstColumn ==
    ASSUME NEW a \in Seq(Letters), NEW b \in Seq(Letters), NEW i \in 0 .. Len(a)
    PROVE  IsCell(a, b, i, 0, i)
<1> DEFINE S == {m \in Nat : m <= Len(a) => IsCell(a, b, m, 0, m)}
<1>1. Closed(Plans(a, b), a, b) /\ Len(a) \in Nat /\ Len(b) \in Nat
  BY PlansClosed, Strung
<1>2. 0 \in S
  BY <1>1 DEF IsCell, Closed
<1>3. ASSUME NEW m \in Nat, m \in S PROVE m + 1 \in S
  <2>1. ASSUME m + 1 <= Len(a), NEW n \in Nat
        PROVE  Plan(Plans(a, b), m + 1, 0, n) <=> m + 1 <= n
    <3>1. m < Len(a) /\ \A k \in Nat : Plan(Plans(a, b), m, 0, k) <=> m <= k
      BY <1>1, <1>3, <2>1 DEF IsCell
    <3>2. ASSUME Plan(Plans(a, b), m + 1, 0, n) PROVE m + 1 <= n
      <4>1. LastEdit(a, b, m + 1, 0, n)
        BY <1>1, <3>2, PlansEnd
      <4>2. n > 0 /\ Plan(Plans(a, b), (m + 1) - 1, 0, n - 1) /\ (m + 1) - 1 = m
        BY <4>1 DEF LastEdit
      <4>3. QED
        BY <3>1, <4>2
    <3>3. ASSUME m + 1 <= n PROVE Plan(Plans(a, b), m + 1, 0, n)
      <4>1. n - 1 \in Nat /\ m <= n - 1 /\ (n - 1) + 1 = n
        BY <3>3
      <4>2. Plan(Plans(a, b), m, 0, n - 1)
        BY <3>1, <4>1
      <4>3. Plan(Plans(a, b), m + 1, 0, (n - 1) + 1)
        BY <1>1, <3>1, <4>1, <4>2, ClosedSteps
      <4>4. QED
        BY <4>1, <4>3
    <3>4. QED
      BY <3>2, <3>3
  <2>2. QED
    BY <2>1 DEF IsCell
<1> HIDE DEF S
<1>4. Nat \subseteq S
  BY <1>2, <1>3, Counting
<1>5. QED
  BY <1>1, <1>4 DEF S

(* Any other cell follows from its three neighbours.                        *)
LEMMA CellStep ==
    ASSUME NEW a \in Seq(Letters), NEW b \in Seq(Letters),
           NEW i \in 1 .. Len(a), NEW j \in 1 .. Len(b),
           NEW x, IsCell(a, b, i - 1, j, x), NEW y, IsCell(a, b, i, j - 1, y),
           NEW z, IsCell(a, b, i - 1, j - 1, z),
           NEW c \in {0, 1}, c = Diagonal(a, b, i - 1, j - 1)
    PROVE  IsCell(a, b, i, j, Min({x + 1, y + 1, z + c}))
<1> DEFINE v == Min({x + 1, y + 1, z + c})
<1>1. /\ Closed(Plans(a, b), a, b) /\ Len(a) \in Nat /\ Len(b) \in Nat
      /\ i \in Nat /\ j \in Nat /\ i - 1 \in Nat /\ j - 1 \in Nat
      /\ i - 1 < Len(a) /\ j - 1 < Len(b) /\ (i - 1) + 1 = i /\ (j - 1) + 1 = j
      /\ i # 0 /\ j # 0
  BY PlansClosed, Strung
<1>2. x \in Nat /\ y \in Nat /\ z \in Nat
  BY DEF IsCell
<1>3. v \in Nat /\ \A n \in Nat : v <= n <=> x + 1 <= n \/ y + 1 <= n \/ z + c <= n
  <2> DEFINE T == {x + 1, y + 1, z + c}
  <2>1. \E w \in T : \A u \in T : w <= u
    BY <1>2
  <2>2. v \in T /\ \A u \in T : v <= u
    BY <2>1 DEF Min
  <2> HIDE DEF v
  <2>3. QED
    BY <1>2, <2>2
<1> HIDE DEF v
<1>4. ASSUME NEW n \in Nat, Plan(Plans(a, b), i, j, n) PROVE v <= n
  <2>1. LastEdit(a, b, i, j, n)
    BY <1>1, <1>4, PlansEnd
  <2>2. CASE n > 0 /\ Plan(Plans(a, b), i - 1, j, n - 1)
    <3>1. n - 1 \in Nat
      BY <2>2
    <3>2. x <= n - 1
      BY <2>2, <3>1 DEF IsCell
    <3>3. QED
      BY <1>2, <1>3, <3>2
  <2>3. CASE n > 0 /\ Plan(Plans(a, b), i, j - 1, n - 1)
    <3>1. n - 1 \in Nat
      BY <2>3
    <3>2. y <= n - 1
      BY <2>3, <3>1 DEF IsCell
    <3>3. QED
      BY <1>2, <1>3, <3>2
  <2>4. CASE n >= c /\ Plan(Plans(a, b), i - 1, j - 1, n - c)
    <3>1. n - c \in Nat
      BY <2>4
    <3>2. z <= n - c
      BY <2>4, <3>1 DEF IsCell
    <3>3. QED
      BY <1>2, <1>3, <3>2
  <2>5. QED
    BY <1>1, <2>1, <2>2, <2>3, <2>4 DEF LastEdit
<1>5. ASSUME NEW n \in Nat, v <= n PROVE Plan(Plans(a, b), i, j, n)
  <2>1. CASE x + 1 <= n
    <3>1. n - 1 \in Nat /\ x <= n - 1 /\ (n - 1) + 1 = n
      BY <1>2, <2>1
    <3>2. Plan(Plans(a, b), i - 1, j, n - 1)
      BY <3>1 DEF IsCell
    <3>3. Plan(Plans(a, b), (i - 1) + 1, j, (n - 1) + 1)
      BY <1>1, <3>1, <3>2, ClosedSteps
    <3>4. QED
      BY <1>1, <3>1, <3>3
  <2>2. CASE y + 1 <= n
    <3>1. n - 1 \in Nat /\ y <= n - 1 /\ (n - 1) + 1 = n
      BY <1>2, <2>2
    <3>2. Plan(Plans(a, b), i, j - 1, n - 1)
      BY <3>1 DEF IsCell
    <3>3. Plan(Plans(a, b), i, (j - 1) + 1, (n - 1) + 1)
      BY <1>1, <3>1, <3>2, ClosedSteps
    <3>4. QED
      BY <1>1, <3>1, <3>3
  <2>3. CASE z + c <= n
    <3>1. n - c \in Nat /\ z <= n - c /\ (n - c) + c = n
      BY <1>2, <2>3
    <3>2. Plan(Plans(a, b), i - 1, j - 1, n - c)
      BY <3>1 DEF IsCell
    <3>3. Plan(Plans(a, b), (i - 1) + 1, (j - 1) + 1, (n - c) + c)
      BY <1>1, <3>1, <3>2, ClosedSteps
    <3>4. QED
      BY <1>1, <3>1, <3>3
  <2>4. QED
    BY <1>3, <1>5, <2>1, <2>2, <2>3
<1>6. IsCell(a, b, i, j, v)
  BY <1>3, <1>4, <1>5 DEF IsCell
<1>7. QED
  BY <1>6 DEF v

-------------------------------------------------------------------------------
(* While the strings are compared, prev is the row before the current one   *)
(* and curr is the current one as far as it has got.                        *)
Compared ==
    /\ row \in 1 .. Len(left) + 1
    /\ column \in 1 .. Len(right) + 1
    /\ curr \in [1 .. Len(right) + 1 -> Nat]
    /\ prev \in [1 .. Len(right) + 1 -> Nat]
    /\ \A j \in 0 .. Len(right) : IsCell(left, right, row - 1, j, prev[j + 1])
    /\ row <= Len(left) =>
          \A j \in 0 .. column - 1 : IsCell(left, right, row, j, curr[j + 1])

TableInv ==
    /\ left \in Seq(Letters) /\ right \in Seq(Letters)
    /\ distance = Undecided => Compared
    /\ distance # Undecided => IsCell(left, right, Len(left), Len(right), distance)

LEMMA TableStarts == ASSUME DistanceInit PROVE TableInv
<1>1. left \in Seq(Letters) /\ right \in Seq(Letters)
  BY SeqDef DEF DistanceInit, Strings
<1>2. Len(left) \in Nat /\ Len(right) \in Nat
  BY <1>1, Strung
<1>3. Compared
  <2>1. /\ row = 1 /\ column = 1 /\ row - 1 = 0
        /\ prev = [j \in 1 .. Len(right) + 1 |-> j - 1]
        /\ curr = [prev EXCEPT ![1] = 1]
    BY DEF DistanceInit, FirstRowOf
  <2>2. row \in 1 .. Len(left) + 1 /\ column \in 1 .. Len(right) + 1 /\ 1 \in 1 .. Len(right) + 1
    BY <1>2, <2>1
  <2>3. curr \in [1 .. Len(right) + 1 -> Nat] /\ curr[1] = 1
    BY <1>2, <2>1, <2>2
  <2>4. \A j \in 0 .. Len(right) : IsCell(left, right, row - 1, j, prev[j + 1])
    <3>1. SUFFICES ASSUME NEW j \in 0 .. Len(right)
                   PROVE  IsCell(left, right, row - 1, j, prev[j + 1])
      OBVIOUS
    <3>2. prev[j + 1] = j
      BY <1>2, <2>1
    <3>3. QED
      BY <1>1, <2>1, <3>2, FirstRow
  <2>5. ASSUME row <= Len(left), NEW j \in 0 .. column - 1
        PROVE  IsCell(left, right, row, j, curr[j + 1])
    <3>1. j = 0 /\ j + 1 = 1 /\ 1 \in 0 .. Len(left)
      BY <1>2, <2>1, <2>5
    <3>2. QED
      BY <1>1, <2>1, <2>3, <3>1, FirstColumn
  <2>6. prev \in [1 .. Len(right) + 1 -> Nat]
    BY <1>2, <2>1
  <2>7. QED
    BY <2>2, <2>3, <2>4, <2>5, <2>6 DEF Compared
<1>4. ASSUME distance # Undecided PROVE IsCell(left, right, Len(left), Len(right), distance)
  <2>1. CASE left = right
    <3>1. distance = 0
      BY <2>1 DEF DistanceInit
    <3>2. IsCell(left, left, Len(left), Len(left), 0)
      <4>1. ASSUME NEW n \in Nat PROVE Plan(Plans(left, left), Len(left), Len(left), n)
        BY <1>1, NothingToDo, WithinGrows, EditsArePlanned
      <4>2. QED
        BY <4>1 DEF IsCell
    <3>3. QED
      BY <2>1, <3>1, <3>2
  <2>2. CASE left # right /\ left = <<>>
    <3>1. distance = Len(right) /\ Len(left) = 0 /\ Len(right) \in 0 .. Len(right)
      BY <1>2, <2>2 DEF DistanceInit
    <3>2. QED
      BY <1>1, <3>1, FirstRow
  <2>3. CASE left # right /\ right = <<>>
    <3>1. distance = Len(left) /\ Len(right) = 0 /\ Len(left) \in 0 .. Len(left)
      BY <1>2, <2>3 DEF DistanceInit
    <3>2. QED
      BY <1>1, <3>1, FirstColumn
  <2>4. QED
    BY <1>4, <2>1, <2>2, <2>3 DEF DistanceInit
<1>5. QED
  BY <1>1, <1>3, <1>4 DEF TableInv
LEMMA CellKeepsTable == ASSUME TableInv, Cell PROVE TableInv'
<1> USE DEF Cell
<1>1. left \in Seq(Letters) /\ right \in Seq(Letters) /\ Compared
  BY DEF TableInv
<1>2. /\ Len(left) \in Nat /\ Len(right) \in Nat
      /\ row \in 1 .. Len(left) /\ column \in 1 .. Len(right)
      /\ row \in Nat /\ column \in Nat
  BY <1>1, Strung DEF Compared
<1> DEFINE v == Min({prev[column + 1] + 1, curr[column] + 1, prev[column] + Cost(row, column)})
<1>3. IsCell(left, right, row, column, v)
  <2>1. IsCell(left, right, row - 1, column, prev[column + 1])
    BY <1>1, <1>2 DEF Compared
  <2>2. IsCell(left, right, row, column - 1, curr[column])
    <3>1. column - 1 \in 0 .. column - 1 /\ (column - 1) + 1 = column /\ row <= Len(left)
      BY <1>2
    <3>2. IsCell(left, right, row, column - 1, curr[(column - 1) + 1])
      BY <1>1, <3>1 DEF Compared
    <3>3. QED
      BY <3>1, <3>2
  <2>3. IsCell(left, right, row - 1, column - 1, prev[column])
    <3>1. column - 1 \in 0 .. Len(right) /\ (column - 1) + 1 = column
      BY <1>2
    <3>2. IsCell(left, right, row - 1, column - 1, prev[(column - 1) + 1])
      BY <1>1, <3>1 DEF Compared
    <3>3. QED
      BY <3>1, <3>2
  <2>4. Cost(row, column) \in {0, 1}
    BY DEF Cost
  <2>5. Cost(row, column) = Diagonal(left, right, row - 1, column - 1)
    <3>1. (row - 1) + 1 = row /\ (column - 1) + 1 = column
      BY <1>2
    <3>2. QED
      BY <3>1 DEF Cost, Diagonal
  <2>6. QED
    BY <1>1, <1>2, <2>1, <2>2, <2>3, <2>4, <2>5, CellStep
<1> HIDE DEF v
<1>4. curr' = [curr EXCEPT ![column + 1] = v]
  BY DEF v
<1>5. /\ column + 1 \in 1 .. Len(right) + 1
      /\ curr \in [1 .. Len(right) + 1 -> Nat]
  BY <1>1, <1>2 DEF Compared
<1>6. curr' \in [1 .. Len(right) + 1 -> Nat] /\ curr'[column + 1] = v
  BY <1>3, <1>4, <1>5 DEF IsCell
<1>7. ASSUME NEW j \in 0 .. column' - 1 PROVE IsCell(left, right, row, j, curr'[j + 1])
  <2>1. CASE j = column
    BY <1>3, <1>6, <2>1
  <2>2. CASE j # column
    <3>1. j \in 0 .. column - 1 /\ j + 1 # column + 1 /\ j + 1 \in 1 .. Len(right) + 1
      BY <1>2, <2>2
    <3>2. curr'[j + 1] = curr[j + 1]
      BY <1>4, <1>5, <3>1
    <3>3. QED
      BY <1>1, <1>2, <3>1, <3>2 DEF Compared
  <2>3. QED
    BY <2>1, <2>2
<1>8. Compared'
  BY <1>1, <1>2, <1>5, <1>6, <1>7 DEF Compared
<1>9. QED
  BY <1>1, <1>8 DEF TableInv, Undecided

LEMMA NextRowKeepsTable == ASSUME TableInv, NextRow PROVE TableInv'
<1> USE DEF NextRow
<1>1. left \in Seq(Letters) /\ right \in Seq(Letters) /\ Compared
  BY DEF TableInv
<1>2. /\ Len(left) \in Nat /\ Len(right) \in Nat
      /\ row \in 1 .. Len(left) /\ column = Len(right) + 1 /\ row \in Nat
      /\ row' \in 1 .. Len(left) + 1 /\ column' \in 1 .. Len(right) + 1 /\ row' - 1 = row
  BY <1>1, Strung DEF Compared
<1>3. /\ prev' \in [1 .. Len(right) + 1 -> Nat]
      /\ \A j \in 0 .. Len(right) : IsCell(left, right, row, j, prev'[j + 1])
  BY <1>1, <1>2 DEF Compared
<1>4. /\ prev \in [1 .. Len(right) + 1 -> Nat] /\ 1 \in 1 .. Len(right) + 1
      /\ curr' = [prev EXCEPT ![1] = row + 1]
  BY <1>1, <1>2 DEF Compared
<1>5. curr' \in [1 .. Len(right) + 1 -> Nat] /\ curr'[1] = row'
  BY <1>2, <1>4
<1>6. ASSUME row' <= Len(left), NEW j \in 0 .. column' - 1
      PROVE  IsCell(left, right, row', j, curr'[j + 1])
  <2>1. j = 0 /\ j + 1 = 1 /\ row' \in 0 .. Len(left)
    BY <1>2, <1>6
  <2>2. QED
    BY <1>1, <1>5, <2>1, FirstColumn
<1>7. Compared'
  BY <1>1, <1>2, <1>3, <1>5, <1>6 DEF Compared
<1>8. QED
  BY <1>1, <1>7 DEF TableInv, Undecided

LEMMA FinishKeepsTable == ASSUME TableInv, Finish PROVE TableInv'
<1> USE DEF Finish
<1>1. left \in Seq(Letters) /\ right \in Seq(Letters) /\ Compared
  BY DEF TableInv
<1>2. /\ Len(left) \in Nat /\ Len(right) \in Nat
      /\ row - 1 = Len(left) /\ Len(right) \in 0 .. Len(right)
  BY <1>1, Strung DEF Compared
<1>3. IsCell(left, right, Len(left), Len(right), prev[Len(right) + 1])
  BY <1>1, <1>2 DEF Compared
<1>4. Compared'
  BY <1>1 DEF Compared
<1>5. QED
  BY <1>1, <1>3, <1>4 DEF TableInv, Undecided

LEMMA TableStep == ASSUME TableInv, [DistanceNext]_distanceVars PROVE TableInv'
<1>1. CASE Cell
  BY <1>1, CellKeepsTable
<1>2. CASE NextRow
  BY <1>2, NextRowKeepsTable
<1>3. CASE Finish
  BY <1>3, FinishKeepsTable
<1>4. CASE UNCHANGED distanceVars
  BY <1>4 DEF TableInv, Compared, Undecided, distanceVars
<1>5. QED
  BY <1>1, <1>2, <1>3, <1>4 DEF DistanceNext

LEMMA TableIsRight == ASSUME TableInv PROVE DistanceIsLevenshtein
<1> SUFFICES ASSUME distance # Undecided
             PROVE  /\ right \in Within(left, distance)
                    /\ distance > 0 => right \notin Within(left, distance - 1)
  BY DEF DistanceIsLevenshtein
<1>1. /\ left \in Seq(Letters) /\ right \in Seq(Letters)
      /\ IsCell(left, right, Len(left), Len(right), distance)
  BY DEF TableInv
<1>2. distance \in Nat /\ Plan(Plans(left, right), Len(left), Len(right), distance)
  BY <1>1 DEF IsCell
<1>3. right \in Within(left, distance)
  BY <1>1, <1>2, PlansAreEdits
<1>4. ASSUME distance > 0, right \in Within(left, distance - 1) PROVE FALSE
  <2>1. distance - 1 \in Nat
    BY <1>2, <1>4
  <2>2. Plan(Plans(left, right), Len(left), Len(right), distance - 1)
    BY <1>1, <1>4, <2>1, EditsArePlanned
  <2>3. distance <= distance - 1
    BY <1>1, <2>1, <2>2 DEF IsCell
  <2>4. QED
    BY <1>2, <2>3
<1>5. QED
  BY <1>3, <1>4

(* The two rows that change places hold the least number of insertions,     *)
(* deletions and substitutions between the SKUs, whatever their length.     *)
THEOREM DistanceFound == DistanceSpec => []DistanceIsLevenshtein
<1>1. DistanceInit => TableInv
  BY TableStarts
<1>2. TableInv /\ [DistanceNext]_distanceVars => TableInv'
  BY TableStep
<1>3. TableInv => DistanceIsLevenshtein
  BY TableIsRight
<1>4. QED
  BY <1>1, <1>2, <1>3, PTL DEF DistanceSpec
=============================================================================
