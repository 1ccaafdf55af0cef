-------------------------- MODULE QuantitiesProofs --------------------------
(***************************************************************************)
(* What Total of module Quantities computes: nothing for no row, a row's   *)
(* quantity more for one more row, and never less for more rows.           *)
(***************************************************************************)
EXTENDS Quantities, FiniteSetTheorems, FunctionTheorems, TLAPS

\* A finite set of rows has finitely many units, so its total is a number.
THEOREM TotalType ==
  ASSUME NEW S, IsFiniteSet(S), NEW qty, \A x \in S : qty[x] \in Nat
  PROVE  IsFiniteSet(Units(S, qty)) /\ Total(S, qty) \in Nat
<1> DEFINE unitsOf(x) == {x} \X (1 .. qty[x])
           F == {unitsOf(x) : x \in S}
           f == [x \in S |-> unitsOf(x)]
<1>1. f \in Surjection(S, F)
  <2>1. f \in [S -> F]
    OBVIOUS
  <2>2. \A y \in F : \E x \in S : f[x] = y
    OBVIOUS
  <2> QED BY <2>1, <2>2 DEF Surjection
<1>2. IsFiniteSet(F)
  <2> HIDE DEF f, F
  <2> QED BY <1>1, FS_Surjection
<1>3. \A y \in F : IsFiniteSet(y)
  <2> SUFFICES ASSUME NEW x \in S PROVE IsFiniteSet(unitsOf(x))
    OBVIOUS
  <2>1. IsFiniteSet(1 .. qty[x])
    BY FS_Interval
  <2>2. IsFiniteSet({x})
    BY FS_Singleton
  <2> QED BY <2>1, <2>2, FS_Product
<1>4. IsFiniteSet(UNION F)
  <2> HIDE DEF F
  <2> QED BY <1>2, <1>3, FS_UNION
<1>5. IsFiniteSet(Units(S, qty))
  BY <1>4 DEF Units
<1> QED BY <1>5, FS_CardinalityType DEF Total

\* The sum over no rows is 0: coalesce(sum(quantity), 0).
THEOREM TotalEmpty ==
  ASSUME NEW qty
  PROVE  Total({}, qty) = 0
<1>1. Units({}, qty) = {}
  BY DEF Units
<1> QED BY <1>1, FS_EmptySet DEF Total

\* A new row adds its quantity to the sum.
THEOREM TotalAdd ==
  ASSUME NEW S, IsFiniteSet(S), NEW x, x \notin S, NEW qty,
         \A y \in S \cup {x} : qty[y] \in Nat
  PROVE  Total(S \cup {x}, qty) = Total(S, qty) + qty[x]
<1> DEFINE more == {x} \X (1 .. qty[x])
<1>0. qty[x] \in Nat
  OBVIOUS
<1>1. Units(S \cup {x}, qty) = Units(S, qty) \cup more
  BY DEF Units
<1>2. Units(S, qty) \cap more = {}
  BY DEF Units
<1>3. IsFiniteSet(more) /\ Cardinality(more) = qty[x]
  <2>1. IsFiniteSet(1 .. qty[x]) /\ Cardinality(1 .. qty[x]) = qty[x]
    <3> DEFINE n == qty[x]
    <3>1. n \in Int /\ 0 <= n
      BY <1>0
    <3> HIDE DEF n
    <3>2. /\ IsFiniteSet(1 .. n)
          /\ Cardinality(1 .. n) = IF 1 > n THEN 0 ELSE n - 1 + 1
      BY <3>1, FS_Interval
    <3>3. IsFiniteSet(1 .. n) /\ Cardinality(1 .. n) = n
      BY <3>1, <3>2
    <3> QED BY <3>3 DEF n
  <2>2. IsFiniteSet({x}) /\ Cardinality({x}) = 1
    BY FS_Singleton
  <2>3. /\ IsFiniteSet(more)
        /\ Cardinality(more) = Cardinality({x}) * Cardinality(1 .. qty[x])
    BY <2>1, <2>2, FS_Product, Zenon
  <2>4. 1 * qty[x] = qty[x]
    BY <1>0
  <2> QED BY <2>1, <2>2, <2>3, <2>4, Zenon
<1>4. IsFiniteSet(Units(S, qty)) /\ Cardinality(Units(S, qty)) \in Nat
  BY TotalType DEF Total
<1>5. Cardinality(Units(S, qty) \cap more) = 0
  BY <1>2, FS_EmptySet
<1>6. Cardinality(Units(S, qty) \cup more)
        = Cardinality(Units(S, qty)) + Cardinality(more)
          - Cardinality(Units(S, qty) \cap more)
  <2> HIDE DEF more
  <2> QED BY <1>3, <1>4, FS_Union
<1> HIDE DEF more
<1>7. Cardinality(Units(S, qty) \cup more) = Cardinality(Units(S, qty)) + qty[x]
  BY <1>0, <1>3, <1>4, <1>5, <1>6
<1> QED BY <1>1, <1>7, Zenon DEF Total

\* Fewer rows never sum to more.
THEOREM TotalMonotone ==
  ASSUME NEW T, IsFiniteSet(T), NEW S \in SUBSET T, NEW qty,
         \A x \in T : qty[x] \in Nat
  PROVE  Total(S, qty) <= Total(T, qty)
<1>1. Units(S, qty) \in SUBSET Units(T, qty)
  BY DEF Units
<1>2. IsFiniteSet(Units(T, qty))
  BY TotalType
<1> QED BY <1>1, <1>2, FS_Subset DEF Total

\* A sum is the same over rows that correspond one to one.
THEOREM TotalRenamed ==
  ASSUME NEW S, IsFiniteSet(S), NEW T, NEW f \in [S -> T],
         \A x, y \in S : f[x] = f[y] => x = y,
         NEW qty, \A x \in S : qty[x] \in Nat,
         NEW named, \A x \in S : named[f[x]] = qty[x]
  PROVE  Total({f[x] : x \in S}, named) = Total(S, qty)
<1> DEFINE U == Units(S, qty)
           V == Units({f[x] : x \in S}, named)
           g == [u \in U |-> <<f[u[1]], u[2]>>]
<1>1. IsFiniteSet(U)
  BY TotalType
<1>2. \A u \in U : u[1] \in S /\ u[2] \in 1 .. qty[u[1]] /\ u = <<u[1], u[2]>>
  BY DEF Units
<1>3. g \in [U -> V]
  <2> SUFFICES ASSUME NEW u \in U PROVE <<f[u[1]], u[2]>> \in V
    OBVIOUS
  <2>1. u[1] \in S /\ u[2] \in 1 .. named[f[u[1]]]
    BY <1>2
  <2> QED BY <2>1 DEF Units
<1>4. \A u, v \in U : g[u] = g[v] => u = v
  <2> SUFFICES ASSUME NEW u \in U, NEW v \in U, g[u] = g[v] PROVE u = v
    OBVIOUS
  <2>1. f[u[1]] = f[v[1]] /\ u[2] = v[2]
    OBVIOUS
  <2>2. u[1] = v[1]
    BY <1>2, <2>1
  <2> QED BY <1>2, <2>1, <2>2
<1>5. \A v \in V : \E u \in U : g[u] = v
  <2> SUFFICES ASSUME NEW v \in V PROVE \E u \in U : g[u] = v
    OBVIOUS
  <2>1. PICK x \in S : \E i \in 1 .. named[f[x]] : v = <<f[x], i>>
    BY DEF Units
  <2>2. PICK i \in 1 .. named[f[x]] : v = <<f[x], i>>
    BY <2>1
  <2>3. <<x, i>> \in U
    BY DEF Units
  <2>4. g[<<x, i>>] = <<f[x], i>>
    BY <2>3
  <2> QED BY <2>2, <2>3, <2>4, Zenon
<1>6. g \in Bijection(U, V)
  BY <1>3, <1>4, <1>5 DEF Bijection, Injection, Surjection, IsInjective
<1>7. Cardinality(U) = Cardinality(V)
  <2> HIDE DEF U, V, g
  <2>1. ExistsBijection(U, V)
    BY <1>6 DEF ExistsBijection
  <2> QED BY <1>1, <2>1, FS_Bijection
<1> QED BY <1>7 DEF Total

\* Total depends only on the quantities of the rows that are summed.
LEMMA TotalCongruence ==
  ASSUME NEW S, NEW p, NEW q, \A x \in S : p[x] = q[x]
  PROVE  Total(S, p) = Total(S, q)
<1>1. Units(S, p) = Units(S, q)
  BY DEF Units
<1> QED BY <1>1 DEF Total

\* Rows of no quantity sum to nothing.
LEMMA TotalOfNothing ==
  ASSUME NEW S, NEW qty, \A x \in S : qty[x] = 0
  PROVE  Total(S, qty) = 0
<1>1. Units(S, qty) = {}
  <2>1. \A x \in S : {x} \X (1 .. qty[x]) = {}
    OBVIOUS
  <2> QED BY <2>1 DEF Units
<1> QED BY <1>1, FS_EmptySet DEF Total

\* One unit more on one row is one unit more in every sum over that row.
LEMMA TotalOneMore ==
  ASSUME NEW S, IsFiniteSet(S), NEW qty, \A x \in S : qty[x] \in Nat,
         NEW b, NEW more, \A x \in S \ {b} : more[x] = qty[x],
         b \in S => more[b] = qty[b] + 1
  PROVE  Total(S, more) = IF b \in S THEN Total(S, qty) + 1 ELSE Total(S, qty)
<1>1. CASE b \notin S
  <2>1. \A x \in S : more[x] = qty[x]
    BY <1>1
  <2>2. Total(S, more) = Total(S, qty)
    BY <2>1, TotalCongruence
  <2> QED BY <1>1, <2>2
<1>2. CASE b \in S
  <2> DEFINE R == S \ {b}
  <2>1. R \cup {b} = S /\ b \notin R
    BY <1>2
  <2>2. IsFiniteSet(R)
    BY FS_Subset
  <2>3. \A x \in R \cup {b} : qty[x] \in Nat /\ more[x] \in Nat
    BY <1>2
  <2>4. /\ qty[b] \in Nat /\ more[b] = qty[b] + 1
        /\ \A x \in R : more[x] = qty[x] /\ qty[x] \in Nat
    BY <1>2
  <2> HIDE DEF R
  <2>5. Total(R \cup {b}, qty) = Total(R, qty) + qty[b]
    BY <2>1, <2>2, <2>3, TotalAdd
  <2>6. Total(R \cup {b}, more) = Total(R, more) + more[b]
    BY <2>1, <2>2, <2>3, TotalAdd
  <2>7. Total(R, more) = Total(R, qty)
    BY <2>4, TotalCongruence
  <2>8. Total(R, qty) \in Nat
    BY <2>2, <2>4, TotalType
  <2>9. /\ Total(S, qty) = Total(R, qty) + qty[b]
        /\ Total(S, more) = Total(R, qty) + more[b]
    BY <2>1, <2>5, <2>6, <2>7, Zenon
  <2>10. Total(S, more) = Total(S, qty) + 1
    BY <2>4, <2>8, <2>9
  <2> QED BY <1>2, <2>10
<1> QED BY <1>1, <1>2
=============================================================================
