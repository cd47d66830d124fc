--------------------------- MODULE TotalsTheorems ---------------------------
(***************************************************************************)
(* What the sum of Totals does when rows are added, removed or changed, and*)
(* what a listing of Listing holds.                                        *)
(***************************************************************************)
EXTENDS Totals, Listing, FiniteSetTheorems, FunctionTheorems, TLAPS

\* The units of finitely many rows are finitely many, so a sum (the _sum of an
\* aggregate in lib/balances.ts) is a natural number.
LEMMA TotalType ==
    ASSUME NEW S, IsFiniteSet(S), NEW f, \A x \in S : f[x] \in Nat
    PROVE  IsFiniteSet(Units(S, f)) /\ Total(S, f) \in Nat
<1> DEFINE box == [x \in S |-> {x} \X (1 .. f[x])]
           T == {{x} \X (1 .. f[x]) : x \in S}
<1>1. box \in Surjection(S, T)
  BY DEF Surjection
<1>2. IsFiniteSet(T)
  BY <1>1, FS_Surjection
<1>3. ASSUME NEW x \in S
      PROVE  IsFiniteSet({x} \X (1 .. f[x]))
  <2>1. IsFiniteSet({x})
    BY FS_Singleton
  <2>2. f[x] \in Int
    OBVIOUS
  <2>3. IsFiniteSet(1 .. f[x])
    BY <2>2, FS_Interval
  <2> QED
    BY <2>1, <2>3, FS_Product
<1>4. IsFiniteSet(UNION T)
  BY <1>2, <1>3, FS_UNION
<1> QED
  BY <1>4, FS_CardinalityType DEF Units, Total

\* A sum depends on the amounts of its own rows only.
LEMMA TotalSame ==
    ASSUME NEW S, NEW f, NEW g, \A x \in S : f[x] = g[x]
    PROVE  Total(S, f) = Total(S, g)
<1>1. {{x} \X (1 .. f[x]) : x \in S} = {{x} \X (1 .. g[x]) : x \in S}
  OBVIOUS
<1> QED
  BY <1>1 DEF Units, Total

\* A new row adds its amount.
LEMMA TotalAdd ==
    ASSUME NEW S, IsFiniteSet(S), NEW f, NEW x, x \notin S,
           \A y \in S \union {x} : f[y] \in Nat
    PROVE  Total(S \union {x}, f) = Total(S, f) + f[x]
<1> DEFINE B == {x} \X (1 .. f[x])
<1>1. Units(S \union {x}, f) = Units(S, f) \union B
  BY DEF Units
<1>2. Units(S, f) \intersect B = {}
  BY DEF Units
<1>3. IsFiniteSet(B) /\ Cardinality(B) = f[x]
  <2>1. IsFiniteSet({x}) /\ Cardinality({x}) = 1
    BY FS_Singleton
  <2>2. IsFiniteSet(1 .. f[x]) /\ Cardinality(1 .. f[x]) = f[x]
    BY FS_Interval
  <2> QED
    BY <2>1, <2>2, FS_Product
<1>4. IsFiniteSet(Units(S, f)) /\ Total(S, f) \in Nat
  BY TotalType
<1>5. Cardinality(Units(S, f) \union B) = Cardinality(Units(S, f)) + Cardinality(B) - 0
  BY <1>2, <1>3, <1>4, FS_Union, FS_EmptySet
<1>6. Total(S \union {x}, f) = Cardinality(Units(S, f) \union B)
  BY <1>1 DEF Total
<1>7. Total(S, f) = Cardinality(Units(S, f))
  BY DEF Total
<1> HIDE DEF B
<1> QED
  BY <1>3, <1>4, <1>5, <1>6, <1>7

\* More rows do not make a sum smaller.
LEMMA TotalMonotone ==
    ASSUME NEW S, NEW T, IsFiniteSet(T), S \subseteq T,
           NEW f, \A x \in T : f[x] \in Nat
    PROVE  Total(S, f) <= Total(T, f)
<1>1. Units(S, f) \subseteq Units(T, f)
  BY DEF Units
<1>2. IsFiniteSet(Units(T, f))
  BY TotalType
<1> QED
  BY <1>1, <1>2, FS_Subset DEF Total

\* The sum of a table that a step changed: more rows, the old ones unchanged.
LEMMA TotalGrows ==
    ASSUME NEW S, NEW T, IsFiniteSet(T), S \subseteq T, NEW f, NEW g,
           \A x \in S : f[x] = g[x], \A x \in T : g[x] \in Nat
    PROVE  Total(S, f) <= Total(T, g)
<1>1. Total(S, f) = Total(S, g)
  BY TotalSame
<1> QED
  BY <1>1, TotalMonotone

\* The sum of a table to which a step added row x: the sum without it, and its
\* amount.
LEMMA TotalSplit ==
    ASSUME NEW T, IsFiniteSet(T), NEW x \in T, NEW g, \A y \in T : g[y] \in Nat
    PROVE  Total(T, g) = Total(T \ {x}, g) + g[x]
<1> DEFINE S == T \ {x}
<1>1. IsFiniteSet(S) /\ x \notin S /\ T = S \union {x}
  BY FS_RemoveElement
<1> HIDE DEF S
<1>2. \A y \in S \union {x} : g[y] \in Nat
  BY <1>1
<1>3. Total(S \union {x}, g) = Total(S, g) + g[x]
  BY <1>1, <1>2, TotalAdd
<1> QED
  BY <1>1, <1>3 DEF S
-----------------------------------------------------------------------------
\* The elements before another one are finitely many, and fewer than those
\* before what follows it.
LEMMA PrecedingGrows ==
    ASSUME NEW S, IsFiniteSet(S), NEW R, Orders(R, S),
           NEW x \in S
    PROVE  /\ Cardinality(Preceding(S, R, x)) \in 0 .. Cardinality(S) - 1
           /\ Cardinality(S) \in Nat
           /\ \A y \in S : <<x, y>> \in R =>
                Cardinality(Preceding(S, R, x)) < Cardinality(Preceding(S, R, y))
<1> DEFINE below(y) == Preceding(S, R, y)
<1>1. /\ \A y \in S : <<y, y>> \notin R
      /\ \A y, z, u \in S : <<y, z>> \in R /\ <<z, u>> \in R => <<y, u>> \in R
  BY DEF Orders
<1>2. \A y \in S : below(y) \in SUBSET (S \ {y})
  BY <1>1 DEF Preceding
<1>3. \A y \in S : IsFiniteSet(S \ {y}) /\ Cardinality(S \ {y}) = Cardinality(S) - 1
  BY FS_RemoveElement
<1>4. \A y \in S : /\ IsFiniteSet(below(y)) /\ Cardinality(below(y)) \in Nat
                   /\ Cardinality(below(y)) <= Cardinality(S) - 1
  <2> SUFFICES ASSUME NEW y \in S
               PROVE  /\ IsFiniteSet(below(y)) /\ Cardinality(below(y)) \in Nat
                      /\ Cardinality(below(y)) <= Cardinality(S) - 1
    OBVIOUS
  <2>1. IsFiniteSet(below(y)) /\ Cardinality(below(y)) <= Cardinality(S \ {y})
    BY <1>2, <1>3, FS_Subset
  <2> QED
    BY <1>3, <2>1, FS_CardinalityType
<1>5. Cardinality(S) \in Nat
  BY FS_CardinalityType
<1>6. ASSUME NEW y \in S, <<x, y>> \in R
      PROVE  Cardinality(below(x)) < Cardinality(below(y))
  <2>1. below(x) \in SUBSET below(y) /\ x \in below(y) /\ x \notin below(x)
    BY <1>1, <1>6 DEF Preceding
  <2>2. /\ Cardinality(below(x)) <= Cardinality(below(y))
        /\ Cardinality(below(y)) # Cardinality(below(x))
    BY <1>4, <2>1, FS_Subset
  <2> QED
    BY <1>4, <2>2
<1> QED
  BY <1>4, <1>5, <1>6

\* A listing has every element once, in order.
LEMMA ListedOnce ==
    ASSUME NEW S, IsFiniteSet(S), NEW R, Orders(R, S)
    PROVE  /\ Cardinality(S) \in Nat
           /\ Listed(S, R) \in Bijection(1 .. Cardinality(S), S)
           /\ \A i, j \in 1 .. Cardinality(S) : i < j => <<Listed(S, R)[i], Listed(S, R)[j]>> \in R
           /\ \A n \in 1 .. Cardinality(S) :
                Cardinality(Preceding(S, R, Listed(S, R)[n])) = n - 1
<1> DEFINE N == Cardinality(S)
           rank == [x \in S |-> Cardinality(Preceding(S, R, x)) + 1]
           L == Listed(S, R)
<1>1. N \in Nat /\ IsFiniteSet(1 .. N) /\ Cardinality(1 .. N) = N
  BY FS_CardinalityType, FS_Interval
<1>2. \A x \in S : /\ Cardinality(Preceding(S, R, x)) \in 0 .. N - 1
                   /\ \A y \in S : <<x, y>> \in R =>
                        Cardinality(Preceding(S, R, x)) < Cardinality(Preceding(S, R, y))
  BY PrecedingGrows
<1>3. \A x, y \in S : x # y => <<x, y>> \in R \/ <<y, x>> \in R
  BY DEF Orders
<1> HIDE DEF N
<1>a. \A x \in S : rank[x] = Cardinality(Preceding(S, R, x)) + 1
  OBVIOUS
<1>4. rank \in [S -> 1 .. N] /\ \A x, y \in S : <<x, y>> \in R => rank[x] < rank[y]
  BY <1>1, <1>2
<1> HIDE DEF rank
<1>5. \A x, y \in S : rank[x] = rank[y] => x = y
  <2> SUFFICES ASSUME NEW x \in S, NEW y \in S, x # y PROVE rank[x] # rank[y]
    OBVIOUS
  <2>1. rank[x] \in 1 .. N /\ rank[y] \in 1 .. N
    BY <1>4
  <2>2. rank[x] < rank[y] \/ rank[y] < rank[x]
    BY <1>3, <1>4
  <2> QED
    BY <1>1, <2>1, <2>2
<1>6. rank \in Injection(S, 1 .. N)
  BY <1>4, <1>5, Fun_IsInj
<1>7. rank \in Surjection(S, 1 .. N)
  BY <1>1, <1>6, FS_Injection DEF N
<1>8. \A n \in 1 .. N : \E x \in S : rank[x] = n
  BY <1>7, Fun_SurjectionProperties
<1>9. \A n \in 1 .. N : L[n] \in S /\ rank[L[n]] = n
  <2> SUFFICES ASSUME NEW n \in 1 .. N PROVE L[n] \in S /\ rank[L[n]] = n
    OBVIOUS
  <2>1. \E x \in S : Cardinality(Preceding(S, R, x)) = n - 1
    <3>1. PICK x \in S : rank[x] = n
      BY <1>8
    <3>2. Cardinality(Preceding(S, R, x)) \in 0 .. N - 1 /\ rank[x] = Cardinality(Preceding(S, R, x)) + 1
      BY <1>2, <1>a
    <3> QED
      BY <1>1, <3>1, <3>2
  <2>2. L[n] = CHOOSE x \in S : Cardinality(Preceding(S, R, x)) = n - 1
    BY DEF Listed, N
  <2>3. L[n] \in S /\ Cardinality(Preceding(S, R, L[n])) = n - 1
    BY <2>1, <2>2
  <2> QED
    BY <1>1, <1>a, <2>3
<1>10. \A x \in S : L[rank[x]] = x
  BY <1>4, <1>5, <1>9
<1>11. L \in [1 .. N -> S]
  BY <1>9 DEF Listed, N
<1>12. L \in Bijection(1 .. N, S)
  <2>1. \A i, j \in 1 .. N : L[i] = L[j] => i = j
    BY <1>9
  <2>2. \A x \in S : \E n \in 1 .. N : L[n] = x
    BY <1>4, <1>10
  <2> QED
    BY <1>11, <2>1, <2>2, Fun_IsBij
<1>13. \A i, j \in 1 .. N : i < j => <<L[i], L[j]>> \in R
  <2> SUFFICES ASSUME NEW i \in 1 .. N, NEW j \in 1 .. N, i < j PROVE <<L[i], L[j]>> \in R
    OBVIOUS
  <2>1. L[i] \in S /\ L[j] \in S /\ rank[L[i]] = i /\ rank[L[j]] = j
    BY <1>9
  <2>2. L[i] # L[j] /\ ~(rank[L[j]] < rank[L[i]])
    BY <1>1, <2>1
  <2> QED
    BY <1>3, <1>4, <2>1, <2>2
<1>14. \A n \in 1 .. N : Cardinality(Preceding(S, R, L[n])) = n - 1
  <2> SUFFICES ASSUME NEW n \in 1 .. N
               PROVE  Cardinality(Preceding(S, R, L[n])) = n - 1
    OBVIOUS
  <2>1. L[n] \in S /\ rank[L[n]] = n
    BY <1>9
  <2>2. /\ Cardinality(Preceding(S, R, L[n])) \in 0 .. N - 1
        /\ rank[L[n]] = Cardinality(Preceding(S, R, L[n])) + 1
    BY <1>2, <1>a, <2>1
  <2> QED
    BY <1>1, <2>1, <2>2
<1> QED
  BY <1>1, <1>12, <1>13, <1>14 DEF N

\* f maps S, in the order R, one to one to T, in the order Q.
Carries(f, S, R, T, Q) ==
    /\ IsFiniteSet(S) /\ Orders(R, S) /\ Orders(Q, T)
    /\ f \in Bijection(S, T)
    /\ \A x, y \in S : <<x, y>> \in R => <<f[x], f[y]>> \in Q

\* The listing of a set that another one is mapped to one to one, in the same
\* order, lists what the elements of the other are mapped to.
LEMMA ListedMoved ==
    ASSUME NEW f, NEW S, NEW R, NEW T, NEW Q, Carries(f, S, R, T, Q)
    PROVE  /\ IsFiniteSet(T) /\ Cardinality(T) = Cardinality(S)
           /\ \A n \in 1 .. Cardinality(S) : Listed(T, Q)[n] = f[Listed(S, R)[n]]
<1>0. /\ IsFiniteSet(S) /\ Orders(R, S) /\ Orders(Q, T)
      /\ f \in Bijection(S, T)
      /\ \A x, y \in S : <<x, y>> \in R => <<f[x], f[y]>> \in Q
  BY DEF Carries
<1>1. IsFiniteSet(T) /\ Cardinality(T) = Cardinality(S)
  BY <1>0, FS_Bijection DEF ExistsBijection
<1>2. /\ f \in [S -> T]
      /\ \A x, y \in S : f[x] = f[y] => x = y
      /\ \A t \in T : \E x \in S : f[x] = t
  BY <1>0, Fun_BijectionProperties
<1>3. /\ \A x, y \in S : x # y => <<x, y>> \in R \/ <<y, x>> \in R
      /\ \A x \in S : <<x, x>> \notin R
      /\ \A x, y \in T : x # y => <<x, y>> \in Q \/ <<y, x>> \in Q
      /\ \A x, y \in T : ~(<<x, y>> \in Q /\ <<y, x>> \in Q)
  BY <1>0 DEF Orders
<1>4. \A x, y \in S : <<x, y>> \in R <=> <<f[x], f[y]>> \in Q
  BY <1>0, <1>2, <1>3
<1>5. ASSUME NEW x \in S
      PROVE  Cardinality(Preceding(T, Q, f[x])) = Cardinality(Preceding(S, R, x))
  <2> DEFINE A == Preceding(S, R, x)
             B == Preceding(T, Q, f[x])
             g == [y \in A |-> f[y]]
  <2>1. A \in SUBSET S /\ IsFiniteSet(A)
    BY <1>0, FS_Subset DEF Preceding
  <2>2. g \in [A -> B] /\ \A y, z \in A : g[y] = g[z] => y = z
    BY <1>2, <1>4, <1>5 DEF Preceding
  <2>3. \A t \in B : \E y \in A : g[y] = t
    BY <1>2, <1>4, <1>5 DEF Preceding
  <2> HIDE DEF g, A, B
  <2>4. g \in Bijection(A, B)
    BY <2>2, <2>3, Fun_IsBij
  <2>5. Cardinality(B) = Cardinality(A)
    BY <2>1, <2>4, FS_Bijection DEF ExistsBijection
  <2> QED
    BY <2>5 DEF A, B
<1> DEFINE N == Cardinality(S)
           L == Listed(S, R)
           M == Listed(T, Q)
<1>6. /\ N \in Nat /\ L \in [1 .. N -> S] /\ M \in [1 .. N -> T]
      /\ \A n \in 1 .. N : Cardinality(Preceding(S, R, L[n])) = n - 1
      /\ \A n \in 1 .. N : Cardinality(Preceding(T, Q, M[n])) = n - 1
      /\ \A i, j \in 1 .. N : M[i] = M[j] => i = j
      /\ \A t \in T : \E n \in 1 .. N : M[n] = t
  <2>1. IsFiniteSet(S) /\ Orders(R, S) /\ IsFiniteSet(T) /\ Orders(Q, T) /\ Cardinality(T) = N
    BY <1>0, <1>1
  <2> HIDE DEF N
  <2>2. /\ Cardinality(S) \in Nat /\ L \in Bijection(1 .. Cardinality(S), S)
        /\ \A n \in 1 .. Cardinality(S) : Cardinality(Preceding(S, R, L[n])) = n - 1
    BY <2>1, ListedOnce
  <2>3. /\ M \in Bijection(1 .. Cardinality(T), T)
        /\ \A n \in 1 .. Cardinality(T) : Cardinality(Preceding(T, Q, M[n])) = n - 1
    BY <2>1, ListedOnce
  <2> HIDE DEF L, M
  <2>4. N \in Nat /\ L \in Bijection(1 .. N, S) /\ M \in Bijection(1 .. N, T)
    BY <2>1, <2>2, <2>3 DEF N
  <2>5. /\ \A n \in 1 .. N : Cardinality(Preceding(S, R, L[n])) = n - 1
        /\ \A n \in 1 .. N : Cardinality(Preceding(T, Q, M[n])) = n - 1
    BY <2>1, <2>2, <2>3 DEF N
  <2> QED
    BY <2>4, <2>5, Fun_BijectionProperties
<1> HIDE DEF N, L, M
<1>7. \A n \in 1 .. N : M[n] = f[L[n]]
  <2> SUFFICES ASSUME NEW n \in 1 .. N PROVE M[n] = f[L[n]]
    OBVIOUS
  <2>1. L[n] \in S /\ f[L[n]] \in T
    BY <1>2, <1>6
  <2>2. PICK k \in 1 .. N : M[k] = f[L[n]]
    BY <1>6, <2>1
  <2>3. k - 1 = n - 1
    BY <1>5, <1>6, <2>1, <2>2
  <2>4. k = n
    BY <1>6, <2>3
  <2> QED
    BY <2>2, <2>4
<1> QED
  BY <1>1, <1>7 DEF N, L, M
=============================================================================
