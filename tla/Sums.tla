-------------------------------- MODULE Sums --------------------------------
(***************************************************************************)
(* What a sum over a finite set is: the recursive function by which the    *)
(* library folds a set has one solution, it is a natural number, and       *)
(* elements may be taken out in any order.  Each proof by induction takes  *)
(* the least number for which the claim fails.                             *)
(***************************************************************************)
EXTENDS Integers, FiniteSetsExt, FiniteSetTheorems, WellFoundedInduction, TLAPS

\* A set of natural numbers that has a member has a least one.
LEMMA LeastNumber ==
    ASSUME NEW S, S \subseteq Nat, S # {}
    PROVE  \E q \in S : \A o \in S : q <= o
<1>1. PICK R : R = OpToRel(<, Nat) OBVIOUS
<1>2. IsWellFoundedOn(R, Nat) BY <1>1, NatLessThanWellFounded
<1>3. PICK q \in S : \A o \in S : ~(<<o, q>> \in R) BY <1>2, WFMin
<1>4. ASSUME NEW o \in S PROVE q <= o
  <2>1. q \in Nat /\ o \in Nat /\ ~(<<o, q>> \in R) BY <1>3
  <2>2. ~(o < q) BY <1>1, <2>1 DEF OpToRel
  <2> QED BY <2>1, <2>2
<1> QED BY <1>3, <1>4

\* The element that a fold takes out of a set first.
First(s) == CHOOSE x \in s : TRUE

\* g adds F up over the sets in D.
Solves(g, F, D) ==
    \A s \in D : g[s] = IF s = {} THEN 0 ELSE F[First(s)] + g[s \ {First(s)}]

Adds(g, F, D) == g \in [D -> Nat] /\ Solves(g, F, D)

\* The element taken out first is one of the set.
LEMMA FirstIn == ASSUME NEW s, s # {} PROVE First(s) \in s
BY DEF First

\* The subsets with at most n elements.
UpTo(S, n) == {s \in SUBSET S : Cardinality(s) <= n}

\* A set without one of its elements has one less.
LEMMA Smaller ==
    ASSUME NEW S, IsFiniteSet(S), NEW s \in SUBSET S, NEW x \in s
    PROVE  /\ IsFiniteSet(s) /\ Cardinality(s) \in Nat /\ Cardinality(s) > 0
           /\ s \ {x} \in SUBSET S
           /\ Cardinality(s \ {x}) = Cardinality(s) - 1
<1>1. IsFiniteSet(s) BY FS_Subset
<1>2. Cardinality(s) \in Nat BY <1>1, FS_CardinalityType
<1>3. Cardinality(s \ {x}) = Cardinality(s) - 1 BY <1>1, FS_RemoveElement
<1>4. Cardinality(s) # 0 BY <1>1, FS_EmptySet
<1> QED BY <1>1, <1>2, <1>3, <1>4

\* The sums over the sets of at most n elements exist.
LEMMA SumUpTo ==
    ASSUME NEW S, IsFiniteSet(S), NEW F, \A x \in S : F[x] \in Nat, NEW n \in Nat
    PROVE  \E g : Adds(g, F, UpTo(S, n))
<1> DEFINE Bad == {k \in Nat : ~\E g : Adds(g, F, UpTo(S, k))}
<1>1. SUFFICES ASSUME Bad # {} PROVE FALSE OBVIOUS
<1>2. PICK m \in Bad : \A o \in Bad : m <= o
  <2>1. Bad \subseteq Nat OBVIOUS
  <2> HIDE DEF Bad
  <2> QED BY <1>1, <2>1, LeastNumber
<1>3. ASSUME NEW s \in UpTo(S, 0) PROVE s = {}
  <2>1. IsFiniteSet(s) BY FS_Subset DEF UpTo
  <2>2. Cardinality(s) = 0 BY <2>1, FS_CardinalityType DEF UpTo
  <2> QED BY <2>1, <2>2, FS_EmptySet
<1>4. m # 0
  <2>1. PICK g : g = [s \in UpTo(S, 0) |-> 0] OBVIOUS
  <2>2. Adds(g, F, UpTo(S, 0)) BY <1>3, <2>1 DEF Adds, Solves
  <2> QED BY <2>2
<1>5. m - 1 \in Nat BY <1>4
<1>6. m - 1 \notin Bad
  <2> HIDE DEF Bad
  <2>1. m \in Nat BY DEF Bad
  <2> QED BY <1>2, <1>5, <2>1
<1>7. PICK g : Adds(g, F, UpTo(S, m - 1)) BY <1>5, <1>6
<1>8. PICK h : h = [s \in UpTo(S, m) |->
                      IF s = {} THEN 0 ELSE F[First(s)] + g[s \ {First(s)}]]
  OBVIOUS
<1>9. ASSUME NEW s \in UpTo(S, m), s # {}
      PROVE  /\ First(s) \in S /\ s \ {First(s)} \in UpTo(S, m - 1)
             /\ s \ {First(s)} \in UpTo(S, m)
  <2>1. First(s) \in s BY <1>9, FirstIn
  <2>2. Cardinality(s) \in Nat /\ Cardinality(s \ {First(s)}) = Cardinality(s) - 1
        /\ s \ {First(s)} \in SUBSET S
    BY <2>1, Smaller DEF UpTo
  <2> QED BY <1>5, <2>1, <2>2 DEF UpTo
<1>10. ASSUME NEW s \in UpTo(S, m - 1) PROVE s \in UpTo(S, m) /\ h[s] = g[s]
  <2>1. s \in UpTo(S, m)
    <3>1. Cardinality(s) \in Nat BY FS_Subset, FS_CardinalityType DEF UpTo
    <3> QED BY <1>5, <3>1 DEF UpTo
  <2>2. g[s] = IF s = {} THEN 0 ELSE F[First(s)] + g[s \ {First(s)}] BY <1>7 DEF Adds, Solves
  <2> QED BY <1>8, <2>1, <2>2
<1>11. h \in [UpTo(S, m) -> Nat]
  <2>1. ASSUME NEW s \in UpTo(S, m) PROVE h[s] \in Nat
    <3>1. CASE s = {} BY <1>8, <3>1
    <3>2. CASE s # {}
      <4>1. F[First(s)] \in Nat /\ g[s \ {First(s)}] \in Nat BY <1>7, <1>9, <3>2 DEF Adds, Solves
      <4> QED BY <1>8, <3>2, <4>1
    <3> QED BY <3>1, <3>2
  <2> QED BY <1>8, <2>1
<1>12. Adds(h, F, UpTo(S, m)) BY <1>8, <1>9, <1>10, <1>11 DEF Adds, Solves
<1> QED BY <1>12

\* Over a finite set the sums of all its subsets exist.
LEMMA SumExists ==
    ASSUME NEW S, IsFiniteSet(S), NEW F, \A x \in S : F[x] \in Nat
    PROVE  \E g : Adds(g, F, SUBSET S)
<1>1. Cardinality(S) \in Nat BY FS_CardinalityType
<1>2. UpTo(S, Cardinality(S)) = SUBSET S BY FS_Subset DEF UpTo
<1>3. \E g : Adds(g, F, UpTo(S, Cardinality(S))) BY <1>1, SumUpTo
<1> QED BY <1>2, <1>3

\* A solution of the recursion is the sum, also one that is only known on the
\* subsets of a subset.
LEMMA SumUnique ==
    ASSUME NEW S, IsFiniteSet(S), NEW F, NEW g, Adds(g, F, SUBSET S),
           NEW T \in SUBSET S, NEW h,
           Solves(h, F, SUBSET T)
    PROVE  \A s \in SUBSET T : h[s] = g[s]
<1> DEFINE Bad == {k \in Nat : \E s \in SUBSET T : Cardinality(s) = k /\ h[s] # g[s]}
<1>1. ASSUME NEW s \in SUBSET T, h[s] # g[s] PROVE FALSE
  <2>1. Cardinality(s) \in Nat BY FS_Subset, FS_CardinalityType
  <2>2. Bad # {} /\ Bad \subseteq Nat BY <1>1, <2>1
  <2>3. PICK m \in Bad : \A o \in Bad : m <= o
    <3> HIDE DEF Bad
    <3> QED BY <2>2, LeastNumber
  <2>4. PICK z \in SUBSET T : Cardinality(z) = m /\ h[z] # g[z] OBVIOUS
  <2>5. z # {} BY <2>4 DEF Adds, Solves
  <2>6. PICK x \in z : x = First(z) BY <2>5, FirstIn
  <2>7. z \in SUBSET S /\ z \ {x} \in SUBSET T OBVIOUS
  <2>8. Cardinality(z \ {x}) = m - 1 /\ m \in Nat /\ m > 0 BY <2>4, <2>7, Smaller
  <2>9. h[z \ {x}] = g[z \ {x}]
    <3>1. SUFFICES ASSUME h[z \ {x}] # g[z \ {x}] PROVE FALSE OBVIOUS
    <3>2. m - 1 \in Bad BY <2>7, <2>8, <3>1
    <3> HIDE DEF Bad
    <3> QED BY <2>3, <2>8, <3>2
  <2>10. h[z] = F[x] + h[z \ {x}] /\ g[z] = F[x] + g[z \ {x}]
    BY <2>5, <2>6, <2>7 DEF Adds, Solves
  <2> QED BY <2>4, <2>9, <2>10
<1> QED BY <1>1

\* Elements are added in any order.
LEMMA SumTakes ==
    ASSUME NEW S, IsFiniteSet(S), NEW F, \A x \in S : F[x] \in Nat, NEW g, Adds(g, F, SUBSET S),
           NEW T \in SUBSET S, NEW x \in T
    PROVE  g[T] = F[x] + g[T \ {x}] /\ g[T] \in Nat /\ g[T \ {x}] \in Nat
<1> DEFINE Bad == {k \in Nat : \E s \in SUBSET S : \E y \in s :
                      Cardinality(s) = k /\ g[s] # F[y] + g[s \ {y}]}
<1>1. ASSUME g[T] # F[x] + g[T \ {x}] PROVE FALSE
  <2>1. Cardinality(T) \in Nat BY FS_Subset, FS_CardinalityType
  <2>2. Bad # {} /\ Bad \subseteq Nat BY <1>1, <2>1
  <2>3. PICK m \in Bad : \A o \in Bad : m <= o
    <3> HIDE DEF Bad
    <3> QED BY <2>2, LeastNumber
  <2>4. PICK z \in SUBSET S : \E y \in z : Cardinality(z) = m /\ g[z] # F[y] + g[z \ {y}]
    OBVIOUS
  <2>5. PICK y \in z : Cardinality(z) = m /\ g[z] # F[y] + g[z \ {y}] BY <2>4
  <2>6. PICK w \in z : w = First(z) BY FirstIn
  <2>7. g[z] = F[w] + g[z \ {w}] BY <2>6 DEF Adds, Solves
  <2>8. w # y BY <2>5, <2>7
  <2>9. m \in Nat /\ m > 0 /\ Cardinality(z \ {w}) = m - 1 /\ Cardinality(z \ {y}) = m - 1
    BY <2>5, Smaller
  <2>10. m - 1 \notin Bad
    <3> HIDE DEF Bad
    <3> QED BY <2>3, <2>9
  <2>11. ASSUME NEW s \in SUBSET S, NEW v \in s, Cardinality(s) = m - 1
         PROVE  g[s] = F[v] + g[s \ {v}]
    <3>1. m - 1 \in Nat BY <2>9
    <3> QED BY <2>10, <2>11, <3>1
  <2>12. g[z \ {w}] = F[y] + g[(z \ {w}) \ {y}] /\ g[z \ {y}] = F[w] + g[(z \ {y}) \ {w}]
    <3>1. PICK p \in SUBSET S, q \in SUBSET S : p = z \ {w} /\ q = z \ {y} OBVIOUS
    <3>2. y \in p /\ w \in q BY <2>8, <3>1
    <3>3. Cardinality(p) = m - 1 /\ Cardinality(q) = m - 1 BY <2>9, <3>1
    <3>4. g[p] = F[y] + g[p \ {y}] BY <2>11, <3>2, <3>3
    <3>5. g[q] = F[w] + g[q \ {w}] BY <2>11, <3>2, <3>3
    <3> QED BY <3>1, <3>4, <3>5
  <2>13. (z \ {w}) \ {y} = (z \ {y}) \ {w} OBVIOUS
  <2>14. F[w] \in Nat /\ F[y] \in Nat OBVIOUS
  <2>15. g[(z \ {w}) \ {y}] \in Nat BY DEF Adds, Solves
  <2>16. PICK a \in Nat, b \in Nat, r \in Nat :
            a = F[w] /\ b = F[y] /\ r = g[(z \ {w}) \ {y}] BY <2>14, <2>15
  <2>17. g[z \ {w}] = b + r /\ g[z \ {y}] = a + r BY <2>12, <2>13, <2>16
  <2>18. g[z] = a + (b + r) /\ ~(g[z] = b + (a + r)) BY <2>5, <2>7, <2>16, <2>17
  <2> QED BY <2>16, <2>18
<1> QED BY <1>1 DEF Adds, Solves

-----------------------------------------------------------------------------
(* The library's sum                                                        *)

\* The sum of F over S.
Total(F, S) == MapThenSumSet(LAMBDA x : F[x], S)

\* The library's fold is the sum.
LEMMA TotalIs ==
    ASSUME NEW S, IsFiniteSet(S), NEW F, \A x \in S : F[x] \in Nat, NEW g, Adds(g, F, SUBSET S),
           NEW T \in SUBSET S
    PROVE  Total(F, T) = g[T]
<1> DEFINE iter[s \in SUBSET T] ==
             IF s = {} THEN 0
             ELSE LET x == CHOOSE x \in s : TRUE IN F[x] + iter[s \ {x}]
<1>1. Total(F, T) = iter[T]
  BY DEF Total, MapThenSumSet, MapThenFoldSet
<1>2. PICK h : h = [s \in SUBSET T |-> g[s]] OBVIOUS
<1>3. h = [s \in SUBSET T |->
             IF s = {} THEN 0
             ELSE LET x == CHOOSE x \in s : TRUE IN F[x] + h[s \ {x}]]
  <2>1. ASSUME NEW s \in SUBSET T
        PROVE  h[s] = IF s = {} THEN 0 ELSE F[First(s)] + h[s \ {First(s)}]
    BY <1>2 DEF Adds, Solves
  <2> QED BY <1>2, <2>1 DEF First
<1>4. iter = [s \in SUBSET T |->
                IF s = {} THEN 0
                ELSE LET x == CHOOSE x \in s : TRUE IN F[x] + iter[s \ {x}]]
  BY <1>3
<1>5. PICK i : i = iter OBVIOUS
<1> HIDE DEF iter
<1>6. i = [s \in SUBSET T |->
             IF s = {} THEN 0 ELSE F[First(s)] + i[s \ {First(s)}]]
  BY <1>4, <1>5 DEF First
<1>7. Solves(i, F, SUBSET T) BY <1>6 DEF Solves
<1>8. \A s \in SUBSET T : i[s] = g[s] BY <1>7, SumUnique
<1> QED BY <1>1, <1>5, <1>8

\* Nothing adds up to zero.
LEMMA TotalEmpty == ASSUME NEW F PROVE Total(F, {}) = 0
<1>1. PICK g : Adds(g, F, SUBSET {}) BY SumExists, FS_EmptySet
<1>2. Total(F, {}) = g[{}] BY <1>1, TotalIs, FS_EmptySet
<1> QED BY <1>1, <1>2 DEF Adds, Solves

\* Any element may be taken out of a sum.
LEMMA TotalTakes ==
    ASSUME NEW S, IsFiniteSet(S), NEW F, \A x \in S : F[x] \in Nat, NEW x \in S
    PROVE  Total(F, S) = F[x] + Total(F, S \ {x})
<1>1. PICK g : Adds(g, F, SUBSET S) BY SumExists
<1>2. Total(F, S) = g[S] /\ Total(F, S \ {x}) = g[S \ {x}] BY <1>1, TotalIs
<1>3. g[S] = F[x] + g[S \ {x}] BY <1>1, SumTakes
<1> QED BY <1>2, <1>3

\* A sum of natural numbers is one.
LEMMA TotalNat ==
    ASSUME NEW S, IsFiniteSet(S), NEW F, \A x \in S : F[x] \in Nat
    PROVE  Total(F, S) \in Nat
<1>1. PICK g : Adds(g, F, SUBSET S) BY SumExists
<1>2. Total(F, S) = g[S] BY <1>1, TotalIs
<1> QED BY <1>1, <1>2 DEF Adds

\* A new element adds its own value.
LEMMA TotalPuts ==
    ASSUME NEW S, IsFiniteSet(S), NEW F, \A x \in S : F[x] \in Nat,
           NEW x, x \notin S, F[x] \in Nat
    PROVE  /\ IsFiniteSet(S \cup {x})
           /\ Total(F, S \cup {x}) = F[x] + Total(F, S)
<1>1. IsFiniteSet(S \cup {x}) BY FS_AddElement
<1>2. PICK U : U = S \cup {x} OBVIOUS
<1>3. IsFiniteSet(U) /\ x \in U /\ (\A y \in U : F[y] \in Nat) /\ U \ {x} = S BY <1>1, <1>2
<1>4. Total(F, U) = F[x] + Total(F, U \ {x}) BY <1>3, TotalTakes
<1> QED BY <1>1, <1>2, <1>3, <1>4

\* The sum depends on F over the set alone.
LEMMA TotalSame ==
    ASSUME NEW S, IsFiniteSet(S), NEW F, \A x \in S : F[x] \in Nat,
           NEW G, \A x \in S : G[x] = F[x]
    PROVE  Total(G, S) = Total(F, S)
<1>1. PICK g : Adds(g, F, SUBSET S) BY SumExists
<1>2. Adds(g, G, SUBSET S)
  <2>1. ASSUME NEW s \in SUBSET S, s # {} PROVE G[First(s)] = F[First(s)]
    BY <2>1, FirstIn
  <2> QED BY <1>1, <2>1 DEF Adds, Solves
<1>3. Total(F, S) = g[S] BY <1>1, TotalIs
<1>4. \A x \in S : G[x] \in Nat OBVIOUS
<1>5. Total(G, S) = g[S] BY <1>2, <1>4, TotalIs
<1> QED BY <1>3, <1>5

\* Fewer elements add up to no more.
LEMMA TotalLess ==
    ASSUME NEW S, IsFiniteSet(S), NEW F, \A x \in S : F[x] \in Nat, NEW T \in SUBSET S
    PROVE  Total(F, T) <= Total(F, S)
<1> DEFINE Bad == {k \in Nat : \E s \in SUBSET S : \E t \in SUBSET s :
                      Cardinality(s) = k /\ ~(Total(F, t) <= Total(F, s))}
<1>1. SUFFICES ASSUME ~(Total(F, T) <= Total(F, S)) PROVE FALSE OBVIOUS
<1>2. Cardinality(S) \in Nat BY FS_CardinalityType
<1>3. Bad # {} /\ Bad \subseteq Nat BY <1>1, <1>2
<1>4. PICK m \in Bad : \A o \in Bad : m <= o
  <2> HIDE DEF Bad
  <2> QED BY <1>3, LeastNumber
<1>5. PICK s \in SUBSET S : \E t \in SUBSET s : Cardinality(s) = m /\ ~(Total(F, t) <= Total(F, s))
  OBVIOUS
<1>6. PICK t \in SUBSET s : Cardinality(s) = m /\ ~(Total(F, t) <= Total(F, s)) BY <1>5
<1>7. IsFiniteSet(s) /\ IsFiniteSet(t) BY FS_Subset
<1>8. Total(F, s) \in Nat /\ Total(F, t) \in Nat BY <1>7, TotalNat
<1>9. PICK x \in s : x \notin t BY <1>6, <1>8
<1>10. PICK r \in SUBSET S : r = s \ {x} OBVIOUS
<1>11. Cardinality(r) = m - 1 /\ m \in Nat /\ m > 0 BY <1>6, <1>10, Smaller
<1>12. IsFiniteSet(r) /\ t \in SUBSET r BY <1>9, <1>10, FS_Subset
<1>13. Total(F, r) \in Nat BY <1>12, TotalNat
<1>14. Total(F, s) = F[x] + Total(F, r) /\ F[x] \in Nat BY <1>7, <1>10, TotalTakes
<1>15. ~(Total(F, t) <= Total(F, r)) BY <1>6, <1>8, <1>13, <1>14
<1>16. m - 1 \in Bad BY <1>11, <1>12, <1>15
<1> HIDE DEF Bad
<1> QED BY <1>4, <1>11, <1>16

\* One for each element adds up to how many there are.
LEMMA TotalOnes ==
    ASSUME NEW S, IsFiniteSet(S), NEW F, \A x \in S : F[x] = 1
    PROVE  Total(F, S) = Cardinality(S)
<1> DEFINE Bad == {k \in Nat : \E s \in SUBSET S :
                      Cardinality(s) = k /\ Total(F, s) # k}
<1>1. SUFFICES ASSUME Total(F, S) # Cardinality(S) PROVE FALSE OBVIOUS
<1>2. Cardinality(S) \in Nat BY FS_CardinalityType
<1>3. Bad # {} /\ Bad \subseteq Nat BY <1>1, <1>2
<1>4. PICK m \in Bad : \A o \in Bad : m <= o
  <2> HIDE DEF Bad
  <2> QED BY <1>3, LeastNumber
<1>5. PICK s \in SUBSET S : Cardinality(s) = m /\ Total(F, s) # m OBVIOUS
<1>6. IsFiniteSet(s) BY FS_Subset
<1>7. s # {} BY <1>5, FS_EmptySet, TotalEmpty
<1>8. PICK x \in s : TRUE BY <1>7
<1>9. PICK r \in SUBSET S : r = s \ {x} OBVIOUS
<1>10. Cardinality(r) = m - 1 /\ m \in Nat /\ m > 0 BY <1>5, <1>9, Smaller
<1>11. \A y \in s : F[y] \in Nat OBVIOUS
<1>12. Total(F, s) = F[x] + Total(F, r) BY <1>6, <1>9, <1>11, TotalTakes
<1>13. Total(F, r) # m - 1 BY <1>5, <1>10, <1>12
<1>14. m - 1 \in Bad BY <1>10, <1>13
<1> HIDE DEF Bad
<1> QED BY <1>4, <1>10, <1>14

\* Each of the elements of P adds at most D to the sum over R.
LEMMA TotalOver ==
    ASSUME NEW S, IsFiniteSet(S), NEW F, \A x \in S : F[x] \in Nat,
           NEW D \in Nat, \A x \in S : F[x] <= D,
           NEW R \in SUBSET S, NEW P \in SUBSET S
    PROVE  Total(F, R \cup P) <= Total(F, R) + Cardinality(P) * D
<1> DEFINE Fine(p, k) == Total(F, R \cup p) <= Total(F, R) + k * D
           Bad == {k \in Nat : \E p \in SUBSET S : Cardinality(p) = k /\ ~Fine(p, k)}
<1>1. SUFFICES ASSUME ~(Total(F, R \cup P) <= Total(F, R) + Cardinality(P) * D) PROVE FALSE
  OBVIOUS
<1>2. Cardinality(P) \in Nat BY FS_Subset, FS_CardinalityType
<1>3. Bad # {} /\ Bad \subseteq Nat BY <1>1, <1>2
<1>4. PICK m \in Bad : \A o \in Bad : m <= o
  <2> HIDE DEF Bad
  <2> QED BY <1>3, LeastNumber
<1>5. PICK p \in SUBSET S :
        Cardinality(p) = m /\ ~(Total(F, R \cup p) <= Total(F, R) + m * D)
  OBVIOUS
<1>6. IsFiniteSet(p) /\ IsFiniteSet(R) BY FS_Subset
<1>7. PICK t \in Nat : t = Total(F, R) BY <1>6, TotalNat
<1>8. p # {}
  <2>1. SUFFICES ASSUME p = {} PROVE FALSE OBVIOUS
  <2>2. m = 0 /\ R \cup p = R BY <1>5, <2>1, FS_EmptySet
  <2>3. m * D = 0 BY <2>2
  <2>4. PICK k : k = m * D OBVIOUS
  <2>5. k = 0 BY <2>3, <2>4, Zenon
  <2>6. Total(F, R \cup p) = t BY <1>7, <2>2, Zenon
  <2>7. t <= t + k BY <2>5
  <2> QED BY <1>5, <1>7, <2>4, <2>6, <2>7
<1>9. PICK x \in p : TRUE BY <1>8
<1>10. PICK r \in SUBSET S : r = p \ {x} OBVIOUS
<1>11. Cardinality(r) = m - 1 /\ m \in Nat /\ m > 0 BY <1>5, <1>10, Smaller
<1>12. m - 1 \notin Bad
  <2> HIDE DEF Bad
  <2> QED BY <1>4, <1>11
<1>13. Total(F, R \cup r) <= t + (m - 1) * D
  <2>1. Fine(r, m - 1)
    <3> HIDE DEF Fine
    <3> QED BY <1>11, <1>12
  <2> QED BY <1>7, <2>1
<1>14. m * D = (m - 1) * D + D /\ (m - 1) * D \in Nat BY <1>11
<1>15. PICK U \in SUBSET S : U = R \cup r OBVIOUS
<1>16. IsFiniteSet(U) BY FS_Subset
<1>17. PICK u \in Nat : u = Total(F, U) BY <1>16, TotalNat
<1>18. CASE x \in U
  <2>1. R \cup p = U BY <1>10, <1>15, <1>18
  <2>2. ~(u <= t + m * D) BY <1>5, <1>7, <1>17, <2>1
  <2> QED BY <1>7, <1>13, <1>14, <1>15, <1>17, <2>2
<1>19. CASE x \notin U
  <2>1. R \cup p = U \cup {x} BY <1>10, <1>15
  <2>2. Total(F, U \cup {x}) = F[x] + u BY <1>16, <1>17, <1>19, TotalPuts
  <2>3. PICK f \in Nat : f = F[x] /\ f <= D OBVIOUS
  <2>4. ~(f + u <= t + m * D) BY <1>5, <1>7, <2>1, <2>2, <2>3
  <2> QED BY <1>7, <1>13, <1>14, <1>15, <1>17, <2>3, <2>4
<1> QED BY <1>18, <1>19

-----------------------------------------------------------------------------
(* The library's maximum                                                    *)

\* The library's maximum of a finite set of numbers.
LEMMA MaxIs ==
    ASSUME NEW S, IsFiniteSet(S), S \subseteq Int, S # {}
    PROVE  Max(S) \in S /\ \A y \in S : Max(S) >= y
<1> DEFINE Bad == {k \in Nat : \E s \in SUBSET S :
                      /\ s # {} /\ Cardinality(s) = k
                      /\ ~\E x \in s : \A y \in s : x >= y}
<1>1. \E x \in S : \A y \in S : x >= y
  <2>1. SUFFICES ASSUME ~\E x \in S : \A y \in S : x >= y PROVE FALSE OBVIOUS
  <2>2. Cardinality(S) \in Nat BY FS_CardinalityType
  <2>3. Bad # {} /\ Bad \subseteq Nat BY <2>1, <2>2
  <2>4. PICK m \in Bad : \A o \in Bad : m <= o
    <3> HIDE DEF Bad
    <3> QED BY <2>3, LeastNumber
  <2>5. PICK s \in SUBSET S :
           s # {} /\ Cardinality(s) = m /\ ~\E x \in s : \A y \in s : x >= y
    OBVIOUS
  <2>6. PICK a \in s : TRUE BY <2>5
  <2>7. PICK r \in SUBSET S : r = s \ {a} OBVIOUS
  <2>8. Cardinality(r) = m - 1 /\ m \in Nat /\ m > 0 BY <2>5, <2>7, Smaller
  <2>9. CASE r = {}
    <3>1. \A y \in s : y = a BY <2>7, <2>9
    <3> QED BY <2>5, <3>1
  <2>10. CASE r # {}
    <3>1. m - 1 \notin Bad
      <4> HIDE DEF Bad
      <4> QED BY <2>4, <2>8
    <3>2. m - 1 \in Nat BY <2>8
    <3>3. PICK x \in r : \A y \in r : x >= y BY <2>8, <2>10, <3>1, <3>2
    <3>4. x \in Int /\ a \in Int /\ x \in s /\ r \subseteq Int BY <2>7
    <3>5. CASE x >= a
      <4>1. \A y \in s : x >= y BY <2>7, <3>3, <3>5
      <4> QED BY <2>5, <3>4, <4>1
    <3>6. CASE ~(x >= a)
      <4>1. ASSUME NEW y \in s PROVE a >= y
        <5>1. CASE y = a BY <3>4, <5>1
        <5>2. CASE y # a BY <2>7, <3>3, <3>4, <3>6, <5>2
        <5> QED BY <5>1, <5>2
      <4> QED BY <2>5, <4>1
    <3> QED BY <3>5, <3>6
  <2> QED BY <2>9, <2>10
<1> QED BY <1>1 DEF Max

=============================================================================
