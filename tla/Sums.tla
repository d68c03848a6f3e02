-------------------------------- MODULE Sums --------------------------------
(* Facts about the sums over finite sets (MapThenSumSet of the community      *)
(* modules) in which money is conserved, proved by induction over the size of *)
(* the set.                                                                   *)
EXTENDS Integers, FiniteSets, FiniteSetsExt, FiniteSetTheorems, WellFoundedInduction, TLAPS

\* Induction over the naturals, for a set of numbers in place of a predicate.
LEMMA NatInduct ==
  ASSUME NEW Q, 0 \in Q, \A n \in Nat : n \in Q => n + 1 \in Q
  PROVE  Nat \subseteq Q
<1> SUFFICES ASSUME Nat \ Q # {} PROVE FALSE OBVIOUS
<1>1. \E x \in Nat \ Q : \A y \in Nat \ Q : ~(<<y, x>> \in OpToRel(<, Nat))
  BY NatLessThanWellFounded, WFMin
<1>2. PICK x \in Nat \ Q : \A y \in Nat \ Q : ~(y < x) BY <1>1 DEF OpToRel
<1>3. x # 0 OBVIOUS
<1>4. x - 1 \in Nat \ Q BY <1>3
<1>5. QED BY <1>2, <1>4

\* The sum of g over a finite set.
Total(g, S) == MapThenSumSet(LAMBDA x : g[x], S)

Chosen(s) == CHOOSE x \in s : TRUE

\* f is the recursive function by which MapThenSumSet sums over S.
SumsBy(f, g, S) == f = [s \in SUBSET S |-> IF s = {} THEN 0 ELSE g[Chosen(s)] + f[s \ {Chosen(s)}]]

\* f sums on the subsets of S with at most n elements.
SumsUpTo(f, g, S, n) ==
  /\ f \in [SUBSET S -> Int]
  /\ \A s \in SUBSET S : Cardinality(s) <= n =>
       f[s] = IF s = {} THEN 0 ELSE g[Chosen(s)] + f[s \ {Chosen(s)}]

\* The library's fold is that recursive function.
LEMMA TotalIs ==
  ASSUME NEW g, NEW S
  PROVE  Total(g, S) = (CHOOSE f : SumsBy(f, g, S))[S]
BY DEF Total, MapThenSumSet, MapThenFoldSet, SumsBy, Chosen

\* The parts into which the recursion splits a set.
LEMMA Splits ==
  ASSUME NEW S, IsFiniteSet(S), NEW s \in SUBSET S, s # {}
  PROVE  /\ IsFiniteSet(s) /\ Chosen(s) \in s /\ s \ {Chosen(s)} \in SUBSET S
         /\ Cardinality(s) \in Nat \ {0}
         /\ Cardinality(s \ {Chosen(s)}) = Cardinality(s) - 1
<1>1. IsFiniteSet(s) BY FS_Subset
<1>2. Chosen(s) \in s BY DEF Chosen
<1>3. Cardinality(s) \in Nat BY <1>1, FS_CardinalityType
<1>4. Cardinality(s) # 0 BY <1>1, FS_EmptySet
<1>5. Cardinality(s \ {Chosen(s)}) = Cardinality(s) - 1 BY <1>1, <1>2, FS_RemoveElement
<1>6. QED BY <1>1, <1>2, <1>3, <1>4, <1>5

\* A set without elements is empty.
LEMMA NoneIsEmpty ==
  ASSUME NEW S, IsFiniteSet(S), NEW s \in SUBSET S, Cardinality(s) <= 0
  PROVE  s = {}
<1> SUFFICES ASSUME s # {} PROVE FALSE OBVIOUS
<1>1. Cardinality(s) \in Nat \ {0} BY Splits
<1>2. QED BY <1>1

\* The recursion is well founded: induction over the size of the subsets.
LEMMA SumsExist ==
  ASSUME NEW S, IsFiniteSet(S), NEW g, \A x \in S : g[x] \in Int
  PROVE  \E f : SumsBy(f, g, S) /\ f \in [SUBSET S -> Int]
<1> DEFINE Q == {n \in Nat : \E f : SumsUpTo(f, g, S, n)}
<1>1. 0 \in Q
  <2> DEFINE f == [s \in SUBSET S |-> 0]
  <2>1. \A s \in SUBSET S : Cardinality(s) <= 0 => s = {} BY NoneIsEmpty
  <2>2. SumsUpTo(f, g, S, 0) BY <2>1 DEF SumsUpTo
  <2>3. QED BY <2>2
<1>2. ASSUME NEW n \in Nat, n \in Q PROVE n + 1 \in Q
  <2>1. PICK f : SumsUpTo(f, g, S, n) BY <1>2
  <2> DEFINE h == [s \in SUBSET S |-> IF s = {} THEN 0 ELSE g[Chosen(s)] + f[s \ {Chosen(s)}]]
  <2>2. f \in [SUBSET S -> Int] BY <2>1 DEF SumsUpTo
  <2>3. \A s \in SUBSET S : h[s] \in Int
    <3> SUFFICES ASSUME NEW s \in SUBSET S PROVE h[s] \in Int OBVIOUS
    <3>1. CASE s = {} BY <3>1
    <3>2. CASE s # {}
      <4>1. Chosen(s) \in S /\ s \ {Chosen(s)} \in SUBSET S BY <3>2, Splits
      <4>2. g[Chosen(s)] \in Int /\ f[s \ {Chosen(s)}] \in Int BY <4>1, <2>2
      <4>3. QED BY <3>2, <4>2
    <3>3. QED BY <3>1, <3>2
  <2>4. h \in [SUBSET S -> Int] BY <2>3
  <2>5. ASSUME NEW s \in SUBSET S, Cardinality(s) <= n + 1, s # {}
        PROVE  f[s \ {Chosen(s)}] = h[s \ {Chosen(s)}]
    <3> DEFINE t == s \ {Chosen(s)}
    <3>1. t \in SUBSET S /\ Cardinality(t) <= n
      BY <2>5, Splits
    <3>2. f[t] = IF t = {} THEN 0 ELSE g[Chosen(t)] + f[t \ {Chosen(t)}]
      BY <2>1, <3>1 DEF SumsUpTo
    <3>3. h[t] = IF t = {} THEN 0 ELSE g[Chosen(t)] + f[t \ {Chosen(t)}]
      BY <3>1
    <3>4. QED BY <3>2, <3>3
  <2>6. SumsUpTo(h, g, S, n + 1) BY <2>4, <2>5 DEF SumsUpTo
  <2>7. QED BY <2>6
<1>3. Nat \subseteq Q
  <2> HIDE DEF Q
  <2>1. QED BY <1>1, <1>2, NatInduct
<1>4. Cardinality(S) \in Q BY <1>3, FS_CardinalityType
<1>5. PICK f : SumsUpTo(f, g, S, Cardinality(S)) BY <1>4
<1>6. \A s \in SUBSET S : Cardinality(s) <= Cardinality(S) BY FS_Subset
<1>7. \A s \in SUBSET S : f[s] = IF s = {} THEN 0 ELSE g[Chosen(s)] + f[s \ {Chosen(s)}]
  BY <1>5, <1>6 DEF SumsUpTo
<1>8. f \in [SUBSET S -> Int] BY <1>5 DEF SumsUpTo
<1>9. QED BY <1>7, <1>8 DEF SumsBy

\* Two recursive sums, of functions that agree, agree wherever both are defined.
LEMMA SumsAgree ==
  ASSUME NEW S, NEW T, IsFiniteSet(S), T \subseteq S, NEW g, NEW e,
         \A x \in T : g[x] = e[x],
         NEW f, NEW h, SumsBy(f, g, S), SumsBy(h, e, T)
  PROVE  \A s \in SUBSET T : f[s] = h[s]
<1> DEFINE Q == {n \in Nat : \A s \in SUBSET T : Cardinality(s) <= n => f[s] = h[s]}
<1>1. \A s \in SUBSET T : /\ f[s] = IF s = {} THEN 0 ELSE g[Chosen(s)] + f[s \ {Chosen(s)}]
                          /\ h[s] = IF s = {} THEN 0 ELSE e[Chosen(s)] + h[s \ {Chosen(s)}]
  BY DEF SumsBy
<1>2. IsFiniteSet(T) BY FS_Subset
<1>3. 0 \in Q
  <2>1. \A s \in SUBSET T : Cardinality(s) <= 0 => s = {} BY <1>2, NoneIsEmpty
  <2>2. QED BY <1>1, <2>1
<1>4. ASSUME NEW n \in Nat, n \in Q PROVE n + 1 \in Q
  <2> SUFFICES ASSUME NEW s \in SUBSET T, Cardinality(s) <= n + 1 PROVE f[s] = h[s] OBVIOUS
  <2>1. CASE s = {} BY <1>1, <2>1
  <2>2. CASE s # {}
    <3>1. Chosen(s) \in T /\ s \ {Chosen(s)} \in SUBSET T /\ Cardinality(s \ {Chosen(s)}) <= n
      BY <1>2, <2>2, Splits
    <3>2. f[s \ {Chosen(s)}] = h[s \ {Chosen(s)}] BY <1>4, <3>1
    <3>3. g[Chosen(s)] = e[Chosen(s)] BY <3>1
    <3>4. QED BY <1>1, <2>2, <3>2, <3>3
  <2>3. QED BY <2>1, <2>2
<1>5. Nat \subseteq Q
  <2> HIDE DEF Q
  <2>1. QED BY <1>3, <1>4, NatInduct
<1>6. QED
  <2> SUFFICES ASSUME NEW s \in SUBSET T PROVE f[s] = h[s] OBVIOUS
  <2>1. Cardinality(s) \in Nat BY <1>2, FS_Subset, FS_CardinalityType
  <2>2. Cardinality(s) \in Q BY <1>5, <2>1
  <2>3. QED BY <2>2, <2>1

\* f holds the sums over all subsets of S.
TotalsAre(f, g, S) ==
  /\ f \in [SUBSET S -> Int]
  /\ \A T \in SUBSET S : Total(g, T) = f[T]
  /\ \A T \in SUBSET S : f[T] = IF T = {} THEN 0 ELSE g[Chosen(T)] + f[T \ {Chosen(T)}]

\* What the sum over a set and over its subsets has to do with each other.
LEMMA TotalsBy ==
  ASSUME NEW S, IsFiniteSet(S), NEW g, \A x \in S : g[x] \in Int
  PROVE  \E f : TotalsAre(f, g, S)
<1>1. PICK f : SumsBy(f, g, S) /\ f \in [SUBSET S -> Int] BY SumsExist
<1>2. ASSUME NEW T \in SUBSET S PROVE Total(g, T) = f[T]
  <2> DEFINE h == CHOOSE h : SumsBy(h, g, T)
  <2>1. IsFiniteSet(T) /\ \A x \in T : g[x] \in Int BY FS_Subset
  <2>2. \E k : SumsBy(k, g, T) BY <2>1, SumsExist
  <2>3. SumsBy(h, g, T) BY <2>2
  <2>4. Total(g, T) = h[T] BY TotalIs
  <2> HIDE DEF h
  <2>5. f[T] = h[T] BY <1>1, <2>3, SumsAgree
  <2>6. QED BY <2>4, <2>5
<1>3. \A T \in SUBSET S : f[T] = IF T = {} THEN 0 ELSE g[Chosen(T)] + f[T \ {Chosen(T)}]
  BY <1>1 DEF SumsBy
<1>4. QED BY <1>1, <1>2, <1>3 DEF TotalsAre

\* Sums of integers are integers.
LEMMA TotalType ==
  ASSUME NEW S, IsFiniteSet(S), NEW g, \A x \in S : g[x] \in Int
  PROVE  Total(g, S) \in Int
<1>1. PICK f : TotalsAre(f, g, S) BY TotalsBy
<1>2. QED BY <1>1 DEF TotalsAre

\* Nothing sums to zero.
LEMMA TotalEmpty == ASSUME NEW g PROVE Total(g, {}) = 0
<1>1. IsFiniteSet({}) BY FS_EmptySet
<1>2. PICK f : TotalsAre(f, g, {}) BY <1>1, TotalsBy
<1>3. QED BY <1>2 DEF TotalsAre

\* The two orders in which two elements are taken out.
LEMMA Swaps ==
  ASSUME NEW a \in Int, NEW b \in Int, NEW c \in Int, NEW ab, NEW bc, NEW ac,
         ab = a + bc, bc = b + c, ac = a + c
  PROVE  ab = b + ac
OBVIOUS

\* Taking any element out of the set takes its value out of the sum.
LEMMA TotalRemove ==
  ASSUME NEW S, IsFiniteSet(S), NEW g, \A x \in S : g[x] \in Int, NEW x \in S
  PROVE  Total(g, S) = g[x] + Total(g, S \ {x})
<1>0. PICK f : TotalsAre(f, g, S) BY TotalsBy
<1>1. /\ f \in [SUBSET S -> Int]
      /\ \A T \in SUBSET S : Total(g, T) = f[T]
      /\ \A T \in SUBSET S : f[T] = IF T = {} THEN 0 ELSE g[Chosen(T)] + f[T \ {Chosen(T)}]
  BY <1>0 DEF TotalsAre
<1> DEFINE Q == {n \in Nat : \A T \in SUBSET S : Cardinality(T) <= n =>
                                \A y \in T : f[T] = g[y] + f[T \ {y}]}
<1>2. 0 \in Q
  <2>1. \A s \in SUBSET S : Cardinality(s) <= 0 => s = {} BY NoneIsEmpty
  <2>2. QED BY <2>1
<1>3. ASSUME NEW n \in Nat, n \in Q PROVE n + 1 \in Q
  <2> SUFFICES ASSUME NEW T \in SUBSET S, Cardinality(T) <= n + 1, NEW y \in T
               PROVE  f[T] = g[y] + f[T \ {y}]
    OBVIOUS
  <2> DEFINE z == Chosen(T)
             U == T \ {z}
  <2>1. z \in T /\ U \in SUBSET S /\ Cardinality(U) <= n BY Splits
  <2>2. f[T] = g[z] + f[U] BY <1>1
  <2>3. CASE y = z BY <2>2, <2>3
  <2>4. CASE y # z
    <3> DEFINE V == T \ {y}
               W == U \ {y}
    <3>1. y \in U /\ f[U] = g[y] + f[W] BY <1>3, <2>1, <2>4
    <3>2. z \in V /\ V \in SUBSET S /\ Cardinality(V) <= n
      <4>1. IsFiniteSet(T) /\ Cardinality(T) \in Nat BY FS_Subset, FS_CardinalityType
      <4>2. Cardinality(V) = Cardinality(T) - 1 BY <4>1, FS_RemoveElement
      <4>3. QED BY <2>1, <2>4, <4>1, <4>2
    <3> DEFINE X == V \ {z}
    <3>3. f[V] = g[z] + f[X] BY <1>3, <3>2
    <3>4. X = W /\ W \in SUBSET S OBVIOUS
    <3>5. g[z] \in Int /\ g[y] \in Int /\ f[W] \in Int BY <1>1, <2>1, <3>4
    <3> HIDE DEF z, U, V, W, X
    <3>6. f[T] = g[y] + f[V] BY <2>2, <3>1, <3>3, <3>4, <3>5, Swaps
    <3>7. QED BY <3>6 DEF V
  <2>5. QED BY <2>3, <2>4
<1>4. Nat \subseteq Q
  <2> HIDE DEF Q
  <2>1. QED BY <1>2, <1>3, NatInduct
<1>5. Cardinality(S) \in Q /\ Cardinality(S) \in Nat BY <1>4, FS_CardinalityType
<1>6. f[S] = g[x] + f[S \ {x}] BY <1>5
<1>7. QED BY <1>1, <1>6

\* An element more adds its value.
LEMMA TotalAdd ==
  ASSUME NEW S, IsFiniteSet(S), NEW g, \A x \in S : g[x] \in Int, NEW y, y \notin S, g[y] \in Int
  PROVE  Total(g, S \cup {y}) = Total(g, S) + g[y]
<1> DEFINE rest == (S \cup {y}) \ {y}
<1>1. IsFiniteSet(S \cup {y}) BY FS_AddElement
<1>2. Total(g, S \cup {y}) = g[y] + Total(g, rest) BY <1>1, TotalRemove
<1>3. rest = S OBVIOUS
<1> HIDE DEF rest
<1>4. Total(g, S) \in Int BY TotalType
<1>5. QED BY <1>2, <1>3, <1>4

\* Functions that agree on the set have the same sum.
LEMMA TotalSame ==
  ASSUME NEW S, IsFiniteSet(S), NEW g, NEW e, \A x \in S : g[x] \in Int /\ e[x] = g[x]
  PROVE  Total(e, S) = Total(g, S)
<1> DEFINE f == CHOOSE f : SumsBy(f, g, S)
           h == CHOOSE h : SumsBy(h, e, S)
<1>1. (\E k : SumsBy(k, g, S)) /\ (\E k : SumsBy(k, e, S)) BY SumsExist
<1>2. SumsBy(f, g, S) /\ SumsBy(h, e, S) BY <1>1
<1>3. Total(g, S) = f[S] /\ Total(e, S) = h[S] BY TotalIs
<1> HIDE DEF f, h
<1>4. S \subseteq S /\ S \in SUBSET S /\ \A x \in S : g[x] = e[x] OBVIOUS
<1>5. \A s \in SUBSET S : f[s] = h[s] BY <1>2, <1>4, SumsAgree
<1>6. f[S] = h[S] BY <1>4, <1>5
<1>7. QED BY <1>3, <1>6

\* One value that changes changes the sum by as much.
LEMMA TotalChange ==
  ASSUME NEW S, IsFiniteSet(S), NEW g, NEW e, \A x \in S : g[x] \in Int /\ e[x] \in Int,
         NEW y \in S, \A x \in S \ {y} : e[x] = g[x]
  PROVE  Total(e, S) = Total(g, S) + (e[y] - g[y])
<1>1. IsFiniteSet(S \ {y}) BY FS_RemoveElement
<1>2. Total(e, S \ {y}) = Total(g, S \ {y}) BY <1>1, TotalSame
<1>3. Total(e, S) = e[y] + Total(e, S \ {y}) /\ Total(g, S) = g[y] + Total(g, S \ {y})
  BY TotalRemove
<1>4. Total(g, S \ {y}) \in Int BY <1>1, TotalType
<1>5. QED BY <1>2, <1>3, <1>4

\* The sum of zeros is zero.
LEMMA TotalZero ==
  ASSUME NEW S, IsFiniteSet(S), NEW g, \A x \in S : g[x] = 0
  PROVE  Total(g, S) = 0
<1>0. PICK f : TotalsAre(f, g, S) BY TotalsBy
<1>1. /\ f \in [SUBSET S -> Int] /\ Total(g, S) = f[S]
      /\ \A T \in SUBSET S : f[T] = IF T = {} THEN 0 ELSE g[Chosen(T)] + f[T \ {Chosen(T)}]
  BY <1>0 DEF TotalsAre
<1> DEFINE Q == {n \in Nat : \A T \in SUBSET S : Cardinality(T) <= n => f[T] = 0}
<1>2. 0 \in Q
  <2>1. \A s \in SUBSET S : Cardinality(s) <= 0 => s = {} BY NoneIsEmpty
  <2>2. QED BY <1>1, <2>1
<1>3. ASSUME NEW n \in Nat, n \in Q PROVE n + 1 \in Q
  <2> SUFFICES ASSUME NEW T \in SUBSET S, Cardinality(T) <= n + 1 PROVE f[T] = 0 OBVIOUS
  <2>1. CASE T = {} BY <1>1, <2>1
  <2>2. CASE T # {}
    <3>1. Chosen(T) \in S /\ T \ {Chosen(T)} \in SUBSET S /\ Cardinality(T \ {Chosen(T)}) <= n
      BY <2>2, Splits
    <3>2. f[T \ {Chosen(T)}] = 0 BY <1>3, <3>1
    <3>3. QED BY <1>1, <2>2, <3>1, <3>2
  <2>3. QED BY <2>1, <2>2
<1>4. Nat \subseteq Q
  <2> HIDE DEF Q
  <2>1. QED BY <1>2, <1>3, NatInduct
<1>5. Cardinality(S) \in Q /\ Cardinality(S) \in Nat BY <1>4, FS_CardinalityType
<1>6. QED BY <1>1, <1>5
=============================================================================
