-------------------------- MODULE ScoreMetricsProofs --------------------------
(***************************************************************************)
(* The measures of ScoreMetrics agree with their definitions, for every    *)
(* sequence of scored rows.                                                *)
(***************************************************************************)
EXTENDS ScoreMetrics, FiniteSetTheorems, SequenceTheorems, WellFoundedInduction, TLAPS

-----------------------------------------------------------------------------
(* Induction over numbers and over subsets of a finite set, and the        *)
(* recursion by which a sum over a set is defined.                         *)

-----------------------------------------------------------------------------
(* Induction, for sets.                                                    *)

LEMMA LeastNumber ==
  ASSUME NEW S, S \subseteq Nat, S # {} PROVE \E x \in S : \A y \in S : x <= y
<1> DEFINE R == {rs \in Nat \X Nat : rs[1] < rs[2]}
<1>1. IsWellFoundedOn(R, Nat)
  BY NatLessThanWellFounded DEF OpToRel
<1> HIDE DEF R
<1>2. PICK x \in S : \A y \in S : ~ (<<y, x>> \in R)
  BY <1>1, WFMin
<1>3. ASSUME NEW y \in S PROVE x <= y
  <2>1. x \in Nat /\ y \in Nat /\ <<y, x>> \in Nat \X Nat
    OBVIOUS
  <2>2. ~(y < x)
    BY <1>2, <2>1 DEF R
  <2> QED
    BY <2>1, <2>2
<1> QED
  BY <1>3

LEMMA Induction ==
  ASSUME NEW S, 0 \in S, \A n \in Nat : n \in S => n + 1 \in S
  PROVE  Nat \subseteq S
<1> SUFFICES ASSUME Nat \ S # {} PROVE FALSE
  OBVIOUS
<1>1. PICK m \in Nat \ S : \A n \in Nat \ S : m <= n
  BY LeastNumber
<1>2. m # 0 /\ m - 1 \in Nat /\ m - 1 \notin Nat \ S
  BY <1>1
<1> QED
  BY <1>1, <1>2

LEMMA SubsetInduction ==
  ASSUME NEW D, IsFiniteSet(D), NEW Q, {} \in Q,
         \A T \in SUBSET D, x \in D : T \in Q /\ x \notin T => T \cup {x} \in Q
  PROVE  \A T \in SUBSET D : T \in Q
<1> DEFINE S == {n \in Nat : \A T \in SUBSET D : Cardinality(T) = n => T \in Q}
<1>1. 0 \in S
  <2>1. ASSUME NEW T \in SUBSET D, Cardinality(T) = 0 PROVE T \in Q
    BY <2>1, FS_Subset, FS_EmptySet
  <2> QED
    BY <2>1
<1>2. ASSUME NEW n \in Nat, n \in S PROVE n + 1 \in S
  <2>1. ASSUME NEW T \in SUBSET D, Cardinality(T) = n + 1 PROVE T \in Q
    <3>1. IsFiniteSet(T) /\ T # {}
      BY <2>1, FS_Subset, FS_EmptySet
    <3>2. PICK x \in T : TRUE
      BY <3>1
    <3>a. Cardinality(T \ {x}) = Cardinality(T) - 1
      BY <3>1, FS_RemoveElement
    <3>3. Cardinality(T \ {x}) = n
      BY <2>1, <3>a
    <3>4. T \ {x} \in Q
      BY <3>3, <1>2
    <3>5. (T \ {x}) \cup {x} \in Q
      BY <3>4
    <3> QED
      BY <3>5, (T \ {x}) \cup {x} = T
  <2> QED
    BY <2>1
<1> HIDE DEF S
<1>3. Nat \subseteq S
  BY <1>1, <1>2, Induction
<1>4. ASSUME NEW T \in SUBSET D PROVE T \in Q
  <2>1. Cardinality(T) \in S
    BY <1>3, FS_Subset, FS_CardinalityType
  <2> QED
    BY <2>1 DEF S
<1> QED
  BY <1>4

-----------------------------------------------------------------------------
(* Sums.                                                                   *)

Recurs(g, f, D) ==
  g = [S \in SUBSET D |-> IF S = {} THEN 0 ELSE f[CHOOSE x \in S : TRUE] + g[S \ {CHOOSE x \in S : TRUE}]]

LEMMA SumUnfolds ==
  ASSUME NEW f, NEW T
  PROVE  SumFunctionOnSet(f, T) = (CHOOSE g : Recurs(g, f, T))[T]
BY DEF SumFunctionOnSet, FoldFunctionOnSet, MapThenFoldSet, Recurs

LEMMA RecursionExists ==
  ASSUME NEW D, IsFiniteSet(D), NEW f, \A x \in D : f[x] \in Int
  PROVE  \E g \in [SUBSET D -> Int] : Recurs(g, f, D)
<1> DEFINE Level(n) == {T \in SUBSET D : Cardinality(T) <= n}
           Pick(T) == CHOOSE x \in T : TRUE
           On(g, n) ==
             \A T \in Level(n) :
               g[T] = IF T = {} THEN 0 ELSE f[Pick(T)] + g[T \ {Pick(T)}]
           S == {n \in Nat : \E g \in [Level(n) -> Int] : On(g, n)}
<1>0. \A T \in SUBSET D : IsFiniteSet(T) /\ Cardinality(T) \in Nat
  BY FS_Subset, FS_CardinalityType
<1>a. \A T \in SUBSET D : T # {} =>
        /\ Pick(T) \in T
        /\ Cardinality(T \ {Pick(T)}) = Cardinality(T) - 1
        /\ Cardinality(T) # 0
  BY <1>0, FS_RemoveElement, FS_EmptySet
<1> HIDE DEF Pick
<1>1. 0 \in S
  <2>1. ASSUME NEW T \in Level(0) PROVE T = {}
    <3>1. Cardinality(T) = 0 /\ T \in SUBSET D
      BY <1>0
    <3> QED
      BY <3>1, <1>a
  <2>2. [T \in Level(0) |-> 0] \in [Level(0) -> Int] /\ On([T \in Level(0) |-> 0], 0)
    BY <2>1
  <2> QED
    BY <2>2
<1>2. ASSUME NEW n \in Nat, n \in S PROVE n + 1 \in S
  <2>1. PICK g \in [Level(n) -> Int] : On(g, n)
    BY <1>2
  <2> DEFINE h == [T \in Level(n + 1) |->
                     IF T = {} THEN 0 ELSE f[Pick(T)] + g[T \ {Pick(T)}]]
  <2>2. \A T \in Level(n + 1) : T # {} => T \ {Pick(T)} \in Level(n) /\ Pick(T) \in D
    BY <1>a, <1>0
  <2>3. h \in [Level(n + 1) -> Int]
    BY <2>2
  <2>4. \A T \in Level(n) : T \in Level(n + 1)
    BY <1>0
  <2>5. \A T \in Level(n) : h[T] = g[T]
    BY <2>1, <2>4
  <2>6. On(h, n + 1)
    BY <2>2, <2>5
  <2> HIDE DEF h, On, Level
  <2> QED
    BY <2>3, <2>6
<1> HIDE DEF S
<1>3. Cardinality(D) \in S
  BY <1>1, <1>2, Induction, <1>0
<1> USE DEF S
<1>4. PICK g \in [Level(Cardinality(D)) -> Int] : On(g, Cardinality(D))
  BY <1>3
<1>5. Level(Cardinality(D)) = SUBSET D
  BY FS_Subset
<1>6. Recurs(g, f, D)
  <2>1. g = [T \in SUBSET D |-> g[T]]
    BY <1>4, <1>5
  <2>2. \A T \in SUBSET D : g[T] = IF T = {} THEN 0 ELSE f[Pick(T)] + g[T \ {Pick(T)}]
    BY <1>4, <1>5
  <2> QED
    BY <2>1, <2>2 DEF Recurs, Pick
<1> QED
  BY <1>4, <1>5, <1>6

LEMMA RecursionAgrees ==
  ASSUME NEW D, IsFiniteSet(D), NEW E, NEW f, NEW g, NEW h, Recurs(g, f, D), Recurs(h, f, E), D \subseteq E
  PROVE  \A T \in SUBSET D : g[T] = h[T]
<1> DEFINE S == {n \in Nat : \A T \in SUBSET D : Cardinality(T) = n => g[T] = h[T]}
           Pick(T) == CHOOSE x \in T : TRUE
<1>0. \A T \in SUBSET D : IsFiniteSet(T) /\ Cardinality(T) \in Nat
  BY FS_Subset, FS_CardinalityType
<1>a. \A T \in SUBSET D : T # {} =>
        /\ Pick(T) \in T
        /\ Cardinality(T \ {Pick(T)}) = Cardinality(T) - 1
        /\ Cardinality(T) # 0
  BY <1>0, FS_RemoveElement, FS_EmptySet
<1>b. \A T \in SUBSET D :
        /\ g[T] = IF T = {} THEN 0 ELSE f[Pick(T)] + g[T \ {Pick(T)}]
        /\ h[T] = IF T = {} THEN 0 ELSE f[Pick(T)] + h[T \ {Pick(T)}]
  BY DEF Recurs
<1> HIDE DEF Pick
<1>1. 0 \in S
  BY <1>a, <1>b
<1>2. ASSUME NEW n \in Nat, n \in S PROVE n + 1 \in S
  <2>1. ASSUME NEW T \in SUBSET D, Cardinality(T) = n + 1 PROVE g[T] = h[T]
    <3>1. CASE T = {}
      BY <3>1, <1>b
    <3>2. CASE T # {}
      <4>1. Cardinality(T \ {Pick(T)}) = n
        BY <3>2, <2>1, <1>a
      <4>2. g[T \ {Pick(T)}] = h[T \ {Pick(T)}]
        BY <4>1, <1>2
      <4> QED
        BY <4>2, <3>2, <1>b
    <3> QED
      BY <3>1, <3>2
  <2> QED
    BY <2>1
<1> HIDE DEF S
<1>3. Nat \subseteq S
  BY <1>1, <1>2, Induction
<1>4. ASSUME NEW T \in SUBSET D PROVE g[T] = h[T]
  <2>1. Cardinality(T) \in S
    BY <1>3, <1>0
  <2> QED
    BY <2>1 DEF S
<1> QED
  BY <1>4

\* The sum by its equation, and that it is a number.
LEMMA SumRecursion ==
  ASSUME NEW f, NEW T, IsFiniteSet(T), \A x \in T : f[x] \in Int
  PROVE  /\ SumFunctionOnSet(f, T) \in Int
         /\ T = {} => SumFunctionOnSet(f, T) = 0
         /\ T # {} => LET x == CHOOSE x \in T : TRUE
                      IN SumFunctionOnSet(f, T) = f[x] + SumFunctionOnSet(f, T \ {x})
<1> DEFINE G(U) == CHOOSE g : Recurs(g, f, U)
<1>1. ASSUME NEW U \in SUBSET T PROVE Recurs(G(U), f, U) /\ G(U)[U] \in Int
  <2>0. IsFiniteSet(U) /\ \A x \in U : f[x] \in Int
    BY FS_Subset
  <2>1. PICK g \in [SUBSET U -> Int] : Recurs(g, f, U)
    BY <2>0, RecursionExists
  <2>2. Recurs(G(U), f, U)
    BY <2>1
  <2>3. G(U)[U] = g[U]
    BY <2>0, <2>1, <2>2, RecursionAgrees
  <2> QED
    BY <2>1, <2>2, <2>3
<1>2. \A U \in SUBSET T : SumFunctionOnSet(f, U) = G(U)[U]
  BY SumUnfolds
<1>3. ASSUME T # {} PROVE LET x == CHOOSE x \in T : TRUE
                      IN SumFunctionOnSet(f, T) = f[x] + SumFunctionOnSet(f, T \ {x})
  <2> DEFINE x == CHOOSE x \in T : TRUE
  <2>1. G(T)[T] = f[x] + G(T)[T \ {x}]
    <3>1. Recurs(G(T), f, T)
      BY <1>1
    <3> HIDE DEF G
    <3> QED
      BY <3>1, <1>3 DEF Recurs
  <2>2. G(T)[T \ {x}] = G(T \ {x})[T \ {x}]
    <3>1. T \ {x} \in SUBSET T /\ IsFiniteSet(T \ {x})
      BY FS_RemoveElement
    <3>2. Recurs(G(T \ {x}), f, T \ {x}) /\ Recurs(G(T), f, T)
      BY <1>1, <3>1
    <3> HIDE DEF G, x
    <3> QED
      BY <3>1, <3>2, RecursionAgrees
  <2> QED
    BY <2>1, <2>2, <1>2
<1>4. T = {} => G(T)[T] = 0
  BY <1>1 DEF Recurs
<1> QED
  BY <1>1, <1>2, <1>3, <1>4

-----------------------------------------------------------------------------
(* Laws of sums over finite sets.                                          *)

\* Any element may be taken off first: a sum does not depend on the order.
LEMMA SumRemove ==
  ASSUME NEW f, NEW D, IsFiniteSet(D), \A x \in D : f[x] \in Int, NEW x \in D
  PROVE  SumFunctionOnSet(f, D) = f[x] + SumFunctionOnSet(f, D \ {x})
<1> DEFINE Sum(T) == SumFunctionOnSet(f, T)
           S == {n \in Nat : \A T \in SUBSET D : Cardinality(T) = n =>
                   \A y \in T : Sum(T) = f[y] + Sum(T \ {y})}
<1>0. \A T \in SUBSET D : IsFiniteSet(T) /\ Cardinality(T) \in Nat /\ \A y \in T : f[y] \in Int
  BY FS_Subset, FS_CardinalityType
<1>1. 0 \in S
  BY <1>0, FS_EmptySet
<1>2. ASSUME NEW n \in Nat, n \in S PROVE n + 1 \in S
  <2>1. ASSUME NEW T \in SUBSET D, Cardinality(T) = n + 1, NEW y \in T PROVE Sum(T) = f[y] + Sum(T \ {y})
    <3> DEFINE p == CHOOSE p \in T : TRUE
    <3>1. p \in T
      OBVIOUS
    <3>2. Sum(T) = f[p] + Sum(T \ {p})
      BY <1>0, SumRecursion, T # {}
    <3> HIDE DEF p
    <3>3. CASE p = y
      BY <3>2, <3>3
    <3>4. CASE p # y
      <4>1. Cardinality(T \ {p}) = Cardinality(T) - 1 /\ Cardinality(T \ {y}) = Cardinality(T) - 1
        BY <1>0, <3>1, FS_RemoveElement
      <4>2. Cardinality(T \ {p}) = n /\ Cardinality(T \ {y}) = n
        BY <4>1, <2>1
      <4>3. Sum(T \ {p}) = f[y] + Sum((T \ {p}) \ {y})
        BY <4>2, <1>2, <3>4
      <4>4. Sum(T \ {y}) = f[p] + Sum((T \ {y}) \ {p})
        BY <4>2, <1>2, <3>4, <3>1
      <4>5. (T \ {y}) \ {p} = (T \ {p}) \ {y}
        OBVIOUS
      <4>6. Sum((T \ {p}) \ {y}) \in Int
        <5>1. (T \ {p}) \ {y} \in SUBSET D
          OBVIOUS
        <5> QED
          BY <5>1, <1>0, SumRecursion
      <4>7. f[p] \in Int /\ f[y] \in Int
        BY <3>1
      <4>8. Sum(T \ {y}) = f[p] + Sum((T \ {p}) \ {y})
        BY <4>4, <4>5
      <4> DEFINE rest == Sum((T \ {p}) \ {y})
      <4>9. Sum(T) = f[p] + (f[y] + rest) /\ Sum(T \ {y}) = f[p] + rest /\ rest \in Int
        BY <3>2, <4>3, <4>8, <4>6
      <4> HIDE DEF Sum, rest
      <4> QED
        BY <4>7, <4>9
    <3> QED
      BY <3>3, <3>4
  <2> QED
    BY <2>1
<1> HIDE DEF S
<1>3. Cardinality(D) \in S
  BY <1>1, <1>2, <1>0, Induction
<1> QED
  BY <1>3, <1>0 DEF S

LEMMA SumInt ==
  ASSUME NEW f, NEW D, IsFiniteSet(D), \A x \in D : f[x] \in Int
  PROVE  SumFunctionOnSet(f, D) \in Int
BY SumRecursion

LEMMA SumEmpty == ASSUME NEW f PROVE SumFunctionOnSet(f, {}) = 0
BY SumRecursion, FS_EmptySet

LEMMA SumAdd ==
  ASSUME NEW f, NEW D, IsFiniteSet(D), \A x \in D : f[x] \in Int, NEW T \in SUBSET D, NEW x \in D, x \notin T
  PROVE  SumFunctionOnSet(f, T \cup {x}) = f[x] + SumFunctionOnSet(f, T)
<1>1. IsFiniteSet(T \cup {x})
  BY FS_Subset
<1>2. (T \cup {x}) \ {x} = T /\ x \in T \cup {x} /\ \A y \in T \cup {x} : f[y] \in Int
  OBVIOUS
<1>3. SumFunctionOnSet(f, T \cup {x}) = f[x] + SumFunctionOnSet(f, (T \cup {x}) \ {x})
  BY <1>1, <1>2, SumRemove
<1> QED
  BY <1>2, <1>3

\* Sums of subsets, with the equations by which laws are proved of them.
Sums(f, D) ==
  /\ SumFunctionOnSet(f, {}) = 0
  /\ \A T \in SUBSET D : SumFunctionOnSet(f, T) \in Int
  /\ \A T \in SUBSET D, x \in D : x \notin T =>
       SumFunctionOnSet(f, T \cup {x}) = f[x] + SumFunctionOnSet(f, T)

LEMMA SumLaws ==
  ASSUME NEW f, NEW D, IsFiniteSet(D), \A x \in D : f[x] \in Int
  PROVE  Sums(f, D)
<1>1. ASSUME NEW T \in SUBSET D PROVE SumFunctionOnSet(f, T) \in Int
  BY FS_Subset, SumInt
<1> QED
  BY <1>1, SumEmpty, SumAdd DEF Sums

LEMMA SumOne ==
  ASSUME NEW f, NEW x, f[x] \in Int PROVE SumFunctionOnSet(f, {x}) = f[x]
<1>1. SumFunctionOnSet(f, {x}) = f[x] + SumFunctionOnSet(f, {x} \ {x})
  BY FS_Singleton, SumRemove
<1>2. SumFunctionOnSet(f, {x} \ {x}) = 0
  BY SumEmpty, {x} \ {x} = {}
<1> QED
  BY <1>1, <1>2

LEMMA SumAgree ==
  ASSUME NEW D, IsFiniteSet(D), NEW f, NEW g,
         \A x \in D : f[x] \in Int /\ f[x] = g[x]
  PROVE  SumFunctionOnSet(f, D) = SumFunctionOnSet(g, D)
<1> DEFINE Q == {T \in SUBSET D : SumFunctionOnSet(f, T) = SumFunctionOnSet(g, T)}
<1>1. {} \in Q
  BY SumEmpty
<1>2. ASSUME NEW T \in SUBSET D, NEW x \in D, T \in Q, x \notin T PROVE T \cup {x} \in Q
  BY <1>2, SumAdd
<1> HIDE DEF Q
<1>3. D \in Q
  BY <1>1, <1>2, SubsetInduction
<1> QED
  BY <1>3 DEF Q

LEMMA SumPlus ==
  ASSUME NEW D, IsFiniteSet(D), NEW f, NEW g, NEW h,
         \A x \in D : f[x] \in Int /\ g[x] \in Int /\ h[x] = f[x] + g[x]
  PROVE  SumFunctionOnSet(h, D) = SumFunctionOnSet(f, D) + SumFunctionOnSet(g, D)
<1> DEFINE F(T) == SumFunctionOnSet(f, T)
           G(T) == SumFunctionOnSet(g, T)
           H(T) == SumFunctionOnSet(h, T)
           Q == {T \in SUBSET D : H(T) = F(T) + G(T)}
<1>0. /\ F({}) = 0 /\ G({}) = 0 /\ H({}) = 0
      /\ \A T \in SUBSET D : F(T) \in Int /\ G(T) \in Int /\ H(T) \in Int
      /\ \A T \in SUBSET D, x \in D : x \notin T =>
           /\ F(T \cup {x}) = f[x] + F(T)
           /\ G(T \cup {x}) = g[x] + G(T)
           /\ H(T \cup {x}) = h[x] + H(T)
  <2>1. Sums(f, D)
    <3>1. IsFiniteSet(D) /\ \A x \in D : f[x] \in Int
      OBVIOUS
    <3> QED
      BY ONLY <3>1, SumLaws
  <2>2. Sums(g, D)
    <3>1. IsFiniteSet(D) /\ \A x \in D : g[x] \in Int
      OBVIOUS
    <3> QED
      BY ONLY <3>1, SumLaws
  <2>3. Sums(h, D)
    <3>1. IsFiniteSet(D) /\ \A x \in D : h[x] \in Int
      OBVIOUS
    <3> QED
      BY ONLY <3>1, SumLaws
  <2> QED
    BY <2>1, <2>2, <2>3 DEF Sums
<1> HIDE DEF F, G, H
<1>1. {} \in Q
  BY <1>0
<1>2. ASSUME NEW T \in SUBSET D, NEW x \in D, T \in Q, x \notin T PROVE T \cup {x} \in Q
  <2>1. H(T) = F(T) + G(T) /\ F(T) \in Int /\ G(T) \in Int
    BY <1>2, <1>0
  <2>2. /\ F(T \cup {x}) = f[x] + F(T)
        /\ G(T \cup {x}) = g[x] + G(T)
        /\ H(T \cup {x}) = (f[x] + g[x]) + H(T)
    BY <1>2, <1>0
  <2>3. f[x] \in Int /\ g[x] \in Int
    OBVIOUS
  <2>4. H(T \cup {x}) = F(T \cup {x}) + G(T \cup {x})
    BY <2>1, <2>2, <2>3
  <2> QED
    BY <2>4
<1> HIDE DEF Q
<1>3. D \in Q
  BY <1>1, <1>2, SubsetInduction
<1> QED
  BY <1>3 DEF Q, F, G, H

LEMMA SumTimes ==
  ASSUME NEW D, IsFiniteSet(D), NEW c \in Int, NEW f, NEW h,
         \A x \in D : f[x] \in Int /\ h[x] = c * f[x]
  PROVE  SumFunctionOnSet(h, D) = c * SumFunctionOnSet(f, D)
<1> DEFINE F(T) == SumFunctionOnSet(f, T)
           H(T) == SumFunctionOnSet(h, T)
           Q == {T \in SUBSET D : H(T) = c * F(T)}
<1>0. /\ F({}) = 0 /\ H({}) = 0
      /\ \A T \in SUBSET D : F(T) \in Int /\ H(T) \in Int
      /\ \A T \in SUBSET D, x \in D : x \notin T =>
           /\ F(T \cup {x}) = f[x] + F(T)
           /\ H(T \cup {x}) = h[x] + H(T)
  <2>1. Sums(f, D)
    <3>1. IsFiniteSet(D) /\ \A x \in D : f[x] \in Int
      OBVIOUS
    <3> QED
      BY ONLY <3>1, SumLaws
  <2>2. Sums(h, D)
    <3>1. IsFiniteSet(D) /\ \A x \in D : h[x] \in Int
      OBVIOUS
    <3> QED
      BY ONLY <3>1, SumLaws
  <2> QED
    BY <2>1, <2>2 DEF Sums
<1> HIDE DEF F, H
<1>1. {} \in Q
  BY <1>0
<1>2. ASSUME NEW T \in SUBSET D, NEW x \in D, T \in Q, x \notin T PROVE T \cup {x} \in Q
  <2>1. H(T \cup {x}) = c * f[x] + c * F(T) /\ F(T \cup {x}) = f[x] + F(T) /\ f[x] \in Int /\ F(T) \in Int
    BY <1>2, <1>0
  <2>2. c * (f[x] + F(T)) = c * f[x] + c * F(T)
    BY <2>1
  <2> QED
    BY <2>1, <2>2
<1> HIDE DEF Q
<1>3. D \in Q
  BY <1>1, <1>2, SubsetInduction
<1> QED
  BY <1>3 DEF Q, F, H

\* A sum keeps the order of its terms; equal sums of ordered terms are of equal terms.
LEMMA SumMonotone ==
  ASSUME NEW D, IsFiniteSet(D), NEW f, NEW g,
         \A x \in D : f[x] \in Int /\ g[x] \in Int /\ f[x] <= g[x]
  PROVE  /\ SumFunctionOnSet(f, D) <= SumFunctionOnSet(g, D)
         /\ SumFunctionOnSet(f, D) = SumFunctionOnSet(g, D) => \A x \in D : f[x] = g[x]
<1> DEFINE F(T) == SumFunctionOnSet(f, T)
           G(T) == SumFunctionOnSet(g, T)
           Q == {T \in SUBSET D : F(T) <= G(T) /\ (F(T) = G(T) => \A x \in T : f[x] = g[x])}
<1>0. /\ F({}) = 0 /\ G({}) = 0
      /\ \A T \in SUBSET D : F(T) \in Int /\ G(T) \in Int
      /\ \A T \in SUBSET D, x \in D : x \notin T =>
           /\ F(T \cup {x}) = f[x] + F(T)
           /\ G(T \cup {x}) = g[x] + G(T)
  <2>1. Sums(f, D)
    <3>1. IsFiniteSet(D) /\ \A x \in D : f[x] \in Int
      OBVIOUS
    <3> QED
      BY ONLY <3>1, SumLaws
  <2>2. Sums(g, D)
    <3>1. IsFiniteSet(D) /\ \A x \in D : g[x] \in Int
      OBVIOUS
    <3> QED
      BY ONLY <3>1, SumLaws
  <2> QED
    BY <2>1, <2>2 DEF Sums
<1> HIDE DEF F, G
<1>1. {} \in Q
  BY <1>0
<1>2. ASSUME NEW T \in SUBSET D, NEW x \in D, T \in Q, x \notin T PROVE T \cup {x} \in Q
  <2>1. F(T \cup {x}) <= G(T \cup {x})
    BY <1>2, <1>0
  <2>2. ASSUME F(T \cup {x}) = G(T \cup {x}) PROVE \A y \in T \cup {x} : f[y] = g[y]
    <3>1. F(T) = G(T) /\ f[x] = g[x]
      BY <2>2, <1>2, <1>0
    <3> QED
      BY <3>1, <1>2
  <2> QED
    BY <2>1, <2>2
<1> HIDE DEF Q
<1>3. D \in Q
  BY <1>1, <1>2, SubsetInduction
<1> QED
  BY <1>3 DEF Q, F, G

LEMMA SumConstant ==
  ASSUME NEW D, IsFiniteSet(D), NEW c \in Int, NEW f, \A x \in D : f[x] = c
  PROVE  SumFunctionOnSet(f, D) = c * Cardinality(D)
<1> DEFINE F(T) == SumFunctionOnSet(f, T)
           Q == {T \in SUBSET D : F(T) = c * Cardinality(T)}
<1>0. /\ F({}) = 0
      /\ \A T \in SUBSET D : F(T) \in Int
      /\ \A T \in SUBSET D, x \in D : x \notin T => F(T \cup {x}) = f[x] + F(T)
  <2>1. Sums(f, D)
    <3>1. IsFiniteSet(D) /\ \A x \in D : f[x] \in Int
      OBVIOUS
    <3> QED
      BY ONLY <3>1, SumLaws
  <2> QED
    BY <2>1 DEF Sums
<1> HIDE DEF F
<1>1. {} \in Q
  BY <1>0, FS_EmptySet
<1>2. ASSUME NEW T \in SUBSET D, NEW x \in D, T \in Q, x \notin T PROVE T \cup {x} \in Q
  <2>1. Cardinality(T \cup {x}) = Cardinality(T) + 1 /\ Cardinality(T) \in Nat
    BY <1>2, FS_Subset, FS_AddElement, FS_CardinalityType
  <2>2. F(T \cup {x}) = c + c * Cardinality(T)
    BY <1>2, <1>0
  <2>3. c * (Cardinality(T) + 1) = c + c * Cardinality(T)
    BY <2>1
  <2> QED
    BY <2>1, <2>2, <2>3
<1> HIDE DEF Q
<1>3. D \in Q
  BY <1>1, <1>2, SubsetInduction
<1> QED
  BY <1>3 DEF Q, F

LEMMA SumUnion ==
  ASSUME NEW f, NEW A, NEW B, IsFiniteSet(A), IsFiniteSet(B), A \cap B = {},
         \A x \in A \cup B : f[x] \in Int
  PROVE  SumFunctionOnSet(f, A \cup B) = SumFunctionOnSet(f, A) + SumFunctionOnSet(f, B)
<1> DEFINE F(T) == SumFunctionOnSet(f, T)
           Q == {T \in SUBSET B : F(A \cup T) = F(A) + F(T)}
<1>0. /\ F({}) = 0
      /\ \A T \in SUBSET (A \cup B) : F(T) \in Int
      /\ \A T \in SUBSET (A \cup B), x \in A \cup B : x \notin T => F(T \cup {x}) = f[x] + F(T)
  <2>1. IsFiniteSet(A \cup B) /\ \A x \in A \cup B : f[x] \in Int
    BY FS_Union
  <2>2. Sums(f, A \cup B)
    BY ONLY <2>1, SumLaws
  <2> QED
    BY <2>2 DEF Sums
<1> HIDE DEF F
<1>1. {} \in Q
  BY <1>0, A \cup {} = A
<1>2. ASSUME NEW T \in SUBSET B, NEW x \in B, T \in Q, x \notin T PROVE T \cup {x} \in Q
  <2>1. A \cup (T \cup {x}) = (A \cup T) \cup {x} /\ x \notin A \cup T
    BY <1>2
  <2>2. F((A \cup T) \cup {x}) = f[x] + F(A \cup T)
    BY <2>1, <1>0
  <2>3. F(T \cup {x}) = f[x] + F(T)
    BY <1>2, <1>0
  <2>4. F(A \cup T) = F(A) + F(T) /\ F(A) \in Int /\ F(T) \in Int /\ f[x] \in Int
    BY <1>2, <1>0
  <2>6. F(A \cup (T \cup {x})) = f[x] + (F(A) + F(T))
    BY <2>1, <2>2, <2>4
  <2> DEFINE u == F(A)  v == F(T)  w == f[x]
  <2>7. F(A \cup (T \cup {x})) = w + (u + v) /\ F(T \cup {x}) = w + v /\ u \in Int /\ v \in Int /\ w \in Int
    BY <2>3, <2>4, <2>6
  <2>8. u = F(A)
    OBVIOUS
  <2> HIDE DEF u, v, w
  <2>9. w + (u + v) = u + (w + v)
    BY <2>7
  <2>5. F(A \cup (T \cup {x})) = F(A) + F(T \cup {x})
    BY <2>7, <2>8, <2>9
  <2> QED
    BY <2>5
<1> HIDE DEF Q
<1>3. B \in Q
  BY <1>1, <1>2, SubsetInduction
<1> QED
  BY <1>3 DEF Q, F

\* The sum of a group is the sum over its classes.
LEMMA SumFibers ==
  ASSUME NEW D, IsFiniteSet(D), NEW B, IsFiniteSet(B), NEW f, \A x \in D : f[x] \in Int,
         NEW h, \A x \in D : h[x] \in B,
         NEW part, \A b \in B : part[b] \in SUBSET D /\ \A x \in D : x \in part[b] <=> h[x] = b,
         NEW class, \A b \in B : class[b] = SumFunctionOnSet(f, part[b])
  PROVE  SumFunctionOnSet(f, D) = SumFunctionOnSet(class, B)
<1> DEFINE F(T) == SumFunctionOnSet(f, T)
           G(C) == SumFunctionOnSet(class, C)
           Q == {C \in SUBSET B : G(C) = F({x \in D : h[x] \in C})}
<1>1. \A b \in B : class[b] = F({x \in D : h[x] = b}) /\ class[b] \in Int
  <2>1. ASSUME NEW b \in B PROVE class[b] = F({x \in D : h[x] = b}) /\ class[b] \in Int
    <3>1. part[b] = {x \in D : h[x] = b} /\ part[b] \in SUBSET D
      OBVIOUS
    <3>2. F(part[b]) \in Int
      BY ONLY <3>1, IsFiniteSet(D), \A x \in D : f[x] \in Int, SumLaws DEF Sums
    <3> QED
      BY <3>1, <3>2
  <2> QED
    BY <2>1
<1>2. /\ F({}) = 0 /\ G({}) = 0
      /\ \A C \in SUBSET B, b \in B : b \notin C => G(C \cup {b}) = class[b] + G(C)
      /\ \A C \in SUBSET B : G(C) \in Int
  BY <1>1, SumLaws DEF Sums
<1> HIDE DEF G
<1>3. {} \in Q
  <2>1. {x \in D : h[x] \in {}} = {}
    OBVIOUS
  <2> QED
    BY <2>1, <1>2
<1>4. ASSUME NEW C \in SUBSET B, NEW b \in B, C \in Q, b \notin C PROVE C \cup {b} \in Q
  <2> DEFINE new == {x \in D : h[x] = b}
             old == {x \in D : h[x] \in C}
  <2>1. {x \in D : h[x] \in C \cup {b}} = old \cup new /\ old \cap new = {}
    BY <1>4
  <2>2. IsFiniteSet(old) /\ IsFiniteSet(new)
    BY FS_Subset
  <2>3. F(old \cup new) = F(old) + F(new) /\ F(old) \in Int /\ F(new) \in Int
    BY <2>1, <2>2, SumUnion, SumInt
  <2>4. G(C \cup {b}) = F(new) + F(old)
    BY <1>1, <1>2, <1>4
  <2> HIDE DEF new, old, F
  <2>5. G(C \cup {b}) = F(old \cup new)
    BY <2>3, <2>4
  <2>6. G(C \cup {b}) = F({x \in D : h[x] \in C \cup {b}})
    BY <2>1, <2>5
  <2> QED
    BY <2>6
<1> HIDE DEF Q
<1>5. B \in Q
  <2>1. IsFiniteSet(B)
    OBVIOUS
  <2> QED
    BY ONLY <2>1, <1>3, <1>4, SubsetInduction
<1>6. {x \in D : h[x] \in B} = D
  OBVIOUS
<1> QED
  BY <1>5, <1>6 DEF Q, G

LEMMA SumAbs ==
  ASSUME NEW D, IsFiniteSet(D), NEW f, NEW g, \A x \in D : f[x] \in Int /\ g[x] = Abs(f[x])
  PROVE  /\ Abs(SumFunctionOnSet(f, D)) <= SumFunctionOnSet(g, D)
         /\ SumFunctionOnSet(g, D) \in Nat
<1> DEFINE F(T) == SumFunctionOnSet(f, T)
           G(T) == SumFunctionOnSet(g, T)
           Q == {T \in SUBSET D : Abs(F(T)) <= G(T)}
<1>a. \A x \in D : f[x] \in Int /\ g[x] \in Int
  BY DEF Abs
<1>0. /\ F({}) = 0 /\ G({}) = 0
      /\ \A T \in SUBSET D : F(T) \in Int /\ G(T) \in Int
      /\ \A T \in SUBSET D, x \in D : x \notin T =>
           /\ F(T \cup {x}) = f[x] + F(T)
           /\ G(T \cup {x}) = g[x] + G(T)
  <2>1. Sums(f, D)
    <3>1. IsFiniteSet(D) /\ \A x \in D : f[x] \in Int
      BY <1>a
    <3> QED
      BY ONLY <3>1, SumLaws
  <2>2. Sums(g, D)
    <3>1. IsFiniteSet(D) /\ \A x \in D : g[x] \in Int
      BY <1>a
    <3> QED
      BY ONLY <3>1, SumLaws
  <2> QED
    BY <2>1, <2>2 DEF Sums
<1> HIDE DEF F, G
<1>1. {} \in Q
  BY <1>0 DEF Abs
<1>2. ASSUME NEW T \in SUBSET D, NEW x \in D, T \in Q, x \notin T PROVE T \cup {x} \in Q
  <2>1. Abs(F(T)) <= G(T) /\ F(T) \in Int /\ G(T) \in Int
    BY <1>2, <1>0
  <2>2. F(T \cup {x}) = f[x] + F(T) /\ G(T \cup {x}) = Abs(f[x]) + G(T)
    BY <1>2, <1>0
  <2>3. f[x] \in Int
    OBVIOUS
  <2>4. Abs(F(T \cup {x})) <= G(T \cup {x})
    BY <2>1, <2>2, <2>3 DEF Abs
  <2> QED
    BY <2>4
<1> HIDE DEF Q
<1>3. D \in Q
  BY <1>1, <1>2, SubsetInduction
<1>4. Abs(F(D)) <= G(D) /\ F(D) \in Int /\ G(D) \in Int
  BY <1>3, <1>0 DEF Q
<1>5. G(D) \in Nat
  BY <1>4 DEF Abs
<1> QED
  BY <1>4, <1>5 DEF F, G

LEMMA Squares ==
  ASSUME NEW n \in Nat, NEW S \in Int, NEW Q \in Int, NEW a \in Int, S * S <= n * Q,
         n = 0 => S = 0 /\ Q = 0
  PROVE  (a + S) * (a + S) <= (n + 1) * (a * a + Q)
<1>1. (a + S) * (a + S) = a * a + 2 * (S * a) + S * S
  OBVIOUS
<1>2. (n + 1) * (a * a + Q) = n * (a * a) + n * Q + a * a + Q
  OBVIOUS
<1>3. CASE n = 0
  BY <1>3, <1>1, <1>2
<1>4. CASE n > 0
  <2>1. 0 <= (S - n * a) * (S - n * a)
    <3> DEFINE u == S - n * a
    <3>1. u \in Int
      OBVIOUS
    <3> HIDE DEF u
    <3> QED
      BY <3>1 DEF u
  <2>2. (S - n * a) * (S - n * a) = S * S - 2 * (n * (S * a)) + n * (n * (a * a))
    OBVIOUS
  <2>3. 2 * (n * (S * a)) <= n * Q + n * (n * (a * a))
    <3> DEFINE u == n * (S * a)  v == n * (n * (a * a))  w == n * Q  z == S * S
    <3>1. 0 <= z - 2 * u + v /\ z <= w /\ u \in Int /\ v \in Int /\ w \in Int /\ z \in Int
      BY <2>1, <2>2
    <3>2. 2 * u <= w + v
      <4> HIDE DEF u, v, w, z
      <4> QED
        BY <3>1
    <3> QED
      BY <3>2
  <2>4. 2 * (S * a) <= Q + n * (a * a)
    <3> DEFINE u == S * a  v == Q + n * (a * a)
    <3>1. u \in Int /\ v \in Int /\ n * (2 * u) <= n * v
      <4>1. n * (2 * u) = 2 * (n * (S * a)) /\ n * v = n * Q + n * (n * (a * a))
        OBVIOUS
      <4> QED
        BY <4>1, <2>3
    <3>2. 2 * u <= v
      <4> HIDE DEF u, v
      <4>1. SUFFICES ASSUME 2 * u >= v + 1 PROVE FALSE
        BY <3>1
      <4>2. n * (2 * u) >= n * (v + 1)
        BY <3>1, <4>1
      <4>3. n * (v + 1) = n * v + n
        BY <3>1
      <4> QED
        BY <3>1, <4>2, <4>3, <1>4
    <3> QED
      BY <3>2
  <2> DEFINE sa == S * a  ss == S * S  nq == n * Q  naa == n * (a * a)  aa == a * a
  <2>5. /\ (a + S) * (a + S) = aa + 2 * sa + ss
        /\ (n + 1) * (a * a + Q) = naa + nq + aa + Q
        /\ 2 * sa <= Q + naa /\ ss <= nq
        /\ sa \in Int /\ ss \in Int /\ nq \in Int /\ naa \in Int /\ aa \in Int
    BY <1>1, <1>2, <2>4
  <2> HIDE DEF sa, ss, nq, naa, aa
  <2> QED
    BY <2>5
<1> QED
  BY <1>3, <1>4

\* The square of a sum is at most the number of its terms times that of squares.
LEMMA SumSquares ==
  ASSUME NEW D, IsFiniteSet(D), NEW f, NEW g, \A x \in D : f[x] \in Int /\ g[x] = f[x] * f[x]
  PROVE  SumFunctionOnSet(f, D) * SumFunctionOnSet(f, D) <= Cardinality(D) * SumFunctionOnSet(g, D)
<1> DEFINE F(T) == SumFunctionOnSet(f, T)
           G(T) == SumFunctionOnSet(g, T)
           Q == {T \in SUBSET D : F(T) * F(T) <= Cardinality(T) * G(T)}
<1>a. \A x \in D : f[x] \in Int /\ g[x] \in Int
  OBVIOUS
<1>0. /\ F({}) = 0 /\ G({}) = 0
      /\ \A T \in SUBSET D : F(T) \in Int /\ G(T) \in Int
      /\ \A T \in SUBSET D, x \in D : x \notin T =>
           /\ F(T \cup {x}) = f[x] + F(T)
           /\ G(T \cup {x}) = g[x] + G(T)
  <2>1. Sums(f, D)
    <3>1. IsFiniteSet(D) /\ \A x \in D : f[x] \in Int
      BY <1>a
    <3> QED
      BY ONLY <3>1, SumLaws
  <2>2. Sums(g, D)
    <3>1. IsFiniteSet(D) /\ \A x \in D : g[x] \in Int
      BY <1>a
    <3> QED
      BY ONLY <3>1, SumLaws
  <2> QED
    BY <2>1, <2>2 DEF Sums
<1> HIDE DEF F, G
<1>1. {} \in Q
  BY <1>0, FS_EmptySet
<1>2. ASSUME NEW T \in SUBSET D, NEW x \in D, T \in Q, x \notin T PROVE T \cup {x} \in Q
  <2>0. Cardinality(T \cup {x}) = Cardinality(T) + 1 /\ Cardinality(T) \in Nat /\ (Cardinality(T) = 0 => T = {})
    BY <1>2, FS_Subset, FS_AddElement, FS_CardinalityType, FS_EmptySet
  <2>1. F(T) * F(T) <= Cardinality(T) * G(T) /\ F(T) \in Int /\ G(T) \in Int
    BY <1>2, <1>0
  <2>2. F(T \cup {x}) = f[x] + F(T) /\ G(T \cup {x}) = f[x] * f[x] + G(T)
    BY <1>2, <1>0
  <2>3. f[x] \in Int
    OBVIOUS
  <2>4. Cardinality(T) = 0 => F(T) = 0 /\ G(T) = 0
    BY <2>0, <1>0
  <2>5. (f[x] + F(T)) * (f[x] + F(T)) <= (Cardinality(T) + 1) * (f[x] * f[x] + G(T))
    BY <2>0, <2>1, <2>3, <2>4, Squares
  <2> QED
    BY <2>0, <2>2, <2>5
<1> HIDE DEF Q
<1>3. D \in Q
  BY <1>1, <1>2, SubsetInduction
<1> QED
  BY <1>3 DEF Q, F, G

-----------------------------------------------------------------------------
(* Calibration: the error over the bins lies between the gap of all rows   *)
(* and the sum of the gaps of each.                                        *)

-----------------------------------------------------------------------------
(* Calibration error.                                                      *)

Scored == Seq([p : 0..ScoreMax, y : BOOLEAN])

LEMMA FiniteInterval == \A a, b \in Int : IsFiniteSet(a..b)
BY FS_Interval

LEMMA Interval == \A n \in Nat : IsFiniteSet(1..n) /\ Cardinality(1..n) = n
<1> SUFFICES ASSUME NEW n \in Nat PROVE IsFiniteSet(1..n) /\ Cardinality(1..n) = n
  OBVIOUS
<1>1. IsFiniteSet(1..n) /\ Cardinality(1..n) = IF 1 > n THEN 0 ELSE n - 1 + 1
  BY FS_Interval
<1> QED
  BY <1>1

LEMMA ScoredRows ==
  ASSUME NEW s \in Scored
  PROVE  /\ Len(s) \in Nat /\ DOMAIN s = 1..Len(s)
         /\ IsFiniteSet(DOMAIN s) /\ Cardinality(DOMAIN s) = Len(s)
         /\ \A i \in DOMAIN s : s[i].p \in 0..ScoreMax /\ s[i].y \in BOOLEAN
<1>1. Len(s) \in Nat /\ DOMAIN s = 1..Len(s)
  BY DEF Scored
<1>2. IsFiniteSet(1..Len(s)) /\ Cardinality(1..Len(s)) = Len(s)
  BY <1>1, Interval
<1>3. ASSUME NEW i \in DOMAIN s PROVE s[i].p \in 0..ScoreMax /\ s[i].y \in BOOLEAN
  <2>1. s[i] \in [p : 0..ScoreMax, y : BOOLEAN]
    <3> DEFINE R == [p : 0..ScoreMax, y : BOOLEAN]
    <3>1. s \in Seq(R)
      BY DEF Scored
    <3> HIDE DEF R
    <3>2. s[i] \in R
      BY <3>1
    <3> QED
      BY <3>2 DEF R
  <2> QED
    BY <2>1
<1> QED
  BY <1>1, <1>2, <1>3

Difference(s) == [i \in DOMAIN s |-> s[i].p - Outcome(s[i])]

LEMMA DifferenceInt ==
  ASSUME NEW s \in Scored
  PROVE  \A i \in DOMAIN s : Difference(s)[i] \in Int /\ Difference(s)[i] = s[i].p - Outcome(s[i])
BY ScoredRows, ScoreAssumption DEF Difference, Outcome

LEMMA GapOfSum ==
  ASSUME NEW s \in Scored, NEW R \in SUBSET DOMAIN s
  PROVE  Gap(s, R) = Abs(SumFunctionOnSet(Difference(s), R)) /\ Gap(s, R) \in Nat
<1> DEFINE d == [i \in R |-> s[i].p - Outcome(s[i])]
<1>0. IsFiniteSet(R)
  BY ScoredRows, FS_Subset
<1>1. \A i \in R : d[i] \in Int /\ d[i] = Difference(s)[i]
  BY DifferenceInt
<1>2. SumFunction(d) = SumFunctionOnSet(d, R)
  BY DEF SumFunction
<1>3. SumFunctionOnSet(d, R) = SumFunctionOnSet(Difference(s), R) /\ SumFunctionOnSet(d, R) \in Int
  <2> HIDE DEF d
  <2> QED
    BY <1>0, <1>1, SumAgree, SumInt
<1> QED
  BY <1>2, <1>3 DEF Gap, Abs

LEMMA BinInRange ==
  ASSUME NEW s \in Scored, NEW i \in DOMAIN s
  PROVE  CalibrationBin(s[i]) \in 0..9
<1> DEFINE q == (10 * s[i].p) \div ScoreMax
<1>1. s[i].p \in Nat
  BY ScoredRows, ScoreAssumption
<1>2. q \in Nat
  BY <1>1, ScoreAssumption
<1> HIDE DEF q
<1>3. \E x \in {q, 9} : \A y \in {q, 9} : x <= y
  BY <1>2
<1>4. Min({q, 9}) \in {q, 9} /\ Min({q, 9}) <= 9
  BY <1>2, <1>3 DEF Min
<1> QED
  BY <1>2, <1>4 DEF CalibrationBin, q

\* The calibration error lies between the gap of the means and the mean gap,
\* and its square is at most the Brier score, for all scored rows
\* (expected_calibration_error, brier_score).
THEOREM CalibrationRightHolds == \A s \in Scored : CalibrationRight(s)
<1> SUFFICES ASSUME NEW s \in Scored PROVE CalibrationRight(s)
  OBVIOUS
<1> DEFINE D == DOMAIN s
           d == Difference(s)
           B == 0..9
           h == [i \in D |-> CalibrationBin(s[i])]
           class == [b \in B |-> SumFunctionOnSet(d, {i \in D : h[i] = b})]
           part == [b \in B |-> {i \in D : h[i] = b}]
           gaps == [b \in B |-> Gap(s, {i \in D : CalibrationBin(s[i]) = b})]
           one == [i \in D |-> Gap(s, {i})]
           ones == [b \in B |-> SumFunctionOnSet(one, {i \in D : h[i] = b})]
           square == [i \in D |-> Square(s[i].p - Outcome(s[i]))]
           S == SumFunctionOnSet(one, D)
           C == SumFunctionOnSet(gaps, B)
<1>1. IsFiniteSet(D) /\ IsFiniteSet(B) /\ Cardinality(D) = Len(s)
  <2>1. IsFiniteSet(B)
    BY FiniteInterval, 0 \in Int, 9 \in Int
  <2> QED
    BY <2>1, ScoredRows
<1>2. \A i \in D : d[i] \in Int
  BY DifferenceInt
<1>3. \A i \in D : h[i] \in 0..9
  BY BinInRange
<1>4. \A i \in D : one[i] = Abs(d[i]) /\ one[i] \in Int
  <2>1. ASSUME NEW i \in D PROVE Gap(s, {i}) = Abs(d[i]) /\ Gap(s, {i}) \in Nat
    <3>1. SumFunctionOnSet(d, {i}) = d[i]
      BY <1>2, SumOne
    <3> QED
      BY <3>1, GapOfSum
  <2> QED
    BY <2>1
<1>5. \A b \in B : class[b] \in Int /\ gaps[b] = Abs(class[b]) /\ gaps[b] \in Int /\ ones[b] \in Int /\ gaps[b] <= ones[b]
  <2>1. ASSUME NEW b \in 0..9 
        PROVE  class[b] \in Int /\ gaps[b] = Abs(class[b]) /\ gaps[b] \in Int /\ ones[b] \in Int /\ gaps[b] <= ones[b]
    <3> DEFINE R == {i \in D : h[i] = b}
    <3>1. IsFiniteSet(R) /\ R \in SUBSET DOMAIN s
      BY <1>1, FS_Subset
    <3>2. class[b] = SumFunctionOnSet(d, R) /\ ones[b] = SumFunctionOnSet(one, R)
      OBVIOUS
    <3>3. gaps[b] = Gap(s, R)
      <4>1. {i \in D : CalibrationBin(s[i]) = b} = R
        OBVIOUS
      <4> QED
        BY <4>1
    <3>4. \A i \in R : d[i] \in Int /\ one[i] = Abs(d[i])
      BY <1>2, <1>4
    <3> HIDE DEF R, class, ones, gaps, one, d
    <3>5. Abs(SumFunctionOnSet(d, R)) <= SumFunctionOnSet(one, R) /\ SumFunctionOnSet(one, R) \in Nat
      BY <3>1, <3>4, SumAbs
    <3>6. Gap(s, R) = Abs(SumFunctionOnSet(d, R)) /\ Gap(s, R) \in Nat
      BY <3>1, GapOfSum DEF d
    <3>7. SumFunctionOnSet(d, R) \in Int
      BY <3>1, <3>4, SumInt
    <3> QED
      BY <3>2, <3>3, <3>5, <3>6, <3>7
  <2> QED
    BY <2>1
<1>6. CalibrationError(s) = C /\ SumFunction(one) = S
  BY DEF CalibrationError, SumFunction
<1>7. Gap(s, D) <= C
  <2>1. Gap(s, D) = Abs(SumFunctionOnSet(d, D))
    BY GapOfSum
  <2>2. SumFunctionOnSet(d, D) = SumFunctionOnSet(class, B)
    <3>1. \A b \in B : /\ part[b] \in SUBSET D /\ \A i \in D : i \in part[b] <=> h[i] = b
                      /\ class[b] = SumFunctionOnSet(d, part[b])
      OBVIOUS
    <3>2. IsFiniteSet(D) /\ IsFiniteSet(B) /\ (\A x \in D : d[x] \in Int) /\ (\A x \in D : h[x] \in B)
      BY <1>1, <1>2, <1>3
    <3>3. \A b \in B : part[b] \in SUBSET D /\ \A x \in D : x \in part[b] <=> h[x] = b
      BY <3>1
    <3>4. \A b \in B : class[b] = SumFunctionOnSet(d, part[b])
      BY <3>1
    <3> HIDE DEF d, h, D, B, part, class
    <3> QED
      BY ONLY <3>2, <3>3, <3>4, SumFibers
  <2>3. Abs(SumFunctionOnSet(class, B)) <= SumFunctionOnSet(gaps, B)
    <3> HIDE DEF class, gaps
    <3> QED
      BY <1>1, <1>5, SumAbs
  <2> QED
    BY <2>1, <2>2, <2>3
<1>8. C <= S
  <2>1. S = SumFunctionOnSet(ones, B)
    <3>1. \A b \in B : /\ part[b] \in SUBSET D /\ \A i \in D : i \in part[b] <=> h[i] = b
                      /\ ones[b] = SumFunctionOnSet(one, part[b])
      OBVIOUS
    <3>2. IsFiniteSet(D) /\ IsFiniteSet(B) /\ (\A x \in D : one[x] \in Int) /\ (\A x \in D : h[x] \in B)
      BY <1>1, <1>3, <1>4
    <3>3. \A b \in B : part[b] \in SUBSET D /\ \A x \in D : x \in part[b] <=> h[x] = b
      BY <3>1
    <3>4. \A b \in B : ones[b] = SumFunctionOnSet(one, part[b])
      BY <3>1
    <3> HIDE DEF one, h, D, B, part, ones
    <3> QED
      BY ONLY <3>2, <3>3, <3>4, SumFibers
  <2>2. SumFunctionOnSet(gaps, B) <= SumFunctionOnSet(ones, B)
    <3> HIDE DEF ones, gaps
    <3> QED
      BY <1>1, <1>5, SumMonotone
  <2> QED
    BY <2>1, <2>2
<1>9. C \in Nat /\ S \in Int
  <2>1. C \in Nat
    <3> HIDE DEF class, gaps
    <3> QED
      BY <1>1, <1>5, SumAbs
  <2> QED
    BY <2>1, <1>1, <1>4, SumInt
<1>10. S * S <= Len(s) * Brier(s)
  <2>1. \A i \in D : one[i] \in Int /\ square[i] = one[i] * one[i]
    <3>1. ASSUME NEW i \in D PROVE square[i] = Abs(d[i]) * Abs(d[i])
      <4>1. square[i] = d[i] * d[i]
        BY DifferenceInt DEF Square
      <4> QED
        BY <4>1, <1>2 DEF Abs
    <3> QED
      BY <3>1, <1>4
  <2>2. Brier(s) = SumFunctionOnSet(square, D)
    BY DEF Brier, SumFunction
  <2> HIDE DEF one, square
  <2>3. S * S <= Cardinality(D) * SumFunctionOnSet(square, D)
    BY <2>1, <1>1, SumSquares
  <2> QED
    BY <2>2, <2>3, <1>1
<1>11. Square(C) <= S * S
  <2> HIDE DEF C, S
  <2>1. C * C <= S * S
    BY <1>8, <1>9
  <2> QED
    BY <2>1 DEF Square
<1>12. Len(s) * Brier(s) \in Int
  <2>1. \A i \in D : square[i] \in Int
    BY DifferenceInt DEF Square
  <2>2. Brier(s) = SumFunctionOnSet(square, D)
    BY DEF Brier, SumFunction
  <2>3. Brier(s) \in Int
    <3> HIDE DEF square
    <3> QED
      BY <2>1, <2>2, <1>1, SumInt
  <2> QED
    BY <2>3, ScoredRows
<1> HIDE DEF C, S, gaps, one
<1>13. Square(C) <= Len(s) * Brier(s)
  <2>1. Square(C) \in Int /\ S * S \in Int
    BY <1>9 DEF Square
  <2> QED
    BY <2>1, <1>10, <1>11, <1>12
<1> QED
  BY <1>6, <1>7, <1>8, <1>13 DEF CalibrationRight, one

-----------------------------------------------------------------------------
(* Area under the curve: twice the rank of a row counts the rows below it  *)
(* and those tied with it.                                                 *)

-----------------------------------------------------------------------------
(* Counting.                                                               *)

LEMMA SameSize ==
  ASSUME NEW S, NEW T, IsFiniteSet(S), NEW f \in [S -> T],
         \A x, y \in S : f[x] = f[y] => x = y, \A t \in T : \E x \in S : f[x] = t
  PROVE  IsFiniteSet(T) /\ Cardinality(S) = Cardinality(T)
<1>1. f \in Bijection(S, T)
  BY DEF Bijection, Injection, Surjection, IsInjective
<1> QED
  BY <1>1, FS_Bijection DEF ExistsBijection

LEMMA SizeOfUnion ==
  ASSUME NEW S, NEW A, NEW B, IsFiniteSet(S), A \subseteq S, B \subseteq S, A \cap B = {}
  PROVE  /\ Cardinality(A) \in Nat /\ Cardinality(B) \in Nat
         /\ Cardinality(A \cup B) = Cardinality(A) + Cardinality(B)
<1>1. IsFiniteSet(A) /\ IsFiniteSet(B)
  BY FS_Subset
<1>2. Cardinality(A) \in Nat /\ Cardinality(B) \in Nat
  BY <1>1, FS_CardinalityType
<1>3. Cardinality(A \cup B) = Cardinality(A) + Cardinality(B) - Cardinality(A \cap B)
  BY <1>1, FS_Union
<1>4. Cardinality(A \cap B) = 0
  BY FS_EmptySet
<1> QED
  BY <1>2, <1>3, <1>4

\* Pairs are counted by their first element.
LEMMA PairCount ==
  ASSUME NEW A, IsFiniteSet(A), NEW B, IsFiniteSet(B), NEW R \in SUBSET (A \X B),
         NEW part, \A a \in A : part[a] \in SUBSET B /\ \A b \in B : b \in part[a] <=> <<a, b>> \in R,
         NEW f, \A a \in A : f[a] = Cardinality(part[a])
  PROVE  /\ IsFiniteSet(R) /\ SumFunctionOnSet(f, A) = Cardinality(R)
         /\ \A a \in A : f[a] \in Nat
<1> DEFINE F(T) == SumFunctionOnSet(f, T)
           Q == {T \in SUBSET A : F(T) = Cardinality({x \in R : x[1] \in T})}
<1>1. IsFiniteSet(R)
  BY FS_Product, FS_Subset
<1>2. \A a \in A : f[a] \in Nat
  <2>1. ASSUME NEW a \in A PROVE IsFiniteSet(part[a])
    BY FS_Subset
  <2> QED
    BY <2>1, FS_CardinalityType
<1>3. Sums(f, A)
  <2>1. IsFiniteSet(A) /\ \A a \in A : f[a] \in Int
    BY <1>2
  <2> QED
    BY ONLY <2>1, SumLaws
<1>4. {} \in Q
  <2>1. {x \in R : x[1] \in {}} = {}
    OBVIOUS
  <2> QED
    BY <2>1, <1>3, FS_EmptySet DEF Sums
<1>5. ASSUME NEW T \in SUBSET A, NEW a \in A, T \in Q, a \notin T PROVE T \cup {a} \in Q
  <2> DEFINE old == {x \in R : x[1] \in T}
             new == {x \in R : x[1] = a}
             seconds == part[a]
             second == [x \in new |-> x[2]]
  <2>1. {x \in R : x[1] \in T \cup {a}} = old \cup new /\ old \cap new = {} /\ old \subseteq R /\ new \subseteq R
    BY <1>5
  <2>2. Cardinality(new) = Cardinality(seconds)
    <3>1. second \in [new -> seconds]
      OBVIOUS
    <3>2. \A x, y \in new : second[x] = second[y] => x = y
      OBVIOUS
    <3>3. ASSUME NEW b \in seconds PROVE \E x \in new : second[x] = b
      <4>1. <<a, b>> \in new /\ second[<<a, b>>] = b
        OBVIOUS
      <4> QED
        BY <4>1
    <3>4. IsFiniteSet(new)
      BY <1>1, FS_Subset
    <3> HIDE DEF new, seconds, second
    <3> QED
      BY <3>1, <3>2, <3>3, <3>4, SameSize
  <2>3. Cardinality(old \cup new) = Cardinality(old) + Cardinality(new)
        /\ Cardinality(old) \in Nat /\ Cardinality(new) \in Nat
    <3>1. IsFiniteSet(R) /\ old \subseteq R /\ new \subseteq R /\ old \cap new = {}
      BY <1>1, <2>1
    <3> HIDE DEF old, new
    <3> QED
      BY ONLY <3>1, SizeOfUnion
  <2>4. F(T \cup {a}) = f[a] + F(T) /\ F(T) = Cardinality(old) /\ f[a] = Cardinality(seconds)
    BY <1>3, <1>5 DEF Sums
  <2> HIDE DEF old, new, seconds, F
  <2>5. F(T \cup {a}) = Cardinality(old \cup new)
    BY <2>2, <2>3, <2>4
  <2> QED
    BY <2>1, <2>5
<1> HIDE DEF Q
<1>6. A \in Q
  <2>1. IsFiniteSet(A) /\ {} \in Q
    BY <1>4
  <2>2. \A T \in SUBSET A, a \in A : T \in Q /\ a \notin T => T \cup {a} \in Q
    BY <1>5
  <2>3. \A T \in SUBSET A : T \in Q
    BY ONLY <2>1, <2>2, SubsetInduction
  <2> QED
    BY <2>3
<1>7. {x \in R : x[1] \in A} = R
  OBVIOUS
<1> QED
  BY <1>1, <1>2, <1>6, <1>7 DEF Q

LEMMA PairsReversed ==
  ASSUME NEW A, IsFiniteSet(A), NEW R \in SUBSET (A \X A), NEW V, V = {x \in A \X A : <<x[2], x[1]>> \in R}
  PROVE  Cardinality(V) = Cardinality(R)
<1> DEFINE swap == [x \in R |-> <<x[2], x[1]>>]
<1>1. IsFiniteSet(R)
  BY FS_Product, FS_Subset
<1>2. swap \in [R -> V]
  OBVIOUS
<1>3. \A x, y \in R : swap[x] = swap[y] => x = y
  OBVIOUS
<1>4. ASSUME NEW v \in V PROVE \E x \in R : swap[x] = v
  <2>1. <<v[2], v[1]>> \in R /\ swap[<<v[2], v[1]>>] = v
    OBVIOUS
  <2> QED
    BY <2>1
<1> HIDE DEF swap
<1> QED
  BY <1>1, <1>2, <1>3, <1>4, SameSize

-----------------------------------------------------------------------------
(* Area under the curve.                                                   *)

LEMMA Labelled ==
  ASSUME NEW s \in Scored
  PROVE  /\ PositiveRows(s) \subseteq DOMAIN s /\ NegativeRows(s) \subseteq DOMAIN s
         /\ PositiveRows(s) \cap NegativeRows(s) = {}
         /\ DOMAIN s = PositiveRows(s) \cup NegativeRows(s)
         /\ IsFiniteSet(PositiveRows(s)) /\ IsFiniteSet(NegativeRows(s))
         /\ Cardinality(PositiveRows(s)) \in Nat /\ Cardinality(NegativeRows(s)) \in Nat
<1>1. PositiveRows(s) \subseteq DOMAIN s /\ NegativeRows(s) \subseteq DOMAIN s
  BY DEF PositiveRows, NegativeRows
<1>2. IsFiniteSet(PositiveRows(s)) /\ IsFiniteSet(NegativeRows(s))
  BY <1>1, ScoredRows, FS_Subset
<1> QED
  BY <1>1, <1>2, FS_CardinalityType DEF PositiveRows, NegativeRows

\* The rows of a set that score below a row, and those that score the same.
Under(s, R) == [i \in DOMAIN s |-> Cardinality({j \in R : s[j].p < s[i].p})]
Ties(s, R) == [i \in DOMAIN s |-> Cardinality({j \in R : s[j].p = s[i].p})]

\* Twice the pairs of a row of P with one of R that it outscores, ties counting half.
Wins(s, R) == [i \in DOMAIN s |-> 2 * Under(s, R)[i] + Ties(s, R)[i]]

LEMMA WinsTypes ==
  ASSUME NEW s \in Scored, NEW R \in SUBSET DOMAIN s
  PROVE  \A i \in DOMAIN s : /\ Under(s, R)[i] \in Nat /\ Ties(s, R)[i] \in Nat
                             /\ Wins(s, R)[i] \in Nat
                             /\ Wins(s, R)[i] = 2 * Under(s, R)[i] + Ties(s, R)[i]
<1> SUFFICES ASSUME NEW i \in DOMAIN s
             PROVE  Under(s, R)[i] \in Nat /\ Ties(s, R)[i] \in Nat
  BY DEF Wins
<1>1. {j \in R : s[j].p < s[i].p} \in SUBSET DOMAIN s /\ {j \in R : s[j].p = s[i].p} \in SUBSET DOMAIN s
  OBVIOUS
<1>2. \A T \in SUBSET DOMAIN s : Cardinality(T) \in Nat
  BY ScoredRows, FS_Subset, FS_CardinalityType
<1> QED
  BY <1>1, <1>2 DEF Under, Ties

LEMMA WinsOfSum ==
  ASSUME NEW s \in Scored, NEW P \in SUBSET DOMAIN s, NEW R \in SUBSET DOMAIN s
  PROVE  SumFunctionOnSet(Wins(s, R), P) =
           2 * Cardinality({x \in P \X R : s[x[1]].p > s[x[2]].p})
             + Cardinality({x \in P \X R : s[x[1]].p = s[x[2]].p})
<1> DEFINE above == {x \in P \X R : s[x[1]].p > s[x[2]].p}
           same == {x \in P \X R : s[x[1]].p = s[x[2]].p}
           under == Under(s, R)
           level == Ties(s, R)
           twice == [i \in P |-> 2 * under[i]]
<1>0. IsFiniteSet(P) /\ IsFiniteSet(R)
  BY ScoredRows, FS_Subset
<1>1. \A i \in P : under[i] \in Nat /\ level[i] \in Nat /\ Wins(s, R)[i] = 2 * under[i] + level[i]
  BY WinsTypes
<1>2. SumFunctionOnSet(under, P) = Cardinality(above)
  <2>1. above \in SUBSET (P \X R)
    OBVIOUS
  <2> DEFINE part == [i \in P |-> {j \in R : s[j].p < s[i].p}]
  <2>2. \A i \in P : part[i] \in SUBSET R /\ \A j \in R : j \in part[i] <=> <<i, j>> \in above
    OBVIOUS
  <2>3. \A i \in P : under[i] = Cardinality(part[i])
    BY DEF Under
  <2> HIDE DEF above, under, part
  <2> QED
    BY ONLY <1>0, <2>1, <2>2, <2>3, PairCount
<1>3. SumFunctionOnSet(level, P) = Cardinality(same)
  <2>1. same \in SUBSET (P \X R)
    OBVIOUS
  <2> DEFINE part == [i \in P |-> {j \in R : s[j].p = s[i].p}]
  <2>2. \A i \in P : part[i] \in SUBSET R /\ \A j \in R : j \in part[i] <=> <<i, j>> \in same
    OBVIOUS
  <2>3. \A i \in P : level[i] = Cardinality(part[i])
    BY DEF Ties
  <2> HIDE DEF same, level, part
  <2> QED
    BY ONLY <1>0, <2>1, <2>2, <2>3, PairCount
<1> HIDE DEF under, level, above, same
<1>4. SumFunctionOnSet(twice, P) = 2 * SumFunctionOnSet(under, P)
  <2>1. 2 \in Int /\ \A i \in P : under[i] \in Int /\ twice[i] = 2 * under[i]
    BY <1>1
  <2> HIDE DEF twice
  <2> QED
    BY ONLY <1>0, <2>1, SumTimes
<1>5. SumFunctionOnSet(Wins(s, R), P) = SumFunctionOnSet(twice, P) + SumFunctionOnSet(level, P)
  <2>1. \A i \in P : twice[i] \in Int /\ level[i] \in Int /\ Wins(s, R)[i] = twice[i] + level[i]
    BY <1>1
  <2> HIDE DEF twice
  <2> QED
    BY ONLY <1>0, <2>1, SumPlus
<1> QED
  BY <1>2, <1>3, <1>4, <1>5 DEF above, same

\* Among themselves, rows win half of their pairs, but each of one with itself.
LEMMA WinsAmong ==
  ASSUME NEW s \in Scored, NEW P \in SUBSET DOMAIN s
  PROVE  SumFunctionOnSet(Wins(s, P), P) = Cardinality(P) * Cardinality(P)
<1> DEFINE above == {x \in P \X P : s[x[1]].p > s[x[2]].p}
           below == {x \in P \X P : <<x[2], x[1]>> \in above}
           same == {x \in P \X P : s[x[1]].p = s[x[2]].p}
<1>0. IsFiniteSet(P) /\ IsFiniteSet(P \X P) /\ Cardinality(P \X P) = Cardinality(P) * Cardinality(P)
  BY ScoredRows, FS_Subset, FS_Product
<1>1. Cardinality(below) = Cardinality(above)
  <2>1. IsFiniteSet(P) /\ above \in SUBSET (P \X P)
    BY <1>0
  <2> HIDE DEF above
  <2> QED
    BY ONLY <2>1, PairsReversed
<1>2. \A i, j \in P : s[i].p \in Int /\ s[j].p \in Int
  BY ScoredRows, ScoreAssumption
<1>3. (above \cup below) \cup same = P \X P
  <2>1. \A i, j \in P : <<i, j>> \in (above \cup below) \cup same
    BY <1>2
  <2>2. (above \cup below) \cup same \subseteq P \X P
    OBVIOUS
  <2> HIDE DEF above, below, same
  <2> QED
    BY <2>1, <2>2
<1>4. above \cap below = {} /\ (above \cup below) \cap same = {}
  BY <1>2
<1>5. above \subseteq P \X P /\ below \subseteq P \X P /\ same \subseteq P \X P /\ above \cup below \subseteq P \X P
  OBVIOUS
<1>6. SumFunctionOnSet(Wins(s, P), P) = 2 * Cardinality(above) + Cardinality(same)
  BY WinsOfSum
<1> HIDE DEF above, below, same
<1> DEFINE all == P \X P
<1>a. IsFiniteSet(all) /\ above \subseteq all /\ below \subseteq all /\ above \cap below = {}
  BY <1>0, <1>4, <1>5
<1>b. IsFiniteSet(all) /\ above \cup below \subseteq all /\ same \subseteq all
      /\ (above \cup below) \cap same = {} /\ (above \cup below) \cup same = all
  BY <1>0, <1>3, <1>4, <1>5
<1> HIDE DEF all
<1>7. Cardinality(above \cup below) = Cardinality(above) + Cardinality(below) /\ Cardinality(above) \in Nat
  BY ONLY <1>a, SizeOfUnion
<1>8. Cardinality(all) = Cardinality(above \cup below) + Cardinality(same) /\ Cardinality(same) \in Nat
  BY ONLY <1>b, SizeOfUnion
<1> QED
  BY <1>0, <1>1, <1>6, <1>7, <1>8 DEF all

LEMMA RankOfWins ==
  ASSUME NEW s \in Scored, NEW i \in DOMAIN s
  PROVE  TwiceRank(s, i) = Wins(s, PositiveRows(s))[i] + Wins(s, NegativeRows(s))[i] + 1
<1> DEFINE P == PositiveRows(s)
           N == NegativeRows(s)
           Lower(R) == {j \in R : s[j].p < s[i].p}
           Same(R) == {j \in R : s[j].p = s[i].p}
<1>1. Lower(DOMAIN s) = Lower(P) \cup Lower(N) /\ Lower(P) \cap Lower(N) = {}
      /\ Lower(P) \subseteq DOMAIN s /\ Lower(N) \subseteq DOMAIN s
  BY Labelled
<1>2. Same(DOMAIN s) = Same(P) \cup Same(N) /\ Same(P) \cap Same(N) = {}
      /\ Same(P) \subseteq DOMAIN s /\ Same(N) \subseteq DOMAIN s
  BY Labelled
<1>3. IsFiniteSet(DOMAIN s)
  BY ScoredRows
<1>4. TwiceRank(s, i) = 2 * Cardinality(Lower(DOMAIN s)) + Cardinality(Same(DOMAIN s)) + 1
  BY DEF TwiceRank, Below, TiedWith
<1>5. /\ Wins(s, P)[i] = 2 * Cardinality(Lower(P)) + Cardinality(Same(P))
      /\ Wins(s, N)[i] = 2 * Cardinality(Lower(N)) + Cardinality(Same(N))
  BY DEF Wins, Under, Ties
<1> HIDE DEF Lower, Same, P, N
<1>6. Cardinality(Lower(P) \cup Lower(N)) = Cardinality(Lower(P)) + Cardinality(Lower(N))
      /\ Cardinality(Lower(P)) \in Nat /\ Cardinality(Lower(N)) \in Nat
  BY ONLY <1>1, <1>3, SizeOfUnion
<1>7. Cardinality(Same(P) \cup Same(N)) = Cardinality(Same(P)) + Cardinality(Same(N))
      /\ Cardinality(Same(P)) \in Nat /\ Cardinality(Same(N)) \in Nat
  BY ONLY <1>2, <1>3, SizeOfUnion
<1>8. TwiceRank(s, i) = 2 * (Cardinality(Lower(P)) + Cardinality(Lower(N))) + (Cardinality(Same(P)) + Cardinality(Same(N))) + 1
  BY <1>1, <1>2, <1>4, <1>6, <1>7
<1>9. TwiceRank(s, i) = Wins(s, P)[i] + Wins(s, N)[i] + 1
  BY ONLY <1>5, <1>6, <1>7, <1>8
<1> QED
  BY <1>9 DEF P, N

LEMMA RocAucConcordant ==
  ASSUME NEW s \in Scored
  PROVE  SumFunction([i \in PositiveRows(s) |-> TwiceRank(s, i)])
           - Cardinality(PositiveRows(s)) * (Cardinality(PositiveRows(s)) + 1)
           = SumFunctionOnSet(Wins(s, NegativeRows(s)), PositiveRows(s))
<1> DEFINE P == PositiveRows(s)
           N == NegativeRows(s)
           rank == [i \in P |-> TwiceRank(s, i)]
           own == Wins(s, P)
           other == Wins(s, N)
           both == [i \in P |-> own[i] + other[i]]
           one == [i \in P |-> 1]
           n == Cardinality(P)
<1>1. IsFiniteSet(P) /\ n \in Nat /\ P \in SUBSET DOMAIN s /\ N \in SUBSET DOMAIN s
  BY Labelled
<1>2. \A i \in P : own[i] \in Int /\ other[i] \in Int
  BY <1>1, WinsTypes
<1>3. \A i \in P : both[i] \in Int /\ one[i] \in Int /\ rank[i] = both[i] + one[i] /\ both[i] = own[i] + other[i] /\ one[i] = 1
  BY <1>1, <1>2, RankOfWins
<1>4. SumFunction(rank) = SumFunctionOnSet(rank, P)
  BY DEF SumFunction
<1>5. SumFunctionOnSet(own, P) = n * n
  BY <1>1, WinsAmong
<1> HIDE DEF P, N, rank, own, other, both, one
<1>6. SumFunctionOnSet(rank, P) = SumFunctionOnSet(both, P) + SumFunctionOnSet(one, P)
  BY ONLY <1>1, <1>3, SumPlus
<1>7. SumFunctionOnSet(both, P) = SumFunctionOnSet(own, P) + SumFunctionOnSet(other, P)
  BY ONLY <1>1, <1>2, <1>3, SumPlus
<1>8. SumFunctionOnSet(one, P) = 1 * n
  <2>1. 1 \in Int /\ \A i \in P : one[i] = 1
    BY <1>3
  <2> QED
    BY ONLY <1>1, <2>1, SumConstant
<1>9. SumFunctionOnSet(other, P) \in Int
  BY ONLY <1>1, <1>2, SumInt
<1>10. n * (n + 1) = n * n + n
  BY <1>1
<1> DEFINE nn == n * n  u == SumFunctionOnSet(other, P)
<1>11. SumFunction(rank) = (nn + u) + 1 * n /\ n * (n + 1) = nn + n /\ nn \in Int /\ u \in Int /\ n \in Int
  BY <1>1, <1>4, <1>5, <1>6, <1>7, <1>8, <1>9, <1>10
<1> HIDE DEF nn, u, n
<1>12. SumFunction(rank) - n * (n + 1) = u
  BY ONLY <1>11
<1> QED
  BY <1>12 DEF u, n, P, N, rank, other

\* The same, rows compared by their bins.
BinWins(s) ==
  [i \in DOMAIN s |->
     2 * Cardinality({j \in NegativeRows(s) : BinOf(s[j]) < BinOf(s[i])})
       + Cardinality({j \in NegativeRows(s) : BinOf(s[j]) = BinOf(s[i])})]

BinMates(s) ==
  [i \in DOMAIN s |->
     Cardinality({j \in NegativeRows(s) : BinOf(s[i]) = BinOf(s[j]) /\ s[i].p # s[j].p})]

LEMMA BinsOrdered ==
  ASSUME NEW s \in Scored, NEW i \in DOMAIN s, NEW j \in DOMAIN s
  PROVE  /\ BinOf(s[i]) \in 0..ScoreMax
         /\ s[i].p = s[j].p => BinOf(s[i]) = BinOf(s[j])
         /\ BinOf(s[j]) < BinOf(s[i]) => s[j].p < s[i].p
         /\ s[j].p < s[i].p => BinOf(s[j]) <= BinOf(s[i])
<1>1. s[i].p \in 0..ScoreMax /\ s[j].p \in 0..ScoreMax /\ ScoreMax \in Nat /\ ScoreMax # 0
  BY ScoredRows, ScoreAssumption
<1> QED
  BY <1>1 DEF BinOf

LEMMA BinError ==
  ASSUME NEW s \in Scored, NEW i \in DOMAIN s
  PROVE  /\ BinWins(s)[i] \in Nat /\ BinMates(s)[i] \in Nat /\ Wins(s, NegativeRows(s))[i] \in Nat
         /\ Abs(BinWins(s)[i] - Wins(s, NegativeRows(s))[i]) <= BinMates(s)[i]
<1> DEFINE N == NegativeRows(s)
           D == DOMAIN s
           lower == {j \in N : BinOf(s[j]) < BinOf(s[i])}
           same == {j \in N : BinOf(s[j]) = BinOf(s[i])}
           mates == {j \in N : BinOf(s[i]) = BinOf(s[j]) /\ s[i].p # s[j].p}
           under == {j \in N : s[j].p < s[i].p}
           level == {j \in N : s[j].p = s[i].p}
           worse == {j \in mates : s[j].p < s[i].p}
           better == {j \in mates : s[j].p > s[i].p}
<1>1. IsFiniteSet(D) /\ N \subseteq D
  BY Labelled, ScoredRows
<1>2. \A j \in N : s[i].p \in Int /\ s[j].p \in Int /\ BinOf(s[i]) \in Int /\ BinOf(s[j]) \in Int
  BY <1>1, ScoredRows, BinsOrdered, ScoreAssumption
<1>3. /\ lower \subseteq D /\ same \subseteq D /\ mates \subseteq D /\ under \subseteq D /\ level \subseteq D
      /\ worse \subseteq D /\ better \subseteq D /\ worse \cup level \subseteq D
  BY <1>1
<1>4. mates = worse \cup better /\ worse \cap better = {}
  BY <1>2
<1>5. under = lower \cup worse /\ lower \cap worse = {}
  BY <1>1, <1>2, BinsOrdered
<1>6. same = (worse \cup level) \cup better /\ (worse \cup level) \cap better = {} /\ worse \cap level = {}
  BY <1>1, <1>2, BinsOrdered
<1>7. /\ BinWins(s)[i] = 2 * Cardinality(lower) + Cardinality(same)
      /\ BinMates(s)[i] = Cardinality(mates)
      /\ Wins(s, N)[i] = 2 * Cardinality(under) + Cardinality(level)
  BY DEF BinWins, BinMates, Wins, Under, Ties
<1> HIDE DEF lower, same, mates, under, level, worse, better, D, N
<1>8. /\ Cardinality(mates) = Cardinality(worse) + Cardinality(better)
      /\ Cardinality(worse) \in Nat /\ Cardinality(better) \in Nat
  BY ONLY <1>1, <1>3, <1>4, SizeOfUnion
<1>9. Cardinality(under) = Cardinality(lower) + Cardinality(worse) /\ Cardinality(lower) \in Nat
  BY ONLY <1>1, <1>3, <1>5, SizeOfUnion
<1>10. Cardinality(worse \cup level) = Cardinality(worse) + Cardinality(level) /\ Cardinality(level) \in Nat
  BY ONLY <1>1, <1>3, <1>6, SizeOfUnion
<1>11. Cardinality(same) = Cardinality(worse \cup level) + Cardinality(better)
  BY ONLY <1>1, <1>3, <1>6, SizeOfUnion
<1> QED
  BY ONLY <1>7, <1>8, <1>9, <1>10, <1>11 DEF Abs, N

LEMMA ApproximateByBins ==
  ASSUME NEW s \in Scored
  PROVE  /\ ApproximateAuc(s)[1] = SumFunctionOnSet(BinWins(s), PositiveRows(s))
         /\ ApproximateAuc(s)[2] = 2 * Cardinality(PositiveRows(s)) * Cardinality(NegativeRows(s))
<1> DEFINE P == PositiveRows(s)
           N == NegativeRows(s)
           B == 0..ScoreMax
           f == BinWins(s)
           h == [i \in P |-> BinOf(s[i])]
           part == [b \in B |-> {i \in P : BinOf(s[i]) = b}]
           lower == [b \in B |-> Cardinality({i \in N : BinOf(s[i]) < b})]
           same == [b \in B |-> Cardinality({i \in N : BinOf(s[i]) = b})]
           class == [b \in B |-> Cardinality({i \in P : BinOf(s[i]) = b})
                                   * (2 * Cardinality({i \in N : BinOf(s[i]) < b}) + Cardinality({i \in N : BinOf(s[i]) = b}))]
<1>1. IsFiniteSet(P) /\ IsFiniteSet(B) /\ P \in SUBSET DOMAIN s
  <2>1. 0 \in Int /\ ScoreMax \in Int
    BY ScoreAssumption
  <2>2. IsFiniteSet(B)
    BY <2>1, FiniteInterval
  <2> QED
    BY <2>2, Labelled
<1>2. \A i \in P : f[i] \in Int
  BY <1>1, BinError
<1>3. \A i \in P : h[i] \in B
  BY <1>1, BinsOrdered
<1>4. \A b \in B : part[b] \in SUBSET P /\ \A i \in P : i \in part[b] <=> h[i] = b
  OBVIOUS
<1>5. ASSUME NEW b \in B PROVE class[b] = SumFunctionOnSet(f, part[b])
  <2> DEFINE c == 2 * lower[b] + same[b]
  <2>1. \A T \in SUBSET N : Cardinality(T) \in Nat
    BY Labelled, FS_Subset, FS_CardinalityType
  <2>2. lower[b] \in Nat /\ same[b] \in Nat
    BY <2>1
  <2>3. c \in Int
    BY <2>2
  <2>4. IsFiniteSet(part[b]) /\ Cardinality(part[b]) \in Nat
    BY <1>1, FS_Subset, FS_CardinalityType
  <2>5. class[b] = Cardinality(part[b]) * c
    OBVIOUS
  <2>6. ASSUME NEW i \in part[b] PROVE f[i] = c
    <3>1. i \in DOMAIN s /\ BinOf(s[i]) = b
      BY <1>1
    <3> QED
      BY <3>1 DEF BinWins
  <2> HIDE DEF c, f, part, class
  <2>7. SumFunctionOnSet(f, part[b]) = c * Cardinality(part[b])
    BY ONLY <2>3, <2>4, <2>6, SumConstant
  <2> QED
    BY <2>3, <2>4, <2>5, <2>7
<1>6. ApproximateAuc(s)[1] = SumFunctionOnSet(class, B)
  BY DEF ApproximateAuc, SumFunction
<1>7. ApproximateAuc(s)[2] = 2 * Cardinality(P) * Cardinality(N)
  BY DEF ApproximateAuc
<1> HIDE DEF P, N, B, f, h, part, class
<1>8. SumFunctionOnSet(f, P) = SumFunctionOnSet(class, B)
  BY ONLY <1>1, <1>2, <1>3, <1>4, <1>5, SumFibers
<1> QED
  BY <1>6, <1>7, <1>8 DEF P, N, f

\* Average ranks give the share of concordant pairs, and binning moves it by at most
\* half the pairs that share a bin with different scores, for all scored rows
\* (model_experiments.rs, human_model.rs: roc_auc; backtest.rs: ApproximateAuc).
THEOREM AucRightHolds == \A s \in Scored : AucRight(s)
<1> SUFFICES ASSUME NEW s \in Scored, PositiveRows(s) # {}, NegativeRows(s) # {}
             PROVE  /\ RocAuc(s)[1] = TwiceConcordant(s)
                    /\ RocAuc(s)[2] = ApproximateAuc(s)[2]
                    /\ Abs(ApproximateAuc(s)[1] - RocAuc(s)[1])
                         <= Cardinality({x \in PositiveRows(s) \X NegativeRows(s) :
                                           BinOf(s[x[1]]) = BinOf(s[x[2]]) /\ s[x[1]].p # s[x[2]].p})
  BY DEF AucRight
<1> DEFINE P == PositiveRows(s)
           N == NegativeRows(s)
           wins == Wins(s, N)
           bins == BinWins(s)
           mates == BinMates(s)
           gap == [i \in P |-> bins[i] - wins[i]]
           size == [i \in P |-> Abs(gap[i])]
           pairs == {x \in P \X N : BinOf(s[x[1]]) = BinOf(s[x[2]]) /\ s[x[1]].p # s[x[2]].p}
<1>1. /\ IsFiniteSet(P) /\ IsFiniteSet(N) /\ P \in SUBSET DOMAIN s /\ N \in SUBSET DOMAIN s
      /\ Cardinality(P) \in Nat /\ Cardinality(P) # 0 /\ Cardinality(N) # 0
  BY Labelled, FS_EmptySet
<1>2. RocAuc(s)[1] = SumFunctionOnSet(wins, P) /\ RocAuc(s)[2] = 2 * Cardinality(P) * Cardinality(N)
  BY <1>1, RocAucConcordant DEF RocAuc
<1>3. TwiceConcordant(s) = SumFunctionOnSet(wins, P)
  BY <1>1, WinsOfSum DEF TwiceConcordant
<1>4. \A i \in P : /\ bins[i] \in Int /\ wins[i] \in Int /\ mates[i] \in Int /\ gap[i] \in Int
                   /\ size[i] \in Int /\ size[i] = Abs(gap[i]) /\ size[i] <= mates[i]
                   /\ bins[i] = gap[i] + wins[i]
  <2>1. ASSUME NEW i \in P
        PROVE  bins[i] \in Nat /\ wins[i] \in Nat /\ mates[i] \in Nat /\ Abs(bins[i] - wins[i]) <= mates[i]
    BY <1>1, BinError
  <2>2. \A i \in P : gap[i] = bins[i] - wins[i] /\ size[i] = Abs(bins[i] - wins[i])
    OBVIOUS
  <2> HIDE DEF bins, wins, mates, gap, size
  <2> QED
    BY <2>1, <2>2 DEF Abs
<1>5. SumFunctionOnSet(mates, P) = Cardinality(pairs)
  <2> DEFINE part == [i \in P |-> {j \in N : BinOf(s[i]) = BinOf(s[j]) /\ s[i].p # s[j].p}]
  <2>1. pairs \in SUBSET (P \X N)
    OBVIOUS
  <2>2. \A i \in P : part[i] \in SUBSET N /\ \A j \in N : j \in part[i] <=> <<i, j>> \in pairs
    OBVIOUS
  <2>3. \A i \in P : mates[i] = Cardinality(part[i])
    BY <1>1 DEF BinMates
  <2> HIDE DEF P, N, pairs, part, mates
  <2> QED
    BY ONLY <1>1, <2>1, <2>2, <2>3, PairCount
<1> HIDE DEF P, N, wins, bins, mates, gap, size, pairs
<1>6. SumFunctionOnSet(bins, P) = SumFunctionOnSet(gap, P) + SumFunctionOnSet(wins, P)
  BY ONLY <1>1, <1>4, SumPlus
<1>7. Abs(SumFunctionOnSet(gap, P)) <= SumFunctionOnSet(size, P)
  BY ONLY <1>1, <1>4, SumAbs
<1>8. SumFunctionOnSet(size, P) <= SumFunctionOnSet(mates, P)
  BY ONLY <1>1, <1>4, SumMonotone
<1>9. SumFunctionOnSet(gap, P) \in Int /\ SumFunctionOnSet(wins, P) \in Int
      /\ SumFunctionOnSet(size, P) \in Int /\ SumFunctionOnSet(mates, P) \in Int
  <2>1. SumFunctionOnSet(gap, P) \in Int
    BY ONLY <1>1, <1>4, SumInt
  <2>2. SumFunctionOnSet(wins, P) \in Int
    BY ONLY <1>1, <1>4, SumInt
  <2>3. SumFunctionOnSet(size, P) \in Int
    BY ONLY <1>1, <1>4, SumInt
  <2>4. SumFunctionOnSet(mates, P) \in Int
    BY ONLY <1>1, <1>4, SumInt
  <2> QED
    BY <2>1, <2>2, <2>3, <2>4
<1>10. Abs(SumFunctionOnSet(bins, P) - SumFunctionOnSet(wins, P)) <= Cardinality(pairs)
  BY ONLY <1>5, <1>6, <1>7, <1>8, <1>9 DEF Abs
<1>11. ApproximateAuc(s)[1] = SumFunctionOnSet(bins, P) /\ ApproximateAuc(s)[2] = 2 * Cardinality(P) * Cardinality(N)
  BY ApproximateByBins DEF bins, P, N
<1> QED
  BY <1>2, <1>3, <1>10, <1>11 DEF pairs, P, N

-----------------------------------------------------------------------------
(* Ranking: the rows in order, each once, and the places of positive ones. *)

-----------------------------------------------------------------------------
(* Orders.                                                                 *)

StrictOrder(R, D) ==
  /\ \A i \in D : <<i, i>> \notin R
  /\ \A i, j \in D : i # j => <<i, j>> \in R \/ <<j, i>> \in R
  /\ \A i, j, k \in D : <<i, j>> \in R /\ <<j, k>> \in R => <<i, k>> \in R

\* Rows taken in the order of the pairs, each once.
InOrder(s, order, R) ==
  /\ order \in [DOMAIN s -> DOMAIN s]
  /\ \A k, l \in DOMAIN s : order[k] = order[l] => k = l
  /\ \A i \in DOMAIN s : \E k \in DOMAIN s : order[k] = i
  /\ \A k, l \in DOMAIN s : k < l => <<order[k], order[l]>> \in R

LEMMA SortedInOrder ==
  ASSUME NEW s \in Scored, NEW R, StrictOrder(R, DOMAIN s)
  PROVE  InOrder(s, Sorted(s, R), R)
<1> DEFINE D == DOMAIN s
           n == Len(s)
           Before(i) == {j \in D : <<j, i>> \in R}
           rank == [i \in D |-> Cardinality(Before(i)) + 1]
           order == Sorted(s, R)
<1>0. IsFiniteSet(D) /\ Cardinality(D) = n /\ D = 1..n /\ n \in Nat
  BY ScoredRows
<1>1. \A i \in D : IsFiniteSet(Before(i)) /\ Cardinality(Before(i)) \in Nat
  BY <1>0, FS_Subset, FS_CardinalityType
<1>2. ASSUME NEW i \in D, NEW j \in D, <<i, j>> \in R PROVE rank[i] < rank[j]
  <2>1. Before(i) \subseteq Before(j)
    BY <1>2 DEF StrictOrder
  <2>2. i \in Before(j) /\ i \notin Before(i)
    BY <1>2 DEF StrictOrder
  <2>3. Cardinality(Before(i)) <= Cardinality(Before(j))
        /\ (Cardinality(Before(j)) = Cardinality(Before(i)) => Before(j) = Before(i))
    BY <1>1, <2>1, FS_Subset
  <2>4. Cardinality(Before(i)) # Cardinality(Before(j))
    BY <2>2, <2>3
  <2> QED
    BY <1>1, <2>3, <2>4
<1>3. \A i \in D : rank[i] \in D
  <2>1. ASSUME NEW i \in D PROVE Cardinality(Before(i)) + 1 \in 1..n
    <3>1. Before(i) \subseteq D /\ Before(i) # D
      BY DEF StrictOrder
    <3>2. Cardinality(Before(i)) <= n /\ Cardinality(Before(i)) # n
      <4>1. IsFiniteSet(D) /\ Before(i) \in SUBSET D
        BY <1>0
      <4> HIDE DEF D, Before
      <4>2. Cardinality(Before(i)) <= Cardinality(D) /\ (Cardinality(D) = Cardinality(Before(i)) => D = Before(i))
        BY ONLY <4>1, FS_Subset
      <4> QED
        BY <1>0, <3>1, <4>2
    <3>3. Cardinality(Before(i)) \in Nat /\ n \in Nat
      BY <1>0, <1>1
    <3> HIDE DEF Before, n
    <3> QED
      BY <3>2, <3>3
  <2> QED
    BY <1>0, <2>1
<1>4. \A i, j \in D : rank[i] = rank[j] => i = j
  <2>1. ASSUME NEW i \in D, NEW j \in D, rank[i] = rank[j], i # j PROVE FALSE
    <3>1. rank[i] < rank[j] \/ rank[j] < rank[i]
      BY <1>2, <2>1 DEF StrictOrder
    <3>2. rank[i] \in Int /\ rank[j] \in Int
      BY <1>1
    <3> HIDE DEF rank
    <3> QED
      BY <2>1, <3>1, <3>2
  <2> QED
    BY <2>1
<1>5. rank \in Injection(D, D)
  <2>1. rank \in [D -> D]
    BY <1>3
  <2> HIDE DEF rank
  <2> QED
    BY <1>4, <2>1 DEF Injection, IsInjective
<1>6. rank \in Surjection(D, D)
  BY <1>0, <1>5, FS_Injection
<1>7. \A k \in D : \E i \in D : rank[i] = k
  BY <1>6 DEF Surjection
<1>8. ASSUME NEW k \in D PROVE order[k] \in D /\ rank[order[k]] = k
  <2>1. order[k] = CHOOSE i \in D : Cardinality(Before(i)) = k - 1
    BY DEF Sorted
  <2>2. PICK i \in D : rank[i] = k
    BY <1>7
  <2>3. Cardinality(Before(i)) = k - 1
    <3>1. Cardinality(Before(i)) + 1 = k /\ Cardinality(Before(i)) \in Nat
      BY <1>1, <2>2
    <3> HIDE DEF Before
    <3> QED
      BY <3>1
  <2>4. order[k] \in D /\ Cardinality(Before(order[k])) = k - 1
    BY <2>1, <2>3
  <2>5. rank[order[k]] = (k - 1) + 1
    BY <2>4
  <2> QED
    BY <2>4, <2>5, <1>0
<1>9. order = [k \in D |-> order[k]]
  <2> DEFINE pick(k) == CHOOSE i \in D : Cardinality(Before(i)) = k - 1
  <2>1. order = [k \in D |-> pick(k)]
    BY DEF Sorted
  <2> HIDE DEF order, pick
  <2> QED
    BY <2>1
<1> HIDE DEF rank, order
<1>10. order \in [D -> D]
  BY <1>8, <1>9
<1>11. \A k, l \in D : order[k] = order[l] => k = l
  BY <1>8
<1>12. \A i \in D : \E k \in D : order[k] = i
  <2>1. ASSUME NEW i \in D PROVE order[rank[i]] = i
    BY <1>3, <1>4, <1>8
  <2> QED
    BY <1>3, <2>1
<1>13. ASSUME NEW k \in D, NEW l \in D, k < l PROVE <<order[k], order[l]>> \in R
  <2>1. order[k] \in D /\ order[l] \in D /\ rank[order[k]] = k /\ rank[order[l]] = l
    BY <1>8
  <2>2. order[k] # order[l] /\ ~(l < k)
    BY <1>11, <1>13, <1>0
  <2>3. ~(<<order[l], order[k]>> \in R)
    BY <1>2, <2>1, <2>2
  <2> QED
    BY <2>1, <2>2, <2>3 DEF StrictOrder
<1> QED
  BY <1>10, <1>11, <1>12, <1>13 DEF InOrder, order

\* Pairs of the three orders.
AscendingPairs(s) == {x \in RowPairs(s) : s[x[1]].p < s[x[2]].p \/ (s[x[1]].p = s[x[2]].p /\ x[1] < x[2])}
DescendingPairs(s) == {x \in RowPairs(s) : s[x[1]].p > s[x[2]].p \/ (s[x[1]].p = s[x[2]].p /\ x[1] < x[2])}
LabelledPairs(s, first) ==
  {x \in RowPairs(s) :
     \/ s[x[1]].p > s[x[2]].p
     \/ s[x[1]].p = s[x[2]].p /\ s[x[1]].y = first /\ s[x[2]].y # first
     \/ s[x[1]].p = s[x[2]].p /\ s[x[1]].y = s[x[2]].y /\ x[1] < x[2]}

LEMMA AscendingOrder == ASSUME NEW s \in Scored PROVE InOrder(s, Ascending(s), AscendingPairs(s))
<1>1. StrictOrder(AscendingPairs(s), DOMAIN s)
  <2>1. DOMAIN s = 1..Len(s) /\ Len(s) \in Nat /\ \A i \in DOMAIN s : s[i].p \in Nat
    BY ScoredRows, ScoreAssumption
  <2>2. \A i, j \in DOMAIN s : <<i, j>> \in AscendingPairs(s) <=> s[i].p < s[j].p \/ (s[i].p = s[j].p /\ i < j)
    BY DEF AscendingPairs, RowPairs
  <2> QED
    BY <2>1, <2>2 DEF StrictOrder
<1> QED
  BY <1>1, SortedInOrder DEF Ascending, AscendingPairs

LEMMA DescendingOrder == ASSUME NEW s \in Scored PROVE InOrder(s, Descending(s), DescendingPairs(s))
<1>1. StrictOrder(DescendingPairs(s), DOMAIN s)
  <2>1. DOMAIN s = 1..Len(s) /\ Len(s) \in Nat /\ \A i \in DOMAIN s : s[i].p \in Nat
    BY ScoredRows, ScoreAssumption
  <2>2. \A i, j \in DOMAIN s : <<i, j>> \in DescendingPairs(s) <=> s[i].p > s[j].p \/ (s[i].p = s[j].p /\ i < j)
    BY DEF DescendingPairs, RowPairs
  <2> QED
    BY <2>1, <2>2 DEF StrictOrder
<1> QED
  BY <1>1, SortedInOrder DEF Descending, DescendingPairs

LEMMA OrderByLabel ==
  ASSUME NEW s \in Scored, NEW first \in BOOLEAN
  PROVE  InOrder(s, LabelledOrder(s, first), LabelledPairs(s, first))
<1>1. StrictOrder(LabelledPairs(s, first), DOMAIN s)
  <2>1. DOMAIN s = 1..Len(s) /\ Len(s) \in Nat /\ \A i \in DOMAIN s : s[i].p \in Nat /\ s[i].y \in BOOLEAN
    BY ScoredRows, ScoreAssumption
  <2>2. \A i, j \in DOMAIN s : <<i, j>> \in LabelledPairs(s, first) <=>
          \/ s[i].p > s[j].p
          \/ s[i].p = s[j].p /\ s[i].y = first /\ s[j].y # first
          \/ s[i].p = s[j].p /\ s[i].y = s[j].y /\ i < j
    BY DEF LabelledPairs, RowPairs
  <2> QED
    BY <2>1, <2>2 DEF StrictOrder
<1> QED
  BY <1>1, SortedInOrder DEF LabelledOrder, LabelledPairs

-----------------------------------------------------------------------------
(* Precision along an order.                                               *)

LEMMA Quotient ==
  ASSUME NEW m \in Nat, NEW k \in Nat \ {0}
  PROVE  m \div k \in Nat /\ k * (m \div k) <= m /\ m < k * (m \div k) + k
OBVIOUS

LEMMA QuotientLeast ==
  ASSUME NEW m \in Nat, NEW k \in Nat \ {0}, NEW q \in Nat, k * q <= m
  PROVE  q <= m \div k
<1> DEFINE d == m \div k
<1>1. d \in Nat /\ m < k * d + k
  BY Quotient
<1> HIDE DEF d
<1>2. SUFFICES ASSUME q >= d + 1 PROVE FALSE
  BY <1>1 DEF d
<1>3. k * q >= k * (d + 1)
  BY <1>1, <1>2
<1>4. k * (d + 1) = k * d + k
  BY <1>1
<1>5. k * q \in Int /\ k * d \in Int
  BY <1>1
<1> QED
  BY <1>1, <1>3, <1>4, <1>5

LEMMA QuotientMonotone ==
  ASSUME NEW m \in Nat, NEW k \in Nat \ {0}, NEW l \in Nat \ {0}, l <= k
  PROVE  m \div k <= m \div l
<1> DEFINE d == m \div k
<1>1. d \in Nat /\ k * d <= m
  BY Quotient
<1> HIDE DEF d
<1>2. l * d <= k * d /\ l * d \in Int /\ k * d \in Int
  BY <1>1
<1>3. l * d <= m
  BY <1>1, <1>2
<1>4. d <= m \div l
  BY <1>1, <1>3, QuotientLeast
<1> QED
  BY <1>4 DEF d

\* Rows each taken once.
Takes(s, order) ==
  /\ order \in [DOMAIN s -> DOMAIN s]
  /\ \A k, l \in DOMAIN s : order[k] = order[l] => k = l
  /\ \A i \in DOMAIN s : \E k \in DOMAIN s : order[k] = i

\* The places of the positive rows, and how many of them there are up to a place.
Places(s, order) == {k \in DOMAIN s : s[order[k]].y}
Found(s, order) == [k \in DOMAIN s |-> Cardinality({j \in 1..k : s[order[j]].y})]
Prefix(order, k) == {order[j] : j \in 1..k}

LEMMA PrefixSize ==
  ASSUME NEW s \in Scored, NEW order, Takes(s, order), NEW k \in DOMAIN s
  PROVE  /\ Prefix(order, k) \subseteq DOMAIN s
         /\ Cardinality(Prefix(order, k)) = k
         /\ Found(s, order)[k] = Cardinality(Prefix(order, k) \cap PositiveRows(s))
<1>0. DOMAIN s = 1..Len(s) /\ Len(s) \in Nat /\ k \in Nat /\ 1..k \subseteq DOMAIN s
  BY ScoredRows
<1>1. \A j \in 1..k : order[j] \in DOMAIN s
  BY <1>0 DEF Takes
<1>2. \A i, j \in 1..k : order[i] = order[j] => i = j
  BY <1>0 DEF Takes
<1>3. IsFiniteSet(1..k) /\ Cardinality(1..k) = k
  BY <1>0, Interval
<1>4. Cardinality(Prefix(order, k)) = k
  <2> DEFINE f == [j \in 1..k |-> order[j]]  T == Prefix(order, k)  S == 1..k
  <2>1. f \in [S -> T] /\ (\A x, y \in S : f[x] = f[y] => x = y) /\ (\A t \in T : \E x \in S : f[x] = t)
    BY <1>2 DEF Prefix
  <2> HIDE DEF f, T, S
  <2>2. Cardinality(S) = Cardinality(T)
    BY <1>3, <2>1, SameSize DEF S
  <2> QED
    BY <1>3, <2>2 DEF S, T
<1>5. Found(s, order)[k] = Cardinality(Prefix(order, k) \cap PositiveRows(s))
  <2> DEFINE S == {j \in 1..k : s[order[j]].y}  f == [j \in S |-> order[j]]
             T == Prefix(order, k) \cap PositiveRows(s)
  <2>1. f \in [S -> T] /\ (\A x, y \in S : f[x] = f[y] => x = y) /\ (\A t \in T : \E x \in S : f[x] = t)
    BY <1>1, <1>2 DEF Prefix, PositiveRows
  <2>2. IsFiniteSet(S)
    BY <1>3, FS_Subset
  <2>3. Found(s, order)[k] = Cardinality(S)
    BY DEF Found
  <2> HIDE DEF f, T, S
  <2>4. Cardinality(S) = Cardinality(T)
    BY <2>1, <2>2, SameSize
  <2> QED
    BY <2>3, <2>4 DEF T
<1> QED
  BY <1>1, <1>4, <1>5 DEF Prefix

\* If what one order takes later than the other, when that takes a positive row first,
\* is positive too, then it finds no fewer of them up to any place.
LEMMA FoundSooner ==
  ASSUME NEW s \in Scored, NEW a, NEW b, Takes(s, a), Takes(s, b), NEW k \in DOMAIN s,
         \A x \in Prefix(a, k) \ Prefix(b, k), y \in Prefix(b, k) \ Prefix(a, k) : s[x].y => s[y].y
  PROVE  Found(s, a)[k] <= Found(s, b)[k]
<1> DEFINE A == Prefix(a, k)
           B == Prefix(b, k)
           P == PositiveRows(s)
           D == DOMAIN s
           common == A \cap B \cap P
           onlyA == (A \ B) \cap P
           onlyB == (B \ A) \cap P
<1>1. /\ A \subseteq D /\ Cardinality(A) = k /\ Found(s, a)[k] = Cardinality(A \cap P)
      /\ B \subseteq D /\ Cardinality(B) = k /\ Found(s, b)[k] = Cardinality(B \cap P)
  BY PrefixSize
<1>2. IsFiniteSet(D) /\ \A T \in SUBSET D : IsFiniteSet(T) /\ Cardinality(T) \in Nat
  BY ScoredRows, FS_Subset, FS_CardinalityType
<1>3. \A x \in A \ B, y \in B \ A : s[x].y => s[y].y
  OBVIOUS
<1> HIDE DEF A, B, D, P
<1>4. Cardinality(A \ B) = Cardinality(B \ A)
  <2>1. A = (A \cap B) \cup (A \ B) /\ (A \cap B) \cap (A \ B) = {} /\ A \cap B \subseteq D /\ A \ B \subseteq D
    BY <1>1
  <2>2. B = (A \cap B) \cup (B \ A) /\ (A \cap B) \cap (B \ A) = {} /\ B \ A \subseteq D
    BY <1>1
  <2> DEFINE u == A \cap B  v == A \ B  w == B \ A
  <2>3. IsFiniteSet(D) /\ u \subseteq D /\ v \subseteq D /\ w \subseteq D /\ u \cap v = {} /\ u \cap w = {}
    BY <1>2, <2>1, <2>2
  <2>4. A = u \cup v /\ B = u \cup w
    BY <2>1, <2>2
  <2> HIDE DEF u, v, w
  <2>5. Cardinality(u \cup v) = Cardinality(u) + Cardinality(v) /\ Cardinality(v) \in Nat /\ Cardinality(u) \in Nat
    BY ONLY <2>3, SizeOfUnion
  <2>6. Cardinality(u \cup w) = Cardinality(u) + Cardinality(w) /\ Cardinality(w) \in Nat
    BY ONLY <2>3, SizeOfUnion
  <2>7. Cardinality(v) = Cardinality(w)
    BY ONLY <1>1, <2>4, <2>5, <2>6
  <2> QED
    BY <2>7 DEF v, w
<1>5. IsFiniteSet(D) /\ common \subseteq D /\ onlyA \subseteq D /\ onlyB \subseteq D
      /\ common \cap onlyA = {} /\ common \cap onlyB = {}
  BY <1>1, <1>2
<1>6. A \cap P = common \cup onlyA /\ B \cap P = common \cup onlyB
  OBVIOUS
<1>7. Cardinality(onlyA) <= Cardinality(onlyB)
  <2>1. CASE onlyA = {}
    <3>1. Cardinality(onlyA) = 0 /\ Cardinality(onlyB) \in Nat
      BY <2>1, <1>2, <1>5, FS_EmptySet
    <3> QED
      BY <3>1
  <2>2. CASE onlyA # {}
    <3>1. onlyB = B \ A
      BY <2>2, <1>1, <1>3 DEF P, D, PositiveRows
    <3>2. Cardinality(onlyA) <= Cardinality(A \ B)
      BY <1>1, <1>2, FS_Subset
    <3> QED
      BY <3>1, <3>2, <1>4
  <2> QED
    BY <2>1, <2>2
<1> HIDE DEF common, onlyA, onlyB
<1>8. Cardinality(common \cup onlyA) = Cardinality(common) + Cardinality(onlyA) /\ Cardinality(common) \in Nat /\ Cardinality(onlyA) \in Nat
  BY ONLY <1>5, SizeOfUnion
<1>9. Cardinality(common \cup onlyB) = Cardinality(common) + Cardinality(onlyB) /\ Cardinality(onlyB) \in Nat
  BY ONLY <1>5, SizeOfUnion
<1>10. Found(s, a)[k] = Cardinality(common \cup onlyA) /\ Found(s, b)[k] = Cardinality(common \cup onlyB)
  BY <1>1, <1>6
<1> QED
  BY ONLY <1>7, <1>8, <1>9, <1>10

\* A sum may be taken over the images of a bijection.
LEMMA SumReindexed ==
  ASSUME NEW A, IsFiniteSet(A), NEW B, IsFiniteSet(B), NEW h, \A x \in A : h[x] \in B,
         \A x, y \in A : h[x] = h[y] => x = y, \A b \in B : \E x \in A : h[x] = b,
         NEW f, \A x \in A : f[x] \in Int, NEW g, \A x \in A : g[h[x]] = f[x]
  PROVE  SumFunctionOnSet(f, A) = SumFunctionOnSet(g, B)
<1> DEFINE part == [b \in B |-> {x \in A : h[x] = b}]
<1>1. \A b \in B : part[b] \in SUBSET A /\ \A x \in A : x \in part[b] <=> h[x] = b
  OBVIOUS
<1>2. ASSUME NEW b \in B PROVE g[b] = SumFunctionOnSet(f, part[b])
  <2>1. PICK x \in A : h[x] = b
    OBVIOUS
  <2>2. part[b] = {x}
    BY <2>1
  <2>3. SumFunctionOnSet(f, {x}) = f[x]
    BY SumOne
  <2> QED
    BY <2>1, <2>2, <2>3
<1>3. IsFiniteSet(A) /\ IsFiniteSet(B) /\ (\A x \in A : f[x] \in Int) /\ (\A x \in A : h[x] \in B)
  OBVIOUS
<1> HIDE DEF part
<1> QED
  BY ONLY <1>1, <1>2, <1>3, SumFibers

\* The place of the r-th positive row.
PlaceOf(s, order, r) == CHOOSE k \in Places(s, order) : Found(s, order)[k] = r

LEMMA PlacesFound ==
  ASSUME NEW s \in Scored, NEW order, Takes(s, order)
  PROVE  /\ Places(s, order) \subseteq DOMAIN s /\ IsFiniteSet(Places(s, order))
         /\ Cardinality(Places(s, order)) = Cardinality(PositiveRows(s))
         /\ \A k \in DOMAIN s : Found(s, order)[k] \in Nat /\ Found(s, order)[k] <= k
         /\ \A k \in DOMAIN s, l \in Places(s, order) : k < l => Found(s, order)[k] < Found(s, order)[l]
         /\ \A k \in Places(s, order) : Found(s, order)[k] \in 1..Cardinality(PositiveRows(s))
         /\ \A k, l \in Places(s, order) : Found(s, order)[k] = Found(s, order)[l] => k = l
         /\ \A r \in 1..Cardinality(PositiveRows(s)) :
              PlaceOf(s, order, r) \in Places(s, order) /\ Found(s, order)[PlaceOf(s, order, r)] = r
<1> DEFINE D == DOMAIN s
           K == Places(s, order)
           P == PositiveRows(s)
           p == Cardinality(P)
           found == Found(s, order)
           Upto(k) == {j \in 1..k : s[order[j]].y}
<1>0. D = 1..Len(s) /\ Len(s) \in Nat /\ IsFiniteSet(D) /\ p \in Nat /\ P \subseteq D
  BY ScoredRows, Labelled
<1>1. K \subseteq D /\ IsFiniteSet(K)
  BY <1>0, FS_Subset DEF Places
<1>2. Cardinality(K) = p
  <2> DEFINE f == [k \in K |-> order[k]]
  <2>1. f \in [K -> P]
    BY DEF Places, Takes, PositiveRows
  <2>2. \A x, y \in K : f[x] = f[y] => x = y
    BY DEF Places, Takes
  <2>3. \A t \in P : \E x \in K : f[x] = t
    BY DEF Places, Takes, PositiveRows
  <2> HIDE DEF K, P, f
  <2> QED
    BY <1>1, <2>1, <2>2, <2>3, SameSize
<1>3. \A k \in D : found[k] = Cardinality(Upto(k)) /\ Upto(k) \subseteq K /\ Upto(k) \subseteq 1..k /\ k \in Nat
  BY <1>0 DEF Found, Places
<1>4. ASSUME NEW k \in D PROVE found[k] \in Nat /\ found[k] <= k /\ found[k] <= p
  <2>1. IsFiniteSet(1..k) /\ Cardinality(1..k) = k
    BY <1>3, Interval
  <2>2. Cardinality(Upto(k)) <= k
    BY <1>3, <2>1, FS_Subset
  <2>3. IsFiniteSet(Upto(k)) /\ Cardinality(Upto(k)) <= p
    BY <1>1, <1>2, <1>3, FS_Subset
  <2>4. Cardinality(Upto(k)) \in Nat
    BY <2>3, FS_CardinalityType
  <2> QED
    BY <1>3, <2>2, <2>3, <2>4
<1>5. ASSUME NEW k \in D, NEW l \in K, k < l PROVE found[k] < found[l]
  <2>0. l \in D
    BY <1>1
  <2>1. Upto(k) \subseteq Upto(l) /\ l \in Upto(l) /\ l \notin Upto(k)
    BY <1>5, <1>0, <2>0 DEF Places
  <2>2. IsFiniteSet(Upto(l))
    BY <1>1, <1>3, <2>0, FS_Subset
  <2>3. Cardinality(Upto(k)) <= Cardinality(Upto(l)) /\ Cardinality(Upto(k)) # Cardinality(Upto(l))
    BY <2>1, <2>2, FS_Subset
  <2>4. found[k] \in Nat /\ found[l] \in Nat /\ found[k] <= found[l] /\ found[k] # found[l]
    BY <1>3, <1>4, <2>0, <2>3
  <2> HIDE DEF found
  <2> QED
    BY <2>4
<1>6. ASSUME NEW k \in K PROVE found[k] \in 1..p
  <2>1. k \in Upto(k) /\ k \in D
    BY <1>0, <1>1 DEF Places
  <2>2. found[k] # 0
    BY <1>1, <1>3, <2>1, FS_Subset, FS_EmptySet
  <2> QED
    BY <1>0, <1>4, <2>1, <2>2
<1>7. \A k, l \in K : found[k] = found[l] => k = l
  <2>1. ASSUME NEW k \in K, NEW l \in K, found[k] = found[l], k # l PROVE FALSE
    <3>1. k \in D /\ l \in D /\ k \in Nat /\ l \in Nat
      BY <1>1, <1>3
    <3>2. k < l \/ l < k
      BY <2>1, <3>1
    <3>3. found[k] < found[l] \/ found[l] < found[k]
      BY <1>5, <3>1, <3>2
    <3>4. found[k] \in Nat /\ found[l] \in Nat
      BY <1>4, <3>1
    <3> QED
      BY <2>1, <3>3, <3>4
  <2> QED
    BY <2>1
<1>8. \A r \in 1..p : \E k \in K : found[k] = r
  <2> DEFINE f == [k \in K |-> found[k]]  N == 1..p
  <2>1. f \in [K -> N] /\ \A x, y \in K : f[x] = f[y] => x = y
    BY <1>6, <1>7
  <2>2. IsFiniteSet(N) /\ Cardinality(N) = p
    BY <1>0, Interval
  <2>3. \A k \in K : f[k] = found[k]
    OBVIOUS
  <2> HIDE DEF f, N, K
  <2>4. f \in Injection(K, N)
    BY <2>1 DEF Injection, IsInjective
  <2>5. f \in Surjection(K, N)
    BY <1>2, <2>2, <2>4, FS_Injection
  <2> QED
    BY <2>3, <2>5 DEF Surjection, N
<1>9. ASSUME NEW r \in 1..p PROVE PlaceOf(s, order, r) \in K /\ found[PlaceOf(s, order, r)] = r
  BY <1>8 DEF PlaceOf
<1> HIDE DEF D, K, P, p, found
<1> QED
  BY <1>1, <1>2, <1>4, <1>5, <1>6, <1>7, <1>9 DEF D, K, P, p, found

Precisions(s, order) == [k \in Places(s, order) |-> (60 * Found(s, order)[k]) \div k]
ByRank(s, order) == [r \in 1..Cardinality(PositiveRows(s)) |-> (60 * r) \div PlaceOf(s, order, r)]

LEMMA PrecisionTerms ==
  ASSUME NEW s \in Scored, NEW order, Takes(s, order)
  PROVE  /\ PrecisionSum(s, order) = SumFunctionOnSet(Precisions(s, order), Places(s, order))
         /\ PrecisionSum(s, order) = SumFunctionOnSet(ByRank(s, order), 1..Cardinality(PositiveRows(s)))
         /\ \A k \in Places(s, order) : Precisions(s, order)[k] \in Nat /\ Precisions(s, order)[k] <= 60
         /\ \A r \in 1..Cardinality(PositiveRows(s)) : ByRank(s, order)[r] \in Nat
<1> DEFINE K == Places(s, order)
           N == 1..Cardinality(PositiveRows(s))
           f == Precisions(s, order)
           g == ByRank(s, order)
           h == [k \in K |-> Found(s, order)[k]]
<1>0. DOMAIN s = 1..Len(s) /\ Len(s) \in Nat /\ Cardinality(PositiveRows(s)) \in Nat
  BY ScoredRows, Labelled
<1>1. /\ K \subseteq DOMAIN s /\ IsFiniteSet(K)
      /\ \A k \in K : Found(s, order)[k] \in N /\ Found(s, order)[k] \in Nat /\ Found(s, order)[k] <= k
      /\ \A k, l \in K : Found(s, order)[k] = Found(s, order)[l] => k = l
      /\ \A r \in N : PlaceOf(s, order, r) \in K /\ Found(s, order)[PlaceOf(s, order, r)] = r
  BY PlacesFound
<1>2. IsFiniteSet(N)
  BY <1>0, Interval
<1>3. PrecisionSum(s, order) = SumFunctionOnSet(f, K)
  <2> DEFINE e == [k \in {r \in DOMAIN order : s[order[r]].y} |->
                    (Unit * Cardinality({j \in 1..k : s[order[j]].y})) \div k]
  <2>1. {r \in DOMAIN order : s[order[r]].y} = K
    BY DEF Places, Takes
  <2>2. e = f
    <3>1. \A k \in K : (Unit * Cardinality({j \in 1..k : s[order[j]].y})) \div k = (60 * Found(s, order)[k]) \div k
      BY <1>1 DEF Unit, Found
    <3> QED
      BY <2>1, <3>1 DEF Precisions
  <2>3. DOMAIN f = K
    BY DEF Precisions
  <2>4. PrecisionSum(s, order) = SumFunction(e)
    BY DEF PrecisionSum
  <2> HIDE DEF e, f, K
  <2> QED
    BY <2>2, <2>3, <2>4 DEF SumFunction
<1>4. ASSUME NEW k \in K PROVE f[k] \in Nat /\ f[k] <= 60
  <2> DEFINE c == Found(s, order)[k]  q == (60 * c) \div k
  <2>1. k \in Nat \ {0} /\ c \in Nat /\ c <= k
    BY <1>0, <1>1
  <2> HIDE DEF c
  <2>2. q \in Nat /\ k * q <= 60 * c /\ k * q \in Int
    BY <2>1, Quotient
  <2> HIDE DEF q
  <2>3. q <= 60
    <3>1. SUFFICES ASSUME q >= 61 PROVE FALSE
      BY <2>2
    <3>2. k * q >= k * 61
      BY <2>1, <2>2, <3>1
    <3> QED
      BY <2>1, <2>2, <3>2
  <2> QED
    BY <2>2, <2>3 DEF c, q, Precisions
<1>5. ASSUME NEW r \in N PROVE g[r] \in Nat
  <2>1. 60 * r \in Nat /\ PlaceOf(s, order, r) \in Nat \ {0}
    BY <1>0, <1>1
  <2>2. (60 * r) \div PlaceOf(s, order, r) \in Nat
    BY <2>1, Quotient
  <2> QED
    BY <2>2 DEF ByRank
<1>6. SumFunctionOnSet(f, K) = SumFunctionOnSet(g, N)
  <2>1. \A k \in K : h[k] \in N /\ f[k] \in Int
    BY <1>1, <1>4
  <2>2. \A k, l \in K : h[k] = h[l] => k = l
    BY <1>1
  <2>3. \A r \in N : \E k \in K : h[k] = r
    BY <1>1
  <2>4. ASSUME NEW k \in K PROVE g[h[k]] = f[k]
    <3>1. PlaceOf(s, order, Found(s, order)[k]) = k
      BY <1>1
    <3>2. h[k] = Found(s, order)[k] /\ h[k] \in N
      BY <2>1
    <3> QED
      BY <3>1, <3>2 DEF ByRank, Precisions
  <2>5. IsFiniteSet(K) /\ IsFiniteSet(N) /\ (\A k \in K : h[k] \in N) /\ (\A k \in K : f[k] \in Int)
    BY <1>1, <1>2, <2>1
  <2> HIDE DEF K, N, f, g, h
  <2> QED
    BY ONLY <2>2, <2>3, <2>4, <2>5, SumReindexed
<1> QED
  BY <1>3, <1>4, <1>5, <1>6

\* An order that finds no fewer positive rows up to any place is as precise or more.
LEMMA MorePrecise ==
  ASSUME NEW s \in Scored, NEW a, NEW b, Takes(s, a), Takes(s, b),
         \A k \in DOMAIN s : Found(s, a)[k] <= Found(s, b)[k]
  PROVE  PrecisionSum(s, a) <= PrecisionSum(s, b)
<1> DEFINE N == 1..Cardinality(PositiveRows(s))
           f == ByRank(s, a)
           g == ByRank(s, b)
<1>1. DOMAIN s = 1..Len(s) /\ Len(s) \in Nat /\ IsFiniteSet(N)
  BY ScoredRows, Labelled, Interval
<1>2. ASSUME NEW r \in N PROVE f[r] <= g[r]
  <2> DEFINE k == PlaceOf(s, a, r)
             l == PlaceOf(s, b, r)
  <2>1. k \in Places(s, a) /\ Found(s, a)[k] = r
    BY PlacesFound
  <2>2. l \in Places(s, b) /\ Found(s, b)[l] = r
    BY PlacesFound
  <2>3. k \in DOMAIN s /\ l \in DOMAIN s
    BY <2>1, <2>2, PlacesFound
  <2> HIDE DEF k, l
  <2>4. l <= k
    <3>1. SUFFICES ASSUME k < l PROVE FALSE
      BY <1>1, <2>3
    <3>2. Found(s, b)[k] < Found(s, b)[l]
      BY <2>2, <2>3, <3>1, PlacesFound
    <3>3. r <= Found(s, b)[k] /\ Found(s, b)[k] \in Nat
      BY <2>1, <2>3, PlacesFound
    <3> QED
      BY <2>2, <3>2, <3>3
  <2>5. 60 * r \in Nat /\ k \in Nat \ {0} /\ l \in Nat \ {0}
    BY <1>1, <2>3, Labelled
  <2>6. (60 * r) \div k <= (60 * r) \div l
    BY <2>4, <2>5, QuotientMonotone
  <2> QED
    BY <2>6 DEF ByRank, k, l
<1>3. \A r \in N : f[r] \in Int /\ g[r] \in Int /\ f[r] <= g[r]
  <2>1. \A r \in N : f[r] \in Nat
    BY PrecisionTerms
  <2>2. \A r \in N : g[r] \in Nat
    BY PrecisionTerms
  <2> HIDE DEF f, g, N
  <2> QED
    BY <1>2, <2>1, <2>2
<1>4. PrecisionSum(s, a) = SumFunctionOnSet(f, N)
  BY PrecisionTerms
<1>5. PrecisionSum(s, b) = SumFunctionOnSet(g, N)
  BY PrecisionTerms
<1> HIDE DEF N, f, g
<1>6. SumFunctionOnSet(f, N) <= SumFunctionOnSet(g, N)
  BY ONLY <1>1, <1>3, SumMonotone
<1> QED
  BY <1>4, <1>5, <1>6

LEMMA InOrderTakes ==
  ASSUME NEW s, NEW order, NEW R, InOrder(s, order, R) PROVE Takes(s, order)
BY DEF InOrder, Takes

\* What is in a prefix comes before what is not.
LEMMA PrefixFirst ==
  ASSUME NEW s \in Scored, NEW order, NEW R, InOrder(s, order, R), NEW k \in DOMAIN s,
         NEW x \in Prefix(order, k), NEW y \in DOMAIN s, y \notin Prefix(order, k)
  PROVE  x \in DOMAIN s /\ <<x, y>> \in R
<1>0. DOMAIN s = 1..Len(s) /\ Len(s) \in Nat /\ 1..k \subseteq DOMAIN s
  BY ScoredRows
<1>1. PICK i \in 1..k : order[i] = x
  BY DEF Prefix
<1>2. PICK j \in DOMAIN s : order[j] = y
  BY DEF InOrder
<1>3. j \notin 1..k
  BY <1>2 DEF Prefix
<1>4. i < j /\ i \in DOMAIN s
  BY <1>0, <1>3
<1> QED
  BY <1>1, <1>2, <1>4 DEF InOrder

LEMMA MorePreciseOrder ==
  ASSUME NEW s \in Scored, NEW a, NEW b, NEW R, NEW S, InOrder(s, a, R), InOrder(s, b, S),
         \A x, y \in DOMAIN s : <<x, y>> \in R /\ <<y, x>> \in S /\ s[x].y => s[y].y
  PROVE  PrecisionSum(s, a) <= PrecisionSum(s, b)
<1>1. Takes(s, a) /\ Takes(s, b)
  BY InOrderTakes
<1>2. ASSUME NEW k \in DOMAIN s PROVE Found(s, a)[k] <= Found(s, b)[k]
  <2>1. ASSUME NEW x \in Prefix(a, k) \ Prefix(b, k), NEW y \in Prefix(b, k) \ Prefix(a, k), s[x].y
        PROVE  s[y].y
    <3>1. x \in DOMAIN s /\ y \in DOMAIN s
      BY <1>1, PrefixSize
    <3>2. <<x, y>> \in R
      BY <3>1, PrefixFirst
    <3>3. <<y, x>> \in S
      BY <3>1, PrefixFirst
    <3> QED
      BY <2>1, <3>1, <3>2, <3>3
  <2> QED
    BY <1>1, <2>1, FoundSooner
<1> QED
  BY <1>1, <1>2, MorePrecise

LEMMA PrecisionBetween ==
  ASSUME NEW s \in Scored
  PROVE  /\ PrecisionSum(s, LabelledOrder(s, FALSE)) <= PrecisionSum(s, Descending(s))
         /\ PrecisionSum(s, Descending(s)) <= PrecisionSum(s, LabelledOrder(s, TRUE))
<1>0. \A i \in DOMAIN s : s[i].p \in Nat /\ s[i].y \in BOOLEAN
  BY ScoredRows, ScoreAssumption
<1>a. \A x, y \in DOMAIN s : <<x, y>> \in DescendingPairs(s) => s[x].p >= s[y].p
  BY <1>0 DEF DescendingPairs
<1>b. ASSUME NEW x \in DOMAIN s, NEW y \in DOMAIN s, <<x, y>> \in LabelledPairs(s, TRUE)
      PROVE  s[x].p >= s[y].p /\ (s[x].p = s[y].p /\ s[y].y => s[x].y)
  <2>1. \/ s[x].p > s[y].p
        \/ s[x].p = s[y].p /\ s[x].y = TRUE /\ s[y].y # TRUE
        \/ s[x].p = s[y].p /\ s[x].y = s[y].y
    BY <1>b DEF LabelledPairs
  <2>2. CASE s[x].p > s[y].p
    BY <1>0, <2>2
  <2>3. CASE s[x].p = s[y].p /\ s[x].y = TRUE /\ s[y].y # TRUE
    <3>1. s[x].p >= s[y].p
      BY <1>0, <2>3
    <3>2. s[y].y => s[x].y
      BY <1>0, <2>3
    <3> QED
      BY <3>1, <3>2
  <2>4. CASE s[x].p = s[y].p /\ s[x].y = s[y].y
    BY <1>0, <2>4
  <2> QED
    BY <2>1, <2>2, <2>3, <2>4
<1>c. ASSUME NEW x \in DOMAIN s, NEW y \in DOMAIN s, <<x, y>> \in LabelledPairs(s, FALSE)
      PROVE  s[x].p >= s[y].p /\ (s[x].p = s[y].p /\ s[x].y => s[y].y)
  <2>1. \/ s[x].p > s[y].p
        \/ s[x].p = s[y].p /\ s[x].y = FALSE /\ s[y].y # FALSE
        \/ s[x].p = s[y].p /\ s[x].y = s[y].y
    BY <1>c DEF LabelledPairs
  <2>2. CASE s[x].p > s[y].p
    BY <1>0, <2>2
  <2>3. CASE s[x].p = s[y].p /\ s[x].y = FALSE /\ s[y].y # FALSE
    <3>1. s[x].p >= s[y].p
      BY <1>0, <2>3
    <3>2. s[x].y => s[y].y
      BY <1>0, <2>3
    <3> QED
      BY <3>1, <3>2
  <2>4. CASE s[x].p = s[y].p /\ s[x].y = s[y].y
    BY <1>0, <2>4
  <2> QED
    BY <2>1, <2>2, <2>3, <2>4
<1>1. InOrder(s, Descending(s), DescendingPairs(s))
  BY DescendingOrder
<1>2. InOrder(s, LabelledOrder(s, TRUE), LabelledPairs(s, TRUE)) /\ InOrder(s, LabelledOrder(s, FALSE), LabelledPairs(s, FALSE))
  BY OrderByLabel
<1>3. \A x, y \in DOMAIN s : <<x, y>> \in LabelledPairs(s, FALSE) /\ <<y, x>> \in DescendingPairs(s) /\ s[x].y => s[y].y
  <2>1. ASSUME NEW x \in DOMAIN s, NEW y \in DOMAIN s, <<x, y>> \in LabelledPairs(s, FALSE), <<y, x>> \in DescendingPairs(s), s[x].y
        PROVE  s[y].y
    <3>1. s[x].p >= s[y].p /\ s[y].p >= s[x].p
      BY <1>a, <1>c, <2>1
    <3>2. s[x].p = s[y].p
      BY <1>0, <3>1
    <3> QED
      BY <1>c, <2>1, <3>2
  <2> QED
    BY <2>1
<1>4. \A x, y \in DOMAIN s : <<x, y>> \in DescendingPairs(s) /\ <<y, x>> \in LabelledPairs(s, TRUE) /\ s[x].y => s[y].y
  <2>1. ASSUME NEW x \in DOMAIN s, NEW y \in DOMAIN s, <<x, y>> \in DescendingPairs(s), <<y, x>> \in LabelledPairs(s, TRUE), s[x].y
        PROVE  s[y].y
    <3>1. s[x].p >= s[y].p /\ s[y].p >= s[x].p
      BY <1>a, <1>b, <2>1
    <3>2. s[x].p = s[y].p
      BY <1>0, <3>1
    <3> QED
      BY <1>b, <2>1, <3>2
  <2> QED
    BY <2>1
<1>5. PrecisionSum(s, LabelledOrder(s, FALSE)) <= PrecisionSum(s, Descending(s))
  BY <1>1, <1>2, <1>3, MorePreciseOrder
<1>6. PrecisionSum(s, Descending(s)) <= PrecisionSum(s, LabelledOrder(s, TRUE))
  BY <1>1, <1>2, <1>4, MorePreciseOrder
<1> QED
  BY <1>5, <1>6

LEMMA FullPrecision ==
  ASSUME NEW s \in Scored, NEW order, Takes(s, order), PositiveRows(s) # {}
  PROVE  PrecisionSum(s, order) = 60 * Cardinality(PositiveRows(s))
           <=> \A k \in 1..Cardinality(PositiveRows(s)) : s[order[k]].y
<1> DEFINE K == Places(s, order)
           p == Cardinality(PositiveRows(s))
           f == Precisions(s, order)
           full == [k \in K |-> 60]
           found == Found(s, order)
<1>a. DOMAIN s = 1..Len(s) /\ Len(s) \in Nat /\ p \in Nat /\ PositiveRows(s) \subseteq DOMAIN s
      /\ IsFiniteSet(DOMAIN s) /\ Cardinality(DOMAIN s) = Len(s)
  BY ScoredRows, Labelled
<1>0. DOMAIN s = 1..Len(s) /\ Len(s) \in Nat /\ p \in Nat /\ p <= Len(s)
  BY <1>a, FS_Subset
<1>1. K \subseteq DOMAIN s /\ IsFiniteSet(K) /\ Cardinality(K) = p
      /\ \A k \in DOMAIN s : found[k] \in Nat /\ found[k] <= k
  BY PlacesFound
<1>2. \A k \in K : f[k] \in Int /\ full[k] \in Int /\ f[k] <= full[k] /\ full[k] = 60
  BY PrecisionTerms
<1>3. PrecisionSum(s, order) = SumFunctionOnSet(f, K)
  BY PrecisionTerms
<1>4. SumFunctionOnSet(full, K) = 60 * p
  <2>1. 60 \in Int /\ \A k \in K : full[k] = 60
    BY <1>2
  <2> HIDE DEF full, K, p
  <2>2. SumFunctionOnSet(full, K) = 60 * Cardinality(K)
    BY ONLY <1>1, <2>1, SumConstant
  <2> QED
    BY <2>2, <1>1
<1>5. PrecisionSum(s, order) = 60 * p <=> \A k \in K : f[k] = 60
  <2>1. PrecisionSum(s, order) = 60 * p => \A k \in K : f[k] = full[k]
    <3> HIDE DEF f, K, full, p
    <3>1. SumFunctionOnSet(f, K) = SumFunctionOnSet(full, K) => \A k \in K : f[k] = full[k]
      BY ONLY <1>1, <1>2, SumMonotone
    <3> QED
      BY <3>1, <1>3, <1>4
  <2>2. (\A k \in K : f[k] = 60) => PrecisionSum(s, order) = 60 * p
    <3>1. SUFFICES ASSUME \A k \in K : f[k] = 60 PROVE SumFunctionOnSet(f, K) = SumFunctionOnSet(full, K)
      BY <1>3, <1>4
    <3>2. \A k \in K : f[k] \in Int /\ f[k] = full[k]
      BY <1>2, <3>1
    <3> HIDE DEF f, K, full
    <3> QED
      BY ONLY <1>1, <3>2, SumAgree
  <2> QED
    BY <1>2, <2>1, <2>2
<1>6. ASSUME NEW k \in K PROVE f[k] = 60 <=> found[k] = k
  <2> DEFINE c == found[k]  q == (60 * c) \div k
  <2>1. k \in Nat \ {0} /\ c \in Nat /\ c <= k
    BY <1>0, <1>1
  <2> HIDE DEF c
  <2>2. q \in Nat /\ k * q <= 60 * c /\ 60 * c < k * q + k /\ k * q \in Int
    BY <2>1, Quotient
  <2> HIDE DEF q
  <2>3. q = 60 => c = k
    BY <2>1, <2>2
  <2>4. c = k => q = 60
    <3>1. SUFFICES ASSUME c = k PROVE q = 60
      OBVIOUS
    <3>2. k * 60 <= 60 * c /\ 60 * c \in Nat
      BY <2>1, <3>1
    <3>3. 60 <= (60 * c) \div k
      BY <2>1, <3>2, QuotientLeast
    <3>4. q <= 60
      BY PrecisionTerms DEF q, c, Precisions
    <3> QED
      BY <3>3, <3>4, <2>2 DEF q
  <2> QED
    BY <2>3, <2>4 DEF c, q, Precisions
<1>7. ASSUME \A k \in K : found[k] = k PROVE \A k \in 1..p : s[order[k]].y
  <2>1. ASSUME NEW k \in K, NEW j \in 1..k PROVE j \in K
    <3> DEFINE U == {i \in 1..k : s[order[i]].y}
    <3>1. Cardinality(U) = k
      BY <1>1, <1>7 DEF Found
    <3>2. IsFiniteSet(1..k) /\ Cardinality(1..k) = k /\ k \in Nat
      BY <1>0, <1>1, Interval
    <3>3. U \in SUBSET (1..k)
      OBVIOUS
    <3> HIDE DEF U
    <3>4. U = 1..k
      BY <3>1, <3>2, <3>3, FS_Subset
    <3> QED
      BY <1>0, <1>1, <3>4 DEF U, Places
  <2>2. ASSUME NEW k \in 1..p, k \notin K PROVE FALSE
    <3>1. K \subseteq 1..(k - 1)
      BY <1>0, <1>1, <2>1, <2>2
    <3>2. k - 1 \in Nat /\ IsFiniteSet(1..(k - 1)) /\ Cardinality(1..(k - 1)) = k - 1
      BY <1>0, Interval
    <3>3. Cardinality(K) <= k - 1
      BY <3>1, <3>2, FS_Subset
    <3> QED
      BY <1>0, <1>1, <3>3
  <2> QED
    BY <2>2 DEF Places
<1>8. ASSUME \A k \in 1..p : s[order[k]].y PROVE \A k \in K : found[k] = k
  <2>1. 1..p \subseteq K
    BY <1>0, <1>8 DEF Places
  <2>2. IsFiniteSet(1..p) /\ Cardinality(1..p) = p
    BY <1>0, Interval
  <2>3. 1..p = K
    BY <1>1, <2>1, <2>2, FS_Subset
  <2>4. ASSUME NEW k \in K PROVE found[k] = k
    <3>1. k \in 1..p /\ k \in Nat
      BY <2>3, <1>0
    <3>2. {j \in 1..k : s[order[j]].y} = 1..k
      BY <1>0, <1>8, <3>1
    <3>3. Cardinality(1..k) = k
      BY <3>1, Interval
    <3> QED
      BY <1>1, <3>2, <3>3 DEF Found
  <2> QED
    BY <2>4
<1> HIDE DEF K, f, found, p
<1>9. (\A k \in K : f[k] = 60) <=> \A k \in K : found[k] = k
  BY <1>6
<1> QED
  BY <1>5, <1>7, <1>8, <1>9 DEF p

-----------------------------------------------------------------------------
(* The top rows, and F1.                                                   *)

LEMMA LeastOfTwo == ASSUME NEW a \in Int, NEW b \in Int PROVE Min({a, b}) = IF a <= b THEN a ELSE b
<1>1. \E x \in {a, b} : \A y \in {a, b} : x <= y
  OBVIOUS
<1>2. Min({a, b}) \in {a, b} /\ Min({a, b}) <= a /\ Min({a, b}) <= b
  BY <1>1 DEF Min
<1> HIDE DEF Min
<1> QED
  BY <1>2

LEMMA GreatestOfTwo == ASSUME NEW a \in Int, NEW b \in Int PROVE Max({a, b}) = IF a >= b THEN a ELSE b
<1>1. \E x \in {a, b} : \A y \in {a, b} : x >= y
  OBVIOUS
<1>2. Max({a, b}) \in {a, b} /\ Max({a, b}) >= a /\ Max({a, b}) >= b
  BY <1>1 DEF Max
<1> HIDE DEF Max
<1> QED
  BY <1>2

LEMMA TopCountBounds ==
  ASSUME NEW n \in Nat \ {0}, NEW percent \in {5, 50}
  PROVE  TopCount(n, percent) \in 1..n /\ 100 * TopCount(n, percent) >= percent * n
<1> DEFINE k == (n * percent + 99) \div 100
           m == IF k >= 1 THEN k ELSE 1
           t == IF m <= n THEN m ELSE n
<1>1. k \in Nat /\ 100 * k >= n * percent /\ n * percent \in Nat
  OBVIOUS
<1>2. TopCount(n, percent) = t
  <2>1. Max({k, 1}) = m
    BY <1>1, GreatestOfTwo
  <2>2. m \in Int
    BY <1>1
  <2> HIDE DEF k, m
  <2>3. Min({m, n}) = t
    BY <2>2, LeastOfTwo
  <2> QED
    BY <2>1, <2>3 DEF TopCount, k
<1>3. percent * n <= 100 * n /\ percent * n = n * percent
  OBVIOUS
<1> HIDE DEF k
<1> QED
  BY <1>1, <1>2, <1>3

LEMMA TopIsTop ==
  ASSUME NEW s \in Scored, s # <<>>, NEW percent \in {5, 50}
  PROVE  /\ \A i \in TopRows(s, percent), j \in DOMAIN s \ TopRows(s, percent) : s[i].p >= s[j].p
         /\ 100 * Cardinality(TopRows(s, percent)) >= percent * Len(s)
         /\ PrecisionAtK(s, percent)[1] <= Cardinality(PositiveRows(s))
<1> DEFINE m == TopCount(Len(s), percent)
           top == Prefix(Descending(s), m)
<1>0. DOMAIN s = 1..Len(s) /\ Len(s) \in Nat \ {0}
  BY ScoredRows DEF Scored
<1>1. m \in DOMAIN s /\ 100 * m >= percent * Len(s)
  BY <1>0, TopCountBounds
<1>2. TopRows(s, percent) = top
  BY DEF TopRows, Prefix
<1> HIDE DEF m
<1>3. InOrder(s, Descending(s), DescendingPairs(s)) /\ Takes(s, Descending(s))
  BY DescendingOrder, InOrderTakes
<1>4. Cardinality(top) = m /\ top \subseteq DOMAIN s
  <2>1. m \in DOMAIN s /\ Takes(s, Descending(s))
    BY <1>1, <1>3
  <2> DEFINE order == Descending(s)
  <2>2. m \in DOMAIN s /\ Takes(s, order) /\ s \in Scored
    BY <2>1
  <2> HIDE DEF order, top
  <2>3. /\ Prefix(order, m) \subseteq DOMAIN s
        /\ Cardinality(Prefix(order, m)) = m
        /\ Found(s, order)[m] = Cardinality(Prefix(order, m) \cap PositiveRows(s))
    BY ONLY <2>2, PrefixSize
  <2> QED
    BY <2>3 DEF order, top
<1>5. ASSUME NEW i \in top, NEW j \in DOMAIN s \ top PROVE s[i].p >= s[j].p
  <2>1. i \in DOMAIN s /\ <<i, j>> \in DescendingPairs(s)
    BY <1>1, <1>3, PrefixFirst
  <2>2. s[i].p \in Nat /\ s[j].p \in Nat
    BY <2>1, ScoredRows, ScoreAssumption
  <2> QED
    BY <2>1, <2>2 DEF DescendingPairs
<1>6. Cardinality(top \cap PositiveRows(s)) <= Cardinality(PositiveRows(s))
  BY Labelled, FS_Subset
<1>7. PrecisionAtK(s, percent)[1] = Cardinality(top \cap PositiveRows(s))
  BY <1>2 DEF PrecisionAtK
<1> QED
  BY <1>1, <1>2, <1>4, <1>5, <1>6, <1>7

LEMMA F1OfCounts ==
  ASSUME NEW s \in Scored
  PROVE  F1(s)[1] * (Cardinality(Predicted(s)) + Cardinality(PositiveRows(s))) = 2 * Hits(s) * F1(s)[2]
<1> DEFINE a == Cardinality(Predicted(s))
           b == Cardinality(PositiveRows(s))
           h == Hits(s)
<1>1. IsFiniteSet(Predicted(s)) /\ IsFiniteSet(PositiveRows(s))
  BY ScoredRows, Labelled, FS_Subset DEF Predicted
<1>2. a \in Nat /\ b \in Nat /\ h \in Nat
  BY <1>1, FS_CardinalityType, FS_Intersection DEF Hits
<1>3. Predicted(s) = {} => h = 0
  BY FS_EmptySet DEF Hits
<1>4. PositiveRows(s) = {} => h = 0
  BY FS_EmptySet DEF Hits
<1>5. Precision(s) = IF Predicted(s) = {} THEN <<0, 1>> ELSE <<h, a>>
  BY DEF Precision
<1>6. Recall(s) = IF PositiveRows(s) = {} THEN <<0, 1>> ELSE <<h, b>>
  BY DEF Recall
<1>7. F1(s) = IF Precision(s)[1] + Recall(s)[1] = 0 THEN <<0, 1>>
              ELSE <<2 * Precision(s)[1] * Recall(s)[1],
                     Precision(s)[1] * Recall(s)[2] + Recall(s)[1] * Precision(s)[2]>>
  BY DEF F1
<1> HIDE DEF a, b, h
<1>8. CASE h = 0
  <2>1. Precision(s)[1] = 0 /\ Recall(s)[1] = 0
    BY <1>5, <1>6, <1>8
  <2>2. F1(s) = <<0, 1>>
    BY <1>7, <2>1
  <2>3. F1(s)[1] * (a + b) = 2 * h * F1(s)[2]
    BY <1>2, <1>8, <2>2
  <2> QED
    BY <2>3 DEF a, b, h
<1>9. CASE h # 0
  <2>1. Precision(s) = <<h, a>> /\ Recall(s) = <<h, b>>
    BY <1>3, <1>4, <1>5, <1>6, <1>9
  <2>2. F1(s) = <<2 * h * h, h * b + h * a>>
    BY <1>2, <1>7, <1>9, <2>1
  <2>3. (2 * h * h) * (a + b) = 2 * h * (h * b + h * a)
    BY <1>2
  <2>4. F1(s)[1] * (a + b) = 2 * h * F1(s)[2]
    BY <2>2, <2>3
  <2> QED
    BY <2>4 DEF a, b, h
<1> QED
  BY <1>8, <1>9

\* Average precision lies between that with the positive rows of a tie last and that with
\* them first, and is 1 only if no negative row comes before a positive one; the top rows
\* hold no row scored lower than one left out; F1 is that of the counts: for all scored rows
\* (average_precision, precision_recall_lift_at_k, precision_recall_f1).
THEOREM RankingRightHolds == \A s \in Scored : RankingRight(s)
<1> SUFFICES ASSUME NEW s \in Scored, s # <<>> PROVE RankingRight(s)
  BY DEF RankingRight
<1>1. /\ PrecisionSum(s, LabelledOrder(s, FALSE)) <= PrecisionSum(s, Descending(s))
      /\ PrecisionSum(s, Descending(s)) <= PrecisionSum(s, LabelledOrder(s, TRUE))
  BY PrecisionBetween
<1>2. ASSUME PositiveRows(s) # {}
      PROVE  AveragePrecision(s)[1] = AveragePrecision(s)[2]
               <=> \A k \in 1..Cardinality(PositiveRows(s)) : s[Descending(s)[k]].y
  <2>1. Takes(s, Descending(s))
    BY DescendingOrder, InOrderTakes
  <2>2. /\ AveragePrecision(s)[1] = PrecisionSum(s, Descending(s))
        /\ AveragePrecision(s)[2] = 60 * Cardinality(PositiveRows(s))
    BY <1>2 DEF AveragePrecision, Unit
  <2> QED
    BY <1>2, <2>1, <2>2, FullPrecision
<1>3. ASSUME NEW percent \in {5, 50}
      PROVE  /\ \A i \in TopRows(s, percent), j \in DOMAIN s \ TopRows(s, percent) : s[i].p >= s[j].p
             /\ 100 * Cardinality(TopRows(s, percent)) >= percent * Len(s)
             /\ PrecisionAtK(s, percent)[1] <= Cardinality(PositiveRows(s))
  BY TopIsTop
<1>4. F1(s)[1] * (Cardinality(Predicted(s)) + Cardinality(PositiveRows(s))) = 2 * Hits(s) * F1(s)[2]
  BY F1OfCounts
<1> QED
  BY <1>1, <1>2, <1>3, <1>4 DEF RankingRight

-----------------------------------------------------------------------------
(* Isotonic calibration: means of blocks, and the merging of the last two. *)

-----------------------------------------------------------------------------
(* Isotonic calibration: comparing means.                                  *)

LEMMA Cancel == ASSUME NEW k \in Nat \ {0}, NEW a \in Int, k * a >= 0 PROVE a >= 0
<1>1. SUFFICES ASSUME a <= -1 PROVE FALSE
  OBVIOUS
<1>2. k * a <= k * (-1)
  BY <1>1
<1> QED
  BY <1>2

LEMMA Product == ASSUME NEW a \in Int, NEW b \in Int, a >= 0, b >= 0 PROVE a * b >= 0
OBVIOUS

LEMMA MeanTransitive ==
  ASSUME NEW a \in Int, NEW b \in Int, NEW c \in Int,
         NEW l \in Nat \ {0}, NEW m \in Nat \ {0}, NEW n \in Nat \ {0},
         a * m <= b * l, b * n <= c * m
  PROVE  a * n <= c * l
<1>1. n * (b * l - a * m) >= 0 /\ l * (c * m - b * n) >= 0
  BY Product
<1>2. n * (b * l - a * m) + l * (c * m - b * n) = m * (c * l - a * n)
  OBVIOUS
<1>3. m * (c * l - a * n) >= 0
  BY <1>1, <1>2
<1>4. c * l - a * n >= 0
  BY <1>3, Cancel
<1> QED
  BY <1>4

\* A prefix of two blocks merged is above their mean: one that ends in the first
LEMMA MergeFirst ==
  ASSUME NEW a \in Int, NEW m \in Nat \ {0}, NEW b \in Int, NEW q \in Nat \ {0},
         a * q > b * m, NEW c \in Int, NEW j \in Nat, c * m >= a * j
  PROVE  c * (m + q) >= (a + b) * j
<1>1. q * (c * m - a * j) >= 0 /\ j * (a * q - b * m) >= 0
  BY Product
<1>2. q * (c * m - a * j) + j * (a * q - b * m) = m * (c * q - b * j)
  OBVIOUS
<1>3. m * (c * q - b * j) >= 0
  BY <1>1, <1>2
<1>4. c * q - b * j >= 0
  BY <1>3, Cancel
<1>5. (c * m - a * j) + (c * q - b * j) = c * (m + q) - (a + b) * j
  OBVIOUS
<1> DEFINE u == c * m - a * j  v == c * q - b * j  w == c * (m + q)  z == (a + b) * j
<1>6. u >= 0 /\ v >= 0 /\ u + v = w - z /\ u \in Int /\ v \in Int /\ w \in Int /\ z \in Int
  BY <1>4, <1>5
<1> HIDE DEF u, v, w, z
<1>7. w >= z
  BY <1>6
<1> QED
  BY <1>7 DEF w, z

\* and one that ends in the second.
LEMMA MergeSecond ==
  ASSUME NEW a \in Int, NEW m \in Nat \ {0}, NEW b \in Int, NEW q \in Nat \ {0},
         a * q > b * m, NEW c \in Int, NEW j \in Nat, j <= q, c * q >= b * j
  PROVE  (a + c) * (m + q) >= (a + b) * (m + j)
<1>1. m * (c * q - b * j) >= 0 /\ (q - j) * (a * q - b * m) >= 0
  BY Product
<1>2. m * (c * q - b * j) + (q - j) * (a * q - b * m) = q * (a * (q - j) + m * (c - b))
  OBVIOUS
<1>3. q * (a * (q - j) + m * (c - b)) >= 0
  BY <1>1, <1>2
<1>4. a * (q - j) + m * (c - b) >= 0
  BY <1>3, Cancel
<1>5. (c * q - b * j) + (a * (q - j) + m * (c - b)) = (a + c) * (m + q) - (a + b) * (m + j)
  OBVIOUS
<1> DEFINE u == c * q - b * j  v == a * (q - j) + m * (c - b)  w == (a + c) * (m + q)  z == (a + b) * (m + j)
<1>6. u >= 0 /\ v >= 0 /\ u + v = w - z /\ u \in Int /\ v \in Int /\ w \in Int /\ z \in Int
  BY <1>4, <1>5
<1> HIDE DEF u, v, w, z
<1>7. w >= z
  BY <1>6
<1> QED
  BY <1>7 DEF w, z

-----------------------------------------------------------------------------
(* Merging.                                                                *)

LastMerged(blocks) ==
  Append(SubSeq(blocks, 1, Len(blocks) - 2),
         [x |-> blocks[Len(blocks)].x,
          sum |-> blocks[Len(blocks) - 1].sum + blocks[Len(blocks)].sum,
          count |-> blocks[Len(blocks) - 1].count + blocks[Len(blocks)].count])

Falls(blocks) == Len(blocks) > 1 /\ MeanAbove(blocks[Len(blocks) - 1], blocks[Len(blocks)])

Pools(g) == g = [blocks \in Blocks |-> IF Falls(blocks) THEN g[LastMerged(blocks)] ELSE blocks]

LEMMA PoolUnfolds == PoolAdjacent = CHOOSE g : Pools(g)
BY DEF PoolAdjacent, Pools, Falls, LastMerged

LEMMA MergedBlocks ==
  ASSUME NEW blocks \in Blocks, Len(blocks) > 1
  PROVE  /\ LastMerged(blocks) \in Blocks
         /\ Len(LastMerged(blocks)) = Len(blocks) - 1
         /\ \A t \in 1..(Len(blocks) - 2) : LastMerged(blocks)[t] = blocks[t]
         /\ LastMerged(blocks)[Len(blocks) - 1] =
              [x |-> blocks[Len(blocks)].x,
               sum |-> blocks[Len(blocks) - 1].sum + blocks[Len(blocks)].sum,
               count |-> blocks[Len(blocks) - 1].count + blocks[Len(blocks)].count]
<1> DEFINE R == [x : Int, sum : Int, count : Int]
           n == Len(blocks)
           init == SubSeq(blocks, 1, n - 2)
           new == [x |-> blocks[n].x, sum |-> blocks[n - 1].sum + blocks[n].sum,
                   count |-> blocks[n - 1].count + blocks[n].count]
<1>1. blocks \in Seq(R) /\ n \in Nat /\ n > 1
  BY DEF Blocks
<1>2. new \in R
  <2>1. blocks[n] \in R /\ blocks[n - 1] \in R
    <3> HIDE DEF R
    <3> QED
      BY <1>1
  <2> QED
    BY <2>1
<1>3. LastMerged(blocks) = Append(init, new)
  BY DEF LastMerged
<1> HIDE DEF R, new
<1>4. init \in Seq(R) /\ Len(init) = n - 2 /\ \A t \in 1..(n - 2) : init[t] = blocks[t]
  <2> DEFINE l == n - 2
  <2>1. l \in Nat /\ 1 \in Int /\ l \in Int /\ \A t \in 1..l : blocks[t] \in R
    BY <1>1
  <2> HIDE DEF l
  <2>2. /\ SubSeq(blocks, 1, l) \in Seq(R)
        /\ Len(SubSeq(blocks, 1, l)) = IF 1 <= l THEN l - 1 + 1 ELSE 0
        /\ \A t \in 1..l - 1 + 1 : SubSeq(blocks, 1, l)[t] = blocks[1 + t - 1]
    BY ONLY <2>1, SubSeqProperties
  <2>3. Len(SubSeq(blocks, 1, l)) = l
    BY <2>1, <2>2
  <2>4. ASSUME NEW t \in 1..l PROVE SubSeq(blocks, 1, l)[t] = blocks[t]
    <3>1. t \in 1..l - 1 + 1 /\ 1 + t - 1 = t
      BY <2>1
    <3> QED
      BY <2>2, <3>1
  <2> QED
    BY <2>2, <2>3, <2>4 DEF l
<1> HIDE DEF init
<1>5. Append(init, new) \in Seq(R) /\ Len(Append(init, new)) = n - 1
      /\ (\A t \in 1..(n - 2) : Append(init, new)[t] = init[t]) /\ Append(init, new)[n - 1] = new
  BY <1>1, <1>2, <1>4
<1> QED
  BY <1>3, <1>4, <1>5 DEF R, new, Blocks

LEMMA PoolExists == \E g : Pools(g)
<1> DEFINE Level(n) == {b \in Blocks : Len(b) <= n}
           On(g, n) == \A b \in Level(n) : g[b] = IF Falls(b) THEN g[LastMerged(b)] ELSE b
           S == {n \in Nat : \E g : On(g, n)}
<1>0. \A b \in Blocks : Len(b) \in Nat /\ (Falls(b) => LastMerged(b) \in Blocks /\ Len(LastMerged(b)) = Len(b) - 1 /\ Len(b) > 1)
  <2>1. \A b \in Blocks : Len(b) \in Nat
    BY DEF Blocks
  <2> QED
    BY <2>1, MergedBlocks DEF Falls
<1>1. 0 \in S
  <2>1. \A b \in Level(0) : ~Falls(b)
    BY <1>0
  <2>2. On([b \in Level(0) |-> b], 0)
    BY <2>1
  <2> QED
    BY <2>2
<1>2. ASSUME NEW n \in Nat, n \in S PROVE n + 1 \in S
  <2>1. PICK g : On(g, n)
    BY <1>2
  <2> DEFINE h == [b \in Level(n + 1) |-> IF Falls(b) THEN g[LastMerged(b)] ELSE b]
  <2>2. \A b \in Level(n + 1) : Falls(b) => LastMerged(b) \in Level(n) /\ LastMerged(b) \in Level(n + 1)
    BY <1>0
  <2>3. \A b \in Level(n) : b \in Level(n + 1)
    BY <1>0
  <2>4. \A b \in Level(n) : h[b] = g[b]
    BY <2>1, <2>3
  <2>5. On(h, n + 1)
    BY <2>2, <2>4
  <2> HIDE DEF h, On, Level
  <2> QED
    BY <2>5
<1> HIDE DEF S
<1>3. \A n \in Nat : \E g : On(g, n)
  <2>1. Nat \subseteq S
    BY <1>1, <1>2, Induction
  <2> QED
    BY <2>1 DEF S
<1> DEFINE G(n) == CHOOSE g : On(g, n)
           pool == [b \in Blocks |-> G(Len(b))[b]]
<1>4. \A n \in Nat : On(G(n), n)
  <2> HIDE DEF On
  <2> QED
    BY <1>3
<1>5. ASSUME NEW n \in Nat, NEW m \in Nat, n <= m PROVE \A b \in Level(n) : G(n)[b] = G(m)[b]
  <2> DEFINE T == {k \in Nat : \A b \in Level(n) : Len(b) = k => G(n)[b] = G(m)[b]}
  <2>1. \A b \in Level(n) : b \in Level(m)
    BY <1>0, <1>5
  <2>2. ASSUME NEW b \in Level(n)
        PROVE  /\ G(n)[b] = IF Falls(b) THEN G(n)[LastMerged(b)] ELSE b
               /\ G(m)[b] = IF Falls(b) THEN G(m)[LastMerged(b)] ELSE b
    <3>1. On(G(n), n) /\ On(G(m), m) /\ b \in Level(m)
      BY <1>4, <2>1
    <3> HIDE DEF G
    <3> QED
      BY <3>1
  <2> HIDE DEF G
  <2>3. 0 \in T
    BY <1>0, <2>2
  <2>4. ASSUME NEW k \in Nat, k \in T PROVE k + 1 \in T
    <3>1. ASSUME NEW b \in Level(n), Len(b) = k + 1 PROVE G(n)[b] = G(m)[b]
      <4>1. CASE ~Falls(b)
        BY <4>1, <2>2
      <4>2. CASE Falls(b)
        <5>1. LastMerged(b) \in Level(n) /\ Len(LastMerged(b)) = k
          BY <1>0, <3>1, <4>2
        <5>2. G(n)[LastMerged(b)] = G(m)[LastMerged(b)]
          BY <2>4, <5>1
        <5> QED
          BY <2>2, <4>2, <5>2
      <4> QED
        BY <4>1, <4>2
    <3> QED
      BY <3>1
  <2> HIDE DEF T
  <2>5. Nat \subseteq T
    BY <2>3, <2>4, Induction
  <2>6. ASSUME NEW b \in Level(n) PROVE G(n)[b] = G(m)[b]
    <3>1. Len(b) \in T
      BY <1>0, <2>5
    <3> QED
      BY <3>1 DEF T
  <2> QED
    BY <2>6
<1>6. ASSUME NEW b \in Blocks PROVE pool[b] = IF Falls(b) THEN pool[LastMerged(b)] ELSE b
  <2> DEFINE n == Len(b)
  <2>1. n \in Nat /\ b \in Level(n)
    BY <1>0
  <2>2. On(G(n), n)
    BY <1>4, <2>1
  <2>3. G(n)[b] = IF Falls(b) THEN G(n)[LastMerged(b)] ELSE b
    <3> HIDE DEF G
    <3> QED
      BY <2>1, <2>2
  <2>4. ASSUME Falls(b) PROVE G(n)[LastMerged(b)] = pool[LastMerged(b)]
    <3>1. LastMerged(b) \in Blocks /\ Len(LastMerged(b)) = n - 1 /\ n - 1 \in Nat
      BY <1>0, <2>4
    <3>2. LastMerged(b) \in Level(n - 1)
      BY <3>1
    <3> HIDE DEF G
    <3>3. G(n - 1)[LastMerged(b)] = G(n)[LastMerged(b)]
      BY <1>5, <2>1, <3>1, <3>2
    <3> QED
      BY <3>1, <3>3
  <2> HIDE DEF G
  <2>5. pool[b] = G(n)[b]
    OBVIOUS
  <2> HIDE DEF pool
  <2> QED
    BY <2>3, <2>4, <2>5
<1>7. pool = [b \in Blocks |-> pool[b]]
  OBVIOUS
<1> HIDE DEF pool
<1>8. Pools(pool)
  BY <1>6, <1>7 DEF Pools
<1> QED
  BY <1>8

LEMMA PoolStep ==
  ASSUME NEW blocks \in Blocks
  PROVE  PoolAdjacent[blocks] = IF Falls(blocks) THEN PoolAdjacent[LastMerged(blocks)] ELSE blocks
<1>1. Pools(PoolAdjacent)
  BY PoolExists, PoolUnfolds
<1> QED
  BY <1>1 DEF Pools

-----------------------------------------------------------------------------
(* Blocks as spans of rows: merging keeps that no prefix of a block is     *)
(* below its mean, and ends with means that rise.                          *)

\* The blocks end at e[1] < e[2] < ... and hold what c counts between their ends,
\* and no prefix of a block is below its mean.
Spans(c, x, m, blocks, e) ==
  /\ e \in [0..Len(blocks) -> 0..m]
  /\ e[0] = 0 /\ e[Len(blocks)] = m
  /\ \A t \in 1..Len(blocks) :
       /\ e[t - 1] < e[t]
       /\ blocks[t].x = x[e[t]]
       /\ blocks[t].sum = c[e[t]] - c[e[t - 1]]
       /\ blocks[t].count = e[t] - e[t - 1]
       /\ \A j \in e[t - 1]..e[t] :
            (c[j] - c[e[t - 1]]) * (e[t] - e[t - 1]) >= (c[e[t]] - c[e[t - 1]]) * (j - e[t - 1])

Rising(blocks, l) == \A t, u \in 1..l : t < u => ~MeanAbove(blocks[t], blocks[u])

LEMMA MergePrefix ==
  ASSUME NEW c, NEW p \in Int, NEW k \in Int, NEW r \in Int, p < k, k < r,
         \A j \in p..r : c[j] \in Int,
         (c[k] - c[p]) * (r - k) > (c[r] - c[k]) * (k - p),
         \A j \in p..k : (c[j] - c[p]) * (k - p) >= (c[k] - c[p]) * (j - p),
         \A j \in k..r : (c[j] - c[k]) * (r - k) >= (c[r] - c[k]) * (j - k)
  PROVE  \A j \in p..r : (c[j] - c[p]) * (r - p) >= (c[r] - c[p]) * (j - p)
<1> SUFFICES ASSUME NEW j \in p..r PROVE (c[j] - c[p]) * (r - p) >= (c[r] - c[p]) * (j - p)
  OBVIOUS
<1> DEFINE a == c[k] - c[p]
           m == k - p
           b == c[r] - c[k]
           q == r - k
<1>1. /\ a \in Int /\ b \in Int /\ m \in Nat \ {0} /\ q \in Nat \ {0} /\ a * q > b * m
      /\ c[j] \in Int /\ c[p] \in Int /\ c[k] \in Int /\ c[r] \in Int
  OBVIOUS
<1>2. r - p = m + q /\ c[r] - c[p] = a + b
  BY <1>1
<1>3. CASE j <= k
  <2> DEFINE d == c[j] - c[p]  i == j - p
  <2>1. d \in Int /\ i \in Nat /\ d * m >= a * i
    BY <1>1, <1>3
  <2> HIDE DEF a, b, m, q, d, i
  <2>2. d * (m + q) >= (a + b) * i
    BY ONLY <1>1, <2>1, MergeFirst
  <2> QED
    BY <1>2, <2>2 DEF d, i
<1>4. CASE j > k
  <2> DEFINE d == c[j] - c[k]  i == j - k
  <2>1. d \in Int /\ i \in Nat /\ i <= q /\ d * q >= b * i
    BY <1>1, <1>4
  <2>2. c[j] - c[p] = a + d /\ j - p = m + i
    BY <1>1
  <2> HIDE DEF a, b, m, q, d, i
  <2>3. (a + d) * (m + q) >= (a + b) * (m + i)
    BY ONLY <1>1, <2>1, MergeSecond
  <2> QED
    BY <1>2, <2>2, <2>3
<1> QED
  BY <1>3, <1>4

Joins(e, l) == [t \in 0..l |-> IF t = l THEN e[l + 1] ELSE e[t]]

LEMMA MergeSpans ==
  ASSUME NEW m \in Nat, NEW c, (\A j \in 0..m : c[j] \in Int), NEW x, NEW blocks \in Blocks, NEW e,
         Spans(c, x, m, blocks, e), Falls(blocks)
  PROVE  Spans(c, x, m, LastMerged(blocks), Joins(e, Len(blocks) - 1))
<1> DEFINE L == Len(blocks)
           l == L - 1
           d == Joins(e, l)
           B == LastMerged(blocks)
<1>0. L \in Nat /\ L > 1 /\ l \in Nat /\ l >= 1
  BY DEF Falls, Blocks
<1>1. Len(B) = l /\ (\A t \in 1..(l - 1) : B[t] = blocks[t])
      /\ B[l].x = blocks[L].x /\ B[l].sum = blocks[l].sum + blocks[L].sum
      /\ B[l].count = blocks[l].count + blocks[L].count
  <2>1. Len(blocks) > 1
    BY <1>0
  <2>2. B[l] = [x |-> blocks[L].x, sum |-> blocks[l].sum + blocks[L].sum, count |-> blocks[l].count + blocks[L].count]
        /\ Len(B) = L - 1 /\ \A t \in 1..(L - 2) : B[t] = blocks[t]
    BY <2>1, MergedBlocks
  <2> HIDE DEF B
  <2> QED
    BY <1>0, <2>2
<1>2. /\ e \in [0..L -> 0..m] /\ e[0] = 0 /\ e[L] = m
      /\ \A t \in 1..L :
           /\ e[t - 1] < e[t]
           /\ blocks[t].x = x[e[t]]
           /\ blocks[t].sum = c[e[t]] - c[e[t - 1]]
           /\ blocks[t].count = e[t] - e[t - 1]
           /\ \A j \in e[t - 1]..e[t] :
                (c[j] - c[e[t - 1]]) * (e[t] - e[t - 1]) >= (c[e[t]] - c[e[t - 1]]) * (j - e[t - 1])
  BY DEF Spans
<1>3. MeanAbove(blocks[l], blocks[L])
  BY DEF Falls
<1> HIDE DEF B
<1>4. d \in [0..l -> 0..m] /\ d[0] = 0 /\ d[l] = m /\ (\A t \in 0..(l - 1) : d[t] = e[t]) /\ d[l] = e[L]
  BY <1>0, <1>2 DEF Joins
<1> DEFINE p == e[l - 1]
           k == e[l]
           r == e[L]
<1>5. /\ p \in 0..m /\ k \in 0..m /\ r \in 0..m /\ p < k /\ k < r
      /\ blocks[l].sum = c[k] - c[p] /\ blocks[l].count = k - p
      /\ blocks[L].sum = c[r] - c[k] /\ blocks[L].count = r - k
      /\ blocks[L].x = x[r]
      /\ \A j \in p..k : (c[j] - c[p]) * (k - p) >= (c[k] - c[p]) * (j - p)
      /\ \A j \in k..r : (c[j] - c[k]) * (r - k) >= (c[r] - c[k]) * (j - k)
  <2>1. l \in 1..L /\ L \in 1..L /\ L - 1 = l /\ l - 1 \in 0..L /\ l \in 0..L /\ L \in 0..L
    BY <1>0
  <2> HIDE DEF l, L
  <2> QED
    BY <1>2, <2>1
<1>6. ASSUME NEW t \in 1..(l - 1)
      PROVE  /\ d[t - 1] < d[t]
             /\ B[t].x = x[d[t]]
             /\ B[t].sum = c[d[t]] - c[d[t - 1]]
             /\ B[t].count = d[t] - d[t - 1]
             /\ \A j \in d[t - 1]..d[t] :
                  (c[j] - c[d[t - 1]]) * (d[t] - d[t - 1]) >= (c[d[t]] - c[d[t - 1]]) * (j - d[t - 1])
  <2>1. t \in 1..L /\ t \in 0..(l - 1) /\ t - 1 \in 0..(l - 1)
    BY <1>0
  <2>2. d[t] = e[t] /\ d[t - 1] = e[t - 1] /\ B[t] = blocks[t]
    BY <2>1, <1>1, <1>4
  <2> HIDE DEF l, L, d
  <2> QED
    BY <1>2, <2>1, <2>2
<1>7. /\ d[l - 1] < d[l]
      /\ B[l].x = x[d[l]]
      /\ B[l].sum = c[d[l]] - c[d[l - 1]]
      /\ B[l].count = d[l] - d[l - 1]
      /\ \A j \in d[l - 1]..d[l] :
           (c[j] - c[d[l - 1]]) * (d[l] - d[l - 1]) >= (c[d[l]] - c[d[l - 1]]) * (j - d[l - 1])
  <2>1. d[l] = r /\ d[l - 1] = p
    BY <1>0, <1>4
  <2>2. c[p] \in Int /\ c[k] \in Int /\ c[r] \in Int /\ p \in Int /\ k \in Int /\ r \in Int
    <3>1. p \in 0..m /\ k \in 0..m /\ r \in 0..m
      BY <1>5
    <3> HIDE DEF p, k, r
    <3> QED
      BY <3>1
  <2>3. \A j \in p..r : c[j] \in Int
    <3>1. p \in 0..m /\ r \in 0..m
      BY <1>5
    <3> HIDE DEF p, r
    <3>2. \A j \in p..r : j \in 0..m
      BY <3>1
    <3> QED
      BY <3>2
  <2>4. (c[k] - c[p]) * (r - k) > (c[r] - c[k]) * (k - p)
    BY <1>3, <1>5 DEF MeanAbove
  <2> HIDE DEF p, k, r, d, l, L
  <2>5. \A j \in p..r : (c[j] - c[p]) * (r - p) >= (c[r] - c[p]) * (j - p)
    BY ONLY <1>5, <2>2, <2>3, <2>4, MergePrefix
  <2>6. B[l].sum = c[r] - c[p] /\ B[l].count = r - p /\ p < r
    <3>1. B[l].sum = (c[k] - c[p]) + (c[r] - c[k]) /\ B[l].count = (k - p) + (r - k) /\ p < k /\ k < r
      BY <1>1, <1>5
    <3> QED
      BY ONLY <2>2, <3>1
  <2> QED
    BY <1>1, <1>5, <2>1, <2>5, <2>6
<1>8. \A t \in 1..l : t \in 1..(l - 1) \/ t = l
  BY <1>0
<1> HIDE DEF d, l, L, p, k, r
<1>9. Spans(c, x, m, B, d)
  BY <1>1, <1>4, <1>6, <1>7, <1>8 DEF Spans
<1> QED
  BY <1>9 DEF B, d, l, L

LEMMA BlockNumbers ==
  ASSUME NEW m \in Nat, NEW c, (\A j \in 0..m : c[j] \in Int), NEW x, NEW blocks \in Blocks, NEW e,
         Spans(c, x, m, blocks, e)
  PROVE  \A t \in 1..Len(blocks) :
           /\ e[t] \in 0..m /\ e[t - 1] \in 0..m /\ e[t - 1] < e[t]
           /\ c[e[t]] \in Int /\ c[e[t - 1]] \in Int
           /\ blocks[t].sum \in Int /\ blocks[t].sum = c[e[t]] - c[e[t - 1]]
           /\ blocks[t].count \in Nat \ {0} /\ blocks[t].count = e[t] - e[t - 1]
<1> SUFFICES ASSUME NEW t \in 1..Len(blocks)
             PROVE  /\ e[t] \in 0..m /\ e[t - 1] \in 0..m /\ e[t - 1] < e[t]
                    /\ c[e[t]] \in Int /\ c[e[t - 1]] \in Int
                    /\ blocks[t].sum \in Int /\ blocks[t].sum = c[e[t]] - c[e[t - 1]]
                    /\ blocks[t].count \in Nat \ {0} /\ blocks[t].count = e[t] - e[t - 1]
  OBVIOUS
<1>1. t \in 0..Len(blocks) /\ t - 1 \in 0..Len(blocks)
  BY DEF Blocks
<1>2. e[t] \in 0..m /\ e[t - 1] \in 0..m
  BY <1>1 DEF Spans
<1>3. e[t - 1] < e[t] /\ blocks[t].sum = c[e[t]] - c[e[t - 1]] /\ blocks[t].count = e[t] - e[t - 1]
  BY DEF Spans
<1>4. c[e[t]] \in Int /\ c[e[t - 1]] \in Int
  BY <1>2
<1>5. blocks[t].count \in Nat \ {0}
  BY <1>2, <1>3
<1> QED
  BY <1>2, <1>3, <1>4, <1>5

\* Merging from the end keeps the blocks' spans and leaves their means in order.
LEMMA PoolSpans ==
  ASSUME NEW m \in Nat, NEW c, (\A j \in 0..m : c[j] \in Int), NEW x
  PROVE  \A l \in Nat : \A blocks \in Blocks : \A e :
           Len(blocks) = l + 1 /\ Spans(c, x, m, blocks, e) /\ Rising(blocks, l)
             => /\ PoolAdjacent[blocks] \in Blocks
                /\ Rising(PoolAdjacent[blocks], Len(PoolAdjacent[blocks]))
                /\ \E d : Spans(c, x, m, PoolAdjacent[blocks], d)
<1> DEFINE Good(b) == b \in Blocks /\ Rising(b, Len(b)) /\ \E d : Spans(c, x, m, b, d)
           S == {l \in Nat : \A blocks \in Blocks : \A e :
                   Len(blocks) = l + 1 /\ Spans(c, x, m, blocks, e) /\ Rising(blocks, l)
                     => Good(PoolAdjacent[blocks])}
<1>1. ASSUME NEW l \in Nat, NEW blocks \in Blocks, NEW e, Len(blocks) = l + 1,
             Spans(c, x, m, blocks, e), Rising(blocks, l), ~Falls(blocks)
      PROVE  Good(PoolAdjacent[blocks])
  <2>1. PoolAdjacent[blocks] = blocks
    BY <1>1, PoolStep
  <2>2. ASSUME NEW t \in 1..(l + 1), NEW u \in 1..(l + 1), t < u PROVE ~MeanAbove(blocks[t], blocks[u])
    <3>1. CASE u < l + 1
      <4>1. t \in 1..l /\ u \in 1..l
        BY <2>2, <3>1
      <4> QED
        BY <1>1, <2>2, <4>1 DEF Rising
    <3>2. CASE u = l + 1
      <4>1. l \in 1..Len(blocks) /\ l + 1 \in 1..Len(blocks) /\ t \in 1..Len(blocks) /\ l \in 1..l /\ t \in 1..l /\ l >= 1
        BY <1>1, <2>2, <3>2
      <4>2. ~MeanAbove(blocks[l], blocks[l + 1])
        <5>1. Len(blocks) > 1 /\ Len(blocks) - 1 = l
          BY <1>1, <4>1
        <5> QED
          BY <1>1, <5>1 DEF Falls
      <4>3. CASE t = l
        BY <4>2, <4>3, <3>2
      <4>4. CASE t < l
        <5>1. ~MeanAbove(blocks[t], blocks[l])
          BY <1>1, <4>1, <4>4 DEF Rising
        <5>2. \A i \in 1..Len(blocks) : blocks[i].sum \in Int /\ blocks[i].count \in Nat \ {0}
          BY <1>1, BlockNumbers
        <5> DEFINE a == blocks[t].sum  b == blocks[l].sum  d == blocks[l + 1].sum
                   i == blocks[t].count  j == blocks[l].count  k == blocks[l + 1].count
        <5>3. a \in Int /\ b \in Int /\ d \in Int /\ i \in Nat \ {0} /\ j \in Nat \ {0} /\ k \in Nat \ {0}
          BY <4>1, <5>2
        <5>4. ~(a * j > b * i) /\ ~(b * k > d * j)
          BY <4>2, <5>1 DEF MeanAbove
        <5> HIDE DEF a, b, d, i, j, k
        <5>5. a * j <= b * i /\ b * k <= d * j
          BY <5>3, <5>4
        <5>6. a * k <= d * i
          BY ONLY <5>3, <5>5, MeanTransitive
        <5>7. ~(a * k > d * i)
          BY <5>3, <5>6
        <5> QED
          BY <5>7, <3>2 DEF MeanAbove, a, d, i, k
      <4> QED
        BY <2>2, <3>2, <4>1, <4>3, <4>4
    <3> QED
      BY <2>2, <3>1, <3>2
  <2>3. Rising(blocks, Len(blocks))
    BY <1>1, <2>2 DEF Rising
  <2> QED
    BY <1>1, <2>1, <2>3
<1>2. 0 \in S
  <2>1. ASSUME NEW blocks \in Blocks, NEW e, Len(blocks) = 0 + 1, Spans(c, x, m, blocks, e), Rising(blocks, 0)
        PROVE  Good(PoolAdjacent[blocks])
    <3>1. ~Falls(blocks)
      BY <2>1 DEF Falls
    <3> HIDE DEF Good
    <3> QED
      BY <1>1, <2>1, <3>1
  <2> HIDE DEF Good
  <2> QED
    BY <2>1
<1>3. ASSUME NEW l \in Nat, l \in S PROVE l + 1 \in S
  <2>1. ASSUME NEW blocks \in Blocks, NEW e, Len(blocks) = (l + 1) + 1, Spans(c, x, m, blocks, e), Rising(blocks, l + 1)
        PROVE  Good(PoolAdjacent[blocks])
    <3>1. CASE ~Falls(blocks)
      <4>1. l + 1 \in Nat
        OBVIOUS
      <4> HIDE DEF Good
      <4> QED
        BY <1>1, <2>1, <3>1, <4>1
    <3>2. CASE Falls(blocks)
      <4> DEFINE B == LastMerged(blocks)
      <4>1. /\ B \in Blocks /\ Len(B) = l + 1
            /\ \A t \in 1..l : B[t] = blocks[t]
        <5>1. Len(blocks) > 1
          BY <2>1
        <5>2. LastMerged(blocks) \in Blocks /\ Len(LastMerged(blocks)) = Len(blocks) - 1
              /\ \A t \in 1..(Len(blocks) - 2) : LastMerged(blocks)[t] = blocks[t]
          BY <5>1, MergedBlocks
        <5>3. Len(blocks) - 1 = l + 1 /\ Len(blocks) - 2 = l
          BY <2>1
        <5> QED
          BY <5>2, <5>3
      <4>2. Spans(c, x, m, B, Joins(e, Len(blocks) - 1))
        BY <2>1, <3>2, MergeSpans
      <4>3. Rising(B, l)
        <5> HIDE DEF B
        <5>1. \A t \in 1..l : t \in 1..(l + 1)
          OBVIOUS
        <5> QED
          BY <2>1, <4>1, <5>1 DEF Rising
      <4>4. PoolAdjacent[blocks] = PoolAdjacent[B]
        BY <3>2, PoolStep
      <4> HIDE DEF Good, B
      <4>5. Good(PoolAdjacent[B])
        BY <1>3, <4>1, <4>2, <4>3
      <4> QED
        BY <4>4, <4>5
    <3> QED
      BY <3>1, <3>2
  <2> HIDE DEF Good
  <2> QED
    BY <2>1
<1> HIDE DEF S
<1>4. Nat \subseteq S
  BY <1>2, <1>3, Induction
<1> QED
  BY <1>4 DEF S

-----------------------------------------------------------------------------
(* The fit, one row after the other.                                       *)

LEMMA GreatestNumber ==
  ASSUME NEW n \in Nat, NEW T \in SUBSET (1..n), T # {}
  PROVE  Max(T) \in T /\ \A t \in T : t <= Max(T)
<1> DEFINE S == {i \in Nat : \E t \in T : i = n - t}
<1>1. S # {} /\ S \subseteq Nat
  <2>1. PICK t \in T : TRUE
    OBVIOUS
  <2>2. n - t \in S
    BY <2>1
  <2> QED
    BY <2>2
<1>2. PICK i \in S : \A j \in S : i <= j
  BY <1>1, LeastNumber
<1>3. PICK t \in T : i = n - t
  BY <1>2
<1>4. \A u \in T : t >= u
  <2>1. ASSUME NEW u \in T PROVE t >= u
    <3>1. n - u \in S
      OBVIOUS
    <3> QED
      BY <1>2, <1>3, <3>1
  <2> QED
    BY <2>1
<1>5. Max(T) \in T /\ \A u \in T : Max(T) >= u
  BY <1>3, <1>4 DEF Max
<1> QED
  BY <1>5

Joined(s, blocks, i) ==
  PoolAdjacent[Append(blocks, [x |-> s[i].p, sum |-> IF s[i].y THEN 1 ELSE 0, count |-> 1])]

IsFit(g, s) ==
  g = [S \in SUBSET DOMAIN Ascending(s) |->
         IF S = {} THEN <<>> ELSE Joined(s, g[S \ {Max(S)}], Ascending(s)[Max(S)])]

LEMMA FitUnfolds == \A s : FitIsotonic(s) = (CHOOSE g : IsFit(g, s))[DOMAIN Ascending(s)]
BY DEF FitIsotonic, FoldLeft, MapThenFoldSet, IsFit, Joined

LEMMA FitExists ==
  ASSUME NEW s \in Scored
  PROVE  \E g : IsFit(g, s)
<1> DEFINE D == DOMAIN s
           Level(n) == {T \in SUBSET D : Cardinality(T) <= n}
           Next(g, T) == IF T = {} THEN <<>> ELSE Joined(s, g[T \ {Max(T)}], Ascending(s)[Max(T)])
           On(g, n) == \A T \in Level(n) : g[T] = Next(g, T)
           S == {n \in Nat : \E g : On(g, n)}
<1>0. D = 1..Len(s) /\ Len(s) \in Nat /\ \A T \in SUBSET D : IsFiniteSet(T) /\ Cardinality(T) \in Nat
  BY ScoredRows, FS_Subset, FS_CardinalityType
<1>a. \A T \in SUBSET D : T # {} => Cardinality(T \ {Max(T)}) = Cardinality(T) - 1 /\ Cardinality(T) # 0
  <2>1. ASSUME NEW T \in SUBSET D, T # {} PROVE Cardinality(T \ {Max(T)}) = Cardinality(T) - 1 /\ Cardinality(T) # 0
    <3>1. Max(T) \in T
      BY <1>0, <2>1, GreatestNumber
    <3> QED
      BY <1>0, <2>1, <3>1, FS_RemoveElement, FS_EmptySet
  <2> QED
    BY <2>1
<1>b. DOMAIN Ascending(s) = D
  BY AscendingOrder DEF InOrder
<1>1. 0 \in S
  <2>1. ASSUME NEW T \in Level(0) PROVE T = {}
    <3>1. Cardinality(T) = 0 /\ T \in SUBSET D
      BY <1>0
    <3> QED
      BY <3>1, <1>a
  <2>2. On([T \in Level(0) |-> <<>>], 0)
    BY <2>1
  <2> HIDE DEF On
  <2> QED
    BY <2>2
<1>2. ASSUME NEW n \in Nat, n \in S PROVE n + 1 \in S
  <2>1. PICK g : On(g, n)
    BY <1>2
  <2> DEFINE h == [T \in Level(n + 1) |-> Next(g, T)]
  <2>2. \A T \in Level(n + 1) : T # {} => T \ {Max(T)} \in Level(n)
    BY <1>a, <1>0
  <2>3. \A T \in Level(n) : T \in Level(n + 1)
    BY <1>0
  <2>4. \A T \in Level(n + 1) : h[T] = Next(g, T)
    OBVIOUS
  <2> HIDE DEF h
  <2>5. \A T \in Level(n) : h[T] = g[T]
    <3> HIDE DEF Next, Level
    <3> QED
      BY <2>1, <2>3, <2>4
  <2>6. ASSUME NEW T \in Level(n + 1) PROVE h[T] = Next(h, T)
    <3>1. CASE T = {}
      BY <2>4, <3>1
    <3>2. CASE T # {}
      <4>1. h[T \ {Max(T)}] = g[T \ {Max(T)}]
        BY <2>2, <2>5, <3>2
      <4> QED
        BY <2>4, <4>1
    <3> QED
      BY <3>1, <3>2
  <2> HIDE DEF Next, Level
  <2>7. On(h, n + 1)
    BY <2>6
  <2> HIDE DEF On
  <2> QED
    BY <2>7
<1> HIDE DEF S
<1>3. Cardinality(D) \in S
  BY <1>1, <1>2, Induction, <1>0
<1>4. PICK g : On(g, Cardinality(D))
  BY <1>3 DEF S
<1>5. \A T \in SUBSET D : T \in Level(Cardinality(D))
  BY <1>0, FS_Subset
<1> DEFINE fit == [T \in SUBSET D |-> g[T]]
<1>6. \A T \in SUBSET D : fit[T] = Next(fit, T)
  <2>1. ASSUME NEW T \in SUBSET D PROVE fit[T] = Next(fit, T)
    <3>1. g[T] = Next(g, T)
      <4> HIDE DEF Next, Level
      <4> QED
        BY <1>4, <1>5
    <3>2. fit[T] = g[T] /\ fit[T \ {Max(T)}] = g[T \ {Max(T)}]
      OBVIOUS
    <3> HIDE DEF fit
    <3> QED
      BY <3>1, <3>2
  <2> QED
    BY <2>1
<1>7. fit = [T \in SUBSET D |-> fit[T]]
  OBVIOUS
<1> HIDE DEF fit
<1>8. IsFit(fit, s)
  <2>1. fit = [T \in SUBSET D |-> Next(fit, T)]
    <3> HIDE DEF Next
    <3> QED
      BY <1>6, <1>7
  <2> QED
    BY <2>1, <1>b DEF IsFit
<1> QED
  BY <1>8

\* The positive rows among the first in the order of scores, and the scores in that order.
Counted(s) == [j \in 0..Len(s) |-> Cardinality({k \in 1..j : s[Ascending(s)[k]].y})]
Scores(s) == [k \in 1..Len(s) |-> s[Ascending(s)[k]].p]

LEMMA CountedBetween ==
  ASSUME NEW s \in Scored
  PROVE  /\ \A j \in 0..Len(s) : Counted(s)[j] \in Nat
         /\ Counted(s)[0] = 0
         /\ Counted(s)[Len(s)] = Cardinality(PositiveRows(s))
         /\ \A a \in 1..Len(s), b \in 0..Len(s) : a <= b + 1 =>
              Cardinality({k \in a..b : s[Ascending(s)[k]].y}) = Counted(s)[b] - Counted(s)[a - 1]
         /\ \A j \in 1..Len(s) :
              Counted(s)[j] = Counted(s)[j - 1] + (IF s[Ascending(s)[j]].y THEN 1 ELSE 0)
<1> DEFINE n == Len(s)
           row == Ascending(s)
           K == Places(s, row)
           In(a, b) == {k \in a..b : s[row[k]].y}
<1>0. DOMAIN s = 1..n /\ n \in Nat
  BY ScoredRows
<1>1. K \subseteq DOMAIN s /\ IsFiniteSet(K) /\ Cardinality(K) = Cardinality(PositiveRows(s))
  BY AscendingOrder, InOrderTakes, PlacesFound
<1>2. \A a \in 1..n, b \in 0..n : In(a, b) \subseteq K
  BY <1>0 DEF Places
<1>3. \A j \in 0..n : Counted(s)[j] = Cardinality(In(1, j))
  BY DEF Counted
<1>4. \A j \in 0..n : In(1, j) \subseteq K
  BY <1>0 DEF Places
<1>5. \A j \in 0..n : Counted(s)[j] \in Nat
  <2>1. ASSUME NEW j \in 0..n PROVE Cardinality(In(1, j)) \in Nat
    <3>1. In(1, j) \in SUBSET K /\ IsFiniteSet(K)
      BY <1>1, <1>4
    <3> HIDE DEF In, K
    <3> QED
      BY <3>1, FS_Subset, FS_CardinalityType
  <2> QED
    BY <1>3, <2>1
<1>6. Counted(s)[0] = 0
  <2>1. In(1, 0) = {}
    OBVIOUS
  <2> QED
    BY <1>0, <1>3, <2>1, FS_EmptySet
<1>7. Counted(s)[n] = Cardinality(PositiveRows(s))
  <2>1. In(1, n) = K
    BY <1>0 DEF Places
  <2> QED
    BY <1>0, <1>1, <1>3, <2>1
<1>8. ASSUME NEW a \in 1..n, NEW b \in 0..n, a <= b + 1
      PROVE  Cardinality(In(a, b)) = Counted(s)[b] - Counted(s)[a - 1]
  <2>1. a - 1 \in 0..n
    BY <1>0
  <2>2. In(1, b) = In(1, a - 1) \cup In(a, b) /\ In(1, a - 1) \cap In(a, b) = {}
    BY <1>0, <1>8
  <2>3. IsFiniteSet(K) /\ In(1, a - 1) \subseteq K /\ In(a, b) \subseteq K
    BY <1>1, <1>2, <1>4, <2>1
  <2> HIDE DEF In, K
  <2>4. Cardinality(In(1, a - 1) \cup In(a, b)) = Cardinality(In(1, a - 1)) + Cardinality(In(a, b))
        /\ Cardinality(In(1, a - 1)) \in Nat /\ Cardinality(In(a, b)) \in Nat
    BY ONLY <2>2, <2>3, SizeOfUnion
  <2>5. Counted(s)[b] = Cardinality(In(1, a - 1)) + Cardinality(In(a, b)) /\ Counted(s)[a - 1] = Cardinality(In(1, a - 1))
    BY <1>3, <2>1, <2>2, <2>4
  <2> QED
    BY ONLY <2>4, <2>5
<1>9. ASSUME NEW j \in 1..n
      PROVE  Counted(s)[j] = Counted(s)[j - 1] + (IF s[row[j]].y THEN 1 ELSE 0)
  <2>1. j \in 0..n /\ j - 1 \in 0..n /\ j <= j + 1
    BY <1>0
  <2>2. Cardinality(In(j, j)) = Counted(s)[j] - Counted(s)[j - 1]
    BY <1>8, <2>1
  <2>3. In(j, j) = IF s[row[j]].y THEN {j} ELSE {}
    BY <1>0
  <2>4. Cardinality(In(j, j)) = IF s[row[j]].y THEN 1 ELSE 0
    BY <2>3, FS_Singleton, FS_EmptySet
  <2>5. Counted(s)[j] \in Nat /\ Counted(s)[j - 1] \in Nat
    BY <1>5, <2>1
  <2> DEFINE u == Counted(s)[j]  v == Counted(s)[j - 1]
  <2>6. u - v = (IF s[row[j]].y THEN 1 ELSE 0) /\ u \in Nat /\ v \in Nat
    BY <2>2, <2>4, <2>5
  <2> HIDE DEF u, v
  <2>7. u = v + (IF s[row[j]].y THEN 1 ELSE 0)
    BY <2>6
  <2> QED
    BY <2>7 DEF u, v
<1> QED
  BY <1>5, <1>6, <1>7, <1>8, <1>9

\* One more row makes a block of its own.
LEMMA AppendSpans ==
  ASSUME NEW m \in Nat, NEW c, \A j \in 0..(m + 1) : c[j] \in Int, NEW x, NEW blocks \in Blocks, NEW e,
         Spans(c, x, m, blocks, e), Rising(blocks, Len(blocks)),
         NEW b \in [x : Int, sum : Int, count : Int],
         b.x = x[m + 1], b.sum = c[m + 1] - c[m], b.count = 1
  PROVE  /\ Append(blocks, b) \in Blocks /\ Len(Append(blocks, b)) = Len(blocks) + 1
         /\ Rising(Append(blocks, b), Len(blocks))
         /\ \E d : Spans(c, x, m + 1, Append(blocks, b), d)
<1> DEFINE R == [x : Int, sum : Int, count : Int]
           L == Len(blocks)
           B == Append(blocks, b)
           d == [t \in 0..(L + 1) |-> IF t = L + 1 THEN m + 1 ELSE e[t]]
<1>1. B \in Blocks /\ Len(B) = L + 1 /\ L \in Nat /\ (\A t \in 1..L : B[t] = blocks[t]) /\ B[L + 1] = b
  <2>1. blocks \in Seq(R)
    BY DEF Blocks
  <2> HIDE DEF R
  <2>2. b \in R
    BY DEF R
  <2>3. B \in Seq(R) /\ Len(B) = L + 1 /\ L \in Nat /\ (\A t \in 1..L : B[t] = blocks[t]) /\ B[L + 1] = b
    BY <2>1, <2>2
  <2> QED
    BY <2>3 DEF R, Blocks
<1> HIDE DEF B
<1>2. /\ e \in [0..L -> 0..m] /\ e[0] = 0 /\ e[L] = m
      /\ \A t \in 1..L :
           /\ e[t - 1] < e[t]
           /\ blocks[t].x = x[e[t]]
           /\ blocks[t].sum = c[e[t]] - c[e[t - 1]]
           /\ blocks[t].count = e[t] - e[t - 1]
           /\ \A j \in e[t - 1]..e[t] :
                (c[j] - c[e[t - 1]]) * (e[t] - e[t - 1]) >= (c[e[t]] - c[e[t - 1]]) * (j - e[t - 1])
  BY DEF Spans
<1>3. d \in [0..(L + 1) -> 0..(m + 1)] /\ d[0] = 0 /\ d[L + 1] = m + 1 /\ (\A t \in 0..L : d[t] = e[t])
  BY <1>1, <1>2
<1>4. ASSUME NEW t \in 1..L
      PROVE  /\ d[t - 1] < d[t]
             /\ B[t].x = x[d[t]]
             /\ B[t].sum = c[d[t]] - c[d[t - 1]]
             /\ B[t].count = d[t] - d[t - 1]
             /\ \A j \in d[t - 1]..d[t] :
                  (c[j] - c[d[t - 1]]) * (d[t] - d[t - 1]) >= (c[d[t]] - c[d[t - 1]]) * (j - d[t - 1])
  <2>1. t \in 0..L /\ t - 1 \in 0..L
    BY <1>1
  <2>2. d[t] = e[t] /\ d[t - 1] = e[t - 1] /\ B[t] = blocks[t]
    BY <2>1, <1>1, <1>3
  <2> HIDE DEF L, d
  <2> QED
    BY <1>2, <2>1, <2>2
<1>5. /\ d[L] < d[L + 1]
      /\ B[L + 1].x = x[d[L + 1]]
      /\ B[L + 1].sum = c[d[L + 1]] - c[d[L]]
      /\ B[L + 1].count = d[L + 1] - d[L]
      /\ \A j \in d[L]..d[L + 1] :
           (c[j] - c[d[L]]) * (d[L + 1] - d[L]) >= (c[d[L + 1]] - c[d[L]]) * (j - d[L])
  <2>1. d[L] = m /\ d[L + 1] = m + 1
    BY <1>1, <1>2, <1>3
  <2>2. c[m] \in Int /\ c[m + 1] \in Int
    OBVIOUS
  <2>3. ASSUME NEW j \in m..(m + 1) PROVE (c[j] - c[m]) * (m + 1 - m) >= (c[m + 1] - c[m]) * (j - m)
    <3>1. j = m \/ j = m + 1
      OBVIOUS
    <3>2. CASE j = m
      BY <2>2, <3>2
    <3>3. CASE j = m + 1
      BY <2>2, <3>3
    <3> QED
      BY <3>1, <3>2, <3>3
  <2> HIDE DEF d, L
  <2> QED
    BY <1>1, <2>1, <2>3
<1>6. Rising(B, L)
  BY <1>1 DEF Rising
<1>7. Spans(c, x, m + 1, B, d)
  <2>1. \A t \in 1..(L + 1) : t \in 1..L \/ (t = L + 1 /\ t - 1 = L)
    BY <1>1
  <2> HIDE DEF d, L
  <2>2. ASSUME NEW t \in 1..(L + 1)
        PROVE  /\ d[t - 1] < d[t]
               /\ B[t].x = x[d[t]]
               /\ B[t].sum = c[d[t]] - c[d[t - 1]]
               /\ B[t].count = d[t] - d[t - 1]
               /\ \A j \in d[t - 1]..d[t] :
                    (c[j] - c[d[t - 1]]) * (d[t] - d[t - 1]) >= (c[d[t]] - c[d[t - 1]]) * (j - d[t - 1])
    <3>1. CASE t \in 1..L
      BY <1>4, <3>1
    <3>2. CASE t = L + 1 /\ t - 1 = L
      BY <1>5, <3>2
    <3> QED
      BY <2>1, <3>1, <3>2
  <2>3. Len(B) = L + 1
    BY <1>1
  <2> QED
    BY <1>3, <2>2, <2>3 DEF Spans
<1> QED
  BY <1>1, <1>6, <1>7 DEF B

\* The fitted blocks span the rows in the order of scores, and their means rise.
LEMMA FitSpans ==
  ASSUME NEW s \in Scored
  PROVE  /\ FitIsotonic(s) \in Blocks
         /\ Rising(FitIsotonic(s), Len(FitIsotonic(s)))
         /\ \E e : Spans(Counted(s), Scores(s), Len(s), FitIsotonic(s), e)
<1> DEFINE n == Len(s)
           row == Ascending(s)
           c == Counted(s)
           x == Scores(s)
           fit == CHOOSE g : IsFit(g, s)
           Good(m, blocks) == blocks \in Blocks /\ Rising(blocks, Len(blocks)) /\ \E e : Spans(c, x, m, blocks, e)
           S == {m \in Nat : m <= n => Good(m, fit[1..m])}
<1>0. n \in Nat /\ DOMAIN s = 1..n /\ DOMAIN row = 1..n
      /\ \A k \in 1..n : row[k] \in 1..n /\ s[row[k]].p \in Int /\ s[row[k]].y \in BOOLEAN
  <2>1. n \in Nat /\ DOMAIN s = 1..n /\ \A i \in 1..n : s[i].p \in 0..ScoreMax /\ s[i].y \in BOOLEAN
    BY ScoredRows
  <2>2. DOMAIN row = 1..n /\ \A k \in 1..n : row[k] \in 1..n
    BY <2>1, AscendingOrder DEF InOrder
  <2>3. 0..ScoreMax \subseteq Int
    BY ScoreAssumption
  <2> HIDE DEF row, n
  <2> QED
    BY <2>1, <2>2, <2>3
<1>1. IsFit(fit, s)
  BY FitExists
<1>2. \A T \in SUBSET (1..n) :
        fit[T] = IF T = {} THEN <<>> ELSE Joined(s, fit[T \ {Max(T)}], row[Max(T)])
  <2> HIDE DEF fit, n, row
  <2> QED
    BY <1>0, <1>1 DEF IsFit, row
<1> HIDE DEF fit
<1>3. fit[1..0] = <<>>
  <2>1. 1..0 = {} /\ {} \in SUBSET (1..n)
    OBVIOUS
  <2> QED
    BY <1>2, <2>1
<1>4. ASSUME NEW m \in Nat, m + 1 <= n
      PROVE  fit[1..(m + 1)] = Joined(s, fit[1..m], row[m + 1])
  <2> DEFINE T == 1..(m + 1)
  <2>1. T \in SUBSET (1..n) /\ T # {}
    <3>1. m + 1 \in T /\ \A t \in T : t \in 1..n
      BY <1>0, <1>4
    <3> QED
      BY <3>1
  <2>2. Max(T) \in T /\ \A t \in T : t <= Max(T)
    <3> HIDE DEF T
    <3> QED
      BY <1>0, <2>1, GreatestNumber
  <2>3. Max(T) = m + 1
    BY <2>2
  <2>4. T \ {m + 1} = 1..m
    OBVIOUS
  <2> HIDE DEF T
  <2>5. fit[T] = Joined(s, fit[1..m], row[m + 1])
    BY <1>2, <2>1, <2>3, <2>4
  <2> QED
    BY <2>5 DEF T
<1>5. /\ \A j \in 0..n : c[j] \in Int
      /\ \A j \in 1..n : c[j] - c[j - 1] = (IF s[row[j]].y THEN 1 ELSE 0) /\ x[j] = s[row[j]].p
  <2>1. /\ \A j \in 0..n : c[j] \in Nat
        /\ \A j \in 1..n : c[j] = c[j - 1] + (IF s[row[j]].y THEN 1 ELSE 0)
    BY CountedBetween
  <2>2. \A j \in 1..n : x[j] = s[row[j]].p
    BY DEF Scores
  <2> HIDE DEF c, x, row
  <2>3. ASSUME NEW j \in 1..n PROVE c[j] - c[j - 1] = (IF s[row[j]].y THEN 1 ELSE 0)
    <3>1. j - 1 \in 0..n
      BY <1>0
    <3>2. c[j - 1] \in Nat /\ c[j] = c[j - 1] + (IF s[row[j]].y THEN 1 ELSE 0)
      BY <2>1, <3>1
    <3> QED
      BY <3>2
  <2> QED
    BY <2>1, <2>2, <2>3
<1>6. 0 \in S
  <2>1. <<>> \in Blocks /\ Len(<<>>) = 0
    BY DEF Blocks
  <2>2. Rising(<<>>, 0)
    BY DEF Rising
  <2>3. Spans(c, x, 0, <<>>, [t \in 0..0 |-> 0])
    BY DEF Spans
  <2> QED
    BY <1>3, <2>1, <2>2, <2>3
<1>7. ASSUME NEW m \in Nat, m \in S PROVE m + 1 \in S
  <2> SUFFICES ASSUME m + 1 <= n PROVE Good(m + 1, fit[1..(m + 1)])
    OBVIOUS
  <2> DEFINE blocks == fit[1..m]
             i == row[m + 1]
             b == [x |-> s[i].p, sum |-> IF s[i].y THEN 1 ELSE 0, count |-> 1]
  <2>1. Good(m, blocks)
    BY <1>0, <1>7
  <2>2. m \in 0..n /\ m + 1 \in 1..n /\ (m + 1) - 1 = m /\ \A j \in 0..(m + 1) : j \in 0..n
    BY <1>0
  <2>3. fit[1..(m + 1)] = PoolAdjacent[Append(blocks, b)]
    BY <1>4 DEF Joined
  <2>4. b \in [x : Int, sum : Int, count : Int] /\ b.x = x[m + 1] /\ b.sum = c[m + 1] - c[m] /\ b.count = 1
    <3>1. s[i].p \in Int /\ x[m + 1] = s[i].p /\ c[m + 1] - c[m] = (IF s[i].y THEN 1 ELSE 0)
      BY <1>0, <1>5, <2>2
    <3> HIDE DEF x, c, i
    <3> QED
      BY <3>1
  <2>5. \A j \in 0..(m + 1) : c[j] \in Int
    BY <1>5, <2>2
  <2>6. PICK e : Spans(c, x, m, blocks, e)
    BY <2>1
  <2>7. blocks \in Blocks /\ Rising(blocks, Len(blocks)) /\ m + 1 \in Nat /\ Len(blocks) \in Nat
    BY <2>1 DEF Blocks
  <2> HIDE DEF b, blocks, c, x
  <2>8. /\ Append(blocks, b) \in Blocks /\ Len(Append(blocks, b)) = Len(blocks) + 1
        /\ Rising(Append(blocks, b), Len(blocks))
        /\ \E d : Spans(c, x, m + 1, Append(blocks, b), d)
    BY ONLY m \in Nat, <2>4, <2>5, <2>6, <2>7, AppendSpans
  <2>9. Good(m + 1, PoolAdjacent[Append(blocks, b)])
    BY ONLY <2>5, <2>7, <2>8, PoolSpans
  <2> QED
    BY <2>3, <2>9
<1> HIDE DEF S
<1>8. n \in S
  BY <1>0, <1>6, <1>7, Induction
<1>9. FitIsotonic(s) = fit[1..n]
  BY <1>0, FitUnfolds DEF fit
<1> QED
  BY <1>0, <1>8, <1>9 DEF S

LEMMA SumTelescopes ==
  ASSUME NEW l \in Nat, NEW a, (\A t \in 0..l : a[t] \in Int), NEW f, (\A t \in 1..l : f[t] = a[t] - a[t - 1])
  PROVE  SumFunctionOnSet(f, 1..l) = a[l] - a[0]
<1> DEFINE F(T) == SumFunctionOnSet(f, T)
           S == {m \in Nat : m <= l => F(1..m) = a[m] - a[0]}
<1>1. \A t \in 1..l : f[t] \in Int
  <2>1. ASSUME NEW t \in 1..l PROVE f[t] \in Int
    <3>1. t \in 0..l /\ t - 1 \in 0..l
      OBVIOUS
    <3>2. a[t] \in Int /\ a[t - 1] \in Int /\ f[t] = a[t] - a[t - 1]
      BY <3>1
    <3> QED
      BY <3>2
  <2> QED
    BY <2>1
<1>2. /\ F({}) = 0
      /\ \A T \in SUBSET (1..l), x \in 1..l : x \notin T => F(T \cup {x}) = f[x] + F(T)
  <2>1. Sums(f, 1..l)
    BY <1>1, Interval, SumLaws
  <2> QED
    BY <2>1 DEF Sums
<1> HIDE DEF F
<1>3. 0 \in S
  <2>1. 1..0 = {} /\ a[0] \in Int
    OBVIOUS
  <2> QED
    BY <1>2, <2>1
<1>4. ASSUME NEW m \in Nat, m \in S PROVE m + 1 \in S
  <2> SUFFICES ASSUME m + 1 <= l PROVE F(1..(m + 1)) = a[m + 1] - a[0]
    OBVIOUS
  <2>1. F(1..m) = a[m] - a[0]
    BY <1>4
  <2>2. m + 1 \in 1..l /\ m + 1 \notin 1..m /\ 1..(m + 1) = (1..m) \cup {m + 1} /\ (m + 1) - 1 = m
    OBVIOUS
  <2>3. 1..m \in SUBSET (1..l)
    OBVIOUS
  <2>4. F(1..(m + 1)) = f[m + 1] + F(1..m)
    BY <1>2, <2>2, <2>3
  <2>5. f[m + 1] = a[m + 1] - a[m]
    BY <2>2
  <2>6. a[m + 1] \in Int /\ a[m] \in Int /\ a[0] \in Int
    OBVIOUS
  <2> QED
    BY ONLY <2>1, <2>4, <2>5, <2>6
<1> HIDE DEF S
<1>5. l \in S
  BY <1>3, <1>4, Induction
<1> QED
  BY <1>5 DEF S, F

\* The calibrated scores keep the number of positive rows.
LEMMA PositivesKept ==
  ASSUME NEW s \in Scored
  PROVE  SumFunction([k \in DOMAIN FitIsotonic(s) |-> FitIsotonic(s)[k].sum]) = Cardinality(PositiveRows(s))
<1> DEFINE n == Len(s)
           c == Counted(s)
           x == Scores(s)
           blocks == FitIsotonic(s)
           l == Len(blocks)
           f == [k \in DOMAIN blocks |-> blocks[k].sum]
<1>1. n \in Nat /\ (\A j \in 0..n : c[j] \in Int) /\ c[0] = 0 /\ c[n] = Cardinality(PositiveRows(s)) /\ c[n] \in Int
  <2>1. n \in Nat
    BY ScoredRows
  <2>2. (\A j \in 0..n : c[j] \in Nat) /\ c[0] = 0 /\ c[n] = Cardinality(PositiveRows(s))
    BY CountedBetween
  <2> HIDE DEF c, n
  <2> QED
    BY <2>1, <2>2
<1>2. blocks \in Blocks
  BY FitSpans
<1>3. PICK e : Spans(c, x, n, blocks, e)
  BY FitSpans
<1>4. l \in Nat /\ DOMAIN blocks = 1..l
  BY <1>2 DEF Blocks
<1> DEFINE a == [t \in 0..l |-> c[e[t]]]
<1>5. e \in [0..l -> 0..n] /\ e[0] = 0 /\ e[l] = n /\ \A t \in 1..l : blocks[t].sum = c[e[t]] - c[e[t - 1]]
  BY <1>3 DEF Spans
<1> HIDE DEF c, x, blocks, n
<1>6. \A t \in 0..l : a[t] \in Int
  BY <1>1, <1>5
<1>7. \A t \in 1..l : f[t] = a[t] - a[t - 1]
  <2>1. \A t \in 1..l : t \in 0..l /\ t - 1 \in 0..l
    BY <1>4
  <2> QED
    BY <1>4, <1>5, <2>1
<1>8. a[l] = c[n] /\ a[0] = 0
  BY <1>1, <1>4, <1>5
<1>9. DOMAIN f = 1..l
  BY <1>4
<1> HIDE DEF a, f, l
<1>10. SumFunctionOnSet(f, 1..l) = a[l] - a[0]
  BY <1>4, <1>6, <1>7, SumTelescopes
<1>11. SumFunction(f) = c[n]
  BY <1>1, <1>8, <1>9, <1>10 DEF SumFunction
<1> QED
  BY <1>1, <1>11 DEF f, blocks

LEMMA SomeBlock ==
  ASSUME NEW s \in Scored, s # <<>>, NEW e, Spans(Counted(s), Scores(s), Len(s), FitIsotonic(s), e)
  PROVE  Len(s) \in Nat \ {0} /\ Len(FitIsotonic(s)) \in Nat \ {0} /\ DOMAIN FitIsotonic(s) = 1..Len(FitIsotonic(s))
<1>1. Len(s) \in Nat \ {0}
  <2>1. Len(s) \in Nat /\ DOMAIN s = 1..Len(s)
    BY ScoredRows
  <2>2. Len(s) # 0
    BY EmptySeq DEF Scored
  <2> QED
    BY <2>1, <2>2
<1>2. Len(FitIsotonic(s)) \in Nat /\ DOMAIN FitIsotonic(s) = 1..Len(FitIsotonic(s))
  BY FitSpans DEF Blocks
<1>3. e[0] = 0 /\ e[Len(FitIsotonic(s))] = Len(s)
  BY DEF Spans
<1> QED
  BY <1>1, <1>2, <1>3

LEMMA ScoresAscend ==
  ASSUME NEW s \in Scored
  PROVE  /\ \A k \in 1..Len(s) : Scores(s)[k] \in Nat /\ Scores(s)[k] = s[Ascending(s)[k]].p
         /\ \A k, l \in 1..Len(s) : k <= l => Scores(s)[k] <= Scores(s)[l]
         /\ Distinct(s) => \A k, l \in 1..Len(s) : k < l => Scores(s)[k] < Scores(s)[l]
<1> DEFINE n == Len(s)
           row == Ascending(s)
           x == Scores(s)
<1>0. n \in Nat /\ DOMAIN s = 1..n /\ \A i \in 1..n : s[i].p \in Nat
  BY ScoredRows, ScoreAssumption
<1>1. /\ row \in [1..n -> 1..n]
      /\ \A k, l \in 1..n : row[k] = row[l] => k = l
      /\ \A k, l \in 1..n : k < l => <<row[k], row[l]>> \in AscendingPairs(s)
  BY <1>0, AscendingOrder DEF InOrder
<1>2. \A k \in 1..n : x[k] = s[row[k]].p
  BY DEF Scores
<1> HIDE DEF n, row, x
<1>3. \A k, l \in 1..n : k < l => s[row[k]].p <= s[row[l]].p
  <2>1. ASSUME NEW k \in 1..n, NEW l \in 1..n, k < l PROVE s[row[k]].p <= s[row[l]].p
    <3>1. row[k] \in 1..n /\ row[l] \in 1..n /\ <<row[k], row[l]>> \in AscendingPairs(s)
      BY <1>1, <2>1
    <3>2. s[row[k]].p < s[row[l]].p \/ s[row[k]].p = s[row[l]].p
      BY <3>1 DEF AscendingPairs
    <3> QED
      BY <1>0, <3>1, <3>2
  <2> QED
    BY <2>1
<1>4. \A k \in 1..n : x[k] \in Nat
  BY <1>0, <1>1, <1>2
<1>5. ASSUME NEW k \in 1..n, NEW l \in 1..n, k <= l PROVE x[k] <= x[l]
  <2>1. CASE k = l
    BY <1>4, <2>1
  <2>2. CASE k < l
    BY <1>2, <1>3, <2>2
  <2> QED
    BY <1>0, <1>5, <2>1, <2>2
<1>6. ASSUME Distinct(s), NEW k \in 1..n, NEW l \in 1..n, k < l PROVE x[k] < x[l]
  <2>1. row[k] # row[l] /\ row[k] \in DOMAIN s /\ row[l] \in DOMAIN s
    BY <1>0, <1>1, <1>6
  <2>2. x[k] # x[l]
    BY <1>2, <1>6, <2>1 DEF Distinct
  <2>3. x[k] <= x[l]
    BY <1>2, <1>3, <1>6
  <2> QED
    BY <1>4, <2>2, <2>3
<1> QED
  BY <1>2, <1>4, <1>5, <1>6 DEF n, row, x

-----------------------------------------------------------------------------
(* The calibrated score of a row is the mean of its block.                 *)

\* Where the blocks of a sample end.
Ends(s, e) == Spans(Counted(s), Scores(s), Len(s), FitIsotonic(s), e)

\* The block that gives a row its calibrated score.
Gives(s, e, k, t) ==
  /\ t \in 1..Len(FitIsotonic(s))
  /\ ApplyIsotonic(Scores(s)[k], FitIsotonic(s)) = FitIsotonic(s)[t]
  /\ Scores(s)[k] <= Scores(s)[e[t]]
  /\ \A u \in 1..Len(FitIsotonic(s)) : Scores(s)[k] <= Scores(s)[e[u]] => t <= u

LEMMA LeastReached ==
  ASSUME NEW l \in Nat, NEW T \in SUBSET (1..l), T # {}
  PROVE  Min(T) \in T /\ \A t \in T : Min(T) <= t
<1>1. T \subseteq Nat
  OBVIOUS
<1>2. PICK t \in T : \A u \in T : t <= u
  BY <1>1, LeastNumber
<1> QED
  BY <1>2 DEF Min

LEMMA BlockOfRow ==
  ASSUME NEW s \in Scored, s # <<>>, NEW e, Ends(s, e), NEW k \in 1..Len(s)
  PROVE  \E t : Gives(s, e, k, t)
<1> DEFINE n == Len(s)
           x == Scores(s)
           blocks == FitIsotonic(s)
           l == Len(blocks)
           T == {t \in DOMAIN blocks : x[k] <= blocks[t].x}
<1>1. n \in Nat \ {0} /\ l \in Nat \ {0} /\ DOMAIN blocks = 1..l
  BY SomeBlock DEF Ends
<1>2. e[l] = n /\ \A t \in 1..l : blocks[t].x = x[e[t]]
  BY DEF Ends, Spans
<1>3. x[k] <= x[n]
  <2>1. n \in 1..n /\ k <= n
    BY <1>1
  <2> HIDE DEF x
  <2> QED
    BY <2>1, ScoresAscend DEF x
<1>4. l \in T /\ T \in SUBSET (1..l)
  <2> HIDE DEF x, n, blocks
  <2>1. l \in 1..l
    BY <1>1
  <2> HIDE DEF l
  <2> QED
    BY <1>1, <1>2, <1>3, <2>1
<1>5. ApplyIsotonic(x[k], blocks) = blocks[Min(T)]
  <2>1. ApplyIsotonic(x[k], blocks) = blocks[IF T = {} THEN l ELSE Min(T)]
    BY DEF ApplyIsotonic
  <2> HIDE DEF T, x, blocks, l
  <2> QED
    BY <1>4, <2>1
<1>6. Min(T) \in T /\ \A t \in T : Min(T) <= t
  <2> HIDE DEF T, l
  <2> QED
    BY <1>1, <1>4, LeastReached
<1>7. Min(T) \in 1..l /\ x[k] <= x[e[Min(T)]] /\ \A u \in 1..l : x[k] <= x[e[u]] => Min(T) <= u
  <2> HIDE DEF x, blocks, n, l
  <2> QED
    BY <1>1, <1>2, <1>6
<1> QED
  BY <1>5, <1>7 DEF Gives

\* The calibrated scores never decrease.
LEMMA CalibratedRise ==
  ASSUME NEW s \in Scored, s # <<>>, NEW k \in 1..Len(s), k + 1 \in 1..Len(s)
  PROVE  ~MeanAbove(ApplyIsotonic(Scores(s)[k], FitIsotonic(s)), ApplyIsotonic(Scores(s)[k + 1], FitIsotonic(s)))
<1> DEFINE x == Scores(s)
           blocks == FitIsotonic(s)
           l == Len(blocks)
           n == Len(s)
<1>1. PICK e : Ends(s, e)
  BY FitSpans DEF Ends
<1>2. PICK t : Gives(s, e, k, t)
  BY <1>1, BlockOfRow
<1>3. PICK u : Gives(s, e, k + 1, u)
  BY <1>1, BlockOfRow
<1>4. /\ t \in 1..l /\ u \in 1..l
      /\ ApplyIsotonic(x[k], blocks) = blocks[t] /\ ApplyIsotonic(x[k + 1], blocks) = blocks[u]
      /\ x[k + 1] <= x[e[u]]
      /\ x[k] <= x[e[u]] => t <= u
  BY <1>2, <1>3 DEF Gives
<1>5. x[k] <= x[k + 1] /\ x[k] \in Nat /\ x[k + 1] \in Nat
  <2>1. k <= k + 1
    OBVIOUS
  <2> QED
    BY <2>1, ScoresAscend
<1>6. e[u] \in 1..n
  <2>1. e[u] \in 0..n /\ e[u - 1] \in 0..n /\ e[u - 1] < e[u]
    <3>1. e \in [0..l -> 0..n] /\ e[u - 1] < e[u]
      BY <1>1, <1>4 DEF Ends, Spans
    <3>2. u \in 0..l /\ u - 1 \in 0..l
      BY <1>4
    <3> HIDE DEF l, n
    <3> QED
      BY <3>1, <3>2
  <2> HIDE DEF n
  <2> QED
    BY <2>1
<1>7. x[e[u]] \in Nat
  BY <1>6, ScoresAscend
<1>8. t <= u
  <2> HIDE DEF x
  <2> QED
    BY <1>4, <1>5, <1>7
<1>9. ~MeanAbove(blocks[t], blocks[u])
  <2>1. CASE t = u
    <3>1. blocks[t].sum \in Int /\ blocks[t].count \in Int
      <4> DEFINE R == [x : Int, sum : Int, count : Int]
      <4>1. blocks \in Seq(R)
        BY FitSpans DEF Blocks
      <4>2. blocks[t] \in R
        <5> HIDE DEF R, blocks
        <5> QED
          BY <1>4, <4>1 DEF l
      <4> QED
        BY <4>2
    <3>2. ~(blocks[t].sum * blocks[t].count > blocks[t].sum * blocks[t].count)
      <4> DEFINE z == blocks[t].sum * blocks[t].count
      <4>1. z \in Int
        BY <3>1
      <4> HIDE DEF z
      <4>2. ~(z > z)
        BY <4>1
      <4> QED
        BY <4>2 DEF z
    <3> QED
      BY <2>1, <3>2 DEF MeanAbove
  <2>2. CASE t < u
    <3>1. Rising(blocks, l)
      BY FitSpans
    <3> QED
      BY <1>4, <2>2, <3>1 DEF Rising
  <2> QED
    BY <1>4, <1>8, <2>1, <2>2
<1> QED
  BY <1>4, <1>9

\* With distinct scores a row lies in the block that gives its calibrated score.
LEMMA RowInBlock ==
  ASSUME NEW s \in Scored, s # <<>>, Distinct(s), NEW e, Ends(s, e), NEW k \in 1..Len(s), NEW t, Gives(s, e, k, t)
  PROVE  e[t - 1] < k /\ k <= e[t] /\ e[t] \in 1..Len(s) /\ e[t - 1] \in 0..Len(s)
<1> DEFINE x == Scores(s)
           blocks == FitIsotonic(s)
           l == Len(blocks)
           n == Len(s)
<1>1. /\ t \in 1..l /\ x[k] <= x[e[t]]
      /\ \A u \in 1..l : x[k] <= x[e[u]] => t <= u
  BY DEF Gives
<1>2. e \in [0..l -> 0..n] /\ e[0] = 0 /\ \A u \in 1..l : e[u - 1] < e[u]
  BY DEF Ends, Spans
<1>3. n \in Nat \ {0} /\ l \in Nat \ {0}
  BY SomeBlock DEF Ends
<1>4. \A i \in 1..n : x[i] \in Nat
  BY ScoresAscend
<1>5. \A i, j \in 1..n : i < j => x[i] < x[j]
  BY ScoresAscend
<1>6. \A i, j \in 1..n : i <= j => x[i] <= x[j]
  BY ScoresAscend
<1> HIDE DEF x, blocks, n
<1>7. \A u \in 0..l : e[u] \in 0..n
  BY <1>2
<1>8. \A u \in 1..l : u \in 0..l /\ u - 1 \in 0..l
  BY <1>3
<1>9. \A u \in 1..l : e[u] \in 1..n
  <2>1. ASSUME NEW u \in 1..l PROVE e[u] \in 1..n
    <3>1. e[u] \in 0..n /\ e[u - 1] \in 0..n /\ e[u - 1] < e[u]
      BY <1>2, <1>7, <1>8
    <3> QED
      BY <1>3, <3>1
  <2> QED
    BY <2>1
<1>10. k \in 1..n
  BY DEF n
<1>11. k <= e[t]
  <2>1. SUFFICES ASSUME e[t] < k PROVE FALSE
    <3>1. e[t] \in 1..n
      BY <1>1, <1>9
    <3> QED
      BY <1>10, <3>1
  <2>2. e[t] \in 1..n
    BY <1>1, <1>9
  <2>3. x[e[t]] < x[k] /\ x[e[t]] \in Nat /\ x[k] \in Nat
    BY <1>4, <1>5, <1>10, <2>1, <2>2
  <2> QED
    BY <1>1, <2>3
<1>12. e[t - 1] < k
  <2>1. CASE t = 1
    BY <1>2, <1>10, <2>1
  <2>2. CASE t # 1
    <3>1. t - 1 \in 1..l /\ ~(t <= t - 1)
      BY <1>1, <1>3, <2>2
    <3>2. e[t - 1] \in 1..n
      BY <1>9, <3>1
    <3>3. ~(x[k] <= x[e[t - 1]])
      BY <1>1, <3>1
    <3>4. ~(k <= e[t - 1])
      BY <1>6, <1>10, <3>2, <3>3
    <3> QED
      BY <1>10, <3>2, <3>4
  <2> QED
    BY <2>1, <2>2
<1> QED
  BY <1>1, <1>7, <1>8, <1>9, <1>11, <1>12 DEF n

-----------------------------------------------------------------------------
(* Whatever begins where a block begins has at least its mean, and whatever*)
(* ends where it ends at most: the max-min formula.                        *)

LEMMA MeanAtLeast ==
  ASSUME NEW a \in Int, NEW m \in Nat \ {0}, NEW b \in Int, NEW q \in Nat \ {0}, a * q <= b * m,
         NEW d \in Int, NEW i \in Nat, d * q >= b * i
  PROVE  d * m >= a * i
<1>1. (d * q) * m >= (b * i) * m
  <2>1. d * q \in Int /\ b * i \in Int /\ (d * q - b * i) >= 0
    OBVIOUS
  <2>2. (d * q - b * i) * m >= 0
    BY ONLY <2>1, m \in Nat \ {0}, Product
  <2>3. (d * q - b * i) * m = (d * q) * m - (b * i) * m
    OBVIOUS
  <2> QED
    BY <2>2, <2>3
<1>2. (b * m) * i >= (a * q) * i
  <2>1. a * q \in Int /\ b * m \in Int /\ b * m - a * q >= 0
    OBVIOUS
  <2>2. (b * m - a * q) * i >= 0
    BY ONLY <2>1, i \in Nat, Product
  <2>3. (b * m - a * q) * i = (b * m) * i - (a * q) * i
    OBVIOUS
  <2> QED
    BY <2>2, <2>3
<1>3. (d * q) * m = q * (d * m) /\ (a * q) * i = q * (a * i) /\ (b * i) * m = (b * m) * i
  OBVIOUS
<1>4. q * (d * m - a * i) >= 0 /\ d * m - a * i \in Int
  <2>1. q * (d * m - a * i) = q * (d * m) - q * (a * i)
    OBVIOUS
  <2> DEFINE u == q * (d * m)  v == q * (a * i)  w == (b * m) * i
  <2>2. u \in Int /\ v \in Int /\ w \in Int /\ u >= w /\ w >= v
    BY <1>1, <1>2, <1>3
  <2> HIDE DEF u, v, w
  <2>3. u - v >= 0
    BY <2>2
  <2> QED
    BY <2>1, <2>3 DEF u, v
<1>5. d * m - a * i >= 0
  <2> DEFINE z == d * m - a * i
  <2>1. z \in Int /\ q * z >= 0
    BY <1>4
  <2> HIDE DEF z
  <2>2. z >= 0
    BY <2>1, Cancel
  <2> QED
    BY <2>2 DEF z
<1> QED
  BY <1>5

LEMMA MeanAtMost ==
  ASSUME NEW a \in Int, NEW m \in Nat \ {0}, NEW b \in Int, NEW q \in Nat \ {0}, a * q >= b * m,
         NEW d \in Int, NEW i \in Nat, d * q <= b * i
  PROVE  d * m <= a * i
<1>1. -a \in Int /\ -b \in Int /\ -d \in Int
  OBVIOUS
<1>2. (-a) * q <= (-b) * m /\ (-d) * q >= (-b) * i
  <2>1. (-a) * q = -(a * q) /\ (-b) * m = -(b * m) /\ (-d) * q = -(d * q) /\ (-b) * i = -(b * i)
    OBVIOUS
  <2> QED
    BY <2>1
<1>3. (-d) * m >= (-a) * i
  BY ONLY <1>1, <1>2, m \in Nat \ {0}, q \in Nat \ {0}, i \in Nat, MeanAtLeast
<1>4. (-d) * m = -(d * m) /\ (-a) * i = -(a * i)
  OBVIOUS
<1> QED
  BY <1>3, <1>4

LEMMA SumAtLeast ==
  ASSUME NEW a \in Int, NEW m \in Int, NEW d \in Int, NEW g \in Int, NEW i \in Int, NEW j \in Int,
         d * m >= a * i, g * m >= a * j
  PROVE  (d + g) * m >= a * (i + j)
<1>1. (d + g) * m = d * m + g * m /\ a * (i + j) = a * i + a * j
  OBVIOUS
<1> QED
  BY <1>1

LEMMA SumAtMost ==
  ASSUME NEW a \in Int, NEW m \in Int, NEW d \in Int, NEW g \in Int, NEW i \in Int, NEW j \in Int,
         d * m <= a * i, g * m <= a * j
  PROVE  (d + g) * m <= a * (i + j)
<1>1. (d + g) * m = d * m + g * m /\ a * (i + j) = a * i + a * j
  OBVIOUS
<1> QED
  BY <1>1

\* What is left of a block after a prefix is at most its mean.
LEMMA Suffix ==
  ASSUME NEW a \in Int, NEW m \in Nat \ {0}, NEW d \in Int, NEW i \in Int, d * m >= a * i
  PROVE  (a - d) * m <= a * (m - i)
<1>1. (a - d) * m = a * m - d * m /\ a * (m - i) = a * m - a * i
  OBVIOUS
<1> QED
  BY <1>1

\* Counts over the blocks' ends, with rising means.
Profile(c, e, l, n) ==
  /\ \A j \in 0..n : c[j] \in Int
  /\ \A t \in 1..l :
       /\ e[t] \in 0..n /\ e[t - 1] \in 0..n /\ e[t - 1] < e[t]
       /\ \A j \in e[t - 1]..e[t] :
            (c[j] - c[e[t - 1]]) * (e[t] - e[t - 1]) >= (c[e[t]] - c[e[t - 1]]) * (j - e[t - 1])
  /\ \A t, u \in 1..l : t < u =>
       (c[e[t]] - c[e[t - 1]]) * (e[u] - e[u - 1]) <= (c[e[u]] - c[e[u - 1]]) * (e[t] - e[t - 1])

\* From where a block begins, no mean is below its own.
LEMMA ProfileAfter ==
  ASSUME NEW n \in Nat, NEW l \in Nat, NEW c, NEW e, Profile(c, e, l, n), NEW t \in 1..l
  PROVE  \A j \in e[t - 1]..e[l] :
           (c[j] - c[e[t - 1]]) * (e[t] - e[t - 1]) >= (c[e[t]] - c[e[t - 1]]) * (j - e[t - 1])
<1> DEFINE p == e[t - 1]
           m == e[t] - e[t - 1]
           a == c[e[t]] - c[e[t - 1]]
           Above(r) == p <= r /\ \A j \in p..r : (c[j] - c[p]) * m >= a * (j - p)
           S == {u \in Nat : t <= u /\ u <= l => Above(e[u])}
<1>0. /\ p \in 0..n /\ e[t] \in 0..n /\ p < e[t] /\ m \in Nat \ {0} /\ a \in Int /\ c[p] \in Int
      /\ Above(e[t])
  <2>1. e[t] \in 0..n /\ e[t - 1] \in 0..n /\ e[t - 1] < e[t]
    BY DEF Profile
  <2>2. c[e[t]] \in Int /\ c[e[t - 1]] \in Int
    BY <2>1 DEF Profile
  <2>3. \A j \in p..e[t] : (c[j] - c[p]) * m >= a * (j - p)
    BY DEF Profile
  <2> QED
    BY <2>1, <2>2, <2>3
<1>1. 0 \in S
  OBVIOUS
<1>2. ASSUME NEW u \in Nat, u \in S PROVE u + 1 \in S
  <2> SUFFICES ASSUME t <= u + 1, u + 1 <= l PROVE Above(e[u + 1])
    OBVIOUS
  <2>1. CASE t = u + 1
    BY <1>0, <2>1
  <2>2. CASE t <= u
    <3> DEFINE k == e[u]
               r == e[u + 1]
               q == r - k
               b == c[r] - c[k]
    <3>1. Above(k)
      BY <1>2, <2>2
    <3>2. u + 1 \in 1..l /\ (u + 1) - 1 = u /\ t < u + 1
      BY <2>2
    <3>3. k \in 0..n /\ r \in 0..n /\ k < r /\ \A j \in k..r : (c[j] - c[k]) * q >= b * (j - k)
      BY <3>2 DEF Profile
    <3>4. a * q <= b * m
      BY <3>2 DEF Profile
    <3>5. q \in Nat \ {0} /\ b \in Int /\ c[k] \in Int
      <4>1. c[k] \in Int /\ c[r] \in Int
        BY <3>3 DEF Profile
      <4> QED
        BY <3>3, <4>1
    <3>6. ASSUME NEW j \in p..r PROVE (c[j] - c[p]) * m >= a * (j - p)
      <4>1. CASE j <= k
        <5> HIDE DEF p, m, a
        <5>1. j \in p..k
          BY <3>3, <4>1, <1>0
        <5> QED
          BY <3>1, <5>1
      <4>2. CASE j > k
        <5> DEFINE d == c[k] - c[p]  g == c[j] - c[k]  h == k - p  i == j - k
        <5>1. j \in k..r /\ c[j] \in Int
          <6>1. j \in k..r /\ j \in 0..n
            BY <1>0, <3>3, <4>2
          <6> QED
            BY <6>1 DEF Profile
        <5>2. d \in Int /\ g \in Int /\ h \in Int /\ i \in Nat
          BY <1>0, <3>3, <3>5, <4>2, <5>1
        <5>3. g * q >= b * i
          BY <3>3, <5>1
        <5>4. d * m >= a * h
          <6>1. k \in p..k
            BY <1>0, <3>1, <3>3
          <6> QED
            BY <3>1, <6>1
        <5>5. c[j] - c[p] = d + g /\ j - p = h + i
          BY <1>0, <3>3, <3>5, <5>1
        <5> HIDE DEF d, g, h, i, a, b, m, q, p, k, r
        <5>6. g * m >= a * i
          BY ONLY <1>0, <3>4, <3>5, <5>2, <5>3, MeanAtLeast
        <5>7. m \in Int /\ i \in Int
          BY <1>0, <5>2
        <5>8. (d + g) * m >= a * (h + i)
          BY ONLY <1>0, <5>2, <5>4, <5>6, <5>7, SumAtLeast
        <5> QED
          BY <5>5, <5>8
      <4> QED
        BY <1>0, <3>3, <4>1, <4>2
    <3>7. p <= r
      BY <1>0, <3>1, <3>3
    <3> QED
      BY <3>6, <3>7
  <2> QED
    BY <2>1, <2>2
<1> HIDE DEF S
<1>3. l \in S
  BY <1>1, <1>2, Induction
<1> QED
  BY <1>3 DEF S

\* Up to where a block ends, no mean is above its own.
LEMMA ProfileBefore ==
  ASSUME NEW n \in Nat, NEW l \in Nat, NEW c, NEW e, Profile(c, e, l, n), NEW t \in 1..l
  PROVE  \A j \in e[0]..e[t] :
           (c[e[t]] - c[j]) * (e[t] - e[t - 1]) <= (c[e[t]] - c[e[t - 1]]) * (e[t] - j)
<1> DEFINE p == e[t]
           m == e[t] - e[t - 1]
           a == c[e[t]] - c[e[t - 1]]
           Below1(r) == r <= p /\ \A j \in r..p : (c[p] - c[j]) * m <= a * (p - j)
           S == {u \in Nat : u < t => Below1(e[t - (u + 1)])}
<1>0. /\ p \in 0..n /\ e[t - 1] \in 0..n /\ e[t - 1] < p /\ m \in Nat \ {0} /\ a \in Int /\ c[p] \in Int
      /\ c[e[t - 1]] \in Int
  <2>1. e[t] \in 0..n /\ e[t - 1] \in 0..n /\ e[t - 1] < e[t]
    BY DEF Profile
  <2>2. c[e[t]] \in Int /\ c[e[t - 1]] \in Int
    BY <2>1 DEF Profile
  <2> QED
    BY <2>1, <2>2
\* The rest of a block after one of its prefixes.
<1>1. ASSUME NEW v \in 1..l, NEW j \in e[v - 1]..e[v]
      PROVE  /\ e[v] \in 0..n /\ e[v - 1] \in 0..n /\ e[v - 1] < e[v] /\ j \in 0..n
             /\ c[j] \in Int /\ c[e[v]] \in Int /\ c[e[v - 1]] \in Int
             /\ (c[e[v]] - c[j]) * (e[v] - e[v - 1]) <= (c[e[v]] - c[e[v - 1]]) * (e[v] - j)
  <2> DEFINE k == e[v - 1]  r == e[v]
  <2>1. /\ r \in 0..n /\ k \in 0..n /\ k < r
        /\ (c[j] - c[k]) * (r - k) >= (c[r] - c[k]) * (j - k)
    BY DEF Profile
  <2>2. j \in 0..n
    BY <2>1
  <2>3. c[j] \in Int /\ c[r] \in Int /\ c[k] \in Int
    BY <2>1, <2>2 DEF Profile
  <2> DEFINE b == c[r] - c[k]  q == r - k  d == c[j] - c[k]  i == j - k
  <2>4. b \in Int /\ q \in Nat \ {0} /\ d \in Int /\ i \in Int /\ d * q >= b * i
    BY <2>1, <2>2, <2>3
  <2>5. c[r] - c[j] = b - d /\ r - j = q - i
    BY <2>1, <2>2, <2>3
  <2> HIDE DEF k, r, b, q, d, i
  <2>6. (b - d) * q <= b * (q - i)
    BY ONLY <2>4, Suffix
  <2>7. (c[r] - c[j]) * q <= b * (r - j)
    BY <2>5, <2>6
  <2> QED
    BY <2>1, <2>2, <2>3, <2>7 DEF k, r, b, q
<1>2. 0 \in S
  <2>1. t - (0 + 1) = t - 1 /\ t \in 1..l
    OBVIOUS
  <2>2. \A j \in e[t - 1]..p : (c[p] - c[j]) * m <= a * (p - j)
    BY <1>1
  <2>3. Below1(e[t - 1])
    BY <1>0, <2>2
  <2> HIDE DEF Below1
  <2> QED
    BY <2>1, <2>3
<1>3. ASSUME NEW u \in Nat, u \in S PROVE u + 1 \in S
  <2> DEFINE v == t - (u + 1)
  <2> SUFFICES ASSUME u + 1 < t PROVE Below1(e[v - 1])
    <3>1. t - ((u + 1) + 1) = v - 1 /\ u + 1 \in Nat
      OBVIOUS
    <3> HIDE DEF Below1, v
    <3> QED
      BY <3>1
  <2>1. v \in 1..l /\ v < t
    OBVIOUS
  <2>2. Below1(e[v])
    BY <1>3
  <2> HIDE DEF v
  <2> DEFINE k == e[v - 1]
             r == e[v]
             q == r - k
             b == c[r] - c[k]
  <2>3. /\ k \in 0..n /\ r \in 0..n /\ k < r /\ c[r] \in Int /\ c[k] \in Int
    <3>1. k \in 0..n /\ r \in 0..n /\ k < r
      BY <2>1 DEF Profile
    <3> QED
      BY <3>1 DEF Profile
  <2>4. b * m <= a * q
    BY <2>1 DEF Profile
  <2>5. q \in Nat \ {0} /\ b \in Int
    BY <2>3
  <2>6. ASSUME NEW j \in k..p PROVE (c[p] - c[j]) * m <= a * (p - j)
    <3>1. CASE j >= r
      <4> HIDE DEF p, m, a
      <4>1. j \in r..p
        BY <1>0, <2>3, <3>1
      <4> QED
        BY <2>2, <4>1
    <3>2. CASE j < r
      <4>1. j \in k..r
        BY <2>3, <3>2
      <4>2. c[j] \in Int /\ (c[r] - c[j]) * q <= b * (r - j)
        BY <1>1, <2>1, <4>1
      <4> DEFINE d == c[r] - c[j]  g == c[p] - c[r]  h == p - r  i == r - j
      <4>3. d \in Int /\ g \in Int /\ h \in Int /\ i \in Nat
        BY <1>0, <2>3, <4>1, <4>2
      <4>4. g * m <= a * h
        <5>1. r \in r..p
          BY <1>0, <2>2, <2>3
        <5> QED
          BY <2>2, <5>1
      <4>5. c[p] - c[j] = d + g /\ p - j = i + h
        BY <1>0, <2>3, <4>1, <4>2
      <4>6. d * q <= b * i
        BY <4>2
      <4>7. a * q >= b * m
        <5> DEFINE y == a * q  z == b * m
        <5>1. y \in Int /\ z \in Int /\ z <= y
          BY <1>0, <2>4, <2>5
        <5> HIDE DEF y, z
        <5>2. y >= z
          BY <5>1
        <5> QED
          BY <5>2 DEF y, z
      <4> HIDE DEF d, g, h, i, a, b, m, q, p, k, r
      <4>8. d * m <= a * i
        BY ONLY <1>0, <2>5, <4>3, <4>6, <4>7, MeanAtMost
      <4>9. m \in Int /\ i \in Int
        BY <1>0, <4>3
      <4>10. (d + g) * m <= a * (i + h)
        BY ONLY <1>0, <4>3, <4>4, <4>8, <4>9, SumAtMost
      <4> QED
        BY <4>5, <4>10
    <3> QED
      BY <1>0, <2>3, <3>1, <3>2
  <2>7. k <= p
    BY <1>0, <2>2, <2>3
  <2> QED
    BY <2>6, <2>7
<1> HIDE DEF S
<1>4. t - 1 \in S
  <2>1. t - 1 \in Nat
    OBVIOUS
  <2> QED
    BY <1>2, <1>3, <2>1, Induction
<1>5. t - ((t - 1) + 1) = 0
  OBVIOUS
<1> QED
  BY <1>4, <1>5 DEF S

LEMMA FitProfile ==
  ASSUME NEW s \in Scored, NEW e, Ends(s, e)
  PROVE  Profile(Counted(s), e, Len(FitIsotonic(s)), Len(s))
<1> DEFINE c == Counted(s)
           x == Scores(s)
           n == Len(s)
           blocks == FitIsotonic(s)
           l == Len(blocks)
<1>1. n \in Nat /\ (\A j \in 0..n : c[j] \in Int) /\ blocks \in Blocks /\ Spans(c, x, n, blocks, e) /\ Rising(blocks, l)
  <2>1. n \in Nat
    BY ScoredRows
  <2>2. \A j \in 0..n : c[j] \in Nat
    BY CountedBetween
  <2>3. blocks \in Blocks /\ Spans(c, x, n, blocks, e) /\ Rising(blocks, l)
    BY FitSpans DEF Ends
  <2> HIDE DEF c, n, x, blocks
  <2> QED
    BY <2>1, <2>2, <2>3
<1> HIDE DEF c, n, x, blocks
<1>2. \A t \in 1..l :
        /\ e[t] \in 0..n /\ e[t - 1] \in 0..n /\ e[t - 1] < e[t]
        /\ c[e[t]] \in Int /\ c[e[t - 1]] \in Int
        /\ blocks[t].sum \in Int /\ blocks[t].sum = c[e[t]] - c[e[t - 1]]
        /\ blocks[t].count \in Nat \ {0} /\ blocks[t].count = e[t] - e[t - 1]
  <2>1. n \in Nat /\ (\A j \in 0..n : c[j] \in Int) /\ blocks \in Blocks /\ Spans(c, x, n, blocks, e)
    BY <1>1
  <2>2. \A t \in 1..Len(blocks) :
          /\ e[t] \in 0..n /\ e[t - 1] \in 0..n /\ e[t - 1] < e[t]
          /\ c[e[t]] \in Int /\ c[e[t - 1]] \in Int
          /\ blocks[t].sum \in Int /\ blocks[t].sum = c[e[t]] - c[e[t - 1]]
          /\ blocks[t].count \in Nat \ {0} /\ blocks[t].count = e[t] - e[t - 1]
    BY ONLY <2>1, BlockNumbers
  <2> QED
    BY ONLY <2>2 DEF l
<1>3. \A t \in 1..l : \A j \in e[t - 1]..e[t] :
        (c[j] - c[e[t - 1]]) * (e[t] - e[t - 1]) >= (c[e[t]] - c[e[t - 1]]) * (j - e[t - 1])
  BY <1>1 DEF Spans
<1>4. ASSUME NEW t \in 1..l, NEW u \in 1..l, t < u
      PROVE  (c[e[t]] - c[e[t - 1]]) * (e[u] - e[u - 1]) <= (c[e[u]] - c[e[u - 1]]) * (e[t] - e[t - 1])
  <2>1. ~(blocks[t].sum * blocks[u].count > blocks[u].sum * blocks[t].count)
    BY <1>1, <1>4 DEF Rising, MeanAbove
  <2> DEFINE y == blocks[t].sum * blocks[u].count  z == blocks[u].sum * blocks[t].count
  <2>2. y \in Int /\ z \in Int /\ ~(y > z)
    <3>1. blocks[t].sum \in Int /\ blocks[t].count \in Nat \ {0} /\ blocks[u].sum \in Int /\ blocks[u].count \in Nat \ {0}
      BY <1>2
    <3> QED
      BY ONLY <3>1, <2>1
  <2> HIDE DEF y, z
  <2>3. y <= z
    BY <2>2
  <2> QED
    BY <1>2, <2>3 DEF y, z
<1>5. Profile(c, e, l, n)
  BY <1>1, <1>2, <1>3, <1>4 DEF Profile
<1> QED
  BY <1>5 DEF c, l, n, blocks

\* For distinct scores the calibrated score is the greatest least mean of the rows around.
LEMMA MaxMin ==
  ASSUME NEW s \in Scored, s # <<>>, Distinct(s), NEW k \in 1..Len(s)
  PROVE  LET v == ApplyIsotonic(Scores(s)[k], FitIsotonic(s))
             Mean(a, b) == [sum |-> Cardinality({i \in a..b : s[Ascending(s)[i]].y}), count |-> b - a + 1]
         IN  /\ \E a \in 1..k : \A b \in k..Len(s) : ~MeanAbove(v, Mean(a, b))
             /\ \A a \in 1..k : \E b \in k..Len(s) : ~MeanAbove(Mean(a, b), v)
<1> DEFINE c == Counted(s)
           n == Len(s)
           blocks == FitIsotonic(s)
           l == Len(blocks)
           In(a, b) == Cardinality({i \in a..b : s[Ascending(s)[i]].y})
           Mean(a, b) == [sum |-> In(a, b), count |-> b - a + 1]
           v == ApplyIsotonic(Scores(s)[k], blocks)
<1>1. PICK e : Ends(s, e)
  BY FitSpans DEF Ends
<1>2. PICK t : Gives(s, e, k, t)
  BY <1>1, BlockOfRow
<1>3. n \in Nat /\ l \in Nat
  BY <1>1, SomeBlock
<1>4. e[t - 1] < k /\ k <= e[t] /\ e[t] \in 1..n /\ e[t - 1] \in 0..n /\ k \in 1..n
  BY <1>1, <1>2, RowInBlock
<1>5. t \in 1..l /\ v = blocks[t]
  BY <1>2 DEF Gives
<1>6. e[0] = 0 /\ e[l] = n /\ v.sum = c[e[t]] - c[e[t - 1]] /\ v.count = e[t] - e[t - 1]
  BY <1>1, <1>5 DEF Ends, Spans
<1>7. /\ \A j \in 0..n : c[j] \in Int
      /\ \A a \in 1..n, b \in 0..n : a <= b + 1 => In(a, b) = c[b] - c[a - 1]
  <2>1. \A j \in 0..n : c[j] \in Nat
    BY CountedBetween
  <2>2. \A a \in 1..n, b \in 0..n : a <= b + 1 => In(a, b) = c[b] - c[a - 1]
    BY CountedBetween
  <2> HIDE DEF c, n, In
  <2> QED
    BY <2>1, <2>2
<1>8. Profile(c, e, l, n)
  BY <1>1, FitProfile
<1> HIDE DEF c, n, blocks, l, In, v
<1>9. \A j \in e[t - 1]..n : (c[j] - c[e[t - 1]]) * v.count >= v.sum * (j - e[t - 1])
  <2>1. \A j \in e[t - 1]..e[l] :
           (c[j] - c[e[t - 1]]) * (e[t] - e[t - 1]) >= (c[e[t]] - c[e[t - 1]]) * (j - e[t - 1])
    BY ONLY <1>3, <1>5, <1>8, ProfileAfter
  <2> QED
    BY <1>6, <2>1
<1>10. \A j \in 0..e[t] : (c[e[t]] - c[j]) * v.count <= v.sum * (e[t] - j)
  <2>1. \A j \in e[0]..e[t] :
           (c[e[t]] - c[j]) * (e[t] - e[t - 1]) <= (c[e[t]] - c[e[t - 1]]) * (e[t] - j)
    BY ONLY <1>3, <1>5, <1>8, ProfileBefore
  <2> QED
    BY <1>6, <2>1
<1>11. v.sum \in Int /\ v.count \in Int
  <2>1. c[e[t]] \in Int /\ c[e[t - 1]] \in Int
    BY <1>4, <1>7
  <2> QED
    BY <1>4, <1>6, <2>1
<1>12. \E a \in 1..k : \A b \in k..n : ~MeanAbove(v, Mean(a, b))
  <2> DEFINE a == e[t - 1] + 1
  <2>1. a \in 1..k /\ a \in 1..n /\ a - 1 = e[t - 1]
    <3> DEFINE p == e[t - 1]
    <3>1. p \in 0..n /\ k \in 1..n /\ p < k /\ n \in Nat
      BY <1>3, <1>4
    <3> HIDE DEF p
    <3>2. p + 1 \in 1..k /\ p + 1 \in 1..n /\ (p + 1) - 1 = p
      BY ONLY <3>1
    <3> QED
      BY <3>2 DEF p
  <2>2. ASSUME NEW b \in k..n PROVE ~MeanAbove(v, Mean(a, b))
    <3>1. b \in 0..n /\ a <= b + 1 /\ b \in e[t - 1]..n /\ b - a + 1 = b - e[t - 1]
      BY <1>4, <2>1
    <3>2. In(a, b) = c[b] - c[e[t - 1]]
      BY <1>7, <2>1, <3>1
    <3>3. c[b] \in Int /\ c[e[t - 1]] \in Int
      BY <1>4, <1>7, <3>1
    <3> DEFINE y == v.sum * (b - e[t - 1])  z == (c[b] - c[e[t - 1]]) * v.count
    <3>4. y \in Int /\ z \in Int
      <4>1. b - e[t - 1] \in Int /\ c[b] - c[e[t - 1]] \in Int
        BY <1>4, <3>1, <3>3
      <4> QED
        BY ONLY <4>1, <1>11
    <3>5. z >= y
      BY <1>9, <3>1
    <3>6. MeanAbove(v, Mean(a, b)) <=> y > z
      BY <3>1, <3>2 DEF MeanAbove
    <3> HIDE DEF y, z
    <3>7. ~(y > z)
      BY <3>4, <3>5
    <3> QED
      BY <3>6, <3>7
  <2> HIDE DEF a, Mean
  <2> QED
    BY <2>1, <2>2
<1>13. \A a \in 1..k : \E b \in k..n : ~MeanAbove(Mean(a, b), v)
  <2>1. ASSUME NEW a \in 1..k PROVE ~MeanAbove(Mean(a, e[t]), v)
    <3>1. a \in 1..n /\ e[t] \in 0..n /\ a <= e[t] + 1 /\ a - 1 \in 0..e[t] /\ a - 1 \in 0..n /\ e[t] - a + 1 = e[t] - (a - 1)
      <4> DEFINE r == e[t]
      <4>1. r \in 1..n /\ k <= r /\ k \in 1..n /\ n \in Nat
        BY <1>3, <1>4
      <4> HIDE DEF r
      <4>2. a \in 1..n /\ r \in 0..n /\ a <= r + 1 /\ a - 1 \in 0..r /\ a - 1 \in 0..n /\ r - a + 1 = r - (a - 1)
        BY <4>1, <2>1
      <4> QED
        BY <4>2 DEF r
    <3>2. In(a, e[t]) = c[e[t]] - c[a - 1]
      BY <1>7, <3>1
    <3>3. c[e[t]] \in Int /\ c[a - 1] \in Int
      BY <1>7, <3>1
    <3> DEFINE y == (c[e[t]] - c[a - 1]) * v.count  z == v.sum * (e[t] - (a - 1))
    <3>4. y \in Int /\ z \in Int
      <4>1. e[t] - (a - 1) \in Int /\ c[e[t]] - c[a - 1] \in Int
        BY <3>1, <3>3
      <4> QED
        BY ONLY <4>1, <1>11
    <3>5. y <= z
      BY <1>10, <3>1
    <3>6. MeanAbove(Mean(a, e[t]), v) <=> y > z
      BY <3>1, <3>2 DEF MeanAbove
    <3> HIDE DEF y, z
    <3>7. ~(y > z)
      BY <3>4, <3>5
    <3> QED
      BY <3>6, <3>7
  <2>2. e[t] \in k..n
    BY <1>4
  <2> HIDE DEF Mean
  <2> QED
    BY <2>1, <2>2
<1> QED
  BY <1>12, <1>13 DEF v, In, n, blocks

\* Isotonic calibration never lowers a score as scores rise, keeps the number
\* of positive rows and, for distinct scores, is the least-squares monotone
\* fit (fit_isotonic, apply_isotonic).
THEOREM IsotonicRightHolds == \A s \in Scored : IsotonicRight(s)
<1> SUFFICES ASSUME NEW s \in Scored, s # <<>>
             PROVE  LET blocks == FitIsotonic(s)
                        row == Ascending(s)
                        Mean(a, b) == [sum |-> Cardinality({k \in a..b : s[row[k]].y}), count |-> b - a + 1]
                        Value(k) == ApplyIsotonic(s[row[k]].p, blocks)
                    IN /\ \A k \in 1..(Len(s) - 1) : ~MeanAbove(Value(k), Value(k + 1))
                       /\ SumFunction([k \in DOMAIN blocks |-> blocks[k].sum]) = Cardinality(PositiveRows(s))
                       /\ Distinct(s) =>
                            \A k \in DOMAIN s :
                              /\ \E a \in 1..k : \A b \in k..Len(s) : ~MeanAbove(Value(k), Mean(a, b))
                              /\ \A a \in 1..k : \E b \in k..Len(s) : ~MeanAbove(Mean(a, b), Value(k))
  BY DEF IsotonicRight
<1> DEFINE blocks == FitIsotonic(s)
           row == Ascending(s)
           Mean(a, b) == [sum |-> Cardinality({k \in a..b : s[row[k]].y}), count |-> b - a + 1]
           Value(k) == ApplyIsotonic(s[row[k]].p, blocks)
<1>1. Len(s) \in Nat /\ DOMAIN s = 1..Len(s)
  BY ScoredRows
<1>2. \A k \in 1..Len(s) : Value(k) = ApplyIsotonic(Scores(s)[k], blocks)
  BY ScoresAscend
<1>3. \A k \in 1..(Len(s) - 1) : ~MeanAbove(Value(k), Value(k + 1))
  <2>1. ASSUME NEW k \in 1..(Len(s) - 1) PROVE ~MeanAbove(Value(k), Value(k + 1))
    <3>1. k \in 1..Len(s) /\ k + 1 \in 1..Len(s)
      BY <1>1
    <3>2. ~MeanAbove(ApplyIsotonic(Scores(s)[k], blocks), ApplyIsotonic(Scores(s)[k + 1], blocks))
      BY <3>1, CalibratedRise
    <3> QED
      BY <1>2, <3>1, <3>2
  <2> QED
    BY <2>1
<1>4. SumFunction([k \in DOMAIN blocks |-> blocks[k].sum]) = Cardinality(PositiveRows(s))
  BY PositivesKept
<1>5. ASSUME Distinct(s), NEW k \in DOMAIN s
      PROVE  /\ \E a \in 1..k : \A b \in k..Len(s) : ~MeanAbove(Value(k), Mean(a, b))
             /\ \A a \in 1..k : \E b \in k..Len(s) : ~MeanAbove(Mean(a, b), Value(k))
  <2>1. k \in 1..Len(s)
    BY <1>1
  <2>2. LET v == ApplyIsotonic(Scores(s)[k], blocks)
        IN  /\ \E a \in 1..k : \A b \in k..Len(s) : ~MeanAbove(v, Mean(a, b))
            /\ \A a \in 1..k : \E b \in k..Len(s) : ~MeanAbove(Mean(a, b), v)
    BY <1>5, <2>1, MaxMin
  <2>3. Value(k) = ApplyIsotonic(Scores(s)[k], blocks)
    BY <1>2, <2>1
  <2> HIDE DEF Value, Mean
  <2> QED
    BY <2>2, <2>3
<1> QED
  BY <1>3, <1>4, <1>5

=============================================================================
