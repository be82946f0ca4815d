-------------------------------- MODULE Sums --------------------------------
(***************************************************************************)
(* Facts about SumFunctionOnSet(f, S), the sum of f[x] over a finite set S,*)
(* and the least element of a set of numbers.                              *)
(*                                                                         *)
(* The library proves that strict inclusion of finite sets is well-founded *)
(* and that a well-founded relation has minimal elements.  Both facts are  *)
(* about sets, so no theorem with an operator parameter is needed:         *)
(* an induction over the subsets of S is the choice of a minimal one among *)
(* those that are in the way.                                              *)
(***************************************************************************)
EXTENDS Integers, Functions, FiniteSetTheorems, TLAPS

\* A set of subsets of a finite set, if not empty, has a minimal member.
LEMMA SmallestSubset ==
    ASSUME NEW S, IsFiniteSet(S), NEW Bad, Bad \subseteq SUBSET S, Bad # {}
    PROVE  \E T \in Bad : \A U \in Bad : ~(U \subseteq T /\ U # T)
<1> DEFINE R == StrictSubsetOrdering(S)
<1>1. IsWellFoundedOn(R, SUBSET S)
  BY FS_StrictSubsetOrderingWellFounded, FS_FiniteSubsetsOfFinite
<1>2. PICK T \in Bad : \A U \in Bad : <<U, T>> \notin R
  <2> HIDE DEF R
  <2> QED
    BY <1>1, WFMin
<1>3. \A U \in Bad : U \subseteq T /\ U # T => <<U, T>> \in R
  BY DEF StrictSubsetOrdering
<1>4. \A U \in Bad : ~(U \subseteq T /\ U # T)
  BY <1>2, <1>3
<1> QED
  BY <1>4

\* A nonempty set of natural numbers has a least one: the initial segment up
\* to it is the smallest.
LEMMA LeastNumber ==
    ASSUME NEW S, S \subseteq Nat, S # {}
    PROVE  \E m \in S : \A k \in S : m <= k
<1>1. PICK b \in S : TRUE
  OBVIOUS
<1> DEFINE Top == 0..b
           Bad == {0..k : k \in S \cap Top}
<1>2. PICK T \in Bad : \A U \in Bad : ~(U \subseteq T /\ U # T)
  <2>1. IsFiniteSet(Top)
    BY <1>1, FS_Interval
  <2>2. Bad \subseteq SUBSET Top /\ Bad # {}
    BY <1>1
  <2> HIDE DEF Bad, Top
  <2> QED
    BY <2>1, <2>2, SmallestSubset
<1>3. PICK m \in S \cap (0..b) : T = 0..m
  BY <1>2
<1>4. ASSUME NEW k \in S, k < m PROVE FALSE
  <2>1. 0..k \in Bad
    BY <1>1, <1>3, <1>4
  <2>2. 0..k \subseteq 0..m /\ m \in 0..m /\ m \notin 0..k
    BY <1>3, <1>4
  <2> HIDE DEF Bad
  <2> QED
    BY <1>2, <1>3, <2>1, <2>2
<1> QED
  BY <1>3, <1>4
-----------------------------------------------------------------------------
(* The recursive function in the definition of a fold, as a set-theoretic  *)
(* equation: it has one solution over the subsets of a finite set.         *)
Pick(s) == CHOOSE x \in s : TRUE

Solves(g, f, S) ==
    g = [s \in SUBSET S |-> IF s = {} THEN 0 ELSE f[Pick(s)] + g[s \ {Pick(s)}]]

\* A nonempty set has the element Pick takes.
LEMMA PickMember == \A s : s # {} => Pick(s) \in s
  BY DEF Pick

\* The sum is defined by a solution.
LEMMA SumBySolution ==
    ASSUME NEW f, NEW S
    PROVE  SumFunctionOnSet(f, S) = (CHOOSE g : Solves(g, f, S))[S]
  BY DEF SumFunctionOnSet, FoldFunctionOnSet, MapThenFoldSet, Solves, Pick

\* Two solutions agree where both are defined.
LEMMA SolutionsAgree ==
    ASSUME NEW f, NEW S, NEW T, IsFiniteSet(S), T \subseteq S,
           NEW g, Solves(g, f, S), NEW h, Solves(h, f, T)
    PROVE  \A s \in SUBSET T : g[s] = h[s]
<1> DEFINE Bad == {s \in SUBSET T : g[s] # h[s]}
<1>1. SUFFICES ASSUME Bad # {} PROVE FALSE
  OBVIOUS
<1>2. IsFiniteSet(T)
  BY FS_Subset
<1>3. PICK s \in Bad : \A U \in Bad : ~(U \subseteq s /\ U # s)
  <2> Bad \subseteq SUBSET T
    OBVIOUS
  <2> HIDE DEF Bad
  <2> QED
    BY <1>1, <1>2, SmallestSubset
<1>4. s # {}
  BY DEF Solves
<1> DEFINE x == Pick(s)
<1>5. x \in s
  BY <1>4, PickMember
<1>6. g[s \ {x}] = h[s \ {x}]
  BY <1>3, <1>5
<1>7. g[s] = f[x] + g[s \ {x}] /\ h[s] = f[x] + h[s \ {x}]
  BY <1>3, <1>4 DEF Solves
<1> QED
  BY <1>3, <1>6, <1>7

\* Over the subsets of a finite set there is a solution.
LEMMA SolutionExists ==
    ASSUME NEW f, NEW S, IsFiniteSet(S)
    PROVE  \E g : Solves(g, f, S)
<1> DEFINE Sum(T) == (CHOOSE g : Solves(g, f, T))[T]
           Bad == {T \in SUBSET S : ~ \E g : Solves(g, f, T)}
<1>1. SUFFICES ASSUME Bad # {} PROVE FALSE
  OBVIOUS
<1>2. PICK T \in Bad : \A U \in Bad : ~(U \subseteq T /\ U # T)
  <2> Bad \subseteq SUBSET S
    OBVIOUS
  <2> HIDE DEF Bad
  <2> QED
    BY <1>1, SmallestSubset
<1>3. \A U \in SUBSET T : U # T => \E g : Solves(g, f, U)
  BY <1>2
\* What smaller sets have satisfies the equation.
<1>4. ASSUME NEW U \in SUBSET T, U # T
      PROVE  Sum(U) = IF U = {} THEN 0 ELSE f[Pick(U)] + Sum(U \ {Pick(U)})
  <2> DEFINE V == U \ {Pick(U)}
  <2>1. PICK g : g = CHOOSE h : Solves(h, f, U)
    OBVIOUS
  <2>2. Solves(g, f, U) /\ Sum(U) = g[U]
    BY <1>3, <1>4, <2>1
  <2>3. PICK k : k = CHOOSE h : Solves(h, f, V)
    OBVIOUS
  <2>4. V \in SUBSET T /\ V # T
    BY <1>4
  <2>5. Solves(k, f, V) /\ Sum(V) = k[V]
    BY <1>3, <2>3, <2>4
  <2>6. IsFiniteSet(U)
    BY FS_Subset, <1>2
  <2>7. g[V] = k[V]
    BY <2>2, <2>5, <2>6, SolutionsAgree
  <2>8. g[U] = IF U = {} THEN 0 ELSE f[Pick(U)] + g[V]
    BY <2>2 DEF Solves
  <2> QED
    BY <2>2, <2>5, <2>7, <2>8
<1> DEFINE h == [s \in SUBSET T |->
                   IF s = {} THEN 0 ELSE f[Pick(s)] + Sum(s \ {Pick(s)})]
<1>5. \A s \in SUBSET T : s # T => h[s] = Sum(s)
  BY <1>4
<1>6. \A s \in SUBSET T : s # {} => s \ {Pick(s)} \in SUBSET T /\ s \ {Pick(s)} # T
  BY PickMember
<1>7. h = [s \in SUBSET T |-> IF s = {} THEN 0 ELSE f[Pick(s)] + h[s \ {Pick(s)}]]
  <2> HIDE DEF Sum
  <2>1. \A s \in SUBSET T : s # {} => Sum(s \ {Pick(s)}) = h[s \ {Pick(s)}]
    BY <1>5, <1>6
  <2> QED
    BY <2>1
<1>8. Solves(h, f, T)
  BY <1>7 DEF Solves
<1> QED
  BY <1>2, <1>8
-----------------------------------------------------------------------------
(* What sums satisfy.                                                      *)

\* Whatever satisfies the equation computes the sum.
LEMMA SumOfSolution ==
    ASSUME NEW f, NEW S, IsFiniteSet(S), NEW g, Solves(g, f, S)
    PROVE  g[S] = SumFunctionOnSet(f, S)
<1>1. PICK h : h = CHOOSE k : Solves(k, f, S)
  OBVIOUS
<1>2. Solves(h, f, S)
  BY <1>1, SolutionExists
<1>3. g[S] = h[S]
  BY <1>2, SolutionsAgree
<1> QED
  BY <1>1, <1>3, SumBySolution

\* The defining equation.
LEMMA SumEquation ==
    ASSUME NEW f, NEW S, IsFiniteSet(S)
    PROVE  SumFunctionOnSet(f, S) =
             IF S = {} THEN 0
             ELSE f[Pick(S)] + SumFunctionOnSet(f, S \ {Pick(S)})
<1> DEFINE T == S \ {Pick(S)}
<1>1. PICK g : g = CHOOSE h : Solves(h, f, S)
  OBVIOUS
<1>2. PICK k : k = CHOOSE h : Solves(h, f, T)
  OBVIOUS
<1>3. IsFiniteSet(T)
  BY FS_Subset
<1>4. Solves(g, f, S) /\ Solves(k, f, T)
  BY <1>1, <1>2, <1>3, SolutionExists
<1>5. g[T] = k[T]
  BY <1>4, SolutionsAgree
<1>6. g[S] = IF S = {} THEN 0 ELSE f[Pick(S)] + g[T]
  BY <1>4 DEF Solves
<1> QED
  BY <1>1, <1>2, <1>5, <1>6, SumBySolution

\* The sum over no element.
LEMMA SumEmpty == \A f : SumFunctionOnSet(f, {}) = 0
  BY FS_EmptySet, SumEquation

\* A sum is a number if its terms are.
LEMMA SumType ==
    ASSUME NEW N \in {Nat, Int}, NEW f, NEW S, IsFiniteSet(S), \A x \in S : f[x] \in N
    PROVE  SumFunctionOnSet(f, S) \in N
<1> DEFINE Bad == {T \in SUBSET S : SumFunctionOnSet(f, T) \notin N}
<1>1. SUFFICES ASSUME Bad # {} PROVE FALSE
  OBVIOUS
<1>2. PICK T \in Bad : \A U \in Bad : ~(U \subseteq T /\ U # T)
  <2> Bad \subseteq SUBSET S
    OBVIOUS
  <2> HIDE DEF Bad
  <2> QED
    BY <1>1, SmallestSubset
<1>3. IsFiniteSet(T)
  BY <1>2, FS_Subset
<1>4. T # {}
  <2>1. SumFunctionOnSet(f, {}) \in N
    BY SumEmpty
  <2> QED
    BY <1>2, <2>1
<1> DEFINE x == Pick(T)
<1>5. x \in T
  BY <1>4, PickMember
<1>6. SumFunctionOnSet(f, T \ {x}) \in N
  BY <1>2, <1>5
<1>7. SumFunctionOnSet(f, T) = f[x] + SumFunctionOnSet(f, T \ {x})
  BY <1>3, <1>4, SumEquation
<1> QED
  BY <1>2, <1>5, <1>6, <1>7

\* Any element may be taken out first.
LEMMA SumTakeOut ==
    ASSUME NEW f, NEW S, IsFiniteSet(S), \A x \in S : f[x] \in Int
    PROVE  \A a \in S : SumFunctionOnSet(f, S) = f[a] + SumFunctionOnSet(f, S \ {a})
<1> DEFINE Sum(T) == SumFunctionOnSet(f, T)
           Bad == {T \in SUBSET S : \E a \in T : Sum(T) # f[a] + Sum(T \ {a})}
<1>1. SUFFICES ASSUME Bad # {} PROVE FALSE
  OBVIOUS
<1>2. PICK T \in Bad : \A U \in Bad : ~(U \subseteq T /\ U # T)
  <2> Bad \subseteq SUBSET S
    OBVIOUS
  <2> HIDE DEF Bad
  <2> QED
    BY <1>1, SmallestSubset
<1>3. PICK a \in T : Sum(T) # f[a] + Sum(T \ {a})
  BY <1>2
<1> DEFINE x == Pick(T)
<1>4. x \in T
  BY <1>3, PickMember
<1>5. \A U \in SUBSET S : Sum(U) \in Int
  BY FS_Subset, SumType
<1>6. Sum(T) = f[x] + Sum(T \ {x})
  BY <1>2, <1>3, FS_Subset, SumEquation
<1>7. \A U \in SUBSET T : U # T => \A b \in U : Sum(U) = f[b] + Sum(U \ {b})
  BY <1>2
<1> HIDE DEF Sum
<1>8. Sum(T \ {x}) = f[a] + Sum((T \ {x}) \ {a})
  BY <1>3, <1>4, <1>6, <1>7
<1>9. (T \ {a}) \ {x} = (T \ {x}) \ {a}
  OBVIOUS
<1>10. Sum(T \ {a}) = f[x] + Sum((T \ {x}) \ {a})
  <2>1. Sum(T \ {a}) = f[x] + Sum((T \ {a}) \ {x})
    BY <1>3, <1>4, <1>6, <1>7
  <2> QED
    BY <2>1, <1>9, Zenon
<1>11. f[x] \in Int /\ f[a] \in Int /\ Sum((T \ {x}) \ {a}) \in Int
  BY <1>2, <1>3, <1>4, <1>5
<1>12. Sum(T) = f[a] + Sum(T \ {a})
  BY <1>6, <1>8, <1>10, <1>11
<1> QED
  BY <1>3, <1>12

\* More terms that are not negative make no smaller sum.
LEMMA SumGrows ==
    ASSUME NEW f, NEW S, IsFiniteSet(S), \A x \in S : f[x] \in Nat
    PROVE  \A T \in SUBSET S : SumFunctionOnSet(f, T) <= SumFunctionOnSet(f, S)
<1> DEFINE Sum(T) == SumFunctionOnSet(f, T)
           Bad == {U \in SUBSET S : \E T \in SUBSET U : ~(Sum(T) <= Sum(U))}
<1>1. SUFFICES ASSUME Bad # {} PROVE FALSE
  OBVIOUS
<1>2. PICK U \in Bad : \A V \in Bad : ~(V \subseteq U /\ V # U)
  <2> Bad \subseteq SUBSET S
    OBVIOUS
  <2> HIDE DEF Bad
  <2> QED
    BY <1>1, SmallestSubset
<1>3. PICK T \in SUBSET U : ~(Sum(T) <= Sum(U))
  BY <1>2
<1>4. \A V \in SUBSET S : Sum(V) \in Nat
  BY FS_Subset, SumType
<1>5. PICK a \in U : a \notin T
  <2>1. T # U
    BY <1>2, <1>3, <1>4
  <2> QED
    BY <1>3, <2>1
<1>6. Sum(U) = f[a] + Sum(U \ {a})
  BY <1>2, FS_Subset, SumTakeOut
<1> HIDE DEF Sum
<1>7. Sum(T) <= Sum(U \ {a})
  BY <1>2, <1>3, <1>5
<1> QED
  BY <1>2, <1>3, <1>4, <1>5, <1>6, <1>7

\* Renaming the elements one to one leaves the sum as it is.
LEMMA SumRename ==
    ASSUME NEW f, NEW S, IsFiniteSet(S), NEW g, NEW h,
           \A x \in S : f[x] \in Int /\ g[h[x]] = f[x],
           \A x, y \in S : h[x] = h[y] => x = y
    PROVE  SumFunctionOnSet(g, {h[x] : x \in S}) = SumFunctionOnSet(f, S)
<1> DEFINE Image(T) == {h[x] : x \in T}
           Bad == {T \in SUBSET S : SumFunctionOnSet(g, Image(T)) # SumFunctionOnSet(f, T)}
<1>1. SUFFICES ASSUME Bad # {} PROVE FALSE
  OBVIOUS
<1>2. PICK T \in Bad : \A U \in Bad : ~(U \subseteq T /\ U # T)
  <2> Bad \subseteq SUBSET S
    OBVIOUS
  <2> HIDE DEF Bad
  <2> QED
    BY <1>1, SmallestSubset
<1>3. T # {}
  BY <1>2, SumEmpty
<1>4. PICK x \in T : TRUE
  BY <1>3
<1>5. IsFiniteSet(T) /\ IsFiniteSet(Image(T))
  <2>1. [y \in T |-> h[y]] \in Surjection(T, Image(T))
    BY DEF Surjection
  <2> QED
    BY <1>2, <2>1, FS_Subset, FS_Surjection
<1>6. Image(T \ {x}) = Image(T) \ {h[x]}
  BY <1>2, <1>4
<1>7. SumFunctionOnSet(g, Image(T \ {x})) = SumFunctionOnSet(f, T \ {x})
  BY <1>2, <1>4
<1>8. SumFunctionOnSet(f, T) = f[x] + SumFunctionOnSet(f, T \ {x})
  BY <1>2, <1>4, <1>5, SumTakeOut
<1>9. SumFunctionOnSet(g, Image(T)) = g[h[x]] + SumFunctionOnSet(g, Image(T) \ {h[x]})
  <2>1. h[x] \in Image(T) /\ \A y \in Image(T) : g[y] \in Int
    BY <1>2, <1>4
  <2> HIDE DEF Image
  <2> QED
    BY <1>5, <2>1, SumTakeOut
<1> QED
  BY <1>2, <1>4, <1>6, <1>7, <1>8, <1>9

\* A sum depends on the terms over its set only.
LEMMA SumSame ==
    ASSUME NEW f, NEW S, IsFiniteSet(S), NEW g,
           \A x \in S : f[x] \in Int /\ g[x] = f[x]
    PROVE  SumFunctionOnSet(g, S) = SumFunctionOnSet(f, S)
<1> DEFINE h == [x \in S |-> x]
<1>1. S = {h[x] : x \in S}
  OBVIOUS
<1>2. \A x \in S : f[x] \in Int /\ g[h[x]] = f[x]
  OBVIOUS
<1>3. \A x, y \in S : h[x] = h[y] => x = y
  OBVIOUS
<1> HIDE DEF h
<1>4. SumFunctionOnSet(g, {h[x] : x \in S}) = SumFunctionOnSet(f, S)
  BY <1>2, <1>3, SumRename
<1> QED
  BY <1>1, <1>4, Zenon

\* No term is more than a sum of terms that are not negative.
LEMMA SumTerm ==
    ASSUME NEW f, NEW S, IsFiniteSet(S), \A x \in S : f[x] \in Nat, NEW a \in S
    PROVE  f[a] <= SumFunctionOnSet(f, S)
<1>1. SumFunctionOnSet(f, S) = f[a] + SumFunctionOnSet(f, S \ {a})
  BY SumTakeOut
<1>2. SumFunctionOnSet(f, S \ {a}) \in Nat
  BY FS_Subset, SumType
<1> QED
  BY <1>1, <1>2
=============================================================================
