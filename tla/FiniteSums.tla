----------------------------- MODULE FiniteSums -----------------------------
(* Laws of SumFunctionOnSet(w, S), the sum of the weights w[x] over the
   elements of a finite set S: what one element adds, when two sums are
   equal, and when one bounds the other.  The sum is defined by recursion
   over the subsets of S; induction is over their cardinality, with the
   claim stated as a set of subsets (StrongInduction). *)
EXTENDS Integers, FiniteSets, Functions, FiniteSetTheorems, WellFoundedInduction, TLAPS

\* The element the recursion takes out of s, and its equation.
Pick(s) == CHOOSE x \in s : TRUE
IsSum(g, S, w) ==
  g = [s \in SUBSET S |-> IF s = {} THEN 0 ELSE w[Pick(s)] + g[s \ {Pick(s)}]]

--------------------
(* Induction *)

\* A non-empty set of numbers has a least one.
LEMMA LeastNumber ==
  ASSUME NEW T, T \subseteq Nat, T # {}
  PROVE  \E n \in T : \A m \in T : n <= m
<1> DEFINE R == {ss \in Nat \X Nat : ss[1] < ss[2]}
<1>1. IsWellFoundedOn(R, Nat) BY NatLessThanWellFounded DEF OpToRel
<1> HIDE DEF R
<1>2. PICK n \in T : \A m \in T : ~(<<m, n>> \in R) BY <1>1, WFMin
<1>3. ASSUME NEW m \in T  PROVE n <= m
 <2>1. <<m, n>> \in Nat \X Nat OBVIOUS
 <2>2. ~(<<m, n>>[1] < <<m, n>>[2]) BY <1>2, <2>1 DEF R
 <2> QED BY <2>2
<1> QED BY <1>3

\* What holds of a subset when it holds of all smaller ones holds of S.
LEMMA StrongInduction ==
  ASSUME NEW S, IsFiniteSet(S), NEW Good,
         ASSUME NEW T \in SUBSET S, \A V \in SUBSET T : V # T => V \in Good
         PROVE  T \in Good
  PROVE  S \in Good
<1> DEFINE Bad == {T \in SUBSET S : T \notin Good}
           Sizes == {Cardinality(T) : T \in Bad}
<1>1. \A T \in SUBSET S : IsFiniteSet(T) /\ Cardinality(T) \in Nat BY FS_Subset, FS_CardinalityType
<1>2. Sizes \subseteq Nat BY <1>1
<1>3. SUFFICES ASSUME S \notin Good PROVE FALSE OBVIOUS
<1>4. Sizes # {} BY <1>3
<1>5. PICK n \in Sizes : \A m \in Sizes : n <= m
 <2> HIDE DEF Sizes
 <2> QED BY <1>2, <1>4, LeastNumber
<1>6. PICK T \in Bad : n = Cardinality(T) BY <1>5
<1>7. ASSUME NEW V \in SUBSET T, V # T  PROVE V \in Good
 <2>1. V \in SUBSET S /\ Cardinality(V) < Cardinality(T)
  <3>1. IsFiniteSet(T) /\ Cardinality(T) \in Nat /\ V \in SUBSET S BY <1>1, <1>6
  <3>2. Cardinality(V) \in Nat BY <1>1, <3>1
  <3>3. Cardinality(V) <= Cardinality(T) /\ Cardinality(V) # Cardinality(T) BY <1>7, <3>1, FS_Subset
  <3> QED BY <3>1, <3>2, <3>3
 <2>2. V \notin Bad
  <3>1. SUFFICES ASSUME V \in Bad PROVE FALSE OBVIOUS
  <3>2. n <= Cardinality(V) /\ Cardinality(V) \in Nat /\ n \in Nat BY <1>1, <1>2, <1>5, <2>1, <3>1
  <3> QED BY <1>6, <2>1, <3>2
 <2> QED BY <2>1, <2>2
<1> QED BY <1>6, <1>7

--------------------
(* The sum is well defined *)

\* Pick takes an element.
LEMMA PickIsElement ==
  ASSUME NEW S, S # {}
  PROVE  Pick(S) \in S
  BY DEF Pick

\* SumFunctionOnSet is the value at S of the solution CHOOSE takes.
LEMMA SumIsChosen ==
  ASSUME NEW S, NEW w
  PROVE  SumFunctionOnSet(w, S) = (CHOOSE g : IsSum(g, S, w))[S]
  BY DEF SumFunctionOnSet, FoldFunctionOnSet, MapThenFoldSet, IsSum, Pick

\* A solution at a subset: the element picked, and the rest.
LEMMA SumAt ==
  ASSUME NEW S, NEW w, NEW g, IsSum(g, S, w), NEW T \in SUBSET S
  PROVE  g[T] = IF T = {} THEN 0 ELSE w[Pick(T)] + g[T \ {Pick(T)}]
<1>1. g = [s \in SUBSET S |-> IF s = {} THEN 0 ELSE w[Pick(s)] + g[s \ {Pick(s)}]] BY DEF IsSum
<1> DEFINE f == [s \in SUBSET S |-> IF s = {} THEN 0 ELSE w[Pick(s)] + g[s \ {Pick(s)}]]
<1>2. f[T] = IF T = {} THEN 0 ELSE w[Pick(T)] + g[T \ {Pick(T)}] OBVIOUS
<1> HIDE DEF f
<1> QED BY <1>1, <1>2 DEF f

\* Two solutions agree where both are defined.
LEMMA SolutionsAgree ==
  ASSUME NEW w, NEW S, NEW T, NEW g, NEW h, IsSum(g, S, w), IsSum(h, T, w),
         NEW U, U \subseteq S, U \subseteq T, IsFiniteSet(U)
  PROVE  g[U] = h[U]
<1> DEFINE Good == {V \in SUBSET U : g[V] = h[V]}
<1>1. ASSUME NEW V \in SUBSET U, \A X \in SUBSET V : X # V => X \in Good
      PROVE  V \in Good
 <2>1. g[V] = (IF V = {} THEN 0 ELSE w[Pick(V)] + g[V \ {Pick(V)}]) BY SumAt
 <2>2. h[V] = (IF V = {} THEN 0 ELSE w[Pick(V)] + h[V \ {Pick(V)}]) BY SumAt
 <2>3. V # {} => g[V \ {Pick(V)}] = h[V \ {Pick(V)}] BY <1>1, PickIsElement
 <2> QED BY <2>1, <2>2, <2>3
<1> HIDE DEF Good
<1>2. U \in Good BY <1>1, StrongInduction
<1> QED BY <1>2 DEF Good

\* There is a solution on every finite set.
LEMMA SolutionExists ==
  ASSUME NEW w, NEW S, IsFiniteSet(S)
  PROVE  \E g : IsSum(g, S, w)
<1> DEFINE Good == {V \in SUBSET S : \E g : IsSum(g, V, w)}
           G(V) == CHOOSE g : IsSum(g, V, w)
<1>1. ASSUME NEW V \in SUBSET S, \A X \in SUBSET V : X # V => X \in Good
      PROVE  V \in Good
 <2> DEFINE g == [s \in SUBSET V |-> IF s = {} THEN 0 ELSE w[Pick(s)] + G(s \ {Pick(s)})[s \ {Pick(s)}]]
 <2>1. ASSUME NEW X \in SUBSET V, X # V  PROVE IsSum(G(X), X, w) BY <1>1, <2>1
 <2>2. ASSUME NEW X \in SUBSET V, X # V  PROVE g[X] = G(X)[X]
  <3>1. IsSum(G(X), X, w) BY <2>1, <2>2
  <3>2. G(X)[X] = IF X = {} THEN 0 ELSE w[Pick(X)] + G(X)[X \ {Pick(X)}]
   <4> HIDE DEF G
   <4> QED BY <3>1, SumAt
  <3>3. ASSUME X # {}  PROVE G(X)[X \ {Pick(X)}] = G(X \ {Pick(X)})[X \ {Pick(X)}]
   <4>1. X \ {Pick(X)} \in SUBSET V /\ X \ {Pick(X)} # V /\ X \ {Pick(X)} \subseteq X BY <2>2
   <4>2. IsSum(G(X \ {Pick(X)}), X \ {Pick(X)}, w) BY <2>1, <4>1
   <4>3. IsFiniteSet(X \ {Pick(X)}) BY <4>1, FS_Subset
   <4> HIDE DEF G
   <4> QED BY <3>1, <4>1, <4>2, <4>3, SolutionsAgree
  <3>4. g[X] = IF X = {} THEN 0 ELSE w[Pick(X)] + G(X \ {Pick(X)})[X \ {Pick(X)}]
   <4> HIDE DEF G
   <4> QED OBVIOUS
  <3> HIDE DEF G, g
  <3> QED BY <3>2, <3>3, <3>4
 <2>3. ASSUME NEW s \in SUBSET V
       PROVE  (IF s = {} THEN 0 ELSE w[Pick(s)] + G(s \ {Pick(s)})[s \ {Pick(s)}])
            = (IF s = {} THEN 0 ELSE w[Pick(s)] + g[s \ {Pick(s)}])
  <3>1. CASE s = {} BY <3>1
  <3>2. CASE s # {}
   <4>1. s \ {Pick(s)} \in SUBSET V /\ s \ {Pick(s)} # V BY <3>2, PickIsElement
   <4>2. g[s \ {Pick(s)}] = G(s \ {Pick(s)})[s \ {Pick(s)}] BY <2>2, <4>1
   <4> HIDE DEF G, g
   <4> QED BY <4>2
  <3> QED BY <3>1, <3>2
 <2>4. IsSum(g, V, w)
  <3>1. [s \in SUBSET V |-> IF s = {} THEN 0 ELSE w[Pick(s)] + G(s \ {Pick(s)})[s \ {Pick(s)}]]
      = [s \in SUBSET V |-> IF s = {} THEN 0 ELSE w[Pick(s)] + g[s \ {Pick(s)}]]
   <4> HIDE DEF G, g
   <4> QED BY <2>3
  <3> QED BY <3>1 DEF IsSum
 <2> QED BY <2>4
<1> HIDE DEF Good
<1>2. S \in Good BY <1>1, StrongInduction
<1> QED BY <1>2 DEF Good

--------------------
(* Laws *)

\* SumFunctionOnSet is what any solution on a larger set says.
LEMMA SumSolves ==
  ASSUME NEW w, NEW S, IsFiniteSet(S), NEW T \in SUBSET S
  PROVE  \E g : IsSum(g, S, w) /\ g[T] = SumFunctionOnSet(w, T)
<1>1. PICK g : IsSum(g, S, w) BY SolutionExists
<1>2. IsFiniteSet(T) BY FS_Subset
<1>3. PICK h : IsSum(h, T, w) BY <1>2, SolutionExists
<1>4. IsSum(CHOOSE f : IsSum(f, T, w), T, w) BY <1>3
<1>5. g[T] = (CHOOSE f : IsSum(f, T, w))[T] BY <1>1, <1>2, <1>4, SolutionsAgree
<1> QED BY <1>1, <1>5, SumIsChosen

\* Nothing adds up to 0.
LEMMA SumEmpty ==
  ASSUME NEW w
  PROVE  SumFunctionOnSet(w, {}) = 0
<1>1. PICK g : IsSum(g, {}, w) /\ g[{}] = SumFunctionOnSet(w, {}) BY SumSolves, FS_EmptySet
<1> QED BY <1>1, SumAt

\* SumFunctionOnSet satisfies its own recursion.
LEMMA SumPick ==
  ASSUME NEW w, NEW S, IsFiniteSet(S), S # {}
  PROVE  SumFunctionOnSet(w, S) = w[Pick(S)] + SumFunctionOnSet(w, S \ {Pick(S)})
<1>1. PICK g : IsSum(g, S, w) /\ g[S] = SumFunctionOnSet(w, S) BY SumSolves
<1>2. PICK h : IsSum(h, S, w) /\ h[S \ {Pick(S)}] = SumFunctionOnSet(w, S \ {Pick(S)}) BY SumSolves
<1>3. g[S \ {Pick(S)}] = h[S \ {Pick(S)}]
 <2>1. IsFiniteSet(S \ {Pick(S)}) BY FS_RemoveElement
 <2> QED BY <1>1, <1>2, <2>1, SolutionsAgree
<1>4. g[S] = w[Pick(S)] + g[S \ {Pick(S)}] BY <1>1, SumAt
<1> QED BY <1>1, <1>2, <1>3, <1>4

\* A sum of integers is one, and of numbers that are not negative too.
LEMMA SumType ==
  ASSUME NEW w, NEW S, IsFiniteSet(S), \A x \in S : w[x] \in Int
  PROVE  /\ SumFunctionOnSet(w, S) \in Int
         /\ (\A x \in S : w[x] >= 0) => SumFunctionOnSet(w, S) >= 0
<1> DEFINE Typed(V) == /\ SumFunctionOnSet(w, V) \in Int
                       /\ (\A x \in S : w[x] >= 0) => SumFunctionOnSet(w, V) >= 0
           Good == {V \in SUBSET S : Typed(V)}
<1>1. ASSUME NEW V \in SUBSET S, \A X \in SUBSET V : X # V => X \in Good
      PROVE  V \in Good
 <2>1. CASE V = {} BY <2>1, SumEmpty
 <2>2. CASE V # {}
  <3>1. IsFiniteSet(V) /\ Pick(V) \in V BY <2>2, FS_Subset, PickIsElement
  <3>2. SumFunctionOnSet(w, V) = w[Pick(V)] + SumFunctionOnSet(w, V \ {Pick(V)}) BY <2>2, <3>1, SumPick
  <3>3. V \ {Pick(V)} \in Good BY <1>1, <3>1
  <3> QED BY <3>1, <3>2, <3>3
 <2> QED BY <2>1, <2>2
<1> HIDE DEF Good
<1>2. S \in Good BY <1>1, StrongInduction
<1> QED BY <1>2 DEF Good

\* Any element can be taken out, not only the one the recursion picks.
LEMMA SumRemove ==
  ASSUME NEW w, NEW S, IsFiniteSet(S), \A x \in S : w[x] \in Int, NEW e \in S
  PROVE  SumFunctionOnSet(w, S) = w[e] + SumFunctionOnSet(w, S \ {e})
<1> DEFINE Good == {V \in SUBSET S : \A x \in V : SumFunctionOnSet(w, V) = w[x] + SumFunctionOnSet(w, V \ {x})}
<1>0. \A V \in SUBSET S : IsFiniteSet(V) /\ SumFunctionOnSet(w, V) \in Int BY FS_Subset, SumType
<1>1. ASSUME NEW V \in SUBSET S, \A X \in SUBSET V : X # V => X \in Good
      PROVE  V \in Good
 <2> SUFFICES ASSUME NEW x \in V
              PROVE  SumFunctionOnSet(w, V) = w[x] + SumFunctionOnSet(w, V \ {x})
   OBVIOUS
 <2> DEFINE p == Pick(V)
 <2>1. p \in V BY PickIsElement
 <2> HIDE DEF p
 <2>2. SumFunctionOnSet(w, V) = w[p] + SumFunctionOnSet(w, V \ {p}) BY <1>0, SumPick DEF p
 <2>3. CASE x = p BY <2>2, <2>3
 <2>4. CASE x # p
  <3>1. SumFunctionOnSet(w, V \ {p}) = w[x] + SumFunctionOnSet(w, (V \ {p}) \ {x})
   <4>1. V \ {p} \in Good /\ x \in V \ {p} BY <1>1, <2>1, <2>4
   <4> QED BY <4>1
  <3>2. SumFunctionOnSet(w, V \ {x}) = w[p] + SumFunctionOnSet(w, (V \ {x}) \ {p})
   <4>1. V \ {x} \in Good /\ p \in V \ {x} BY <1>1, <2>1, <2>4
   <4> QED BY <4>1
  <3>3. (V \ {p}) \ {x} = (V \ {x}) \ {p} OBVIOUS
  <3>4. SumFunctionOnSet(w, (V \ {p}) \ {x}) \in Int /\ w[x] \in Int /\ w[p] \in Int BY <1>0, <2>1
  <3>5. \A a, b, c \in Int : a + (b + c) = b + (a + c) OBVIOUS
  <3> DEFINE rest == SumFunctionOnSet(w, (V \ {p}) \ {x})
  <3>6. SumFunctionOnSet(w, V) = w[p] + (w[x] + rest) BY <2>2, <3>1, Zenon
  <3>7. SumFunctionOnSet(w, V \ {x}) = w[p] + rest BY <3>2, <3>3, Zenon
  <3>8. w[p] + (w[x] + rest) = w[x] + (w[p] + rest) BY <3>4, <3>5, Zenon
  <3> QED BY <3>6, <3>7, <3>8, Zenon
 <2> QED BY <2>3, <2>4
<1> HIDE DEF Good
<1>2. S \in Good BY <1>1, StrongInduction
<1> QED BY <1>2 DEF Good

\* One more element adds its weight.
LEMMA SumAdd ==
  ASSUME NEW w, NEW S, IsFiniteSet(S), NEW e, e \notin S, \A x \in S \cup {e} : w[x] \in Int
  PROVE  SumFunctionOnSet(w, S \cup {e}) = SumFunctionOnSet(w, S) + w[e]
<1>1. IsFiniteSet(S \cup {e}) BY FS_AddElement
<1>2. (S \cup {e}) \ {e} = S OBVIOUS
<1>3. SumFunctionOnSet(w, S) \in Int BY SumType
<1>4. e \in S \cup {e} OBVIOUS
<1>5. SumFunctionOnSet(w, S \cup {e}) = w[e] + SumFunctionOnSet(w, (S \cup {e}) \ {e}) BY <1>1, <1>4, SumRemove
<1>6. SumFunctionOnSet(w, S \cup {e}) = w[e] + SumFunctionOnSet(w, S) BY <1>2, <1>5, Zenon
<1>7. w[e] \in Int BY <1>4
<1> QED BY <1>3, <1>6, <1>7

\* Equal weights have equal sums, smaller ones no larger sum.
LEMMA SumCompare ==
  ASSUME NEW w, NEW v, NEW S, IsFiniteSet(S), \A x \in S : w[x] \in Int /\ v[x] \in Int /\ w[x] <= v[x]
  PROVE  SumFunctionOnSet(w, S) <= SumFunctionOnSet(v, S)
<1> DEFINE Good == {V \in SUBSET S : SumFunctionOnSet(w, V) <= SumFunctionOnSet(v, V)}
<1>0. \A V \in SUBSET S : /\ IsFiniteSet(V)
                          /\ SumFunctionOnSet(w, V) \in Int /\ SumFunctionOnSet(v, V) \in Int
  BY FS_Subset, SumType
<1>1. ASSUME NEW V \in SUBSET S, \A X \in SUBSET V : X # V => X \in Good
      PROVE  V \in Good
 <2>1. CASE V = {} BY <2>1, SumEmpty
 <2>2. CASE V # {}
  <3>1. Pick(V) \in V /\ V \ {Pick(V)} \in SUBSET S BY <2>2, PickIsElement
  <3>2. /\ SumFunctionOnSet(w, V) = w[Pick(V)] + SumFunctionOnSet(w, V \ {Pick(V)})
        /\ SumFunctionOnSet(v, V) = v[Pick(V)] + SumFunctionOnSet(v, V \ {Pick(V)})
    BY <1>0, <2>2, SumPick
  <3>3. V \ {Pick(V)} \in Good BY <1>1, <3>1
  <3>4. /\ w[Pick(V)] \in Int /\ v[Pick(V)] \in Int /\ w[Pick(V)] <= v[Pick(V)]
        /\ SumFunctionOnSet(w, V \ {Pick(V)}) \in Int /\ SumFunctionOnSet(v, V \ {Pick(V)}) \in Int
    BY <1>0, <3>1
  <3> QED BY <3>2, <3>3, <3>4
 <2> QED BY <2>1, <2>2
<1> HIDE DEF Good
<1>2. S \in Good BY <1>1, StrongInduction
<1> QED BY <1>2 DEF Good

\* Equal weights have equal sums.
LEMMA SumSame ==
  ASSUME NEW w, NEW v, NEW S, IsFiniteSet(S), \A x \in S : w[x] \in Int /\ w[x] = v[x]
  PROVE  SumFunctionOnSet(w, S) = SumFunctionOnSet(v, S)
<1>1. SumFunctionOnSet(w, S) <= SumFunctionOnSet(v, S) BY SumCompare
<1>2. SumFunctionOnSet(v, S) <= SumFunctionOnSet(w, S) BY SumCompare
<1>3. SumFunctionOnSet(v, S) \in Int /\ SumFunctionOnSet(w, S) \in Int BY SumType
<1> QED BY <1>1, <1>2, <1>3

\* A part of the elements has no larger sum where no weight is negative.
LEMMA SumOfPart ==
  ASSUME NEW w, NEW T, IsFiniteSet(T), \A x \in T : w[x] \in Nat, NEW S \in SUBSET T
  PROVE  SumFunctionOnSet(w, S) <= SumFunctionOnSet(w, T)
<1> DEFINE Good == {V \in SUBSET T : S \subseteq V => SumFunctionOnSet(w, S) <= SumFunctionOnSet(w, V)}
<1>0. \A V \in SUBSET T : IsFiniteSet(V) /\ SumFunctionOnSet(w, V) \in Int BY FS_Subset, SumType
<1>1. ASSUME NEW V \in SUBSET T, \A X \in SUBSET V : X # V => X \in Good
      PROVE  V \in Good
 <2> SUFFICES ASSUME S \subseteq V  PROVE SumFunctionOnSet(w, S) <= SumFunctionOnSet(w, V) OBVIOUS
 <2>1. CASE S = V BY <1>0, <2>1
 <2>2. CASE S # V
  <3>1. PICK e \in V : e \notin S BY <2>2
  <3>2. SumFunctionOnSet(w, V) = w[e] + SumFunctionOnSet(w, V \ {e}) BY <1>0, SumRemove
  <3>3. SumFunctionOnSet(w, S) <= SumFunctionOnSet(w, V \ {e}) BY <1>1, <3>1
  <3>4. w[e] \in Nat /\ SumFunctionOnSet(w, S) \in Int /\ SumFunctionOnSet(w, V \ {e}) \in Int BY <1>0
  <3> QED BY <3>2, <3>3, <3>4
 <2> QED BY <2>1, <2>2
<1> HIDE DEF Good
<1>2. T \in Good BY <1>1, StrongInduction
<1> QED BY <1>2 DEF Good

\* The sum over two disjoint sets is the sum of their sums.
LEMMA SumUnion ==
  ASSUME NEW w, NEW S, NEW T, IsFiniteSet(S), IsFiniteSet(T), S \cap T = {}, \A x \in S \cup T : w[x] \in Int
  PROVE  SumFunctionOnSet(w, S \cup T) = SumFunctionOnSet(w, S) + SumFunctionOnSet(w, T)
<1> DEFINE Good == {V \in SUBSET T : SumFunctionOnSet(w, S \cup V) = SumFunctionOnSet(w, S) + SumFunctionOnSet(w, V)}
<1>0. /\ SumFunctionOnSet(w, S) \in Int
      /\ \A V \in SUBSET T : /\ IsFiniteSet(V) /\ IsFiniteSet(S \cup V) /\ SumFunctionOnSet(w, V) \in Int
                             /\ SumFunctionOnSet(w, S \cup V) \in Int
  BY FS_Subset, FS_Union, SumType
<1>1. ASSUME NEW V \in SUBSET T, \A X \in SUBSET V : X # V => X \in Good
      PROVE  V \in Good
 <2> SUFFICES SumFunctionOnSet(w, S \cup V) = SumFunctionOnSet(w, S) + SumFunctionOnSet(w, V) OBVIOUS
 <2>1. CASE V = {}
  <3>1. S \cup V = S BY <2>1
  <3>2. SumFunctionOnSet(w, V) = 0 BY <2>1, SumEmpty
  <3> QED BY <1>0, <3>1, <3>2
 <2>2. CASE V # {}
  <3>1. PICK e \in V : TRUE BY <2>2
  <3>2. SumFunctionOnSet(w, V) = w[e] + SumFunctionOnSet(w, V \ {e})
   <4>1. IsFiniteSet(V) /\ e \in V /\ \A x \in V : w[x] \in Int BY <1>0, <3>1
   <4> QED BY <4>1, SumRemove
  <3>3. SumFunctionOnSet(w, S \cup V) = w[e] + SumFunctionOnSet(w, (S \cup V) \ {e})
   <4>1. IsFiniteSet(S \cup V) /\ e \in S \cup V /\ \A x \in S \cup V : w[x] \in Int BY <1>0, <3>1
   <4> QED BY <4>1, SumRemove
  <3>4. (S \cup V) \ {e} = S \cup (V \ {e}) BY <3>1
  <3>7. V \ {e} \in SUBSET V /\ V \ {e} # V BY <3>1
  <3>8. V \ {e} \in Good BY <1>1, <3>7
  <3>5. SumFunctionOnSet(w, S \cup (V \ {e})) = SumFunctionOnSet(w, S) + SumFunctionOnSet(w, V \ {e}) BY <3>8
  <3>6. w[e] \in Int /\ SumFunctionOnSet(w, V \ {e}) \in Int /\ SumFunctionOnSet(w, S) \in Int
   <4>1. V \ {e} \in SUBSET T BY <3>1
   <4> QED BY <1>0, <4>1
  <3>9. SumFunctionOnSet(w, S \cup V) = w[e] + (SumFunctionOnSet(w, S) + SumFunctionOnSet(w, V \ {e}))
    BY <3>3, <3>4, <3>5
  <3> HIDE DEF Good
  <3> QED BY <3>2, <3>6, <3>9
 <2> QED BY <2>1, <2>2
<1> HIDE DEF Good
<1>2. T \in Good BY <1>1, StrongInduction
<1> QED BY <1>2 DEF Good
=============================================================================
