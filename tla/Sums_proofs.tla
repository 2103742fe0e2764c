---------------------------- MODULE Sums_proofs ----------------------------
(***************************************************************************)
(* What can be said of a sum over a finite set, whatever the order its     *)
(* terms are added in, and of the highest of its elements.  Induction over *)
(* finite sets is done with their smallest counterexample.                 *)
(***************************************************************************)
EXTENDS Sums, Integers, FiniteSetTheorems, WellFoundedInduction, TLAPS

\* A sum is the value of a function that adds the elements one by one, in an
\* order nobody fixed.
Pick(s) == CHOOSE x \in s : TRUE
Adding(f, S, g) ==
  g = [s \in SUBSET S |-> IF s = {} THEN 0 ELSE f[Pick(s)] + g[s \ {Pick(s)}]]

LEMMA SumIsChosen ==
  ASSUME NEW f
  PROVE  Sum(f) = (CHOOSE g : Adding(f, DOMAIN f, g))[DOMAIN f]
BY DEF Sum, Folded!SumFunction, Folded!SumFunctionOnSet, Folded!FoldFunctionOnSet,
   Folded!MapThenFoldSet, Adding, Pick

LEMMA PickFacts ==
  ASSUME NEW s, s # {}
  PROVE  Pick(s) \in s
BY DEF Pick

LEMMA AddingFacts ==
  ASSUME NEW f, NEW S, NEW g, Adding(f, S, g)
  PROVE  /\ {} \in SUBSET S /\ g[{}] = 0
         /\ \A C \in SUBSET S : C # {} =>
              /\ Pick(C) \in C /\ C \ {Pick(C)} \in SUBSET S
              /\ g[C] = f[Pick(C)] + g[C \ {Pick(C)}]
<1>1. \A C \in SUBSET S : g[C] = IF C = {} THEN 0 ELSE f[Pick(C)] + g[C \ {Pick(C)}]
  BY DEF Adding
<1> QED BY <1>1, PickFacts

LEMMA AddingAt ==
  ASSUME NEW f, NEW S, NEW g, Adding(f, S, g), NEW C \in SUBSET S, C # {}
  PROVE  Pick(C) \in C /\ g[C] = f[Pick(C)] + g[C \ {Pick(C)}]
BY AddingFacts

\* Among subsets of a finite set there is one that none of them is a proper part of.
LEMMA SmallestSubset ==
  ASSUME NEW S, IsFiniteSet(S), NEW T \in SUBSET SUBSET S, T # {}
  PROVE  \E A \in T : \A B \in T : B \subseteq A => B = A
<1> DEFINE R == StrictSubsetOrdering(S)
<1>1. T \subseteq FiniteSubsetsOf(S)
  <2>1. ASSUME NEW A \in T PROVE A \in SUBSET S /\ IsFiniteSet(A)
    BY FS_Subset
  <2> QED BY <2>1 DEF FiniteSubsetsOf
<1>2. IsWellFoundedOn(R, FiniteSubsetsOf(S))
  BY FS_StrictSubsetOrderingWellFounded
<1>3. PICK A \in T : \A B \in T : ~ (<<B, A>> \in R)
  <2> HIDE DEF R
  <2> QED BY <1>1, <1>2, WFMin
<1>4. ASSUME NEW B \in T, B \subseteq A, B # A PROVE FALSE
  <2>1. B \in SUBSET S /\ A \in SUBSET S
    OBVIOUS
  <2>2. <<B, A>> \in R
    BY <1>4, <2>1 DEF StrictSubsetOrdering
  <2> QED BY <1>3, <2>2
<1> QED BY <1>4

\* Of finitely many there is a highest.
LEMMA HighestExists ==
  ASSUME NEW S, IsFiniteSet(S), S # {}, NEW w \in [S -> Int]
  PROVE  \E x \in S : \A y \in S : w[y] <= w[x]
<1> DEFINE Above(x) == {y \in S : w[y] > w[x]}
           T == {Above(x) : x \in S}
<1>1. T \in SUBSET SUBSET S /\ T # {}
  <2>1. \A x \in S : Above(x) \in SUBSET S
    OBVIOUS
  <2> HIDE DEF Above
  <2> QED BY <2>1
<1>2. PICK A \in T : \A B \in T : B \subseteq A => B = A
  <2> HIDE DEF T
  <2> QED BY <1>1, SmallestSubset
<1>3. PICK x \in S : A = Above(x)
  BY <1>2
<1>4. ASSUME NEW y \in S, ~(w[y] <= w[x]) PROVE FALSE
  <2>1. w[x] \in Int /\ w[y] \in Int /\ w[y] > w[x]
    BY <1>4
  <2>2. y \in Above(x) /\ y \notin Above(y)
    BY <2>1
  <2>3. ASSUME NEW z \in Above(y) PROVE z \in Above(x)
    <3>1. z \in S /\ w[z] \in Int /\ w[z] > w[y]
      OBVIOUS
    <3> QED BY <2>1, <3>1
  <2>4. Above(y) \in T /\ Above(y) \subseteq Above(x)
    BY <2>3
  <2> HIDE DEF Above, T
  <2> QED BY <1>2, <1>3, <2>2, <2>4
<1> QED BY <1>4

LEMMA AddingAgrees ==
  ASSUME NEW e, NEW f, NEW A, NEW B, NEW g, NEW h, IsFiniteSet(A),
         Adding(e, A, g), Adding(f, B, h), NEW C \in SUBSET A, C \subseteq B,
         \A x \in C : e[x] = f[x]
  PROVE  g[C] = h[C]
<1> DEFINE T == {D \in SUBSET C : g[D] # h[D]}
<1> SUFFICES ASSUME T # {} PROVE FALSE
  OBVIOUS
<1>1. PICK D \in SUBSET C : D \in T /\ \A E \in T : E \subseteq D => E = D
  <2>1. T \in SUBSET SUBSET C /\ IsFiniteSet(C)
    BY FS_Subset
  <2> HIDE DEF T
  <2> QED BY <2>1, SmallestSubset
<1>2. D \in SUBSET A /\ D \in SUBSET B /\ g[D] # h[D]
  BY <1>1
<1>3. g[{}] = 0 /\ h[{}] = 0
  <2> HIDE DEF T
  <2> QED BY AddingFacts
<1>4. /\ Pick(D) \in D
      /\ g[D] = e[Pick(D)] + g[D \ {Pick(D)}]
      /\ h[D] = f[Pick(D)] + h[D \ {Pick(D)}]
  <2>1. D # {}
    BY <1>2, <1>3
  <2> HIDE DEF T
  <2>2. Pick(D) \in D /\ g[D] = e[Pick(D)] + g[D \ {Pick(D)}]
    BY <1>2, <2>1, AddingAt
  <2>3. h[D] = f[Pick(D)] + h[D \ {Pick(D)}]
    BY <1>2, <2>1, AddingAt
  <2> QED BY <2>2, <2>3
<1>5. D \ {Pick(D)} \notin T
  BY <1>1, <1>4
<1> QED BY <1>2, <1>4, <1>5

\* There is such a function for every finite set.
LEMMA AddingExists ==
  ASSUME NEW f, NEW S, IsFiniteSet(S)
  PROVE  \E g : Adding(f, S, g)
<1> DEFINE T == {A \in SUBSET S : \A g : ~Adding(f, A, g)}
<1> SUFFICES ASSUME T # {} PROVE FALSE
  OBVIOUS
<1>1. PICK A \in T : \A B \in T : B \subseteq A => B = A
  <2>1. T \in SUBSET SUBSET S
    OBVIOUS
  <2> HIDE DEF T
  <2> QED BY <2>1, SmallestSubset
<1> DEFINE at(C) == CHOOSE g : Adding(f, C, g)
           val(C) == at(C)[C]
<1>2. ASSUME NEW C \in SUBSET A, C # A
      PROVE  Adding(f, C, at(C)) /\ IsFiniteSet(C)
  <2>1. C \in SUBSET S /\ C \notin T
    BY <1>1, <1>2
  <2>2. \E g : Adding(f, C, g)
    BY <2>1
  <2> QED BY <2>1, <2>2, FS_Subset
<1>3. A # {} => val({}) = 0
  BY <1>2, AddingFacts
<1>4. ASSUME NEW C \in SUBSET A, C # A, C # {}
      PROVE  val(C) = f[Pick(C)] + val(C \ {Pick(C)})
  <2> DEFINE D == C \ {Pick(C)}
  <2>1. Pick(C) \in C /\ at(C)[C] = f[Pick(C)] + at(C)[D]
    <3>1. Adding(f, C, at(C)) /\ C \in SUBSET C
      BY <1>2, <1>4
    <3> HIDE DEF at
    <3> QED BY <1>4, <3>1, AddingFacts
  <2>2. D \in SUBSET A /\ D # A /\ D \in SUBSET C /\ D \subseteq D
    BY <2>1
  <2>3. Adding(f, C, at(C)) /\ Adding(f, D, at(D)) /\ IsFiniteSet(C)
    BY <1>2, <1>4, <2>2
  <2>4. at(C)[D] = at(D)[D]
    <3> HIDE DEF at, D
    <3> QED BY <2>2, <2>3, AddingAgrees
  <2> QED BY <2>1, <2>4
<1> DEFINE G == [C \in SUBSET A |-> IF C = {} THEN 0 ELSE f[Pick(C)] + val(C \ {Pick(C)})]
<1>5. ASSUME NEW C \in SUBSET A, C # {}
      PROVE  G[C \ {Pick(C)}] = val(C \ {Pick(C)})
  <2> DEFINE D == C \ {Pick(C)}
  <2>1. Pick(C) \in C
    BY <1>5, PickFacts
  <2>2. D \in SUBSET A /\ D # A /\ A # {}
    BY <2>1
  <2>3. G[D] = IF D = {} THEN 0 ELSE f[Pick(D)] + val(D \ {Pick(D)})
    <3> HIDE DEF D, val
    <3> QED BY <2>2
  <2> HIDE DEF D, val, G
  <2>4. G[D] = val(D)
    BY <1>3, <1>4, <2>2, <2>3
  <2> QED BY <2>4 DEF D
<1>6. Adding(f, A, G)
  <2> DEFINE H == [C \in SUBSET A |-> IF C = {} THEN 0 ELSE f[Pick(C)] + G[C \ {Pick(C)}]]
  <2>1. \A C \in SUBSET A : G[C] = H[C]
    <3>1. ASSUME NEW C \in SUBSET A, C # {} PROVE G[C] = H[C]
      <4>1. G[C] = f[Pick(C)] + val(C \ {Pick(C)})
        <5> HIDE DEF val
        <5> QED BY <3>1
      <4>2. H[C] = f[Pick(C)] + G[C \ {Pick(C)}]
        <5> HIDE DEF G
        <5> QED BY <3>1
      <4> HIDE DEF G, H, val
      <4> QED BY <1>5, <3>1, <4>1, <4>2
    <3> QED BY <3>1
  <2>2. G = H
    <3>1. DOMAIN G = SUBSET A /\ DOMAIN H = SUBSET A
          /\ G = [C \in DOMAIN G |-> G[C]] /\ H = [C \in DOMAIN H |-> H[C]]
      OBVIOUS
    <3> HIDE DEF G, H
    <3> QED BY <2>1, <3>1
  <2> HIDE DEF G
  <2> QED BY <2>2 DEF Adding
<1>7. \A g : ~Adding(f, A, g)
  BY <1>1
<1> HIDE DEF G
<1> QED BY <1>6, <1>7

\* What a sum is: the value of a function that adds one element after another.
LEMMA SumAdds ==
  ASSUME NEW f, IsFiniteSet(DOMAIN f)
  PROVE  \E g : Adding(f, DOMAIN f, g) /\ Sum(f) = g[DOMAIN f]
<1>1. \E g : Adding(f, DOMAIN f, g)
  BY AddingExists
<1> QED BY <1>1, SumIsChosen

\* The order does not matter.
Splits(f, S, g) ==
  \A C \in SUBSET S : g[C] \in Int /\ \A x \in C : g[C] = f[x] + g[C \ {x}]

LEMMA AnyOrder ==
  ASSUME NEW S, IsFiniteSet(S), NEW f \in [S -> Int], NEW g, Adding(f, S, g)
  PROVE  Splits(f, S, g)
<1>1. ASSUME NEW T \in SUBSET SUBSET S, T # {}
      PROVE  \E A \in T : \A B \in T : B \subseteq A => B = A
  BY <1>1, SmallestSubset
<1>2. \A C \in SUBSET S : g[C] \in Int
  <2> DEFINE T == {C \in SUBSET S : g[C] \notin Int}
  <2> SUFFICES ASSUME T # {} PROVE FALSE
    OBVIOUS
  <2>1. PICK C \in T : \A B \in T : B \subseteq C => B = C
    <3>1. T \in SUBSET SUBSET S
      OBVIOUS
    <3> HIDE DEF T
    <3> QED BY <1>1, <3>1
  <2>2. C \in SUBSET S /\ g[C] \notin Int
    OBVIOUS
  <2>3. Pick(C) \in C /\ g[C] = f[Pick(C)] + g[C \ {Pick(C)}]
    <3>1. g[{}] = 0
      <4> HIDE DEF T
      <4> QED BY AddingFacts
    <3>2. C # {}
      BY <2>2, <3>1
    <3> HIDE DEF T
    <3> QED BY <2>2, <3>2, AddingFacts
  <2>4. C \ {Pick(C)} \notin T
    BY <2>1, <2>3
  <2>5. g[C \ {Pick(C)}] \in Int /\ f[Pick(C)] \in Int
    BY <2>2, <2>3, <2>4
  <2> QED BY <2>2, <2>3, <2>5
<1>3. \A C \in SUBSET S : \A x \in C : g[C] = f[x] + g[C \ {x}]
  <2> DEFINE T == {C \in SUBSET S : \E x \in C : g[C] # f[x] + g[C \ {x}]}
  <2> SUFFICES ASSUME T # {} PROVE FALSE
    OBVIOUS
  <2>1. PICK C \in T : \A B \in T : B \subseteq C => B = C
    <3>1. T \in SUBSET SUBSET S
      OBVIOUS
    <3> HIDE DEF T
    <3> QED BY <1>1, <3>1
  <2>2. PICK x \in C : g[C] # f[x] + g[C \ {x}]
    BY <2>1
  <2> DEFINE y == Pick(C)
  <2>3. y \in C /\ g[C] = f[y] + g[C \ {y}] /\ C \in SUBSET S /\ x # y
    <3>1. C \in SUBSET S /\ C # {}
      BY <2>2
    <3>2. Pick(C) \in C /\ g[C] = f[Pick(C)] + g[C \ {Pick(C)}]
      BY <3>1, AddingAt
    <3> QED BY <2>2, <3>1, <3>2
  <2> HIDE DEF y
  <2>4. C \ {y} \notin T /\ C \ {x} \notin T
    BY <2>1, <2>2, <2>3
  <2>5. /\ g[C \ {y}] = f[x] + g[(C \ {y}) \ {x}]
        /\ g[C \ {x}] = f[y] + g[(C \ {x}) \ {y}]
    BY <2>2, <2>3, <2>4
  <2>6. (C \ {y}) \ {x} = (C \ {x}) \ {y}
    OBVIOUS
  <2>7. f[x] \in Int /\ f[y] \in Int /\ g[(C \ {x}) \ {y}] \in Int
    BY <1>2, <2>2, <2>3
  <2>8. PICK m \in Int : m = g[(C \ {x}) \ {y}]
    BY <2>7
  <2>9. g[C] = f[y] + (f[x] + m) /\ g[C \ {x}] = f[y] + m
    BY <2>3, <2>5, <2>6, <2>8
  <2>10. f[y] + (f[x] + m) = f[x] + (f[y] + m)
    BY <2>7, <2>8
  <2> QED BY <2>2, <2>9, <2>10
<1> QED BY <1>2, <1>3 DEF Splits

LEMMA SumOfNone ==
  ASSUME NEW f, DOMAIN f = {}
  PROVE  Sum(f) = 0
<1>1. IsFiniteSet(DOMAIN f)
  BY FS_EmptySet
<1> QED BY <1>1, SumAdds, AddingFacts

\* A sum is any one value and the sum of the others.
LEMMA SumOfOneMore ==
  ASSUME NEW S, IsFiniteSet(S), NEW x \in S, NEW g \in [S -> Int],
         NEW f \in [S \ {x} -> Int], \A s \in S \ {x} : f[s] = g[s]
  PROVE  Sum(f) \in Int /\ Sum(g) = Sum(f) + g[x]
<1> DEFINE R == S \ {x}
<1>1. IsFiniteSet(R) /\ R \in SUBSET S /\ DOMAIN f = R /\ DOMAIN g = S
  BY FS_Subset
<1>2. PICK h : Adding(f, R, h) /\ Sum(f) = h[R]
  BY <1>1, SumAdds
<1>3. PICK k : Adding(g, S, k) /\ Sum(g) = k[S]
  BY <1>1, SumAdds
<1>4. k[S] = g[x] + k[R] /\ k[R] \in Int
  <2>1. Splits(g, S, k)
    BY <1>3, AnyOrder
  <2> QED BY <1>1, <2>1 DEF Splits
<1>5. h[R] = k[R]
  <2>1. R \in SUBSET R /\ R \subseteq S /\ \A y \in R : f[y] = g[y]
    OBVIOUS
  <2> HIDE DEF R
  <2> QED BY <1>1, <1>2, <1>3, <2>1, AddingAgrees
<1>6. g[x] \in Int
  OBVIOUS
<1> QED BY <1>2, <1>3, <1>4, <1>5, <1>6

LEMMA SumIsInt ==
  ASSUME NEW S, IsFiniteSet(S), NEW f \in [S -> Int]
  PROVE  Sum(f) \in Int
<1>1. PICK g : Adding(f, S, g) /\ Sum(f) = g[S]
  BY SumAdds
<1>2. S \in SUBSET S
  OBVIOUS
<1>3. Splits(f, S, g)
  BY <1>1, AnyOrder
<1> QED BY <1>1, <1>2, <1>3 DEF Splits

\* All of this at once.
LEMMA SumSplits ==
  ASSUME NEW S, IsFiniteSet(S), NEW f \in [S -> Int]
  PROVE  \E g : /\ Sum(f) = g[S] /\ g[{}] = 0
                /\ Splits(f, S, g)
<1>1. PICK g : Adding(f, S, g) /\ Sum(f) = g[S]
  BY SumAdds
<1>2. g[{}] = 0
  BY <1>1, AddingFacts
<1>3. Splits(f, S, g)
  BY <1>1, AnyOrder
<1> QED BY <1>1, <1>2, <1>3

\* The opposites add up to the opposite.
LEMMA SumOfOpposites ==
  ASSUME NEW S, IsFiniteSet(S), NEW e \in [S -> Int], NEW f \in [S -> Int]
  PROVE  (\A x \in S : f[x] = -e[x]) => Sum(f) = -Sum(e)
<1>1. PICK g : /\ Sum(e) = g[S] /\ g[{}] = 0
               /\ Splits(e, S, g)
  BY SumSplits
<1>2. PICK h : /\ Sum(f) = h[S] /\ h[{}] = 0
               /\ Splits(f, S, h)
  BY SumSplits
<1> HAVE \A x \in S : f[x] = -e[x]
<1> DEFINE T == {C \in SUBSET S : h[C] + g[C] # 0}
<1>3. ASSUME T # {} PROVE FALSE
  <2>1. PICK C \in SUBSET S : C \in T /\ \A B \in T : B \subseteq C => B = C
    <3>1. T \in SUBSET SUBSET S
      OBVIOUS
    <3> HIDE DEF T
    <3> QED BY <1>3, <3>1, SmallestSubset
  <2>2. h[C] + g[C] # 0
    BY <2>1
  <2>3. C # {}
    <3> HIDE DEF T
    <3>1. g[{}] = 0 /\ h[{}] = 0
      BY <1>1, <1>2
    <3> QED BY <2>2, <3>1
  <2>4. PICK D \in SUBSET S, x \in C : D = C \ {x} /\ x \in S
    BY <2>3
  <2>5. h[D] + g[D] = 0
    BY <2>1, <2>4
  <2>6. g[C] = e[x] + g[D] /\ h[C] = f[x] + h[D]
    BY <1>1, <1>2, <2>4 DEF Splits
  <2>7. f[x] = -e[x] /\ e[x] \in Int /\ g[D] \in Int /\ h[D] \in Int
    BY <1>1, <1>2, <2>4 DEF Splits
  <2> QED BY <2>2, <2>5, <2>6, <2>7
<1>4. h[S] + g[S] = 0 /\ h[S] \in Int /\ g[S] \in Int
  <2>1. S \in SUBSET S /\ S \notin T
    BY <1>3
  <2>2. h[S] \in Int /\ g[S] \in Int
    BY <1>1, <1>2, <2>1 DEF Splits
  <2> QED BY <2>1, <2>2
<1> QED BY <1>1, <1>2, <1>4
=============================================================================
