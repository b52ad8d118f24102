---------------------------- MODULE SumTheorems ----------------------------
(***************************************************************************)
(* Sums of a function over a finite set, SumFunction of module Functions:  *)
(* what the proofs about refunds and returned units need of them.          *)
(*                                                                         *)
(* SumFunction is a fold, defined by recursion on sets.  The facts are     *)
(* proved by minimal counterexample: a finite set has no infinite chain of *)
(* smaller and smaller subsets, so among the sets for which a fact fails   *)
(* one has no such subset.                                                 *)
(***************************************************************************)
EXTENDS Functions, FiniteSetTheorems, WellFoundedInduction, TLAPS

\* A set of naturals has a least element.
LEMMA LeastNatural ==
  ASSUME NEW T \in SUBSET Nat, T # {}
  PROVE  \E n \in T : \A m \in T : n <= m
  <1>1. PICK n \in T : \A m \in T : ~(<<m, n>> \in OpToRel(<, Nat))
    BY WFMin, NatLessThanWellFounded
  <1>2. \A m \in T : ~(m < n)
    BY <1>1 DEF OpToRel
  <1> QED  BY <1>2

\* Among some subsets of a finite set there is one that contains no other.
LEMMA MinimalSubset ==
  ASSUME NEW S, IsFiniteSet(S), NEW T \in SUBSET SUBSET S, T # {}
  PROVE  \E A \in T : \A B \in T : B \subseteq A => B = A
  <1>1. IsWellFoundedOn(StrictSubsetOrdering(S), SUBSET S)
    BY FS_StrictSubsetOrderingWellFounded, FS_FiniteSubsetsOfFinite
  <1>2. PICK A \in T : \A B \in T : ~(<<B, A>> \in StrictSubsetOrdering(S))
    BY <1>1, WFMin
  <1> QED  BY <1>2 DEF StrictSubsetOrdering

\* The element the fold takes out of A, and the function that the fold defines
\* by recursion.
Chosen(A) == CHOOSE x \in A : TRUE

Added(g, f, S) ==
  [A \in SUBSET S |-> IF A = {} THEN 0 ELSE f[Chosen(A)] + g[A \ {Chosen(A)}]]

\* SumFunction down to the CHOOSE of its recursive definition.
LEMMA SumUnfold ==
  ASSUME NEW f
  PROVE  SumFunction(f) = (CHOOSE g : g = Added(g, f, DOMAIN f))[DOMAIN f]
  BY DEF SumFunction, SumFunctionOnSet, FoldFunctionOnSet, MapThenFoldSet, Added, Chosen

LEMMA ChosenIn ==
  ASSUME NEW A, A # {}
  PROVE  Chosen(A) \in A
  BY DEF Chosen

\* The recursion has a solution: for the sets of at most n elements, for every n.
LEMMA AddedExists ==
  ASSUME NEW D, IsFiniteSet(D), NEW f \in [D -> Int]
  PROVE  \E g : g = Added(g, f, D)
  <1> DEFINE Small(n) == {A \in SUBSET D : Cardinality(A) <= n}
             Step(g, A) == IF A = {} THEN 0 ELSE f[Chosen(A)] + g[A \ {Chosen(A)}]
             Partial(g, n) == \A A \in Small(n) : g[A] = Step(g, A)
             Bad == {n \in Nat : ~ \E g : Partial(g, n)}
  <1>0. \A A \in SUBSET D : IsFiniteSet(A) /\ Cardinality(A) \in Nat
    BY FS_Subset, FS_CardinalityType
  <1>1. Bad = {}
    <2> SUFFICES ASSUME Bad # {} PROVE FALSE
      OBVIOUS
    <2>1. PICK n \in Bad : \A m \in Bad : n <= m
      BY LeastNatural
    <2>2. n # 0
      <3>1. \A A \in Small(0) : A = {}
        BY <1>0, FS_EmptySet
      <3>2. Partial([A \in Small(0) |-> 0], 0)
        BY <3>1
      <3> QED BY <3>2
    <2>3. n - 1 \in Nat /\ n - 1 \notin Bad
      <3>1. n \in Nat /\ n # 0
        BY <2>1, <2>2
      <3> HIDE DEF Bad
      <3> QED BY <3>1, <2>1
    <2>4. PICK g : Partial(g, n - 1)
      BY <2>3
    <2> DEFINE h == [A \in Small(n) |-> IF A \in Small(n - 1) THEN g[A] ELSE Step(g, A)]
    <2>5. ASSUME NEW A \in Small(n)
          PROVE  h[A] = Step(h, A)
      <3>1. CASE A = {}
        <4>1. A \in Small(n - 1)
          BY <3>1, <2>3, FS_EmptySet
        <4> QED BY <3>1, <4>1, <2>4
      <3>2. CASE A # {}
        <4> DEFINE B == A \ {Chosen(A)}
        <4>1. Chosen(A) \in A
          BY <3>2, ChosenIn
        <4>2. Cardinality(B) = Cardinality(A) - 1
          BY <4>1, <1>0, FS_RemoveElement
        <4>3. B \in SUBSET D /\ B \in Small(n - 1) /\ B \in Small(n)
          BY <4>2, <1>0, <2>3
        <4>4. h[B] = g[B]
          BY <4>3
        <4>5. h[A] = Step(g, A)
          BY <2>4
        <4> HIDE DEF h, Small
        <4> QED BY <3>2, <4>4, <4>5
      <3> QED BY <3>1, <3>2
    <2>6. Partial(h, n)
      BY <2>5
    <2> QED BY <2>6, <2>1
  <1>2. PICK g : Partial(g, Cardinality(D))
    BY <1>0, <1>1
  <1>3. Small(Cardinality(D)) = SUBSET D
    BY <1>0, FS_Subset
  <1> DEFINE h == [A \in SUBSET D |-> g[A]]
  <1>4. \A A \in SUBSET D : h[A] = Step(h, A)
    BY <1>2, <1>3
  <1>5. h = Added(h, f, D)
    BY <1>4 DEF Added
  <1> QED  BY <1>5

\* Its values are integers.
LEMMA AddedType ==
  ASSUME NEW D, IsFiniteSet(D), NEW f \in [D -> Int], NEW g, g = Added(g, f, D)
  PROVE  g \in [SUBSET D -> Int]
  <1> DEFINE Bad == {A \in SUBSET D : g[A] \notin Int}
  <1>0. \A A \in SUBSET D : g[A] = IF A = {} THEN 0 ELSE f[Chosen(A)] + g[A \ {Chosen(A)}]
    BY DEF Added
  <1>1. Bad = {}
    <2> SUFFICES ASSUME Bad # {} PROVE FALSE
      OBVIOUS
    <2>1. Bad \in SUBSET SUBSET D
      OBVIOUS
    <2> HIDE DEF Bad
    <2>2. PICK A \in Bad : \A B \in Bad : B \subseteq A => B = A
      BY <2>1, MinimalSubset
    <2>3. A \in SUBSET D /\ g[A] \notin Int
      BY <2>2 DEF Bad
    <2>4. A # {}
      BY <2>3, <1>0
    <2>5. Chosen(A) \in A /\ Chosen(A) \in D
      BY <2>3, <2>4, ChosenIn
    <2>6. g[A \ {Chosen(A)}] \in Int
      BY <2>2, <2>3, <2>5 DEF Bad
    <2>7. g[A] = f[Chosen(A)] + g[A \ {Chosen(A)}]
      BY <2>3, <2>4, <1>0
    <2>8. f[Chosen(A)] \in Int
      BY <2>5
    <2> QED BY <2>3, <2>6, <2>7, <2>8
  <1>2. g = [A \in SUBSET D |-> g[A]]
    BY DEF Added
  <1> QED  BY <1>1, <1>2

\* SumFunction by its recurrence, the only fact about its definition used below.
LEMMA SumIs ==
  ASSUME NEW D, IsFiniteSet(D), NEW f \in [D -> Int]
  PROVE  \E g \in [SUBSET D -> Int] :
           /\ \A A \in SUBSET D :
                g[A] = IF A = {} THEN 0 ELSE f[Chosen(A)] + g[A \ {Chosen(A)}]
           /\ SumFunction(f) = g[D]
  <1> DEFINE g == CHOOSE g : g = Added(g, f, D)
  <1>1. g = Added(g, f, D)
    BY AddedExists
  <1>2. g \in [SUBSET D -> Int]
    BY <1>1, AddedType
  <1>3. \A A \in SUBSET D :
          g[A] = IF A = {} THEN 0 ELSE f[Chosen(A)] + g[A \ {Chosen(A)}]
    BY <1>1 DEF Added
  <1>4. SumFunction(f) = g[D]
    BY SumUnfold
  <1> QED  BY <1>2, <1>3, <1>4

\* A sum of integers is an integer.
LEMMA SumType ==
  ASSUME NEW D, IsFiniteSet(D), NEW f \in [D -> Int]
  PROVE  SumFunction(f) \in Int
  <1>1. PICK g \in [SUBSET D -> Int] : SumFunction(f) = g[D]
    BY SumIs
  <1> QED  BY <1>1

\* The sum of f + g is the sum of f plus the sum of g.
LEMMA SumPlus ==
  ASSUME NEW D, IsFiniteSet(D), NEW f \in [D -> Int], NEW g \in [D -> Int],
         NEW h \in [D -> Int], \A x \in D : h[x] = f[x] + g[x]
  PROVE  SumFunction(h) = SumFunction(f) + SumFunction(g)
  <1> DEFINE Sums(F, e) ==
        \A A \in SUBSET D : F[A] = IF A = {} THEN 0 ELSE e[Chosen(A)] + F[A \ {Chosen(A)}]
  <1>1. PICK F \in [SUBSET D -> Int] : Sums(F, f) /\ SumFunction(f) = F[D]
    BY SumIs
  <1>2. PICK G \in [SUBSET D -> Int] : Sums(G, g) /\ SumFunction(g) = G[D]
    BY SumIs
  <1>3. PICK H \in [SUBSET D -> Int] : Sums(H, h) /\ SumFunction(h) = H[D]
    BY SumIs
  <1> DEFINE Bad == {A \in SUBSET D : H[A] # F[A] + G[A]}
  <1>4. Bad = {}
    <2> SUFFICES ASSUME Bad # {} PROVE FALSE
      OBVIOUS
    <2>1. Bad \in SUBSET SUBSET D
      OBVIOUS
    <2>2. PICK A \in Bad : \A B \in Bad : B \subseteq A => B = A
      <3> HIDE DEF Bad
      <3> QED BY <2>1, MinimalSubset
    <2>3. A \in SUBSET D /\ H[A] # F[A] + G[A]
      BY <2>2
    <2>4. A # {}
      <3>1. {} \in SUBSET D
        OBVIOUS
      <3>2. F[{}] = 0 /\ G[{}] = 0 /\ H[{}] = 0
        BY <3>1, <1>1, <1>2, <1>3
      <3>3. H[{}] = F[{}] + G[{}]
        BY <3>2
      <3> QED BY <3>3, <2>3
    <2> DEFINE x == Chosen(A)
               B == A \ {x}
    <2>5. x \in A /\ x \in D
      BY <2>3, <2>4, ChosenIn
    <2>6. B \in SUBSET D /\ H[B] = F[B] + G[B]
      <3> B \in SUBSET D /\ B # A /\ B \subseteq A
        BY <2>3, <2>5
      <3> HIDE DEF B
      <3> QED BY <2>2
    <2>7. F[A] = f[x] + F[B] /\ G[A] = g[x] + G[B] /\ H[A] = h[x] + H[B]
      BY <2>3, <2>4, <1>1, <1>2, <1>3
    <2>8. /\ f[x] \in Int /\ g[x] \in Int /\ h[x] = f[x] + g[x]
          /\ F[B] \in Int /\ G[B] \in Int
      BY <2>5, <2>6
    <2> HIDE DEF x, B
    <2> QED BY <2>3, <2>6, <2>7, <2>8
  <1>5. D \in SUBSET D
    OBVIOUS
  <1> QED  BY <1>1, <1>2, <1>3, <1>4, <1>5

\* A sum of zeros is zero.
LEMMA SumZero ==
  ASSUME NEW D, IsFiniteSet(D)
  PROVE  SumFunction([x \in D |-> 0]) = 0
  <1> DEFINE z == [x \in D |-> 0]
  <1>1. z \in [D -> Int] /\ \A x \in D : z[x] = z[x] + z[x]
    OBVIOUS
  <1> HIDE DEF z
  <1>2. SumFunction(z) = SumFunction(z) + SumFunction(z)
    BY <1>1, SumPlus
  <1>3. SumFunction(z) \in Int
    BY <1>1, SumType
  <1>4. \A n \in Int : n = n + n => n = 0
    OBVIOUS
  <1>5. SumFunction(z) = 0
    BY <1>2, <1>3, <1>4
  <1> QED  BY <1>5 DEF z

\* The sum of a function that is 0 everywhere but in x is its value in x.
LEMMA SumPoint ==
  ASSUME NEW D, IsFiniteSet(D), NEW f \in [D -> Int], NEW x \in D,
         \A y \in D \ {x} : f[y] = 0
  PROVE  SumFunction(f) = f[x]
  <1>1. PICK F \in [SUBSET D -> Int] :
          /\ \A A \in SUBSET D : F[A] = IF A = {} THEN 0 ELSE f[Chosen(A)] + F[A \ {Chosen(A)}]
          /\ SumFunction(f) = F[D]
    BY SumIs
  <1> DEFINE Bad == {A \in SUBSET D : F[A] # IF x \in A THEN f[x] ELSE 0}
  <1>2. Bad = {}
    <2> SUFFICES ASSUME Bad # {} PROVE FALSE
      OBVIOUS
    <2>1. Bad \in SUBSET SUBSET D
      OBVIOUS
    <2>2. PICK A \in Bad : \A B \in Bad : B \subseteq A => B = A
      <3> HIDE DEF Bad
      <3> QED BY <2>1, MinimalSubset
    <2>3. A \in SUBSET D /\ F[A] # IF x \in A THEN f[x] ELSE 0
      BY <2>2
    <2>4. A # {}
      BY <2>3, <1>1
    <2> DEFINE c == Chosen(A)
               B == A \ {c}
    <2>5. c \in A /\ c \in D
      BY <2>3, <2>4, ChosenIn
    <2>6. B \in SUBSET D /\ F[B] = IF x \in B THEN f[x] ELSE 0
      <3> B \in SUBSET D /\ B # A /\ B \subseteq A
        BY <2>3, <2>5
      <3> HIDE DEF B
      <3> QED BY <2>2
    <2>7. F[A] = f[c] + F[B]
      BY <2>3, <2>4, <1>1
    <2>8. CASE c = x
      BY <2>3, <2>5, <2>6, <2>7, <2>8
    <2>9. CASE c # x
      <3>1. f[c] = 0 /\ (x \in A <=> x \in B)
        BY <2>5, <2>9
      <3>2. F[B] \in Int
        BY <2>6
      <3> HIDE DEF c, B
      <3> QED BY <3>1, <3>2, <2>3, <2>6, <2>7
    <2> QED BY <2>8, <2>9
  <1>3. D \in SUBSET D
    OBVIOUS
  <1> QED  BY <1>1, <1>2, <1>3

\* What holds of the empty set, and of a set whenever it holds of the set
\* without its chosen element, holds of every finite set.  The property is a
\* function of the subsets, which the provers can instantiate.
LEMMA SetInduction ==
  ASSUME NEW D, IsFiniteSet(D), NEW P \in [SUBSET D -> BOOLEAN], P[{}],
         \A A \in SUBSET D : A # {} /\ P[A \ {Chosen(A)}] => P[A]
  PROVE  P[D]
  <1> DEFINE Bad == {A \in SUBSET D : ~P[A]}
  <1>1. Bad = {}
    <2> SUFFICES ASSUME Bad # {} PROVE FALSE
      OBVIOUS
    <2>1. Bad \in SUBSET SUBSET D
      OBVIOUS
    <2>2. PICK A \in Bad : \A B \in Bad : B \subseteq A => B = A
      <3> HIDE DEF Bad
      <3> QED BY <2>1, MinimalSubset
    <2>3. A \in SUBSET D /\ ~P[A]
      BY <2>2
    <2>4. A # {}
      BY <2>3
    <2> DEFINE B == A \ {Chosen(A)}
    <2>5. B \in SUBSET D /\ B # A /\ B \subseteq A
      BY <2>3, <2>4, ChosenIn
    <2>6. P[B]
      <3> HIDE DEF B
      <3> QED BY <2>2, <2>5
    <2> QED BY <2>3, <2>4, <2>6
  <1>2. D \in SUBSET D
    OBVIOUS
  <1> QED  BY <1>1, <1>2

\* The sum of f times c is c times the sum of f.
LEMMA SumScale ==
  ASSUME NEW D, IsFiniteSet(D), NEW f \in [D -> Int], NEW c \in Int,
         NEW h \in [D -> Int], \A x \in D : h[x] = c * f[x]
  PROVE  SumFunction(h) = c * SumFunction(f)
  <1> DEFINE Sums(F, e) ==
        \A A \in SUBSET D : F[A] = IF A = {} THEN 0 ELSE e[Chosen(A)] + F[A \ {Chosen(A)}]
  <1>1. PICK F \in [SUBSET D -> Int] : Sums(F, f) /\ SumFunction(f) = F[D]
    BY SumIs
  <1>2. PICK H \in [SUBSET D -> Int] : Sums(H, h) /\ SumFunction(h) = H[D]
    BY SumIs
  <1>3. PICK P : P = [A \in SUBSET D |-> H[A] = c * F[A]]
    OBVIOUS
  <1>4. P \in [SUBSET D -> BOOLEAN]
    BY <1>3
  <1>5. P[{}]
    <2>1. {} \in SUBSET D
      OBVIOUS
    <2>2. F[{}] = 0 /\ H[{}] = 0
      BY <2>1, <1>1, <1>2
    <2>3. H[{}] = c * F[{}]
      BY <2>2
    <2> QED BY <2>1, <2>3, <1>3
  <1>6. ASSUME NEW A \in SUBSET D, A # {}, P[A \ {Chosen(A)}]
        PROVE  P[A]
    <2>1. PICK x, B : x = Chosen(A) /\ B = A \ {Chosen(A)}
      OBVIOUS
    <2>2. x \in D /\ B \in SUBSET D
      BY <1>6, <2>1, ChosenIn
    <2>3. F[A] = f[x] + F[B] /\ H[A] = h[x] + H[B]
      BY <1>1, <1>2, <1>6, <2>1
    <2>4. H[B] = c * F[B]
      BY <1>3, <1>6, <2>1, <2>2
    <2>5. PICK a, b \in Int : a = f[x] /\ b = F[B]
      BY <2>2
    <2>6. F[A] = a + b /\ H[A] = c * a + c * b
      BY <2>2, <2>3, <2>4, <2>5
    <2>7. c * a + c * b = c * (a + b)
      OBVIOUS
    <2>8. H[A] = c * F[A]
      BY <2>6, <2>7
    <2> QED BY <2>8, <1>3
  <1>7. P[D]
    <2>1. \A A \in SUBSET D : A # {} /\ P[A \ {Chosen(A)}] => P[A]
      BY <1>6
    <2> QED BY <2>1, <1>4, <1>5, SetInduction
  <1>8. D \in SUBSET D
    OBVIOUS
  <1> QED  BY <1>1, <1>2, <1>3, <1>7, <1>8

\* What is nowhere larger has no larger sum.
LEMMA SumLe ==
  ASSUME NEW D, IsFiniteSet(D), NEW f \in [D -> Int], NEW h \in [D -> Int],
         \A x \in D : f[x] <= h[x]
  PROVE  SumFunction(f) <= SumFunction(h)
  <1> DEFINE Sums(F, e) ==
        \A A \in SUBSET D : F[A] = IF A = {} THEN 0 ELSE e[Chosen(A)] + F[A \ {Chosen(A)}]
  <1>1. PICK F \in [SUBSET D -> Int] : Sums(F, f) /\ SumFunction(f) = F[D]
    BY SumIs
  <1>2. PICK H \in [SUBSET D -> Int] : Sums(H, h) /\ SumFunction(h) = H[D]
    BY SumIs
  <1>3. PICK P : P = [A \in SUBSET D |-> F[A] <= H[A]]
    OBVIOUS
  <1>4. P \in [SUBSET D -> BOOLEAN]
    BY <1>3
  <1>5. P[{}]
    <2>1. {} \in SUBSET D
      OBVIOUS
    <2>2. F[{}] = 0 /\ H[{}] = 0
      BY <2>1, <1>1, <1>2
    <2>3. F[{}] <= H[{}]
      BY <2>2
    <2> QED BY <2>1, <2>3, <1>3
  <1>6. ASSUME NEW A \in SUBSET D, A # {}, P[A \ {Chosen(A)}]
        PROVE  P[A]
    <2>1. PICK x, B : x = Chosen(A) /\ B = A \ {Chosen(A)}
      OBVIOUS
    <2>2. x \in D /\ B \in SUBSET D
      BY <1>6, <2>1, ChosenIn
    <2>3. F[A] = f[x] + F[B] /\ H[A] = h[x] + H[B]
      BY <1>1, <1>2, <1>6, <2>1
    <2>4. F[B] <= H[B]
      BY <1>3, <1>6, <2>1, <2>2
    <2>5. F[A] <= H[A]
      BY <2>2, <2>3, <2>4
    <2> QED BY <2>5, <1>3
  <1>7. P[D]
    <2>1. \A A \in SUBSET D : A # {} /\ P[A \ {Chosen(A)}] => P[A]
      BY <1>6
    <2> QED BY <2>1, <1>4, <1>5, SetInduction
  <1>8. D \in SUBSET D
    OBVIOUS
  <1> QED  BY <1>1, <1>2, <1>3, <1>7, <1>8

\* The sum of the function that is 1 in W and 0 elsewhere counts W.
LEMMA SumIndicator ==
  ASSUME NEW D, IsFiniteSet(D), NEW W \in SUBSET D, NEW f \in [D -> Int],
         \A x \in D : f[x] = IF x \in W THEN 1 ELSE 0
  PROVE  SumFunction(f) = Cardinality(W)
  <1>1. PICK F \in [SUBSET D -> Int] :
          /\ \A A \in SUBSET D : F[A] = IF A = {} THEN 0 ELSE f[Chosen(A)] + F[A \ {Chosen(A)}]
          /\ SumFunction(f) = F[D]
    BY SumIs
  <1>3. PICK P : P = [A \in SUBSET D |-> F[A] = Cardinality(A \cap W)]
    OBVIOUS
  <1>4. P \in [SUBSET D -> BOOLEAN]
    BY <1>3
  <1>5. P[{}]
    <2>1. {} \in SUBSET D /\ {} \cap W = {}
      OBVIOUS
    <2>2. F[{}] = 0
      BY <2>1, <1>1
    <2>3. F[{}] = Cardinality({} \cap W)
      BY <2>1, <2>2, FS_EmptySet
    <2> QED BY <2>1, <2>3, <1>3
  <1>6. ASSUME NEW A \in SUBSET D, A # {}, P[A \ {Chosen(A)}]
        PROVE  P[A]
    <2>1. PICK x, B : x = Chosen(A) /\ B = A \ {Chosen(A)}
      OBVIOUS
    <2>2. x \in D /\ x \in A /\ B \in SUBSET D
      BY <1>6, <2>1, ChosenIn
    <2>3. F[A] = f[x] + F[B]
      BY <1>1, <1>6, <2>1
    <2>4. F[B] = Cardinality(B \cap W)
      BY <1>3, <1>6, <2>1, <2>2
    <2>5. IsFiniteSet(A \cap W) /\ Cardinality(A \cap W) \in Nat
      <3>1. A \cap W \in SUBSET D
        OBVIOUS
      <3>2. IsFiniteSet(A \cap W)
        BY <3>1, FS_Subset
      <3> QED BY <3>2, FS_CardinalityType
    <2>6. PICK C, E : C = A \cap W /\ E = B \cap W
      OBVIOUS
    <2>7. IsFiniteSet(C) /\ Cardinality(C) \in Nat /\ F[B] = Cardinality(E)
      BY <2>4, <2>5, <2>6
    <2>8. F[A] = Cardinality(C)
      <3>1. CASE x \in W
        <4>1. x \in C /\ E = C \ {x}
          BY <2>1, <2>2, <2>6, <3>1
        <4>2. Cardinality(E) = Cardinality(C) - 1
          BY <4>1, <2>7, FS_RemoveElement
        <4>3. f[x] = 1
          BY <2>2, <3>1
        <4> QED BY <4>2, <4>3, <2>3, <2>7
      <3>2. CASE x \notin W
        <4>1. E = C
          BY <2>1, <2>2, <2>6, <3>2
        <4>2. f[x] = 0
          BY <2>2, <3>2
        <4> QED BY <4>1, <4>2, <2>3, <2>7
      <3> QED BY <3>1, <3>2
    <2> QED BY <2>6, <2>8, <1>3
  <1>7. P[D]
    <2>1. \A A \in SUBSET D : A # {} /\ P[A \ {Chosen(A)}] => P[A]
      BY <1>6
    <2> QED BY <2>1, <1>4, <1>5, SetInduction
  <1>8. D \in SUBSET D /\ D \cap W = W
    OBVIOUS
  <1>9. F[D] = Cardinality(D \cap W)
    BY <1>3, <1>7, <1>8
  <1> QED  BY <1>1, <1>8, <1>9

\* The sum of a constant function.
LEMMA SumConst ==
  ASSUME NEW D, IsFiniteSet(D), NEW c \in Int, NEW h \in [D -> Int],
         \A x \in D : h[x] = c
  PROVE  SumFunction(h) = c * Cardinality(D)
  <1>1. PICK f : f = [x \in D |-> 1]
    OBVIOUS
  <1>2. f \in [D -> Int] /\ \A x \in D : f[x] = (IF x \in D THEN 1 ELSE 0) /\ h[x] = c * f[x]
    BY <1>1
  <1>3. SumFunction(f) = Cardinality(D)
    <2>1. D \in SUBSET D
      OBVIOUS
    <2> QED BY <1>2, <2>1, SumIndicator
  <1>4. SumFunction(h) = c * SumFunction(f)
    BY <1>2, SumScale
  <1> QED  BY <1>3, <1>4

\* A sum of naturals is a natural.
LEMMA SumNat ==
  ASSUME NEW D, IsFiniteSet(D), NEW f \in [D -> Nat]
  PROVE  SumFunction(f) \in Nat
  <1>1. PICK z : z = [x \in D |-> 0]
    OBVIOUS
  <1>2. f \in [D -> Int] /\ z \in [D -> Int] /\ \A x \in D : z[x] <= f[x]
    BY <1>1
  <1>3. SumFunction(z) <= SumFunction(f)
    BY <1>2, SumLe
  <1>4. SumFunction(z) = 0
    BY <1>1, SumZero
  <1>5. SumFunction(f) \in Int
    BY <1>2, SumType
  <1> QED  BY <1>3, <1>4, <1>5
=============================================================================
