---------------------------- MODULE DataTheorems ----------------------------
(***************************************************************************)
(* Facts about the data the models are built from, which the proofs about   *)
(* budgets, accounts, caches and routes rest on: SumFunctionOnSet, the sum  *)
(* of the values f[x] over the elements x of a finite set, Only, the        *)
(* elements of a list that are in a set, and the weight of a list.          *)
(*                                                                          *)
(* The first two are recursive functions: a fold over the subsets of the    *)
(* set, which picks the elements in an unspecified order, and a loop over   *)
(* the list. The facts are shown with a smallest counterexample (WFMin).    *)
(***************************************************************************)
EXTENDS SeqFilter, FiniteSets, Functions, FiniteSetTheorems, WellFoundedInduction, TLAPS

\* A set of subsets of a finite set has an element none of whose strict
\* subsets is in it.
LEMMA SmallestSubset ==
    ASSUME NEW U, IsFiniteSet(U), NEW Bad, Bad \subseteq SUBSET U, Bad # {}
    PROVE  \E s \in Bad : \A r \in Bad : ~(r \subseteq s /\ r # s)
  <1>1. IsWellFoundedOn(StrictSubsetOrdering(U), SUBSET U)
    BY FS_StrictSubsetOrderingWellFounded, FS_FiniteSubsetsOfFinite, Zenon
  <1>2. PICK s \in Bad : \A r \in Bad : ~(<<r, s>> \in StrictSubsetOrdering(U))
    BY <1>1, WFMin, Zenon
  <1> QED
    BY <1>2, Zenon DEF StrictSubsetOrdering

\* A set of naturals has a smallest element.
LEMMA SmallestNat ==
    ASSUME NEW Bad, Bad \subseteq Nat, Bad # {}
    PROVE  \E n \in Bad : \A k \in Bad : n <= k
  <1>1. PICK n \in Bad : \A k \in Bad : ~(<<k, n>> \in OpToRel(<, Nat))
    BY NatLessThanWellFounded, WFMin, Zenon
  <1>2. \A k \in Bad : <<k, n>> \in OpToRel(<, Nat) <=> k < n
    BY Zenon DEF OpToRel
  <1>3. \A k \in Bad : ~(k < n)
    BY <1>1, <1>2, Zenon
  <1> QED
    BY <1>3

\* g is the fold of f over the subsets of U.
Chain(f, U, g) ==
    g = [s \in SUBSET U |-> IF s = {} THEN 0
                            ELSE LET x == CHOOSE x \in s : TRUE IN f[x] + g[s \ {x}]]

\* The two equations of a fold.
LEMMA ChainStep ==
    ASSUME NEW f, NEW U, NEW g, Chain(f, U, g), NEW s \in SUBSET U
    PROVE  /\ s = {} => g[s] = 0
           /\ s # {} => \E x \in s : /\ x = CHOOSE y \in s : TRUE
                                     /\ s \ {x} \in SUBSET U
                                     /\ g[s] = f[x] + g[s \ {x}]
  BY Zenon DEF Chain

\* Folds over two sets agree on the subsets of both.
LEMMA ChainUnique ==
    ASSUME NEW U, IsFiniteSet(U), NEW f, NEW V \in SUBSET U, NEW g, NEW h,
           Chain(f, U, g), Chain(f, V, h)
    PROVE  \A s \in SUBSET V : g[s] = h[s]
  <1> DEFINE Bad == {s \in SUBSET V : g[s] # h[s]}
  <1>1. SUFFICES ASSUME Bad # {} PROVE FALSE
    BY Zenon
  <1>2. PICK s \in Bad : \A r \in Bad : ~(r \subseteq s /\ r # s)
    <2>1. IsFiniteSet(V) /\ Bad \subseteq SUBSET V
      BY FS_Subset, Zenon
    <2> HIDE DEF Bad
    <2> QED
      BY <1>1, <2>1, SmallestSubset
  <1>3. s \in SUBSET U /\ s \in SUBSET V
    BY Zenon
  <1>4. s # {}
    BY <1>3, ChainStep
  <1>5. PICK x \in s : /\ x = CHOOSE y \in s : TRUE
                       /\ s \ {x} \in SUBSET V
                       /\ g[s] = f[x] + g[s \ {x}]
    BY <1>3, <1>4, ChainStep
  <1>6. h[s] = f[x] + h[s \ {x}]
    <2>1. PICK z \in s : z = (CHOOSE y \in s : TRUE) /\ h[s] = f[z] + h[s \ {z}]
      BY <1>3, <1>4, ChainStep
    <2> QED
      BY <1>5, <2>1, Zenon
  <1>7. g[s \ {x}] = h[s \ {x}]
    BY <1>2, <1>5
  <1> QED
    BY <1>5, <1>6, <1>7, Zenon

\* Every finite set has a fold.
LEMMA ChainExists ==
    ASSUME NEW U, IsFiniteSet(U), NEW f
    PROVE  \E g : Chain(f, U, g)
  <1> DEFINE Bad == {V \in SUBSET U : ~\E g : Chain(f, V, g)}
  <1>1. SUFFICES ASSUME Bad # {} PROVE FALSE
    BY Zenon
  <1>2. PICK V \in Bad : \A r \in Bad : ~(r \subseteq V /\ r # V)
    <2>1. Bad \subseteq SUBSET U
      BY Zenon
    <2> HIDE DEF Bad
    <2> QED
      BY <1>1, <2>1, SmallestSubset
  <1> DEFINE fold(W) == CHOOSE g : Chain(f, W, g)
             g == [s \in SUBSET V |->
                     IF s = {} THEN 0
                     ELSE LET x == CHOOSE x \in s : TRUE IN f[x] + fold(s \ {x})[s \ {x}]]
  <1>3. ASSUME NEW W \in SUBSET V, W # V PROVE Chain(f, W, fold(W))
    BY <1>2, <1>3, Zenon
  <1> HIDE DEF fold
  <1>4. ASSUME NEW W \in SUBSET V, W # V PROVE g[W] = fold(W)[W]
    <2>1. Chain(f, W, fold(W)) /\ W \in SUBSET W
      BY <1>3, <1>4, Zenon
    <2>2. CASE W = {}
      BY <2>1, <2>2, ChainStep
    <2>3. CASE W # {}
      <3>1. PICK x \in W : /\ x = CHOOSE y \in W : TRUE
                           /\ fold(W)[W] = f[x] + fold(W)[W \ {x}]
        BY <2>1, <2>3, ChainStep
      <3>2. g[W] = f[x] + fold(W \ {x})[W \ {x}]
        BY <2>3, <3>1, Zenon
      <3>3. /\ W \ {x} \in SUBSET V /\ W \ {x} # V /\ W \ {x} \in SUBSET W
            /\ W \ {x} \in SUBSET (W \ {x}) /\ IsFiniteSet(W)
        BY <1>4, FS_Subset, Zenon
      <3>4. Chain(f, W \ {x}, fold(W \ {x}))
        BY <1>3, <3>3, Zenon
      <3>5. fold(W)[W \ {x}] = fold(W \ {x})[W \ {x}]
        BY <2>1, <3>3, <3>4, ChainUnique
      <3> QED
        BY <3>1, <3>2, <3>5, Zenon
    <2> QED
      BY <2>2, <2>3, Zenon
  <1>5. Chain(f, V, g)
    <2>1. ASSUME NEW s \in SUBSET V, s = {} PROVE g[s] = 0
      BY <2>1, Zenon
    <2>2. ASSUME NEW s \in SUBSET V, s # {}
          PROVE  LET x == CHOOSE x \in s : TRUE IN g[s] = f[x] + g[s \ {x}]
      <3> DEFINE x == CHOOSE x \in s : TRUE
      <3>1. x \in s
        BY <2>2, Zenon
      <3>2. g[s] = f[x] + fold(s \ {x})[s \ {x}]
        BY <2>2, Zenon
      <3> HIDE DEF x
      <3>3. g[s \ {x}] = fold(s \ {x})[s \ {x}]
        BY <1>4, <3>1, Zenon
      <3> HIDE DEF g
      <3>4. g[s] = f[x] + g[s \ {x}]
        BY <3>2, <3>3, Zenon
      <3> QED
        BY <3>4, Zenon DEF x
    <2>3. g = [s \in SUBSET V |-> g[s]]
      OBVIOUS
    <2> HIDE DEF g
    <2> QED
      BY <2>1, <2>2, <2>3, Zenon DEF Chain
  <1> QED
    BY <1>5, Zenon

\* What the library's definition amounts to.
LEMMA SumIsFold ==
    ASSUME NEW f, NEW S
    PROVE  SumFunctionOnSet(f, S) = (CHOOSE g : Chain(f, S, g))[S]
  BY Zenon DEF SumFunctionOnSet, FoldFunctionOnSet, MapThenFoldSet, Chain

\* The sum over the empty set, and the sum over another set in terms of the
\* sum without the element that the fold picks.
LEMMA SumStep ==
    ASSUME NEW f, NEW S, IsFiniteSet(S)
    PROVE  /\ S = {} => SumFunctionOnSet(f, S) = 0
           /\ S # {} => \E x \in S : SumFunctionOnSet(f, S)
                                       = f[x] + SumFunctionOnSet(f, S \ {x})
  <1> DEFINE fold(W) == CHOOSE g : Chain(f, W, g)
  <1>1. ASSUME NEW W \in SUBSET S
        PROVE  /\ Chain(f, W, fold(W)) /\ W \in SUBSET W
               /\ SumFunctionOnSet(f, W) = fold(W)[W]
    BY <1>1, ChainExists, FS_Subset, SumIsFold, Zenon
  <1>2. S \in SUBSET S
    BY Zenon
  <1> HIDE DEF fold
  <1>3. CASE S = {}
    BY <1>1, <1>2, <1>3, ChainStep
  <1>4. CASE S # {}
    <2>1. PICK x \in S : fold(S)[S] = f[x] + fold(S)[S \ {x}]
      BY <1>1, <1>2, <1>4, ChainStep
    <2>2. S \ {x} \in SUBSET S /\ S \ {x} \in SUBSET (S \ {x})
      BY Zenon
    <2>3. fold(S)[S \ {x}] = fold(S \ {x})[S \ {x}]
      BY <1>1, <1>2, <2>2, ChainUnique
    <2> QED
      BY <1>1, <1>2, <2>1, <2>2, <2>3, ZenonT(40)
  <1> QED
    BY <1>3, <1>4, Zenon

\* A sum of integers is an integer, and of naturals a natural.
LEMMA SumType ==
    ASSUME NEW f, NEW S, IsFiniteSet(S), \A x \in S : f[x] \in Int
    PROVE  /\ SumFunctionOnSet(f, S) \in Int
           /\ (\A x \in S : f[x] >= 0) => SumFunctionOnSet(f, S) >= 0
  <1> DEFINE Good(V) == /\ SumFunctionOnSet(f, V) \in Int
                        /\ (\A x \in V : f[x] >= 0) => SumFunctionOnSet(f, V) >= 0
             Bad == {V \in SUBSET S : ~Good(V)}
  <1>1. SUFFICES ASSUME Bad # {} PROVE FALSE
    BY Zenon
  <1>2. PICK V \in Bad : \A W \in Bad : ~(W \subseteq V /\ W # V)
    <2>1. Bad \subseteq SUBSET S
      BY Zenon
    <2> HIDE DEF Bad
    <2> QED
      BY <1>1, <2>1, SmallestSubset
  <1>3. IsFiniteSet(V) /\ V \in SUBSET S /\ ~Good(V)
    BY FS_Subset, Zenon
  <1>4. V # {}
    BY <1>3, SumStep
  <1>5. PICK x \in V : SumFunctionOnSet(f, V) = f[x] + SumFunctionOnSet(f, V \ {x})
    BY <1>3, <1>4, SumStep, Zenon
  <1>6. Good(V \ {x})
    BY <1>2, <1>3
  <1> QED
    BY <1>3, <1>5, <1>6

\* Sums of functions that agree on the set are equal.
LEMMA SumSame ==
    ASSUME NEW f, NEW g, NEW S, IsFiniteSet(S),
           \A x \in S : f[x] = g[x] /\ f[x] \in Int
    PROVE  SumFunctionOnSet(f, S) = SumFunctionOnSet(g, S)
  <1>1. \A x \in S : f[x] = g[x]
    BY Zenon
  <1>2. PICK h : Chain(f, S, h)
    BY ChainExists, Zenon
  <1>3. Chain(g, S, h)
    <2>1. ASSUME NEW s \in SUBSET S, s # {}
          PROVE  LET x == CHOOSE x \in s : TRUE IN f[x] + h[s \ {x}] = g[x] + h[s \ {x}]
      <3> DEFINE x == CHOOSE x \in s : TRUE
      <3>1. x \in s
        BY <2>1, Zenon
      <3> HIDE DEF x
      <3>2. f[x] = g[x]
        BY <1>1, <3>1, Zenon
      <3>3. f[x] + h[s \ {x}] = g[x] + h[s \ {x}]
        BY <3>2, Zenon
      <3> QED
        BY <3>3, Zenon DEF x
    <2> QED
      BY <1>2, <2>1, ZenonT(40) DEF Chain
  <1>4. S \in SUBSET S
    BY Zenon
  <1> DEFINE fold(w) == CHOOSE k : Chain(w, S, k)
  <1>5. Chain(f, S, fold(f)) /\ Chain(g, S, fold(g))
    BY <1>2, <1>3, Zenon
  <1>6. /\ SumFunctionOnSet(f, S) = fold(f)[S]
        /\ SumFunctionOnSet(g, S) = fold(g)[S]
    BY SumIsFold, Zenon
  <1> HIDE DEF fold
  <1>7. fold(f)[S] = h[S] /\ fold(g)[S] = h[S]
    BY <1>2, <1>3, <1>4, <1>5, ChainUnique
  <1> QED
    BY <1>6, <1>7, Zenon

\* The order of summation does not matter: any element can be taken out.
LEMMA SumRemove ==
    ASSUME NEW f, NEW S, IsFiniteSet(S), \A x \in S : f[x] \in Int, NEW x \in S
    PROVE  /\ SumFunctionOnSet(f, S) = f[x] + SumFunctionOnSet(f, S \ {x})
           /\ SumFunctionOnSet(f, S \ {x}) \in Int
  <1> DEFINE Good(V) == \A y \in V : SumFunctionOnSet(f, V)
                                       = f[y] + SumFunctionOnSet(f, V \ {y})
             Bad == {V \in SUBSET S : ~Good(V)}
  <1>1. SUFFICES ASSUME Bad # {} PROVE FALSE
    <2>1. IsFiniteSet(S \ {x}) /\ S \in SUBSET S
      BY FS_Subset, Zenon
    <2> QED
      BY <2>1, SumType, Zenon
  <1>2. PICK V \in Bad : \A W \in Bad : ~(W \subseteq V /\ W # V)
    <2>1. Bad \subseteq SUBSET S
      BY Zenon
    <2> HIDE DEF Bad
    <2> QED
      BY <1>1, <2>1, SmallestSubset
  <1>3. IsFiniteSet(V) /\ V \in SUBSET S
    BY FS_Subset, Zenon
  <1>4. PICK y \in V : SumFunctionOnSet(f, V) # f[y] + SumFunctionOnSet(f, V \ {y})
    BY Zenon
  <1>5. PICK z \in V : SumFunctionOnSet(f, V) = f[z] + SumFunctionOnSet(f, V \ {z})
    BY <1>3, <1>4, SumStep, Zenon
  <1>6. y # z
    BY <1>4, <1>5, Zenon
  <1>7. Good(V \ {y}) /\ Good(V \ {z})
    BY <1>2, <1>3
  <1>8. /\ SumFunctionOnSet(f, V \ {y}) = f[z] + SumFunctionOnSet(f, (V \ {y}) \ {z})
        /\ SumFunctionOnSet(f, V \ {z}) = f[y] + SumFunctionOnSet(f, (V \ {z}) \ {y})
    BY <1>6, <1>7, Zenon
  <1>9. /\ (V \ {y}) \ {z} = (V \ {z}) \ {y} /\ IsFiniteSet((V \ {y}) \ {z})
        /\ f[y] \in Int /\ f[z] \in Int
    BY <1>3, FS_Subset, Zenon
  <1> DEFINE rest == SumFunctionOnSet(f, (V \ {y}) \ {z})
  <1>10. rest \in Int
    BY <1>3, <1>9, SumType, Zenon
  <1>11. /\ SumFunctionOnSet(f, V) = f[z] + (f[y] + rest)
         /\ f[y] + SumFunctionOnSet(f, V \ {y}) = f[y] + (f[z] + rest)
    BY <1>5, <1>8, <1>9, Zenon
  <1> HIDE DEF rest
  <1>12. f[z] + (f[y] + rest) = f[y] + (f[z] + rest)
    BY <1>9, <1>10
  <1> QED
    BY <1>4, <1>11, <1>12, Zenon

\* Changing the value at one element changes the sum by as much.
LEMMA SumUpdate ==
    ASSUME NEW f, NEW g, NEW S, IsFiniteSet(S),
           \A x \in S : f[x] \in Int /\ g[x] \in Int,
           NEW x \in S, \A y \in S \ {x} : f[y] = g[y]
    PROVE  SumFunctionOnSet(g, S) = SumFunctionOnSet(f, S) + g[x] - f[x]
  <1>1. /\ SumFunctionOnSet(f, S) = f[x] + SumFunctionOnSet(f, S \ {x})
        /\ SumFunctionOnSet(f, S \ {x}) \in Int
    BY SumRemove, Zenon
  <1>2. SumFunctionOnSet(g, S) = g[x] + SumFunctionOnSet(g, S \ {x})
    BY SumRemove
  <1>3. SumFunctionOnSet(f, S \ {x}) = SumFunctionOnSet(g, S \ {x})
    <2>1. IsFiniteSet(S \ {x})
      BY FS_Subset, Zenon
    <2> QED
      BY <2>1, SumSame
  <1> QED
    BY <1>1, <1>2, <1>3

\* Adding an element adds its value.
LEMMA SumAdd ==
    ASSUME NEW f, NEW S, IsFiniteSet(S), NEW x, x \notin S,
           \A y \in S \cup {x} : f[y] \in Int
    PROVE  SumFunctionOnSet(f, S \cup {x}) = SumFunctionOnSet(f, S) + f[x]
  <1>1. IsFiniteSet(S \cup {x}) /\ (S \cup {x}) \ {x} = S
    BY FS_AddElement, Zenon
  <1>2. SumFunctionOnSet(f, S) \in Int
    BY SumType, Zenon
  <1> QED
    BY <1>1, <1>2, SumRemove

\* A sum of naturals is at least each of its terms.
LEMMA SumAtLeast ==
    ASSUME NEW f, NEW S, IsFiniteSet(S), \A y \in S : f[y] \in Nat, NEW x \in S
    PROVE  f[x] <= SumFunctionOnSet(f, S)
  <1>1. IsFiniteSet(S \ {x})
    BY FS_Subset, Zenon
  <1>2. SumFunctionOnSet(f, S \ {x}) \in Int /\ SumFunctionOnSet(f, S \ {x}) >= 0
    BY <1>1, SumType
  <1> QED
    BY <1>2, SumRemove

\* The same for the sum over a whole map: one more entry, one entry less, one
\* entry with another value.
LEMMA SumOfMap ==
    ASSUME NEW f, IsFiniteSet(DOMAIN f), \A x \in DOMAIN f : f[x] \in Int
    PROVE  /\ SumFunction(f) \in Int
           /\ DOMAIN f = {} => SumFunction(f) = 0
           /\ (\A x \in DOMAIN f : f[x] >= 0)
                 => SumFunction(f) >= 0 /\ \A x \in DOMAIN f : f[x] <= SumFunction(f)
  BY SumType, SumStep, SumAtLeast DEF SumFunction

\* A function with one more entry.
LEMMA SumWithEntry ==
    ASSUME NEW f, IsFiniteSet(DOMAIN f), NEW g, NEW x, x \notin DOMAIN f,
           DOMAIN g = DOMAIN f \cup {x}, g[x] \in Int,
           \A y \in DOMAIN f : f[y] \in Int /\ g[y] = f[y]
    PROVE  SumFunction(g) = SumFunction(f) + g[x]
  <1>1. SumFunctionOnSet(g, DOMAIN f \cup {x}) = SumFunctionOnSet(g, DOMAIN f) + g[x]
    BY SumAdd, Zenon
  <1>2. SumFunctionOnSet(g, DOMAIN f) = SumFunctionOnSet(f, DOMAIN f)
    BY SumSame
  <1> QED
    BY <1>1, <1>2, Zenon DEF SumFunction

\* A function with one entry less.
LEMMA SumWithoutEntry ==
    ASSUME NEW f, IsFiniteSet(DOMAIN f), NEW g, NEW x \in DOMAIN f,
           DOMAIN g = DOMAIN f \ {x}, \A y \in DOMAIN f : f[y] \in Int,
           \A y \in DOMAIN g : g[y] = f[y]
    PROVE  SumFunction(g) = SumFunction(f) - f[x]
  <1>1. /\ SumFunctionOnSet(f, DOMAIN f) = f[x] + SumFunctionOnSet(f, DOMAIN f \ {x})
        /\ SumFunctionOnSet(f, DOMAIN f \ {x}) \in Int
    BY SumRemove, Zenon
  <1>2. SumFunctionOnSet(g, DOMAIN g) = SumFunctionOnSet(f, DOMAIN g)
    <2>1. IsFiniteSet(DOMAIN g)
      BY FS_Subset, Zenon
    <2> QED
      BY <2>1, SumSame
  <1> QED
    BY <1>1, <1>2 DEF SumFunction

\* A function with a new value at one place.
LEMMA SumNewValue ==
    ASSUME NEW f, IsFiniteSet(DOMAIN f), NEW g, NEW x \in DOMAIN f,
           DOMAIN g = DOMAIN f, g[x] \in Int, \A y \in DOMAIN f : f[y] \in Int,
           \A y \in DOMAIN f \ {x} : g[y] = f[y]
    PROVE  SumFunction(g) = SumFunction(f) + g[x] - f[x]
  BY SumUpdate DEF SumFunction

\* Summing up estimates.
LEMMA SumEstimate ==
    ASSUME NEW f, NEW g, NEW k, NEW w \in Int, NEW S, IsFiniteSet(S),
           \A x \in S : /\ f[x] \in Int /\ g[x] \in Int /\ k[x] \in Int
                        /\ f[x] <= w * k[x] + g[x]
    PROVE  SumFunctionOnSet(f, S) <= w * SumFunctionOnSet(k, S) + SumFunctionOnSet(g, S)
  <1> DEFINE Good(V) == SumFunctionOnSet(f, V)
                          <= w * SumFunctionOnSet(k, V) + SumFunctionOnSet(g, V)
             Bad == {V \in SUBSET S : ~Good(V)}
  <1>1. SUFFICES ASSUME Bad # {} PROVE FALSE
    BY Zenon
  <1>2. PICK V \in Bad : \A W \in Bad : ~(W \subseteq V /\ W # V)
    <2>1. Bad \subseteq SUBSET S
      BY Zenon
    <2> HIDE DEF Bad
    <2> QED
      BY <1>1, <2>1, SmallestSubset
  <1>3. IsFiniteSet(V) /\ V \in SUBSET S /\ ~Good(V)
    BY FS_Subset, Zenon
  <1>4. V # {}
    <2>1. ASSUME V = {} PROVE Good(V)
      <3>1. /\ SumFunctionOnSet(f, V) = 0 /\ SumFunctionOnSet(k, V) = 0
            /\ SumFunctionOnSet(g, V) = 0
        BY <1>3, <2>1, SumStep, Zenon
      <3> QED
        BY <3>1
    <2> QED
      BY <1>3, <2>1, Zenon
  <1>5. PICK x \in V : TRUE
    BY <1>4, Zenon
  <1> DEFINE F == SumFunctionOnSet(f, V \ {x})
             G == SumFunctionOnSet(g, V \ {x})
             K == SumFunctionOnSet(k, V \ {x})
  <1>6. /\ SumFunctionOnSet(f, V) = f[x] + F /\ F \in Int
        /\ SumFunctionOnSet(g, V) = g[x] + G /\ G \in Int
        /\ SumFunctionOnSet(k, V) = k[x] + K /\ K \in Int
    BY <1>3, SumRemove
  <1>7. F <= w * K + G
    BY <1>2, <1>3
  <1>8. f[x] \in Int /\ g[x] \in Int /\ k[x] \in Int /\ f[x] <= w * k[x] + g[x]
    BY <1>3, Zenon
  <1> HIDE DEF F, G, K
  <1>9. w * (k[x] + K) = w * k[x] + w * K /\ w * k[x] \in Int /\ w * K \in Int
    BY <1>6, <1>8
  <1>10. f[x] + F <= w * (k[x] + K) + (g[x] + G)
    BY <1>6, <1>7, <1>8, <1>9
  <1> QED
    BY <1>3, <1>6, <1>10, Zenon

\* Adding one for each element counts them.
LEMMA SumOfOnes ==
    ASSUME NEW S, IsFiniteSet(S), NEW f, \A x \in S : f[x] = 1
    PROVE  SumFunctionOnSet(f, S) = Cardinality(S)
  <1> DEFINE Bad == {V \in SUBSET S : SumFunctionOnSet(f, V) # Cardinality(V)}
  <1>1. SUFFICES ASSUME Bad # {} PROVE FALSE
    BY Zenon
  <1>2. PICK V \in Bad : \A W \in Bad : ~(W \subseteq V /\ W # V)
    <2>1. Bad \subseteq SUBSET S
      BY Zenon
    <2> HIDE DEF Bad
    <2> QED
      BY <1>1, <2>1, SmallestSubset
  <1>3. IsFiniteSet(V) /\ V \in SUBSET S
    BY FS_Subset, Zenon
  <1>4. V # {}
    BY <1>3, SumStep, FS_EmptySet, Zenon
  <1>5. PICK x \in V : TRUE
    BY <1>4, Zenon
  <1>6. SumFunctionOnSet(f, V) = 1 + SumFunctionOnSet(f, V \ {x})
    BY <1>3, SumRemove
  <1>7. SumFunctionOnSet(f, V \ {x}) = Cardinality(V \ {x})
    BY <1>2, <1>3
  <1>8. Cardinality(V \ {x}) = Cardinality(V) - 1 /\ Cardinality(V) \in Nat
    BY <1>3, FS_RemoveElement, FS_CardinalityType, Zenon
  <1> QED
    BY <1>6, <1>7, <1>8

\* Elements that contribute nothing can be left out.
LEMMA SumSupport ==
    ASSUME NEW f, NEW S, IsFiniteSet(S), NEW T \in SUBSET S,
           \A x \in S : f[x] \in Int, \A x \in S \ T : f[x] = 0
    PROVE  SumFunctionOnSet(f, S) = SumFunctionOnSet(f, T)
  <1> DEFINE Bad == {R \in SUBSET (S \ T) : SumFunctionOnSet(f, T \cup R) # SumFunctionOnSet(f, T)}
  <1>1. SUFFICES ASSUME Bad # {} PROVE FALSE
    <2>1. S = T \cup (S \ T) /\ S \ T \in SUBSET (S \ T) /\ S \ T \notin Bad
      BY <1>1, Zenon
    <2> QED
      BY <2>1, Zenon
  <1>2. PICK R \in Bad : \A W \in Bad : ~(W \subseteq R /\ W # R)
    <2>1. Bad \subseteq SUBSET (S \ T) /\ IsFiniteSet(S \ T)
      BY FS_Subset, Zenon
    <2> HIDE DEF Bad
    <2> QED
      BY <1>1, <2>1, SmallestSubset
  <1>3. R # {}
    <2>1. T \cup {} = T
      BY Zenon
    <2> QED
      BY <2>1, Zenon
  <1>4. PICK x \in R : TRUE
    BY <1>3, Zenon
  <1>5. IsFiniteSet(T \cup R) /\ x \in T \cup R /\ (T \cup R) \ {x} = T \cup (R \ {x})
    BY FS_Subset, Zenon
  <1>6. /\ SumFunctionOnSet(f, T \cup R) = f[x] + SumFunctionOnSet(f, T \cup (R \ {x}))
        /\ SumFunctionOnSet(f, T \cup (R \ {x})) \in Int /\ f[x] = 0
    BY <1>5, SumRemove
  <1>7. SumFunctionOnSet(f, T \cup (R \ {x})) = SumFunctionOnSet(f, T)
    <2>1. R \ {x} \in SUBSET (S \ T) /\ R \ {x} \notin Bad
      BY <1>2, Zenon
    <2> QED
      BY <2>1, Zenon
  <1> QED
    BY <1>6, <1>7

\* A set can be summed up in two parts.
LEMMA SumSplit ==
    ASSUME NEW f, NEW S, IsFiniteSet(S), NEW T \in SUBSET S, \A x \in S : f[x] \in Int
    PROVE  SumFunctionOnSet(f, S) = SumFunctionOnSet(f, T) + SumFunctionOnSet(f, S \ T)
  <1> DEFINE Bad == {R \in SUBSET T : SumFunctionOnSet(f, S)
                                        # SumFunctionOnSet(f, R) + SumFunctionOnSet(f, S \ R)}
  <1>1. SUFFICES ASSUME Bad # {} PROVE FALSE
    <2>1. T \in SUBSET T /\ T \notin Bad
      BY <1>1, Zenon
    <2> QED
      BY <2>1, Zenon
  <1>2. PICK R \in Bad : \A W \in Bad : ~(W \subseteq R /\ W # R)
    <2>1. Bad \subseteq SUBSET T /\ IsFiniteSet(T)
      BY FS_Subset, Zenon
    <2> HIDE DEF Bad
    <2> QED
      BY <1>1, <2>1, SmallestSubset
  <1>3. R # {}
    <2>1. ASSUME R = {} PROVE FALSE
      <3>1. SumFunctionOnSet(f, R) = 0 /\ S \ R = S /\ SumFunctionOnSet(f, S) \in Int
        BY <2>1, SumStep, SumType, FS_EmptySet, Zenon
      <3>2. SumFunctionOnSet(f, S) # SumFunctionOnSet(f, R) + SumFunctionOnSet(f, S \ R)
        BY Zenon
      <3>3. SumFunctionOnSet(f, S \ R) = SumFunctionOnSet(f, S)
        BY <3>1, Zenon
      <3> DEFINE A == SumFunctionOnSet(f, S)
      <3>4. A \in Int /\ A # 0 + A
        BY <3>1, <3>2, <3>3, Zenon
      <3> HIDE DEF A
      <3> QED
        BY <3>4
    <2> QED
      BY <2>1, Zenon
  <1>4. PICK x \in R : TRUE
    BY <1>3, Zenon
  <1> DEFINE Q == R \ {x}
  <1>5. /\ IsFiniteSet(R) /\ IsFiniteSet(S \ Q) /\ x \in S \ Q /\ (S \ Q) \ {x} = S \ R
        /\ IsFiniteSet(S \ R) /\ f[x] \in Int
    BY FS_Subset, Zenon
  <1>6. SumFunctionOnSet(f, R) = f[x] + SumFunctionOnSet(f, Q) /\ SumFunctionOnSet(f, Q) \in Int
    BY <1>5, SumRemove, Zenon
  <1>7. /\ SumFunctionOnSet(f, S \ Q) = f[x] + SumFunctionOnSet(f, S \ R)
        /\ SumFunctionOnSet(f, S \ R) \in Int
    <2>1. \A y \in S \ Q : f[y] \in Int
      BY Zenon
    <2> HIDE DEF Q, Bad
    <2> QED
      BY <1>5, <2>1, SumRemove, SMTT(30)
  <1>8. SumFunctionOnSet(f, S) = SumFunctionOnSet(f, Q) + SumFunctionOnSet(f, S \ Q)
    <2>1. Q \in SUBSET T /\ Q \notin Bad
      BY <1>2, Zenon
    <2> QED
      BY <2>1, Zenon
  <1>9. SumFunctionOnSet(f, S) = SumFunctionOnSet(f, R) + SumFunctionOnSet(f, S \ R)
    <2> HIDE DEF Q, Bad
    <2> QED
      BY <1>5, <1>6, <1>7, <1>8
  <1> QED
    BY <1>9, Zenon

-----------------------------------------------------------------------------
(* Lists *)

\* k is the loop of Only: k[i] is what is kept of the first i elements.
Loop(s, S, k) ==
    k = [i \in 0..Len(s) |-> IF i = 0 THEN <<>>
                             ELSE IF s[i] \in S THEN Append(k[i - 1], s[i]) ELSE k[i - 1]]

\* The filter is the last round of its loop.
LEMMA OnlyIsLoop ==
    ASSUME NEW s, NEW S
    PROVE  Only(s, S) = (CHOOSE k : Loop(s, S, k))[Len(s)]
  BY Zenon DEF Only, Loop

\* What is kept after n rounds, of the first n elements.
KeptOf(s, S, n, r) ==
    /\ Len(r) <= n
    /\ (\E j \in 1..n : s[j] \notin S) => Len(r) < n
    /\ \A i \in 1..Len(r) : r[i] \in S /\ \E j \in 1..n : s[j] = r[i]
    /\ \A j \in 1..n : s[j] \in S => \E i \in 1..Len(r) : r[i] = s[j]
    /\ \A i, j \in 1..Len(r) : i < j => \E a, b \in 1..n : a < b /\ s[a] = r[i] /\ s[b] = r[j]

\* One more round.
LEMMA KeptGrows ==
    ASSUME NEW X, NEW s \in Seq(X), NEW S, NEW n \in Nat, n + 1 <= Len(s), NEW r \in Seq(X),
           KeptOf(s, S, n, r)
    PROVE  /\ s[n + 1] \in S => /\ Append(r, s[n + 1]) \in Seq(X)
                                /\ KeptOf(s, S, n + 1, Append(r, s[n + 1]))
           /\ s[n + 1] \notin S => KeptOf(s, S, n + 1, r)
  <1> DEFINE x == s[n + 1]
             t == Append(r, x)
  <1>0. x \in X /\ n + 1 \in 1..Len(s) /\ Len(s) \in Nat /\ Len(r) \in Nat
    OBVIOUS
  <1>1. t \in Seq(X) /\ Len(t) = Len(r) + 1 /\ t[Len(r) + 1] = x /\ \A i \in 1..Len(r) : t[i] = r[i]
    BY <1>0
  <1>2. \A j \in 1..(n + 1) : j \in 1..n \/ j = n + 1
    OBVIOUS
  <1>3. 1..n \subseteq 1..(n + 1) /\ n + 1 \in 1..(n + 1) /\ \A a \in 1..n : a < n + 1
    OBVIOUS
  <1>4. \A i \in 1..Len(t) : i \in 1..Len(r) \/ i = Len(r) + 1
    BY <1>0, <1>1
  <1>5. x = s[n + 1]
    BY Zenon
  <1> HIDE DEF x, t
  <1>6. CASE x \in S
    <2>1. Len(t) <= n + 1
      BY <1>0, <1>1 DEF KeptOf
    <2>2. ASSUME NEW i \in 1..Len(t) PROVE t[i] \in S /\ \E j \in 1..(n + 1) : s[j] = t[i]
      <3>1. CASE i \in 1..Len(r)
        <4>1. t[i] = r[i] /\ r[i] \in S
          BY <1>1, <3>1, Zenon DEF KeptOf
        <4>2. PICK j \in 1..n : s[j] = r[i]
          BY <3>1, Zenon DEF KeptOf
        <4> QED
          BY <1>3, <4>1, <4>2, Zenon
      <3>2. CASE i = Len(r) + 1
        BY <1>1, <1>3, <1>5, <1>6, <3>2, Zenon
      <3> QED
        BY <1>4, <3>1, <3>2, Zenon
    <2>3. ASSUME NEW j \in 1..(n + 1), s[j] \in S PROVE \E i \in 1..Len(t) : t[i] = s[j]
      <3>1. 1..Len(r) \subseteq 1..Len(t) /\ Len(r) + 1 \in 1..Len(t)
        BY <1>0, <1>1
      <3> QED
        BY <1>1, <1>2, <1>5, <2>3, <3>1, SMTT(30) DEF KeptOf
    <2>4. ASSUME NEW i \in 1..Len(t), NEW j \in 1..Len(t), i < j
          PROVE  \E a, b \in 1..(n + 1) : a < b /\ s[a] = t[i] /\ s[b] = t[j]
      <3>1. i \in 1..Len(r)
        BY <1>0, <1>1, <2>4
      <3>2. CASE j \in 1..Len(r)
        <4>1. PICK a \in 1..n, b \in 1..n : a < b /\ s[a] = r[i] /\ s[b] = r[j]
          BY <2>4, <3>1, <3>2, Zenon DEF KeptOf
        <4>2. t[i] = r[i] /\ t[j] = r[j]
          BY <1>1, <3>1, <3>2, Zenon
        <4> QED
          BY <1>3, <4>1, <4>2, Zenon
      <3>3. CASE j = Len(r) + 1
        <4>1. PICK a \in 1..n : s[a] = r[i]
          BY <3>1, Zenon DEF KeptOf
        <4> QED
          BY <1>1, <1>3, <1>5, <3>1, <3>3, <4>1, Zenon
      <3> QED
        BY <1>4, <3>2, <3>3, Zenon
    <2>5. (\E j \in 1..(n + 1) : s[j] \notin S) => Len(t) < n + 1
      <3>1. SUFFICES ASSUME NEW j \in 1..(n + 1), s[j] \notin S PROVE Len(t) < n + 1
        BY Zenon
      <3>2. j \in 1..n
        BY <1>2, <1>5, <1>6, <3>1, Zenon
      <3>3. Len(r) < n
        BY <3>1, <3>2, Zenon DEF KeptOf
      <3> QED
        BY <1>0, <1>1, <3>3
    <2>6. KeptOf(s, S, n + 1, t)
      BY <2>1, <2>2, <2>3, <2>4, <2>5, Zenon DEF KeptOf
    <2> QED
      BY <1>1, <1>5, <1>6, <2>6, Zenon DEF t
  <1>7. CASE x \notin S
    <2>0. Len(r) < n + 1
      BY <1>0 DEF KeptOf
    <2>1. Len(r) <= n + 1
      BY <1>0, <2>0
    <2>2. \A i \in 1..Len(r) : r[i] \in S /\ \E j \in 1..(n + 1) : s[j] = r[i]
      BY <1>3, Zenon DEF KeptOf
    <2>3. \A j \in 1..(n + 1) : s[j] \in S => \E i \in 1..Len(r) : r[i] = s[j]
      BY <1>2, <1>5, <1>7, Zenon DEF KeptOf
    <2>4. \A i, j \in 1..Len(r) :
             i < j => \E a, b \in 1..(n + 1) : a < b /\ s[a] = r[i] /\ s[b] = r[j]
      <3> SUFFICES ASSUME NEW i \in 1..Len(r), NEW j \in 1..Len(r), i < j
                   PROVE  \E a, b \in 1..(n + 1) : a < b /\ s[a] = r[i] /\ s[b] = r[j]
        BY Zenon
      <3>1. PICK a \in 1..n, b \in 1..n : a < b /\ s[a] = r[i] /\ s[b] = r[j]
        BY Zenon DEF KeptOf
      <3> QED
        BY <1>3, <3>1, Zenon
    <2>5. KeptOf(s, S, n + 1, r)
      BY <2>0, <2>1, <2>2, <2>3, <2>4, Zenon DEF KeptOf
    <2> QED
      BY <1>5, <1>7, <2>5, Zenon
  <1> QED
    BY <1>6, <1>7, Zenon

\* Only is a loop: there is one, by recursion on the length.
LEMMA LoopExists ==
    ASSUME NEW X, NEW s \in Seq(X), NEW S
    PROVE  \E k : Loop(s, S, k)
  <1> DEFINE P(n, k) == k = [i \in 0..n |-> IF i = 0 THEN <<>>
                                ELSE IF s[i] \in S THEN Append(k[i - 1], s[i]) ELSE k[i - 1]]
             Bad == {n \in Nat : ~ \E k : P(n, k)}
  <1>1. SUFFICES ASSUME Bad # {} PROVE FALSE
    <2>1. Len(s) \notin Bad /\ Len(s) \in Nat
      BY <1>1
    <2>2. \E k : P(Len(s), k)
      BY <2>1, Zenon
    <2> QED
      BY <2>2, Zenon DEF Loop
  <1>2. PICK n \in Bad : \A m \in Bad : n <= m
    <2>1. Bad \subseteq Nat
      BY Zenon
    <2> HIDE DEF Bad
    <2> QED
      BY <1>1, <2>1, SmallestNat, Zenon
  <1>3. n # 0
    <2>1. P(0, [i \in 0..0 |-> <<>>])
      OBVIOUS
    <2> QED
      BY <1>2, <2>1, Zenon
  <1>4. n \in Nat /\ n - 1 \in Nat /\ n - 1 \notin Bad
    <2>1. n \in Nat
      BY <1>2, Zenon
    <2> HIDE DEF Bad
    <2> QED
      BY <1>2, <1>3, <2>1
  <1>5. PICK k : P(n - 1, k)
    BY <1>4, Zenon
  <1> DEFINE last == IF s[n] \in S THEN Append(k[n - 1], s[n]) ELSE k[n - 1]
             g == [i \in 0..n |-> IF i < n THEN k[i] ELSE last]
  <1>6. \A i \in 0..(n - 1) : g[i] = k[i] /\ i \in 0..n
    BY <1>4
  <1>7. \A i \in 0..n : g[i] = IF i = 0 THEN <<>>
                               ELSE IF s[i] \in S THEN Append(g[i - 1], s[i]) ELSE g[i - 1]
    <2> SUFFICES ASSUME NEW i \in 0..n
                 PROVE  g[i] = IF i = 0 THEN <<>>
                               ELSE IF s[i] \in S THEN Append(g[i - 1], s[i]) ELSE g[i - 1]
      BY Zenon
    <2>1. CASE i < n
      <3>1. i \in 0..(n - 1) /\ (i # 0 => i - 1 \in 0..(n - 1))
        BY <1>4, <2>1
      <3>2. k[i] = IF i = 0 THEN <<>> ELSE IF s[i] \in S THEN Append(k[i - 1], s[i]) ELSE k[i - 1]
        BY <1>5, <3>1, Zenon
      <3> HIDE DEF g
      <3> QED
        BY <1>6, <3>1, <3>2, Zenon
    <2>2. CASE i = n
      <3>1. n - 1 \in 0..(n - 1) /\ g[n] = last
        BY <1>4
      <3>2. g[n - 1] = k[n - 1]
        BY <1>6, <3>1, Zenon
      <3> HIDE DEF g
      <3> QED
        BY <1>3, <2>2, <3>1, <3>2, Zenon
    <2> QED
      BY <1>4, <2>1, <2>2
  <1>8. g = [i \in 0..n |-> g[i]]
    BY Zenon
  <1>9. P(n, g)
    <2> HIDE DEF g
    <2> QED
      BY <1>7, <1>8, Zenon
  <1> QED
    BY <1>2, <1>9, Zenon

\* What is kept of a list is what is in the set, in the order of the list.
LEMMA OnlyKeeps ==
    ASSUME NEW X, NEW s \in Seq(X), NEW S
    PROVE  Only(s, S) \in Seq(X) /\ KeptOf(s, S, Len(s), Only(s, S))
  <1>1. PICK k : k = CHOOSE h : Loop(s, S, h)
    BY Zenon
  <1>2. Loop(s, S, k) /\ Only(s, S) = k[Len(s)]
    BY <1>1, LoopExists, OnlyIsLoop, Zenon
  <1> DEFINE Bad == {n \in Nat : n <= Len(s) /\ ~(k[n] \in Seq(X) /\ KeptOf(s, S, n, k[n]))}
  <1>3. SUFFICES ASSUME Bad # {} PROVE FALSE
    <2>1. Len(s) \notin Bad /\ Len(s) \in Nat
      BY <1>3
    <2> QED
      BY <1>2, <2>1
  <1>4. PICK n \in Bad : \A m \in Bad : n <= m
    <2>1. Bad \subseteq Nat
      BY Zenon
    <2> HIDE DEF Bad
    <2> QED
      BY <1>3, <2>1, SmallestNat, Zenon
  <1>5. n \in Nat /\ n <= Len(s) /\ ~(k[n] \in Seq(X) /\ KeptOf(s, S, n, k[n]))
    BY <1>4, Zenon
  <1>6. n # 0
    <2>1. k[0] = <<>>
      BY <1>2 DEF Loop
    <2>2. <<>> \in Seq(X) /\ KeptOf(s, S, 0, <<>>)
      BY DEF KeptOf
    <2> QED
      BY <1>5, <2>1, <2>2, Zenon
  <1>7. n - 1 \in Nat /\ n - 1 <= Len(s) /\ n - 1 \notin Bad /\ (n - 1) + 1 = n
    BY <1>4, <1>5, <1>6
  <1>8. k[n - 1] \in Seq(X) /\ KeptOf(s, S, n - 1, k[n - 1])
    BY <1>7, Zenon
  <1>9. k[n] = IF s[n] \in S THEN Append(k[n - 1], s[n]) ELSE k[n - 1]
    <2>1. n \in 0..Len(s)
      BY <1>5
    <2> QED
      BY <1>2, <1>6, <2>1, Zenon DEF Loop
  <1> HIDE DEF Bad
  <1>10. k[n] \in Seq(X) /\ KeptOf(s, S, n, k[n])
    BY <1>5, <1>7, <1>8, <1>9, KeptGrows
  <1> QED
    BY <1>5, <1>10, Zenon

-----------------------------------------------------------------------------
(* Lists whose elements have a weight *)

\* The sum of the weights w[x] of the elements x of a list.
Weight(s, w) == SumFunctionOnSet([i \in 1..Len(s) |-> w[s[i]]], 1..Len(s))

\* The numbers from a to n, and the one after them.
LEMMA IntervalGrows ==
    ASSUME NEW a \in Int, NEW n \in Int, a <= n + 1
    PROVE  /\ a..(n + 1) = (a..n) \cup {n + 1} /\ n + 1 \notin a..n
           /\ IsFiniteSet(a..n) /\ IsFiniteSet(a..(n + 1))
  <1>1. IsFiniteSet(a..n) /\ IsFiniteSet(a..(n + 1))
    <2>1. n + 1 \in Int
      OBVIOUS
    <2> QED
      BY <2>1, FS_Interval, Zenon
  <1>2. \A x : x \in a..(n + 1) <=> x \in (a..n) \cup {n + 1}
    OBVIOUS
  <1>3. n + 1 \notin a..n
    OBVIOUS
  <1> QED
    BY <1>1, <1>2, <1>3, Zenon

\* A sum over numbers does not change when they are all moved by one.
LEMMA SumShift ==
    ASSUME NEW n \in Nat, NEW f, NEW g, \A i \in 1..n : f[i + 1] \in Int /\ g[i] = f[i + 1]
    PROVE  SumFunctionOnSet(f, 2..(n + 1)) = SumFunctionOnSet(g, 1..n)
  <1> DEFINE Bad == {m \in Nat : m <= n /\ SumFunctionOnSet(f, 2..(m + 1))
                                             # SumFunctionOnSet(g, 1..m)}
  <1>1. SUFFICES ASSUME Bad # {} PROVE FALSE
    <2>1. n \notin Bad
      BY <1>1, Zenon
    <2> QED
      BY <2>1
  <1>2. PICK m \in Bad : \A k \in Bad : m <= k
    <2>1. Bad \subseteq Nat
      BY Zenon
    <2> HIDE DEF Bad
    <2> QED
      BY <1>1, <2>1, SmallestNat, Zenon
  <1>3. m \in Nat /\ m <= n /\ SumFunctionOnSet(f, 2..(m + 1)) # SumFunctionOnSet(g, 1..m)
    BY <1>2, Zenon
  <1>4. m # 0
    <2>1. 2..(0 + 1) = {} /\ 1..0 = {}
      OBVIOUS
    <2>2. SumFunctionOnSet(f, {}) = 0 /\ SumFunctionOnSet(g, {}) = 0
      BY FS_EmptySet, SumStep, Zenon
    <2> QED
      BY <1>3, <2>1, <2>2, Zenon
  <1>5. m - 1 \in Nat /\ m - 1 <= n /\ m - 1 \notin Bad /\ (m - 1) + 1 = m
    BY <1>2, <1>3, <1>4
  <1>6. SumFunctionOnSet(f, 2..m) = SumFunctionOnSet(g, 1..(m - 1))
    BY <1>5, Zenon
  <1> HIDE DEF Bad
  <1>7. /\ 2..(m + 1) = 2..m \cup {m + 1} /\ m + 1 \notin 2..m /\ IsFiniteSet(2..m)
        /\ 1..m = 1..(m - 1) \cup {m} /\ m \notin 1..(m - 1) /\ IsFiniteSet(1..(m - 1))
    <2>1. m \in Int /\ 2 <= m + 1 /\ m - 1 \in Int /\ 1 <= (m - 1) + 1 /\ (m - 1) + 1 = m
      BY <1>3, <1>4
    <2>2. /\ 2..(m + 1) = 2..m \cup {m + 1} /\ m + 1 \notin 2..m /\ IsFiniteSet(2..m)
      BY <2>1, IntervalGrows, SMTT(30)
    <2>3. /\ 1..((m - 1) + 1) = 1..(m - 1) \cup {(m - 1) + 1} /\ (m - 1) + 1 \notin 1..(m - 1)
          /\ IsFiniteSet(1..(m - 1))
      <3> DEFINE k == m - 1
      <3>1. 1 \in Int /\ k \in Int /\ 1 <= k + 1
        BY <2>1
      <3> HIDE DEF k
      <3>2. 1..(k + 1) = 1..k \cup {k + 1} /\ k + 1 \notin 1..k /\ IsFiniteSet(1..k)
        BY <3>1, IntervalGrows, Zenon
      <3> QED
        BY <3>2, Zenon DEF k
    <2> QED
      BY <2>1, <2>2, <2>3, Zenon
  <1>8. /\ \A i \in 2..m \cup {m + 1} : f[i] \in Int
        /\ \A i \in 1..(m - 1) \cup {m} : g[i] \in Int
        /\ g[m] = f[m + 1]
    <2>1. ASSUME NEW i \in 2..(m + 1) PROVE f[i] \in Int
      <3>1. i - 1 \in 1..n /\ (i - 1) + 1 = i
        BY <1>3
      <3> QED
        BY <3>1, Zenon
    <2>2. ASSUME NEW i \in 1..m PROVE g[i] \in Int
      <3>1. i \in 1..n
        BY <1>3
      <3> QED
        BY <3>1, Zenon
    <2>3. m \in 1..n
      BY <1>3, <1>4
    <2> QED
      BY <1>7, <2>1, <2>2, <2>3, Zenon
  <1>9. /\ SumFunctionOnSet(f, 2..m \cup {m + 1}) = SumFunctionOnSet(f, 2..m) + f[m + 1]
        /\ SumFunctionOnSet(g, 1..(m - 1) \cup {m}) = SumFunctionOnSet(g, 1..(m - 1)) + g[m]
    <2> DEFINE A == 2..m
               B == 1..(m - 1)
               k == m + 1
    <2>1. /\ IsFiniteSet(A) /\ k \notin A /\ \A i \in A \cup {k} : f[i] \in Int
          /\ IsFiniteSet(B) /\ m \notin B /\ \A i \in B \cup {m} : g[i] \in Int
      BY <1>7, <1>8, Zenon
    <2> HIDE DEF A, B, k
    <2>2. SumFunctionOnSet(f, A \cup {k}) = SumFunctionOnSet(f, A) + f[k]
      BY <2>1, SumAdd, Zenon
    <2>3. SumFunctionOnSet(g, B \cup {m}) = SumFunctionOnSet(g, B) + g[m]
      BY <2>1, SumAdd
    <2> QED
      BY <2>2, <2>3, Zenon DEF A, B, k
  <1> QED
    BY <1>3, <1>6, <1>7, <1>8, <1>9, Zenon

\* The weight of a list is a natural number, 0 if nothing in it weighs anything.
LEMMA WeightType ==
    ASSUME NEW X, NEW s \in Seq(X), NEW w \in [X -> Nat]
    PROVE  /\ Weight(s, w) \in Nat
           /\ (\A i \in 1..Len(s) : w[s[i]] = 0) => Weight(s, w) = 0
           /\ \A i \in 1..Len(s) : w[s[i]] <= Weight(s, w)
  <1> DEFINE f == [i \in 1..Len(s) |-> w[s[i]]]
  <1>1. IsFiniteSet(1..Len(s)) /\ \A i \in 1..Len(s) : f[i] \in Nat /\ f[i] = w[s[i]]
    <2>1. 1 \in Int /\ Len(s) \in Int
      OBVIOUS
    <2>2. IsFiniteSet(1..Len(s))
      BY <2>1, FS_Interval, Zenon
    <2> QED
      BY <2>2
  <1>2. Weight(s, w) = SumFunctionOnSet(f, 1..Len(s))
    BY Zenon DEF Weight
  <1> HIDE DEF f
  <1>3. Weight(s, w) \in Int /\ Weight(s, w) >= 0
    BY <1>1, <1>2, SumType, SMTT(30)
  <1>4. \A i \in 1..Len(s) : f[i] <= SumFunctionOnSet(f, 1..Len(s))
    BY <1>1, SumAtLeast, Zenon
  <1>5. ASSUME \A i \in 1..Len(s) : w[s[i]] = 0 PROVE Weight(s, w) = 0
    <2>1. SumFunctionOnSet(f, 1..Len(s)) = SumFunctionOnSet(f, {})
      <3>1. {} \in SUBSET (1..Len(s)) /\ \A i \in (1..Len(s)) \ {} : f[i] = 0
        BY <1>1, <1>5, Zenon
      <3>2. \A i \in 1..Len(s) : f[i] \in Int
        BY <1>1
      <3> QED
        BY <1>1, <3>1, <3>2, SumSupport, Zenon
    <2> QED
      BY <1>2, <2>1, FS_EmptySet, SumStep, Zenon
  <1> QED
    BY <1>1, <1>2, <1>3, <1>4, <1>5

\* An element at the end adds its weight.
LEMMA WeightAppend ==
    ASSUME NEW X, NEW s \in Seq(X), NEW w \in [X -> Nat], NEW x \in X
    PROVE  Weight(Append(s, x), w) = Weight(s, w) + w[x]
  <1> DEFINE t == Append(s, x)
             n == Len(s)
             f == [i \in 1..n |-> w[s[i]]]
             g == [i \in 1..(n + 1) |-> w[t[i]]]
  <1>1. t \in Seq(X) /\ Len(t) = n + 1 /\ n \in Nat /\ t[n + 1] = x /\ \A i \in 1..n : t[i] = s[i]
    OBVIOUS
  <1>2. Weight(s, w) = SumFunctionOnSet(f, 1..n) /\ Weight(t, w) = SumFunctionOnSet(g, 1..(n + 1))
    BY <1>1, Zenon DEF Weight
  <1> HIDE DEF t, n
  <1>3. 1..(n + 1) = 1..n \cup {n + 1} /\ n + 1 \notin 1..n /\ IsFiniteSet(1..n)
    <2>1. 1 \in Int /\ n \in Int /\ 1 <= n + 1
      BY <1>1
    <2> QED
      BY <2>1, IntervalGrows, Zenon
  <1>4. /\ \A i \in 1..n \cup {n + 1} : g[i] \in Int
        /\ g[n + 1] = w[x]
        /\ \A i \in 1..n : g[i] = f[i] /\ g[i] \in Int
    <2>1. ASSUME NEW i \in 1..(n + 1) PROVE g[i] \in Int
      BY <1>1
    <2>2. g[n + 1] = w[x]
      BY <1>1
    <2>3. ASSUME NEW i \in 1..n PROVE g[i] = f[i]
      <3>1. i \in 1..(n + 1)
        BY <1>1
      <3> QED
        BY <1>1, <3>1, Zenon
    <2> HIDE DEF f, g
    <2> QED
      BY <1>3, <2>1, <2>2, <2>3, Zenon
  <1> HIDE DEF f, g
  <1>5. SumFunctionOnSet(g, 1..n \cup {n + 1}) = SumFunctionOnSet(g, 1..n) + g[n + 1]
    <2> DEFINE A == 1..n
               k == n + 1
    <2>1. IsFiniteSet(A) /\ k \notin A /\ \A i \in A \cup {k} : g[i] \in Int
      BY <1>3, <1>4, Zenon
    <2> HIDE DEF A, k
    <2>2. SumFunctionOnSet(g, A \cup {k}) = SumFunctionOnSet(g, A) + g[k]
      BY <2>1, SumAdd, Zenon
    <2> QED
      BY <2>2, Zenon DEF A, k
  <1>6. SumFunctionOnSet(g, 1..n) = SumFunctionOnSet(f, 1..n)
    <2> DEFINE A == 1..n
    <2>1. IsFiniteSet(A)
      BY <1>3, Zenon
    <2>2. \A i \in A : g[i] = f[i] /\ g[i] \in Int
      BY <1>4, Zenon
    <2> HIDE DEF A
    <2>3. SumFunctionOnSet(g, A) = SumFunctionOnSet(f, A)
      BY <2>1, <2>2, SumSame, Zenon
    <2> QED
      BY <2>3, Zenon DEF A
  <1>7. Weight(t, w) = Weight(s, w) + w[x]
    BY <1>2, <1>3, <1>4, <1>5, <1>6, Zenon
  <1> QED
    BY <1>7, Zenon DEF t

\* Taking the first element takes its weight.
LEMMA WeightTail ==
    ASSUME NEW X, NEW s \in Seq(X), NEW w \in [X -> Nat], s # <<>>
    PROVE  Weight(Tail(s), w) = Weight(s, w) - w[Head(s)]
  <1> DEFINE t == Tail(s)
             n == Len(t)
             f == [i \in 1..(n + 1) |-> w[s[i]]]
             g == [i \in 1..n |-> w[t[i]]]
  <1>1. /\ t \in Seq(X) /\ n \in Nat /\ Len(s) = n + 1 /\ Head(s) = s[1]
        /\ \A i \in 1..n : t[i] = s[i + 1]
    OBVIOUS
  <1>2. Weight(s, w) = SumFunctionOnSet(f, 1..(n + 1)) /\ Weight(t, w) = SumFunctionOnSet(g, 1..n)
    BY <1>1, Zenon DEF Weight
  <1> HIDE DEF t, n
  <1>3. /\ (1..(n + 1)) \ {1} = 2..(n + 1) /\ 1 \in 1..(n + 1) /\ IsFiniteSet(1..(n + 1))
    <2>1. 1 \in Int /\ n \in Int /\ 1 <= n + 1
      BY <1>1
    <2>2. IsFiniteSet(1..(n + 1))
      BY <2>1, IntervalGrows, Zenon
    <2>3. \A x : x \in (1..(n + 1)) \ {1} <=> x \in 2..(n + 1)
      BY <1>1
    <2>4. (1..(n + 1)) \ {1} = 2..(n + 1)
      BY <2>3, Zenon
    <2> QED
      BY <2>1, <2>2, <2>4
  <1>4. /\ \A i \in 1..(n + 1) : f[i] \in Int
        /\ f[1] = w[Head(s)]
        /\ \A i \in 1..n : f[i + 1] \in Int /\ g[i] = f[i + 1]
    <2>1. ASSUME NEW i \in 1..(n + 1) PROVE f[i] \in Int /\ f[i] = w[s[i]]
      BY <1>1
    <2>2. ASSUME NEW i \in 1..n PROVE i + 1 \in 1..(n + 1) /\ g[i] = w[s[i + 1]]
      BY <1>1
    <2> HIDE DEF f, g
    <2> QED
      BY <1>1, <1>3, <2>1, <2>2, Zenon
  <1> HIDE DEF f, g
  <1>5. /\ SumFunctionOnSet(f, 1..(n + 1)) = f[1] + SumFunctionOnSet(f, (1..(n + 1)) \ {1})
        /\ SumFunctionOnSet(f, (1..(n + 1)) \ {1}) \in Int
    BY <1>3, <1>4, SumRemove, Zenon
  <1>6. SumFunctionOnSet(f, 2..(n + 1)) = SumFunctionOnSet(g, 1..n)
    BY <1>1, <1>4, SumShift, Zenon
  <1>7. f[1] \in Int
    BY <1>3, <1>4, Zenon
  <1>8. Weight(t, w) = Weight(s, w) - w[Head(s)]
    <2>1. /\ SumFunctionOnSet(f, 1..(n + 1)) = f[1] + SumFunctionOnSet(f, 2..(n + 1))
          /\ SumFunctionOnSet(f, 2..(n + 1)) \in Int
      BY <1>3, <1>5, Zenon
    <2>2. Weight(s, w) = w[Head(s)] + Weight(t, w) /\ Weight(t, w) \in Int /\ w[Head(s)] \in Int
      BY <1>2, <1>4, <1>6, <1>7, <2>1, Zenon
    <2> QED
      BY <2>2
  <1> QED
    BY <1>8, Zenon DEF t
=============================================================================
