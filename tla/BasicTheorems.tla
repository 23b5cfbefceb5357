--------------------------- MODULE BasicTheorems ---------------------------
(***************************************************************************)
(* What the operators of the community modules that the models use return: *)
(* the least and the greatest of a set of numbers, and the sum a fold over *)
(* a function yields.  A recursion is reasoned about without an induction  *)
(* scheme: of the arguments on which a claim fails a least one is taken,   *)
(* which the well-founded orders of the library have.                      *)
(***************************************************************************)
EXTENDS Integers, Functions, FiniteSetsExt, FiniteSetTheorems, WellFoundedInduction, TLAPS

\* A set of numbers that is not empty has a least member, and Min returns it.
LEMMA LeastOf ==
  ASSUME NEW S \in SUBSET Nat, S # {}
  PROVE  Min(S) \in S /\ \A y \in S : Min(S) <= y
<1> DEFINE R == OpToRel(<, Nat)
<1>1. IsWellFoundedOn(R, Nat)
  BY NatLessThanWellFounded
<1>2. \A x, y \in Nat : x < y => <<x, y>> \in R
  BY DEF OpToRel
<1> HIDE DEF R
<1>3. PICK x \in S : \A y \in S : ~(<<y, x>> \in R)
  BY <1>1, WFMin
<1>4. \A y \in S : ~(y < x) /\ y \in Nat
  BY <1>2, <1>3
<1>5. x \in Nat
  BY <1>4
<1>6. \E z \in S : \A y \in S : z <= y
  BY <1>4, <1>5
<1> QED  BY <1>6, Zenon DEF Min

\* And one that is bounded has a greatest, which Max returns.
LEMMA GreatestOf ==
  ASSUME NEW n \in Nat, NEW S \in SUBSET (0..n), S # {}
  PROVE  Max(S) \in S /\ \A y \in S : Max(S) >= y
<1> DEFINE T == {n - x : x \in S}
<1>1. T \in SUBSET Nat /\ T # {}
  <2>1. \A x \in S : n - x \in Nat
    OBVIOUS
  <2> QED  BY <2>1
<1>2. Min(T) \in T /\ \A y \in T : Min(T) <= y
  BY <1>1, LeastOf
<1>3. PICK x \in S : Min(T) = n - x
  BY <1>2
<1>4. ASSUME NEW y \in S PROVE x >= y
  <2>1. n - x <= n - y
    BY <1>2, <1>3
  <2>2. x \in Nat /\ y \in Nat
    OBVIOUS
  <2> QED  BY <2>1, <2>2
<1> QED  BY <1>4, Zenon DEF Max

-----------------------------------------------------------------------------
\* A total G of parts of S that grows by c[x] with every x that joins a part.
Totals(G, c, S) ==
  /\ G \in [SUBSET S -> Nat]
  /\ G[{}] = 0
  /\ \A s \in SUBSET S : \A x \in s : G[s] = c[x] + G[s \ {x}]

\* The recursion behind FoldFunction has one solution, whichever member of a
\* part it takes first: the total.
LEMMA FoldIsTotal ==
  ASSUME NEW S, IsFiniteSet(S), NEW c \in [S -> Nat], NEW G, Totals(G, c, S)
  PROVE  FoldFunction(+, 0, c) = G[S]
<1> DEFINE Any(s)   == CHOOSE x \in s : TRUE
           Step(g)  == [s \in SUBSET S |-> IF s = {} THEN 0 ELSE c[Any(s)] + g[s \ {Any(s)}]]
           iter     == CHOOSE g : g = Step(g)
           Wrong    == {s \in SUBSET S : iter[s] # G[s]}
           R        == StrictSubsetOrdering(S)
<1>1. FoldFunction(+, 0, c) = iter[S]
  <2>1. DOMAIN c = S
    OBVIOUS
  <2> QED  BY <2>1, Zenon DEF FoldFunction, FoldFunctionOnSet, MapThenFoldSet
<1>2. ASSUME NEW s \in SUBSET S, s # {} PROVE Any(s) \in s
  BY <1>2
<1>3. G = Step(G)
  <2>1. DOMAIN G = SUBSET S /\ G = [s \in SUBSET S |-> G[s]]
    BY DEF Totals
  <2>2. ASSUME NEW s \in SUBSET S
        PROVE  G[s] = IF s = {} THEN 0 ELSE c[Any(s)] + G[s \ {Any(s)}]
    BY <1>2 DEF Totals
  <2> QED  BY <2>1, <2>2
<1>4. iter = Step(iter)
  BY <1>3, Zenon
<1>5. \A s \in SUBSET S : iter[s] = IF s = {} THEN 0 ELSE c[Any(s)] + iter[s \ {Any(s)}]
  <2> HIDE DEF iter, Any
  <2> QED  BY <1>4
<1>6. Wrong = {}
  <2> SUFFICES ASSUME Wrong # {} PROVE FALSE
    OBVIOUS
  <2>1. SUBSET S \subseteq FiniteSubsetsOf(S)
    BY FS_Subset DEF FiniteSubsetsOf
  <2>2. IsWellFoundedOn(R, FiniteSubsetsOf(S))
    BY FS_StrictSubsetOrderingWellFounded
  <2>3. \E s \in Wrong : \A t \in Wrong : ~ (<<t, s>> \in R)
    <3> HIDE DEF R
    <3>1. Wrong \subseteq FiniteSubsetsOf(S)
      BY <2>1
    <3> HIDE DEF Wrong
    <3> QED  BY <2>2, <3>1, WFMin
  <2>4. PICK s \in Wrong : \A t \in Wrong : ~ (<<t, s>> \in R)
    BY <2>3
  <2>5. s \in SUBSET S /\ iter[s] # G[s]
    BY <2>4
  <2> HIDE DEF iter
  <2>6. s # {}
    BY <1>5, <2>5 DEF Totals
  <2> DEFINE x == Any(s)
  <2>7. x \in s
    BY <1>2, <2>5, <2>6
  <2> HIDE DEF x
  <2>8. s \ {x} \in SUBSET S /\ s \ {x} \subseteq s /\ s \ {x} # s
    BY <2>5, <2>7
  <2>9. <<s \ {x}, s>> \in R
    BY <2>5, <2>8 DEF StrictSubsetOrdering
  <2>10. iter[s \ {x}] = G[s \ {x}]
    BY <2>4, <2>8, <2>9
  <2>11. iter[s] = c[x] + iter[s \ {x}]
    BY <1>5, <2>5, <2>6 DEF x
  <2>12. G[s] = c[x] + G[s \ {x}]
    BY <2>5, <2>7 DEF Totals
  <2> QED  BY <2>5, <2>10, <2>11, <2>12
<1>7. iter[S] = G[S]
  <2> HIDE DEF iter
  <2> QED  BY <1>6
<1> QED  BY <1>1, <1>7

-----------------------------------------------------------------------------
\* Every function into the naturals has a total: its units, counted.
LEMMA TotalExists ==
  ASSUME NEW S, IsFiniteSet(S), NEW c \in [S -> Nat]
  PROVE  \E G : Totals(G, c, S)
<1> DEFINE Own(x)   == {x} \X (1..c[x])
           Units(s) == UNION {Own(x) : x \in s}
           G        == [s \in SUBSET S |-> Cardinality(Units(s))]
<1>1. ASSUME NEW x \in S PROVE IsFiniteSet(Own(x)) /\ Cardinality(Own(x)) = c[x]
  <2>1. IsFiniteSet({x}) /\ Cardinality({x}) = 1
    BY FS_Singleton
  <2>2. IsFiniteSet(1..c[x]) /\ Cardinality(1..c[x]) = c[x]
    BY FS_Interval
  <2>3. IsFiniteSet(Own(x)) /\ Cardinality(Own(x)) = 1 * c[x]
    BY <2>1, <2>2, FS_Product
  <2> QED  BY <2>3
<1>2. ASSUME NEW s \in SUBSET S PROVE IsFiniteSet(Units(s))
  <2> DEFINE own == [x \in s |-> Own(x)]
             all == {Own(x) : x \in s}
  <2>1. own \in Surjection(s, all)
    BY DEF Surjection
  <2>2. IsFiniteSet(s)
    BY FS_Subset
  <2>3. IsFiniteSet(all)
    <3> HIDE DEF own, all
    <3> QED  BY <2>1, <2>2, FS_Surjection
  <2>4. \A T \in all : IsFiniteSet(T)
    BY <1>1
  <2> QED
    <3> HIDE DEF all
    <3>1. IsFiniteSet(UNION all)
      BY <2>3, <2>4, FS_UNION
    <3> QED  BY <3>1 DEF all
<1>3. ASSUME NEW s \in SUBSET S, NEW x \in s
      PROVE  Cardinality(Units(s)) = c[x] + Cardinality(Units(s \ {x}))
  <2> DEFINE rest == Units(s \ {x})
  <2>1. Units(s) = rest \cup Own(x) /\ rest \cap Own(x) = {}
    OBVIOUS
  <2>2. IsFiniteSet(rest) /\ IsFiniteSet(Own(x)) /\ Cardinality(Own(x)) = c[x]
    BY <1>1, <1>2
  <2> HIDE DEF rest, Own
  <2>3. Cardinality(rest \cup Own(x))
          = Cardinality(rest) + Cardinality(Own(x)) - Cardinality(rest \cap Own(x))
    BY <2>2, FS_Union
  <2>4. Cardinality(rest \cap Own(x)) = 0
    BY <2>1, FS_EmptySet
  <2>5. Cardinality(rest) \in Nat /\ c[x] \in Nat
    BY <2>2, FS_CardinalityType
  <2> HIDE DEF Units
  <2>6. Cardinality(Units(s)) = c[x] + Cardinality(rest)
    BY <2>1, <2>2, <2>3, <2>4, <2>5
  <2> QED  BY <2>6 DEF rest
<1>4. G \in [SUBSET S -> Nat]
  <2> HIDE DEF Units
  <2> QED  BY <1>2, FS_CardinalityType
<1>5. G[{}] = 0
  <2>1. Units({}) = {}
    OBVIOUS
  <2> HIDE DEF Units
  <2>2. {} \in SUBSET S /\ Cardinality({}) = 0
    BY FS_EmptySet
  <2> QED  BY <2>1, <2>2
<1>6. ASSUME NEW s \in SUBSET S, NEW x \in s PROVE G[s] = c[x] + G[s \ {x}]
  <2> HIDE DEF Units
  <2>1. s \ {x} \in SUBSET S
    OBVIOUS
  <2> QED  BY <1>3, <2>1
<1> HIDE DEF G
<1> QED  BY <1>4, <1>5, <1>6 DEF Totals

\* A sum is a number.
LEMMA SumIsNat ==
  ASSUME NEW S, IsFiniteSet(S), NEW c \in [S -> Nat]
  PROVE  FoldFunction(+, 0, c) \in Nat
<1>1. PICK G : Totals(G, c, S)
  BY TotalExists
<1>2. G[S] \in Nat
  BY <1>1 DEF Totals
<1> QED  BY <1>1, <1>2, FoldIsTotal

\* The sum of a function, one value of which grows by one, grows by one.
LEMMA SumGrows ==
  ASSUME NEW S, IsFiniteSet(S), NEW c \in [S -> Nat], NEW x \in S
  PROVE  FoldFunction(+, 0, [c EXCEPT ![x] = @ + 1]) = FoldFunction(+, 0, c) + 1
<1> DEFINE d == [c EXCEPT ![x] = @ + 1]
<1>1. PICK G : Totals(G, c, S)
  BY TotalExists
<1> DEFINE H == [s \in SUBSET S |-> IF x \in s THEN G[s] + 1 ELSE G[s]]
<1>2. d \in [S -> Nat]
  OBVIOUS
<1>3. \A s \in SUBSET S : G[s] \in Nat
  BY <1>1 DEF Totals
<1>4. H \in [SUBSET S -> Nat] /\ H[{}] = 0
  BY <1>1, <1>3 DEF Totals
<1>5. ASSUME NEW s \in SUBSET S, NEW y \in s PROVE H[s] = d[y] + H[s \ {y}]
  <2>1. G[s] = c[y] + G[s \ {y}] /\ c[y] \in Nat /\ G[s \ {y}] \in Nat /\ s \ {y} \in SUBSET S
    BY <1>1, <1>3 DEF Totals
  <2>2. CASE y = x
    BY <2>1, <2>2
  <2>3. CASE y # x
    BY <2>1, <2>3
  <2> QED  BY <2>2, <2>3
<1> HIDE DEF H, d
<1>6. Totals(H, d, S)
  BY <1>4, <1>5 DEF Totals
<1>7. FoldFunction(+, 0, c) = G[S] /\ FoldFunction(+, 0, d) = H[S]
  BY <1>1, <1>2, <1>6, FoldIsTotal
<1>8. H[S] = G[S] + 1 /\ G[S] \in Nat
  BY <1>3 DEF H
<1> QED  BY <1>7, <1>8 DEF d

\* Nothing adds up to nothing.
LEMMA SumOfZeros ==
  ASSUME NEW S, IsFiniteSet(S)
  PROVE  FoldFunction(+, 0, [x \in S |-> 0]) = 0
<1> DEFINE c == [x \in S |-> 0]
           G == [s \in SUBSET S |-> 0]
<1>1. c \in [S -> Nat]
  OBVIOUS
<1>2. Totals(G, c, S)
  BY DEF Totals
<1>3. G[S] = 0
  OBVIOUS
<1> HIDE DEF c, G
<1>4. FoldFunction(+, 0, c) = G[S]
  BY <1>1, <1>2, FoldIsTotal
<1> QED  BY <1>3, <1>4 DEF c

\* The classes of a partition count what there is to count: each member of E has
\* its class by K, and all the classes of S together hold those that have one there.
LEMMA SumOfClasses ==
  ASSUME NEW S, IsFiniteSet(S), NEW E, IsFiniteSet(E), NEW K
  PROVE  SumFunction([x \in S |-> Cardinality({i \in E : K[i] = x})])
           = Cardinality({i \in E : K[i] \in S})
<1> DEFINE c == [x \in S |-> Cardinality({i \in E : K[i] = x})]
           G == [s \in SUBSET S |-> Cardinality({i \in E : K[i] \in s})]
<1>1. ASSUME NEW T \in SUBSET E PROVE IsFiniteSet(T) /\ Cardinality(T) \in Nat
  BY FS_Subset, FS_CardinalityType
<1>2. c \in [S -> Nat] /\ G \in [SUBSET S -> Nat]
  BY <1>1
<1>3. G[{}] = 0
  <2>1. {i \in E : K[i] \in {}} = {}
    OBVIOUS
  <2> QED  BY <2>1, FS_EmptySet
<1>4. ASSUME NEW s \in SUBSET S, NEW x \in s PROVE G[s] = c[x] + G[s \ {x}]
  <2> DEFINE own  == {i \in E : K[i] = x}
             rest == {i \in E : K[i] \in s \ {x}}
             all  == {i \in E : K[i] \in s}
  <2>1. own \cup rest = all /\ own \cap rest = {} /\ s \ {x} \in SUBSET S /\ x \in S
    OBVIOUS
  <2>2. G[s] = Cardinality(all) /\ c[x] = Cardinality(own) /\ G[s \ {x}] = Cardinality(rest)
    BY <2>1
  <2>3. /\ IsFiniteSet(own) /\ Cardinality(own) \in Nat
        /\ IsFiniteSet(rest) /\ Cardinality(rest) \in Nat
    BY <1>1
  <2> HIDE DEF own, rest, all, c, G
  <2>4. Cardinality(own \cup rest) = Cardinality(own) + Cardinality(rest) - Cardinality(own \cap rest)
    BY <2>3, FS_Union
  <2>5. Cardinality(own \cap rest) = 0
    BY <2>1, FS_EmptySet
  <2>6. Cardinality(own \cup rest) = Cardinality(all)
    BY <2>1
  <2> QED  BY <2>2, <2>3, <2>4, <2>5, <2>6
<1>5. G[S] = Cardinality({i \in E : K[i] \in S})
  OBVIOUS
<1> HIDE DEF c, G
<1>6. Totals(G, c, S)
  BY <1>2, <1>3, <1>4 DEF Totals
<1>7. FoldFunction(+, 0, c) = G[S]
  BY <1>2, <1>6, FoldIsTotal
<1>8. SumFunction(c) = FoldFunction(+, 0, c)
  BY Zenon DEF SumFunction, SumFunctionOnSet, FoldFunction
<1> QED  BY <1>5, <1>7, <1>8 DEF c
=============================================================================
