------------------------------ MODULE SumLemmas ------------------------------
(***************************************************************************)
(* What SumFunctionOnSet adds up, for every finite set. The library folds  *)
(* over a set in an order of its own; that the order does not matter is    *)
(* shown by a smallest set for which it would.                             *)
(***************************************************************************)
EXTENDS Functions, FiniteSetTheorems, TLAPS

\* The member of s the library takes first, and a function that adds up as it does.
First(s) == CHOOSE x \in s : TRUE
Adds(g, fun, D) ==
  g = [s \in SUBSET D |-> IF s = {} THEN 0 ELSE fun[First(s)] + g[s \ {First(s)}]]

Ints(fun, S) == \A x \in S : fun[x] \in Int

\* Of the subsets of a finite set that share a property one is smallest.
LEMMA SmallestSet ==
  ASSUME NEW S, IsFiniteSet(S), NEW T \in SUBSET SUBSET S, T # {}
  PROVE  \E s \in T : \A r \in SUBSET s : r # s => r \notin T
<1>1. IsWellFoundedOn(StrictSubsetOrdering(S), SUBSET S)
  BY FS_StrictSubsetOrderingWellFounded, FS_FiniteSubsetsOfFinite
<1>2. PICK s \in T : \A r \in T : <<r, s>> \notin StrictSubsetOrdering(S)
  BY <1>1, WFMin
<1> QED
  BY <1>2 DEF StrictSubsetOrdering

LEMMA FirstFacts == \A s : s # {} => First(s) \in s /\ s \ {First(s)} # s
BY DEF First

LEMMA SumIsThat ==
  ASSUME NEW fun, NEW S
  PROVE  SumFunctionOnSet(fun, S) = (CHOOSE g : Adds(g, fun, S))[S]
BY DEF SumFunctionOnSet, FoldFunctionOnSet, MapThenFoldSet, Adds, First

\* There is one such function at most, and one at least.
LEMMA AddsAgree ==
  ASSUME NEW fun, NEW D, NEW E, NEW S \in SUBSET D, S \in SUBSET E, IsFiniteSet(S),
         NEW g, NEW h, Adds(g, fun, D), Adds(h, fun, E)
  PROVE  g[S] = h[S]
<1> DEFINE T == {s \in SUBSET S : g[s] # h[s]}
<1>1. SUFFICES ASSUME T # {} PROVE FALSE
  OBVIOUS
<1>0. T \in SUBSET SUBSET S
  OBVIOUS
<1> HIDE DEF T
<1>2. PICK s \in T : \A r \in SUBSET s : r # s => r \notin T
  BY <1>0, <1>1, SmallestSet
<1> USE DEF T
<1>3. s \in SUBSET D /\ s \in SUBSET E
  OBVIOUS
<1>4. s # {}
  BY <1>3 DEF Adds
<1>5. g[s \ {First(s)}] = h[s \ {First(s)}]
  BY <1>2, <1>4, FirstFacts
<1> QED
  BY <1>3, <1>4, <1>5 DEF Adds

LEMMA AddsExists ==
  ASSUME NEW fun, NEW S, IsFiniteSet(S)
  PROVE  \E g : Adds(g, fun, S)
<1> DEFINE T == {s \in SUBSET S : ~ \E g : Adds(g, fun, s)}
<1>1. SUFFICES ASSUME T # {} PROVE FALSE
  OBVIOUS
<1>0. T \in SUBSET SUBSET S
  OBVIOUS
<1> HIDE DEF T
<1>2. PICK s \in T : \A r \in SUBSET s : r # s => r \notin T
  BY <1>0, <1>1, SmallestSet
<1> USE DEF T
<1> DEFINE G(r) == CHOOSE g : Adds(g, fun, r)
           h == [r \in SUBSET s |-> IF r = {} THEN 0
                                    ELSE fun[First(r)] + G(r \ {First(r)})[r \ {First(r)}]]
<1>3. ASSUME NEW r \in SUBSET s, r # s
      PROVE  Adds(G(r), fun, r)
  BY <1>2, <1>3
<1> HIDE DEF G, T
<1>4. ASSUME NEW q \in SUBSET s, q # s
      PROVE  h[q] = G(q)[q]
  <2>1. G(q)[q] = IF q = {} THEN 0 ELSE fun[First(q)] + G(q)[q \ {First(q)}]
    BY <1>3, <1>4 DEF Adds
  <2>2. ASSUME q # {}
        PROVE  G(q)[q \ {First(q)}] = G(q \ {First(q)})[q \ {First(q)}]
    <3>1. q \ {First(q)} \in SUBSET s /\ q \ {First(q)} # s /\ q \ {First(q)} \in SUBSET q
      BY <1>4, <2>2, FirstFacts
    <3>2. IsFiniteSet(q \ {First(q)})
      BY <1>2, <3>1, FS_Subset DEF T
    <3> QED
      BY <1>3, <1>4, <3>1, <3>2, AddsAgree
  <2> QED
    BY <2>1, <2>2
<1>5. ASSUME NEW r \in SUBSET s, r # {}
      PROVE  h[r] = fun[First(r)] + h[r \ {First(r)}]
  <2>1. r \ {First(r)} \in SUBSET s /\ r \ {First(r)} # s
    BY <1>5, FirstFacts
  <2> QED
    BY <1>4, <1>5, <2>1
<1>6. Adds(h, fun, s)
  BY <1>5 DEF Adds
<1> QED
  BY <1>2, <1>6 DEF T

LEMMA SumUnfolds ==
  ASSUME NEW fun, NEW S, IsFiniteSet(S)
  PROVE  SumFunctionOnSet(fun, S) =
           IF S = {} THEN 0 ELSE fun[First(S)] + SumFunctionOnSet(fun, S \ {First(S)})
<1> DEFINE R == S \ {First(S)}
           g == CHOOSE k : Adds(k, fun, S)
           h == CHOOSE k : Adds(k, fun, R)
<1>1. IsFiniteSet(R) /\ R \in SUBSET S
  BY FS_Subset
<1>2. Adds(g, fun, S) /\ Adds(h, fun, R)
  BY <1>1, AddsExists
<1>3. SumFunctionOnSet(fun, S) = g[S] /\ SumFunctionOnSet(fun, R) = h[R]
  BY SumIsThat
<1> HIDE DEF g, h
<1>4. g[R] = h[R]
  BY <1>1, <1>2, AddsAgree
<1>5. g[S] = IF S = {} THEN 0 ELSE fun[First(S)] + g[R]
  BY <1>2 DEF Adds
<1> QED
  BY <1>3, <1>4, <1>5

-----------------------------------------------------------------------------
LEMMA SumType ==
  ASSUME NEW fun, NEW S, IsFiniteSet(S), Ints(fun, S)
  PROVE  /\ SumFunctionOnSet(fun, S) \in Int
         /\ (\A x \in S : fun[x] >= 0) => SumFunctionOnSet(fun, S) >= 0
<1> DEFINE Sum(s) == SumFunctionOnSet(fun, s)
           Good(s) == Sum(s) \in Int /\ ((\A x \in S : fun[x] >= 0) => Sum(s) >= 0)
           T == {s \in SUBSET S : ~Good(s)}
<1>1. SUFFICES ASSUME T # {} PROVE FALSE
  OBVIOUS
<1>0. T \in SUBSET SUBSET S
  OBVIOUS
<1> HIDE DEF T
<1>2. PICK s \in T : \A r \in SUBSET s : r # s => r \notin T
  BY <1>0, <1>1, SmallestSet
<1> USE DEF T
<1>3. Sum(s) = IF s = {} THEN 0 ELSE fun[First(s)] + Sum(s \ {First(s)})
  BY FS_Subset, SumUnfolds
<1> HIDE DEF Sum
<1>4. s # {}
  BY <1>3
<1>5. Good(s \ {First(s)}) /\ First(s) \in S
  BY <1>2, <1>4, FirstFacts
<1> QED
  BY <1>3, <1>4, <1>5 DEF Ints

\* Any member may be taken first.
LEMMA SumOfOne ==
  ASSUME NEW fun, NEW S, IsFiniteSet(S), Ints(fun, S), NEW x \in S
  PROVE  SumFunctionOnSet(fun, S) = fun[x] + SumFunctionOnSet(fun, S \ {x})
<1> DEFINE Sum(s) == SumFunctionOnSet(fun, s)
           T == {s \in SUBSET S : \E z \in s : Sum(s) # fun[z] + Sum(s \ {z})}
<1>1. SUFFICES ASSUME T # {} PROVE FALSE
  OBVIOUS
<1>0. T \in SUBSET SUBSET S
  OBVIOUS
<1> HIDE DEF T
<1>2. PICK s \in T : \A r \in SUBSET s : r # s => r \notin T
  BY <1>0, <1>1, SmallestSet
<1> DEFINE y == First(s)
<1>3. PICK z \in s : Sum(s) # fun[z] + Sum(s \ {z})
  BY <1>2 DEF T
<1>4. y \in s /\ Sum(s) = fun[y] + Sum(s \ {y})
  BY <1>0, <1>3, FS_Subset, SumUnfolds, FirstFacts
<1>5. \A r \in SUBSET S : IsFiniteSet(r) /\ Sum(r) \in Int
  BY FS_Subset, SumType DEF Ints
<1>6. fun[y] \in Int /\ fun[z] \in Int /\ y # z
  BY <1>0, <1>3, <1>4 DEF Ints
<1> HIDE DEF Sum, y
<1>7. ASSUME NEW u \in s, NEW v \in s, u # v
      PROVE  Sum(s \ {u}) = fun[v] + Sum((s \ {u}) \ {v})
  BY <1>0, <1>2, <1>7 DEF T
<1>8. (s \ {z}) \ {y} = (s \ {y}) \ {z} /\ (s \ {z}) \ {y} \in SUBSET S
  BY <1>0
<1>9. /\ Sum(s \ {y}) = fun[z] + Sum((s \ {z}) \ {y})
      /\ Sum(s \ {z}) = fun[y] + Sum((s \ {z}) \ {y})
  BY <1>3, <1>4, <1>6, <1>7, <1>8
<1> QED
  BY <1>3, <1>4, <1>5, <1>6, <1>8, <1>9

LEMMA SumSame ==
  ASSUME NEW fun, NEW gun, NEW S, IsFiniteSet(S), \A x \in S : gun[x] = fun[x]
  PROVE  SumFunctionOnSet(gun, S) = SumFunctionOnSet(fun, S)
<1> DEFINE T == {s \in SUBSET S : SumFunctionOnSet(gun, s) # SumFunctionOnSet(fun, s)}
<1>1. SUFFICES ASSUME T # {} PROVE FALSE
  OBVIOUS
<1>0. T \in SUBSET SUBSET S
  OBVIOUS
<1> HIDE DEF T
<1>2. PICK s \in T : \A r \in SUBSET s : r # s => r \notin T
  BY <1>0, <1>1, SmallestSet
<1>3. IsFiniteSet(s) /\ s \in SUBSET S
  BY <1>0, FS_Subset
<1>4. s # {}
  BY <1>2, <1>3, SumUnfolds DEF T
<1>5. First(s) \in S /\ s \ {First(s)} \notin T /\ s \ {First(s)} \in SUBSET S
  BY <1>2, <1>3, <1>4, FirstFacts
<1>6. SumFunctionOnSet(gun, s \ {First(s)}) = SumFunctionOnSet(fun, s \ {First(s)})
  BY <1>5 DEF T
<1> QED
  BY <1>2, <1>3, <1>5, <1>6, SumUnfolds DEF T

\* One value changes.
LEMMA SumUpdate ==
  ASSUME NEW fun, NEW gun, NEW S, IsFiniteSet(S), Ints(fun, S), Ints(gun, S), NEW x \in S,
         \A y \in S \ {x} : gun[y] = fun[y]
  PROVE  SumFunctionOnSet(gun, S) = SumFunctionOnSet(fun, S) - fun[x] + gun[x]
<1> DEFINE R == S \ {x}
           f == SumFunctionOnSet(fun, R)
           g == SumFunctionOnSet(gun, R)
<1>1. IsFiniteSet(R) /\ Ints(fun, R) /\ Ints(gun, R)
  BY FS_Subset DEF Ints
<1>2. f \in Int /\ g = f
  BY <1>1, SumType, SumSame
<1>3. SumFunctionOnSet(fun, S) = fun[x] + f /\ SumFunctionOnSet(gun, S) = gun[x] + g
  BY SumOfOne
<1>4. fun[x] \in Int /\ gun[x] \in Int
  BY DEF Ints
<1> HIDE DEF f, g
<1> QED
  BY <1>2, <1>3, <1>4

LEMMA SumPlus ==
  ASSUME NEW fun, NEW gun, NEW hun, NEW S, IsFiniteSet(S), Ints(fun, S), Ints(gun, S),
         \A x \in S : hun[x] = fun[x] + gun[x]
  PROVE  SumFunctionOnSet(hun, S) = SumFunctionOnSet(fun, S) + SumFunctionOnSet(gun, S)
<1> DEFINE F(s) == SumFunctionOnSet(fun, s)
           G(s) == SumFunctionOnSet(gun, s)
           H(s) == SumFunctionOnSet(hun, s)
           T == {s \in SUBSET S : H(s) # F(s) + G(s)}
<1>1. SUFFICES ASSUME T # {} PROVE FALSE
  OBVIOUS
<1>0. T \in SUBSET SUBSET S
  OBVIOUS
<1> HIDE DEF T
<1>2. PICK s \in T : \A r \in SUBSET s : r # s => r \notin T
  BY <1>0, <1>1, SmallestSet
<1> DEFINE y == First(s)
           r == s \ {y}
<1>3. IsFiniteSet(s) /\ s \in SUBSET S /\ r \in SUBSET S /\ IsFiniteSet(r)
  BY <1>0, FS_Subset
<1>4. /\ F(s) = IF s = {} THEN 0 ELSE fun[y] + F(r)
      /\ G(s) = IF s = {} THEN 0 ELSE gun[y] + G(r)
      /\ H(s) = IF s = {} THEN 0 ELSE hun[y] + H(r)
  BY <1>3, SumUnfolds
<1>5. F(r) \in Int /\ G(r) \in Int
  BY <1>3, SumType DEF Ints
<1>6. s # {} => y \in S /\ r # s
  BY <1>3, FirstFacts
<1>7. H(s) # F(s) + G(s) /\ (r # s => H(r) = F(r) + G(r))
  BY <1>2, <1>3 DEF T
<1> HIDE DEF F, G, H, r, y
<1>8. s # {}
  BY <1>4, <1>7
<1>9. fun[y] \in Int /\ gun[y] \in Int /\ hun[y] = fun[y] + gun[y]
  BY <1>6, <1>8 DEF Ints
<1> QED
  BY <1>4, <1>5, <1>6, <1>7, <1>8, <1>9

\* Values of m at most add up to m for each member at most.
LEMMA SumBound ==
  ASSUME NEW fun, NEW S, IsFiniteSet(S), Ints(fun, S), NEW m \in Nat, \A x \in S : fun[x] <= m
  PROVE  SumFunctionOnSet(fun, S) <= Cardinality(S) * m
<1> DEFINE F(s) == SumFunctionOnSet(fun, s)
           T == {s \in SUBSET S : ~(F(s) <= Cardinality(s) * m)}
<1>1. SUFFICES ASSUME T # {} PROVE FALSE
  OBVIOUS
<1>0. T \in SUBSET SUBSET S
  OBVIOUS
<1> HIDE DEF T
<1>2. PICK s \in T : \A r \in SUBSET s : r # s => r \notin T
  BY <1>0, <1>1, SmallestSet
<1> DEFINE y == First(s)
           r == s \ {y}
           n == Cardinality(r)
<1>3. IsFiniteSet(s) /\ s \in SUBSET S /\ r \in SUBSET S /\ IsFiniteSet(r)
  BY <1>0, FS_Subset
<1>4. F(s) = IF s = {} THEN 0 ELSE fun[y] + F(r)
  BY <1>3, SumUnfolds
<1>5. s # {}
  <2>1. CASE s = {}
    BY <1>2, <1>4, <2>1, FS_EmptySet DEF T
  <2> QED
    BY <2>1
<1>6. y \in S /\ y \in s /\ r # s
  BY <1>3, <1>5, FirstFacts
<1>7. n \in Nat /\ Cardinality(s) = n + 1
  BY <1>3, <1>6, FS_RemoveElement, FS_CardinalityType
<1>8. F(r) \in Int /\ fun[y] \in Int /\ fun[y] <= m
  BY <1>3, <1>6, SumType DEF Ints
<1>9. ~(F(s) <= Cardinality(s) * m) /\ F(r) <= n * m
  BY <1>2, <1>3, <1>6 DEF T
<1>10. \A k \in Nat : (k + 1) * m = k * m + m /\ k * m \in Nat
  OBVIOUS
<1> HIDE DEF F, n, r, y
<1> QED
  BY <1>4, <1>5, <1>7, <1>8, <1>9, <1>10

\* A finite set of numbers that is not empty has a greatest one.
LEMMA GreatestExists ==
  ASSUME NEW S \in SUBSET Int, IsFiniteSet(S), S # {}
  PROVE  \E x \in S : \A y \in S : x >= y
<1> DEFINE T == {s \in SUBSET S : s # {} /\ ~ \E x \in s : \A y \in s : x >= y}
<1>1. SUFFICES ASSUME T # {} PROVE FALSE
  OBVIOUS
<1>0. T \in SUBSET SUBSET S
  OBVIOUS
<1> HIDE DEF T
<1>2. PICK s \in T : \A r \in SUBSET s : r # s => r \notin T
  BY <1>0, <1>1, SmallestSet
<1>3. s # {} /\ s \in SUBSET Int /\ ~ \E x \in s : \A y \in s : x >= y
  BY <1>2 DEF T
<1> PICK z \in s : TRUE
  BY <1>3
<1>4. s \ {z} # {}
  BY <1>3
<1> DEFINE r == s \ {z}
<1>10. r \in SUBSET S /\ r # s /\ r \in SUBSET s /\ r \notin T
  BY <1>0, <1>2
<1>5. PICK x \in s \ {z} : \A y \in s \ {z} : x >= y
  BY <1>4, <1>10 DEF T
<1>6. x \in Int /\ z \in Int
  BY <1>3
<1>7. CASE x >= z
  BY <1>3, <1>5, <1>7
<1>8. CASE z > x
  BY <1>3, <1>5, <1>6, <1>8
<1> QED
  BY <1>6, <1>7, <1>8
=============================================================================
