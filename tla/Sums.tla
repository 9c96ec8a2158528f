-------------------------------- MODULE Sums --------------------------------
(***************************************************************************)
(* SumFunction of module Functions, which stands for SUM() over the rows   *)
(* of a table: it is an integer, it is additive, it grows with its terms   *)
(* and a write of one row changes it by what the row changed.              *)
(*                                                                         *)
(* SumFunction is defined by a recursive function.  The induction theorems *)
(* of the library take an operator as a parameter; the proofs below go by  *)
(* a smallest counterexample instead, which WFMin gives for a set.         *)
(***************************************************************************)
EXTENDS FiniteSetTheorems, TLAPS

Pick(s) == CHOOSE x \in s : TRUE

\* What the recursive function inside SumFunction is chosen to satisfy.
AddsUp(g, f, S) ==
    g = [s \in SUBSET S |-> IF s = {} THEN 0
                            ELSE f[CHOOSE x \in s : TRUE] + g[s \ {CHOOSE x \in s : TRUE}]]

\* The sum of f over S.
SumOver(f, S) == (CHOOSE g : AddsUp(g, f, S))[S]

-----------------------------------------------------------------------------
(* The recursive function exists.                                          *)

\* SumFunction, with its folds unfolded.
LEMMA SumIs == ASSUME NEW f PROVE SumFunction(f) = SumOver(f, DOMAIN f)
  BY DEF SumFunction, SumFunctionOnSet, FoldFunctionOnSet, MapThenFoldSet, SumOver, AddsUp

\* A set of subsets of a finite set has one that contains no other.
LEMMA Smallest ==
  ASSUME NEW S, IsFiniteSet(S), NEW T \in SUBSET SUBSET S, T # {}
  PROVE  \E s \in T : \A u \in SUBSET s : u # s => u \notin T
<1>1. IsWellFoundedOn(StrictSubsetOrdering(S), SUBSET S)
  BY FS_StrictSubsetOrderingWellFounded, FS_FiniteSubsetsOfFinite
<1>2. PICK s \in T : \A u \in T : <<u, s>> \notin StrictSubsetOrdering(S)
  BY <1>1, WFMin
<1> QED
  BY <1>2 DEF StrictSubsetOrdering

\* CHOOSE picks an element of a set that has one.
LEMMA PickIn == ASSUME NEW s, s # {} PROVE Pick(s) \in s
  BY DEF Pick

\* What AddsUp says of one subset.
LEMMA Equation ==
  ASSUME NEW f, NEW S, NEW g, AddsUp(g, f, S), NEW s \in SUBSET S
  PROVE  g[s] = IF s = {} THEN 0 ELSE f[Pick(s)] + g[s \ {Pick(s)}]
  BY DEF AddsUp, Pick

\* Two such functions agree wherever both are defined.
LEMMA Unique ==
  ASSUME NEW f, NEW S, NEW T \in SUBSET S, IsFiniteSet(S),
         NEW g, AddsUp(g, f, S), NEW h, AddsUp(h, f, T)
  PROVE  \A s \in SUBSET T : g[s] = h[s]
<1> DEFINE Bad == {s \in SUBSET T : g[s] # h[s]}
<1> SUFFICES ASSUME Bad # {} PROVE FALSE
  OBVIOUS
<1>1. Bad \in SUBSET SUBSET S
  OBVIOUS
<1> HIDE DEF Bad
<1>2. PICK s \in Bad : \A u \in SUBSET s : u # s => u \notin Bad
  BY <1>1, Smallest
<1>3. s \in SUBSET T /\ s \in SUBSET S /\ g[s] # h[s]
  BY DEF Bad
<1>4. g[s] = IF s = {} THEN 0 ELSE f[Pick(s)] + g[s \ {Pick(s)}]
  BY <1>3, Equation
<1>5. h[s] = IF s = {} THEN 0 ELSE f[Pick(s)] + h[s \ {Pick(s)}]
  BY <1>3, Equation
<1>6. s # {}
  BY <1>3, <1>4, <1>5
<1>7. s \ {Pick(s)} \in SUBSET s /\ s \ {Pick(s)} # s
  BY <1>6, PickIn
<1>8. g[s \ {Pick(s)}] = h[s \ {Pick(s)}]
  BY <1>2, <1>3, <1>7 DEF Bad
<1> QED
  BY <1>3, <1>4, <1>5, <1>6, <1>8

\* There is one over every finite set.
LEMMA Exists ==
  ASSUME NEW f, NEW S, IsFiniteSet(S)
  PROVE  \E g : AddsUp(g, f, S)
<1> DEFINE G(s) == CHOOSE g : AddsUp(g, f, s)
           Bad == {s \in SUBSET S : ~ AddsUp(G(s), f, s)}
<1> SUFFICES ASSUME Bad # {} PROVE FALSE
  <2>1. S \notin Bad
    OBVIOUS
  <2> QED
    BY <2>1
<1>1. Bad \in SUBSET SUBSET S
  OBVIOUS
<1>2. \A s \in SUBSET S : s \notin Bad => AddsUp(G(s), f, s)
  OBVIOUS
<1>3. \A s \in Bad : s \in SUBSET S /\ \A g : ~ AddsUp(g, f, s)
  OBVIOUS
<1> HIDE DEF Bad, G
<1>4. PICK s \in Bad : \A u \in SUBSET s : u # s => u \notin Bad
  BY <1>1, Smallest
<1>5. s \in SUBSET S
  BY <1>3
<1>6. \A u \in SUBSET s : u # s => AddsUp(G(u), f, u)
  BY <1>2, <1>4, <1>5
<1> DEFINE h == [u \in SUBSET s |-> IF u = {} THEN 0
                                    ELSE f[Pick(u)] + G(u \ {Pick(u)})[u \ {Pick(u)}]]
<1>7. ASSUME NEW u \in SUBSET s, u # s
      PROVE  h[u] = G(u)[u]
  <2>1. AddsUp(G(u), f, u)
    BY <1>6, <1>7
  <2>2. G(u)[u] = IF u = {} THEN 0 ELSE f[Pick(u)] + G(u)[u \ {Pick(u)}]
    BY <2>1, Equation
  <2>3. h[u] = IF u = {} THEN 0 ELSE f[Pick(u)] + G(u \ {Pick(u)})[u \ {Pick(u)}]
    OBVIOUS
  <2>4. CASE u = {}
    BY <2>2, <2>3, <2>4
  <2>5. CASE u # {}
    <3> DEFINE v == u \ {Pick(u)}
    <3>1. v \in SUBSET u /\ v \in SUBSET s /\ v # s
      BY <2>5, PickIn, <1>7
    <3>2. AddsUp(G(v), f, v)
      BY <3>1, <1>6
    <3>3. IsFiniteSet(u)
      BY <1>5, FS_Subset
    <3> HIDE DEF v
    <3>4. G(u)[v] = G(v)[v]
      BY <2>1, <3>1, <3>2, <3>3, Unique
    <3> QED
      BY <2>2, <2>3, <2>5, <3>4 DEF v
  <2> QED
    BY <2>4, <2>5
<1>8. ASSUME NEW u \in SUBSET s
      PROVE  h[u] = IF u = {} THEN 0 ELSE f[Pick(u)] + h[u \ {Pick(u)}]
  <2>1. CASE u = {}
    BY <2>1
  <2>2. CASE u # {}
    <3>1. u \ {Pick(u)} \in SUBSET s /\ u \ {Pick(u)} # s
      BY <2>2, PickIn
    <3>2. h[u \ {Pick(u)}] = G(u \ {Pick(u)})[u \ {Pick(u)}]
      BY <3>1, <1>7
    <3>3. h[u] = f[Pick(u)] + G(u \ {Pick(u)})[u \ {Pick(u)}]
      BY <2>2
    <3> QED
      BY <2>2, <3>2, <3>3
  <2> QED
    BY <2>1, <2>2
<1>9. h = [u \in SUBSET s |-> h[u]]
  OBVIOUS
<1> HIDE DEF h
<1>10. AddsUp(h, f, s)
  <2>1. h = [u \in SUBSET s |-> IF u = {} THEN 0 ELSE f[Pick(u)] + h[u \ {Pick(u)}]]
    BY <1>8, <1>9
  <2> QED
    BY <2>1 DEF AddsUp, Pick
<1> QED
  BY <1>3, <1>10

\* So the sum satisfies its recursive equation.
LEMMA OverStep ==
  ASSUME NEW f, NEW S, IsFiniteSet(S)
  PROVE  SumOver(f, S) = IF S = {} THEN 0 ELSE f[Pick(S)] + SumOver(f, S \ {Pick(S)})
<1> DEFINE g == CHOOSE g : AddsUp(g, f, S)
           v == S \ {Pick(S)}
           h == CHOOSE h : AddsUp(h, f, v)
<1>1. AddsUp(g, f, S)
  BY Exists
<1>2. IsFiniteSet(v)
  BY FS_RemoveElement
<1>3. AddsUp(h, f, v)
  BY <1>2, Exists
<1>4. v \in SUBSET S
  OBVIOUS
<1>5. SumOver(f, S) = g[S] /\ SumOver(f, v) = h[v]
  BY DEF SumOver
<1> HIDE DEF g, v, h
<1>6. g[v] = h[v]
  BY <1>1, <1>3, <1>4, Unique
<1>7. g[S] = IF S = {} THEN 0 ELSE f[Pick(S)] + g[v]
  BY <1>1, Equation DEF v
<1> QED
  BY <1>5, <1>6, <1>7 DEF v

-----------------------------------------------------------------------------
(* Its arithmetic.                                                         *)

\* The sum of integers is an integer.
LEMMA OverInt ==
  ASSUME NEW f, NEW S, IsFiniteSet(S), \A x \in S : f[x] \in Int
  PROVE  SumOver(f, S) \in Int
<1> DEFINE Bad == {s \in SUBSET S : SumOver(f, s) \notin Int}
<1> SUFFICES ASSUME Bad # {} PROVE FALSE
  <2>1. S \notin Bad
    OBVIOUS
  <2> QED
    BY <2>1
<1>1. Bad \in SUBSET SUBSET S
  OBVIOUS
<1> HIDE DEF Bad
<1>2. PICK s \in Bad : \A u \in SUBSET s : u # s => u \notin Bad
  BY <1>1, Smallest
<1>3. s \in SUBSET S /\ SumOver(f, s) \notin Int
  BY DEF Bad
<1>4. IsFiniteSet(s)
  BY <1>3, FS_Subset
<1>5. SumOver(f, s) = IF s = {} THEN 0 ELSE f[Pick(s)] + SumOver(f, s \ {Pick(s)})
  BY <1>4, OverStep
<1>6. s # {}
  BY <1>3, <1>5
<1>7. Pick(s) \in s
  BY <1>6, PickIn
<1>8. SumOver(f, s \ {Pick(s)}) \in Int
  BY <1>2, <1>3, <1>7 DEF Bad
<1> QED
  BY <1>3, <1>5, <1>6, <1>7, <1>8

\* Any element may be added last.
LEMMA OverRemove ==
  ASSUME NEW f, NEW S, IsFiniteSet(S), \A x \in S : f[x] \in Int, NEW x \in S
  PROVE  SumOver(f, S) = f[x] + SumOver(f, S \ {x})
<1> DEFINE Bad == {s \in SUBSET S : \E y \in s : SumOver(f, s) # f[y] + SumOver(f, s \ {y})}
<1> SUFFICES ASSUME Bad # {} PROVE FALSE
  <2>1. S \notin Bad
    OBVIOUS
  <2> QED
    BY <2>1
<1>1. Bad \in SUBSET SUBSET S
  OBVIOUS
<1> HIDE DEF Bad
<1>2. PICK s \in Bad : \A u \in SUBSET s : u # s => u \notin Bad
  BY <1>1, Smallest
<1>3. PICK y \in s : SumOver(f, s) # f[y] + SumOver(f, s \ {y})
  BY DEF Bad
<1>4. s \in SUBSET S
  BY DEF Bad
<1>5. IsFiniteSet(s)
  BY <1>4, FS_Subset
<1> DEFINE z == Pick(s)
<1>6. z \in s
  BY <1>3, PickIn
<1>7. SumOver(f, s) = f[z] + SumOver(f, s \ {z})
  BY <1>3, <1>5, OverStep
<1> HIDE DEF z
<1>8. z # y
  BY <1>3, <1>7
<1>9. \A u \in SUBSET s : u # s => \A w \in u : SumOver(f, u) = f[w] + SumOver(f, u \ {w})
  BY <1>2, <1>4 DEF Bad
<1>10. SumOver(f, s \ {z}) = f[y] + SumOver(f, (s \ {z}) \ {y})
  BY <1>6, <1>8, <1>9
<1>11. SumOver(f, s \ {y}) = f[z] + SumOver(f, (s \ {y}) \ {z})
  BY <1>6, <1>8, <1>9
<1>12. (s \ {z}) \ {y} = (s \ {y}) \ {z}
  OBVIOUS
<1>13. IsFiniteSet((s \ {y}) \ {z})
  BY <1>5, FS_RemoveElement
<1>14. SumOver(f, (s \ {y}) \ {z}) \in Int
  BY <1>4, <1>13, OverInt
<1>15. f[y] \in Int /\ f[z] \in Int
  BY <1>4, <1>6
<1> DEFINE A == SumOver(f, s)
           Y == SumOver(f, s \ {y})
           Z == SumOver(f, s \ {z})
           B == SumOver(f, (s \ {y}) \ {z})
<1>16. /\ A # f[y] + Y /\ A = f[z] + Z /\ Z = f[y] + B /\ Y = f[z] + B
       /\ B \in Int /\ f[y] \in Int /\ f[z] \in Int
  BY <1>3, <1>7, <1>10, <1>11, <1>12, <1>14, <1>15
<1> HIDE DEF A, Y, Z, B
<1> QED
  BY <1>16

\* Larger terms have a larger sum.
LEMMA OverMonotone ==
  ASSUME NEW S, IsFiniteSet(S), NEW f, NEW g,
         \A x \in S : f[x] \in Int /\ g[x] \in Int /\ f[x] <= g[x]
  PROVE  SumOver(f, S) <= SumOver(g, S)
<1> DEFINE Bad == {s \in SUBSET S : ~ (SumOver(f, s) <= SumOver(g, s))}
<1> SUFFICES ASSUME Bad # {} PROVE FALSE
  <2>1. S \notin Bad
    OBVIOUS
  <2> QED
    BY <2>1
<1>1. Bad \in SUBSET SUBSET S
  OBVIOUS
<1> HIDE DEF Bad
<1>2. PICK s \in Bad : \A u \in SUBSET s : u # s => u \notin Bad
  BY <1>1, Smallest
<1>3. s \in SUBSET S /\ ~ (SumOver(f, s) <= SumOver(g, s))
  BY DEF Bad
<1>4. IsFiniteSet(s)
  BY <1>3, FS_Subset
<1>5. /\ SumOver(f, s) = IF s = {} THEN 0 ELSE f[Pick(s)] + SumOver(f, s \ {Pick(s)})
      /\ SumOver(g, s) = IF s = {} THEN 0 ELSE g[Pick(s)] + SumOver(g, s \ {Pick(s)})
  BY <1>4, OverStep
<1>6. s # {}
  BY <1>3, <1>5
<1>7. Pick(s) \in s
  BY <1>6, PickIn
<1>8. SumOver(f, s \ {Pick(s)}) <= SumOver(g, s \ {Pick(s)})
  BY <1>2, <1>3, <1>7 DEF Bad
<1>9. IsFiniteSet(s \ {Pick(s)}) /\ s \ {Pick(s)} \subseteq S
  BY <1>3, <1>4, FS_RemoveElement
<1>10. SumOver(f, s \ {Pick(s)}) \in Int /\ SumOver(g, s \ {Pick(s)}) \in Int
  BY <1>9, OverInt
<1>11. f[Pick(s)] \in Int /\ g[Pick(s)] \in Int /\ f[Pick(s)] <= g[Pick(s)]
  BY <1>3, <1>7
<1> QED
  BY <1>3, <1>5, <1>6, <1>8, <1>10, <1>11

\* Functions that agree on S add up to the same.
LEMMA OverLocal ==
  ASSUME NEW S, IsFiniteSet(S), NEW f, NEW g, \A x \in S : f[x] \in Int /\ g[x] = f[x]
  PROVE  SumOver(g, S) = SumOver(f, S)
<1>1. \A x \in S : /\ f[x] \in Int /\ g[x] \in Int /\ f[x] <= g[x] /\ g[x] <= f[x]
  OBVIOUS
<1>2. SumOver(f, S) <= SumOver(g, S) /\ SumOver(g, S) <= SumOver(f, S)
  BY <1>1, OverMonotone
<1>3. SumOver(f, S) \in Int /\ SumOver(g, S) \in Int
  BY <1>1, OverInt
<1> QED
  BY <1>2, <1>3

\* If the terms of f and g differ as those of h and k do, so do their sums.
LEMMA OverLinear ==
  ASSUME NEW S, IsFiniteSet(S), NEW f, NEW g, NEW h, NEW k,
         \A x \in S : /\ f[x] \in Int /\ g[x] \in Int /\ h[x] \in Int /\ k[x] \in Int
                      /\ f[x] - g[x] = h[x] - k[x]
  PROVE  SumOver(f, S) - SumOver(g, S) = SumOver(h, S) - SumOver(k, S)
<1> DEFINE Bad == {s \in SUBSET S :
                     SumOver(f, s) - SumOver(g, s) # SumOver(h, s) - SumOver(k, s)}
<1> SUFFICES ASSUME Bad # {} PROVE FALSE
  <2>1. S \notin Bad
    OBVIOUS
  <2> QED
    BY <2>1
<1>1. Bad \in SUBSET SUBSET S
  OBVIOUS
<1> HIDE DEF Bad
<1>2. PICK s \in Bad : \A u \in SUBSET s : u # s => u \notin Bad
  BY <1>1, Smallest
<1>3. s \in SUBSET S /\ SumOver(f, s) - SumOver(g, s) # SumOver(h, s) - SumOver(k, s)
  BY DEF Bad
<1>4. IsFiniteSet(s)
  BY <1>3, FS_Subset
<1>5. PICK u : u = s \ {Pick(s)}
  OBVIOUS
<1>6. /\ SumOver(f, s) = IF s = {} THEN 0 ELSE f[Pick(s)] + SumOver(f, u)
      /\ SumOver(g, s) = IF s = {} THEN 0 ELSE g[Pick(s)] + SumOver(g, u)
      /\ SumOver(h, s) = IF s = {} THEN 0 ELSE h[Pick(s)] + SumOver(h, u)
      /\ SumOver(k, s) = IF s = {} THEN 0 ELSE k[Pick(s)] + SumOver(k, u)
  BY <1>4, <1>5, OverStep
<1>7. s # {}
  BY <1>3, <1>6
<1>8. Pick(s) \in s /\ u \in SUBSET s /\ u # s /\ u \in SUBSET S
  BY <1>3, <1>5, <1>7, PickIn
<1>9. SumOver(f, u) - SumOver(g, u) = SumOver(h, u) - SumOver(k, u)
  BY <1>2, <1>8 DEF Bad
<1>10. IsFiniteSet(u)
  BY <1>4, <1>5, FS_RemoveElement
<1>11. /\ SumOver(f, u) \in Int /\ SumOver(g, u) \in Int
       /\ SumOver(h, u) \in Int /\ SumOver(k, u) \in Int
  BY <1>8, <1>10, OverInt
<1>12. PICK x \in S : x = Pick(s)
  BY <1>3, <1>8
<1>13. /\ f[x] \in Int /\ g[x] \in Int /\ h[x] \in Int /\ k[x] \in Int
       /\ f[x] - g[x] = h[x] - k[x]
  OBVIOUS
<1>14. /\ SumOver(f, s) = f[x] + SumOver(f, u) /\ SumOver(g, s) = g[x] + SumOver(g, u)
       /\ SumOver(h, s) = h[x] + SumOver(h, u) /\ SumOver(k, s) = k[x] + SumOver(k, u)
  BY <1>6, <1>7, <1>12
<1>15. SumOver(f, s) - SumOver(g, s) = SumOver(h, s) - SumOver(k, s)
  BY <1>9, <1>11, <1>13, <1>14
<1> QED
  BY <1>3, <1>15

-----------------------------------------------------------------------------
(* What the models use.                                                    *)

\* SUM() of integers is an integer.
THEOREM SumInt ==
  ASSUME NEW S, IsFiniteSet(S), NEW f \in [S -> Int]
  PROVE  SumFunction(f) \in Int
<1>1. DOMAIN f = S /\ \A x \in S : f[x] \in Int
  OBVIOUS
<1> QED
  BY <1>1, SumIs, OverInt

\* A write of one row changes SUM() by what the row changed.
THEOREM SumChange ==
  ASSUME NEW S, IsFiniteSet(S), NEW f \in [S -> Int], NEW g \in [S -> Int],
         NEW x \in S, \A y \in S : y # x => g[y] = f[y]
  PROVE  SumFunction(g) = SumFunction(f) - f[x] + g[x]
<1>1. SumFunction(f) = f[x] + SumOver(f, S \ {x})
  BY SumIs, OverRemove
<1>2. SumFunction(g) = g[x] + SumOver(g, S \ {x})
  BY SumIs, OverRemove
<1>3. IsFiniteSet(S \ {x})
  BY FS_RemoveElement
<1>4. SumOver(g, S \ {x}) = SumOver(f, S \ {x})
  BY <1>3, OverLocal
<1>5. SumOver(f, S \ {x}) \in Int
  BY <1>3, OverInt
<1> QED
  BY <1>1, <1>2, <1>4, <1>5

\* One more row counts what it says.
THEOREM SumInsert ==
  ASSUME NEW S, IsFiniteSet(S), NEW x, x \notin S,
         NEW f \in [S -> Int], NEW g \in [S \cup {x} -> Int], \A y \in S : g[y] = f[y]
  PROVE  SumFunction(g) = SumFunction(f) + g[x]
<1> DEFINE T == S \cup {x}
<1>1. IsFiniteSet(T)
  BY FS_AddElement
<1>2. DOMAIN g = T /\ DOMAIN f = S /\ T \ {x} = S /\ x \in T
  OBVIOUS
<1>3. SumFunction(g) = g[x] + SumOver(g, S)
  BY <1>1, <1>2, SumIs, OverRemove
<1>4. SumOver(g, S) = SumOver(f, S) /\ SumFunction(f) = SumOver(f, S)
  BY <1>2, SumIs, OverLocal
<1>5. SumFunction(f) \in Int /\ g[x] \in Int
  BY SumInt
<1> QED
  BY <1>3, <1>4, <1>5

\* SUM() grows with its terms.
THEOREM SumMonotone ==
  ASSUME NEW S, IsFiniteSet(S), NEW f \in [S -> Int], NEW g \in [S -> Int],
         \A y \in S : f[y] <= g[y]
  PROVE  SumFunction(f) <= SumFunction(g)
<1>1. \A x \in S : f[x] \in Int /\ g[x] \in Int /\ f[x] <= g[x]
  OBVIOUS
<1> QED
  BY <1>1, SumIs, OverMonotone

\* If the terms of f and g differ as those of h and k do, so do their sums.
THEOREM SumLinear ==
  ASSUME NEW S, IsFiniteSet(S),
         NEW f \in [S -> Int], NEW g \in [S -> Int], NEW h \in [S -> Int], NEW k \in [S -> Int],
         \A x \in S : f[x] - g[x] = h[x] - k[x]
  PROVE  SumFunction(f) - SumFunction(g) = SumFunction(h) - SumFunction(k)
<1>1. \A x \in S : /\ f[x] \in Int /\ g[x] \in Int /\ h[x] \in Int /\ k[x] \in Int
                   /\ f[x] - g[x] = h[x] - k[x]
  OBVIOUS
<1> QED
  BY <1>1, SumIs, OverLinear

\* Nothing sums to nothing.
THEOREM SumZero ==
  ASSUME NEW S, IsFiniteSet(S), NEW f \in [S -> Int], \A x \in S : f[x] = 0
  PROVE  SumFunction(f) = 0
<1> DEFINE Bad == {s \in SUBSET S : SumOver(f, s) # 0}
<1> SUFFICES ASSUME Bad # {} PROVE FALSE
  <2>1. S \notin Bad => SumOver(f, S) = 0
    OBVIOUS
  <2> QED
    BY <2>1, SumIs
<1>1. Bad \in SUBSET SUBSET S
  OBVIOUS
<1> HIDE DEF Bad
<1>2. PICK s \in Bad : \A u \in SUBSET s : u # s => u \notin Bad
  BY <1>1, Smallest
<1>3. s \in SUBSET S /\ SumOver(f, s) # 0
  BY DEF Bad
<1>4. IsFiniteSet(s)
  BY <1>3, FS_Subset
<1>5. SumOver(f, s) = IF s = {} THEN 0 ELSE f[Pick(s)] + SumOver(f, s \ {Pick(s)})
  BY <1>4, OverStep
<1>6. s # {}
  BY <1>3, <1>5
<1>7. Pick(s) \in s
  BY <1>6, PickIn
<1>8. SumOver(f, s \ {Pick(s)}) = 0
  BY <1>2, <1>3, <1>7 DEF Bad
<1> QED
  BY <1>3, <1>5, <1>6, <1>7, <1>8
=============================================================================
