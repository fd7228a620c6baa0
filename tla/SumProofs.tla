----------------------------- MODULE SumProofs -----------------------------
(***************************************************************************)
(* Facts about SumFunction of the community module Functions, for the      *)
(* proofs that balances, grants and list totals add up.                    *)
(*                                                                         *)
(* The induction theorems of the library take an operator as a parameter,  *)
(* which no installed backend instantiates.  The inductions here go by     *)
(* least counterexample instead: the subsets of a finite set are well      *)
(* founded under strict inclusion, so a nonempty set of them - the ones    *)
(* for which the claim fails - has a minimal member (LeastSubset).         *)
(***************************************************************************)
EXTENDS Integers, Functions, FiniteSetTheorems, TLAPS

\* A nonempty set of subsets of a finite set has a minimal member.
LEMMA LeastSubset ==
    ASSUME NEW S, IsFiniteSet(S), NEW T \in SUBSET (SUBSET S), T # {}
    PROVE  \E U \in T : \A V \in T : V \subseteq U => V = U
<1>1. IsWellFoundedOn(StrictSubsetOrdering(S), SUBSET S)
  BY FS_StrictSubsetOrderingWellFounded, FS_FiniteSubsetsOfFinite
<1>2. PICK U \in T : \A V \in T : ~(<<V, U>> \in StrictSubsetOrdering(S))
  BY <1>1, WFMin
<1> QED
  BY <1>2 DEF StrictSubsetOrdering

\* A set of numbers that has 0 and, with each number below n, the next one,
\* has all numbers up to n.
LEMMA UpToN ==
    ASSUME NEW n \in Nat, NEW G, 0 \in G, \A k \in 0 .. n - 1 : k \in G => k + 1 \in G
    PROVE  \A k \in 0 .. n : k \in G
<1> DEFINE Bad == {k \in 0 .. n : k \notin G}
           Below(k) == {j \in Bad : j < k}
           T == {U \in SUBSET Bad : \E k \in Bad : U = Below(k)}
<1>1. SUFFICES ASSUME Bad # {} PROVE FALSE
  OBVIOUS
<1>2. IsFiniteSet(Bad)
  <2>1. IsFiniteSet(0 .. n) /\ Bad \subseteq 0 .. n
    BY FS_Interval
  <2> QED
    BY <2>1, FS_Subset
<1>3. T \in SUBSET (SUBSET Bad) /\ T # {}
  BY <1>1
<1>4. PICK U \in T : \A V \in T : V \subseteq U => V = U
  <2> HIDE DEF T, Bad
  <2> QED
    BY <1>2, <1>3, LeastSubset
<1>5. PICK m \in Bad : U = Below(m)
  OBVIOUS
<1>6. ASSUME NEW j \in Bad, j < m PROVE FALSE
  <2>1. \A l \in Bad : l < j => l < m
    BY <1>6
  <2>2. Below(j) \subseteq Below(m) /\ Below(j) \in T
    BY <2>1
  <2>3. Below(j) = Below(m)
    BY <1>4, <1>5, <2>2
  <2>4. j \in Below(m)
    BY <1>6
  <2>5. ~(j < j)
    OBVIOUS
  <2> QED
    BY <2>3, <2>4, <2>5
<1>7. m # 0 /\ m \in 0 .. n /\ m \notin G
  OBVIOUS
<1>8. m - 1 \in 0 .. n - 1 /\ m - 1 < m /\ (m - 1) + 1 = m
  BY <1>7
<1>9. m - 1 \in G
  BY <1>6, <1>8
<1> QED
  BY <1>7, <1>8, <1>9

----------------------------------------------------------------------------
(* The recursion behind a sum *)

Pick(s) == CHOOSE x \in s : TRUE

\* One unfolding of the recursion, at the subset s
SumStep(f, g, s) == IF s = {} THEN 0 ELSE f[Pick(s)] + g[s \ {Pick(s)}]

IsSum(f, S, g) == g = [s \in SUBSET S |-> SumStep(f, g, s)]

SumFcn(f, S) == CHOOSE g : IsSum(f, S, g)

\* The library's sum is the value at S of the function its recursion chooses.
LEMMA SumUnfolds ==
    ASSUME NEW f, NEW S
    PROVE  SumFunctionOnSet(f, S) = SumFcn(f, S)[S]
BY DEF SumFunctionOnSet, FoldFunctionOnSet, MapThenFoldSet, SumFcn, IsSum, SumStep, Pick

\* The chosen element is an element.
LEMMA PickIn ==
    ASSUME NEW s, s # {}
    PROVE  Pick(s) \in s
BY DEF Pick

\* Two functions that satisfy the recursion agree.
LEMMA SumUnique ==
    ASSUME NEW f, NEW S, IsFiniteSet(S), NEW g, NEW h, IsSum(f, S, g), IsSum(f, S, h)
    PROVE  g = h
<1> DEFINE Bad == {s \in SUBSET S : g[s] # h[s]}
<1>1. ASSUME Bad # {}
      PROVE  FALSE
  <2>0. Bad \in SUBSET (SUBSET S)
    OBVIOUS
  <2>1. PICK U \in Bad : \A V \in Bad : V \subseteq U => V = U
    <3> HIDE DEF Bad
    <3> QED
      BY <1>1, <2>0, LeastSubset
  <2>2. g[U] = SumStep(f, g, U) /\ h[U] = SumStep(f, h, U)
    BY <2>1 DEF IsSum
  <2>3. CASE U = {}
    BY <2>1, <2>2, <2>3 DEF SumStep
  <2>4. CASE U # {}
    <3>1. Pick(U) \in U
      BY <2>4, PickIn
    <3>2. U \ {Pick(U)} \notin Bad
      BY <2>1, <3>1
    <3> QED
      BY <2>1, <2>2, <2>4, <3>2 DEF SumStep
  <2> QED
    BY <2>3, <2>4
<1>2. \A s \in SUBSET S : g[s] = h[s]
  BY <1>1
<1>3. \A s \in SUBSET S : SumStep(f, g, s) = SumStep(f, h, s)
  BY <1>2, PickIn DEF SumStep
<1> QED
  BY <1>3 DEF IsSum

\* The recursion over S contains the recursion over each of its subsets.
LEMMA SumRestricts ==
    ASSUME NEW f, NEW S, IsFiniteSet(S), NEW g, IsSum(f, S, g),
           NEW V \in SUBSET S, IsSum(f, V, SumFcn(f, V)), NEW s \in SUBSET V
    PROVE  g[s] = SumFcn(f, V)[s]
<1> DEFINE r == [t \in SUBSET V |-> g[t]]
<1>1. IsFiniteSet(V)
  BY FS_Subset
<1>2. ASSUME NEW t \in SUBSET V
      PROVE  r[t] = SumStep(f, r, t)
  <2>1. g[t] = SumStep(f, g, t)
    BY DEF IsSum
  <2>2. SumStep(f, g, t) = SumStep(f, r, t)
    BY PickIn DEF SumStep
  <2> QED
    BY <2>1, <2>2
<1>3. r = [t \in SUBSET V |-> SumStep(f, r, t)]
  BY <1>2
<1>4. IsSum(f, V, r)
  BY <1>3 DEF IsSum
<1>5. r = SumFcn(f, V)
  BY <1>1, <1>4, SumUnique
<1>6. r[s] = g[s]
  OBVIOUS
<1> QED
  BY <1>5, <1>6

\* Over a finite set the recursion has a solution.
LEMMA SumExists ==
    ASSUME NEW f, NEW S, IsFiniteSet(S)
    PROVE  IsSum(f, S, SumFcn(f, S))
<1> DEFINE Bad == {V \in SUBSET S : ~IsSum(f, V, SumFcn(f, V))}
<1>1. ASSUME Bad # {}
      PROVE  FALSE
  <2>0. Bad \in SUBSET (SUBSET S)
    OBVIOUS
  <2>1. PICK U \in Bad : \A V \in Bad : V \subseteq U => V = U
    <3> HIDE DEF Bad
    <3> QED
      BY <1>1, <2>0, LeastSubset
  <2>2. ASSUME NEW V \in SUBSET U, V # U
        PROVE  IsSum(f, V, SumFcn(f, V)) /\ IsFiniteSet(V)
    <3>1. V \in SUBSET S
      BY <2>1
    <3> QED
      BY <2>1, <2>2, <3>1, FS_Subset
  <2> DEFINE g == [s \in SUBSET U |->
                      IF s = {} THEN 0
                      ELSE f[Pick(s)] + SumFcn(f, s \ {Pick(s)})[s \ {Pick(s)}]]
  <2>3. ASSUME NEW w \in SUBSET U, w # U
        PROVE  g[w] = SumFcn(f, w)[w]
    <3>1. IsSum(f, w, SumFcn(f, w)) /\ IsFiniteSet(w)
      BY <2>2, <2>3
    <3>2. SumFcn(f, w)[w] = SumStep(f, SumFcn(f, w), w)
      BY <3>1 DEF IsSum
    <3>3. CASE w = {}
      BY <3>2, <3>3 DEF SumStep
    <3>4. CASE w # {}
      <4> DEFINE v == w \ {Pick(w)}
      <4>1. v \in SUBSET w /\ v # U /\ v \in SUBSET U
        BY <3>4, PickIn
      <4>2. IsSum(f, v, SumFcn(f, v))
        BY <2>2, <4>1
      <4>3. SumFcn(f, w)[v] = SumFcn(f, v)[v]
        BY <3>1, <4>1, <4>2, SumRestricts
      <4> QED
        BY <3>2, <3>4, <4>3 DEF SumStep
    <3> QED
      BY <3>3, <3>4
  <2>4. ASSUME NEW s \in SUBSET U
        PROVE  g[s] = SumStep(f, g, s)
    <3>1. CASE s = {}
      BY <3>1 DEF SumStep
    <3>2. CASE s # {}
      <4>1. s \ {Pick(s)} \in SUBSET U /\ s \ {Pick(s)} # U
        BY <3>2, PickIn
      <4>2. g[s \ {Pick(s)}] = SumFcn(f, s \ {Pick(s)})[s \ {Pick(s)}]
        BY <2>3, <4>1
      <4> QED
        BY <3>2, <4>2 DEF SumStep
    <3> QED
      BY <3>1, <3>2
  <2>5. g = [s \in SUBSET U |-> SumStep(f, g, s)]
    BY <2>4
  <2>6. IsSum(f, U, g)
    BY <2>5 DEF IsSum
  <2>7. IsSum(f, U, SumFcn(f, U))
    BY <2>6 DEF SumFcn
  <2> QED
    BY <2>1, <2>7
<1> QED
  BY <1>1

----------------------------------------------------------------------------
(* What the proofs of the contracts use *)

\* An empty sum is zero.
LEMMA SumEmpty ==
    ASSUME NEW f
    PROVE  SumFunctionOnSet(f, {}) = 0
<1>1. IsSum(f, {}, SumFcn(f, {}))
  BY SumExists, FS_EmptySet
<1>2. SumFcn(f, {})[{}] = 0
  BY <1>1 DEF IsSum, SumStep
<1> QED
  BY <1>2, SumUnfolds

\* A sum takes the chosen element off and adds up the rest.
LEMMA SumPick ==
    ASSUME NEW f, NEW S, IsFiniteSet(S), S # {}
    PROVE  SumFunctionOnSet(f, S) = f[Pick(S)] + SumFunctionOnSet(f, S \ {Pick(S)})
<1> DEFINE V == S \ {Pick(S)}
<1>1. IsFiniteSet(V)
  BY FS_Subset
<1>2. IsSum(f, S, SumFcn(f, S)) /\ IsSum(f, V, SumFcn(f, V))
  BY <1>1, SumExists
<1>3. SumFcn(f, S)[S] = f[Pick(S)] + SumFcn(f, S)[V]
  BY <1>2 DEF IsSum, SumStep
<1>4. SumFcn(f, S)[V] = SumFcn(f, V)[V]
  BY <1>2, SumRestricts
<1> QED
  BY <1>3, <1>4, SumUnfolds

\* A sum of integers is an integer, and one of naturals a natural.
LEMMA SumType ==
    ASSUME NEW f, NEW S, IsFiniteSet(S)
    PROVE  /\ (\A x \in S : f[x] \in Int) => SumFunctionOnSet(f, S) \in Int
           /\ (\A x \in S : f[x] \in Nat) => SumFunctionOnSet(f, S) \in Nat
<1>1. ASSUME NEW N, N = Int \/ N = Nat, \A x \in S : f[x] \in N
      PROVE  SumFunctionOnSet(f, S) \in N
  <2> DEFINE Bad == {V \in SUBSET S : SumFunctionOnSet(f, V) \notin N}
  <2>1. ASSUME Bad # {}
        PROVE  FALSE
    <3>1. Bad \in SUBSET (SUBSET S)
      OBVIOUS
    <3>2. PICK U \in Bad : \A V \in Bad : V \subseteq U => V = U
      <4> HIDE DEF Bad
      <4> QED
        BY <2>1, <3>1, LeastSubset
    <3>3. U # {}
      <4>1. SumFunctionOnSet(f, {}) = 0 /\ 0 \in N
        BY <1>1, SumEmpty
      <4> QED
        BY <3>2, <4>1
    <3>4. Pick(U) \in U /\ IsFiniteSet(U)
      BY <3>2, <3>3, PickIn, FS_Subset
    <3>5. SumFunctionOnSet(f, U) = f[Pick(U)] + SumFunctionOnSet(f, U \ {Pick(U)})
      BY <3>3, <3>4, SumPick
    <3>6. SumFunctionOnSet(f, U \ {Pick(U)}) \in N
      BY <3>2, <3>4
    <3>7. f[Pick(U)] \in N
      BY <1>1, <3>2, <3>4
    <3>8. SumFunctionOnSet(f, U) \in N
      BY <1>1, <3>5, <3>6, <3>7
    <3> QED
      BY <3>2, <3>8
  <2> QED
    BY <2>1
<1> QED
  BY <1>1

\* Any element can be taken off, not only the chosen one.
LEMMA SumRemove ==
    ASSUME NEW f, NEW S, IsFiniteSet(S), \A x \in S : f[x] \in Int, NEW a \in S
    PROVE  SumFunctionOnSet(f, S) = f[a] + SumFunctionOnSet(f, S \ {a})
<1> DEFINE Bad == {V \in SUBSET S :
                      \E x \in V : SumFunctionOnSet(f, V) # f[x] + SumFunctionOnSet(f, V \ {x})}
<1>1. ASSUME Bad # {}
      PROVE  FALSE
  <2>1. Bad \in SUBSET (SUBSET S)
    OBVIOUS
  <2>2. PICK U \in Bad : \A V \in Bad : V \subseteq U => V = U
    <3> HIDE DEF Bad
    <3> QED
      BY <1>1, <2>1, LeastSubset
  <2>3. PICK x \in U : SumFunctionOnSet(f, U) # f[x] + SumFunctionOnSet(f, U \ {x})
    BY <2>2
  <2> DEFINE c == Pick(U)
  <2>4. c \in U /\ IsFiniteSet(U) /\ U \in SUBSET S
    BY <2>2, <2>3, PickIn, FS_Subset
  <2>5. SumFunctionOnSet(f, U) = f[c] + SumFunctionOnSet(f, U \ {c})
    BY <2>3, <2>4, SumPick
  <2>6. x # c
    BY <2>3, <2>5
  <2>7. U \ {c} \notin Bad /\ U \ {x} \notin Bad /\ x \in U \ {c} /\ c \in U \ {x}
    BY <2>2, <2>3, <2>4, <2>6
  <2>8. /\ SumFunctionOnSet(f, U \ {c}) = f[x] + SumFunctionOnSet(f, (U \ {c}) \ {x})
        /\ SumFunctionOnSet(f, U \ {x}) = f[c] + SumFunctionOnSet(f, (U \ {x}) \ {c})
    BY <2>4, <2>7
  <2>9. (U \ {c}) \ {x} = (U \ {x}) \ {c}
    OBVIOUS
  <2>10. f[x] \in Int /\ f[c] \in Int
    BY <2>3, <2>4
  <2>11. SumFunctionOnSet(f, (U \ {x}) \ {c}) \in Int
    <3>1. IsFiniteSet((U \ {x}) \ {c}) /\ \A y \in (U \ {x}) \ {c} : f[y] \in Int
      BY <2>4, FS_Subset
    <3> QED
      BY <3>1, SumType
  <2>12. \A p, q, r \in Int : p + (q + r) = q + (p + r)
    OBVIOUS
  <2>13. SumFunctionOnSet(f, U) = f[c] + (f[x] + SumFunctionOnSet(f, (U \ {x}) \ {c}))
    BY <2>5, <2>8, <2>9
  <2>14. SumFunctionOnSet(f, U) = f[x] + (f[c] + SumFunctionOnSet(f, (U \ {x}) \ {c}))
    BY <2>10, <2>11, <2>12, <2>13
  <2> QED
    BY <2>3, <2>8, <2>14
<1> QED
  BY <1>1

\* A sum depends on the values at the members only.
LEMMA SumCongruent ==
    ASSUME NEW f, NEW g, NEW S, IsFiniteSet(S), \A x \in S : f[x] = g[x]
    PROVE  SumFunctionOnSet(f, S) = SumFunctionOnSet(g, S)
<1> DEFINE Bad == {V \in SUBSET S : SumFunctionOnSet(f, V) # SumFunctionOnSet(g, V)}
<1>1. ASSUME Bad # {}
      PROVE  FALSE
  <2>1. Bad \in SUBSET (SUBSET S)
    OBVIOUS
  <2>2. PICK U \in Bad : \A V \in Bad : V \subseteq U => V = U
    <3> HIDE DEF Bad
    <3> QED
      BY <1>1, <2>1, LeastSubset
  <2>3. U # {}
    BY <2>2, SumEmpty
  <2>4. Pick(U) \in U /\ IsFiniteSet(U)
    BY <2>2, <2>3, PickIn, FS_Subset
  <2>5. /\ SumFunctionOnSet(f, U) = f[Pick(U)] + SumFunctionOnSet(f, U \ {Pick(U)})
        /\ SumFunctionOnSet(g, U) = g[Pick(U)] + SumFunctionOnSet(g, U \ {Pick(U)})
    BY <2>3, <2>4, SumPick
  <2>6. SumFunctionOnSet(f, U \ {Pick(U)}) = SumFunctionOnSet(g, U \ {Pick(U)})
    BY <2>2, <2>4
  <2>7. f[Pick(U)] = g[Pick(U)]
    BY <2>2, <2>4
  <2> QED
    BY <2>2, <2>5, <2>6, <2>7
<1> QED
  BY <1>1

\* A function that is pointwise not larger has a sum that is not larger.
LEMMA SumMonotone ==
    ASSUME NEW f, NEW g, NEW S, IsFiniteSet(S),
           \A x \in S : f[x] \in Int /\ g[x] \in Int /\ f[x] <= g[x]
    PROVE  SumFunctionOnSet(f, S) <= SumFunctionOnSet(g, S)
<1> DEFINE Bad == {V \in SUBSET S : ~(SumFunctionOnSet(f, V) <= SumFunctionOnSet(g, V))}
<1>1. ASSUME Bad # {}
      PROVE  FALSE
  <2>1. Bad \in SUBSET (SUBSET S)
    OBVIOUS
  <2>2. PICK U \in Bad : \A V \in Bad : V \subseteq U => V = U
    <3> HIDE DEF Bad
    <3> QED
      BY <1>1, <2>1, LeastSubset
  <2>3. U # {}
    <3>1. SumFunctionOnSet(f, {}) = 0 /\ SumFunctionOnSet(g, {}) = 0
      BY SumEmpty
    <3>2. SumFunctionOnSet(f, {}) <= SumFunctionOnSet(g, {})
      BY <3>1
    <3> QED
      BY <2>2, <3>2
  <2>4. Pick(U) \in U /\ IsFiniteSet(U) /\ IsFiniteSet(U \ {Pick(U)})
    BY <2>2, <2>3, PickIn, FS_Subset
  <2>5. /\ SumFunctionOnSet(f, U) = f[Pick(U)] + SumFunctionOnSet(f, U \ {Pick(U)})
        /\ SumFunctionOnSet(g, U) = g[Pick(U)] + SumFunctionOnSet(g, U \ {Pick(U)})
    BY <2>3, <2>4, SumPick
  <2>6. SumFunctionOnSet(f, U \ {Pick(U)}) <= SumFunctionOnSet(g, U \ {Pick(U)})
    BY <2>2, <2>4
  <2>7. f[Pick(U)] \in Int /\ g[Pick(U)] \in Int /\ f[Pick(U)] <= g[Pick(U)]
    BY <2>2, <2>4
  <2>8. \A x \in U \ {Pick(U)} : f[x] \in Int /\ g[x] \in Int
    BY <2>2
  <2>9. SumFunctionOnSet(f, U \ {Pick(U)}) \in Int /\ SumFunctionOnSet(g, U \ {Pick(U)}) \in Int
    BY <2>4, <2>8, SumType
  <2>10. SumFunctionOnSet(f, U) <= SumFunctionOnSet(g, U)
    BY <2>5, <2>6, <2>7, <2>9
  <2> QED
    BY <2>2, <2>10
<1> QED
  BY <1>1

\* Changing one value changes the sum by the difference.
LEMMA SumUpdate ==
    ASSUME NEW S, IsFiniteSet(S), NEW f \in [S -> Int], NEW a \in S, NEW v \in Int
    PROVE  /\ SumFunction(f) \in Int
           /\ SumFunction([f EXCEPT ![a] = v]) = SumFunction(f) - f[a] + v
<1> DEFINE g == [f EXCEPT ![a] = v]
           r == SumFunctionOnSet(f, S \ {a})
<1>1. DOMAIN f = S /\ DOMAIN g = S /\ g \in [S -> Int] /\ g[a] = v
  OBVIOUS
<1>2. IsFiniteSet(S \ {a}) /\ \A x \in S \ {a} : f[x] = g[x] /\ f[x] \in Int
  BY FS_Subset
<1>3. r = SumFunctionOnSet(g, S \ {a}) /\ r \in Int
  BY <1>2, SumCongruent, SumType
<1>4. SumFunctionOnSet(f, S) = f[a] + r
  BY SumRemove
<1>5. SumFunctionOnSet(g, S) = v + r
  <2>1. SumFunctionOnSet(g, S) = g[a] + SumFunctionOnSet(g, S \ {a})
    BY <1>1, SumRemove
  <2> QED
    BY <1>1, <1>3, <2>1
<1>6. SumFunction(f) = f[a] + r /\ SumFunction(g) = v + r
  BY <1>1, <1>4, <1>5 DEF SumFunction
<1>7. f[a] \in Int
  OBVIOUS
<1> HIDE DEF r, g
<1>8. SumFunction(f) \in Int /\ SumFunction(g) = SumFunction(f) - f[a] + v
  BY <1>3, <1>6, <1>7
<1> QED
  BY <1>8 DEF g

Added(f, a, n) == [f EXCEPT ![a] = @ + n]

\* Adding to one value adds to the sum.
LEMMA SumAdd ==
    ASSUME NEW S, IsFiniteSet(S), NEW f \in [S -> Int], NEW a \in S, NEW n \in Int
    PROVE  /\ SumFunction(f) \in Int
           /\ Added(f, a, n) \in [S -> Int]
           /\ SumFunction(Added(f, a, n)) = SumFunction(f) + n
<1> DEFINE v == f[a] + n
<1>1. f[a] \in Int /\ v \in Int
  OBVIOUS
<1>2. /\ SumFunction(f) \in Int
      /\ SumFunction([f EXCEPT ![a] = v]) = SumFunction(f) - f[a] + v
  <2> HIDE DEF v
  <2> QED
    BY <1>1, SumUpdate
<1> QED
  BY <1>1, <1>2 DEF Added

\* All zeros add up to zero.
LEMMA SumZero ==
    ASSUME NEW S, IsFiniteSet(S)
    PROVE  SumFunction([x \in S |-> 0]) = 0
<1> DEFINE z == [x \in S |-> 0]
           Bad == {V \in SUBSET S : SumFunctionOnSet(z, V) # 0}
<1>1. ASSUME Bad # {}
      PROVE  FALSE
  <2>1. Bad \in SUBSET (SUBSET S)
    OBVIOUS
  <2>2. PICK U \in Bad : \A V \in Bad : V \subseteq U => V = U
    <3> HIDE DEF Bad
    <3> QED
      BY <1>1, <2>1, LeastSubset
  <2>3. U # {}
    BY <2>2, SumEmpty
  <2>4. Pick(U) \in U /\ IsFiniteSet(U)
    BY <2>2, <2>3, PickIn, FS_Subset
  <2>5. SumFunctionOnSet(z, U) = z[Pick(U)] + SumFunctionOnSet(z, U \ {Pick(U)})
    BY <2>3, <2>4, SumPick
  <2>6. SumFunctionOnSet(z, U \ {Pick(U)}) = 0
    BY <2>2, <2>4
  <2>7. z[Pick(U)] = 0
    BY <2>2, <2>4
  <2> QED
    BY <2>2, <2>5, <2>6, <2>7
<1> QED
  BY <1>1 DEF SumFunction

\* The sum of a pointwise sum is the sum of the sums.
LEMMA SumPlus ==
    ASSUME NEW S, IsFiniteSet(S), NEW f, NEW g, NEW h
    PROVE  (\A x \in S : f[x] \in Int /\ g[x] \in Int /\ h[x] = f[x] + g[x])
           => SumFunctionOnSet(h, S) = SumFunctionOnSet(f, S) + SumFunctionOnSet(g, S)
<1> DEFINE Bad == {V \in SUBSET S : SumFunctionOnSet(h, V)
                                       # SumFunctionOnSet(f, V) + SumFunctionOnSet(g, V)}
<1>1. ASSUME Bad # {}, \A x \in S : f[x] \in Int /\ g[x] \in Int /\ h[x] = f[x] + g[x]
      PROVE  FALSE
  <2>1. Bad \in SUBSET (SUBSET S) /\ Bad # {}
    BY <1>1
  <2>2. PICK U \in Bad : \A V \in Bad : V \subseteq U => V = U
    <3> HIDE DEF Bad
    <3> QED
      BY <2>1, LeastSubset
  <2>3. U # {}
    <3>1. SumFunctionOnSet(h, {}) = SumFunctionOnSet(f, {}) + SumFunctionOnSet(g, {})
      BY SumEmpty
    <3> QED
      BY <2>2, <3>1
  <2> DEFINE c == Pick(U)
             V == U \ {c}
  <2>4. c \in U /\ IsFiniteSet(U) /\ U \in SUBSET S /\ IsFiniteSet(V) /\ V \in SUBSET S
    BY <2>2, <2>3, PickIn, FS_Subset
  <2>5. /\ SumFunctionOnSet(f, U) = f[c] + SumFunctionOnSet(f, V)
        /\ SumFunctionOnSet(g, U) = g[c] + SumFunctionOnSet(g, V)
        /\ SumFunctionOnSet(h, U) = h[c] + SumFunctionOnSet(h, V)
    BY <2>3, <2>4, SumPick
  <2>6. SumFunctionOnSet(h, V) = SumFunctionOnSet(f, V) + SumFunctionOnSet(g, V)
    BY <2>2, <2>4
  <2>7. f[c] \in Int /\ g[c] \in Int /\ h[c] = f[c] + g[c]
    BY <1>1, <2>4
  <2>8. SumFunctionOnSet(f, V) \in Int /\ SumFunctionOnSet(g, V) \in Int
    <3>1. (\A x \in V : f[x] \in Int) /\ \A x \in V : g[x] \in Int
      BY <1>1, <2>4
    <3> HIDE DEF V
    <3> QED
      BY <2>4, <3>1, SumType
  <2> HIDE DEF c, V
  <2>9. SumFunctionOnSet(h, U) = SumFunctionOnSet(f, U) + SumFunctionOnSet(g, U)
    BY <2>5, <2>6, <2>7, <2>8
  <2> QED
    BY <2>2, <2>9
<1> QED
  BY <1>1

----------------------------------------------------------------------------
(* Sums over sequences *)

\* A longer list adds its last value.
LEMMA SumLast ==
    ASSUME NEW n \in Nat, NEW f \in [1..(n + 1) -> Int], NEW g \in [1..n -> Int],
           \A i \in 1..n : g[i] = f[i]
    PROVE  /\ SumFunction(g) \in Int
           /\ SumFunction(f) = SumFunction(g) + f[n + 1]
<1>1. IsFiniteSet(1..n) /\ IsFiniteSet(1..(n + 1))
  BY FS_Interval
<1>2. (1..(n + 1)) \ {n + 1} = 1..n /\ n + 1 \in 1..(n + 1)
  OBVIOUS
<1>3. SumFunctionOnSet(f, 1..(n + 1)) = f[n + 1] + SumFunctionOnSet(f, (1..(n + 1)) \ {n + 1})
  BY <1>1, <1>2, SumRemove
<1>4. SumFunctionOnSet(f, 1..n) = SumFunctionOnSet(g, 1..n)
  BY <1>1, SumCongruent
<1>5. SumFunctionOnSet(g, 1..n) \in Int
  BY <1>1, SumType
<1>6. SumFunction(f) = f[n + 1] + SumFunction(g) /\ SumFunction(g) \in Int
  BY <1>2, <1>3, <1>4, <1>5 DEF SumFunction
<1>7. f[n + 1] \in Int
  BY <1>2
<1> QED
  BY <1>6, <1>7

Up(V) == {i + 1 : i \in V}

\* Taking an element out before or after renumbering is the same.
LEMMA UpRemoves ==
    ASSUME NEW U \in SUBSET Int, NEW c \in U
    PROVE  c + 1 \in Up(U) /\ Up(U) \ {c + 1} = Up(U \ {c})
BY DEF Up

\* Renumbering from the second element on does not change a sum.
LEMMA SumShift ==
    ASSUME NEW S, IsFiniteSet(S), NEW f, NEW g
    PROVE  /\ S \subseteq Int /\ IsFiniteSet(Up(S))
           /\ \A i \in S : g[i] = f[i + 1] /\ f[i + 1] \in Int
           => SumFunctionOnSet(g, S) = SumFunctionOnSet(f, Up(S))
<1> DEFINE Bad == {V \in SUBSET S : SumFunctionOnSet(g, V) # SumFunctionOnSet(f, Up(V))}
<1>1. ASSUME Bad # {}, S \subseteq Int, IsFiniteSet(Up(S)),
             \A i \in S : g[i] = f[i + 1] /\ f[i + 1] \in Int
      PROVE  FALSE
  <2>1. Bad \in SUBSET (SUBSET S)
    OBVIOUS
  <2>2. PICK U \in Bad : \A V \in Bad : V \subseteq U => V = U
    <3>1. Bad # {}
      BY <1>1
    <3> HIDE DEF Bad
    <3> QED
      BY <2>1, <3>1, LeastSubset
  <2>3. U # {}
    <3>1. Up({}) = {}
      BY DEF Up
    <3> QED
      BY <2>2, <3>1, SumEmpty
  <2> DEFINE c == Pick(U)
  <2>4. c \in U /\ IsFiniteSet(U) /\ U \in SUBSET S /\ U \in SUBSET Int
    BY <1>1, <2>2, <2>3, PickIn, FS_Subset
  <2>5. SumFunctionOnSet(g, U) = g[c] + SumFunctionOnSet(g, U \ {c})
    BY <2>3, <2>4, SumPick
  <2>6. c + 1 \in Up(U) /\ Up(U) \ {c + 1} = Up(U \ {c})
    BY <2>4, UpRemoves
  <2>7. Up(U) \in SUBSET Up(S) /\ \A x \in Up(U) : f[x] \in Int
    BY <1>1, <2>4 DEF Up
  <2>8. SumFunctionOnSet(f, Up(U)) = f[c + 1] + SumFunctionOnSet(f, Up(U) \ {c + 1})
    BY <1>1, <2>6, <2>7, SumRemove, FS_Subset
  <2>9. SumFunctionOnSet(g, U \ {c}) = SumFunctionOnSet(f, Up(U \ {c}))
    BY <2>2, <2>4
  <2>10. g[c] = f[c + 1]
    BY <1>1, <2>4
  <2>11. SumFunctionOnSet(g, U) = SumFunctionOnSet(f, Up(U))
    BY <2>5, <2>6, <2>8, <2>9, <2>10
  <2> QED
    BY <2>2, <2>11
<1> QED
  BY <1>1

\* A list adds up to its first value and the sum of its tail.
LEMMA SumFirst ==
    ASSUME NEW n \in Nat, NEW f \in [1..(n + 1) -> Int], NEW g \in [1..n -> Int]
    PROVE  (\A i \in 1..n : g[i] = f[i + 1])
           => SumFunction(g) \in Int /\ SumFunction(f) = f[1] + SumFunction(g)
<1>1. IsFiniteSet(1..n) /\ IsFiniteSet(1..(n + 1))
  BY FS_Interval
<1>2. (1..(n + 1)) \ {1} = Up(1..n) /\ 1 \in 1..(n + 1)
  <2>1. ASSUME NEW x \in (1..(n + 1)) \ {1}
        PROVE  x \in Up(1..n)
    <3>1. x - 1 \in 1..n /\ x = (x - 1) + 1
      OBVIOUS
    <3> QED
      BY <3>1 DEF Up
  <2>2. ASSUME NEW x \in Up(1..n)
        PROVE  x \in (1..(n + 1)) \ {1}
    BY DEF Up
  <2>3. (1..(n + 1)) \ {1} = Up(1..n)
    BY <2>1, <2>2
  <2> QED
    BY <2>3
<1>3. SumFunctionOnSet(f, 1..(n + 1)) = f[1] + SumFunctionOnSet(f, (1..(n + 1)) \ {1})
  <2>1. \A x \in 1..(n + 1) : f[x] \in Int
    OBVIOUS
  <2> QED
    BY <1>1, <1>2, <2>1, SumRemove
<1>4. ASSUME \A i \in 1..n : g[i] = f[i + 1]
      PROVE  SumFunctionOnSet(g, 1..n) = SumFunctionOnSet(f, Up(1..n))
  <2>1. IsFiniteSet(Up(1..n))
    BY <1>1, <1>2, FS_Subset
  <2>2. 1..n \subseteq Int /\ \A i \in 1..n : g[i] = f[i + 1] /\ f[i + 1] \in Int
    BY <1>4
  <2> QED
    BY <1>1, <2>1, <2>2, SumShift
<1>5. SumFunctionOnSet(g, 1..n) \in Int
  BY <1>1, SumType
<1>6. DOMAIN f = 1..(n + 1) /\ DOMAIN g = 1..n
  OBVIOUS
<1> QED
  BY <1>2, <1>3, <1>4, <1>5, <1>6 DEF SumFunction
=============================================================================
