-------------------------------- MODULE Sums --------------------------------
(***************************************************************************)
(* What sums, sorted and filtered lists and loops compute, for every       *)
(* finite set and every length: SumFunction and SumFunctionOnSet, the      *)
(* operators of Lists, and recursive functions that repeat a step.         *)
(*                                                                         *)
(* The library defines a sum by a recursive function that takes out one    *)
(* arbitrary element after the other.  Instead of the library's induction  *)
(* rules the proofs here use a set without the property in question that   *)
(* is minimal for inclusion, or the least number without it.               *)
(***************************************************************************)
EXTENDS Lists, Integers, FiniteSetTheorems, SequenceTheorems, WellFoundedInduction, TLAPS

\* The element the library's fold takes out of s first.
Pick(s) == CHOOSE x \in s : TRUE

\* The recursive function behind a sum of f over the subsets of S.
IsAccumulator(g, f, S) ==
    g = [s \in SUBSET S |-> IF s = {} THEN 0 ELSE f[Pick(s)] + g[s \ {Pick(s)}]]

Accumulator(f, S) == CHOOSE g : IsAccumulator(g, f, S)

\* A sum is the value of its accumulator at the whole set.
LEMMA SumIsAccumulated ==
    ASSUME NEW f, NEW S
    PROVE  SumFunctionOnSet(f, S) = Accumulator(f, S)[S]
  BY DEF SumFunctionOnSet, FoldFunctionOnSet, MapThenFoldSet, Accumulator, IsAccumulator, Pick

\* A nonempty collection of subsets of a finite set has a minimal member.
LEMMA MinimalSubset ==
    ASSUME NEW S, IsFiniteSet(S), NEW T \in SUBSET (SUBSET S), T # {}
    PROVE  \E s \in T : \A t \in T : t \subseteq s => t = s
<1>1. IsWellFoundedOn(StrictSubsetOrdering(S), FiniteSubsetsOf(S))
  BY FS_StrictSubsetOrderingWellFounded
<1>2. FiniteSubsetsOf(S) = SUBSET S
  BY FS_FiniteSubsetsOfFinite
<1>3. \E s \in T : \A t \in T : ~ (<<t, s>> \in StrictSubsetOrdering(S))
  BY <1>1, <1>2, WFMin
<1> QED BY <1>3 DEF StrictSubsetOrdering

\* A nonempty set of naturals has a least element.
LEMMA LeastElement ==
    ASSUME NEW T \in SUBSET Nat, T # {}
    PROVE  \E m \in T : \A k \in T : m <= k
<1> DEFINE R == OpToRel(<, Nat)
<1>1. IsWellFoundedOn(R, Nat)
  BY NatLessThanWellFounded
<1>2. \A x, y \in Nat : x < y => <<x, y>> \in R
  BY DEF OpToRel
<1> HIDE DEF R
<1>3. PICK m \in T : \A k \in T : ~(<<k, m>> \in R)
  BY <1>1, WFMin
<1>4. \A k \in T : ~(k < m)
  BY <1>2, <1>3
<1>5. \A k \in T : m <= k
  BY <1>4
<1> QED BY <1>5

\* Accumulators of the same function agree wherever both are defined.
LEMMA AccumulatorsAgree ==
    ASSUME NEW f, NEW S, NEW R, IsFiniteSet(S), NEW g, NEW h,
           IsAccumulator(g, f, S), IsAccumulator(h, f, R)
    PROVE  \A s \in SUBSET S : s \subseteq R => g[s] = h[s]
<1> DEFINE T == {s \in SUBSET S : s \subseteq R /\ g[s] # h[s]}
<1>1. SUFFICES ASSUME T # {} PROVE FALSE
  OBVIOUS
<1>2. PICK s \in T : \A t \in T : t \subseteq s => t = s
  <2> T \in SUBSET (SUBSET S)
    OBVIOUS
  <2> HIDE DEF T
  <2> QED BY <1>1, MinimalSubset
<1>3. CASE s = {}
  BY <1>3 DEF IsAccumulator
<1>4. CASE s # {}
  <2>1. Pick(s) \in s
    BY <1>4 DEF Pick
  <2> DEFINE t == s \ {Pick(s)}
  <2>2. t \in SUBSET S /\ t \subseteq R /\ t \subseteq s /\ t # s
    BY <2>1
  <2>3. g[t] = h[t]
    BY <1>2, <2>2
  <2>4. g[s] = f[Pick(s)] + g[t] /\ h[s] = f[Pick(s)] + h[t]
    BY <1>4 DEF IsAccumulator
  <2> QED BY <2>3, <2>4
<1> QED BY <1>3, <1>4

\* Every finite set has an accumulator.
LEMMA AccumulatorExists ==
    ASSUME NEW f, NEW S, IsFiniteSet(S)
    PROVE  IsAccumulator(Accumulator(f, S), f, S)
<1> DEFINE T == {s \in SUBSET S : ~ IsAccumulator(Accumulator(f, s), f, s)}
<1>1. SUFFICES ASSUME T # {} PROVE FALSE
  OBVIOUS
<1>2. PICK s \in T : \A t \in T : t \subseteq s => t = s
  <2> T \in SUBSET (SUBSET S)
    OBVIOUS
  <2> HIDE DEF T
  <2> QED BY <1>1, MinimalSubset
<1>3. ASSUME NEW t \in SUBSET s, t # s
      PROVE  IsAccumulator(Accumulator(f, t), f, t)
  BY <1>2, <1>3
<1> DEFINE v(t) == Accumulator(f, t)[t]
           g == [t \in SUBSET s |-> IF t # s THEN v(t)
                                    ELSE IF s = {} THEN 0
                                    ELSE f[Pick(s)] + v(s \ {Pick(s)})]
<1>4. ASSUME NEW t \in SUBSET s, t # {}
      PROVE  g[t] = f[Pick(t)] + g[t \ {Pick(t)}]
  <2>1. Pick(t) \in t
    BY <1>4 DEF Pick
  <2> DEFINE u == t \ {Pick(t)}
  <2>2. u \in SUBSET s /\ u # s /\ u \subseteq t /\ u # t
    BY <2>1
  <2>3. g[u] = v(u)
    BY <2>2
  <2>4. CASE t = s
    BY <2>3, <2>4, <1>4
  <2>5. CASE t # s
    <3>1. IsFiniteSet(t)
      BY FS_Subset
    <3>2. IsAccumulator(Accumulator(f, t), f, t) /\ IsAccumulator(Accumulator(f, u), f, u)
      BY <1>3, <2>2, <2>5
    <3>3. Accumulator(f, t)[u] = Accumulator(f, u)[u]
      BY <3>1, <3>2, <2>2, AccumulatorsAgree
    <3>4. v(t) = f[Pick(t)] + Accumulator(f, t)[u]
      BY <3>2, <1>4 DEF IsAccumulator
    <3> QED BY <3>3, <3>4, <2>3, <2>5
  <2> QED BY <2>4, <2>5
<1>5. g[{}] = 0
  <2>1. CASE s = {}
    BY <2>1
  <2>2. CASE s # {}
    <3>1. IsAccumulator(Accumulator(f, {}), f, {})
      BY <1>3, <2>2
    <3> QED BY <3>1, <2>2 DEF IsAccumulator
  <2> QED BY <2>1, <2>2
<1>6. g = [t \in SUBSET s |-> IF t = {} THEN 0 ELSE f[Pick(t)] + g[t \ {Pick(t)}]]
  <2>1. g = [t \in SUBSET s |-> g[t]]
    OBVIOUS
  <2> HIDE DEF g
  <2>2. \A t \in SUBSET s : g[t] = IF t = {} THEN 0 ELSE f[Pick(t)] + g[t \ {Pick(t)}]
    BY <1>4, <1>5
  <2> QED BY <2>1, <2>2
<1>7. \E a : IsAccumulator(a, f, s)
  <2> HIDE DEF g
  <2> QED BY <1>6 DEF IsAccumulator
<1>8. IsAccumulator(Accumulator(f, s), f, s)
  BY <1>7 DEF Accumulator
<1> QED BY <1>8, <1>2

-----------------------------------------------------------------------------
\* The empty sum is zero.
LEMMA SumOfNone == ASSUME NEW f PROVE SumFunctionOnSet(f, {}) = 0
<1>1. IsAccumulator(Accumulator(f, {}), f, {})
  BY FS_EmptySet, AccumulatorExists
<1> QED BY <1>1, SumIsAccumulated DEF IsAccumulator

\* A sum is the element taken out first plus the sum of the others.
LEMMA SumUnfolds ==
    ASSUME NEW f, NEW S, IsFiniteSet(S), S # {}
    PROVE  SumFunctionOnSet(f, S) = f[Pick(S)] + SumFunctionOnSet(f, S \ {Pick(S)})
<1> DEFINE R == S \ {Pick(S)}
<1>1. IsFiniteSet(R) /\ R \subseteq S
  BY FS_Subset
<1>2. /\ IsAccumulator(Accumulator(f, S), f, S)
      /\ IsAccumulator(Accumulator(f, R), f, R)
  BY <1>1, AccumulatorExists
<1>3. Accumulator(f, S)[R] = Accumulator(f, R)[R]
  <2> HIDE DEF R
  <2> QED BY <1>1, <1>2, AccumulatorsAgree
<1>4. Accumulator(f, S)[S] = f[Pick(S)] + Accumulator(f, S)[R]
  BY <1>2 DEF IsAccumulator
<1> QED BY <1>3, <1>4, SumIsAccumulated

\* A sum of natural numbers is a natural number, and any element may be taken
\* out of it.
LEMMA SumTakesOut ==
    ASSUME NEW f, NEW S, IsFiniteSet(S), \A x \in S : f[x] \in Nat
    PROVE  /\ SumFunctionOnSet(f, S) \in Nat
           /\ \A y \in S : SumFunctionOnSet(f, S) = f[y] + SumFunctionOnSet(f, S \ {y})
<1> DEFINE P(s) == /\ SumFunctionOnSet(f, s) \in Nat
                   /\ \A y \in s : SumFunctionOnSet(f, s) = f[y] + SumFunctionOnSet(f, s \ {y})
           T == {s \in SUBSET S : ~ P(s)}
<1>1. SUFFICES ASSUME T # {} PROVE FALSE
  OBVIOUS
<1>2. PICK s \in T : \A t \in T : t \subseteq s => t = s
  <2> T \in SUBSET (SUBSET S)
    OBVIOUS
  <2> HIDE DEF T
  <2> QED BY <1>1, MinimalSubset
<1>3. ASSUME NEW t \in SUBSET s, t # s PROVE P(t)
  BY <1>2, <1>3
<1>4. CASE s = {}
  BY <1>2, <1>4, SumOfNone
<1>5. CASE s # {}
  <2> DEFINE x == Pick(s)
             Total(t) == SumFunctionOnSet(f, t)
  <2>1. x \in s /\ IsFiniteSet(s) /\ f[x] \in Nat
    BY <1>5, FS_Subset DEF Pick
  <2>2. Total(s) = f[x] + Total(s \ {x}) /\ Total(s \ {x}) \in Nat
    BY <1>3, <1>5, <2>1, SumUnfolds
  <2>3. ASSUME NEW y \in s, y # x
        PROVE  Total(s) = f[y] + Total(s \ {y})
    <3>1. f[y] \in Nat
      OBVIOUS
    <3>2. P(s \ {x}) /\ P(s \ {y}) /\ P((s \ {x}) \ {y})
      <4> HIDE DEF P
      <4> QED BY <1>3, <2>1, <2>3
    <3>3. (s \ {x}) \ {y} = (s \ {y}) \ {x}
      OBVIOUS
    <3>4. Total(s \ {x}) = f[y] + Total((s \ {x}) \ {y})
      BY <2>3, <3>2
    <3>5. Total(s \ {y}) = f[x] + Total((s \ {x}) \ {y})
      BY <2>1, <2>3, <3>2, <3>3
    <3>6. Total((s \ {x}) \ {y}) \in Nat
      BY <3>2
    <3> HIDE DEF x, Total
    <3> QED BY <2>1, <2>2, <3>1, <3>4, <3>5, <3>6
  <2>4. P(s)
    <3> HIDE DEF x
    <3> QED BY <2>1, <2>2, <2>3
  <2> QED BY <2>4, <1>2
<1> QED BY <1>4, <1>5

\* A sum depends only on the values it adds up.
LEMMA SumOfSame ==
    ASSUME NEW f, NEW g, NEW S, IsFiniteSet(S), \A x \in S : f[x] = g[x]
    PROVE  SumFunctionOnSet(f, S) = SumFunctionOnSet(g, S)
<1> DEFINE T == {s \in SUBSET S : SumFunctionOnSet(f, s) # SumFunctionOnSet(g, s)}
<1>1. SUFFICES ASSUME T # {} PROVE FALSE
  OBVIOUS
<1>2. PICK s \in T : \A t \in T : t \subseteq s => t = s
  <2> T \in SUBSET (SUBSET S)
    OBVIOUS
  <2> HIDE DEF T
  <2> QED BY <1>1, MinimalSubset
<1>3. CASE s = {}
  BY <1>2, <1>3, SumOfNone
<1>4. CASE s # {}
  <2>1. Pick(s) \in s /\ IsFiniteSet(s)
    BY <1>4, FS_Subset DEF Pick
  <2>2. SumFunctionOnSet(f, s \ {Pick(s)}) = SumFunctionOnSet(g, s \ {Pick(s)})
    BY <1>2, <2>1
  <2> QED BY <1>2, <1>4, <2>1, <2>2, SumUnfolds
<1> QED BY <1>3, <1>4

\* A sum is at most another one whose elements are at least as large.
LEMMA SumMonotone ==
    ASSUME NEW f, NEW g, NEW S, IsFiniteSet(S),
           \A x \in S : f[x] \in Nat /\ g[x] \in Nat /\ f[x] <= g[x]
    PROVE  SumFunctionOnSet(f, S) <= SumFunctionOnSet(g, S)
<1> DEFINE T == {s \in SUBSET S : ~ (SumFunctionOnSet(f, s) <= SumFunctionOnSet(g, s))}
<1>1. SUFFICES ASSUME T # {} PROVE FALSE
  OBVIOUS
<1>2. PICK s \in T : \A t \in T : t \subseteq s => t = s
  <2> T \in SUBSET (SUBSET S)
    OBVIOUS
  <2> HIDE DEF T
  <2> QED BY <1>1, MinimalSubset
<1>3. CASE s = {}
  BY <1>2, <1>3, SumOfNone
<1>4. CASE s # {}
  <2> DEFINE x == Pick(s)
             r == s \ {x}
  <2>1. x \in s /\ IsFiniteSet(s) /\ IsFiniteSet(r)
    BY <1>4, FS_Subset DEF Pick
  <2>2. SumFunctionOnSet(f, r) <= SumFunctionOnSet(g, r)
    BY <1>2, <2>1
  <2>3. /\ SumFunctionOnSet(f, s) = f[x] + SumFunctionOnSet(f, r)
        /\ SumFunctionOnSet(g, s) = g[x] + SumFunctionOnSet(g, r)
    BY <1>4, <2>1, SumUnfolds
  <2>4. SumFunctionOnSet(f, r) \in Nat /\ SumFunctionOnSet(g, r) \in Nat
    <3> HIDE DEF x
    <3> QED BY <2>1, SumTakesOut
  <2>5. f[x] \in Nat /\ g[x] \in Nat /\ f[x] <= g[x]
    BY <2>1
  <2> HIDE DEF x, r
  <2> QED BY <1>2, <2>2, <2>3, <2>4, <2>5
<1> QED BY <1>3, <1>4

\* A sum of zeros is zero.
LEMMA SumOfZeros ==
    ASSUME NEW f, NEW S, IsFiniteSet(S), \A x \in S : f[x] = 0
    PROVE  SumFunctionOnSet(f, S) = 0
<1> DEFINE T == {s \in SUBSET S : SumFunctionOnSet(f, s) # 0}
<1>1. SUFFICES ASSUME T # {} PROVE FALSE
  OBVIOUS
<1>2. PICK s \in T : \A t \in T : t \subseteq s => t = s
  <2> T \in SUBSET (SUBSET S)
    OBVIOUS
  <2> HIDE DEF T
  <2> QED BY <1>1, MinimalSubset
<1>3. CASE s = {}
  BY <1>2, <1>3, SumOfNone
<1>4. CASE s # {}
  <2>1. Pick(s) \in s /\ IsFiniteSet(s)
    BY <1>4, FS_Subset DEF Pick
  <2>2. SumFunctionOnSet(f, s \ {Pick(s)}) = 0
    BY <1>2, <2>1
  <2> QED BY <1>2, <1>4, <2>1, <2>2, SumUnfolds
<1> QED BY <1>3, <1>4

-----------------------------------------------------------------------------
\* Changing one element changes the sum by as much.
LEMMA SumChanges ==
    ASSUME NEW f, NEW g, NEW S, IsFiniteSet(S), \A x \in S : f[x] \in Nat /\ g[x] \in Nat,
           NEW y \in S, \A x \in S \ {y} : f[x] = g[x]
    PROVE  /\ SumFunctionOnSet(f, S) \in Nat
           /\ SumFunctionOnSet(g, S) \in Nat
           /\ SumFunctionOnSet(g, S) + f[y] = SumFunctionOnSet(f, S) + g[y]
<1>1. IsFiniteSet(S \ {y})
  BY FS_Subset
<1>2. SumFunctionOnSet(f, S \ {y}) = SumFunctionOnSet(g, S \ {y})
  BY <1>1, SumOfSame
<1>3. SumFunctionOnSet(f, S \ {y}) \in Nat
  BY <1>1, SumTakesOut
<1>4. /\ SumFunctionOnSet(f, S) = f[y] + SumFunctionOnSet(f, S \ {y})
      /\ SumFunctionOnSet(g, S) = g[y] + SumFunctionOnSet(g, S \ {y})
  BY SumTakesOut
<1> QED BY <1>2, <1>3, <1>4

\* Moving between two elements leaves the sum alone.
LEMMA SumMoves ==
    ASSUME NEW f, NEW g, NEW S, IsFiniteSet(S), \A x \in S : f[x] \in Nat /\ g[x] \in Nat,
           NEW y \in S, NEW z \in S, y # z, f[y] + f[z] = g[y] + g[z],
           \A x \in S \ {y, z} : f[x] = g[x]
    PROVE  SumFunctionOnSet(g, S) = SumFunctionOnSet(f, S)
<1> DEFINE R == S \ {y}
<1>1. IsFiniteSet(R) /\ z \in R /\ \A x \in R : f[x] \in Nat /\ g[x] \in Nat
  BY FS_Subset
<1>2. \A x \in R \ {z} : f[x] = g[x]
  OBVIOUS
<1>3. /\ SumFunctionOnSet(f, R) \in Nat
      /\ SumFunctionOnSet(g, R) \in Nat
      /\ SumFunctionOnSet(g, R) + f[z] = SumFunctionOnSet(f, R) + g[z]
  <2> HIDE DEF R
  <2> QED BY <1>1, <1>2, SumChanges
<1>4. /\ SumFunctionOnSet(f, S) = f[y] + SumFunctionOnSet(f, R)
      /\ SumFunctionOnSet(g, S) = g[y] + SumFunctionOnSet(g, R)
  BY SumTakesOut
<1> HIDE DEF R
<1> QED BY <1>3, <1>4

\* A sum of natural numbers is at least each of them, and each two of them.
LEMMA SumAtLeast ==
    ASSUME NEW f, NEW S, IsFiniteSet(S), \A x \in S : f[x] \in Nat, NEW y \in S
    PROVE  /\ f[y] <= SumFunctionOnSet(f, S)
           /\ \A z \in S \ {y} : f[y] + f[z] <= SumFunctionOnSet(f, S)
<1> DEFINE R == S \ {y}
<1>1. IsFiniteSet(R) /\ \A x \in R : f[x] \in Nat
  BY FS_Subset
<1>2. /\ SumFunctionOnSet(f, R) \in Nat
      /\ SumFunctionOnSet(f, S) = f[y] + SumFunctionOnSet(f, R)
  <2>1. SumFunctionOnSet(f, S) = f[y] + SumFunctionOnSet(f, R)
    BY SumTakesOut
  <2> HIDE DEF R
  <2> QED BY <1>1, <2>1, SumTakesOut
<1>3. ASSUME NEW z \in R PROVE f[z] <= SumFunctionOnSet(f, R)
  <2>1. IsFiniteSet(R \ {z}) /\ \A x \in R \ {z} : f[x] \in Nat
    BY <1>1, FS_Subset
  <2>2. SumFunctionOnSet(f, R \ {z}) \in Nat
    <3> DEFINE Q == R \ {z}
    <3> HIDE DEF Q
    <3> QED BY <2>1, SumTakesOut DEF Q
  <2>3. SumFunctionOnSet(f, R) = f[z] + SumFunctionOnSet(f, R \ {z})
    <3> HIDE DEF R
    <3> QED BY <1>1, <1>3, SumTakesOut
  <2> HIDE DEF R
  <2> QED BY <2>2, <2>3, <1>1, <1>3
<1>4. \A z \in R : f[z] \in Nat /\ f[y] \in Nat
  OBVIOUS
<1>5. \A z \in R : f[y] + f[z] <= SumFunctionOnSet(f, S)
  <2> HIDE DEF R
  <2> QED BY <1>2, <1>3, <1>4
<1>6. f[y] <= SumFunctionOnSet(f, S)
  <2> f[y] \in Nat
    OBVIOUS
  <2> HIDE DEF R
  <2> QED BY <1>2
<1> QED BY <1>5, <1>6

\* Zeros do not count: a sum over a set is the sum over the part of it outside
\* of which there are only zeros.
LEMMA SumRestricts ==
    ASSUME NEW f, NEW g, NEW S, IsFiniteSet(S), NEW R \in SUBSET S,
           \A x \in R : f[x] \in Nat /\ g[x] = f[x], \A x \in S \ R : g[x] = 0
    PROVE  SumFunctionOnSet(g, S) = SumFunctionOnSet(f, R)
<1> DEFINE T == {s \in SUBSET S : SumFunctionOnSet(g, s) # SumFunctionOnSet(f, s \cap R)}
<1>1. T = {}
  <2>1. SUFFICES ASSUME T # {} PROVE FALSE
    OBVIOUS
  <2>2. PICK s \in T : \A t \in T : t \subseteq s => t = s
    <3> T \in SUBSET (SUBSET S)
      OBVIOUS
    <3> HIDE DEF T
    <3> QED BY <2>1, MinimalSubset
  <2>3. CASE s = {}
    <3> s \cap R = {}
      BY <2>3
    <3> QED BY <2>2, <2>3, SumOfNone
  <2>4. CASE s # {}
    <3>1. PICK x \in s : TRUE
      BY <2>4
    <3> DEFINE r == s \ {x}
               q == s \cap R
    <3>2. SumFunctionOnSet(g, r) = SumFunctionOnSet(f, r \cap R)
      BY <2>2, <3>1
    <3>3. IsFiniteSet(s) /\ IsFiniteSet(q) /\ \A y \in s : g[y] \in Nat
      BY FS_Subset
    <3>4. SumFunctionOnSet(g, s) = g[x] + SumFunctionOnSet(g, r) /\ SumFunctionOnSet(g, r) \in Nat
      <4>1. IsFiniteSet(r) /\ \A y \in r : g[y] \in Nat
        BY <3>3, FS_Subset
      <4>2. SumFunctionOnSet(g, r) \in Nat
        <5> HIDE DEF r
        <5> QED BY <4>1, SumTakesOut
      <4> QED BY <3>3, <4>2, SumTakesOut
    <3>5. SumFunctionOnSet(g, s) # SumFunctionOnSet(f, q)
      BY <2>2
    <3>6. CASE x \in R
      <4>1. x \in q /\ q \ {x} = r \cap R /\ g[x] = f[x] /\ \A y \in q : f[y] \in Nat
        BY <3>6
      <4>2. SumFunctionOnSet(f, q) = f[x] + SumFunctionOnSet(f, q \ {x})
        <5> HIDE DEF q
        <5> QED BY <3>3, <4>1, SumTakesOut
      <4> QED BY <3>2, <3>4, <3>5, <4>1, <4>2
    <3>7. CASE x \notin R
      <4>1. r \cap R = q /\ g[x] = 0
        BY <3>7
      <4> HIDE DEF q, r
      <4> QED BY <3>2, <3>4, <3>5, <4>1
    <3> QED BY <3>6, <3>7
  <2> QED BY <2>3, <2>4
<1>2. S \cap R = R
  OBVIOUS
<1> QED BY <1>1, <1>2

\* The sum of sums.
LEMMA SumOfPlus ==
    ASSUME NEW f, NEW g, NEW h, NEW S, IsFiniteSet(S),
           \A x \in S : f[x] \in Nat /\ g[x] \in Nat /\ h[x] = f[x] + g[x]
    PROVE  SumFunctionOnSet(h, S) = SumFunctionOnSet(f, S) + SumFunctionOnSet(g, S)
<1> DEFINE Bad(s) == SumFunctionOnSet(h, s) # SumFunctionOnSet(f, s) + SumFunctionOnSet(g, s)
           T == {s \in SUBSET S : Bad(s)}
<1>1. SUFFICES ASSUME T # {} PROVE FALSE
  OBVIOUS
<1>2. PICK s \in T : \A t \in T : t \subseteq s => t = s
  <2> T \in SUBSET (SUBSET S)
    OBVIOUS
  <2> HIDE DEF T
  <2> QED BY <1>1, MinimalSubset
<1>3. CASE s = {}
  BY <1>2, <1>3, SumOfNone
<1>4. CASE s # {}
  <2> DEFINE x == Pick(s)
             r == s \ {x}
  <2>1. x \in s /\ x \in S /\ IsFiniteSet(s) /\ IsFiniteSet(r) /\ ~Bad(r)
    BY <1>2, <1>4, FS_Subset DEF Pick
  <2>2. /\ SumFunctionOnSet(f, s) = f[x] + SumFunctionOnSet(f, r)
        /\ SumFunctionOnSet(g, s) = g[x] + SumFunctionOnSet(g, r)
        /\ SumFunctionOnSet(h, s) = h[x] + SumFunctionOnSet(h, r)
    BY <1>4, <2>1, SumUnfolds
  <2>3. \A y \in r : f[y] \in Nat /\ g[y] \in Nat
    OBVIOUS
  <2>4. f[x] \in Nat /\ g[x] \in Nat /\ h[x] = f[x] + g[x]
    BY <2>1
  <2>5. Bad(s)
    BY <1>2
  <2> HIDE DEF x, r
  <2>6. SumFunctionOnSet(f, r) \in Nat /\ SumFunctionOnSet(g, r) \in Nat
    BY <2>1, <2>3, SumTakesOut
  <2> QED BY <2>1, <2>2, <2>4, <2>5, <2>6
<1> QED BY <1>3, <1>4

\* SumFunction sums over the whole domain.
LEMMA SumOverDomain ==
    ASSUME NEW S, NEW T, NEW f \in [S -> T]
    PROVE  SumFunction(f) = SumFunctionOnSet(f, S)
  BY DEF SumFunction

\* The order and the names of the elements do not matter: sums over two sets
\* are equal when a bijection between the sets takes equal values to each other.
LEMMA SumReindexed ==
    ASSUME NEW f, NEW g, NEW S, NEW R, IsFiniteSet(S), IsFiniteSet(R), NEW b \in [S -> R],
           \A x, y \in S : b[x] = b[y] => x = y, \A z \in R : \E x \in S : b[x] = z,
           \A x \in S : f[x] \in Nat /\ g[b[x]] = f[x]
    PROVE  SumFunctionOnSet(f, S) = SumFunctionOnSet(g, R)
<1> DEFINE Im(s) == {b[x] : x \in s}
           T == {s \in SUBSET S : SumFunctionOnSet(f, s) # SumFunctionOnSet(g, Im(s))}
<1>1. T = {}
  <2>1. SUFFICES ASSUME T # {} PROVE FALSE
    OBVIOUS
  <2>2. PICK s \in T : \A t \in T : t \subseteq s => t = s
    <3> T \in SUBSET (SUBSET S)
      OBVIOUS
    <3> HIDE DEF T
    <3> QED BY <2>1, MinimalSubset
  <2>3. CASE s = {}
    <3> Im(s) = {}
      BY <2>3
    <3> QED BY <2>2, <2>3, SumOfNone
  <2>4. CASE s # {}
    <3> DEFINE x == Pick(s)
               r == s \ {x}
    <3>1. x \in s /\ IsFiniteSet(s) /\ x \in S
      BY <2>4, FS_Subset DEF Pick
    <3>2. SumFunctionOnSet(f, r) = SumFunctionOnSet(g, Im(r))
      BY <2>2, <3>1
    <3>3. Im(r) = Im(s) \ {b[x]}
      BY <3>1
    <3>4. Im(s) \subseteq R /\ b[x] \in Im(s) /\ \A z \in Im(s) : g[z] \in Nat
      BY <3>1
    <3>5. IsFiniteSet(Im(s))
      BY <3>4, FS_Subset
    <3>6. SumFunctionOnSet(g, Im(s)) = g[b[x]] + SumFunctionOnSet(g, Im(s) \ {b[x]})
      <4> HIDE DEF Im
      <4> QED BY <3>4, <3>5, SumTakesOut
    <3>7. SumFunctionOnSet(f, s) = f[x] + SumFunctionOnSet(f, r)
      BY <2>4, <3>1, SumUnfolds
    <3>8. g[b[x]] = f[x]
      BY <3>1
    <3>9. SumFunctionOnSet(f, s) # SumFunctionOnSet(g, Im(s))
      BY <2>2
    <3> HIDE DEF x, r, Im
    <3> QED BY <3>2, <3>3, <3>6, <3>7, <3>8, <3>9
  <2> QED BY <2>3, <2>4
<1>2. SumFunctionOnSet(f, S) = SumFunctionOnSet(g, Im(S))
  BY <1>1
<1>3. Im(S) = R
  OBVIOUS
<1> QED BY <1>2, <1>3

\* The sum of a sequence.
LEMMA SumOfSeq ==
    ASSUME NEW s \in Seq(Nat)
    PROVE  /\ IsFiniteSet(1 .. Len(s))
           /\ \A i \in 1 .. Len(s) : s[i] \in Nat
           /\ SumFunction(s) = SumFunctionOnSet(s, 1 .. Len(s))
           /\ SumFunction(s) \in Nat
<1>1. Len(s) \in Nat /\ s \in [1 .. Len(s) -> Nat]
  BY LenProperties
<1>2. IsFiniteSet(1 .. Len(s))
  BY <1>1, FS_Interval
<1>3. SumFunction(s) = SumFunctionOnSet(s, 1 .. Len(s))
  BY <1>1, SumOverDomain
<1>4. SumFunctionOnSet(s, 1 .. Len(s)) \in Nat
  BY <1>1, <1>2, SumTakesOut
<1> QED BY <1>1, <1>2, <1>3, <1>4

\* Appending an element adds it to the sum.
LEMMA SumOfAppend ==
    ASSUME NEW s \in Seq(Nat), NEW e \in Nat
    PROVE  SumFunction(Append(s, e)) = SumFunction(s) + e
<1> DEFINE t == Append(s, e)
           n == Len(s)
           S == 1 .. n + 1
<1>1. n \in Nat /\ t \in Seq(Nat) /\ Len(t) = n + 1 /\ t[n + 1] = e /\ \A i \in 1 .. n : t[i] = s[i]
  OBVIOUS
<1>2. SumFunction(t) = SumFunctionOnSet(t, S) /\ IsFiniteSet(S) /\ \A i \in S : t[i] \in Nat
  <2> HIDE DEF t
  <2> QED BY <1>1, SumOfSeq
<1> HIDE DEF t, n
<1>3. S \ {n + 1} = 1 .. n
  BY <1>1
<1>4. n + 1 \in S
  BY <1>1
<1>5. SumFunctionOnSet(t, S) = t[n + 1] + SumFunctionOnSet(t, S \ {n + 1})
  <2> HIDE DEF S
  <2> QED BY <1>2, <1>4, SumTakesOut
<1>6. /\ SumFunction(s) = SumFunctionOnSet(s, 1 .. n)
      /\ SumFunction(s) \in Nat
      /\ IsFiniteSet(1 .. n)
  BY SumOfSeq DEF n
<1>7. SumFunctionOnSet(t, 1 .. n) = SumFunctionOnSet(s, 1 .. n)
  BY <1>1, <1>6, SumOfSame
<1>8. SumFunction(t) = e + SumFunction(s)
  BY <1>1, <1>2, <1>3, <1>5, <1>6, <1>7
<1> QED BY <1>6, <1>8 DEF t

\* Closing the gap that one element leaves takes it out of the sum.
LEMMA SumWithoutAt ==
    ASSUME NEW s, NEW t, NEW n \in Nat, NEW i \in 1 .. n + 1,
           \A j \in 1 .. n + 1 : s[j] \in Nat,
           \A j \in 1 .. n : t[j] = s[IF j < i THEN j ELSE j + 1]
    PROVE  SumFunctionOnSet(s, 1 .. n + 1) = s[i] + SumFunctionOnSet(t, 1 .. n)
<1> DEFINE R == 1 .. n
           S == 1 .. n + 1
           b == [j \in R |-> IF j < i THEN j ELSE j + 1]
<1>1. IsFiniteSet(S) /\ IsFiniteSet(R) /\ i \in Nat
  BY FS_Interval
<1>2. \A j \in R : b[j] \in S /\ t[j] = s[b[j]]
  OBVIOUS
<1>3. b \in [R -> S \ {i}]
  BY <1>1
<1>4. \A x, y \in R : b[x] = b[y] => x = y
  BY <1>1
<1>5. \A z \in S \ {i} : \E x \in R : b[x] = z
  <2> TAKE z \in S \ {i}
  <2>1. CASE z < i
    <3>1. z \in R /\ b[z] = z
      BY <1>1, <2>1
    <3> QED BY <3>1
  <2>2. CASE i < z
    <3>1. z - 1 \in R /\ ~(z - 1 < i) /\ (z - 1) + 1 = z
      BY <1>1, <2>2
    <3>2. b[z - 1] = z
      BY <3>1
    <3> QED BY <3>1, <3>2
  <2> QED BY <1>1, <2>1, <2>2
<1>6. SumFunctionOnSet(t, R) = SumFunctionOnSet(s, S \ {i})
  <2> DEFINE Q == S \ {i}
  <2>1. IsFiniteSet(Q)
    BY <1>1, FS_Subset
  <2>2. \A x \in R : t[x] \in Nat /\ s[b[x]] = t[x]
    BY <1>2
  <2> HIDE DEF b, R, Q
  <2>3. SumFunctionOnSet(t, R) = SumFunctionOnSet(s, Q)
    BY <1>1, <1>3, <1>4, <1>5, <2>1, <2>2, SumReindexed DEF Q
  <2> QED BY <2>3 DEF Q
<1> HIDE DEF R
<1>7. SumFunctionOnSet(s, S) = s[i] + SumFunctionOnSet(s, S \ {i})
  <2>1. i \in S /\ \A j \in S : s[j] \in Nat
    OBVIOUS
  <2> HIDE DEF S
  <2> QED BY <1>1, <2>1, SumTakesOut
<1> QED BY <1>6, <1>7 DEF R

\* Taking one element out of a sequence takes it out of the sum.
LEMMA SumWithout ==
    ASSUME NEW s \in Seq(Nat), NEW t \in Seq(Nat), NEW i \in 1 .. Len(s),
           Len(s) = Len(t) + 1,
           \A j \in 1 .. Len(t) : t[j] = s[IF j < i THEN j ELSE j + 1]
    PROVE  SumFunction(s) = s[i] + SumFunction(t)
<1>1. PICK n \in Nat : n = Len(t)
  OBVIOUS
<1>2. /\ SumFunction(s) = SumFunctionOnSet(s, 1 .. n + 1)
      /\ SumFunction(t) = SumFunctionOnSet(t, 1 .. n)
      /\ \A j \in 1 .. n + 1 : s[j] \in Nat
  BY <1>1, SumOfSeq
<1>3. i \in 1 .. n + 1 /\ \A j \in 1 .. n : t[j] = s[IF j < i THEN j ELSE j + 1]
  BY <1>1
<1>4. SumFunctionOnSet(s, 1 .. n + 1) = s[i] + SumFunctionOnSet(t, 1 .. n)
  BY <1>2, <1>3, SumWithoutAt
<1> QED BY <1>2, <1>4
-----------------------------------------------------------------------------
\* A sum is that over a part of the set and that over the rest.
LEMMA SumSplits ==
    ASSUME NEW f, NEW S, NEW R \in SUBSET S, IsFiniteSet(S), \A x \in S : f[x] \in Nat
    PROVE  /\ SumFunctionOnSet(f, R) \in Nat /\ SumFunctionOnSet(f, S \ R) \in Nat
           /\ SumFunctionOnSet(f, S) = SumFunctionOnSet(f, R) + SumFunctionOnSet(f, S \ R)
<1> DEFINE g == [x \in S |-> IF x \in R THEN f[x] ELSE 0]
           h == [x \in S |-> IF x \in R THEN 0 ELSE f[x]]
           Q == S \ R
<1>1. IsFiniteSet(R) /\ IsFiniteSet(Q) /\ Q \in SUBSET S /\ S \ Q \subseteq R
  BY FS_Subset
<1>2. /\ \A x \in R : f[x] \in Nat /\ g[x] = f[x]
      /\ \A x \in S \ R : g[x] = 0
      /\ \A x \in Q : f[x] \in Nat /\ h[x] = f[x]
      /\ \A x \in S \ Q : h[x] = 0
      /\ \A x \in S : g[x] \in Nat /\ h[x] \in Nat /\ f[x] = g[x] + h[x]
  BY <1>1
<1> HIDE DEF g, h, Q
<1>3. SumFunctionOnSet(g, S) = SumFunctionOnSet(f, R) /\ SumFunctionOnSet(h, S) = SumFunctionOnSet(f, Q)
  BY <1>1, <1>2, SumRestricts
<1>4. SumFunctionOnSet(f, S) = SumFunctionOnSet(g, S) + SumFunctionOnSet(h, S)
  BY <1>2, SumOfPlus
<1>5. SumFunctionOnSet(f, R) \in Nat /\ SumFunctionOnSet(f, Q) \in Nat
  BY <1>1, <1>2, SumTakesOut
<1> QED BY <1>3, <1>4, <1>5 DEF Q

\* A common factor can be taken out of a sum.
LEMMA SumOfMultiples ==
    ASSUME NEW f, NEW g, NEW S, IsFiniteSet(S), NEW n \in Nat,
           \A x \in S : f[x] \in Nat /\ g[x] = n * f[x]
    PROVE  SumFunctionOnSet(f, S) \in Nat /\ SumFunctionOnSet(g, S) = n * SumFunctionOnSet(f, S)
<1> DEFINE T == {s \in SUBSET S : SumFunctionOnSet(g, s) # n * SumFunctionOnSet(f, s)}
<1>0. SumFunctionOnSet(f, S) \in Nat
  BY SumTakesOut
<1>1. SUFFICES ASSUME T # {} PROVE FALSE
  BY <1>0
<1>2. PICK s \in T : \A t \in T : t \subseteq s => t = s
  <2> T \in SUBSET (SUBSET S)
    OBVIOUS
  <2> HIDE DEF T
  <2> QED BY <1>1, MinimalSubset
<1>3. CASE s = {}
  <2>1. SumFunctionOnSet(g, s) = 0 /\ SumFunctionOnSet(f, s) = 0
    BY <1>3, SumOfNone
  <2>2. n * 0 = 0
    OBVIOUS
  <2> QED BY <1>2, <2>1, <2>2
<1>4. CASE s # {}
  <2> DEFINE x == Pick(s)
             r == s \ {x}
  <2>1. x \in s /\ IsFiniteSet(s) /\ IsFiniteSet(r)
    BY <1>4, FS_Subset DEF Pick
  <2>2. SumFunctionOnSet(g, r) = n * SumFunctionOnSet(f, r)
    BY <1>2, <2>1
  <2>3. /\ SumFunctionOnSet(f, s) = f[x] + SumFunctionOnSet(f, r)
        /\ SumFunctionOnSet(g, s) = g[x] + SumFunctionOnSet(g, r)
    BY <1>4, <2>1, SumUnfolds
  <2>4. SumFunctionOnSet(f, r) \in Nat
    <3> HIDE DEF x
    <3> QED BY <2>1, SumTakesOut
  <2>5. f[x] \in Nat /\ g[x] = n * f[x]
    BY <2>1
  <2>6. SumFunctionOnSet(g, s) # n * SumFunctionOnSet(f, s)
    BY <1>2
  <2> HIDE DEF x, r
  <2>7. PICK a \in Nat, b \in Nat : a = f[x] /\ b = SumFunctionOnSet(f, r)
    BY <2>4, <2>5
  <2>8. n * (a + b) = n * a + n * b
    OBVIOUS
  <2> QED BY <2>2, <2>3, <2>5, <2>6, <2>7, <2>8
<1> QED BY <1>3, <1>4

\* n times the same.
LEMMA SumOfConstant ==
    ASSUME NEW n \in Nat, NEW f, NEW c \in Nat, \A i \in 1 .. n : f[i] = c
    PROVE  SumFunctionOnSet(f, 1 .. n) = n * c
<1> DEFINE T == {k \in 0 .. n : SumFunctionOnSet(f, 1 .. k) # k * c}
<1>1. SUFFICES ASSUME T # {} PROVE FALSE
  <2>1. n \in 0 .. n
    OBVIOUS
  <2> QED BY <2>1
<1>2. PICK k \in T : \A l \in T : k <= l
  <2>1. T \in SUBSET Nat
    OBVIOUS
  <2> HIDE DEF T
  <2> QED BY <1>1, <2>1, LeastElement
<1>3. CASE k = 0
  <2>1. 1 .. k = {} /\ k * c = 0
    BY <1>3
  <2> QED BY <1>2, <2>1, SumOfNone
<1>4. CASE k # 0
  <2>1. k \in Nat /\ k - 1 \in 0 .. n /\ k \in 1 .. k /\ k \in 1 .. n
    BY <1>2, <1>4
  <2>2. SumFunctionOnSet(f, 1 .. (k - 1)) = (k - 1) * c
    BY <1>2, <2>1
  <2>3. (1 .. k) \ {k} = 1 .. (k - 1) /\ IsFiniteSet(1 .. k)
    <3>1. IsFiniteSet(1 .. k)
      BY <2>1, FS_Interval
    <3>2. (1 .. k) \ {k} = 1 .. (k - 1)
      BY <2>1
    <3> QED BY <3>1, <3>2
  <2>4. \A i \in 1 .. k : f[i] \in Nat
    BY <1>2
  <2>5. SumFunctionOnSet(f, 1 .. k) = f[k] + SumFunctionOnSet(f, 1 .. (k - 1))
    BY <2>1, <2>3, <2>4, SumTakesOut
  <2>6. c + (k - 1) * c = k * c
    BY <2>1
  <2>7. SumFunctionOnSet(f, 1 .. k) = k * c
    BY <2>1, <2>2, <2>5, <2>6
  <2> QED BY <1>2, <2>7
<1> QED BY <1>3, <1>4

\* A list adds up to its first element and the others.
LEMMA SumOfTail ==
    ASSUME NEW s \in Seq(Nat), s # <<>>
    PROVE  /\ Head(s) \in Nat /\ Tail(s) \in Seq(Nat)
           /\ SumFunction(s) = Head(s) + SumFunction(Tail(s))
<1>1. /\ Head(s) = s[1] /\ Head(s) \in Nat /\ Tail(s) \in Seq(Nat) /\ Len(s) \in Nat \ {0}
      /\ Len(Tail(s)) = Len(s) - 1
      /\ \A j \in 1 .. Len(Tail(s)) : Tail(s)[j] = s[j + 1]
  BY HeadTailProperties, EmptySeq, LenProperties
<1>2. PICK t \in Seq(Nat) : t = Tail(s)
  BY <1>1
<1>3. /\ 1 \in 1 .. Len(s) /\ Len(s) = Len(t) + 1
      /\ \A j \in 1 .. Len(t) : t[j] = s[IF j < 1 THEN j ELSE j + 1]
  BY <1>1, <1>2
<1>4. SumFunction(s) = s[1] + SumFunction(t)
  BY <1>3, SumWithout
<1> QED BY <1>1, <1>2, <1>4

-----------------------------------------------------------------------------
\* f lists the elements of S in ascending order of v.
IsAscending(f, v, S) ==
    /\ f \in Bijection(1 .. Cardinality(S), S)
    /\ \A i, j \in 1 .. Cardinality(S) : i < j => v[f[i]] <= v[f[j]]

\* Putting a least element in front of an ascending list of the others.
LEMMA AscendingFront ==
    ASSUME NEW v, NEW S, IsFiniteSet(S), \A y \in S : v[y] \in Nat,
           NEW x \in S, \A y \in S : v[x] <= v[y], NEW f, IsAscending(f, v, S \ {x})
    PROVE  \E g : IsAscending(g, v, S)
<1> DEFINE n == Cardinality(S)
           D == 1 .. n
           E == 1 .. n - 1
           t == S \ {x}
           g == [i \in D |-> IF i = 1 THEN x ELSE f[i - 1]]
<1>1. n \in Nat /\ n >= 1 /\ Cardinality(t) = n - 1
  <2>1. Cardinality(t) = n - 1 /\ IsFiniteSet(t)
    BY FS_RemoveElement
  <2>2. n \in Nat /\ Cardinality(t) \in Nat
    BY <2>1, FS_CardinalityType
  <2> HIDE DEF n, t
  <2> QED BY <2>1, <2>2
<1>2. /\ f \in [E -> t] /\ \A i, j \in E : f[i] = f[j] => i = j
      /\ \A y \in t : \E i \in E : f[i] = y
      /\ \A i, j \in E : i < j => v[f[i]] <= v[f[j]]
  BY <1>1 DEF IsAscending, Bijection, Injection, Surjection, IsInjective
<1> HIDE DEF n
<1>3. \A i \in D : i # 1 => i - 1 \in E
  BY <1>1
<1>4. g \in [D -> S]
  BY <1>2, <1>3
<1>5. \A i, j \in D : g[i] = g[j] => i = j
  <2> SUFFICES ASSUME NEW i \in D, NEW j \in D, g[i] = g[j] PROVE i = j
    OBVIOUS
  <2>1. CASE i = 1 /\ j # 1
    BY <1>2, <1>3, <2>1
  <2>2. CASE i # 1 /\ j = 1
    BY <1>2, <1>3, <2>2
  <2>3. CASE i # 1 /\ j # 1
    <3>1. i - 1 \in E /\ j - 1 \in E /\ f[i - 1] = f[j - 1]
      BY <1>3, <2>3
    <3>2. i - 1 = j - 1
      BY <1>2, <3>1
    <3> QED BY <3>2, <1>1
  <2> QED BY <2>1, <2>2, <2>3
<1>6. \A y \in S : \E i \in D : g[i] = y
  <2> SUFFICES ASSUME NEW y \in S PROVE \E i \in D : g[i] = y
    OBVIOUS
  <2>1. CASE y = x
    <3>1. 1 \in D
      BY <1>1
    <3> QED BY <2>1, <3>1
  <2>2. CASE y # x
    <3>1. PICK i \in E : f[i] = y
      BY <1>2, <2>2
    <3>2. i + 1 \in D /\ i + 1 # 1 /\ (i + 1) - 1 = i
      BY <1>1
    <3>3. g[i + 1] = y
      BY <3>1, <3>2
    <3> QED BY <3>2, <3>3
  <2> QED BY <2>1, <2>2
<1>7. \A i, j \in D : i < j => v[g[i]] <= v[g[j]]
  <2> SUFFICES ASSUME NEW i \in D, NEW j \in D, i < j PROVE v[g[i]] <= v[g[j]]
    OBVIOUS
  <2>1. j # 1 /\ g[j] \in S
    BY <1>1, <1>4
  <2>2. CASE i = 1
    BY <2>1, <2>2
  <2>3. CASE i # 1
    <3>1. i - 1 \in E /\ j - 1 \in E /\ i - 1 < j - 1
      BY <1>1, <1>3, <2>1, <2>3
    <3> QED BY <1>2, <2>1, <2>3, <3>1
  <2> QED BY <2>2, <2>3
<1>8. g \in Bijection(D, S)
  <2> HIDE DEF g, D
  <2> QED BY <1>4, <1>5, <1>6, Zenon DEF Bijection, Injection, Surjection, IsInjective
<1>9. IsAscending(g, v, S)
  BY <1>7, <1>8 DEF IsAscending, n
<1> QED BY <1>9

\* Every finite set can be listed in ascending order of numbers.
LEMMA AscendingExists ==
    ASSUME NEW v, NEW S, IsFiniteSet(S), \A x \in S : v[x] \in Nat
    PROVE  IsAscending(Ascending(v, S), v, S)
<1> DEFINE P(s) == \E f : IsAscending(f, v, s)
           T == {s \in SUBSET S : ~ P(s)}
<1>1. P(S)
  <2>1. SUFFICES ASSUME T # {} PROVE FALSE
    OBVIOUS
  <2>2. PICK s \in T : \A u \in T : u \subseteq s => u = s
    <3> T \in SUBSET (SUBSET S)
      OBVIOUS
    <3> HIDE DEF T
    <3> QED BY <2>1, MinimalSubset
  <2>3. IsFiniteSet(s) /\ ~ P(s) /\ s \subseteq S
    BY FS_Subset
  <2>4. CASE s = {}
    <3>1. Cardinality(s) = 0
      BY <2>4, FS_EmptySet
    <3>2. 1 .. 0 = {}
      OBVIOUS
    <3>3. IsAscending([i \in {} |-> i], v, {})
      BY <2>4, <3>1, <3>2 DEF IsAscending, Bijection, Injection, Surjection, IsInjective
    <3> QED BY <2>3, <2>4, <3>3
  <2>5. CASE s # {}
    <3> DEFINE V == {v[y] : y \in s}
    <3>1. V \in SUBSET Nat /\ V # {}
      BY <2>3, <2>5
    <3>2. PICK m \in V : \A k \in V : m <= k
      <4> HIDE DEF V
      <4> QED BY <3>1, LeastElement
    <3>3. PICK x \in s : v[x] = m
      OBVIOUS
    <3>4. \A y \in s : v[x] <= v[y]
      BY <3>2, <3>3
    <3>5. P(s \ {x})
      BY <2>2, <3>3
    <3>6. PICK f : IsAscending(f, v, s \ {x})
      BY <3>5
    <3> HIDE DEF V, T, P
    <3>7. \E g : IsAscending(g, v, s)
      BY <2>3, <3>3, <3>4, <3>6, AscendingFront
    <3> QED BY <2>3, <3>7 DEF P
  <2> QED BY <2>4, <2>5
<1>2. \E f \in Bijection(1 .. Cardinality(S), S) :
          \A i, j \in 1 .. Cardinality(S) : i < j => v[f[i]] <= v[f[j]]
  BY <1>1 DEF IsAscending
<1>3. IsAscending(Ascending(v, S), v, S)
  BY <1>2 DEF IsAscending, Ascending
<1> QED BY <1>3

\* at[k] is the position of the k-th element kept.
KeptAt(list, keep, at) ==
    LET n == Cardinality(keep)
    IN  /\ at \in [1 .. n -> keep]
        /\ \A k, l \in 1 .. n : at[k] = at[l] => k = l
        /\ \A i \in keep : \E k \in 1 .. n : at[k] = i
        /\ \A k \in 1 .. n : Kept(list, keep)[k] = list[at[k]]

\* A filtered list has the elements at the positions kept, each once.
LEMMA KeptFacts ==
    ASSUME NEW T, NEW list \in Seq(T), NEW keep \in SUBSET DOMAIN list
    PROVE  /\ Kept(list, keep) \in Seq(T)
           /\ Len(Kept(list, keep)) = Cardinality(keep)
           /\ DOMAIN Kept(list, keep) = 1 .. Cardinality(keep)
           /\ \E at : KeptAt(list, keep, at)
<1> DEFINE id == [i \in keep |-> i]
           at == Ascending(id, keep)
           n == Cardinality(keep)
<1>1. Len(list) \in Nat /\ DOMAIN list = 1 .. Len(list) /\ \A i \in 1 .. Len(list) : list[i] \in T
  BY LenProperties, ElementOfSeq
<1>2. IsFiniteSet(keep) /\ n \in Nat
  <2>1. IsFiniteSet(1 .. Len(list))
    BY <1>1, FS_Interval
  <2>2. IsFiniteSet(keep)
    BY <1>1, <2>1, FS_Subset
  <2> QED BY <2>2, FS_CardinalityType
<1>3. IsAscending(at, id, keep)
  <2>1. \A x \in keep : id[x] \in Nat
    BY <1>1
  <2> HIDE DEF id
  <2> QED BY <1>2, <2>1, AscendingExists
<1>4. /\ at \in [1 .. n -> keep] /\ (\A k, l \in 1 .. n : at[k] = at[l] => k = l)
      /\ \A i \in keep : \E k \in 1 .. n : at[k] = i
  <2> HIDE DEF at, id
  <2> QED BY <1>3 DEF IsAscending, Bijection, Injection, Surjection, IsInjective
<1>5. Kept(list, keep) = [k \in 1 .. n |-> list[at[k]]]
  BY DEF Kept
<1> DEFINE r == Kept(list, keep)
<1> HIDE DEF at, id, n, r
<1>6. /\ r \in [1 .. n -> T]
      /\ \A k \in 1 .. n : at[k] \in keep /\ r[k] = list[at[k]]
  BY <1>1, <1>4, <1>5 DEF r
<1>7. r \in Seq(T) /\ DOMAIN r = 1 .. n /\ Len(r) = n
  <2>1. r \in Seq(T) /\ DOMAIN r = 1 .. n
    BY <1>2, <1>6, SeqDef
  <2> QED BY <1>2, <2>1, LenProperties
<1>8. KeptAt(list, keep, at)
  BY <1>4, <1>6 DEF KeptAt, r, n
<1> QED BY <1>7, <1>8 DEF r, n

\* Every element of a filtered list comes from a position kept.
LEMMA KeptElements ==
    ASSUME NEW T, NEW list \in Seq(T), NEW keep \in SUBSET DOMAIN list,
           NEW k \in DOMAIN Kept(list, keep)
    PROVE  \E i \in keep : Kept(list, keep)[k] = list[i]
<1> DEFINE n == Cardinality(keep)
           r == Kept(list, keep)
<1>1. DOMAIN r = 1 .. n /\ \E at : KeptAt(list, keep, at)
  BY KeptFacts
<1>2. PICK at \in [1 .. n -> keep] : \A j \in 1 .. n : r[j] = list[at[j]]
  BY <1>1 DEF KeptAt
<1> HIDE DEF n, r
<1>3. k \in 1 .. n
  BY <1>1 DEF r
<1>4. at[k] \in keep /\ r[k] = list[at[k]]
  BY <1>2, <1>3
<1> QED BY <1>4 DEF r

\* What a filtered list adds up to.
LEMMA SumOfKept ==
    ASSUME NEW T, NEW list \in Seq(T), NEW keep \in SUBSET DOMAIN list, NEW f, NEW g,
           \A i \in keep : f[i] \in Nat,
           \A k \in DOMAIN Kept(list, keep), i \in keep : Kept(list, keep)[k] = list[i] => g[k] = f[i]
    PROVE  SumFunctionOnSet(g, DOMAIN Kept(list, keep)) = SumFunctionOnSet(f, keep)
<1> DEFINE n == Cardinality(keep)
           r == Kept(list, keep)
<1>1. DOMAIN r = 1 .. n /\ \E at : KeptAt(list, keep, at)
  BY KeptFacts
<1>2. IsFiniteSet(keep) /\ n \in Nat /\ IsFiniteSet(1 .. n)
  <2>1. IsFiniteSet(DOMAIN list)
    BY LenProperties, FS_Interval
  <2>2. IsFiniteSet(keep)
    BY <2>1, FS_Subset
  <2> QED BY <2>2, FS_CardinalityType, FS_Interval
<1>3. \A k \in DOMAIN r, i \in keep : r[k] = list[i] => g[k] = f[i]
  OBVIOUS
<1>4. SUFFICES SumFunctionOnSet(g, DOMAIN r) = SumFunctionOnSet(f, keep)
  OBVIOUS
<1>5. PICK at \in [1 .. n -> keep] :
             /\ \A j, l \in 1 .. n : at[j] = at[l] => j = l
             /\ \A i \in keep : \E k \in 1 .. n : at[k] = i
             /\ \A j \in 1 .. n : r[j] = list[at[j]]
  BY <1>1 DEF KeptAt
<1> HIDE DEF n, r
<1>6. \A k \in 1 .. n : g[k] \in Nat /\ f[at[k]] = g[k]
  BY <1>1, <1>3, <1>5
<1>7. SumFunctionOnSet(g, 1 .. n) = SumFunctionOnSet(f, keep)
  <2>1. PICK R : R = 1 .. n
    OBVIOUS
  <2>2. /\ at \in [R -> keep] /\ IsFiniteSet(R)
        /\ (\A x, y \in R : at[x] = at[y] => x = y) /\ (\A z \in keep : \E x \in R : at[x] = z)
        /\ \A x \in R : g[x] \in Nat /\ f[at[x]] = g[x]
    BY <1>2, <1>5, <1>6, <2>1
  <2>3. SumFunctionOnSet(g, R) = SumFunctionOnSet(f, keep)
    BY <1>2, <2>2, SumReindexed
  <2> QED BY <2>1, <2>3
<1> QED BY <1>1, <1>7

-----------------------------------------------------------------------------
\* Repeated steps.  What every step keeps, all of them keep.
LEMMA StepsStay ==
    ASSUME NEW n \in Nat, NEW S, NEW f, f[0] \in S,
           \A k \in 1 .. n : f[k - 1] \in S => f[k] \in S
    PROVE  \A k \in 0 .. n : f[k] \in S
<1> DEFINE T == {k \in 0 .. n : f[k] \notin S}
<1> SUFFICES ASSUME T # {} PROVE FALSE
  OBVIOUS
<1>1. PICK m \in T : \A k \in T : m <= k
  <2>1. T \in SUBSET Nat
    OBVIOUS
  <2> HIDE DEF T
  <2> QED BY <2>1, LeastElement
<1>2. m \in 0 .. n /\ f[m] \notin S
  BY <1>1
<1>3. m # 0
  BY <1>2
<1>4. m \in 1 .. n /\ m - 1 \in 0 .. n
  BY <1>2, <1>3
<1>5. f[m - 1] \in S
  BY <1>1, <1>4
<1> QED BY <1>2, <1>4, <1>5

\* The states of a repetition from b, where step k is the function F[k].
IsRun(f, F, b, n) == f[0] = b /\ \A k \in 1 .. n : f[k] = F[k][f[k - 1]]

\* Steps that are functions on a set can be repeated.
LEMMA RunExists ==
    ASSUME NEW n \in Nat, NEW S, NEW F \in [1 .. n -> [S -> S]], NEW b \in S
    PROVE  \E f \in [0 .. n -> S] : IsRun(f, F, b, n)
<1> DEFINE P(m) == \E f \in [0 .. m -> S] : IsRun(f, F, b, m)
           T == {m \in 0 .. n : ~ P(m)}
<1> SUFFICES ASSUME T # {} PROVE FALSE
  OBVIOUS
<1>1. PICK m \in T : \A k \in T : m <= k
  <2>1. T \in SUBSET Nat
    OBVIOUS
  <2> HIDE DEF T
  <2> QED BY <2>1, LeastElement
<1>2. m \in 0 .. n /\ ~ P(m)
  BY <1>1
<1>3. m # 0
  <2>1. [k \in 0 .. 0 |-> b] \in [0 .. 0 -> S] /\ IsRun([k \in 0 .. 0 |-> b], F, b, 0)
    BY DEF IsRun
  <2>2. P(0)
    BY <2>1
  <2> HIDE DEF P
  <2> QED BY <1>2, <2>2
<1>4. m \in 1 .. n /\ m - 1 \in 0 .. n
  BY <1>2, <1>3
<1>5. P(m - 1)
  <2>1. m - 1 \notin T
    BY <1>1, <1>4
  <2> HIDE DEF P
  <2> QED BY <1>4, <2>1
<1>6. PICK f \in [0 .. m - 1 -> S] : IsRun(f, F, b, m - 1)
  BY <1>5
<1> DEFINE g == [k \in 0 .. m |-> IF k = m THEN F[m][f[m - 1]] ELSE f[k]]
<1>7. g \in [0 .. m -> S]
  <2>1. F[m][f[m - 1]] \in S
    BY <1>4, <1>6
  <2>2. \A k \in 0 .. m : k # m => f[k] \in S
    BY <1>4, <1>6
  <2> QED BY <2>1, <2>2
<1>8. g[0] = b /\ \A k \in 1 .. m : g[k] = F[k][g[k - 1]]
  <2>1. g[0] = b
    BY <1>4, <1>6 DEF IsRun
  <2>2. ASSUME NEW k \in 1 .. m PROVE g[k] = F[k][g[k - 1]]
    <3>1. k - 1 \in 0 .. m /\ k - 1 # m /\ k - 1 \in 0 .. m - 1 /\ k \in 0 .. m
      BY <1>4
    <3>2. g[k - 1] = f[k - 1]
      BY <3>1
    <3>3. CASE k = m
      BY <3>1, <3>2, <3>3
    <3>4. CASE k # m
      <4>1. k \in 1 .. m - 1 /\ k \in 0 .. m
        BY <1>4, <3>4
      <4> QED BY <1>6, <3>2, <3>4, <4>1 DEF IsRun
    <3> QED BY <3>3, <3>4
  <2> QED BY <2>1, <2>2
<1>9. P(m)
  BY <1>7, <1>8 DEF IsRun
<1> HIDE DEF P
<1> QED BY <1>2, <1>9
=============================================================================
