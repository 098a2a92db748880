------------------------------ MODULE SumProofs ------------------------------
(***************************************************************************)
(* Lemmas about sums over finite sets, for the proofs about fees, weights  *)
(* and sizes.  SumFunctionOnSet of the community modules adds the values   *)
(* in an order of its own; here it is shown to be the sum.                 *)
(*                                                                         *)
(* Induction is written as the choice of a least counterexample, with sets *)
(* of numbers in place of predicates.                                      *)
(***************************************************************************)
EXTENDS Integers, Functions, FiniteSetTheorems, WellFoundedInduction, TLAPS

LEMMA LeastNumber ==
    ASSUME NEW T \in SUBSET Nat, T # {}
    PROVE  \E n \in T : \A m \in T : n <= m
<1>1. IsWellFoundedOn(OpToRel(<, Nat), Nat)
  BY NatLessThanWellFounded
<1>2. PICK n \in T : \A m \in T : <<m, n>> \notin OpToRel(<, Nat)
  BY <1>1, WFMin
<1>3. \A m \in T : ~(m < n)
  BY <1>2 DEF OpToRel
<1> QED BY <1>3

\* Induction over the numbers.
LEMMA SetOfAllNumbers ==
    ASSUME NEW S \in SUBSET Nat, 0 \in S, \A n \in S : n + 1 \in S
    PROVE  S = Nat
<1> SUFFICES ASSUME Nat \ S # {} PROVE FALSE
  OBVIOUS
<1>1. PICK n \in Nat \ S : \A m \in Nat \ S : n <= m
  BY LeastNumber
<1>2. n - 1 \in S
  BY <1>1
<1> QED BY <1>1, <1>2

\* Induction over the numbers from lo to hi.
LEMMA SetOfInterval ==
    ASSUME NEW lo \in Nat, NEW hi \in Nat, lo <= hi, NEW S, lo \in S,
           \A n \in lo..hi : n \in S /\ n < hi => n + 1 \in S
    PROVE  \A n \in lo..hi : n \in S
<1> DEFINE N == {k \in Nat : lo + k <= hi => lo + k \in S}
<1>1. 0 \in N
  OBVIOUS
<1>2. ASSUME NEW k \in N PROVE k + 1 \in N
  <2> SUFFICES ASSUME lo + (k + 1) <= hi PROVE lo + (k + 1) \in S
    BY <1>2
  <2>1. lo + k \in lo..hi /\ lo + k \in S /\ lo + k < hi
    BY <1>2
  <2>2. (lo + k) + 1 \in S
    BY <2>1
  <2>3. (lo + k) + 1 = lo + (k + 1)
    BY <1>2
  <2> QED BY <2>2, <2>3
<1> HIDE DEF N
<1>3. N = Nat
  <2>1. N \in SUBSET Nat
    BY DEF N
  <2> QED BY <2>1, <1>1, <1>2, SetOfAllNumbers
<1> SUFFICES ASSUME NEW n \in lo..hi PROVE n \in S
  OBVIOUS
<1>4. n - lo \in Nat /\ lo + (n - lo) = n
  OBVIOUS
<1>5. n - lo \in N
  BY <1>3, <1>4
<1>6. lo + (n - lo) <= hi => lo + (n - lo) \in S
  BY <1>5 DEF N
<1> QED BY <1>4, <1>6

\* A loop over lo + 1 .. hi: every round turns a value of V into another.
IsLoop(g, lo, hi, a, step) ==
    g = [n \in lo..hi |-> IF n = lo THEN a ELSE step[n][g[n - 1]]]

LEMMA LoopExists ==
    ASSUME NEW lo \in Nat, NEW hi \in Nat, lo <= hi, NEW V, NEW a \in V,
           NEW step \in [(lo + 1)..hi -> [V -> V]]
    PROVE  \E g \in [lo..hi -> V] : IsLoop(g, lo, hi, a, step)
<1> DEFINE S == {m \in lo..hi : \E g \in [lo..m -> V] : IsLoop(g, lo, m, a, step)}
<1>1. lo \in S
  <2> DEFINE g == [n \in lo..lo |-> a]
  <2>1. g \in [lo..lo -> V] /\ lo..lo = {lo}
    OBVIOUS
  <2>2. IsLoop(g, lo, lo, a, step)
    BY <2>1 DEF IsLoop
  <2>3. lo \in lo..hi
    OBVIOUS
  <2> HIDE DEF g
  <2> QED BY <2>1, <2>2, <2>3
<1>2. ASSUME NEW m \in lo..hi, m \in S, m < hi PROVE m + 1 \in S
  <2>1. PICK g \in [lo..m -> V] : IsLoop(g, lo, m, a, step)
    BY <1>2
  <2> DEFINE h == [n \in lo..(m + 1) |-> IF n <= m THEN g[n] ELSE step[n][g[n - 1]]]
  <2>2. m \in Nat /\ lo <= m /\ m + 1 \in lo..hi /\ m + 1 \in (lo + 1)..hi
    BY <1>2
  <2>3. step[m + 1] \in [V -> V] /\ g[m] \in V
    BY <2>1, <2>2
  <2>4. \A n \in lo..m : h[n] = g[n] /\ g[n] \in V
    BY <2>1, <2>2
  <2>5. h[m + 1] = step[m + 1][g[m]] /\ h[m + 1] \in V
    BY <2>2, <2>3
  <2>6. lo..(m + 1) = lo..m \cup {m + 1}
    BY <2>2
  <2>7. h \in [lo..(m + 1) -> V]
    BY <2>4, <2>5, <2>6
  <2>8. DOMAIN h = lo..(m + 1)
    OBVIOUS
  <2> HIDE DEF h
  <2>9. ASSUME NEW n \in lo..(m + 1)
        PROVE  h[n] = IF n = lo THEN a ELSE step[n][h[n - 1]]
    <3>1. CASE n = m + 1
      BY <2>2, <2>4, <2>5, <3>1
    <3>2. CASE n # m + 1
      <4>1. n \in lo..m /\ (n # lo => n - 1 \in lo..m)
        BY <2>2, <2>9, <3>2
      <4>2. g[n] = IF n = lo THEN a ELSE step[n][g[n - 1]]
        BY <2>1, <4>1 DEF IsLoop
      <4> QED BY <2>4, <4>1, <4>2
    <3> QED BY <3>1, <3>2
  <2>10. IsLoop(h, lo, m + 1, a, step)
    BY <2>7, <2>9 DEF IsLoop
  <2> QED BY <2>2, <2>7, <2>10
<1> HIDE DEF S
<1>3. hi \in lo..hi
  OBVIOUS
<1>4. hi \in S
  BY <1>1, <1>2, <1>3, SetOfInterval
<1> QED BY <1>4 DEF S

-----------------------------------------------------------------------------
(* SumFunctionOnSet is the value of a recursive function of sets. *)

Pick(s) == CHOOSE x \in s : TRUE
SumStep(g, f, s) == IF s = {} THEN 0 ELSE f[Pick(s)] + g[s \ {Pick(s)}]
IsSum(g, f, S) == g = [s \in SUBSET S |-> SumStep(g, f, s)]

\* Taking one element out of a set.
LEMMA PickOne ==
    ASSUME NEW s, IsFiniteSet(s), s # {}
    PROVE  /\ Pick(s) \in s
           /\ IsFiniteSet(s \ {Pick(s)})
           /\ Cardinality(s) \in Nat /\ Cardinality(s \ {Pick(s)}) \in Nat
           /\ Cardinality(s \ {Pick(s)}) < Cardinality(s)
<1>1. Pick(s) \in s
  BY DEF Pick
<1>2. IsFiniteSet(s \ {Pick(s)}) /\ Cardinality(s \ {Pick(s)}) = Cardinality(s) - 1
  BY <1>1, FS_RemoveElement
<1>3. Cardinality(s) \in Nat /\ Cardinality(s \ {Pick(s)}) \in Nat
  BY <1>2, FS_CardinalityType
<1> QED BY <1>1, <1>2, <1>3

\* g is right for sets of at most n elements.
RightUpTo(g, f, S, n) ==
    \A s \in SUBSET S : Cardinality(s) <= n => g[s] = SumStep(g, f, s)

LEMMA SumExists ==
    ASSUME NEW f, NEW S, IsFiniteSet(S)
    PROVE  \E g : IsSum(g, f, S)
<1> DEFINE N == {n \in Nat : \E g : RightUpTo(g, f, S, n)}
<1>1. \A s \in SUBSET S : IsFiniteSet(s) /\ Cardinality(s) \in Nat /\ Cardinality(s) <= Cardinality(S)
  BY FS_Subset, FS_CardinalityType
<1>2. 0 \in N
  <2> DEFINE g == [s \in SUBSET S |-> 0]
  <2>1. ASSUME NEW s \in SUBSET S, Cardinality(s) <= 0
        PROVE  g[s] = SumStep(g, f, s)
    <3>1. s = {}
      BY <1>1, <2>1, FS_EmptySet
    <3> QED BY <3>1 DEF SumStep
  <2>2. RightUpTo(g, f, S, 0)
    BY <2>1 DEF RightUpTo
  <2> QED BY <2>2
<1>3. ASSUME NEW n \in N PROVE n + 1 \in N
  <2>1. PICK g : RightUpTo(g, f, S, n)
    BY <1>3
  <2> DEFINE h == [s \in SUBSET S |-> SumStep(g, f, s)]
  <2>2. ASSUME NEW s \in SUBSET S, Cardinality(s) <= n + 1
        PROVE  h[s] = SumStep(h, f, s)
    <3>1. CASE s = {}
      BY <3>1 DEF SumStep
    <3>2. CASE s # {}
      <4> DEFINE r == s \ {Pick(s)}
      <4>1. r \in SUBSET S /\ Cardinality(r) <= n
        BY <1>1, <2>2, <3>2, PickOne
      <4>2. h[r] = g[r]
        BY <2>1, <4>1 DEF RightUpTo
      <4>3. h[s] = f[Pick(s)] + g[r]
        BY <3>2 DEF SumStep
      <4>4. SumStep(h, f, s) = f[Pick(s)] + h[r]
        BY <3>2 DEF SumStep
      <4> QED BY <4>2, <4>3, <4>4
    <3> QED BY <3>1, <3>2
  <2>3. RightUpTo(h, f, S, n + 1)
    BY <2>2 DEF RightUpTo
  <2> HIDE DEF h
  <2> QED BY <2>3
<1> HIDE DEF N
<1>4. Cardinality(S) \in N
  <2>1. N \in SUBSET Nat
    BY DEF N
  <2>2. N = Nat
    BY <2>1, <1>2, <1>3, SetOfAllNumbers
  <2> QED BY <2>2, FS_CardinalityType
<1>5. PICK g : RightUpTo(g, f, S, Cardinality(S))
  BY <1>4 DEF N
<1> DEFINE h == [s \in SUBSET S |-> g[s]]
<1>6. ASSUME NEW s \in SUBSET S PROVE h[s] = SumStep(h, f, s)
  <2>1. g[s] = SumStep(g, f, s)
    BY <1>1, <1>5 DEF RightUpTo
  <2> QED BY <2>1 DEF SumStep
<1>7. h = [s \in SUBSET S |-> SumStep(h, f, s)]
  <2> HIDE DEF h
  <2>1. DOMAIN h = SUBSET S /\ h = [s \in SUBSET S |-> h[s]]
    BY DEF h
  <2> QED BY <1>6, <2>1
<1>8. IsSum(h, f, S)
  BY <1>7 DEF IsSum
<1> QED BY <1>8

\* The values of f matter only on the set.
LEMMA SumUnique ==
    ASSUME NEW f, NEW e, NEW S, NEW T, IsFiniteSet(S), T \subseteq S,
           \A x \in T : f[x] = e[x],
           NEW g, IsSum(g, f, S), NEW h, IsSum(h, e, T)
    PROVE  \A s \in SUBSET T : g[s] = h[s]
<1> DEFINE N == {n \in Nat : \A s \in SUBSET T : Cardinality(s) <= n => g[s] = h[s]}
<1>1. \A s \in SUBSET T : IsFiniteSet(s) /\ Cardinality(s) \in Nat
  BY FS_Subset, FS_CardinalityType
<1>2. \A s \in SUBSET T : g[s] = SumStep(g, f, s) /\ h[s] = SumStep(h, e, s)
  BY DEF IsSum
<1>3. 0 \in N
  <2>1. ASSUME NEW s \in SUBSET T, Cardinality(s) <= 0 PROVE g[s] = h[s]
    <3>1. s = {}
      BY <1>1, <2>1, FS_EmptySet
    <3> QED BY <1>2, <3>1 DEF SumStep
  <2> QED BY <2>1
<1>4. ASSUME NEW n \in N PROVE n + 1 \in N
  <2>1. ASSUME NEW s \in SUBSET T, Cardinality(s) <= n + 1 PROVE g[s] = h[s]
    <3>1. CASE s = {}
      BY <1>2, <3>1 DEF SumStep
    <3>2. CASE s # {}
      <4> DEFINE r == s \ {Pick(s)}
      <4>1. r \in SUBSET T /\ Cardinality(r) <= n /\ Pick(s) \in T
        BY <1>1, <2>1, <3>2, PickOne
      <4>2. g[r] = h[r]
        BY <1>4, <4>1
      <4>3. g[s] = f[Pick(s)] + g[r] /\ h[s] = e[Pick(s)] + h[r]
        BY <1>2, <3>2 DEF SumStep
      <4> QED BY <4>1, <4>2, <4>3
    <3> QED BY <3>1, <3>2
  <2> QED BY <2>1
<1> HIDE DEF N
<1>5. N = Nat
  <2>1. N \in SUBSET Nat
    BY DEF N
  <2> QED BY <2>1, <1>3, <1>4, SetOfAllNumbers
<1>6. ASSUME NEW s \in SUBSET T PROVE g[s] = h[s]
  <2>1. Cardinality(s) \in N
    BY <1>1, <1>5
  <2> QED BY <1>1, <2>1 DEF N
<1> QED BY <1>6

LEMMA SumIs ==
    ASSUME NEW f, NEW S, IsFiniteSet(S)
    PROVE  \E g : IsSum(g, f, S) /\ SumFunctionOnSet(f, S) = g[S]
<1> DEFINE g == CHOOSE h : IsSum(h, f, S)
<1>1. SumFunctionOnSet(f, S) = g[S]
  BY DEF SumFunctionOnSet, FoldFunctionOnSet, MapThenFoldSet, IsSum, SumStep, Pick
<1>2. IsSum(g, f, S)
  BY SumExists
<1> QED BY <1>1, <1>2

-----------------------------------------------------------------------------
(* What a sum is. *)

LEMMA SumEmpty ==
    ASSUME NEW f
    PROVE  SumFunctionOnSet(f, {}) = 0
<1>1. PICK g : IsSum(g, f, {}) /\ SumFunctionOnSet(f, {}) = g[{}]
  BY SumIs, FS_EmptySet
<1> QED BY <1>1 DEF IsSum, SumStep

\* Functions that agree on a set have the same sum over it.
LEMMA SumSame ==
    ASSUME NEW f, NEW e, NEW S, IsFiniteSet(S), \A x \in S : f[x] = e[x]
    PROVE  SumFunctionOnSet(f, S) = SumFunctionOnSet(e, S)
<1>1. PICK g : IsSum(g, f, S) /\ SumFunctionOnSet(f, S) = g[S]
  BY SumIs
<1>2. PICK h : IsSum(h, e, S) /\ SumFunctionOnSet(e, S) = h[S]
  BY SumIs
<1>3. \A s \in SUBSET S : g[s] = h[s]
  BY <1>1, <1>2, SumUnique
<1> QED BY <1>1, <1>2, <1>3

LEMMA SumPick ==
    ASSUME NEW f, NEW S, IsFiniteSet(S), S # {}
    PROVE  SumFunctionOnSet(f, S) = f[Pick(S)] + SumFunctionOnSet(f, S \ {Pick(S)})
<1> DEFINE T == S \ {Pick(S)}
<1>1. PICK g : IsSum(g, f, S) /\ SumFunctionOnSet(f, S) = g[S]
  BY SumIs
<1>2. IsFiniteSet(T)
  BY PickOne
<1>3. PICK h : IsSum(h, f, T) /\ SumFunctionOnSet(f, T) = h[T]
  BY <1>2, SumIs
<1>4. g[T] = h[T]
  BY <1>1, <1>3, SumUnique
<1>5. g[S] = f[Pick(S)] + g[T]
  BY <1>1 DEF IsSum, SumStep
<1> QED BY <1>1, <1>3, <1>4, <1>5

LEMMA SumInt ==
    ASSUME NEW f, NEW S, IsFiniteSet(S), \A x \in S : f[x] \in Int
    PROVE  SumFunctionOnSet(f, S) \in Int
<1> DEFINE N == {n \in Nat : \A s \in SUBSET S : Cardinality(s) <= n => SumFunctionOnSet(f, s) \in Int}
<1>1. \A s \in SUBSET S : IsFiniteSet(s) /\ Cardinality(s) \in Nat
  BY FS_Subset, FS_CardinalityType
<1>2. 0 \in N
  <2>1. ASSUME NEW s \in SUBSET S, Cardinality(s) <= 0 PROVE SumFunctionOnSet(f, s) \in Int
    <3>1. s = {}
      BY <1>1, <2>1, FS_EmptySet
    <3> QED BY <3>1, SumEmpty
  <2> QED BY <2>1
<1>3. ASSUME NEW n \in N PROVE n + 1 \in N
  <2>1. ASSUME NEW s \in SUBSET S, Cardinality(s) <= n + 1 PROVE SumFunctionOnSet(f, s) \in Int
    <3>1. CASE s = {}
      BY <3>1, SumEmpty
    <3>2. CASE s # {}
      <4> DEFINE r == s \ {Pick(s)}
      <4>1. r \in SUBSET S /\ Cardinality(r) <= n /\ Pick(s) \in S
        BY <1>1, <2>1, <3>2, PickOne
      <4>2. SumFunctionOnSet(f, r) \in Int /\ f[Pick(s)] \in Int
        BY <1>3, <4>1
      <4>3. SumFunctionOnSet(f, s) = f[Pick(s)] + SumFunctionOnSet(f, r)
        BY <1>1, <3>2, SumPick
      <4> QED BY <4>2, <4>3
    <3> QED BY <3>1, <3>2
  <2> QED BY <2>1
<1> HIDE DEF N
<1>4. N = Nat
  <2>1. N \in SUBSET Nat
    BY DEF N
  <2> QED BY <2>1, <1>2, <1>3, SetOfAllNumbers
<1>5. Cardinality(S) \in N /\ Cardinality(S) <= Cardinality(S)
  BY <1>1, <1>4
<1> QED BY <1>5 DEF N

\* Whichever element is taken out first, the sum is the same.
LEMMA SumAdd ==
    ASSUME NEW f, NEW S, IsFiniteSet(S), NEW x, x \notin S,
           f[x] \in Int, \A y \in S : f[y] \in Int
    PROVE  SumFunctionOnSet(f, S \cup {x}) = f[x] + SumFunctionOnSet(f, S)
<1> DEFINE Adds(s, y) == SumFunctionOnSet(f, s \cup {y}) = f[y] + SumFunctionOnSet(f, s)
           U == S \cup {x}
           N == {n \in Nat : \A s \in SUBSET U, y \in U :
                                y \notin s /\ Cardinality(s) <= n => Adds(s, y)}
<1>1. IsFiniteSet(U)
  BY FS_AddElement
<1>2. \A s \in SUBSET U : IsFiniteSet(s) /\ Cardinality(s) \in Nat
  BY <1>1, FS_Subset, FS_CardinalityType
<1>3. \A y \in U : f[y] \in Int
  OBVIOUS
<1>4. \A s \in SUBSET U : SumFunctionOnSet(f, s) \in Int
  <2> SUFFICES ASSUME NEW s \in SUBSET U PROVE SumFunctionOnSet(f, s) \in Int
    OBVIOUS
  <2>1. \A y \in s : f[y] \in Int
    BY <1>3
  <2> QED BY <1>2, <2>1, SumInt
<1> HIDE DEF U
<1>5. ASSUME NEW s \in SUBSET U, NEW y \in U, Pick(s \cup {y}) = y, y \notin s
      PROVE  Adds(s, y)
  <2>1. IsFiniteSet(s \cup {y}) /\ s \cup {y} # {} /\ (s \cup {y}) \ {y} = s
    BY <1>2, <1>5, FS_AddElement
  <2> QED BY <1>5, <2>1, SumPick
<1>6. 0 \in N
  <2>1. ASSUME NEW s \in SUBSET U, NEW y \in U, y \notin s, Cardinality(s) <= 0
        PROVE  Adds(s, y)
    <3>1. s = {}
      BY <1>2, <2>1, FS_EmptySet
    <3>2. Pick(s \cup {y}) = y
      BY <3>1 DEF Pick
    <3> HIDE DEF Adds
    <3> QED BY <1>5, <2>1, <3>2
  <2> HIDE DEF Adds
  <2> QED BY <2>1
<1>7. ASSUME NEW n \in N PROVE n + 1 \in N
  <2>1. ASSUME NEW s \in SUBSET U, NEW y \in U, y \notin s, Cardinality(s) <= n + 1
        PROVE  Adds(s, y)
    <3> DEFINE p == Pick(s \cup {y})
               r == s \ {p}
    <3>1. IsFiniteSet(s \cup {y})
      BY <1>2, FS_AddElement
    <3>2. p \in s \cup {y}
      BY <3>1, PickOne
    <3>3. CASE p = y
      <4> HIDE DEF Adds
      <4> QED BY <1>5, <2>1, <3>3
    <3>4. CASE p # y
      <4>1. p \in s /\ p \in U /\ r \in SUBSET U /\ p \notin r /\ y \notin r
        BY <2>1, <3>2, <3>4
      <4>2. Cardinality(r) <= n
        <5>1. Cardinality(r) = Cardinality(s) - 1
          <6> HIDE DEF p
          <6>1. IsFiniteSet(s)
            BY <1>2
          <6> QED BY <4>1, <6>1, FS_RemoveElement
        <5>2. Cardinality(s) \in Nat /\ n \in Nat
          BY <1>2, <1>7
        <5> QED BY <2>1, <5>1, <5>2
      <4>3. Adds(r, y) /\ Adds(r, p)
        <5> HIDE DEF Adds
        <5> QED BY <1>7, <4>1, <4>2
      <4>4. r \cup {p} = s /\ (s \cup {y}) \ {p} = r \cup {y}
        <5> HIDE DEF p
        <5> QED BY <3>4, <4>1
      <4>5. SumFunctionOnSet(f, s \cup {y}) = f[p] + SumFunctionOnSet(f, (s \cup {y}) \ {p})
        BY <3>1, SumPick
      <4>6. SumFunctionOnSet(f, s \cup {y}) = f[p] + (f[y] + SumFunctionOnSet(f, r))
        BY <4>3, <4>4, <4>5
      <4>7. SumFunctionOnSet(f, s) = f[p] + SumFunctionOnSet(f, r)
        BY <4>3, <4>4
      <4>8. f[p] \in Int /\ f[y] \in Int /\ SumFunctionOnSet(f, r) \in Int
        BY <1>3, <1>4, <4>1
      <4> HIDE DEF p, r
      <4> QED BY <4>6, <4>7, <4>8
    <3> QED BY <3>3, <3>4
  <2> HIDE DEF Adds
  <2> QED BY <2>1
<1> HIDE DEF N
<1>8. N = Nat
  <2>1. N \in SUBSET Nat
    BY DEF N
  <2> QED BY <2>1, <1>6, <1>7, SetOfAllNumbers
<1>9. Cardinality(S) \in N /\ Cardinality(S) <= Cardinality(S) /\ S \in SUBSET U /\ x \in U
  BY <1>2, <1>8 DEF U
<1> HIDE DEF Adds
<1>10. Adds(S, x)
  BY <1>9 DEF N
<1> QED BY <1>10 DEF Adds

\* One element taken out.
LEMMA SumRemove ==
    ASSUME NEW f, NEW S, IsFiniteSet(S), NEW x \in S, \A y \in S : f[y] \in Int
    PROVE  SumFunctionOnSet(f, S) = f[x] + SumFunctionOnSet(f, S \ {x})
<1> DEFINE T == S \ {x}
<1>1. IsFiniteSet(T)
  BY FS_RemoveElement
<1>2. SumFunctionOnSet(f, T \cup {x}) = f[x] + SumFunctionOnSet(f, T)
  BY <1>1, SumAdd
<1>3. T \cup {x} = S
  OBVIOUS
<1> QED BY <1>2, <1>3

\* One element more, for a function that has a value for it.
LEMMA SumExtend ==
    ASSUME NEW f, NEW e, NEW S, IsFiniteSet(S), NEW x, x \notin S,
           \A y \in S : f[y] \in Int /\ e[y] = f[y], e[x] \in Int
    PROVE  SumFunctionOnSet(e, S \cup {x}) = e[x] + SumFunctionOnSet(f, S)
<1>1. SumFunctionOnSet(e, S) = SumFunctionOnSet(f, S)
  BY SumSame
<1>2. SumFunctionOnSet(e, S \cup {x}) = e[x] + SumFunctionOnSet(e, S)
  BY SumAdd
<1> QED BY <1>1, <1>2

\* A sum of non-negative numbers, and of larger ones over a larger set.
LEMMA SumMonotone ==
    ASSUME NEW f, NEW e, NEW S, IsFiniteSet(S), NEW T \in SUBSET S,
           \A x \in T : f[x] \in Int /\ f[x] <= e[x],
           \A x \in S : e[x] \in Nat
    PROVE  SumFunctionOnSet(f, T) <= SumFunctionOnSet(e, S)
<1> DEFINE Below(s) == SumFunctionOnSet(f, s \cap T) <= SumFunctionOnSet(e, s)
           N == {n \in Nat : \A s \in SUBSET S : Cardinality(s) <= n => Below(s)}
<1>1. \A s \in SUBSET S : IsFiniteSet(s) /\ Cardinality(s) \in Nat
  BY FS_Subset, FS_CardinalityType
<1> HIDE DEF Below
<1>2. \A s \in SUBSET S : SumFunctionOnSet(f, s \cap T) \in Int /\ SumFunctionOnSet(e, s) \in Int
  <2> SUFFICES ASSUME NEW s \in SUBSET S
               PROVE  SumFunctionOnSet(f, s \cap T) \in Int /\ SumFunctionOnSet(e, s) \in Int
    OBVIOUS
  <2>1. (\A x \in s \cap T : f[x] \in Int) /\ (\A x \in s : e[x] \in Int)
    OBVIOUS
  <2>2. IsFiniteSet(s) /\ IsFiniteSet(s \cap T)
    BY <1>1
  <2> QED BY <2>1, <2>2, SumInt
<1>3. ASSUME NEW s, s = {} PROVE Below(s)
  <2>1. s \cap T = {}
    BY <1>3
  <2>2. SumFunctionOnSet(f, {}) = 0 /\ SumFunctionOnSet(e, {}) = 0
    BY SumEmpty
  <2> QED BY <1>3, <2>1, <2>2 DEF Below
<1>4. 0 \in N
  <2>1. ASSUME NEW s \in SUBSET S, Cardinality(s) <= 0 PROVE Below(s)
    <3>1. s = {}
      BY <1>1, <2>1, FS_EmptySet
    <3> QED BY <1>3, <3>1
  <2> QED BY <2>1
<1>5. ASSUME NEW n \in N PROVE n + 1 \in N
  <2>1. ASSUME NEW s \in SUBSET S, Cardinality(s) <= n + 1 PROVE Below(s)
    <3>1. CASE s = {}
      BY <1>3, <3>1
    <3>2. CASE s # {}
      <4> DEFINE p == Pick(s)
                 r == s \ {p}
      <4>1. r \in SUBSET S /\ Cardinality(r) <= n /\ p \in s
        BY <1>1, <2>1, <3>2, PickOne
      <4>2. Below(r)
        BY <1>5, <4>1
      <4>3. SumFunctionOnSet(e, s) = e[p] + SumFunctionOnSet(e, r)
        BY <1>1, <3>2, SumPick
      <4>4. e[p] \in Nat /\ SumFunctionOnSet(e, r) \in Int /\ SumFunctionOnSet(f, r \cap T) \in Int
        BY <1>2, <4>1
      <4>5. CASE p \in T
        <5>1. (s \cap T) \ {p} = r \cap T /\ p \in s \cap T
          BY <4>1, <4>5
        <5>2. \A y \in s \cap T : f[y] \in Int
          OBVIOUS
        <5>3. IsFiniteSet(s \cap T)
          BY <1>1
        <5> HIDE DEF p, r
        <5>4. SumFunctionOnSet(f, s \cap T) = f[p] + SumFunctionOnSet(f, r \cap T)
          BY <5>1, <5>2, <5>3, SumRemove
        <5>5. f[p] \in Int /\ f[p] <= e[p]
          BY <4>5
        <5> QED BY <4>2, <4>3, <4>4, <5>4, <5>5 DEF Below
      <4>6. CASE p \notin T
        <5>1. s \cap T = r \cap T
          BY <4>6
        <5> HIDE DEF p, r
        <5> QED BY <4>2, <4>3, <4>4, <5>1 DEF Below
      <4> QED BY <4>5, <4>6
    <3> QED BY <3>1, <3>2
  <2> QED BY <2>1
<1> HIDE DEF N
<1>6. N = Nat
  <2>1. N \in SUBSET Nat
    BY DEF N
  <2> QED BY <2>1, <1>4, <1>5, SetOfAllNumbers
<1>7. Cardinality(S) \in N /\ Cardinality(S) <= Cardinality(S) /\ S \in SUBSET S
  BY <1>1, <1>6
<1>8. Below(S)
  BY <1>7 DEF N
<1>9. S \cap T = T
  OBVIOUS
<1> QED BY <1>8, <1>9 DEF Below

LEMMA SumNat ==
    ASSUME NEW f, NEW S, IsFiniteSet(S), \A x \in S : f[x] \in Nat
    PROVE  SumFunctionOnSet(f, S) \in Nat
<1>1. SumFunctionOnSet(f, S) \in Int
  BY SumInt
<1>2. SumFunctionOnSet(f, {}) <= SumFunctionOnSet(f, S)
  BY SumMonotone
<1> QED BY <1>1, <1>2, SumEmpty

\* One value changed.
LEMMA SumChange ==
    ASSUME NEW f, NEW e, NEW S, IsFiniteSet(S), NEW x \in S,
           \A y \in S : f[y] \in Int /\ e[y] \in Int,
           \A y \in S \ {x} : e[y] = f[y]
    PROVE  SumFunctionOnSet(e, S) = SumFunctionOnSet(f, S) - f[x] + e[x]
<1> DEFINE T == S \ {x}
<1>1. /\ SumFunctionOnSet(f, S) = f[x] + SumFunctionOnSet(f, T)
      /\ SumFunctionOnSet(e, S) = e[x] + SumFunctionOnSet(e, T)
  BY SumRemove
<1>2. IsFiniteSet(T)
  BY FS_RemoveElement
<1>3. SumFunctionOnSet(e, T) = SumFunctionOnSet(f, T)
  BY <1>2, SumSame
<1>4. SumFunctionOnSet(f, T) \in Int
  BY <1>2, SumInt
<1> QED BY <1>1, <1>3, <1>4

LEMMA SumSingleton ==
    ASSUME NEW f, NEW x, f[x] \in Int
    PROVE  SumFunctionOnSet(f, {x}) = f[x]
<1>1. IsFiniteSet({}) /\ {} \cup {x} = {x} /\ SumFunctionOnSet(f, {}) = 0
  BY FS_EmptySet, SumEmpty
<1>2. SumFunctionOnSet(f, {} \cup {x}) = f[x] + SumFunctionOnSet(f, {})
  BY <1>1, SumAdd
<1> QED BY <1>1, <1>2

\* Nothing adds up to nothing.
LEMMA SumZero ==
    ASSUME NEW f, NEW A, IsFiniteSet(A), \A x \in A : f[x] = 0
    PROVE  SumFunctionOnSet(f, A) = 0
<1> DEFINE S == {n \in Nat : \A D \in SUBSET A : Cardinality(D) <= n => SumFunctionOnSet(f, D) = 0}
<1>1. \A D \in SUBSET A : IsFiniteSet(D) /\ Cardinality(D) \in Nat
  BY FS_Subset, FS_CardinalityType
<1>2. 0 \in S
  <2>1. ASSUME NEW D \in SUBSET A, Cardinality(D) <= 0
        PROVE  SumFunctionOnSet(f, D) = 0
    <3>1. D = {}
      BY <1>1, <2>1, FS_EmptySet
    <3>2. SumFunctionOnSet(f, {}) = 0
      BY SumEmpty
    <3> QED BY <3>1, <3>2
  <2> QED BY <2>1
<1>3. ASSUME NEW n \in S PROVE n + 1 \in S
  <2>1. ASSUME NEW D \in SUBSET A, Cardinality(D) <= n + 1
        PROVE  SumFunctionOnSet(f, D) = 0
    <3>1. CASE D = {}
      <4>1. SumFunctionOnSet(f, {}) = 0
        BY SumEmpty
      <4> QED BY <3>1, <4>1
    <3>2. CASE D # {}
      <4>1. PICK x \in D : TRUE
        BY <3>2
      <4> DEFINE E == D \ {x}
      <4>2. E \in SUBSET A /\ Cardinality(E) <= n
        BY <1>1, <1>3, <2>1, <4>1, FS_RemoveElement
      <4>3. SumFunctionOnSet(f, E) = 0
        BY <1>3, <4>2
      <4>4. IsFiniteSet(D) /\ f[x] = 0 /\ \A y \in D : f[y] \in Int
        BY <1>1, <2>1, <4>1
      <4>5. SumFunctionOnSet(f, D) = f[x] + SumFunctionOnSet(f, E)
        BY <4>1, <4>4, SumRemove
      <4> QED BY <4>3, <4>4, <4>5
    <3> QED BY <3>1, <3>2
  <2> QED BY <1>3, <2>1
<1> HIDE DEF S
<1>4. S = Nat
  <2>1. S \in SUBSET Nat
    BY DEF S
  <2> QED BY <2>1, <1>2, <1>3, SetOfAllNumbers
<1>5. Cardinality(A) \in S /\ Cardinality(A) <= Cardinality(A)
  BY <1>1, <1>4
<1> QED BY <1>5 DEF S

-----------------------------------------------------------------------------
(* Sums over intervals. *)

LEMMA SumNext ==
    ASSUME NEW f, NEW m \in Int, NEW n \in Int, m <= n + 1, \A i \in m..(n + 1) : f[i] \in Int
    PROVE  SumFunctionOnSet(f, m..(n + 1)) = f[n + 1] + SumFunctionOnSet(f, m..n)
<1> DEFINE I == m..n
           new == n + 1
<1>1. m..(n + 1) = I \cup {new} /\ new \notin I /\ f[new] \in Int
  OBVIOUS
<1>2. \A i \in I : f[i] \in Int
  OBVIOUS
<1>3. IsFiniteSet(I)
  BY FS_Interval
<1> HIDE DEF I, new
<1>4. SumFunctionOnSet(f, I \cup {new}) = f[new] + SumFunctionOnSet(f, I)
  BY <1>1, <1>2, <1>3, SumAdd
<1> QED BY <1>1, <1>4 DEF I, new

\* The m values of e are those of f after the first k.
IsPart(e, f, k, m) ==
    /\ \A i \in 1..m : e[i] = f[k + i]
    /\ \A i \in (k + 1)..(k + m) : f[i] \in Int

\* The sum of a part of a sequence.
LEMMA SumShift ==
    ASSUME NEW f, NEW k \in Nat, NEW m \in Nat, NEW e, IsPart(e, f, k, m)
    PROVE  SumFunctionOnSet(e, 1..m) = SumFunctionOnSet(f, (k + 1)..(k + m))
<1> USE DEF IsPart
<1> DEFINE Same(n) == n <= m => SumFunctionOnSet(e, 1..n) = SumFunctionOnSet(f, (k + 1)..(k + n))
           N == {n \in Nat : Same(n)}
<1>1. Same(0)
  <2>1. 1..0 = {} /\ (k + 1)..(k + 0) = {}
    OBVIOUS
  <2> QED BY <2>1, SumEmpty
<1>2. ASSUME NEW n \in Nat, Same(n) PROVE Same(n + 1)
  <2> SUFFICES ASSUME n + 1 <= m
               PROVE  SumFunctionOnSet(e, 1..(n + 1)) = SumFunctionOnSet(f, (k + 1)..(k + (n + 1)))
    OBVIOUS
  <2>1. \A i \in 1..(n + 1) : e[i] \in Int
    <3> SUFFICES ASSUME NEW i \in 1..(n + 1) PROVE e[i] \in Int
      OBVIOUS
    <3>1. i \in 1..m /\ k + i \in (k + 1)..(k + m)
      OBVIOUS
    <3> QED BY <3>1
  <2>2. \A i \in (k + 1)..((k + n) + 1) : f[i] \in Int
    OBVIOUS
  <2>3. SumFunctionOnSet(e, 1..(n + 1)) = e[n + 1] + SumFunctionOnSet(e, 1..n)
    BY <2>1, SumNext
  <2>4. SumFunctionOnSet(f, (k + 1)..((k + n) + 1)) = f[(k + n) + 1] + SumFunctionOnSet(f, (k + 1)..(k + n))
    BY <2>2, SumNext
  <2>5. e[n + 1] = f[k + (n + 1)] /\ k + (n + 1) = (k + n) + 1
    OBVIOUS
  <2>6. SumFunctionOnSet(e, 1..n) = SumFunctionOnSet(f, (k + 1)..(k + n))
    BY <1>2
  <2> QED BY <2>3, <2>4, <2>5, <2>6
<1>3. N = Nat
  <2> HIDE DEF Same
  <2>1. N \in SUBSET Nat /\ 0 \in N /\ \A n \in N : n + 1 \in N
    BY <1>1, <1>2
  <2> HIDE DEF N
  <2> QED BY <2>1, SetOfAllNumbers
<1>4. Same(m)
  <2> HIDE DEF Same
  <2> QED BY <1>3
<1> QED BY <1>4

\* A sum whose terms on a part of the set are larger by the same amount.
LEMMA SumShares ==
    ASSUME NEW f, NEW e, NEW S, IsFiniteSet(S), NEW D \in SUBSET S, NEW a \in Nat,
           \A x \in S : f[x] \in Int /\ e[x] = f[x] + (IF x \in D THEN a ELSE 0)
    PROVE  SumFunctionOnSet(e, S) = SumFunctionOnSet(f, S) + a * Cardinality(D)
<1> DEFINE Shares(s) == SumFunctionOnSet(e, s) = SumFunctionOnSet(f, s) + a * Cardinality(s \cap D)
           N == {n \in Nat : \A s \in SUBSET S : Cardinality(s) <= n => Shares(s)}
<1>1. \A s \in SUBSET S : IsFiniteSet(s) /\ Cardinality(s) \in Nat
  BY FS_Subset, FS_CardinalityType
<1>2. 0 \in N
  <2>1. ASSUME NEW s \in SUBSET S, Cardinality(s) <= 0 PROVE Shares(s)
    <3>1. s = {} /\ s \cap D = {}
      BY <1>1, <2>1, FS_EmptySet
    <3>2. SumFunctionOnSet(e, s) = 0 /\ SumFunctionOnSet(f, s) = 0 /\ Cardinality(s \cap D) = 0
      BY <3>1, SumEmpty, FS_EmptySet
    <3>3. 0 = 0 + a * 0
      OBVIOUS
    <3> QED BY <3>2, <3>3
  <2> QED BY <2>1
<1>3. ASSUME NEW n \in N PROVE n + 1 \in N
  <2>1. ASSUME NEW s \in SUBSET S, Cardinality(s) <= n + 1 PROVE Shares(s)
    <3>1. CASE s = {}
      <4>1. Cardinality(s) <= n
        BY <1>3, <3>1, FS_EmptySet
      <4> QED BY <1>3, <4>1
    <3>2. CASE s # {}
      <4>1. PICK x \in s : TRUE
        BY <3>2
      <4> DEFINE r == s \ {x}
      <4>2. r \in SUBSET S /\ IsFiniteSet(r) /\ Cardinality(r) <= n /\ x \in S
        BY <1>1, <1>3, <2>1, <4>1, FS_RemoveElement
      <4>3. Shares(r)
        BY <1>3, <4>2
      <4>4. /\ SumFunctionOnSet(e, s) = e[x] + SumFunctionOnSet(e, r)
            /\ SumFunctionOnSet(f, s) = f[x] + SumFunctionOnSet(f, r)
        <5>1. \A y \in s : f[y] \in Int /\ e[y] \in Int
          BY <1>1
        <5> QED BY <1>1, <4>1, <5>1, SumRemove
      <4>5. SumFunctionOnSet(f, r) \in Int /\ f[x] \in Int
        <5>1. \A y \in r : f[y] \in Int
          OBVIOUS
        <5> QED BY <4>1, <4>2, <5>1, SumInt
      <4>6. IsFiniteSet(r \cap D) /\ Cardinality(r \cap D) \in Nat
        <5>1. r \cap D \in SUBSET S
          OBVIOUS
        <5> QED BY <1>1, <5>1
      <4>7. CASE x \in D
        <5>1. s \cap D = (r \cap D) \cup {x} /\ x \notin r \cap D
          BY <4>1, <4>7
        <5>2. Cardinality(s \cap D) = Cardinality(r \cap D) + 1
          BY <4>6, <5>1, FS_AddElement
        <5>3. e[x] = f[x] + a
          BY <4>2, <4>7
        <5> DEFINE c == Cardinality(r \cap D)
                   sf == SumFunctionOnSet(f, r)
        <5>4. SumFunctionOnSet(e, s) = (f[x] + a) + (sf + a * c)
          BY <4>3, <4>4, <5>3
        <5>5. SumFunctionOnSet(f, s) + a * Cardinality(s \cap D) = (f[x] + sf) + a * (c + 1)
          BY <4>4, <5>2
        <5>6. c \in Nat /\ sf \in Int /\ f[x] \in Int
          BY <4>5, <4>6
        <5> HIDE DEF c, sf
        <5>7. a * (c + 1) = a * c + a /\ a * c \in Nat
          BY <5>6
        <5>8. (f[x] + a) + (sf + a * c) = (f[x] + sf) + a * (c + 1)
          BY <5>6, <5>7
        <5> QED BY <5>4, <5>5, <5>8
      <4>8. CASE x \notin D
        <5>1. s \cap D = r \cap D
          BY <4>8
        <5>2. e[x] = f[x]
          BY <4>2, <4>5, <4>8
        <5> DEFINE c == Cardinality(r \cap D)
                   sf == SumFunctionOnSet(f, r)
        <5>4. SumFunctionOnSet(e, s) = f[x] + (sf + a * c)
          BY <4>3, <4>4, <5>2
        <5>5. SumFunctionOnSet(f, s) + a * Cardinality(s \cap D) = (f[x] + sf) + a * c
          BY <4>4, <5>1
        <5>6. c \in Nat /\ sf \in Int /\ f[x] \in Int
          BY <4>5, <4>6
        <5> HIDE DEF c, sf
        <5>7. a * c \in Nat
          BY <5>6
        <5>8. f[x] + (sf + a * c) = (f[x] + sf) + a * c
          BY <5>6, <5>7
        <5> QED BY <5>4, <5>5, <5>8
      <4> QED BY <4>7, <4>8
    <3> QED BY <3>1, <3>2
  <2> QED BY <2>1
<1> HIDE DEF N
<1>4. N = Nat
  <2>1. N \in SUBSET Nat
    BY DEF N
  <2> QED BY <2>1, <1>2, <1>3, SetOfAllNumbers
<1>5. Shares(S)
  <2>1. Cardinality(S) \in N /\ Cardinality(S) <= Cardinality(S)
    BY <1>1, <1>4
  <2> QED BY <2>1 DEF N
<1>6. S \cap D = D
  OBVIOUS
<1> QED BY <1>5, <1>6

\* Adding up along an enumeration of a set.
LEMMA SumEnumerated ==
    ASSUME NEW S, IsFiniteSet(S), NEW f, \A x \in S : f[x] \in Int,
           NEW m \in Nat, NEW q \in [1..m -> S],
           \A i, j \in 1..m : q[i] = q[j] => i = j,
           \A x \in S : \E i \in 1..m : q[i] = x,
           NEW e, \A i \in 1..m : e[i] = f[q[i]]
    PROVE  SumFunctionOnSet(e, 1..m) = SumFunctionOnSet(f, S)
<1> DEFINE First(k) == {q[i] : i \in 1..k}
           Same(k) == k <= m => SumFunctionOnSet(e, 1..k) = SumFunctionOnSet(f, First(k))
           N == {k \in Nat : Same(k)}
<1>1. 0 \in N
  <2>1. 1..0 = {} /\ First(0) = {}
    OBVIOUS
  <2> QED BY <2>1, SumEmpty
<1>2. ASSUME NEW k \in N PROVE k + 1 \in N
  <2> SUFFICES ASSUME k + 1 <= m
               PROVE  SumFunctionOnSet(e, 1..(k + 1)) = SumFunctionOnSet(f, First(k + 1))
    BY <1>2
  <2>1. SumFunctionOnSet(e, 1..k) = SumFunctionOnSet(f, First(k))
    BY <1>2
  <2> DEFINE F == First(k)
             x == q[k + 1]
  <2>2. k + 1 \in 1..m /\ x \in S /\ F \subseteq S
    BY <1>2
  <2>3. First(k + 1) = F \cup {x}
    <3>1. 1..(k + 1) = 1..k \cup {k + 1}
      BY <1>2
    <3> QED BY <3>1
  <2>4. x \notin F
    BY <1>2, <2>2
  <2>5. IsFiniteSet(F)
    BY <2>2, FS_Subset
  <2>6. \A y \in F : f[y] \in Int
    BY <2>2
  <2>7. f[x] \in Int /\ e[k + 1] = f[x]
    BY <2>2
  <2>8. \A i \in 1..(k + 1) : e[i] \in Int
    <3>1. ASSUME NEW i \in 1..(k + 1) PROVE e[i] \in Int
      <4>1. i \in 1..m
        BY <1>2
      <4>2. e[i] = f[q[i]] /\ q[i] \in S
        BY <4>1
      <4> QED BY <4>2
    <3> QED BY <3>1
  <2>9. SumFunctionOnSet(e, 1..(k + 1)) = e[k + 1] + SumFunctionOnSet(e, 1..k)
    <3>1. 1 \in Int /\ k \in Int /\ 1 <= k + 1
      BY <1>2
    <3> QED BY <2>8, <3>1, SumNext
  <2> HIDE DEF F, x
  <2>10. SumFunctionOnSet(f, F \cup {x}) = f[x] + SumFunctionOnSet(f, F)
    BY <2>4, <2>5, <2>6, <2>7, SumAdd
  <2>11. SumFunctionOnSet(e, 1..k) = SumFunctionOnSet(f, F)
    BY <2>1 DEF F
  <2> QED BY <2>3, <2>7, <2>9, <2>10, <2>11
<1> HIDE DEF N
<1>3. N = Nat
  <2>1. N \in SUBSET Nat
    BY DEF N
  <2> QED BY <2>1, <1>1, <1>2, SetOfAllNumbers
<1>4. Same(m)
  <2>1. m \in N
    BY <1>3
  <2> QED BY <2>1 DEF N
<1>5. First(m) = S
  OBVIOUS
<1> HIDE DEF First
<1>6. m <= m
  OBVIOUS
<1>7. SumFunctionOnSet(e, 1..m) = SumFunctionOnSet(f, First(m))
  BY <1>4, <1>6
<1> QED BY <1>5, <1>7

=============================================================================
