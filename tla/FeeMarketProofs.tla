--------------------------- MODULE FeeMarketProofs ---------------------------
(***************************************************************************)
(* Proofs about the fee market, for every number of relayers and messages  *)
(* and every choice of fees, ratios and slots: who is assigned, that open  *)
(* orders are backed by collateral, that the fund can pay, and who is      *)
(* slashed.                                                                *)
(***************************************************************************)
EXTENDS FeeMarket, SequenceTheorems, SumProofs, TLAPS

-----------------------------------------------------------------------------
(* Sorting.  R is the order, a set of pairs. *)

IsOrderOn(R, S) ==
    /\ \A a, b \in S : a # b => <<a, b>> \in R \/ <<b, a>> \in R
    /\ \A a, b, c \in S : <<a, b>> \in R /\ <<b, c>> \in R => <<a, c>> \in R

HasGreatest(R, T) == \E m \in T : \A x \in T \ {m} : <<x, m>> \in R

LEMMA GreatestExists ==
    ASSUME NEW S, IsFiniteSet(S), NEW R, IsOrderOn(R, S)
    PROVE  \A T \in SUBSET S : T # {} => HasGreatest(R, T)
<1> DEFINE N == {n \in Nat : \A T \in SUBSET S : T # {} /\ Cardinality(T) <= n => HasGreatest(R, T)}
<1>1. \A T \in SUBSET S : IsFiniteSet(T) /\ Cardinality(T) \in Nat
  BY FS_Subset, FS_CardinalityType
<1>2. 0 \in N
  <2>1. ASSUME NEW T \in SUBSET S, Cardinality(T) <= 0 PROVE T = {}
    BY <1>1, <2>1, FS_EmptySet
  <2> QED BY <2>1
<1>3. ASSUME NEW n \in N PROVE n + 1 \in N
  <2>1. ASSUME NEW T \in SUBSET S, T # {}, Cardinality(T) <= n + 1 PROVE HasGreatest(R, T)
    <3>1. PICK x \in T : TRUE
      BY <2>1
    <3> DEFINE U == T \ {x}
    <3>2. U \in SUBSET S /\ Cardinality(U) <= n
      BY <1>1, <1>3, <2>1, <3>1, FS_RemoveElement, SMTT(40)
    <3>3. CASE U = {}
      BY <3>1, <3>3 DEF HasGreatest
    <3>4. CASE U # {}
      <4>1. HasGreatest(R, U)
        BY <1>3, <3>2, <3>4
      <4>2. PICK m \in U : \A y \in U \ {m} : <<y, m>> \in R
        BY <4>1 DEF HasGreatest
      <4>3. m \in S /\ x \in S /\ m # x
        BY <2>1, <3>1, <4>2
      <4>4. CASE <<x, m>> \in R
        <5>1. \A y \in T \ {m} : <<y, m>> \in R
          BY <4>2, <4>4
        <5> QED BY <4>2, <5>1 DEF HasGreatest
      <4>5. CASE <<m, x>> \in R
        <5>1. ASSUME NEW y \in T \ {x} PROVE <<y, x>> \in R
          <6>1. y = m \/ <<y, m>> \in R
            BY <4>2, <5>1
          <6> QED BY <2>1, <4>3, <4>5, <5>1, <6>1 DEF IsOrderOn
        <5> QED BY <3>1, <5>1 DEF HasGreatest
      <4> QED BY <4>3, <4>4, <4>5 DEF IsOrderOn
    <3> QED BY <3>3, <3>4
  <2> QED BY <2>1
<1> HIDE DEF N
<1>4. N = Nat
  <2>1. N \in SUBSET Nat
    BY DEF N
  <2> QED BY <2>1, <1>2, <1>3, SetOfAllNumbers
<1>5. ASSUME NEW T \in SUBSET S, T # {} PROVE HasGreatest(R, T)
  <2>1. Cardinality(T) \in N /\ Cardinality(T) <= Cardinality(T)
    BY <1>1, <1>4
  <2> QED BY <1>5, <2>1 DEF N
<1> QED BY <1>5

SortedBy(s, R, n) == \A i, j \in 1..n : i < j => <<s[i], s[j]>> \in R
CanBeSorted(R, T) == \E s \in [1..Cardinality(T) -> T] : SortedBy(s, R, Cardinality(T))

LEMMA SortedExists ==
    ASSUME NEW S, IsFiniteSet(S), NEW R, IsOrderOn(R, S)
    PROVE  CanBeSorted(R, S)
<1> DEFINE N == {n \in Nat : \A T \in SUBSET S : Cardinality(T) <= n => CanBeSorted(R, T)}
<1>1. \A T \in SUBSET S : IsFiniteSet(T) /\ Cardinality(T) \in Nat
  BY FS_Subset, FS_CardinalityType
<1>2. ASSUME NEW T, T = {} PROVE CanBeSorted(R, T)
  <2> DEFINE s == [i \in 1..0 |-> 0]
  <2>1. Cardinality(T) = 0 /\ 1..0 = {}
    BY <1>2, FS_EmptySet
  <2>2. s \in [1..Cardinality(T) -> T] /\ SortedBy(s, R, Cardinality(T))
    BY <2>1 DEF SortedBy
  <2> QED BY <2>2 DEF CanBeSorted
<1>3. 0 \in N
  <2>1. ASSUME NEW T \in SUBSET S, Cardinality(T) <= 0 PROVE T = {}
    BY <1>1, <2>1, FS_EmptySet
  <2> QED BY <1>2, <2>1
<1>4. ASSUME NEW n \in N PROVE n + 1 \in N
  <2>1. ASSUME NEW T \in SUBSET S, T # {}, Cardinality(T) <= n + 1 PROVE CanBeSorted(R, T)
    <3>1. PICK m \in T : \A x \in T \ {m} : <<x, m>> \in R
      BY <2>1, GreatestExists DEF HasGreatest
    <3> DEFINE U == T \ {m}
               k == Cardinality(U)
    <3>2. U \in SUBSET S /\ k \in Nat /\ k <= n /\ Cardinality(T) = k + 1
      BY <1>1, <1>4, <2>1, <3>1, FS_RemoveElement
    <3>3. CanBeSorted(R, U)
      BY <1>4, <3>2
    <3>4. PICK u \in [1..k -> U] : SortedBy(u, R, k)
      BY <3>3 DEF CanBeSorted
    <3> DEFINE s == [i \in 1..(k + 1) |-> IF i <= k THEN u[i] ELSE m]
    <3> HIDE DEF k
    <3>5. s \in [1..(k + 1) -> T]
      BY <3>1, <3>2, <3>4
    <3>6. ASSUME NEW i \in 1..(k + 1), NEW j \in 1..(k + 1), i < j PROVE <<s[i], s[j]>> \in R
      <4>1. i \in 1..k /\ s[i] = u[i] /\ u[i] \in U
        BY <3>2, <3>4, <3>6
      <4>2. CASE j <= k
        <5>1. j \in 1..k /\ s[j] = u[j]
          BY <3>2, <3>6, <4>2
        <5> QED BY <3>4, <3>6, <4>1, <5>1 DEF SortedBy
      <4>3. CASE ~(j <= k)
        <5>1. s[j] = m
          BY <3>2, <3>6, <4>3
        <5> QED BY <3>1, <4>1, <5>1
      <4> QED BY <4>2, <4>3
    <3> HIDE DEF s
    <3>7. SortedBy(s, R, k + 1)
      BY <3>6 DEF SortedBy
    <3> QED BY <3>2, <3>5, <3>7 DEF CanBeSorted
  <2> QED BY <1>2, <2>1
<1> HIDE DEF N
<1>5. N = Nat
  <2>1. N \in SUBSET Nat
    BY DEF N
  <2> QED BY <2>1, <1>3, <1>4, SetOfAllNumbers
<1>6. Cardinality(S) \in N /\ Cardinality(S) <= Cardinality(S)
  BY <1>1, <1>5
<1> QED BY <1>6 DEF N

IsStrictOn(R, S) == \A x \in S : <<x, x>> \notin R

\* s has every element of S once.
Lists(s, S) ==
    /\ Cardinality(S) \in Nat /\ s \in [1..Cardinality(S) -> S]
    /\ \A i, j \in 1..Cardinality(S) : s[i] = s[j] => i = j
    /\ \A x \in S : \E i \in 1..Cardinality(S) : s[i] = x

\* A sorted enumeration of a set has every element once.
LEMMA SortedIsEnumeration ==
    ASSUME NEW S, IsFiniteSet(S), NEW R, IsStrictOn(R, S),
           NEW s, s \in [1..Cardinality(S) -> S], SortedBy(s, R, Cardinality(S))
    PROVE  Lists(s, S)
<1> DEFINE n == Cardinality(S)
<1>1. n \in Nat
  BY FS_CardinalityType
<1> HIDE DEF n
<1>2. ASSUME NEW i \in 1..n, NEW j \in 1..n, s[i] = s[j] PROVE i = j
  <2>1. s[i] \in S
    BY DEF n
  <2>2. ~(i < j) /\ ~(j < i)
    BY <1>2, <2>1 DEF SortedBy, IsStrictOn, n
  <2> QED BY <1>1, <2>2
<1>3. s \in Injection(1..n, S)
  BY <1>2 DEF Injection, IsInjective, n
<1>4. Cardinality(1..n) = n
  BY <1>1, FS_Interval
<1>5. s \in Surjection(1..n, S)
  BY <1>3, <1>4, FS_Injection DEF n
<1> QED BY <1>1, <1>2, <1>5 DEF Surjection, Lists, n

-----------------------------------------------------------------------------
(* The market: Market(rs, coll, quote, os, number) assigns the best relayers. *)

Position(rs, who) == CHOOSE i \in 1..Len(rs) : rs[i] = who
Rank(rs, coll, quote, S) == {p \in S \X S : Precedes(rs, coll, quote, p[1], p[2])}
AbleIn(rs, coll, os) == {who \in Range(rs) : UsableCapacity(os, coll, who) >= 1}

LEMMA PrecedesIs ==
    ASSUME NEW rs, NEW coll, NEW quote, NEW a, NEW b
    PROVE  Precedes(rs, coll, quote, a, b) <=>
             \/ quote[a] < quote[b]
             \/ quote[a] = quote[b] /\ coll[a] > coll[b]
             \/ quote[a] = quote[b] /\ coll[a] = coll[b] /\ Position(rs, a) < Position(rs, b)
BY DEF Precedes, Position

LEMMA RangeOfRelayers ==
    ASSUME NEW rs \in Seq(Accounts)
    PROVE  /\ Range(rs) \subseteq Accounts /\ IsFiniteSet(Range(rs))
           /\ \A who \in Range(rs) : Position(rs, who) \in Nat /\ rs[Position(rs, who)] = who
<1>1. Len(rs) \in Nat /\ DOMAIN rs = 1..Len(rs) /\ rs \in [1..Len(rs) -> Accounts]
  BY LenProperties
<1>2. Range(rs) \subseteq Accounts
  BY <1>1 DEF Range
<1>3. IsFiniteSet(Range(rs))
  BY <1>2, MarketAssumption, FS_Subset
<1>4. ASSUME NEW who \in Range(rs) PROVE Position(rs, who) \in Nat /\ rs[Position(rs, who)] = who
  <2>1. \E i \in 1..Len(rs) : rs[i] = who
    BY <1>1, <1>4 DEF Range
  <2>2. Position(rs, who) \in 1..Len(rs) /\ rs[Position(rs, who)] = who
    BY <2>1 DEF Position
  <2> QED BY <1>1, <2>2
<1> QED BY <1>2, <1>3, <1>4

\* The order of Relayer, with the place of enrollment, is strict and total.
LEMMA RankIsOrder ==
    ASSUME NEW rs \in Seq(Accounts), NEW coll \in [Accounts -> Nat], NEW quote \in [Accounts -> Nat],
           NEW S \in SUBSET Range(rs)
    PROVE  /\ IsOrderOn(Rank(rs, coll, quote, S), S)
           /\ IsStrictOn(Rank(rs, coll, quote, S), S)
<1> DEFINE R == Rank(rs, coll, quote, S)
           P(x) == Position(rs, x)
           Before(x, y) == \/ quote[x] < quote[y]
                           \/ quote[x] = quote[y] /\ coll[x] > coll[y]
                           \/ quote[x] = quote[y] /\ coll[x] = coll[y] /\ P(x) < P(y)
<1>1. \A x, y \in S : <<x, y>> \in R <=> Before(x, y)
  <2>1. ASSUME NEW x \in S, NEW y \in S PROVE <<x, y>> \in R <=> Before(x, y)
    <3>1. <<x, y>> \in S \X S /\ <<x, y>>[1] = x /\ <<x, y>>[2] = y
      OBVIOUS
    <3>2. <<x, y>> \in R <=> Precedes(rs, coll, quote, x, y)
      BY <3>1 DEF Rank
    <3> QED BY <3>2, PrecedesIs
  <2> QED BY <2>1
<1>2. \A x \in S : /\ x \in Accounts /\ quote[x] \in Nat /\ coll[x] \in Nat
                   /\ P(x) \in Nat /\ rs[P(x)] = x
  BY RangeOfRelayers
<1> HIDE DEF P, R
<1>3. ASSUME NEW a \in S, NEW b \in S, a # b PROVE <<a, b>> \in R \/ <<b, a>> \in R
  <2>1. P(a) # P(b)
    BY <1>2, <1>3
  <2>2. /\ quote[a] \in Nat /\ coll[a] \in Nat /\ P(a) \in Nat
        /\ quote[b] \in Nat /\ coll[b] \in Nat /\ P(b) \in Nat
    BY <1>2
  <2>3. Before(a, b) \/ Before(b, a)
    BY <2>1, <2>2
  <2> QED BY <1>1, <2>3
<1>4. ASSUME NEW a \in S, NEW b \in S, NEW c \in S, <<a, b>> \in R, <<b, c>> \in R
      PROVE  <<a, c>> \in R
  <2>1. Before(a, b) /\ Before(b, c)
    BY <1>1, <1>4
  <2>2. Before(a, c)
    BY <1>2, <2>1
  <2> QED BY <1>1, <2>2
<1>5. \A x \in S : <<x, x>> \notin R
  BY <1>1, <1>2, SMTT(40)
<1> QED BY <1>3, <1>4, <1>5 DEF IsOrderOn, IsStrictOn, R

\* s lists S, the cheaper quotes first.
Ranks(s, quote, S) ==
    /\ Lists(s, S)
    /\ \A i, j \in 1..Cardinality(S) : i < j => quote[s[i]] <= quote[s[j]]

LEMMA RankedFacts ==
    ASSUME NEW rs \in Seq(Accounts), NEW coll \in [Accounts -> Nat], NEW quote \in [Accounts -> Nat],
           NEW S \in SUBSET Range(rs)
    PROVE  Ranks(Ranked(rs, coll, quote, S), quote, S)
<1> DEFINE s == Ranked(rs, coll, quote, S)
           n == Cardinality(S)
           R == Rank(rs, coll, quote, S)
<1>1. IsFiniteSet(S) /\ n \in Nat /\ S \subseteq Accounts
  BY RangeOfRelayers, FS_Subset, FS_CardinalityType
<1>2. CanBeSorted(R, S) /\ IsStrictOn(R, S)
  BY <1>1, RankIsOrder, SortedExists
<1>3. ASSUME NEW q \in [1..n -> S]
      PROVE  SortedBy(q, R, n) <=> \A i, j \in 1..n : i < j => Precedes(rs, coll, quote, q[i], q[j])
  <2>1. \A i, j \in 1..n : <<q[i], q[j]>> \in R <=> Precedes(rs, coll, quote, q[i], q[j])
    <3>1. ASSUME NEW i \in 1..n, NEW j \in 1..n
          PROVE  <<q[i], q[j]>> \in R <=> Precedes(rs, coll, quote, q[i], q[j])
      <4>1. <<q[i], q[j]>> \in S \X S /\ <<q[i], q[j]>>[1] = q[i] /\ <<q[i], q[j]>>[2] = q[j]
        OBVIOUS
      <4> QED BY <4>1 DEF Rank
    <3> QED BY <3>1
  <2> HIDE DEF R
  <2> QED BY <2>1 DEF SortedBy
<1>4. s \in [1..n -> S] /\ \A i, j \in 1..n : i < j => Precedes(rs, coll, quote, s[i], s[j])
  <2>1. \E q \in [1..n -> S] : \A i, j \in 1..n : i < j => Precedes(rs, coll, quote, q[i], q[j])
    BY <1>2, <1>3 DEF CanBeSorted
  <2> QED BY <2>1 DEF Ranked
<1>5. SortedBy(s, R, n)
  BY <1>3, <1>4
<1> HIDE DEF s, R
<1>6. /\ \A i, j \in 1..n : s[i] = s[j] => i = j
      /\ \A x \in S : \E i \in 1..n : s[i] = x
  <2>1. s \in [1..n -> S]
    BY <1>4
  <2>2. Lists(s, S)
    BY <1>1, <1>2, <1>5, <2>1, SortedIsEnumeration
  <2> QED BY <2>2 DEF Lists
<1>7. ASSUME NEW i \in 1..n, NEW j \in 1..n, i < j PROVE quote[s[i]] <= quote[s[j]]
  <2>1. Precedes(rs, coll, quote, s[i], s[j])
    BY <1>4, <1>7
  <2>2. quote[s[i]] \in Nat /\ quote[s[j]] \in Nat
    BY <1>1, <1>4
  <2> QED BY <2>1, <2>2, PrecedesIs, SMTT(40)
<1> HIDE DEF n
<1>8. /\ n \in Nat /\ s \in [1..n -> S]
      /\ \A i, j \in 1..n : i < j => quote[s[i]] <= quote[s[j]]
      /\ \A i, j \in 1..n : s[i] = s[j] => i = j
      /\ \A x \in S : \E i \in 1..n : s[i] = x
  BY <1>1, <1>4, <1>6, <1>7
<1> QED BY <1>8 DEF n, s, Ranks, Lists

MarketEntry == [id : Accounts, collateral : Nat, fee : Nat]

\* M has number relayers of able, or none if they are not enough; they are different and
\* have their quotes, none is cheaper than one before, and no other relayer of able is cheaper.
IsBest(M, able, quote, number) ==
    /\ M \in Seq(MarketEntry) /\ Cardinality(able) \in Nat
    /\ Len(M) = (IF Cardinality(able) >= number THEN number ELSE 0)
    /\ \A i \in 1..Len(M) : M[i].id \in able /\ M[i].fee = quote[M[i].id]
    /\ \A i, j \in 1..Len(M) : i < j => M[i].fee <= M[j].fee
    /\ \A i, j \in 1..Len(M) : M[i].id = M[j].id => i = j
    /\ \A x \in able : (\A i \in 1..Len(M) : M[i].id # x)
                         => \A i \in 1..Len(M) : M[i].fee <= quote[x]

\* The first number relayers of the ranking, or none.
LEMMA MarketFacts ==
    ASSUME NEW rs \in Seq(Accounts), NEW coll \in [Accounts -> Nat], NEW quote \in [Accounts -> Nat],
           NEW os, NEW number \in Nat
    PROVE  IsBest(Market(rs, coll, quote, os, number), AbleIn(rs, coll, os), quote, number)
<1> DEFINE M == Market(rs, coll, quote, os, number)
           able == AbleIn(rs, coll, os)
           n == Cardinality(able)
           s == Ranked(rs, coll, quote, able)
<1>1. able \subseteq Range(rs) /\ Range(rs) \subseteq Accounts
  BY RangeOfRelayers DEF AbleIn
<1>2. /\ n \in Nat /\ s \in [1..n -> able]
      /\ \A i, j \in 1..n : i < j => quote[s[i]] <= quote[s[j]]
      /\ \A i, j \in 1..n : s[i] = s[j] => i = j
      /\ \A x \in able : \E i \in 1..n : s[i] = x
  <2>1. able \in SUBSET Range(rs)
    BY <1>1
  <2>2. Ranks(s, quote, able)
    BY <2>1, RankedFacts
  <2> QED BY <2>2 DEF Ranks, Lists
<1>3. Len(s) = n
  BY <1>2, LenProperties
<1>4. M = IF Len(s) < number THEN <<>>
          ELSE [i \in 1..number |-> [id |-> s[i], collateral |-> coll[s[i]], fee |-> quote[s[i]]]]
  BY DEF Market, AbleIn
<1> HIDE DEF M, s, n, able
<1>5. CASE n < number
  <2>1. M = <<>>
    BY <1>3, <1>4, <1>5
  <2>2. M \in Seq(MarketEntry) /\ Len(M) = 0 /\ ~(n >= number)
    BY <1>2, <1>5, <2>1, EmptySeq
  <2>3. 1..Len(M) = {}
    BY <2>2
  <2> QED BY <1>2, <2>2, <2>3 DEF IsBest, M, able, n
<1>6. CASE ~(n < number)
  <2>1. M = [i \in 1..number |-> [id |-> s[i], collateral |-> coll[s[i]], fee |-> quote[s[i]]]]
    BY <1>3, <1>4, <1>6
  <2>2. \A i \in 1..number : i \in 1..n /\ s[i] \in able /\ s[i] \in Accounts
    BY <1>1, <1>2, <1>6
  <2>3. \A i \in 1..number : M[i] = [id |-> s[i], collateral |-> coll[s[i]], fee |-> quote[s[i]]]
    BY <2>1
  <2>4. \A i \in 1..number : M[i] \in MarketEntry /\ M[i].id = s[i] /\ M[i].fee = quote[s[i]]
    <3>1. ASSUME NEW i \in 1..number
          PROVE  M[i] \in MarketEntry /\ M[i].id = s[i] /\ M[i].fee = quote[s[i]]
      <4>1. s[i] \in Accounts /\ coll[s[i]] \in Nat /\ quote[s[i]] \in Nat
        BY <2>2
      <4>2. M[i] = [id |-> s[i], collateral |-> coll[s[i]], fee |-> quote[s[i]]]
        BY <2>3
      <4> HIDE DEF M
      <4> QED BY <4>1, <4>2 DEF MarketEntry
    <3> QED BY <3>1
  <2>5. M \in [1..number -> MarketEntry]
    BY <2>1, <2>4
  <2>6. M \in Seq(MarketEntry) /\ Len(M) = number
    BY <2>5, IsASeq, LenProperties
  <2>7. n >= number
    BY <1>2, <1>6
  <2>8. \A i, j \in 1..number : i < j => M[i].fee <= M[j].fee
    BY <1>2, <2>2, <2>4
  <2>9. \A i, j \in 1..number : M[i].id = M[j].id => i = j
    BY <1>2, <2>2, <2>4
  <2>10. ASSUME NEW x \in able, \A i \in 1..number : M[i].id # x, NEW i \in 1..number
         PROVE  M[i].fee <= quote[x]
    <3>1. PICK j \in 1..n : s[j] = x
      BY <1>2
    <3>2. ~(j \in 1..number)
      BY <2>4, <2>10, <3>1
    <3>3. i < j /\ i \in 1..n
      BY <1>2, <2>2, <3>2
    <3>4. quote[s[i]] <= quote[s[j]]
      BY <1>2, <3>3
    <3> QED BY <2>4, <3>1, <3>4
  <2> QED BY <1>2, <2>2, <2>4, <2>6, <2>7, <2>8, <2>9, <2>10 DEF IsBest, M, able, n
<1> QED BY <1>5, <1>6

\* retain drops who and nobody else.
LEMMA RetainFacts ==
    ASSUME NEW rs \in Seq(Accounts), NEW who \in Accounts
    PROVE  /\ Retain(rs, who) \in Seq(Accounts)
           /\ \A other \in Range(rs) : other # who => other \in Range(Retain(rs, who))
<1> DEFINE m == Len(rs)
           V == Seq(Accounts)
           Step(i, q) == IF rs[i] = who THEN q ELSE Append(q, rs[i])
           step == [i \in 1..m |-> [q \in V |-> Step(i, q)]]
           Def(g) == [i \in 0..m |-> IF i = 0 THEN <<>>
                                     ELSE IF rs[i] = who THEN g[i - 1] ELSE Append(g[i - 1], rs[i])]
<1>1. m \in Nat /\ DOMAIN rs = 1..m /\ \A i \in 1..m : rs[i] \in Accounts
  BY LenProperties, ElementOfSeq
<1>2. \A i \in 1..m : \A q \in V : Step(i, q) \in V
  BY <1>1, AppendProperties
<1>3. step \in [1..m -> [V -> V]]
  BY <1>2
<1>4. <<>> \in V
  BY EmptySeq
<1>5. PICK g \in [0..m -> V] : IsLoop(g, 0, m, <<>>, step)
  <2> HIDE DEF step, V, m
  <2>1. 0 + 1 = 1 /\ 0 <= m
    BY <1>1
  <2>2. step \in [(0 + 1)..m -> [V -> V]]
    BY <1>3, <2>1
  <2> QED BY <1>1, <1>4, <2>1, <2>2, LoopExists
<1>6. \A i \in 1..m : step[i][g[i - 1]] = Step(i, g[i - 1])
  <2> SUFFICES ASSUME NEW i \in 1..m PROVE step[i][g[i - 1]] = Step(i, g[i - 1])
    OBVIOUS
  <2>1. i - 1 \in 0..m
    BY <1>1
  <2>2. g[i - 1] \in V
    BY <1>5, <2>1
  <2> HIDE DEF V
  <2> QED BY <2>2
<1>7. g = Def(g)
  <2>1. g = [i \in 0..m |-> IF i = 0 THEN <<>> ELSE step[i][g[i - 1]]]
    BY <1>5 DEF IsLoop
  <2> HIDE DEF step
  <2>2. ASSUME NEW i \in 0..m
        PROVE  g[i] = IF i = 0 THEN <<>> ELSE IF rs[i] = who THEN g[i - 1] ELSE Append(g[i - 1], rs[i])
    <3>1. i # 0 => i \in 1..m
      BY <1>1
    <3>2. g[i] = IF i = 0 THEN <<>> ELSE step[i][g[i - 1]]
      BY <2>1, Zenon
    <3> QED BY <1>6, <3>1, <3>2
  <2> QED BY <1>5, <2>2
<1> DEFINE kept == CHOOSE F : F = Def(F)
<1>8. kept = Def(kept)
  BY <1>7, Zenon
<1>9. Retain(rs, who) = kept[m]
  BY DEF Retain
<1> HIDE DEF kept, m
<1> DEFINE Holds(i) == /\ kept[i] \in Seq(Accounts)
                       /\ \A j \in 1..i : rs[j] # who => \E k \in 1..Len(kept[i]) : kept[i][k] = rs[j]
           S == {i \in 0..m : Holds(i)}
<1>10. 0 \in S
  <2>1. kept[0] = <<>> /\ 0 \in 0..m /\ 1..0 = {}
    BY <1>1, <1>8
  <2> QED BY <1>4, <2>1
<1>11. ASSUME NEW i \in 0..m, i \in S, i < m PROVE i + 1 \in S
  <2>1. i \in Nat /\ i + 1 \in 1..m /\ i + 1 \in 0..m /\ (i + 1) - 1 = i /\ i + 1 # 0
    BY <1>1, <1>11
  <2>2. kept[i + 1] = IF rs[i + 1] = who THEN kept[i] ELSE Append(kept[i], rs[i + 1])
    BY <1>8, <2>1
  <2>3. Holds(i)
    BY <1>11
  <2>4. 1..(i + 1) = 1..i \cup {i + 1}
    BY <2>1
  <2>5. rs[i + 1] \in Accounts
    BY <1>1, <2>1
  <2>6. CASE rs[i + 1] = who
    BY <2>1, <2>2, <2>3, <2>4, <2>6
  <2>7. CASE rs[i + 1] # who
    <3> DEFINE q == kept[i]
               p == kept[i + 1]
    <3>1. p = Append(q, rs[i + 1]) /\ q \in Seq(Accounts)
      BY <2>2, <2>3, <2>7
    <3> HIDE DEF p, q
    <3>2. /\ p \in Seq(Accounts) /\ Len(p) = Len(q) + 1 /\ Len(q) \in Nat
          /\ \A k \in 1..Len(q) : p[k] = q[k]
          /\ p[Len(q) + 1] = rs[i + 1]
      BY <2>5, <3>1, AppendProperties, LenProperties
    <3>3. ASSUME NEW j \in 1..(i + 1), rs[j] # who
          PROVE  \E k \in 1..Len(p) : p[k] = rs[j]
      <4>1. CASE j = i + 1
        <5>1. Len(q) + 1 \in 1..Len(p)
          BY <3>2
        <5> QED BY <3>2, <4>1, <5>1
      <4>2. CASE j \in 1..i
        <5>1. PICK k \in 1..Len(q) : q[k] = rs[j]
          BY <2>3, <3>3, <4>2 DEF q
        <5>2. k \in 1..Len(p) /\ p[k] = rs[j]
          BY <3>2, <5>1
        <5> QED BY <5>2
      <4> QED BY <2>4, <4>1, <4>2
    <3> QED BY <2>1, <3>2, <3>3 DEF p
  <2> QED BY <2>6, <2>7
<1>12. m \in S
  <2> HIDE DEF S
  <2>1. 0 <= m /\ m \in 0..m
    BY <1>1
  <2> QED BY <1>1, <1>10, <1>11, <2>1, SetOfInterval
<1>13. Holds(m)
  BY <1>12
<1>14. ASSUME NEW other \in Range(rs), other # who PROVE other \in Range(kept[m])
  <2>1. PICK j \in 1..m : rs[j] = other
    BY <1>1, <1>14 DEF Range
  <2>2. PICK k \in 1..Len(kept[m]) : kept[m][k] = other
    BY <1>13, <1>14, <2>1
  <2>3. DOMAIN kept[m] = 1..Len(kept[m])
    BY <1>13, LenProperties
  <2> QED BY <2>2, <2>3 DEF Range
<1> QED BY <1>9, <1>13, <1>14

-----------------------------------------------------------------------------
(* The orders. *)

\* Messages up to received are confirmed, in the block that goes on; the others wait,
\* each with its order.  (An order is a record: its confirm_time can be set.)
OrdersInv ==
    /\ generated \in Nat /\ received \in Nat /\ received <= generated
    /\ block \in Nat
    /\ DOMAIN orders \subseteq 1..generated
    /\ \A n \in DOMAIN orders : "confirm_time" \in DOMAIN orders[n]
    /\ EveryPendingMessageHasOrder

\* Steps that touch neither orders nor messages.
LEMMA SameOrders ==
    ASSUME OrdersInv, UNCHANGED <<orders, block, generated, received>>
    PROVE  OrdersInv'
BY DEF OrdersInv, EveryPendingMessageHasOrder, Confirmed

LEMMA SendKeepsOrders ==
    ASSUME OrdersInv, NEW overpayment, SendMessage(overpayment)
    PROVE  OrdersInv'
<1> DEFINE new == generated + 1
<1>1. /\ generated' = new /\ received' = received /\ block' = block
      /\ orders' = [n \in DOMAIN orders \cup {new} |->
                      IF n \in DOMAIN orders THEN orders[n] ELSE NewOrder(assigned)]
  BY DEF SendMessage, registry
<1>2. generated \in Nat /\ received \in Nat /\ received <= generated /\ block \in Nat
  BY DEF OrdersInv
<1>3. new \notin DOMAIN orders /\ DOMAIN orders' \subseteq 1..generated'
  BY <1>1, <1>2 DEF OrdersInv
<1>4. \A n \in DOMAIN orders : orders'[n] = orders[n]
  BY <1>1
<1>5. /\ orders'[new] = NewOrder(assigned)
      /\ DOMAIN orders' = DOMAIN orders \cup {new}
  BY <1>1, <1>3
<1>6. /\ "confirm_time" \in DOMAIN NewOrder(assigned)
      /\ ~Confirmed(NewOrder(assigned))
  BY DEF NewOrder, Confirmed
<1>7. \A n \in DOMAIN orders' : "confirm_time" \in DOMAIN orders'[n]
  BY <1>4, <1>5, <1>6 DEF OrdersInv
<1>8. EveryPendingMessageHasOrder'
  <2>1. ASSUME NEW n \in (received + 1)..new
        PROVE  n \in DOMAIN orders' /\ ~Confirmed(orders'[n])
    <3>1. CASE n = new
      BY <1>5, <1>6, <3>1
    <3>2. CASE n # new
      <4>1. n \in (received + 1)..generated
        BY <1>2, <2>1, <3>2
      <4>2. n \in DOMAIN orders /\ ~Confirmed(orders[n])
        BY <4>1 DEF OrdersInv, EveryPendingMessageHasOrder
      <4> QED BY <1>4, <1>5, <4>2
    <3> QED BY <3>1, <3>2
  <2>2. ASSUME NEW n \in DOMAIN orders', n <= received
        PROVE  orders'[n].confirm_time = block
    <3>1. n # new
      BY <1>2, <2>2
    <3>2. n \in DOMAIN orders
      BY <1>5, <3>1
    <3> QED BY <1>4, <2>2, <3>2 DEF OrdersInv, EveryPendingMessageHasOrder
  <2> QED BY <1>1, <2>1, <2>2 DEF EveryPendingMessageHasOrder, Confirmed
<1> QED BY <1>1, <1>2, <1>3, <1>7, <1>8, SMTT(40) DEF OrdersInv

LEMMA ConfirmationKeepsOrders ==
    ASSUME OrdersInv, NEW upto \in (received + 1)..generated, NEW deliverer, NEW confirmer,
           ReceiveDeliveryProof(upto, deliverer, confirmer)
    PROVE  OrdersInv'
<1> DEFINE confirmed == (received + 1)..upto
<1>1. /\ orders' = OnMessagesDelivered(confirmed) /\ received' = upto
      /\ block' = block /\ generated' = generated
  BY DEF ReceiveDeliveryProof
<1>2. generated \in Nat /\ received \in Nat /\ received <= generated /\ block \in Nat
  BY DEF OrdersInv
<1>3. DOMAIN orders' = DOMAIN orders
  BY <1>1 DEF OnMessagesDelivered
<1>4. ASSUME NEW n \in DOMAIN orders, n \in confirmed
      PROVE  orders'[n] = [orders[n] EXCEPT !.confirm_time = block]
  <2>1. n \in (received + 1)..generated
    BY <1>2, <1>4
  <2>2. ~Confirmed(orders[n])
    BY <2>1 DEF OrdersInv, EveryPendingMessageHasOrder
  <2> QED BY <1>1, <1>4, <2>2 DEF OnMessagesDelivered
<1>5. ASSUME NEW n \in DOMAIN orders, n \notin confirmed
      PROVE  orders'[n] = orders[n]
  BY <1>1, <1>5 DEF OnMessagesDelivered
<1>6. ASSUME NEW n \in DOMAIN orders
      PROVE  /\ "confirm_time" \in DOMAIN orders'[n]
             /\ n \in confirmed => orders'[n].confirm_time = block
  <2>1. "confirm_time" \in DOMAIN orders[n]
    BY DEF OrdersInv
  <2> QED BY <2>1, <1>4, <1>5
<1>7. EveryPendingMessageHasOrder'
  <2>1. ASSUME NEW n \in (upto + 1)..generated
        PROVE  n \in DOMAIN orders' /\ ~Confirmed(orders'[n])
    <3>1. n \in (received + 1)..generated /\ n \notin confirmed
      BY <1>2, <2>1
    <3>2. n \in DOMAIN orders /\ ~Confirmed(orders[n])
      BY <3>1 DEF OrdersInv, EveryPendingMessageHasOrder
    <3> QED BY <1>3, <1>5, <3>1, <3>2
  <2>2. ASSUME NEW n \in DOMAIN orders, n <= upto
        PROVE  orders'[n].confirm_time = block
    <3>1. CASE n \in confirmed
      BY <1>6, <3>1
    <3>2. CASE n \notin confirmed
      <4>1. n \in Nat
        BY <1>2, <2>2 DEF OrdersInv
      <4>2. n <= received
        BY <1>2, <2>2, <3>2, <4>1
      <4> QED BY <1>5, <2>2, <3>2, <4>2 DEF OrdersInv, EveryPendingMessageHasOrder
    <3> QED BY <3>1, <3>2
  <2> QED BY <1>1, <1>3, <2>1, <2>2 DEF EveryPendingMessageHasOrder, Confirmed
<1> QED BY <1>1, <1>2, <1>3, <1>6, <1>7 DEF OrdersInv

\* The end of the block removes the orders that were confirmed in it, and no other.
LEMMA FinalizeKeepsOrders ==
    ASSUME OrdersInv, OnFinalize
    PROVE  OrdersInv'
<1> DEFINE keep == {n \in DOMAIN orders : ~Confirmed(orders[n])}
<1>1. /\ block' = block + 1 /\ orders' = [n \in keep |-> orders[n]]
      /\ received' = received /\ generated' = generated
  BY DEF OnFinalize, lane
<1>2. generated \in Nat /\ received \in Nat /\ received <= generated /\ block \in Nat
  BY DEF OrdersInv
<1>3. DOMAIN orders' = keep /\ \A n \in keep : orders'[n] = orders[n]
  BY <1>1
<1>4. ASSUME NEW n \in keep, n <= received
      PROVE  FALSE
  <2>1. orders[n].confirm_time = block
    BY <1>4 DEF OrdersInv, EveryPendingMessageHasOrder
  <2> QED BY <1>2, <1>4, <2>1 DEF Confirmed, NotConfirmed
<1>5. EveryPendingMessageHasOrder'
  <2>1. ASSUME NEW n \in (received + 1)..generated
        PROVE  n \in DOMAIN orders' /\ ~Confirmed(orders'[n])
    <3>1. n \in keep
      BY <2>1 DEF OrdersInv, EveryPendingMessageHasOrder
    <3> QED BY <1>3, <3>1
  <2> QED BY <1>1, <1>3, <1>4, <2>1 DEF EveryPendingMessageHasOrder, Confirmed
<1>6. \A n \in keep : "confirm_time" \in DOMAIN orders'[n]
  BY <1>3 DEF OrdersInv
<1> QED BY <1>1, <1>2, <1>3, <1>5, <1>6 DEF OrdersInv

LEMMA InitOrdersInv == Init => OrdersInv
BY DEF Init, OrdersInv, EveryPendingMessageHasOrder

LEMMA NextOrdersInv == OrdersInv /\ [Next]_marketVars => OrdersInv'
<1> SUFFICES ASSUME OrdersInv, [Next]_marketVars
             PROVE  OrdersInv'
  OBVIOUS
<1>1. CASE RelayerCall
  <2>1. UNCHANGED <<orders, block, generated, received>>
    BY <1>1 DEF RelayerCall, Enroll, IncreaseLockedCollateral, DecreaseLockedCollateral,
                SetCollateral, UpdateRelayFee, CancelEnrollment, Spend, LockElsewhere, lane
  <2> QED BY <2>1, SameOrders
<1>2. CASE RootCall
  <2>1. UNCHANGED <<orders, block, generated, received>>
    BY <1>2 DEF RootCall, SetSlashProtect, SetAssignedRelayersNumber, lane
  <2> QED BY <2>1, SameOrders
<1>3. CASE \E overpayment \in Overpayments : SendMessage(overpayment)
  BY <1>3, SendKeepsOrders
<1>4. CASE \E upto \in (received + 1)..generated :
             \E deliverer \in [(received + 1)..upto -> Carriers], confirmer \in Carriers :
               ReceiveDeliveryProof(upto, deliverer, confirmer)
  BY <1>4, ConfirmationKeepsOrders
<1>5. CASE OnFinalize
  BY <1>5, FinalizeKeepsOrders
<1>6. CASE UNCHANGED marketVars
  BY <1>6, SameOrders DEF marketVars
<1> QED BY <1>1, <1>2, <1>3, <1>4, <1>5, <1>6 DEF Next, LaneCall

-----------------------------------------------------------------------------
(* The invariant of the market. *)

AssignedRelayer == [id : Accounts, fee : Nat, valid_range : [start : Nat, end : Nat]]
Order == [sent_time : Nat, confirm_time : Int,
          collateral_per_assigned_relayer : {CollateralPerOrder},
          assigned_relayers : Seq(AssignedRelayer)]

\* Some relayer is responsible, the last one is the most expensive, and the slots
\* follow one another from the block of the message on.
IsOrder(order) ==
    /\ order \in Order
    /\ Len(order.assigned_relayers) > 0
    /\ \A i \in 1..Len(order.assigned_relayers) :
         /\ order.assigned_relayers[i].fee <= OrderFee(order)
         /\ order.assigned_relayers[i].valid_range.start = order.sent_time + (i - 1) * Slot
         /\ order.assigned_relayers[i].valid_range.end = order.sent_time + i * Slot

WellFormed(os) == \A n \in DOMAIN os : IsOrder(os[n])

MarketTypeOK ==
    /\ relayers \in Seq(Accounts)
    /\ collateral \in [Accounts -> Nat] /\ fee \in [Accounts -> Nat] /\ free \in [Accounts -> Nat]
    /\ fund \in Nat /\ assignedNumber \in Nat
    /\ slashProtect \in Nat \cup {NoProtect}
    /\ WellFormed(orders)
    /\ \A n \in DOMAIN orders : orders[n].sent_time <= block

\* AssignedRelayers is what update_market would set it to.
MarketIsFresh == assigned = Market(relayers, collateral, fee, orders, assignedNumber)

MarketInv ==
    /\ MarketTypeOK
    /\ OrdersInv
    /\ MarketIsFresh
    /\ CollateralCoversOrders
    /\ FundSolvent

\* What other pallets lock.
LocksTyped == otherLocks \in [Accounts -> Nat]

LEMMA InitLocks == Init => LocksTyped
BY DEF Init, LocksTyped

LEMMA NextLocks == LocksTyped /\ [Next]_marketVars => LocksTyped'
<1> SUFFICES ASSUME LocksTyped, [Next]_marketVars PROVE LocksTyped'
  OBVIOUS
<1>1. ASSUME NEW who \in Accounts, NEW amount \in OtherLocks[who], LockElsewhere(who, amount)
      PROVE  LocksTyped'
  <2>1. amount \in Nat
    BY MarketAssumption
  <2> QED BY <1>1, <2>1 DEF LockElsewhere, LocksTyped
<1>2. CASE otherLocks' = otherLocks
  BY <1>2 DEF LocksTyped
<1>3. CASE \/ RootCall \/ LaneCall \/ OnFinalize \/ UNCHANGED marketVars
  BY <1>2, <1>3 DEF RootCall, SetSlashProtect, SetAssignedRelayersNumber, LaneCall, SendMessage,
                    ReceiveDeliveryProof, OnFinalize, marketVars
<1>4. CASE RelayerCall
  BY <1>1, <1>2, <1>4 DEF RelayerCall, Enroll, IncreaseLockedCollateral,
       DecreaseLockedCollateral, SetCollateral, UpdateRelayFee, CancelEnrollment, Spend
<1> QED BY <1>3, <1>4 DEF Next

\* Sums over orders are numbers.
LEMMA OrderSums ==
    ASSUME NEW os, WellFormed(os), IsFiniteSet(DOMAIN os), NEW D \in SUBSET (DOMAIN os)
    PROVE  /\ IsFiniteSet(D)
           /\ \A n \in D : /\ LockedPerOrder(os)[n] = CollateralPerOrder
                          /\ LockedPerOrder(os)[n] \in Nat
                          /\ OrderFees(os)[n] = OrderFee(os[n]) /\ OrderFees(os)[n] \in Nat
           /\ SumFunctionOnSet(LockedPerOrder(os), D) \in Nat
           /\ SumFunctionOnSet(OrderFees(os), D) \in Nat
<1>1. IsFiniteSet(D)
  BY FS_Subset
<1>2. ASSUME NEW n \in D
      PROVE  /\ LockedPerOrder(os)[n] = CollateralPerOrder /\ LockedPerOrder(os)[n] \in Nat
             /\ OrderFees(os)[n] = OrderFee(os[n]) /\ OrderFees(os)[n] \in Nat
  <2>1. IsOrder(os[n])
    BY DEF WellFormed
  <2>2. os[n].collateral_per_assigned_relayer = CollateralPerOrder
    BY <2>1 DEF IsOrder, Order
  <2>3. os[n].assigned_relayers \in Seq(AssignedRelayer) /\ Len(os[n].assigned_relayers) > 0
    BY <2>1 DEF IsOrder, Order
  <2>4. os[n].assigned_relayers[Len(os[n].assigned_relayers)] \in AssignedRelayer
    <3>1. Len(os[n].assigned_relayers) \in 1..Len(os[n].assigned_relayers)
      BY <2>3, LenProperties
    <3> QED BY <2>3, <3>1, ElementOfSeq
  <2>5. OrderFee(os[n]) \in Nat
    BY <2>4 DEF OrderFee, AssignedRelayer
  <2>6. CollateralPerOrder \in Nat
    BY MarketAssumption
  <2> QED BY <2>2, <2>5, <2>6 DEF LockedPerOrder, OrderFees
<1>3. SumFunctionOnSet(LockedPerOrder(os), D) \in Nat
  BY <1>1, <1>2, SumNat
<1>4. SumFunctionOnSet(OrderFees(os), D) \in Nat
  BY <1>1, <1>2, SumNat
<1> QED BY <1>1, <1>2, <1>3, <1>4

LEMMA OrdersAreFinite ==
    ASSUME OrdersInv
    PROVE  IsFiniteSet(DOMAIN orders)
<1>1. DOMAIN orders \subseteq 1..generated /\ generated \in Nat
  BY DEF OrdersInv
<1>2. IsFiniteSet(1..generated)
  BY <1>1, FS_Interval
<1> QED BY <1>1, <1>2, FS_Subset

LEMMA LockedType ==
    ASSUME MarketTypeOK, OrdersInv, NEW who
    PROVE  /\ OrdersLocked(orders, who) \in Nat
           /\ OpenOrdersOf(orders, who) \subseteq DOMAIN orders
           /\ ~Occupied(orders, who) => OrdersLocked(orders, who) = 0
<1>1. IsFiniteSet(DOMAIN orders) /\ WellFormed(orders)
  BY OrdersAreFinite DEF MarketTypeOK
<1>2. OpenOrdersOf(orders, who) \subseteq DOMAIN orders
  BY DEF OpenOrdersOf, OpenOrders
<1>3. SumFunctionOnSet(LockedPerOrder(orders), OpenOrdersOf(orders, who)) \in Nat
  BY <1>1, <1>2, OrderSums
<1>4. ~Occupied(orders, who) => OrdersLocked(orders, who) = 0
  BY SumEmpty DEF Occupied, OrdersLocked
<1> QED BY <1>2, <1>3, <1>4 DEF OrdersLocked

\* usable_order_capacity is positive if the collateral covers one more order.
LEMMA AbleIs ==
    ASSUME MarketTypeOK, OrdersInv, NEW who
    PROVE  who \in AbleIn(relayers, collateral, orders) <=> Able(who)
<1>1. CASE who \in Range(relayers)
  <2> DEFINE c == collateral[who]
             l == OrdersLocked(orders, who)
             d == CollateralPerOrder
  <2>1. c \in Nat /\ l \in Nat /\ d \in Nat /\ d # 0
    BY <1>1, RangeOfRelayers, LockedType, MarketAssumption DEF MarketTypeOK
  <2>2. UsableCapacity(orders, collateral, who) = (IF c > l THEN c - l ELSE 0) \div d
    BY DEF UsableCapacity, OrderCapacity, SaturatingSub, LockedCollateral
  <2>3. Able(who) <=> c - l >= d
    BY <1>1 DEF Able
  <2> HIDE DEF c, l, d
  <2>4. (IF c > l THEN c - l ELSE 0) \in Nat
    BY <2>1
  <2>5. ASSUME NEW a \in Nat PROVE a \div d >= 1 <=> a >= d
    BY <2>1
  <2>6. UsableCapacity(orders, collateral, who) >= 1 <=> c - l >= d
    BY <2>1, <2>2, <2>4, <2>5
  <2> QED BY <1>1, <2>3, <2>6 DEF AbleIn
<1>2. CASE who \notin Range(relayers)
  BY <1>2 DEF AbleIn, Able
<1> QED BY <1>1, <1>2

LEMMA FreshIsBest ==
    ASSUME MarketTypeOK, OrdersInv, MarketIsFresh
    PROVE  AssignedAreBest
<1> DEFINE able == AbleIn(relayers, collateral, orders)
           chosen == {assigned[i].id : i \in 1..Len(assigned)}
<1>1. IsBest(assigned, able, fee, assignedNumber)
  BY MarketFacts DEF MarketTypeOK, MarketIsFresh
<1>2. able = {who \in Accounts : Able(who)}
  <2>1. able \subseteq Accounts
    BY RangeOfRelayers DEF AbleIn, MarketTypeOK
  <2> HIDE DEF able
  <2>2. \A who : who \in able <=> Able(who)
    BY AbleIs DEF able
  <2> QED BY <2>1, <2>2
<1>3. Len(assigned) \in Nat /\ IsFiniteSet(1..Len(assigned))
      /\ Cardinality(1..Len(assigned)) = Len(assigned)
  <2>1. Len(assigned) \in Nat
    BY <1>1, LenProperties DEF IsBest
  <2> DEFINE m == Len(assigned)
  <2> HIDE DEF m
  <2>2. m \in Nat
    BY <2>1 DEF m
  <2>3. IsFiniteSet(1..m) /\ Cardinality(1..m) = m - 1 + 1
    BY <2>2, FS_Interval, SMTT(40)
  <2> QED BY <2>1, <2>2, <2>3 DEF m
<1>4. Cardinality(chosen) = Len(assigned)
  <2> DEFINE f == [i \in 1..Len(assigned) |-> assigned[i].id]
  <2>1. f \in Bijection(1..Len(assigned), chosen)
    BY <1>1 DEF Bijection, Injection, IsInjective, Surjection, IsBest
  <2>2. ExistsBijection(1..Len(assigned), chosen)
    BY <2>1 DEF ExistsBijection
  <2> HIDE DEF chosen
  <2> QED BY <1>3, <2>2, FS_Bijection
<1>5. ASSUME NEW i \in 1..Len(assigned)
      PROVE  /\ Able(assigned[i].id)
             /\ assigned[i].fee = fee[assigned[i].id]
             /\ \A other \in Accounts \ chosen : Able(other) => fee[other] >= assigned[i].fee
  <2>1. assigned[i].id \in able /\ assigned[i].fee = fee[assigned[i].id]
    BY <1>1 DEF IsBest
  <2>2. ASSUME NEW other \in Accounts \ chosen, Able(other)
        PROVE  fee[other] >= assigned[i].fee
    <3>1. other \in able /\ \A j \in 1..Len(assigned) : assigned[j].id # other
      BY <1>2, <2>2
    <3>2. assigned[i].fee <= fee[other]
      BY <1>1, <3>1 DEF IsBest
    <3>3. fee[other] \in Nat /\ assigned[i].fee \in Nat
      BY <1>2, <2>1, <2>2 DEF MarketTypeOK
    <3> QED BY <3>2, <3>3
  <2> QED BY <1>2, <2>1, <2>2
<1>6. Len(assigned) = (IF Cardinality({who \in Accounts : Able(who)}) >= assignedNumber
                       THEN assignedNumber ELSE 0)
  BY <1>1, <1>2 DEF IsBest
<1> QED BY <1>4, <1>5, <1>6 DEF AssignedAreBest

-----------------------------------------------------------------------------
(* Calls of relayers and of root. *)

Covered(rs, coll, balance) ==
    \A who \in Accounts : /\ Occupied(orders, who) => who \in Range(rs)
                          /\ OrdersLocked(orders, who) <= coll[who]
                          /\ coll[who] <= balance[who]

LEMMA CoveredIs == CollateralCoversOrders <=> Covered(relayers, collateral, free)
BY DEF CollateralCoversOrders, Covered

\* A step that leaves the orders and the fund alone.
LEMMA RegistryStep ==
    ASSUME MarketInv, UNCHANGED <<orders, fund, block, generated, received, unpaid>>,
           relayers' \in Seq(Accounts), collateral' \in [Accounts -> Nat],
           fee' \in [Accounts -> Nat], free' \in [Accounts -> Nat], assignedNumber' \in Nat,
           slashProtect' \in Nat \cup {NoProtect},
           MarketIsFresh', Covered(relayers', collateral', free')
    PROVE  MarketInv'
<1>1. orders' = orders /\ block' = block /\ fund' = fund /\ unpaid' = unpaid
  OBVIOUS
<1>2. MarketTypeOK'
  BY <1>1 DEF MarketInv, MarketTypeOK
<1>3. OrdersInv'
  BY SameOrders DEF MarketInv
<1>4. CollateralCoversOrders'
  BY <1>1 DEF Covered, CollateralCoversOrders
<1>5. FundSolvent'
  BY <1>1 DEF MarketInv, FundSolvent
<1> QED BY <1>2, <1>3, <1>4, <1>5 DEF MarketInv

LEMMA InvTypes ==
    ASSUME MarketInv
    PROVE  /\ MarketTypeOK /\ OrdersInv /\ Covered(relayers, collateral, free)
           /\ relayers \in Seq(Accounts) /\ assignedNumber \in Nat
           /\ collateral \in [Accounts -> Nat] /\ fee \in [Accounts -> Nat]
           /\ free \in [Accounts -> Nat]
           /\ slashProtect \in Nat \cup {NoProtect}
BY CoveredIs DEF MarketInv, MarketTypeOK

LEMMA EnrollKeepsMarket ==
    ASSUME MarketInv, NEW who \in Accounts, NEW c \in Collaterals[who], NEW f \in Fees[who],
           Enroll(who, c, f)
    PROVE  MarketInv'
<1>1. /\ who \notin Range(relayers) /\ free[who] >= c
      /\ relayers' = Append(relayers, who)
      /\ collateral' = [collateral EXCEPT ![who] = c] /\ fee' = [fee EXCEPT ![who] = f]
      /\ UNCHANGED <<orders, fund, block, generated, received, unpaid>>
      /\ free' = free /\ assignedNumber' = assignedNumber /\ slashProtect' = slashProtect
      /\ MarketIsFresh'
  BY DEF Enroll, IsEnrolled, UpdateMarket, MarketIsFresh, lane
<1>2. c \in Nat /\ f \in Nat
  BY MarketAssumption
<1>3. /\ relayers' \in Seq(Accounts) /\ Len(relayers') = Len(relayers) + 1
      /\ \A i \in 1..Len(relayers) : relayers'[i] = relayers[i]
  BY <1>1, InvTypes, AppendProperties
<1>4. Range(relayers) \subseteq Range(relayers')
  <2>1. /\ DOMAIN relayers = 1..Len(relayers) /\ DOMAIN relayers' = 1..Len(relayers')
        /\ Len(relayers) \in Nat
    BY <1>3, InvTypes, LenProperties
  <2>2. \A i \in DOMAIN relayers : i \in DOMAIN relayers' /\ relayers'[i] = relayers[i]
    BY <1>3, <2>1
  <2> QED BY <2>2 DEF Range
<1>5. Covered(relayers', collateral', free')
  <2> SUFFICES ASSUME NEW w \in Accounts
               PROVE  /\ Occupied(orders, w) => w \in Range(relayers')
                      /\ OrdersLocked(orders, w) <= collateral'[w]
                      /\ collateral'[w] <= free'[w]
    BY DEF Covered
  <2>1. /\ Occupied(orders, w) => w \in Range(relayers)
        /\ OrdersLocked(orders, w) <= collateral[w] /\ collateral[w] <= free[w]
    BY InvTypes DEF Covered
  <2>2. CASE w = who
    <3>1. OrdersLocked(orders, w) = 0
      BY <1>1, <2>1, <2>2, InvTypes, LockedType
    <3>2. collateral'[w] = c /\ free'[w] = free[w] /\ free[w] \in Nat
      BY <1>1, <2>2, InvTypes
    <3> QED BY <1>1, <1>2, <1>4, <2>1, <2>2, <3>1, <3>2
  <2>3. CASE w # who
    BY <1>1, <1>4, <2>1, <2>3, InvTypes
  <2> QED BY <2>2, <2>3
<1>6. /\ collateral' \in [Accounts -> Nat] /\ fee' \in [Accounts -> Nat]
      /\ free' \in [Accounts -> Nat] /\ assignedNumber' \in Nat
      /\ slashProtect' \in Nat \cup {NoProtect}
  BY <1>1, <1>2, InvTypes
<1> QED BY <1>1, <1>3, <1>5, <1>6, RegistryStep

\* The new collateral covers the orders of who.
LEMMA CollateralKeepsMarket ==
    ASSUME MarketInv, NEW who \in Accounts, NEW c \in Collaterals[who],
           SetCollateral(who, c), OrdersLocked(orders, who) <= c
    PROVE  MarketInv'
<1>1. /\ free[who] >= c
      /\ collateral' = [collateral EXCEPT ![who] = c] /\ relayers' = relayers /\ fee' = fee
      /\ UNCHANGED <<orders, fund, block, generated, received, unpaid>>
      /\ free' = free /\ assignedNumber' = assignedNumber /\ slashProtect' = slashProtect
      /\ MarketIsFresh'
  BY DEF SetCollateral, UpdateMarket, MarketIsFresh, lane
<1>2. c \in Nat
  BY MarketAssumption
<1>3. Covered(relayers', collateral', free')
  <2> SUFFICES ASSUME NEW w \in Accounts
               PROVE  /\ Occupied(orders, w) => w \in Range(relayers')
                      /\ OrdersLocked(orders, w) <= collateral'[w]
                      /\ collateral'[w] <= free'[w]
    BY DEF Covered
  <2>1. /\ Occupied(orders, w) => w \in Range(relayers)
        /\ OrdersLocked(orders, w) <= collateral[w] /\ collateral[w] <= free[w]
        /\ free[who] \in Nat
    BY InvTypes DEF Covered
  <2>2. collateral'[w] = IF w = who THEN c ELSE collateral[w]
    BY <1>1, InvTypes
  <2> QED BY <1>1, <1>2, <2>1, <2>2
<1>4. /\ collateral' \in [Accounts -> Nat] /\ fee' \in [Accounts -> Nat]
      /\ free' \in [Accounts -> Nat] /\ assignedNumber' \in Nat
      /\ slashProtect' \in Nat \cup {NoProtect} /\ relayers' \in Seq(Accounts)
  BY <1>1, <1>2, InvTypes
<1> QED BY <1>1, <1>3, <1>4, RegistryStep

LEMMA CancelKeepsMarket ==
    ASSUME MarketInv, NEW who \in Accounts, CancelEnrollment(who)
    PROVE  MarketInv'
<1>1. /\ ~Occupied(orders, who)
      /\ relayers' = Retain(relayers, who)
      /\ collateral' = [collateral EXCEPT ![who] = 0] /\ fee' = [fee EXCEPT ![who] = 0]
      /\ UNCHANGED <<orders, fund, block, generated, received, unpaid>>
      /\ free' = free /\ assignedNumber' = assignedNumber /\ slashProtect' = slashProtect
      /\ MarketIsFresh'
  BY DEF CancelEnrollment, UpdateMarket, MarketIsFresh, lane
<1>2. /\ relayers' \in Seq(Accounts)
      /\ \A other \in Range(relayers) : other # who => other \in Range(relayers')
  BY <1>1, InvTypes, RetainFacts
<1>3. Covered(relayers', collateral', free')
  <2> SUFFICES ASSUME NEW w \in Accounts
               PROVE  /\ Occupied(orders, w) => w \in Range(relayers')
                      /\ OrdersLocked(orders, w) <= collateral'[w]
                      /\ collateral'[w] <= free'[w]
    BY DEF Covered
  <2>1. /\ Occupied(orders, w) => w \in Range(relayers)
        /\ OrdersLocked(orders, w) <= collateral[w] /\ collateral[w] <= free[w]
        /\ free[w] \in Nat
    BY InvTypes DEF Covered
  <2>2. collateral'[w] = IF w = who THEN 0 ELSE collateral[w]
    BY <1>1, InvTypes
  <2>3. w = who => OrdersLocked(orders, w) = 0
    BY <1>1, InvTypes, LockedType
  <2> QED BY <1>1, <1>2, <2>1, <2>2, <2>3
<1>4. /\ collateral' \in [Accounts -> Nat] /\ fee' \in [Accounts -> Nat]
      /\ free' \in [Accounts -> Nat] /\ assignedNumber' \in Nat
      /\ slashProtect' \in Nat \cup {NoProtect}
  BY <1>1, InvTypes
<1> QED BY <1>1, <1>2, <1>3, <1>4, RegistryStep

LEMMA RelayerCallKeepsMarket ==
    ASSUME MarketInv, LocksTyped, RelayerCall
    PROVE  MarketInv'
<1>1. PICK who \in Accounts :
        \/ \E c \in Collaterals[who], f \in Fees[who] : Enroll(who, c, f)
        \/ \E c \in Collaterals[who] : IncreaseLockedCollateral(who, c)
        \/ \E c \in Collaterals[who] : DecreaseLockedCollateral(who, c)
        \/ \E f \in Fees[who] : UpdateRelayFee(who, f)
        \/ CancelEnrollment(who)
        \/ Spend(who)
        \/ \E amount \in OtherLocks[who] : LockElsewhere(who, amount)
  BY DEF RelayerCall
<1>2. /\ OrdersLocked(orders, who) <= collateral[who] /\ collateral[who] <= free[who]
      /\ OrdersLocked(orders, who) \in Nat /\ collateral[who] \in Nat
      /\ ~Occupied(orders, who) => OrdersLocked(orders, who) = 0
  BY InvTypes, LockedType DEF Covered
<1>3. CASE \E c \in Collaterals[who], f \in Fees[who] : Enroll(who, c, f)
  BY <1>3, EnrollKeepsMarket
<1>4. ASSUME NEW c \in Collaterals[who], IncreaseLockedCollateral(who, c) PROVE MarketInv'
  <2>1. c > collateral[who] /\ SetCollateral(who, c) /\ c \in Nat
    BY <1>4, MarketAssumption DEF IncreaseLockedCollateral
  <2>2. OrdersLocked(orders, who) <= c
    BY <1>2, <2>1
  <2> QED BY <2>1, <2>2, CollateralKeepsMarket
<1>5. ASSUME NEW c \in Collaterals[who], DecreaseLockedCollateral(who, c) PROVE MarketInv'
  <2>1. /\ Occupied(orders, who) => c >= OrdersLocked(orders, who)
        /\ SetCollateral(who, c) /\ c \in Nat
    BY <1>5, MarketAssumption DEF DecreaseLockedCollateral
  <2>2. OrdersLocked(orders, who) <= c
    BY <1>2, <2>1
  <2> QED BY <2>1, <2>2, CollateralKeepsMarket
<1>6. ASSUME NEW f \in Fees[who], UpdateRelayFee(who, f) PROVE MarketInv'
  <2>1. /\ fee' = [fee EXCEPT ![who] = f] /\ MarketIsFresh'
        /\ UNCHANGED <<orders, fund, block, generated, received, unpaid>>
        /\ UNCHANGED <<relayers, collateral, slashProtect, assignedNumber, free>>
    BY <1>6 DEF UpdateRelayFee, UpdateMarket, MarketIsFresh, lane
  <2>2. f \in Nat
    BY MarketAssumption
  <2>3. fee' \in [Accounts -> Nat]
    BY <2>1, <2>2, InvTypes
  <2> QED BY <2>1, <2>3, InvTypes, RegistryStep
<1>7. CASE CancelEnrollment(who)
  BY <1>7, CancelKeepsMarket
<1>8. CASE Spend(who)
  <2> DEFINE rest == AtLeast(collateral[who], otherLocks[who])
  <2>0. rest \in Nat /\ collateral[who] <= rest
    BY <1>2 DEF AtLeast, LocksTyped
  <2> HIDE DEF rest
  <2>1. /\ free' = [free EXCEPT ![who] = rest] /\ assigned' = assigned
        /\ UNCHANGED <<orders, fund, block, generated, received, unpaid>>
        /\ UNCHANGED <<relayers, collateral, fee, slashProtect, assignedNumber>>
    BY <1>8 DEF Spend, registry, lane, rest
  <2>2. free' \in [Accounts -> Nat]
    BY <2>0, <2>1, InvTypes
  <2>3. MarketIsFresh'
    BY <2>1 DEF MarketInv, MarketIsFresh
  <2>4. Covered(relayers', collateral', free')
    <3> SUFFICES ASSUME NEW w \in Accounts
                 PROVE  /\ Occupied(orders, w) => w \in Range(relayers)
                        /\ OrdersLocked(orders, w) <= collateral[w]
                        /\ collateral[w] <= free'[w]
      BY <2>1 DEF Covered
    <3>1. /\ Occupied(orders, w) => w \in Range(relayers)
          /\ OrdersLocked(orders, w) <= collateral[w] /\ collateral[w] <= free[w]
          /\ collateral[w] \in Nat
      BY InvTypes DEF Covered
    <3>2. free'[w] = IF w = who THEN rest ELSE free[w]
      BY <2>1, InvTypes
    <3> QED BY <2>0, <3>1, <3>2
  <2> QED BY <2>1, <2>2, <2>3, <2>4, InvTypes, RegistryStep
<1>9. CASE \E amount \in OtherLocks[who] : LockElsewhere(who, amount)
  <2>1. MarketIsFresh' /\ UNCHANGED <<orders, fund, block, generated, received, unpaid>>
        /\ UNCHANGED <<relayers, collateral, fee, free, assignedNumber, slashProtect>>
    BY <1>9 DEF LockElsewhere, registry, lane, MarketInv, MarketIsFresh
  <2> QED BY <2>1, InvTypes, RegistryStep
<1> QED BY <1>1, <1>3, <1>4, <1>5, <1>6, <1>7, <1>8, <1>9

LEMMA RootCallKeepsMarket ==
    ASSUME MarketInv, RootCall
    PROVE  MarketInv'
<1>1. ASSUME NEW value \in SlashProtects, SetSlashProtect(value) PROVE MarketInv'
  <2>1. /\ slashProtect' = value /\ assigned' = assigned
        /\ UNCHANGED <<orders, fund, block, generated, received, unpaid>>
        /\ UNCHANGED <<relayers, collateral, fee, free, assignedNumber>>
    BY <1>1 DEF SetSlashProtect, registry, lane
  <2>2. MarketIsFresh' /\ slashProtect' \in Nat \cup {NoProtect}
    BY <2>1, MarketAssumption DEF MarketInv, MarketIsFresh
  <2> QED BY <2>1, <2>2, InvTypes, RegistryStep
<1>2. ASSUME NEW number \in AssignedNumbers, SetAssignedRelayersNumber(number) PROVE MarketInv'
  <2>1. /\ assignedNumber' = number /\ MarketIsFresh'
        /\ UNCHANGED <<orders, fund, block, generated, received, unpaid>>
        /\ UNCHANGED <<relayers, collateral, fee, free, slashProtect>>
    BY <1>2 DEF SetAssignedRelayersNumber, UpdateMarket, MarketIsFresh, registry, lane
  <2>2. assignedNumber' \in Nat
    BY <2>1, MarketAssumption
  <2> QED BY <2>1, <2>2, InvTypes, RegistryStep
<1> QED BY <1>1, <1>2 DEF RootCall

-----------------------------------------------------------------------------
(* New messages and new blocks. *)

\* The order of a message for the relayers of an open market.
LEMMA NewOrderFacts ==
    ASSUME MarketInv, assigned # <<>>
    PROVE  /\ IsOrder(NewOrder(assigned)) /\ ~Confirmed(NewOrder(assigned))
           /\ NewOrder(assigned).sent_time = block
           /\ OrderFee(NewOrder(assigned)) = MarketFee /\ MarketFee \in Nat
           /\ \A who \in Range(OrderIds(NewOrder(assigned))) : Able(who)
<1> DEFINE l == Len(assigned)
           Entry(i) == [id |-> assigned[i].id, fee |-> assigned[i].fee,
                        valid_range |-> ValidRange(block + (i - 1) * Slot)]
           ars == [i \in 1..l |-> Entry(i)]
           order == NewOrder(assigned)
<1>1. /\ order = [sent_time |-> block, confirm_time |-> NotConfirmed,
                  collateral_per_assigned_relayer |-> CollateralPerOrder,
                  assigned_relayers |-> ars]
  BY DEF NewOrder
<1>2. IsBest(assigned, AbleIn(relayers, collateral, orders), fee, assignedNumber)
  BY InvTypes, MarketFacts DEF MarketInv, MarketIsFresh
<1>3. l \in Nat /\ l > 0 /\ assigned \in Seq(MarketEntry)
  BY <1>2, LenProperties, EmptySeq DEF IsBest
<1>4. block \in Nat /\ Slot \in Nat
  BY MarketAssumption DEF MarketInv, OrdersInv
<1>5. ASSUME NEW i \in 1..l
      PROVE  /\ (i - 1) * Slot \in Nat
             /\ block + (i - 1) * Slot \in Nat /\ block + (i - 1) * Slot + Slot = block + i * Slot
             /\ block + i * Slot \in Nat
  BY <1>3, <1>4
<1>6. ASSUME NEW i \in 1..l
      PROVE  /\ assigned[i].id \in Accounts /\ assigned[i].fee \in Nat
             /\ Able(assigned[i].id)
  <2>1. assigned[i] \in MarketEntry
    BY <1>3, ElementOfSeq
  <2>2. assigned[i].id \in AbleIn(relayers, collateral, orders)
    BY <1>2 DEF IsBest
  <2> QED BY <2>1, <2>2, InvTypes, AbleIs DEF MarketEntry
<1>7. ASSUME NEW i \in 1..l
      PROVE  /\ ars[i] \in AssignedRelayer
             /\ ars[i].id = assigned[i].id /\ ars[i].fee = assigned[i].fee
             /\ ars[i].valid_range.start = block + (i - 1) * Slot
             /\ ars[i].valid_range.end = block + i * Slot
  <2>1. ValidRange(block + (i - 1) * Slot)
          = [start |-> block + (i - 1) * Slot, end |-> block + i * Slot]
    BY <1>5 DEF ValidRange
  <2>2. ars[i] = [id |-> assigned[i].id, fee |-> assigned[i].fee,
                  valid_range |-> [start |-> block + (i - 1) * Slot, end |-> block + i * Slot]]
    BY <2>1
  <2> HIDE DEF ars
  <2> QED BY <1>5, <1>6, <2>2 DEF AssignedRelayer
<1>8. ars \in Seq(AssignedRelayer) /\ Len(ars) = l
  <2>1. ars \in [1..l -> AssignedRelayer]
    BY <1>7
  <2> HIDE DEF ars
  <2> QED BY <1>3, <2>1, IsASeq, LenProperties
<1> HIDE DEF ars, order
<1>9. /\ order \in Order /\ order.assigned_relayers = ars /\ order.sent_time = block
      /\ order.confirm_time = NotConfirmed
  <2>1. CollateralPerOrder \in Nat /\ NotConfirmed \in Int
    BY MarketAssumption DEF NotConfirmed
  <2> QED BY <1>1, <1>4, <1>8, <2>1 DEF Order
<1>10. l \in 1..l /\ OrderFee(order) = ars[l].fee /\ OrderFee(order) = MarketFee
       /\ MarketFee \in Nat
  <2>1. l \in 1..l
    BY <1>3
  <2>2. OrderFee(order) = ars[l].fee
    BY <1>8, <1>9 DEF OrderFee
  <2>3. MarketFee = assigned[l].fee
    BY DEF MarketFee
  <2> QED BY <1>6, <1>7, <2>1, <2>2, <2>3
<1>11. IsOrder(order)
  <2>1. ASSUME NEW i \in 1..l
        PROVE  /\ ars[i].fee <= OrderFee(order)
               /\ ars[i].valid_range.start = block + (i - 1) * Slot
               /\ ars[i].valid_range.end = block + i * Slot
    <3>1. i < l => assigned[i].fee <= assigned[l].fee
      BY <1>2, <1>10 DEF IsBest
    <3>2. assigned[i].fee <= assigned[l].fee
      BY <1>3, <1>6, <1>10, <3>1
    <3> QED BY <1>7, <1>10, <3>2
  <2> QED BY <1>3, <1>8, <1>9, <2>1 DEF IsOrder
<1>12. ~Confirmed(order)
  BY <1>9 DEF Confirmed
<1>13. ASSUME NEW who \in Range(OrderIds(order)) PROVE Able(who)
  <2>1. OrderIds(order) = [i \in 1..l |-> ars[i].id]
    BY <1>8, <1>9 DEF OrderIds
  <2>2. PICK i \in 1..l : ars[i].id = who
    BY <1>13, <2>1 DEF Range
  <2> QED BY <1>6, <1>7, <2>2
<1> QED BY <1>9, <1>10, <1>11, <1>12, <1>13 DEF order

LEMMA SendKeepsMarket ==
    ASSUME MarketInv, NEW overpayment \in Overpayments, SendMessage(overpayment)
    PROVE  MarketInv'
<1> DEFINE new == generated + 1
           order == NewOrder(assigned)
<1>1. /\ assigned # <<>> /\ generated' = new /\ received' = received /\ block' = block
      /\ orders' = [n \in DOMAIN orders \cup {new} |->
                      IF n \in DOMAIN orders THEN orders[n] ELSE order]
      /\ fund' = fund + MarketFee + overpayment
      /\ UNCHANGED <<relayers, collateral, fee, slashProtect, assignedNumber, free, unpaid>>
      /\ MarketIsFresh'
  BY DEF SendMessage, PayDeliveryFee, UpdateMarket, MarketIsFresh, registry
<1>2. /\ IsOrder(order) /\ ~Confirmed(order) /\ order.sent_time = block
      /\ OrderFee(order) = MarketFee /\ MarketFee \in Nat
      /\ \A who \in Range(OrderIds(order)) : Able(who)
  BY <1>1, NewOrderFacts
<1>3. new \notin DOMAIN orders /\ new \in Nat /\ block \in Nat /\ fund \in Nat
  BY DEF MarketInv, MarketTypeOK, OrdersInv
<1>4. overpayment \in Nat
  BY MarketAssumption
<1> HIDE DEF order, new
<1>5. /\ DOMAIN orders' = DOMAIN orders \cup {new} /\ orders'[new] = order
      /\ \A n \in DOMAIN orders : orders'[n] = orders[n] /\ n # new
  BY <1>1, <1>3
<1>6. OrdersInv'
  BY SendKeepsOrders DEF MarketInv
<1>7. WellFormed(orders) /\ \A n \in DOMAIN orders : orders[n].sent_time <= block
  BY DEF MarketInv, MarketTypeOK
<1>8. WellFormed(orders') /\ \A n \in DOMAIN orders' : orders'[n].sent_time <= block
  <2>1. ASSUME NEW n \in DOMAIN orders'
        PROVE  IsOrder(orders'[n]) /\ orders'[n].sent_time <= block
    <3>1. CASE n = new
      BY <1>2, <1>3, <1>5, <3>1
    <3>2. CASE n \in DOMAIN orders
      BY <1>5, <1>7, <3>2 DEF WellFormed
    <3> QED BY <1>5, <3>1, <3>2
  <2> QED BY <2>1 DEF WellFormed
<1>9. MarketTypeOK'
  <2>1. fund' \in Nat
    BY <1>1, <1>2, <1>3, <1>4
  <2>2. WellFormed(orders)'
    BY <1>8 DEF WellFormed, IsOrder, OrderFee
  <2> QED BY <1>1, <1>8, <2>1, <2>2, InvTypes DEF MarketTypeOK
<1>10. IsFiniteSet(DOMAIN orders) /\ IsFiniteSet(DOMAIN orders')
  <2>1. IsFiniteSet(DOMAIN orders)
    BY OrdersAreFinite DEF MarketInv
  <2> QED BY <1>5, <2>1, FS_AddElement
<1>11. ASSUME NEW D \in SUBSET (DOMAIN orders)
       PROVE  /\ SumFunctionOnSet(LockedPerOrder(orders'), D \cup {new})
                   = CollateralPerOrder + SumFunctionOnSet(LockedPerOrder(orders), D)
              /\ SumFunctionOnSet(LockedPerOrder(orders'), D)
                   = SumFunctionOnSet(LockedPerOrder(orders), D)
              /\ SumFunctionOnSet(OrderFees(orders'), D \cup {new})
                   = MarketFee + SumFunctionOnSet(OrderFees(orders), D)
  <2> DEFINE f == LockedPerOrder(orders)
             e == LockedPerOrder(orders')
             g == OrderFees(orders)
             h == OrderFees(orders')
             E == D \cup {new}
  <2>1. IsFiniteSet(D) /\ \A n \in D : f[n] \in Nat /\ g[n] \in Nat
    BY <1>7, <1>10, OrderSums
  <2>2. D \subseteq DOMAIN orders' /\ {new} \subseteq DOMAIN orders'
    BY <1>5
  <2>3. e[new] = CollateralPerOrder /\ h[new] = OrderFee(orders'[new]) /\ e[new] \in Nat
        /\ h[new] \in Nat
    BY <1>8, <1>10, <2>2, OrderSums
  <2>4. \A n \in D : e[n] = f[n] /\ h[n] = g[n]
    BY <1>5 DEF LockedPerOrder, OrderFees
  <2>5. new \notin D
    BY <1>3
  <2>6. h[new] = MarketFee
    BY <1>2, <1>5, <2>3
  <2> HIDE DEF e, f, g, h
  <2>7. \A n \in D : f[n] \in Int /\ g[n] \in Int
    BY <2>1
  <2>8. SumFunctionOnSet(e, D \cup {new}) = e[new] + SumFunctionOnSet(f, D)
    BY <2>1, <2>3, <2>4, <2>5, <2>7, SumExtend
  <2>9. SumFunctionOnSet(h, D \cup {new}) = h[new] + SumFunctionOnSet(g, D)
    BY <2>1, <2>3, <2>4, <2>5, <2>7, SumExtend
  <2>10. SumFunctionOnSet(e, D) = SumFunctionOnSet(f, D)
    BY <2>1, <2>4, SumSame
  <2> QED BY <2>3, <2>6, <2>8, <2>9, <2>10 DEF e, f, g, h
<1>12. OpenOrders(orders') = OpenOrders(orders) \cup {new}
  BY <1>2, <1>5 DEF OpenOrders
<1>13. ASSUME NEW who
       PROVE  OpenOrdersOf(orders', who) = IF who \in Range(OrderIds(order))
                                           THEN OpenOrdersOf(orders, who) \cup {new}
                                           ELSE OpenOrdersOf(orders, who)
  <2>1. \A n \in OpenOrders(orders) : orders'[n] = orders[n]
    BY <1>5 DEF OpenOrders
  <2> QED BY <1>5, <1>12, <2>1 DEF OpenOrdersOf
<1>14. CollateralCoversOrders'
  <2> SUFFICES ASSUME NEW who \in Accounts
               PROVE  /\ Occupied(orders', who) => who \in Range(relayers)
                      /\ OrdersLocked(orders', who) <= collateral[who]
                      /\ collateral[who] <= free[who]
    <3> HIDE DEF MarketInv
    <3> QED BY <1>1 DEF CollateralCoversOrders, Occupied, OpenOrdersOf, OpenOrders, OrdersLocked,
                    LockedPerOrder, Confirmed, OrderIds
  <2> DEFINE locked == OrdersLocked(orders, who)
             lockedAfter == OrdersLocked(orders', who)
  <2>1. /\ Occupied(orders, who) => who \in Range(relayers)
        /\ locked <= collateral[who] /\ collateral[who] <= free[who]
        /\ collateral[who] \in Nat
    BY InvTypes DEF Covered
  <2>2. locked \in Nat /\ OpenOrdersOf(orders, who) \subseteq DOMAIN orders
    BY InvTypes, LockedType
  <2>3. CASE who \in Range(OrderIds(order))
    <3>1. Able(who)
      BY <1>2, <2>3
    <3>2. who \in Range(relayers) /\ collateral[who] - locked >= CollateralPerOrder
      BY <3>1 DEF Able
    <3>3. lockedAfter = CollateralPerOrder + locked
      BY <1>11, <1>13, <2>2, <2>3 DEF OrdersLocked
    <3>4. CollateralPerOrder \in Nat
      BY MarketAssumption
    <3> HIDE DEF locked, lockedAfter
    <3>5. lockedAfter <= collateral[who]
      BY <2>1, <2>2, <3>2, <3>3, <3>4
    <3> QED BY <2>1, <3>2, <3>5 DEF lockedAfter
  <2>4. CASE who \notin Range(OrderIds(order))
    <3>1. OpenOrdersOf(orders', who) = OpenOrdersOf(orders, who)
      BY <1>13, <2>4
    <3>2. lockedAfter = locked
      BY <1>11, <2>2, <3>1 DEF OrdersLocked
    <3>3. Occupied(orders', who) <=> Occupied(orders, who)
      BY <3>1 DEF Occupied
    <3> QED BY <2>1, <3>2, <3>3
  <2> QED BY <2>3, <2>4
<1>15. FundSolvent'
  <2> DEFINE D == OpenOrders(orders)
             owed == SumFunctionOnSet(OrderFees(orders), D)
  <2>1. D \in SUBSET (DOMAIN orders)
    BY DEF OpenOrders
  <2>2. fund >= owed /\ unpaid = 0 /\ owed \in Nat
    BY <1>7, <1>10, <2>1, OrderSums DEF MarketInv, FundSolvent
  <2>3. SumFunctionOnSet(OrderFees(orders'), D \cup {new}) = MarketFee + owed
    BY <1>11, <2>1
  <2> HIDE DEF D, owed
  <2>4. fund' >= MarketFee + owed
    BY <1>1, <1>2, <1>3, <1>4, <2>2
  <2>5. fund' >= SumFunctionOnSet(OrderFees(orders'), OpenOrders(orders')) /\ unpaid' = 0
    BY <1>1, <1>12, <2>2, <2>3, <2>4 DEF D
  <2> QED BY <2>5 DEF FundSolvent, OrderFees, OpenOrders, OrderFee, Confirmed
<1> QED BY <1>1, <1>6, <1>9, <1>14, <1>15 DEF MarketInv

\* The market depends on the orders only through the collateral they lock.
LEMMA MarketSame ==
    ASSUME NEW rs, NEW coll, NEW quote, NEW number, NEW os, NEW ps,
           \A who : OrdersLocked(os, who) = OrdersLocked(ps, who)
    PROVE  Market(rs, coll, quote, os, number) = Market(rs, coll, quote, ps, number)
<1>1. \A who : UsableCapacity(os, coll, who) = UsableCapacity(ps, coll, who)
  BY DEF UsableCapacity
<1>2. {who \in Range(rs) : UsableCapacity(os, coll, who) >= 1}
        = {who \in Range(rs) : UsableCapacity(ps, coll, who) >= 1}
  BY <1>1
<1> QED BY <1>2 DEF Market

\* Two sets of orders with the same open ones.
LEMMA SameOpenOrders ==
    ASSUME NEW os, NEW ps, WellFormed(os), IsFiniteSet(DOMAIN os), NEW D,
           OpenOrders(os) = D, OpenOrders(ps) = D,
           \A n \in D : /\ OrderIds(ps[n]) = OrderIds(os[n]) /\ OrderFee(ps[n]) = OrderFee(os[n])
                        /\ LockedPerOrder(ps)[n] = LockedPerOrder(os)[n]
    PROVE  /\ \A who : /\ OrdersLocked(ps, who) = OrdersLocked(os, who)
                       /\ Occupied(ps, who) <=> Occupied(os, who)
           /\ SumFunctionOnSet(OrderFees(ps), OpenOrders(ps))
                = SumFunctionOnSet(OrderFees(os), OpenOrders(os))
<1>1. D \subseteq DOMAIN os /\ D \subseteq DOMAIN ps /\ IsFiniteSet(D)
  BY FS_Subset DEF OpenOrders
<1>2. ASSUME NEW who
      PROVE  /\ OrdersLocked(ps, who) = OrdersLocked(os, who)
             /\ Occupied(ps, who) <=> Occupied(os, who)
  <2> DEFINE O == OpenOrdersOf(os, who)
             f == LockedPerOrder(ps)
             e == LockedPerOrder(os)
  <2>1. OpenOrdersOf(ps, who) = O /\ O \subseteq D
    BY DEF OpenOrdersOf
  <2>2. IsFiniteSet(O)
    BY <1>1, <2>1, FS_Subset
  <2>3. \A n \in O : f[n] = e[n]
    BY <2>1
  <2> HIDE DEF f, e, O
  <2>4. SumFunctionOnSet(f, O) = SumFunctionOnSet(e, O)
    BY <2>2, <2>3, SumSame
  <2> QED BY <2>1, <2>4 DEF OrdersLocked, Occupied, O, f, e
<1>3. SumFunctionOnSet(OrderFees(ps), D) = SumFunctionOnSet(OrderFees(os), D)
  <2> DEFINE f == OrderFees(ps)
             e == OrderFees(os)
  <2>1. \A n \in D : f[n] = e[n]
    BY <1>1 DEF OrderFees
  <2> HIDE DEF f, e
  <2>2. SumFunctionOnSet(f, D) = SumFunctionOnSet(e, D)
    BY <1>1, <2>1, SumSame
  <2> QED BY <2>2 DEF f, e
<1> QED BY <1>2, <1>3

LEMMA FinalizeKeepsMarket ==
    ASSUME MarketInv, OnFinalize
    PROVE  MarketInv'
<1> DEFINE keep == {n \in DOMAIN orders : ~Confirmed(orders[n])}
<1>1. /\ block' = block + 1 /\ orders' = [n \in keep |-> orders[n]]
      /\ UNCHANGED <<relayers, collateral, fee, slashProtect, assignedNumber, free, unpaid>>
      /\ assigned' = assigned /\ fund' = fund
  BY DEF OnFinalize, lane, registry
<1>2. DOMAIN orders' = keep /\ \A n \in keep : n \in DOMAIN orders /\ orders'[n] = orders[n]
  BY <1>1
<1>3. OpenOrders(orders) = keep /\ OpenOrders(orders') = keep
  BY <1>2 DEF OpenOrders
<1>4. WellFormed(orders) /\ IsFiniteSet(DOMAIN orders)
  BY OrdersAreFinite DEF MarketInv, MarketTypeOK
<1>5. ASSUME NEW n \in keep
      PROVE  /\ OrderIds(orders'[n]) = OrderIds(orders[n])
             /\ OrderFee(orders'[n]) = OrderFee(orders[n])
             /\ LockedPerOrder(orders')[n] = LockedPerOrder(orders)[n]
  BY <1>2 DEF LockedPerOrder
<1> HIDE DEF keep
<1>6. /\ \A who : /\ OrdersLocked(orders', who) = OrdersLocked(orders, who)
                  /\ Occupied(orders', who) <=> Occupied(orders, who)
      /\ SumFunctionOnSet(OrderFees(orders'), OpenOrders(orders'))
           = SumFunctionOnSet(OrderFees(orders), OpenOrders(orders))
  BY <1>3, <1>4, <1>5, SameOpenOrders
<1>7. MarketIsFresh'
  <2>1. Market(relayers, collateral, fee, orders, assignedNumber)
          = Market(relayers, collateral, fee, orders', assignedNumber)
    BY <1>6, MarketSame
  <2>2. assigned' = Market(relayers', collateral', fee', orders', assignedNumber')
    BY <1>1, <2>1 DEF MarketInv, MarketIsFresh
  <2> QED BY <2>2 DEF MarketIsFresh
<1>8. MarketTypeOK'
  <2>1. \A n \in DOMAIN orders' : IsOrder(orders'[n]) /\ orders'[n].sent_time <= block + 1
    <3>1. ASSUME NEW n \in DOMAIN orders'
          PROVE  IsOrder(orders'[n]) /\ orders'[n].sent_time <= block + 1
      <4>1. n \in DOMAIN orders /\ orders'[n] = orders[n]
        BY <1>2
      <4>2. IsOrder(orders[n]) /\ orders[n].sent_time <= block
        BY <1>4, <4>1 DEF WellFormed, MarketInv, MarketTypeOK
      <4>3. orders[n].sent_time \in Nat /\ block \in Nat
        BY <4>2 DEF IsOrder, Order, MarketInv, OrdersInv
      <4> QED BY <4>1, <4>2, <4>3
    <3> QED BY <3>1
  <2>2. WellFormed(orders)'
    BY <2>1 DEF WellFormed, IsOrder, OrderFee
  <2> QED BY <1>1, <2>1, <2>2 DEF MarketInv, MarketTypeOK
<1>9. CollateralCoversOrders'
  <2>1. \A who \in Accounts : /\ Occupied(orders', who) => who \in Range(relayers')
                              /\ OrdersLocked(orders', who) <= collateral'[who]
                              /\ collateral'[who] <= free'[who]
    BY <1>1, <1>6 DEF MarketInv, CollateralCoversOrders
  <2> QED BY <2>1 DEF CollateralCoversOrders, Occupied, OpenOrdersOf, OpenOrders, OrdersLocked,
                      LockedPerOrder, Confirmed, OrderIds
<1>10. FundSolvent'
  <2>1. fund' >= SumFunctionOnSet(OrderFees(orders'), OpenOrders(orders')) /\ unpaid' = 0
    BY <1>1, <1>6 DEF MarketInv, FundSolvent
  <2> QED BY <2>1 DEF FundSolvent, OrderFees, OpenOrders, OrderFee, Confirmed
<1>11. OrdersInv'
  BY FinalizeKeepsOrders DEF MarketInv
<1> QED BY <1>7, <1>8, <1>9, <1>10, <1>11 DEF MarketInv

\* At genesis nobody is enrolled and the market is closed.
LEMMA InitMarketInv == Init => MarketInv
<1> SUFFICES ASSUME Init PROVE MarketInv
  OBVIOUS
<1>1. /\ relayers = <<>> /\ collateral = [who \in Accounts |-> 0]
      /\ fee = [who \in Accounts |-> 0] /\ assigned = <<>> /\ orders = [n \in {} |-> 0]
      /\ slashProtect = NoProtect /\ assignedNumber = DefaultAssignedRelayersNumber
      /\ free = [who \in Accounts |-> InitBalance] /\ fund = 0 /\ block = 1 /\ unpaid = 0
  BY DEF Init
<1>2. InitBalance \in Nat /\ DefaultAssignedRelayersNumber \in Nat
  BY MarketAssumption
<1>3. DOMAIN orders = {}
  BY <1>1
<1>4. MarketTypeOK
  BY <1>1, <1>2, <1>3, EmptySeq DEF MarketTypeOK, WellFormed
<1>5. OrdersInv
  BY InitOrdersInv
<1>6. OpenOrders(orders) = {} /\ \A who : OpenOrdersOf(orders, who) = {}
  BY <1>3 DEF OpenOrders, OpenOrdersOf
<1>7. FundSolvent
  <2>1. SumFunctionOnSet(OrderFees(orders), {}) = 0
    BY SumEmpty
  <2>2. SumFunctionOnSet(OrderFees(orders), OpenOrders(orders)) = 0
    BY <1>6, <2>1
  <2>3. fund = 0 /\ unpaid = 0
    BY <1>1
  <2> QED BY <2>2, <2>3 DEF FundSolvent
<1>8. CollateralCoversOrders
  <2> SUFFICES ASSUME NEW who \in Accounts
               PROVE  /\ ~Occupied(orders, who) /\ OrdersLocked(orders, who) <= collateral[who]
                      /\ collateral[who] <= free[who]
    BY DEF CollateralCoversOrders
  <2>1. OrdersLocked(orders, who) = 0
    BY <1>6, SumEmpty DEF OrdersLocked
  <2> QED BY <1>1, <1>2, <1>6, <2>1 DEF Occupied
<1>9. MarketIsFresh
  <2> DEFINE M == Market(relayers, collateral, fee, orders, assignedNumber)
             able == AbleIn(relayers, collateral, orders)
  <2>1. IsBest(M, able, fee, assignedNumber)
    BY <1>4, MarketFacts DEF MarketTypeOK
  <2>2. able = {}
    <3>1. DOMAIN relayers = {}
      BY <1>1
    <3> QED BY <3>1 DEF AbleIn, Range
  <2>3. Cardinality(able) = 0
    BY <2>2, FS_EmptySet
  <2> HIDE DEF M, able
  <2>4. M \in Seq(MarketEntry) /\ Len(M) = 0
    BY <1>1, <1>2, <2>1, <2>3 DEF IsBest
  <2>5. M = <<>>
    BY <2>4, EmptySeq
  <2> QED BY <1>1, <2>5 DEF MarketIsFresh, M
<1> QED BY <1>4, <1>5, <1>7, <1>8, <1>9 DEF MarketInv

-----------------------------------------------------------------------------
(* Settling one order. *)

LEMMA RatioBound ==
    ASSUME NEW p \in 0..100, NEW x \in Nat
    PROVE  Ratio(p, x) \in Nat /\ Ratio(p, x) <= x
<1> DEFINE y == p * x
           q == y \div 100
           r == y % 100
<1>1. y \in Nat /\ y <= 100 * x
  OBVIOUS
<1>2. Ratio(p, x) = IF 2 * r > 100 THEN q + 1 ELSE q
  BY DEF Ratio
<1> HIDE DEF y
<1>3. q \in Nat /\ r \in 0..99 /\ 100 * q + r = y
  BY <1>1
<1> HIDE DEF q, r
<1> QED BY <1>1, <1>2, <1>3

\* Two shares of an amount are never more than the amount, however they are rounded.
LEMMA RatioShares ==
    ASSUME NEW p \in 0..100, NEW s \in 0..100, p + s <= 100, NEW x \in Nat
    PROVE  Ratio(p, x) + Ratio(s, x) <= x
<1> DEFINE y == p * x
           q == y \div 100
           r == y % 100
           z == s * x
           t == z \div 100
           u == z % 100
<1>1. y \in Nat /\ z \in Nat /\ y + z <= 100 * x
  OBVIOUS
<1>2. /\ Ratio(p, x) = IF 2 * r > 100 THEN q + 1 ELSE q
      /\ Ratio(s, x) = IF 2 * u > 100 THEN t + 1 ELSE t
  BY DEF Ratio
<1> HIDE DEF y, z
<1>3. q \in Nat /\ r \in 0..99 /\ 100 * q + r = y
  BY <1>1
<1>4. t \in Nat /\ u \in 0..99 /\ 100 * t + u = z
  BY <1>1
<1> HIDE DEF q, r, t, u
<1> QED BY <1>1, <1>2, <1>3, <1>4

\* A confirmed order.
Settles(order) == IsOrder(order) /\ order.confirm_time \in Nat

InSlot(order, i) ==
    /\ order.assigned_relayers[i].valid_range.start <= order.confirm_time
    /\ order.confirm_time < order.assigned_relayers[i].valid_range.end

LEMMA SlotFacts ==
    ASSUME NEW order, Settles(order)
    PROVE  /\ Len(order.assigned_relayers) \in Nat /\ Len(order.assigned_relayers) > 0
           /\ ConfirmedSlot(order) \in 0..Len(order.assigned_relayers)
           /\ ConfirmedSlot(order) = 0
                => \A i \in 1..Len(order.assigned_relayers) : ~InSlot(order, i)
           /\ ConfirmedSlot(order) # 0 => InSlot(order, ConfirmedSlot(order))
<1> DEFINE l == Len(order.assigned_relayers)
           slots == {i \in 1..l : InSlot(order, i)}
<1>1. l \in Nat /\ l > 0
  BY LenProperties DEF Settles, IsOrder, Order
<1>2. ConfirmedSlot(order) = IF slots = {} THEN 0 ELSE CHOOSE i \in slots : TRUE
  BY DEF ConfirmedSlot, InSlot
<1> HIDE DEF l
<1>3. CASE slots = {}
  BY <1>1, <1>2, <1>3 DEF l
<1>4. CASE slots # {}
  <2>1. ConfirmedSlot(order) \in slots
    BY <1>2, <1>4
  <2>2. ConfirmedSlot(order) \in 1..l /\ InSlot(order, ConfirmedSlot(order))
    BY <2>1
  <2> QED BY <1>1, <2>2 DEF l
<1> QED BY <1>3, <1>4

LEMMA RelayerFacts ==
    ASSUME NEW order, Settles(order)
    PROVE  /\ \A i \in 1..Len(order.assigned_relayers) :
                /\ order.assigned_relayers[i].id \in Accounts
                /\ order.assigned_relayers[i].fee \in Nat
                /\ order.assigned_relayers[i].valid_range.end \in Nat
           /\ Range(OrderIds(order)) \subseteq Accounts
           /\ Offenders(order) \subseteq Range(OrderIds(order))
           /\ OnDuty(order) \subseteq Range(OrderIds(order))
           /\ OrderFee(order) \in Nat /\ RangeEnd(order) \in Nat
<1> DEFINE ars == order.assigned_relayers
           l == Len(ars)
<1>1. ars \in Seq(AssignedRelayer) /\ l \in Nat /\ l > 0
  BY LenProperties DEF Settles, IsOrder, Order
<1> HIDE DEF ars
<1>2. ASSUME NEW i \in 1..l
      PROVE  ars[i].id \in Accounts /\ ars[i].fee \in Nat /\ ars[i].valid_range.end \in Nat
  <2>1. ars[i] \in AssignedRelayer
    BY <1>1, ElementOfSeq
  <2> QED BY <2>1 DEF AssignedRelayer
<1>3. OrderIds(order) = [i \in 1..l |-> ars[i].id]
  BY DEF OrderIds, ars
<1>4. Range(OrderIds(order)) = {ars[i].id : i \in 1..l}
  BY <1>3 DEF Range
<1>5. Range(OrderIds(order)) \subseteq Accounts
  BY <1>2, <1>4
<1>6. ConfirmedSlot(order) \in 0..l
  BY SlotFacts DEF ars
<1>7. /\ Offenders(order) \subseteq Range(OrderIds(order))
      /\ OnDuty(order) \subseteq Range(OrderIds(order))
  <2> DEFINE c == ConfirmedSlot(order)
             late == IF c = 0 THEN 1..l ELSE 1..(c - 1)
             duty == IF c = 0 THEN {} ELSE c..l
  <2>1. late \subseteq 1..l /\ duty \subseteq 1..l
    BY <1>1, <1>6
  <2>2. /\ Offenders(order) = {OrderIds(order)[i] : i \in late}
        /\ OnDuty(order) = {OrderIds(order)[i] : i \in duty}
    BY DEF Offenders, OnDuty, ars
  <2> HIDE DEF late, duty
  <2> QED BY <1>3, <1>4, <2>1, <2>2
<1>8. l \in 1..l
  BY <1>1
<1>9. OrderFee(order) = ars[l].fee /\ RangeEnd(order) = ars[l].valid_range.end
  BY DEF OrderFee, RangeEnd, ars
<1>10. OrderFee(order) \in Nat /\ RangeEnd(order) \in Nat
  BY <1>2, <1>8, <1>9
<1> QED BY <1>2, <1>5, <1>7, <1>10 DEF ars

\* A slash is never more than what the order locked.
LEMMA SlashIsBounded ==
    ASSUME NEW order, Settles(order), slashProtect \in Nat \cup {NoProtect}
    PROVE  SlashAmount(order) \in Nat /\ SlashAmount(order) <= CollateralPerOrder
<1> DEFINE per == order.collateral_per_assigned_relayer
           fixed == Ratio(AssignedRelayerSlashRatio, per)
           total == fixed + CalcAmount(ConfirmDelay(order))
           amount == IF ConfirmedSlot(order) # 0 THEN fixed
                     ELSE IF slashProtect = NoProtect THEN total
                     ELSE AtMost(total, slashProtect)
<1>1. per = CollateralPerOrder /\ CollateralPerOrder \in Nat
  BY MarketAssumption DEF Settles, IsOrder, Order
<1>2. fixed \in Nat
  BY <1>1, RatioBound, MarketAssumption
<1>3. total \in Nat
  <2>1. order.confirm_time \in Nat /\ RangeEnd(order) \in Nat
    BY RelayerFacts DEF Settles
  <2>2. ConfirmDelay(order) \in Nat
    BY <2>1 DEF ConfirmDelay, SaturatingSub
  <2>3. SlashPerBlock \in Nat
    BY MarketAssumption
  <2>4. CalcAmount(ConfirmDelay(order)) \in Nat
    <3> DEFINE d == ConfirmDelay(order)
    <3> HIDE DEF d
    <3>1. SlashPerBlock * d \in Nat
      BY <2>2, <2>3 DEF d
    <3> QED BY <3>1 DEF CalcAmount, d
  <2> QED BY <1>2, <2>4
<1>4. SlashAmount(order) = AtMost(amount, per)
  BY DEF SlashAmount
<1> HIDE DEF fixed, total
<1>5. amount \in Nat
  BY <1>2, <1>3 DEF AtMost
<1> HIDE DEF amount, per
<1> QED BY <1>1, <1>4, <1>5 DEF AtMost

Ledger == [collateral : [Accounts -> Nat], free : [Accounts -> Nat], fund : Nat, slashed : Nat,
           confirm : Nat, deliver : [Accounts -> Nat], duty : [Accounts -> Nat], treasury : Nat]

LEMMA SlashFacts ==
    ASSUME NEW order, Settles(order), slashProtect \in Nat \cup {NoProtect},
           NEW ledger \in Ledger, NEW after, after = SlashOffenders(ledger, order)
    PROVE  /\ after \in Ledger
           /\ after.fund = ledger.fund + after.slashed
           /\ after.confirm = ledger.confirm /\ after.deliver = ledger.deliver
           /\ after.duty = ledger.duty /\ after.treasury = ledger.treasury
           /\ \A who \in Accounts :
                /\ who \notin Offenders(order) => after.collateral[who] = ledger.collateral[who]
                /\ after.collateral[who] >= ledger.collateral[who] - CollateralPerOrder
                /\ ledger.collateral[who] <= ledger.free[who]
                     => after.collateral[who] <= after.free[who]
<1> DEFINE amount == SlashAmount(order)
           paying == {who \in Offenders(order) : CanPay(ledger, who, amount)}
           slashed == amount * Cardinality(paying)
           coll == UpdateRelayerAfterSlash(ledger.collateral, paying, amount)
           rest == [who \in Accounts |-> IF who \in paying THEN ledger.free[who] - amount
                                                           ELSE ledger.free[who]]
<1>1. amount \in Nat /\ amount <= CollateralPerOrder /\ CollateralPerOrder \in Nat
  BY SlashIsBounded, MarketAssumption
<1>2. after = [ledger EXCEPT !.collateral = coll, !.free = rest, !.fund = @ + slashed,
                             !.slashed = slashed]
  BY DEF SlashOffenders
<1>3. /\ ledger.collateral \in [Accounts -> Nat] /\ ledger.free \in [Accounts -> Nat]
      /\ ledger.fund \in Nat /\ ledger.slashed \in Nat /\ ledger.confirm \in Nat
      /\ ledger.deliver \in [Accounts -> Nat] /\ ledger.duty \in [Accounts -> Nat]
      /\ ledger.treasury \in Nat
  BY DEF Ledger
<1>4. paying \subseteq Offenders(order) /\ Offenders(order) \subseteq Accounts
  BY RelayerFacts
<1>5. Cardinality(paying) \in Nat
  BY <1>4, MarketAssumption, FS_Subset, FS_CardinalityType
<1>6. slashed \in Nat
  <2> DEFINE k == Cardinality(paying)
  <2> HIDE DEF k, amount
  <2>1. amount * k \in Nat
    BY <1>1, <1>5 DEF k
  <2> QED BY <2>1 DEF k
<1> HIDE DEF amount, slashed
<1>7. coll = [who \in Accounts |-> IF who \in paying
                                   THEN IF ledger.collateral[who] > amount
                                        THEN ledger.collateral[who] - amount ELSE 0
                                   ELSE ledger.collateral[who]]
  BY DEF UpdateRelayerAfterSlash, SaturatingSub
<1> HIDE DEF coll
<1>8. ASSUME NEW who \in Accounts
      PROVE  /\ coll[who] \in Nat /\ rest[who] \in Nat
             /\ who \notin Offenders(order) => coll[who] = ledger.collateral[who]
             /\ coll[who] >= ledger.collateral[who] - CollateralPerOrder
             /\ ledger.collateral[who] <= ledger.free[who] => coll[who] <= rest[who]
  <2>1. ledger.collateral[who] \in Nat /\ ledger.free[who] \in Nat
    BY <1>3
  <2>2. CASE who \in paying
    <3>1. /\ coll[who] = IF ledger.collateral[who] > amount
                         THEN ledger.collateral[who] - amount ELSE 0
          /\ rest[who] = ledger.free[who] - amount
          /\ ledger.free[who] >= amount /\ who \in Offenders(order)
      BY <1>7, <2>2 DEF CanPay
    <3> QED BY <1>1, <2>1, <3>1
  <2>3. CASE who \notin paying
    <3>1. coll[who] = ledger.collateral[who] /\ rest[who] = ledger.free[who]
      BY <1>7, <2>3
    <3> QED BY <1>1, <2>1, <3>1
  <2> QED BY <2>2, <2>3
<1>9. coll \in [Accounts -> Nat] /\ rest \in [Accounts -> Nat]
  BY <1>7, <1>8
<1> HIDE DEF rest
<1>10. /\ after = [collateral |-> coll, free |-> rest, fund |-> ledger.fund + slashed,
                   slashed |-> slashed, confirm |-> ledger.confirm, deliver |-> ledger.deliver,
                   duty |-> ledger.duty, treasury |-> ledger.treasury]
  BY <1>2 DEF Ledger
<1>11. /\ after.collateral = coll /\ after.free = rest /\ after.fund = ledger.fund + slashed
       /\ after.slashed = slashed /\ after.confirm = ledger.confirm
       /\ after.deliver = ledger.deliver /\ after.duty = ledger.duty
       /\ after.treasury = ledger.treasury
  BY <1>10
<1>12. after \in Ledger
  BY <1>3, <1>6, <1>9, <1>10 DEF Ledger
<1> QED BY <1>8, <1>11, <1>12

\* What is owed to relayers and treasury.
Owed(ledger) == ledger.confirm + SumFunctionOnSet(ledger.deliver, Accounts)
                  + SumFunctionOnSet(ledger.duty, Accounts) + ledger.treasury

LEMMA OwedType ==
    ASSUME NEW ledger \in Ledger
    PROVE  /\ SumFunctionOnSet(ledger.deliver, Accounts) \in Nat
           /\ SumFunctionOnSet(ledger.duty, Accounts) \in Nat
           /\ Owed(ledger) \in Nat
<1> DEFINE f == ledger.deliver
           g == ledger.duty
<1>1. f \in [Accounts -> Nat] /\ g \in [Accounts -> Nat]
      /\ ledger.confirm \in Nat /\ ledger.treasury \in Nat
  BY DEF Ledger
<1> HIDE DEF f, g
<1>2. SumFunctionOnSet(f, Accounts) \in Nat /\ SumFunctionOnSet(g, Accounts) \in Nat
  BY <1>1, MarketAssumption, SumNat
<1>3. ledger.confirm + SumFunctionOnSet(f, Accounts) + SumFunctionOnSet(g, Accounts)
        + ledger.treasury \in Nat
  BY <1>1, <1>2
<1> QED BY <1>2, <1>3 DEF Owed, f, g

\* The rewards of an order are paid by its fee and by its slashes.
LEMMA SettleFacts ==
    ASSUME NEW order, Settles(order), slashProtect \in Nat \cup {NoProtect},
           NEW ledger \in Ledger, NEW deliverer \in Accounts,
           NEW next, next = SettleOrder(ledger, order, deliverer)
    PROVE  /\ next \in Ledger
           /\ \A who \in Accounts :
                /\ who \notin Offenders(order) => next.collateral[who] = ledger.collateral[who]
                /\ next.collateral[who] >= ledger.collateral[who] - CollateralPerOrder
                /\ ledger.collateral[who] <= ledger.free[who]
                     => next.collateral[who] <= next.free[who]
           /\ next.fund - Owed(next) >= ledger.fund - Owed(ledger) - OrderFee(order)
<1> DEFINE slot == ConfirmedSlot(order)
           after == SlashOffenders(ledger, order)
           price == IF slot = 0 THEN OrderFee(order) ELSE order.assigned_relayers[slot].fee
           surplus == SaturatingSub(OrderFee(order), price)
           duty == OnDuty(order)
           average == IF duty = {} THEN 0
                      ELSE Ratio(DutyRelayersRewardRatio, surplus) \div Cardinality(duty)
           treasury == IF slot = 0 THEN 0
                       ELSE SaturatingSub(surplus, average * Cardinality(duty))
           reward == price + after.slashed
           forConfirm == Ratio(ConfirmRelayersRewardRatio, reward)
           forDeliver == Ratio(MessageRelayersRewardRatio, reward)
           delivered == [after.deliver EXCEPT ![deliverer] = @ + forDeliver]
           served == [who \in Accounts |-> after.duty[who] + (IF who \in duty THEN average ELSE 0)]
<1>1. next = [after EXCEPT
                !.confirm = @ + forConfirm,
                !.deliver[deliverer] = @ + forDeliver,
                !.duty = [who \in Accounts |-> @[who] + (IF who \in duty THEN average ELSE 0)],
                !.treasury = @ + treasury]
  BY DEF SettleOrder
<1>2. /\ after \in Ledger
      /\ after.fund = ledger.fund + after.slashed
      /\ after.confirm = ledger.confirm /\ after.deliver = ledger.deliver
      /\ after.duty = ledger.duty /\ after.treasury = ledger.treasury
      /\ \A who \in Accounts :
           /\ who \notin Offenders(order) => after.collateral[who] = ledger.collateral[who]
           /\ after.collateral[who] >= ledger.collateral[who] - CollateralPerOrder
           /\ ledger.collateral[who] <= ledger.free[who]
                => after.collateral[who] <= after.free[who]
  BY SlashFacts
<1> HIDE DEF after
<1>3. /\ after.collateral \in [Accounts -> Nat] /\ after.free \in [Accounts -> Nat]
      /\ after.fund \in Nat /\ after.slashed \in Nat /\ after.confirm \in Nat
      /\ after.deliver \in [Accounts -> Nat] /\ after.duty \in [Accounts -> Nat]
      /\ after.treasury \in Nat
  BY <1>2 DEF Ledger
\* The shares of the fee.
<1>4. /\ slot \in 0..Len(order.assigned_relayers) /\ Len(order.assigned_relayers) \in Nat
      /\ OrderFee(order) \in Nat
      /\ slot # 0 => slot \in 1..Len(order.assigned_relayers)
  BY SlotFacts, RelayerFacts
<1>5. price \in Nat /\ price <= OrderFee(order) /\ (slot = 0 => price = OrderFee(order))
  <2>1. CASE slot = 0
    BY <1>4, <2>1
  <2>2. CASE slot # 0
    <3>1. /\ order.assigned_relayers[slot].fee \in Nat
          /\ order.assigned_relayers[slot].fee <= OrderFee(order)
      BY <1>4, <2>2, RelayerFacts DEF Settles, IsOrder
    <3> QED BY <2>2, <3>1
  <2> QED BY <2>1, <2>2
<1> HIDE DEF price
<1>6. surplus \in Nat /\ price + surplus = OrderFee(order) /\ (slot = 0 => surplus = 0)
  BY <1>4, <1>5 DEF SaturatingSub
<1> HIDE DEF surplus
<1>7. duty \subseteq Accounts /\ Cardinality(duty) \in Nat /\ IsFiniteSet(duty)
      /\ (duty # {} => Cardinality(duty) # 0)
  <2>1. duty \subseteq Accounts
    BY RelayerFacts
  <2>2. IsFiniteSet(duty)
    BY <2>1, MarketAssumption, FS_Subset
  <2> QED BY <2>1, <2>2, FS_CardinalityType, FS_EmptySet
<1> HIDE DEF duty
<1>8. /\ average \in Nat /\ average * Cardinality(duty) \in Nat
      /\ average * Cardinality(duty) <= surplus
  <2> DEFINE k == Cardinality(duty)
             pot == Ratio(DutyRelayersRewardRatio, surplus)
  <2>1. pot \in Nat /\ pot <= surplus /\ k \in Nat
    BY <1>6, <1>7, RatioBound, MarketAssumption
  <2>2. CASE duty = {}
    <3>1. average = 0
      BY <2>2
    <3> HIDE DEF average, k
    <3>2. average \in Nat /\ average * k = 0
      BY <2>1, <3>1
    <3> QED BY <1>6, <3>2 DEF k
  <2>3. CASE duty # {}
    <3>1. average = pot \div k /\ k # 0
      BY <1>7, <2>3
    <3> HIDE DEF average, k, pot
    <3>2. average \in Nat /\ average * k \in Nat /\ average * k <= pot
      BY <2>1, <3>1
    <3>3. average * k <= surplus
      BY <1>6, <2>1, <3>2
    <3> QED BY <3>2, <3>3 DEF k
  <2> QED BY <2>2, <2>3
<1> DEFINE shared == average * Cardinality(duty)
<1> HIDE DEF average
<1>9. treasury \in Nat /\ shared + treasury <= surplus /\ shared \in Nat
  <2>1. shared \in Nat /\ shared <= surplus
    BY <1>8
  <2>2. treasury = IF slot = 0 THEN 0 ELSE SaturatingSub(surplus, shared)
    OBVIOUS
  <2> HIDE DEF treasury, shared
  <2> QED BY <1>6, <2>1, <2>2 DEF SaturatingSub
<1> HIDE DEF treasury, shared
\* The shares of the reward.
<1>10. reward \in Nat
  BY <1>3, <1>5
<1>11. forConfirm \in Nat /\ forDeliver \in Nat /\ forConfirm + forDeliver <= reward
  <2>1. /\ ConfirmRelayersRewardRatio \in 0..100 /\ MessageRelayersRewardRatio \in 0..100
        /\ ConfirmRelayersRewardRatio + MessageRelayersRewardRatio <= 100
    <3>1. /\ MessageRelayersRewardRatio \in 0..100
          /\ ConfirmRelayersRewardRatio \in 0..(100 - MessageRelayersRewardRatio)
      BY MarketAssumption
    <3> QED BY <3>1
  <2> HIDE DEF reward
  <2> QED BY <1>10, <2>1, RatioBound, RatioShares
<1>12. reward = price + after.slashed
  OBVIOUS
<1> HIDE DEF reward, forConfirm, forDeliver
\* The new ledger.
<1>13. /\ next = [collateral |-> after.collateral, free |-> after.free, fund |-> after.fund,
                  slashed |-> after.slashed, confirm |-> after.confirm + forConfirm,
                  deliver |-> delivered, duty |-> served,
                  treasury |-> after.treasury + treasury]
  <2>1. after = [collateral |-> after.collateral, free |-> after.free, fund |-> after.fund,
                 slashed |-> after.slashed, confirm |-> after.confirm, deliver |-> after.deliver,
                 duty |-> after.duty, treasury |-> after.treasury]
    BY <1>2 DEF Ledger
  <2>2. next = [after EXCEPT !.confirm = after.confirm + forConfirm, !.deliver = delivered,
                             !.duty = served, !.treasury = after.treasury + treasury]
    <3>1. DOMAIN after = {"collateral", "free", "fund", "slashed", "confirm", "deliver", "duty",
                          "treasury"}
      BY <2>1
    <3> QED BY <1>1, <3>1
  <2> DEFINE r == [collateral |-> after.collateral, free |-> after.free, fund |-> after.fund,
                   slashed |-> after.slashed, confirm |-> after.confirm + forConfirm,
                   deliver |-> delivered, duty |-> served,
                   treasury |-> after.treasury + treasury]
  <2> HIDE DEF delivered, served, treasury
  <2>3. DOMAIN next = DOMAIN r
    BY <2>1, <2>2
  <2>4. \A x \in DOMAIN r : next[x] = r[x]
    BY <2>1, <2>2
  <2> QED BY <2>2, <2>3, <2>4
<1>14. delivered \in [Accounts -> Nat]
  BY <1>3, <1>11
<1>15. served \in [Accounts -> Nat]
  BY <1>3, <1>8
<1>16. SumFunctionOnSet(delivered, Accounts) = SumFunctionOnSet(after.deliver, Accounts) + forDeliver
  <2> DEFINE f == after.deliver
  <2>1. /\ \A who \in Accounts : f[who] \in Int /\ delivered[who] \in Int
        /\ \A who \in Accounts \ {deliverer} : delivered[who] = f[who]
        /\ delivered[deliverer] = f[deliverer] + forDeliver
    BY <1>3, <1>11, <1>14
  <2>2. IsFiniteSet(Accounts)
    BY MarketAssumption
  <2> HIDE DEF delivered, f
  <2>3. SumFunctionOnSet(delivered, Accounts)
          = SumFunctionOnSet(f, Accounts) - f[deliverer] + delivered[deliverer]
    BY <2>1, <2>2, SumChange
  <2>4. SumFunctionOnSet(f, Accounts) \in Int /\ f[deliverer] \in Int
    BY <2>1, <2>2, SumInt
  <2>5. SumFunctionOnSet(delivered, Accounts) = SumFunctionOnSet(f, Accounts) + forDeliver
    BY <1>11, <2>1, <2>3, <2>4
  <2> QED BY <2>5 DEF f
<1>17. SumFunctionOnSet(served, Accounts) = SumFunctionOnSet(after.duty, Accounts) + shared
  <2> DEFINE f == after.duty
  <2>1. \A who \in Accounts : /\ f[who] \in Int
                              /\ served[who] = f[who] + (IF who \in duty THEN average ELSE 0)
    BY <1>3
  <2>2. IsFiniteSet(Accounts) /\ duty \in SUBSET Accounts
    BY <1>7, MarketAssumption
  <2> HIDE DEF served, f
  <2>3. SumFunctionOnSet(served, Accounts)
          = SumFunctionOnSet(f, Accounts) + average * Cardinality(duty)
    BY <1>8, <2>1, <2>2, SumShares
  <2> QED BY <2>3 DEF f, shared
<1> HIDE DEF delivered, served
<1>18. /\ next.collateral = after.collateral /\ next.free = after.free /\ next.fund = after.fund
       /\ next.confirm = after.confirm + forConfirm /\ next.deliver = delivered
       /\ next.duty = served /\ next.treasury = after.treasury + treasury
  BY <1>13
<1>19. next \in Ledger
  <2>1. after.confirm + forConfirm \in Nat /\ after.treasury + treasury \in Nat
    BY <1>3, <1>9, <1>11
  <2> QED BY <1>3, <1>13, <1>14, <1>15, <2>1 DEF Ledger
<1>20. next.fund - Owed(next) >= ledger.fund - Owed(ledger) - OrderFee(order)
  <2> DEFINE a == ledger.confirm
             b == SumFunctionOnSet(ledger.deliver, Accounts)
             c == SumFunctionOnSet(ledger.duty, Accounts)
             d == ledger.treasury
             x == ledger.fund
             y == after.slashed
  <2>1. a \in Nat /\ b \in Nat /\ c \in Nat /\ d \in Nat /\ x \in Nat /\ y \in Nat
    BY <1>3, OwedType DEF Ledger
  <2>2. Owed(ledger) = a + b + c + d
    BY DEF Owed
  <2>3. Owed(next) = (a + forConfirm) + (b + forDeliver) + (c + shared) + (d + treasury)
    BY <1>2, <1>16, <1>17, <1>18 DEF Owed
  <2>4. next.fund = x + y
    BY <1>2, <1>18
  <2> HIDE DEF a, b, c, d, x, y
  <2>5. forConfirm + forDeliver + shared + treasury <= OrderFee(order) + y
    BY <1>4, <1>5, <1>6, <1>9, <1>11, <1>12, <2>1 DEF y
  <2>6. (x + y) - ((a + forConfirm) + (b + forDeliver) + (c + shared) + (d + treasury))
          >= x - (a + b + c + d) - OrderFee(order)
    BY <1>4, <1>9, <1>11, <2>1, <2>5
  <2> QED BY <2>2, <2>3, <2>4, <2>6 DEF x
<1> QED BY <1>2, <1>18, <1>19, <1>20

-----------------------------------------------------------------------------
(* Settling all orders of a delivery. *)

\* Who is slashed had let a slot pass.
LEMMA OffendersAreLate ==
    ASSUME NEW order, Settles(order), order.confirm_time = block, order.sent_time <= block,
           NEW who \in Offenders(order)
    PROVE  IsLate(order, who)
<1> DEFINE l == Len(order.assigned_relayers)
           c == ConfirmedSlot(order)
           Ended(i) == block >= order.sent_time + i * Slot
<1>1. /\ l \in Nat /\ l > 0 /\ c \in 0..l
      /\ c = 0 => \A i \in 1..l : ~InSlot(order, i)
      /\ c # 0 => InSlot(order, c)
  BY SlotFacts
<1>2. order.sent_time \in Nat /\ block \in Nat /\ Slot \in Nat
  BY MarketAssumption DEF Settles, IsOrder, Order
<1>3. \A i \in 1..l : /\ order.assigned_relayers[i].valid_range.start
                           = order.sent_time + (i - 1) * Slot
                      /\ order.assigned_relayers[i].valid_range.end = order.sent_time + i * Slot
  BY DEF Settles, IsOrder
<1>4. \A i \in 1..l : InSlot(order, i) <=> /\ order.sent_time + (i - 1) * Slot <= block
                                           /\ block < order.sent_time + i * Slot
  BY <1>3 DEF InSlot
<1>5. PICK i \in 1..l : order.assigned_relayers[i].id = who /\ (c # 0 => i <= c - 1)
  <2>1. PICK i \in (IF c = 0 THEN 1..l ELSE 1..(c - 1)) : OrderIds(order)[i] = who
    BY DEF Offenders
  <2>2. i \in 1..l /\ (c # 0 => i <= c - 1)
    BY <1>1, <2>1
  <2>3. OrderIds(order)[i] = order.assigned_relayers[i].id
    BY <2>2 DEF OrderIds
  <2> QED BY <2>1, <2>2, <2>3
<1> HIDE DEF l, c
<1>6. CASE c = 0
  <2> DEFINE S == {k \in 0..l : Ended(k)}
  <2>1. 0 \in S
    BY <1>1, <1>2
  <2>2. ASSUME NEW k \in 0..l, k \in S, k < l PROVE k + 1 \in S
    <3>1. k + 1 \in 1..l /\ k + 1 \in 0..l /\ (k + 1) - 1 = k
      BY <1>1, <2>2
    <3>2. ~(/\ order.sent_time + k * Slot <= block
            /\ block < order.sent_time + (k + 1) * Slot)
      BY <1>1, <1>4, <1>6, <3>1
    <3>3. order.sent_time + (k + 1) * Slot \in Int /\ order.sent_time + k * Slot \in Int
      BY <1>2
    <3>4. order.sent_time + k * Slot <= block
      BY <1>2, <2>2, <3>3
    <3>5. Ended(k + 1)
      BY <1>2, <3>2, <3>3, <3>4
    <3> QED BY <3>1, <3>5
  <2> HIDE DEF S
  <2>3. 0 <= l /\ i \in 0..l
    BY <1>1
  <2>4. i \in S
    BY <1>1, <2>1, <2>2, <2>3, SetOfInterval
  <2>5. Ended(i)
    BY <2>4 DEF S
  <2> QED BY <1>5, <2>5 DEF IsLate, l
<1>7. CASE c # 0
  <2>1. c \in 1..l /\ i <= c - 1 /\ i \in Nat /\ c - 1 \in Nat
    BY <1>1, <1>5, <1>7
  <2>2. order.sent_time + (c - 1) * Slot <= block
    BY <1>1, <1>4, <1>7, <2>1
  <2>3. i * Slot <= (c - 1) * Slot /\ i * Slot \in Nat /\ (c - 1) * Slot \in Nat
    <3> DEFINE d == c - 1
    <3>1. d \in Nat /\ i <= d
      BY <2>1
    <3> HIDE DEF d
    <3>2. i * Slot <= d * Slot /\ i * Slot \in Nat /\ d * Slot \in Nat
      BY <1>2, <2>1, <3>1
    <3> QED BY <3>2 DEF d
  <2>4. Ended(i)
    BY <1>2, <2>2, <2>3
  <2> QED BY <1>5, <2>4 DEF IsLate, l
<1> QED BY <1>6, <1>7

\* The orders that are still open once those up to nonce n are settled, the ones who is
\* responsible for, and the settled ones who was late for.
After(n) == {k \in OpenOrders(orders) : k > n}
AfterOf(n, who) == {k \in OpenOrdersOf(orders, who) : k > n}
Late(n, who) == {k \in (received + 1)..n : IsLate(orders[k], who)}

FeesAfter(n) == SumFunctionOnSet(OrderFees(orders), After(n))
LockedAfter(n, who) == SumFunctionOnSet(LockedPerOrder(orders), AfterOf(n, who))
LockedLate(n, who) == SumFunctionOnSet(LockedPerOrder(orders), Late(n, who))

LEMMA OpenOrdersAre ==
    ASSUME MarketInv
    PROVE  /\ OpenOrders(orders) = (received + 1)..generated
           /\ OpenOrders(orders) \subseteq DOMAIN orders
           /\ IsFiniteSet(DOMAIN orders) /\ WellFormed(orders)
           /\ received \in Nat /\ generated \in Nat /\ block \in Nat /\ received <= generated
<1>1. OrdersInv /\ MarketTypeOK
  BY DEF MarketInv
<1>2. received \in Nat /\ generated \in Nat /\ block \in Nat /\ received <= generated
      /\ DOMAIN orders \subseteq 1..generated
  BY <1>1 DEF OrdersInv
<1>3. ASSUME NEW n \in (received + 1)..generated PROVE n \in OpenOrders(orders)
  BY <1>1 DEF OrdersInv, EveryPendingMessageHasOrder, OpenOrders
<1>4. ASSUME NEW n \in OpenOrders(orders) PROVE n \in (received + 1)..generated
  <2>1. n \in DOMAIN orders /\ ~Confirmed(orders[n]) /\ n \in 1..generated
    BY <1>2 DEF OpenOrders
  <2>2. ~(n <= received)
    <3>1. n <= received => orders[n].confirm_time = block
      BY <1>1, <2>1 DEF OrdersInv, EveryPendingMessageHasOrder
    <3> QED BY <1>2, <2>1, <3>1 DEF Confirmed, NotConfirmed
  <2> QED BY <1>2, <2>1, <2>2
<1>5. OpenOrders(orders) \subseteq DOMAIN orders
  BY DEF OpenOrders
<1>6. IsFiniteSet(DOMAIN orders) /\ WellFormed(orders)
  BY <1>1, OrdersAreFinite DEF MarketTypeOK
<1> QED BY <1>2, <1>3, <1>4, <1>5, <1>6

LEMMA MarkedFacts ==
    ASSUME MarketInv, NEW upto \in (received + 1)..generated, NEW marked,
           marked = OnMessagesDelivered((received + 1)..upto)
    PROVE  /\ DOMAIN marked = DOMAIN orders
           /\ \A n \in (received + 1)..upto :
                /\ n \in DOMAIN marked /\ Settles(marked[n])
                /\ marked[n] = [orders[n] EXCEPT !.confirm_time = block]
                /\ OrderFee(marked[n]) = OrderFee(orders[n])
                /\ OrderIds(marked[n]) = OrderIds(orders[n])
                /\ \A who \in Offenders(marked[n]) : IsLate(orders[n], who)
           /\ \A n \in DOMAIN orders \ ((received + 1)..upto) : marked[n] = orders[n]
<1>1. /\ OpenOrders(orders) = (received + 1)..generated
      /\ WellFormed(orders) /\ block \in Nat /\ received \in Nat /\ generated \in Nat
  BY OpenOrdersAre
<1>2. DOMAIN marked = DOMAIN orders
  BY DEF OnMessagesDelivered
<1>3. ASSUME NEW n \in (received + 1)..upto
      PROVE  /\ n \in DOMAIN marked /\ Settles(marked[n])
             /\ marked[n] = [orders[n] EXCEPT !.confirm_time = block]
             /\ OrderFee(marked[n]) = OrderFee(orders[n])
             /\ OrderIds(marked[n]) = OrderIds(orders[n])
             /\ \A who \in Offenders(marked[n]) : IsLate(orders[n], who)
  <2>1. n \in OpenOrders(orders)
    <3>1. n \in (received + 1)..generated
      BY <1>1, <1>3
    <3> QED BY <1>1, <3>1
  <2>2. n \in DOMAIN orders /\ ~Confirmed(orders[n])
    BY <2>1 DEF OpenOrders
  <2>3. marked[n] = [orders[n] EXCEPT !.confirm_time = block]
    BY <2>2 DEF OnMessagesDelivered
  <2>4. IsOrder(orders[n]) /\ orders[n] \in Order
    BY <1>1, <2>2 DEF WellFormed, IsOrder
  <2>5. /\ marked[n] \in Order
        /\ marked[n].confirm_time = block /\ marked[n].sent_time = orders[n].sent_time
        /\ marked[n].assigned_relayers = orders[n].assigned_relayers
    BY <1>1, <2>3, <2>4, SMTT(40) DEF Order
  <2>6. OrderFee(marked[n]) = OrderFee(orders[n]) /\ OrderIds(marked[n]) = OrderIds(orders[n])
    BY <2>5 DEF OrderFee, OrderIds
  <2>7. Settles(marked[n])
    <3>1. IsOrder(marked[n])
      BY <2>4, <2>5, <2>6 DEF IsOrder
    <3> QED BY <1>1, <2>5, <3>1 DEF Settles
  <2>8. marked[n].sent_time <= block
    BY <2>2, <2>5 DEF MarketInv, MarketTypeOK
  <2>9. ASSUME NEW who \in Offenders(marked[n]) PROVE IsLate(orders[n], who)
    <3>1. IsLate(marked[n], who)
      BY <2>5, <2>7, <2>8, OffendersAreLate
    <3> QED BY <2>5, <3>1 DEF IsLate
  <2> QED BY <1>2, <2>2, <2>3, <2>6, <2>7, <2>9
<1>4. \A n \in DOMAIN orders \ ((received + 1)..upto) : marked[n] = orders[n]
  BY DEF OnMessagesDelivered
<1> QED BY <1>2, <1>3, <1>4

\* One more order is settled.
LEMMA AfterStep ==
    ASSUME MarketInv, NEW n \in received..generated, n < generated, NEW who
    PROVE  /\ FeesAfter(n) = OrderFee(orders[n + 1]) + FeesAfter(n + 1)
           /\ LockedAfter(n, who) = LockedAfter(n + 1, who)
                 + (IF who \in Range(OrderIds(orders[n + 1])) THEN CollateralPerOrder ELSE 0)
           /\ LockedLate(n + 1, who) = LockedLate(n, who)
                 + (IF IsLate(orders[n + 1], who) THEN CollateralPerOrder ELSE 0)
           /\ OrderFee(orders[n + 1]) \in Nat /\ FeesAfter(n) \in Nat /\ FeesAfter(n + 1) \in Nat
           /\ LockedAfter(n, who) \in Nat /\ LockedAfter(n + 1, who) \in Nat
           /\ LockedLate(n, who) \in Nat /\ LockedLate(n + 1, who) \in Nat
<1> DEFINE new == n + 1
           f == LockedPerOrder(orders)
           g == OrderFees(orders)
<1>1. /\ OpenOrders(orders) = (received + 1)..generated
      /\ OpenOrders(orders) \subseteq DOMAIN orders
      /\ IsFiniteSet(DOMAIN orders) /\ WellFormed(orders)
      /\ received \in Nat /\ generated \in Nat
  BY OpenOrdersAre
<1>2. new \in OpenOrders(orders) /\ n \in Nat
  BY <1>1
<1>3. \A D \in SUBSET (DOMAIN orders) :
        /\ IsFiniteSet(D)
        /\ \A k \in D : f[k] = CollateralPerOrder /\ f[k] \in Nat /\ g[k] = OrderFee(orders[k])
                        /\ g[k] \in Nat
        /\ SumFunctionOnSet(f, D) \in Nat /\ SumFunctionOnSet(g, D) \in Nat
  BY <1>1, OrderSums
<1>4. new \in DOMAIN orders /\ f[new] = CollateralPerOrder /\ g[new] = OrderFee(orders[new])
      /\ f[new] \in Nat /\ g[new] \in Nat
  <2>1. {new} \in SUBSET (DOMAIN orders)
    BY <1>1, <1>2
  <2> HIDE DEF f, g, new
  <2> QED BY <1>3, <2>1
<1> HIDE DEF f, g
<1>5. ASSUME NEW D \in SUBSET (DOMAIN orders), new \notin D
      PROVE  /\ SumFunctionOnSet(f, D \cup {new}) = CollateralPerOrder + SumFunctionOnSet(f, D)
             /\ SumFunctionOnSet(g, D \cup {new})
                  = OrderFee(orders[new]) + SumFunctionOnSet(g, D)
  <2>1. IsFiniteSet(D) /\ \A k \in D : f[k] \in Int /\ g[k] \in Int
    BY <1>3
  <2>2. f[new] \in Int /\ g[new] \in Int
    BY <1>4
  <2> HIDE DEF new
  <2>3. SumFunctionOnSet(f, D \cup {new}) = f[new] + SumFunctionOnSet(f, D)
    BY <1>5, <2>1, <2>2, SumAdd
  <2>4. SumFunctionOnSet(g, D \cup {new}) = g[new] + SumFunctionOnSet(g, D)
    BY <1>5, <2>1, <2>2, SumAdd
  <2> QED BY <1>4, <2>3, <2>4
<1>6. /\ After(n) = After(new) \cup {new} /\ new \notin After(new)
      /\ After(n) \subseteq DOMAIN orders /\ After(new) \subseteq DOMAIN orders
  BY <1>1, <1>2 DEF After
<1>7. /\ AfterOf(n, who) = IF who \in Range(OrderIds(orders[new])) THEN AfterOf(new, who) \cup {new}
                                                                 ELSE AfterOf(new, who)
      /\ new \notin AfterOf(new, who)
      /\ AfterOf(n, who) \subseteq DOMAIN orders /\ AfterOf(new, who) \subseteq DOMAIN orders
  BY <1>1, <1>2 DEF AfterOf, OpenOrdersOf
<1>8. /\ Late(new, who) = IF IsLate(orders[new], who) THEN Late(n, who) \cup {new}
                                                      ELSE Late(n, who)
      /\ new \notin Late(n, who)
      /\ Late(n, who) \subseteq DOMAIN orders /\ Late(new, who) \subseteq DOMAIN orders
  <2>1. /\ (received + 1)..new = (received + 1)..n \cup {new} /\ new \notin (received + 1)..n
        /\ (received + 1)..new \subseteq DOMAIN orders
    BY <1>1, <1>2
  <2> HIDE DEF new
  <2> QED BY <2>1 DEF Late
<1> HIDE DEF new
<1>9. FeesAfter(n) = OrderFee(orders[new]) + FeesAfter(new)
  BY <1>5, <1>6 DEF FeesAfter, g
<1>10. /\ FeesAfter(n) \in Nat /\ FeesAfter(new) \in Nat
       /\ LockedAfter(n, who) \in Nat /\ LockedAfter(new, who) \in Nat
       /\ LockedLate(n, who) \in Nat /\ LockedLate(new, who) \in Nat
  BY <1>3, <1>6, <1>7, <1>8 DEF FeesAfter, LockedAfter, LockedLate, f, g
<1>11. CollateralPerOrder \in Nat
  BY MarketAssumption
<1>12. LockedAfter(n, who) = LockedAfter(new, who)
          + (IF who \in Range(OrderIds(orders[new])) THEN CollateralPerOrder ELSE 0)
  <2>1. CASE who \in Range(OrderIds(orders[new]))
    <3>1. LockedAfter(n, who) = CollateralPerOrder + LockedAfter(new, who)
      BY <1>5, <1>7, <2>1 DEF LockedAfter, f
    <3> QED BY <1>10, <1>11, <2>1, <3>1
  <2>2. CASE who \notin Range(OrderIds(orders[new]))
    <3>1. LockedAfter(n, who) = LockedAfter(new, who)
      BY <1>7, <2>2 DEF LockedAfter
    <3> QED BY <1>10, <2>2, <3>1
  <2> QED BY <2>1, <2>2
<1>13. LockedLate(new, who) = LockedLate(n, who)
          + (IF IsLate(orders[new], who) THEN CollateralPerOrder ELSE 0)
  <2>1. CASE IsLate(orders[new], who)
    <3>1. LockedLate(new, who) = CollateralPerOrder + LockedLate(n, who)
      BY <1>5, <1>8, <2>1 DEF LockedLate, f
    <3> QED BY <1>10, <1>11, <2>1, <3>1
  <2>2. CASE ~IsLate(orders[new], who)
    <3>1. LockedLate(new, who) = LockedLate(n, who)
      BY <1>8, <2>2 DEF LockedLate
    <3> QED BY <1>10, <2>2, <3>1
  <2> QED BY <2>1, <2>2
<1> QED BY <1>4, <1>9, <1>10, <1>12, <1>13 DEF new

\* The loop of calculate_rewards: orders that are not settled yet stay backed, the locks
\* stay covered, only late relayers lost collateral, and the fund has the fees of the open
\* orders besides what is owed.
LedgerInv(n, ledger) ==
    /\ ledger \in Ledger
    /\ \A who \in Accounts : /\ LockedAfter(n, who) <= ledger.collateral[who]
                             /\ ledger.collateral[who] <= ledger.free[who]
                             /\ collateral[who] - ledger.collateral[who] <= LockedLate(n, who)
    /\ ledger.fund - Owed(ledger) >= FeesAfter(n)

LEMMA NoRewardsInv ==
    ASSUME MarketInv
    PROVE  NoRewards \in Ledger /\ LedgerInv(received, NoRewards)
<1> DEFINE nobody == [who \in Accounts |-> 0]
           ledger == NoRewards
<1>1. ledger = [collateral |-> collateral, free |-> free, fund |-> fund, slashed |-> 0,
                confirm |-> 0, deliver |-> nobody, duty |-> nobody, treasury |-> 0]
  BY DEF NoRewards
<1>2. collateral \in [Accounts -> Nat] /\ free \in [Accounts -> Nat] /\ fund \in Nat
      /\ nobody \in [Accounts -> Nat]
  BY DEF MarketInv, MarketTypeOK
<1>3. SumFunctionOnSet(nobody, Accounts) = 0
  <2>1. \A who \in Accounts : nobody[who] = 0
    OBVIOUS
  <2> HIDE DEF nobody
  <2> QED BY <2>1, MarketAssumption, SumZero
<1> HIDE DEF ledger, nobody
<1>4. /\ ledger.collateral = collateral /\ ledger.free = free /\ ledger.fund = fund
      /\ ledger.confirm = 0 /\ ledger.deliver = nobody /\ ledger.duty = nobody
      /\ ledger.treasury = 0 /\ ledger \in Ledger
  BY <1>1, <1>2 DEF Ledger
<1>5. Owed(ledger) = 0
  BY <1>3, <1>4 DEF Owed
<1>6. After(received) = OpenOrders(orders) /\ \A who : AfterOf(received, who) = OpenOrdersOf(orders, who)
      /\ Late(received, who) = {}
  <2>1. OpenOrders(orders) = (received + 1)..generated /\ received \in Nat /\ generated \in Nat
        /\ (received + 1)..received = {}
    BY OpenOrdersAre
  <2>2. \A k \in OpenOrders(orders) : k > received
    BY <2>1
  <2>3. After(received) = OpenOrders(orders)
    BY <2>2 DEF After
  <2>4. \A who : AfterOf(received, who) = OpenOrdersOf(orders, who)
    BY <2>2 DEF AfterOf, OpenOrdersOf
  <2>5. \A who : Late(received, who) = {}
    BY <2>1 DEF Late
  <2> QED BY <2>3, <2>4, <2>5
<1>7. fund >= FeesAfter(received)
  BY <1>6 DEF MarketInv, FundSolvent, FeesAfter
<1>8. ASSUME NEW who \in Accounts
      PROVE  /\ LockedAfter(received, who) <= ledger.collateral[who]
             /\ ledger.collateral[who] <= ledger.free[who]
             /\ collateral[who] - ledger.collateral[who] <= LockedLate(received, who)
  <2>1. OrdersLocked(orders, who) <= collateral[who] /\ collateral[who] <= free[who]
    BY DEF MarketInv, CollateralCoversOrders
  <2>2. LockedAfter(received, who) = OrdersLocked(orders, who)
    BY <1>6 DEF LockedAfter, OrdersLocked
  <2>3. SumFunctionOnSet(LockedPerOrder(orders), {}) = 0
    BY SumEmpty
  <2>4. LockedLate(received, who) = 0
    BY <1>6, <2>3 DEF LockedLate
  <2>5. collateral[who] \in Nat
    BY <1>2
  <2> QED BY <1>4, <2>1, <2>2, <2>4, <2>5
<1>9. ledger.fund - Owed(ledger) >= FeesAfter(received)
  BY <1>2, <1>4, <1>5, <1>7
<1>10. LedgerInv(received, ledger)
  BY <1>4, <1>8, <1>9 DEF LedgerInv
<1> QED BY <1>4, <1>10 DEF ledger

LEMMA LedgerStep ==
    ASSUME MarketInv, NEW upto \in (received + 1)..generated, NEW marked,
           marked = OnMessagesDelivered((received + 1)..upto),
           NEW n \in received..upto, n < upto, NEW ledger, LedgerInv(n, ledger),
           NEW deliverer \in Accounts
    PROVE  LedgerInv(n + 1, SettleOrder(ledger, marked[n + 1], deliverer))
<1> DEFINE new == n + 1
           order == marked[new]
           next == SettleOrder(ledger, order, deliverer)
<1>1. received \in Nat /\ generated \in Nat /\ n \in received..generated /\ n < generated
      /\ new \in (received + 1)..upto
  BY OpenOrdersAre
<1>2. /\ Settles(order) /\ OrderFee(order) = OrderFee(orders[new])
      /\ OrderIds(order) = OrderIds(orders[new])
      /\ \A who \in Offenders(order) : IsLate(orders[new], who)
  BY <1>1, MarkedFacts
<1>3. slashProtect \in Nat \cup {NoProtect} /\ ledger \in Ledger
      /\ collateral \in [Accounts -> Nat]
  BY DEF MarketInv, MarketTypeOK, LedgerInv
<1> HIDE DEF order, next
<1>4. /\ next \in Ledger
      /\ \A who \in Accounts :
           /\ who \notin Offenders(order) => next.collateral[who] = ledger.collateral[who]
           /\ next.collateral[who] >= ledger.collateral[who] - CollateralPerOrder
           /\ ledger.collateral[who] <= ledger.free[who]
                => next.collateral[who] <= next.free[who]
      /\ next.fund - Owed(next) >= ledger.fund - Owed(ledger) - OrderFee(order)
  BY <1>2, <1>3, SettleFacts DEF next
<1>5. CollateralPerOrder \in Nat
  BY MarketAssumption
<1>6. ASSUME NEW who \in Accounts
      PROVE  /\ LockedAfter(new, who) <= next.collateral[who]
             /\ next.collateral[who] <= next.free[who]
             /\ collateral[who] - next.collateral[who] <= LockedLate(new, who)
  <2> DEFINE before == ledger.collateral[who]
             after == next.collateral[who]
             a == LockedAfter(n, who)
             b == LockedAfter(new, who)
             c == LockedLate(n, who)
             d == LockedLate(new, who)
             coll == collateral[who]
  <2>1. before \in Nat /\ after \in Nat /\ coll \in Nat
    BY <1>3, <1>4 DEF Ledger
  <2>2. /\ a = b + (IF who \in Range(OrderIds(orders[new])) THEN CollateralPerOrder ELSE 0)
        /\ d = c + (IF IsLate(orders[new], who) THEN CollateralPerOrder ELSE 0)
        /\ a \in Nat /\ b \in Nat /\ c \in Nat /\ d \in Nat
    BY <1>1, AfterStep
  <2>3. a <= before /\ before <= ledger.free[who] /\ coll - before <= c
    BY DEF LedgerInv
  <2>4. after <= next.free[who]
    BY <1>4, <2>3
  <2>5. after >= before - CollateralPerOrder /\ (who \notin Offenders(order) => after = before)
    BY <1>4
  <2>6. who \in Offenders(order)
          => who \in Range(OrderIds(orders[new])) /\ IsLate(orders[new], who)
    BY <1>2, RelayerFacts
  <2> HIDE DEF before, after, a, b, c, d, coll, new
  <2>7. CASE who \in Offenders(order)
    <3>1. a = b + CollateralPerOrder /\ d = c + CollateralPerOrder
      BY <2>2, <2>6, <2>7
    <3>2. b <= after /\ coll - after <= d
      BY <1>5, <2>1, <2>2, <2>3, <2>5, <3>1
    <3> QED BY <2>4, <3>2 DEF b, d, after, coll
  <2>8. CASE who \notin Offenders(order)
    <3>1. after = before /\ b <= a /\ c <= d
      BY <1>5, <2>2, <2>5, <2>8
    <3>2. b <= after /\ coll - after <= d
      BY <2>1, <2>2, <2>3, <3>1
    <3> QED BY <2>4, <3>2 DEF b, d, after, coll
  <2> QED BY <2>7, <2>8
<1>7. next.fund - Owed(next) >= FeesAfter(new)
  <2> DEFINE p == OrderFee(order)
             x == FeesAfter(n)
             y == FeesAfter(new)
             u == ledger.fund - Owed(ledger)
             v == next.fund - Owed(next)
  <2>1. x = p + y /\ p \in Nat /\ x \in Nat /\ y \in Nat
    BY <1>1, <1>2, AfterStep
  <2>2. u >= x /\ v >= u - p
    BY <1>4 DEF LedgerInv
  <2>3. u \in Int /\ v \in Int
    <3>1. Owed(ledger) \in Nat /\ Owed(next) \in Nat
      BY <1>3, <1>4, OwedType
    <3>2. ledger.fund \in Nat /\ next.fund \in Nat
      BY <1>3, <1>4 DEF Ledger
    <3> QED BY <3>1, <3>2
  <2> HIDE DEF p, x, y, u, v
  <2>4. v >= y
    BY <2>1, <2>2, <2>3
  <2> QED BY <2>4 DEF v, y
<1>8. LedgerInv(new, next)
  BY <1>4, <1>6, <1>7 DEF LedgerInv
<1> QED BY <1>8 DEF next, order, new

LEMMA SettledFacts ==
    ASSUME MarketInv, NEW upto \in (received + 1)..generated, NEW marked,
           marked = OnMessagesDelivered((received + 1)..upto),
           NEW deliverer \in [(received + 1)..upto -> Carriers]
    PROVE  LedgerInv(upto, CalculateRewards(marked, upto, deliverer))
<1> DEFINE Round(n, ledger) == IF n \notin DOMAIN marked THEN ledger
                               ELSE SettleOrder(ledger, marked[n], deliverer[n])
           step == [n \in (received + 1)..upto |-> [ledger \in Ledger |-> Round(n, ledger)]]
           Def(g) == [n \in received..upto |->
                        IF n = received THEN NoRewards
                        ELSE IF n \notin DOMAIN marked THEN g[n - 1]
                        ELSE SettleOrder(g[n - 1], marked[n], deliverer[n])]
<1>1. received \in Nat /\ generated \in Nat /\ upto \in Nat /\ received <= upto
  BY OpenOrdersAre
<1>2. \A n \in (received + 1)..upto : deliverer[n] \in Accounts
  BY MarketAssumption
<1>3. \A n \in (received + 1)..upto : n \in DOMAIN marked /\ Settles(marked[n])
  BY MarkedFacts
<1>4. ASSUME NEW n \in (received + 1)..upto, NEW ledger \in Ledger
      PROVE  Round(n, ledger) \in Ledger
  <2>1. Round(n, ledger) = SettleOrder(ledger, marked[n], deliverer[n])
    BY <1>3
  <2>2. slashProtect \in Nat \cup {NoProtect}
    BY DEF MarketInv, MarketTypeOK
  <2> QED BY <1>2, <1>3, <2>1, <2>2, SettleFacts
<1>5. step \in [(received + 1)..upto -> [Ledger -> Ledger]]
  <2> HIDE DEF Round
  <2> QED BY <1>4
<1>6. NoRewards \in Ledger /\ LedgerInv(received, NoRewards)
  BY NoRewardsInv
<1>7. PICK g \in [received..upto -> Ledger] : IsLoop(g, received, upto, NoRewards, step)
  <2> HIDE DEF step
  <2> QED BY <1>1, <1>5, <1>6, LoopExists
<1>8. g = Def(g)
  <2>1. g = [n \in received..upto |-> IF n = received THEN NoRewards ELSE step[n][g[n - 1]]]
    BY <1>7 DEF IsLoop
  <2>2. ASSUME NEW n \in received..upto
        PROVE  g[n] = IF n = received THEN NoRewards ELSE Round(n, g[n - 1])
    <3>1. CASE n = received
      BY <2>1, <3>1
    <3>2. CASE n # received
      <4>1. n \in (received + 1)..upto /\ n - 1 \in received..upto
        BY <1>1, <3>2
      <4>2. g[n - 1] \in Ledger
        BY <1>7, <4>1
      <4>3. g[n] = step[n][g[n - 1]]
        <5> HIDE DEF step
        <5> QED BY <2>1, <3>2
      <4>4. step[n][g[n - 1]] = Round(n, g[n - 1])
        <5> HIDE DEF Round
        <5> QED BY <4>1, <4>2
      <4> HIDE DEF Round, step
      <4> QED BY <3>2, <4>3, <4>4
    <3> HIDE DEF Round
    <3> QED BY <3>1, <3>2
  <2> QED BY <1>7, <2>2
<1> DEFINE settled == CHOOSE F : F = Def(F)
<1>9. settled = Def(settled)
  BY <1>8
<1>10. CalculateRewards(marked, upto, deliverer) = settled[upto]
  BY DEF CalculateRewards
<1> HIDE DEF settled
<1> DEFINE S == {n \in received..upto : LedgerInv(n, settled[n])}
<1>11. received \in S
  <2>1. settled[received] = NoRewards /\ received \in received..upto
    BY <1>1, <1>9
  <2> QED BY <1>6, <2>1
<1>12. ASSUME NEW n \in received..upto, n \in S, n < upto PROVE n + 1 \in S
  <2>1. n + 1 \in (received + 1)..upto /\ n + 1 \in received..upto /\ (n + 1) - 1 = n
        /\ n + 1 # received
    BY <1>1, <1>12
  <2>2. settled[n + 1] = SettleOrder(settled[n], marked[n + 1], deliverer[n + 1])
    BY <1>3, <1>9, <2>1
  <2>3. LedgerInv(n, settled[n]) /\ deliverer[n + 1] \in Accounts
    BY <1>2, <1>12, <2>1
  <2>4. LedgerInv(n + 1, SettleOrder(settled[n], marked[n + 1], deliverer[n + 1]))
    BY <1>12, <2>3, LedgerStep
  <2> QED BY <2>1, <2>2, <2>4
<1> HIDE DEF S
<1>13. upto \in received..upto
  BY <1>1
<1>14. upto \in S
  BY <1>1, <1>11, <1>12, <1>13, SetOfInterval
<1>15. LedgerInv(upto, settled[upto])
  BY <1>14 DEF S
<1> QED BY <1>10, <1>15

-----------------------------------------------------------------------------
(* Paying the rewards. *)

Payment == [to : Accounts \cup {Treasury}, amount : Nat]
Amounts(payments) == [i \in 1..Len(payments) |-> payments[i].amount]
Total(payments) == SumFunctionOnSet(Amounts(payments), 1..Len(payments))

LEMMA AmountsType ==
    ASSUME NEW ps \in Seq(Payment)
    PROVE  /\ Len(ps) \in Nat
           /\ \A i \in 1..Len(ps) : /\ ps[i] \in Payment /\ Amounts(ps)[i] = ps[i].amount
                                    /\ Amounts(ps)[i] \in Nat
           /\ Total(ps) \in Nat
<1>1. Len(ps) \in Nat
  BY LenProperties
<1>2. ASSUME NEW i \in 1..Len(ps)
      PROVE  ps[i] \in Payment /\ Amounts(ps)[i] = ps[i].amount /\ Amounts(ps)[i] \in Nat
  <2>1. ps[i] \in Payment
    BY ElementOfSeq
  <2> QED BY <2>1 DEF Payment, Amounts
<1>3. Total(ps) \in Nat
  <2>1. IsFiniteSet(1..Len(ps))
    BY <1>1, FS_Interval
  <2> QED BY <1>2, <2>1, SumNat DEF Total
<1> QED BY <1>1, <1>2, <1>3

LEMMA TotalConcat ==
    ASSUME NEW s \in Seq(Payment), NEW t \in Seq(Payment)
    PROVE  s \o t \in Seq(Payment) /\ Total(s \o t) = Total(s) + Total(t)
<1> DEFINE u == s \o t
           k == Len(s)
           m == Len(t)
           f == Amounts(s)
           g == Amounts(t)
           h == Amounts(u)
<1>1. /\ u \in Seq(Payment) /\ Len(u) = k + m
      /\ \A i \in 1..(k + m) : u[i] = IF i <= k THEN s[i] ELSE t[i - k]
  BY ConcatProperties
<1>2. /\ k \in Nat /\ m \in Nat
      /\ \A i \in 1..k : f[i] = s[i].amount /\ f[i] \in Nat
      /\ \A i \in 1..m : g[i] = t[i].amount /\ g[i] \in Nat
  BY AmountsType
<1>3. \A i \in 1..(k + m) : h[i] = u[i].amount /\ h[i] \in Nat
  BY <1>1, AmountsType
<1>4. Total(s) = SumFunctionOnSet(f, 1..k) /\ Total(t) = SumFunctionOnSet(g, 1..m)
      /\ Total(u) = SumFunctionOnSet(h, 1..(k + m))
  BY <1>1 DEF Total
<1> HIDE DEF u, k, m, f, g, h
<1>5. \A i \in 1..k : h[i] = f[i]
  <2> SUFFICES ASSUME NEW i \in 1..k PROVE h[i] = f[i]
    OBVIOUS
  <2>1. i \in 1..(k + m) /\ i <= k
    BY <1>2
  <2>2. u[i] = s[i]
    BY <1>1, <2>1
  <2> QED BY <1>2, <1>3, <2>1, <2>2
<1>6. \A i \in 1..m : h[k + i] = g[i]
  <2> SUFFICES ASSUME NEW i \in 1..m PROVE h[k + i] = g[i]
    OBVIOUS
  <2>1. k + i \in 1..(k + m) /\ ~(k + i <= k) /\ (k + i) - k = i
    BY <1>2
  <2>2. u[k + i] = t[i]
    BY <1>1, <2>1
  <2> QED BY <1>2, <1>3, <2>1, <2>2
<1> DEFINE Same(j) == SumFunctionOnSet(h, 1..(k + j)) = Total(s) + SumFunctionOnSet(g, 1..j)
           S == {j \in 0..m : Same(j)}
<1>7. Total(s) \in Nat
  BY AmountsType
<1>8. 0 \in S
  <2>1. IsFiniteSet(1..k)
    BY <1>2, FS_Interval
  <2>2. SumFunctionOnSet(h, 1..k) = SumFunctionOnSet(f, 1..k)
    BY <1>5, <2>1, SumSame
  <2>3. k + 0 = k /\ 1..0 = {} /\ 0 \in 0..m
    BY <1>2
  <2>4. SumFunctionOnSet(g, 1..0) = 0
    BY <2>3, SumEmpty
  <2>5. SumFunctionOnSet(h, 1..(k + 0)) = Total(s) + 0
    BY <1>4, <1>7, <2>2, <2>3
  <2> QED BY <2>3, <2>4, <2>5
<1>9. ASSUME NEW j \in 0..m, j \in S, j < m PROVE j + 1 \in S
  <2>1. /\ j \in Nat /\ j + 1 \in 1..m /\ j + 1 \in 0..m /\ k + (j + 1) = (k + j) + 1
        /\ k + j \in Int /\ 1 <= (k + j) + 1 /\ 1 <= j + 1
    BY <1>2, <1>9
  <2>2. \A i \in 1..((k + j) + 1) : h[i] \in Int
    <3>1. \A i \in 1..((k + j) + 1) : i \in 1..(k + m)
      BY <1>2, <2>1
    <3> QED BY <1>3, <3>1
  <2>3. \A i \in 1..(j + 1) : g[i] \in Int
    <3>1. \A i \in 1..(j + 1) : i \in 1..m
      BY <1>2, <2>1
    <3> QED BY <1>2, <3>1
  <2>4. SumFunctionOnSet(h, 1..((k + j) + 1)) = h[(k + j) + 1] + SumFunctionOnSet(h, 1..(k + j))
    BY <2>1, <2>2, SumNext
  <2>5. SumFunctionOnSet(g, 1..(j + 1)) = g[j + 1] + SumFunctionOnSet(g, 1..j)
    BY <2>1, <2>3, SumNext
  <2>6. h[(k + j) + 1] = g[j + 1] /\ g[j + 1] \in Nat
    BY <1>2, <1>6, <2>1
  <2>7. SumFunctionOnSet(h, 1..(k + j)) = Total(s) + SumFunctionOnSet(g, 1..j)
    BY <1>9
  <2>8. SumFunctionOnSet(g, 1..j) \in Int
    <3>1. IsFiniteSet(1..j)
      BY <2>1, FS_Interval
    <3>2. \A i \in 1..j : g[i] \in Int
      BY <2>1, <2>3
    <3> QED BY <3>1, <3>2, SumInt
  <2>9. SumFunctionOnSet(h, 1..((k + j) + 1)) = Total(s) + SumFunctionOnSet(g, 1..(j + 1))
    BY <1>7, <2>4, <2>5, <2>6, <2>7, <2>8
  <2>10. Same(j + 1)
    BY <2>1, <2>9
  <2> QED BY <2>1, <2>10
<1> HIDE DEF S
<1>10. 0 <= m /\ m \in 0..m
  BY <1>2
<1>11. m \in S
  BY <1>2, <1>8, <1>9, <1>10, SetOfInterval
<1>12. Same(m)
  BY <1>11 DEF S
<1> QED BY <1>1, <1>4, <1>12 DEF u

\* A single payment.
LEMMA TotalOne ==
    ASSUME NEW p \in Payment
    PROVE  <<p>> \in Seq(Payment) /\ Total(<<p>>) = p.amount
<1>1. <<p>> \in Seq(Payment) /\ Len(<<p>>) = 1 /\ <<p>>[1] = p
  OBVIOUS
<1>2. 1..1 = {1} /\ 1 \in 1..1
  OBVIOUS
<1>3. Amounts(<<p>>)[1] = p.amount /\ p.amount \in Int
  BY <1>1, <1>2 DEF Amounts, Payment
<1>4. SumFunctionOnSet(Amounts(<<p>>), {1}) = Amounts(<<p>>)[1]
  BY <1>3, SumSingleton
<1> QED BY <1>1, <1>2, <1>3, <1>4 DEF Total

\* One payment for everyone.
ToEveryone(sums) == [i \in 1..Len(SetToSeq(Accounts)) |->
                       [to |-> SetToSeq(Accounts)[i], amount |-> sums[SetToSeq(Accounts)[i]]]]

LEMMA TotalEach ==
    ASSUME NEW sums \in [Accounts -> Nat]
    PROVE  /\ ToEveryone(sums) \in Seq(Payment)
           /\ Total(ToEveryone(sums)) = SumFunctionOnSet(sums, Accounts)
<1> DEFINE q == SetToSeq(Accounts)
           n == Cardinality(Accounts)
           ps == ToEveryone(sums)
<1>1. IsFiniteSet(Accounts) /\ n \in Nat
  BY MarketAssumption, FS_CardinalityType
<1>2. \E f \in [1..n -> Accounts] : IsInjective(f)
  <2>1. IsFiniteSet(1..n) /\ Cardinality(1..n) = n
    BY <1>1, FS_Interval
  <2>2. ExistsBijection(1..n, Accounts)
    BY <1>1, <2>1, FS_SameCardinalityBij
  <2> QED BY <2>2 DEF ExistsBijection, Bijection, Injection
<1>3. q \in [1..n -> Accounts] /\ IsInjective(q)
  BY <1>2 DEF SetToSeq
<1>4. q \in Surjection(1..n, Accounts)
  <2>1. IsFiniteSet(1..n) /\ Cardinality(1..n) = n
    BY <1>1, FS_Interval
  <2>2. q \in Injection(1..n, Accounts)
    BY <1>3 DEF Injection
  <2> HIDE DEF q
  <2> QED BY <1>1, <2>1, <2>2, FS_Injection
<1> HIDE DEF q, n
<1>5. /\ \A i, j \in 1..n : q[i] = q[j] => i = j
      /\ \A x \in Accounts : \E i \in 1..n : q[i] = x
  BY <1>3, <1>4 DEF IsInjective, Surjection
<1>6. Len(q) = n
  BY <1>1, <1>3, LenProperties
<1>7. ps = [i \in 1..n |-> [to |-> q[i], amount |-> sums[q[i]]]]
  BY <1>6 DEF ToEveryone, q
<1>8. ASSUME NEW i \in 1..n PROVE ps[i] \in Payment /\ ps[i].amount = sums[q[i]]
  <2>1. ps[i] = [to |-> q[i], amount |-> sums[q[i]]] /\ q[i] \in Accounts /\ sums[q[i]] \in Nat
    BY <1>3, <1>7
  <2> HIDE DEF ps
  <2> QED BY <2>1 DEF Payment
<1>9. ps \in Seq(Payment) /\ Len(ps) = n
  <2>1. ps \in [1..n -> Payment]
    BY <1>7, <1>8
  <2> HIDE DEF ps
  <2> QED BY <1>1, <2>1, IsASeq, LenProperties
<1> HIDE DEF ps
<1>10. \A i \in 1..n : Amounts(ps)[i] = sums[q[i]]
  BY <1>8, <1>9 DEF Amounts
<1>11. \A x \in Accounts : sums[x] \in Int
  OBVIOUS
<1>12. SumFunctionOnSet(Amounts(ps), 1..n) = SumFunctionOnSet(sums, Accounts)
  <2> DEFINE e == Amounts(ps)
  <2>1. \A i \in 1..n : e[i] = sums[q[i]]
    BY <1>10
  <2> HIDE DEF e
  <2>2. SumFunctionOnSet(e, 1..n) = SumFunctionOnSet(sums, Accounts)
    BY <1>1, <1>3, <1>5, <1>11, <2>1, SumEnumerated, SMTT(40)
  <2> QED BY <2>2 DEF e
<1> QED BY <1>9, <1>12 DEF Total, ps

LEMMA PaymentsFacts ==
    ASSUME NEW ledger \in Ledger, NEW confirmer \in Accounts
    PROVE  /\ Payments(ledger, confirmer) \in Seq(Payment)
           /\ Total(Payments(ledger, confirmer)) = Owed(ledger)
<1> DEFINE first == <<[to |-> confirmer, amount |-> ledger.confirm]>>
           second == ToEveryone(ledger.deliver)
           third == ToEveryone(ledger.duty)
           last == <<[to |-> Treasury, amount |-> ledger.treasury]>>
<1>1. /\ ledger.confirm \in Nat /\ ledger.treasury \in Nat
      /\ ledger.deliver \in [Accounts -> Nat] /\ ledger.duty \in [Accounts -> Nat]
  BY DEF Ledger
<1>2. Payments(ledger, confirmer) = ((first \o second) \o third) \o last
  BY DEF Payments, ToEveryone
<1>3. first \in Seq(Payment) /\ Total(first) = ledger.confirm
  <2> DEFINE p == [to |-> confirmer, amount |-> ledger.confirm]
  <2>1. p \in Payment /\ p.amount = ledger.confirm
    BY <1>1 DEF Payment
  <2> HIDE DEF p
  <2>2. <<p>> \in Seq(Payment) /\ Total(<<p>>) = p.amount
    BY <2>1, TotalOne
  <2> QED BY <2>1, <2>2 DEF p
<1>4. last \in Seq(Payment) /\ Total(last) = ledger.treasury
  <2> DEFINE p == [to |-> Treasury, amount |-> ledger.treasury]
  <2>1. p \in Payment /\ p.amount = ledger.treasury
    BY <1>1 DEF Payment
  <2> HIDE DEF p
  <2>2. <<p>> \in Seq(Payment) /\ Total(<<p>>) = p.amount
    BY <2>1, TotalOne
  <2> QED BY <2>1, <2>2 DEF p
<1>5. second \in Seq(Payment) /\ Total(second) = SumFunctionOnSet(ledger.deliver, Accounts)
  BY <1>1, TotalEach
<1>6. third \in Seq(Payment) /\ Total(third) = SumFunctionOnSet(ledger.duty, Accounts)
  BY <1>1, TotalEach
<1> HIDE DEF first, second, third, last
<1>7. first \o second \in Seq(Payment) /\ Total(first \o second) = Total(first) + Total(second)
  BY <1>3, <1>5, TotalConcat
<1>8. /\ (first \o second) \o third \in Seq(Payment)
      /\ Total((first \o second) \o third) = Total(first) + Total(second) + Total(third)
  <2> DEFINE s == first \o second
  <2> HIDE DEF s
  <2>1. s \o third \in Seq(Payment) /\ Total(s \o third) = Total(s) + Total(third)
    BY <1>6, <1>7, TotalConcat DEF s
  <2> QED BY <1>7, <2>1 DEF s
<1>9. /\ ((first \o second) \o third) \o last \in Seq(Payment)
      /\ Total(((first \o second) \o third) \o last)
           = Total(first) + Total(second) + Total(third) + Total(last)
  <2> DEFINE s == (first \o second) \o third
  <2> HIDE DEF s
  <2>1. s \o last \in Seq(Payment) /\ Total(s \o last) = Total(s) + Total(last)
    BY <1>4, <1>8, TotalConcat DEF s
  <2> QED BY <1>8, <2>1 DEF s
<1> QED BY <1>2, <1>3, <1>4, <1>5, <1>6, <1>9 DEF Owed

Purse == [fund : Nat, free : [Accounts -> Nat], unpaid : Nat]

LEMMA DoRewardFacts ==
    ASSUME NEW purse \in Purse, NEW p \in Payment, NEW next, next = DoReward(purse, p)
    PROVE  /\ next \in Purse
           /\ \A who \in Accounts : next.free[who] >= purse.free[who]
           /\ p.amount <= purse.fund
                => next.fund = purse.fund - p.amount /\ next.unpaid = purse.unpaid
<1> DEFINE richer == [who \in Accounts |-> IF who = p.to THEN purse.free[who] + p.amount
                                                         ELSE purse.free[who]]
<1>1. /\ purse.fund \in Nat /\ purse.free \in [Accounts -> Nat] /\ purse.unpaid \in Nat
      /\ p.amount \in Nat
  BY DEF Purse, Payment
<1>2. CASE p.amount > purse.fund
  <2>1. next = [purse EXCEPT !.unpaid = @ + p.amount]
    BY <1>2 DEF DoReward
  <2>2. next = [fund |-> purse.fund, free |-> purse.free, unpaid |-> purse.unpaid + p.amount]
    BY <2>1 DEF Purse
  <2>3. next \in Purse /\ next.free = purse.free
    BY <1>1, <2>2 DEF Purse
  <2>4. \A who \in Accounts : next.free[who] >= purse.free[who]
    BY <1>1, <2>3
  <2> QED BY <1>1, <1>2, <2>3, <2>4
<1>3. CASE ~(p.amount > purse.fund)
  <2>1. next = [purse EXCEPT !.fund = @ - p.amount,
                             !.free = [who \in Accounts |-> IF who = p.to THEN @[who] + p.amount
                                                                          ELSE @[who]]]
    BY <1>3 DEF DoReward
  <2>2. next = [fund |-> purse.fund - p.amount, free |-> richer, unpaid |-> purse.unpaid]
    BY <2>1 DEF Purse
  <2>3. purse.fund - p.amount \in Nat
    BY <1>1, <1>3
  <2>4. \A who \in Accounts : richer[who] \in Nat /\ richer[who] >= purse.free[who]
    BY <1>1
  <2>5. richer \in [Accounts -> Nat]
    BY <2>4
  <2> HIDE DEF richer
  <2>6. next \in Purse /\ next.free = richer /\ next.fund = purse.fund - p.amount
        /\ next.unpaid = purse.unpaid
    BY <1>1, <2>2, <2>3, <2>5 DEF Purse
  <2> QED BY <2>4, <2>6
<1> QED BY <1>2, <1>3

\* All rewards are paid when the fund has their total.
LEMMA PaidFacts ==
    ASSUME NEW ledger \in Ledger, NEW ps \in Seq(Payment), Total(ps) <= ledger.fund, unpaid = 0,
           NEW purse, purse = PayRelayersRewards(ledger, ps)
    PROVE  /\ purse \in Purse /\ purse.unpaid = 0
           /\ purse.fund = ledger.fund - Total(ps)
           /\ \A who \in Accounts : purse.free[who] >= ledger.free[who]
<1> DEFINE m == Len(ps)
           e == Amounts(ps)
           start == [fund |-> ledger.fund, free |-> ledger.free, unpaid |-> unpaid]
           step == [i \in 1..m |-> [x \in Purse |-> DoReward(x, ps[i])]]
           Def(g) == [i \in 0..m |-> IF i = 0 THEN start ELSE DoReward(g[i - 1], ps[i])]
<1>1. m \in Nat /\ \A i \in 1..m : ps[i] \in Payment /\ e[i] = ps[i].amount /\ e[i] \in Nat
  BY AmountsType
<1>2. ledger.fund \in Nat /\ ledger.free \in [Accounts -> Nat]
  BY DEF Ledger
<1>3. start \in Purse /\ start.fund = ledger.fund /\ start.free = ledger.free /\ start.unpaid = 0
  BY <1>2 DEF Purse
<1>4. \A i \in 1..m : \A x \in Purse : DoReward(x, ps[i]) \in Purse
  BY <1>1, DoRewardFacts
<1>5. step \in [1..m -> [Purse -> Purse]]
  BY <1>4
<1> HIDE DEF start, e
<1>6. PICK g \in [0..m -> Purse] : IsLoop(g, 0, m, start, step)
  <2> HIDE DEF step, m
  <2>1. 0 + 1 = 1 /\ 0 <= m
    BY <1>1
  <2>2. step \in [(0 + 1)..m -> [Purse -> Purse]]
    BY <1>5, <2>1
  <2>3. 0 \in Nat /\ m \in Nat /\ start \in Purse
    BY <1>1, <1>3
  <2> QED BY <2>1, <2>2, <2>3, LoopExists
<1>7. g = Def(g)
  <2>1. g = [i \in 0..m |-> IF i = 0 THEN start ELSE step[i][g[i - 1]]]
    BY <1>6 DEF IsLoop
  <2>2. ASSUME NEW i \in 0..m PROVE g[i] = IF i = 0 THEN start ELSE DoReward(g[i - 1], ps[i])
    <3>1. CASE i = 0
      BY <2>1, <3>1
    <3>2. CASE i # 0
      <4>1. i \in 1..m /\ i - 1 \in 0..m
        BY <1>1, <3>2
      <4>2. g[i - 1] \in Purse
        BY <1>6, <4>1
      <4>3. g[i] = step[i][g[i - 1]]
        <5> HIDE DEF step
        <5> QED BY <2>1, <3>2
      <4>4. step[i][g[i - 1]] = DoReward(g[i - 1], ps[i])
        BY <4>1, <4>2
      <4> HIDE DEF step
      <4> QED BY <3>2, <4>3, <4>4
    <3> QED BY <3>1, <3>2
  <2> QED BY <1>6, <2>2
<1> DEFINE paid == CHOOSE F : F = Def(F)
<1>8. paid = Def(paid)
  BY <1>7
<1>9. purse = paid[m]
  BY DEF PayRelayersRewards, start
<1> HIDE DEF paid
<1> DEFINE Part(i) == SumFunctionOnSet(e, 1..i)
           Holds(i) == /\ paid[i] \in Purse /\ paid[i].unpaid = 0
                       /\ paid[i].fund = ledger.fund - Part(i)
                       /\ \A who \in Accounts : paid[i].free[who] >= ledger.free[who]
           S == {i \in 0..m : Holds(i)}
<1>10. ASSUME NEW i \in 0..m PROVE Part(i) \in Nat /\ Part(i) <= Total(ps)
  <2>1. 1..i \subseteq 1..m /\ i \in Nat
    BY <1>1
  <2>2. IsFiniteSet(1..m) /\ IsFiniteSet(1..i)
    <3>1. 1 \in Int /\ m \in Int /\ i \in Int
      BY <1>1, <2>1
    <3> HIDE DEF m
    <3> QED BY <3>1, FS_Interval
  <2>3. \A j \in 1..i : e[j] \in Int /\ e[j] <= e[j] /\ e[j] \in Nat
    BY <1>1, <2>1
  <2>4. Part(i) \in Nat
    BY <2>2, <2>3, SumNat
  <2>5. SumFunctionOnSet(e, 1..i) <= SumFunctionOnSet(e, 1..m)
    <3> DEFINE T == 1..i
               U == 1..m
    <3>1. T \in SUBSET U /\ IsFiniteSet(U) /\ (\A j \in T : e[j] \in Int /\ e[j] <= e[j])
          /\ \A j \in U : e[j] \in Nat
      BY <1>1, <2>1, <2>2, <2>3
    <3> HIDE DEF T, U
    <3>2. SumFunctionOnSet(e, T) <= SumFunctionOnSet(e, U)
      BY <3>1, SumMonotone
    <3> QED BY <3>2 DEF T, U
  <2> QED BY <2>4, <2>5 DEF Total, e
<1>11. 0 \in S
  <2>1. paid[0] = start /\ 0 \in 0..m /\ 1..0 = {}
    BY <1>1, <1>8
  <2>2. Part(0) = 0
    BY <2>1, SumEmpty
  <2>3. ledger.fund - 0 = ledger.fund /\ \A who \in Accounts : ledger.free[who] >= ledger.free[who]
    BY <1>2
  <2> HIDE DEF Part
  <2> QED BY <1>3, <2>1, <2>2, <2>3
<1>12. ASSUME NEW i \in 0..m, i \in S, i < m PROVE i + 1 \in S
  <2> DEFINE a == ps[i + 1].amount
             x == paid[i]
             y == paid[i + 1]
  <2>1. i \in Nat /\ i + 1 \in 1..m /\ i + 1 \in 0..m /\ (i + 1) - 1 = i /\ i + 1 # 0
    BY <1>1, <1>12
  <2>2. y = DoReward(x, ps[i + 1])
    BY <1>8, <2>1
  <2>3. /\ x \in Purse /\ x.unpaid = 0 /\ x.fund = ledger.fund - Part(i)
        /\ \A who \in Accounts : x.free[who] >= ledger.free[who]
    BY <1>12
  <2>4. Part(i + 1) = a + Part(i)
    <3>1. \A j \in 1..(i + 1) : e[j] \in Int
      <4>1. \A j \in 1..(i + 1) : j \in 1..m
        BY <1>1, <2>1
      <4> QED BY <1>1, <4>1
    <3>2. 1 \in Int /\ i \in Int /\ 1 <= i + 1
      BY <2>1
    <3>3. SumFunctionOnSet(e, 1..(i + 1)) = e[i + 1] + SumFunctionOnSet(e, 1..i)
      BY <3>1, <3>2, SumNext
    <3> QED BY <1>1, <2>1, <3>3
  <2>5. /\ Part(i) \in Nat /\ Part(i + 1) \in Nat /\ Part(i + 1) <= Total(ps)
        /\ ps[i + 1] \in Payment
    BY <1>1, <1>10, <2>1
  <2>6. a \in Nat /\ Total(ps) \in Nat
    BY <2>5, AmountsType DEF Payment
  <2> HIDE DEF x, y, a, Part
  <2>7. a <= x.fund
    BY <1>2, <2>3, <2>4, <2>5, <2>6
  <2>8. /\ y \in Purse /\ y.unpaid = 0 /\ y.fund = x.fund - a
        /\ \A who \in Accounts : y.free[who] >= x.free[who]
    BY <2>2, <2>3, <2>5, <2>7, DoRewardFacts, SMTT(40) DEF a
  <2>9. y.fund = ledger.fund - Part(i + 1)
    BY <1>2, <2>3, <2>4, <2>5, <2>6, <2>8
  <2>10. ASSUME NEW who \in Accounts PROVE y.free[who] >= ledger.free[who]
    <3>1. y.free[who] \in Nat /\ x.free[who] \in Nat /\ ledger.free[who] \in Nat
      BY <1>2, <2>3, <2>8 DEF Purse
    <3>2. y.free[who] >= x.free[who] /\ x.free[who] >= ledger.free[who]
      BY <2>3, <2>8
    <3> QED BY <3>1, <3>2
  <2> QED BY <2>1, <2>8, <2>9, <2>10 DEF y
<1> HIDE DEF S
<1>13. 0 <= m /\ m \in 0..m
  BY <1>1
<1>14. m \in S
  BY <1>1, <1>11, <1>12, <1>13, SetOfInterval
<1>15. Holds(m)
  BY <1>14 DEF S
<1>16. Part(m) = Total(ps)
  BY DEF Total, e
<1> HIDE DEF Part
<1> QED BY <1>9, <1>15, <1>16

-----------------------------------------------------------------------------
(* receive_messages_delivery_proof *)

\* The orders that stay open are those of the later messages, as they were.
LEMMA MarkedOrders ==
    ASSUME MarketInv, NEW upto \in (received + 1)..generated, NEW marked,
           marked = OnMessagesDelivered((received + 1)..upto)
    PROVE  /\ WellFormed(marked) /\ \A n \in DOMAIN marked : marked[n].sent_time <= block
           /\ \A who : /\ OrdersLocked(marked, who) = LockedAfter(upto, who)
                       /\ Occupied(marked, who) => Occupied(orders, who)
           /\ SumFunctionOnSet(OrderFees(marked), OpenOrders(marked)) = FeesAfter(upto)
           /\ FeesAfter(upto) \in Nat
<1> DEFINE I == (received + 1)..upto
<1>1. /\ OpenOrders(orders) = (received + 1)..generated
      /\ OpenOrders(orders) \subseteq DOMAIN orders
      /\ IsFiniteSet(DOMAIN orders) /\ WellFormed(orders)
      /\ received \in Nat /\ generated \in Nat /\ block \in Nat
  BY OpenOrdersAre
<1>2. /\ DOMAIN marked = DOMAIN orders
      /\ \A n \in DOMAIN orders \ I : marked[n] = orders[n]
  BY MarkedFacts
<1>3. \A n \in I : /\ Settles(marked[n]) /\ n \in DOMAIN orders
                   /\ marked[n] = [orders[n] EXCEPT !.confirm_time = block]
  BY <1>2, MarkedFacts
<1>4. \A n \in After(upto) : n \in DOMAIN orders \ I /\ n \in OpenOrders(orders)
  BY <1>1 DEF After
<1>5. ASSUME NEW n \in OpenOrders(orders), n \notin I PROVE n \in After(upto)
  BY <1>1, <1>5 DEF After
<1> HIDE DEF I
<1>6. WellFormed(marked) /\ \A n \in DOMAIN marked : marked[n].sent_time <= block
  <2>1. ASSUME NEW n \in DOMAIN marked PROVE IsOrder(marked[n]) /\ marked[n].sent_time <= block
    <3>1. IsOrder(orders[n]) /\ orders[n].sent_time <= block /\ orders[n] \in Order
      BY <1>1, <1>2 DEF WellFormed, MarketInv, MarketTypeOK, IsOrder
    <3>2. CASE n \in I
      <4>1. IsOrder(marked[n]) /\ marked[n] = [orders[n] EXCEPT !.confirm_time = block]
        BY <1>3, <3>2 DEF Settles
      <4>2. marked[n].sent_time = orders[n].sent_time
        BY <3>1, <4>1 DEF Order
      <4> QED BY <3>1, <4>1, <4>2
    <3>3. CASE n \notin I
      BY <1>2, <3>1, <3>3
    <3> QED BY <3>2, <3>3
  <2> QED BY <2>1 DEF WellFormed
<1>7. OpenOrders(marked) = After(upto)
  <2>1. ASSUME NEW n \in OpenOrders(marked) PROVE n \in After(upto)
    <3>1. n \in DOMAIN orders /\ ~Confirmed(marked[n])
      BY <1>2 DEF OpenOrders
    <3>2. n \notin I
      <4> SUFFICES ASSUME n \in I PROVE FALSE
        OBVIOUS
      <4>1. marked[n].confirm_time \in Nat
        BY <1>3 DEF Settles
      <4> QED BY <3>1, <4>1 DEF Confirmed, NotConfirmed
    <3>3. n \in OpenOrders(orders)
      BY <1>2, <3>1, <3>2 DEF OpenOrders
    <3> QED BY <1>5, <3>2, <3>3
  <2>2. ASSUME NEW n \in After(upto) PROVE n \in OpenOrders(marked)
    BY <1>2, <1>4 DEF OpenOrders
  <2> QED BY <2>1, <2>2
<1>8. \A n \in After(upto) : marked[n] = orders[n] /\ n \in DOMAIN orders
  BY <1>2, <1>4
<1>9. ASSUME NEW who PROVE OpenOrdersOf(marked, who) = AfterOf(upto, who)
  <2>1. AfterOf(upto, who) = {n \in After(upto) : who \in Range(OrderIds(orders[n]))}
    BY DEF AfterOf, After, OpenOrdersOf
  <2>2. OpenOrdersOf(marked, who) = {n \in After(upto) : who \in Range(OrderIds(marked[n]))}
    BY <1>7 DEF OpenOrdersOf
  <2> QED BY <1>8, <2>1, <2>2
<1>10. ASSUME NEW who
       PROVE  /\ OrdersLocked(marked, who) = LockedAfter(upto, who)
              /\ Occupied(marked, who) => Occupied(orders, who)
  <2> DEFINE O == AfterOf(upto, who)
             f == LockedPerOrder(marked)
             e == LockedPerOrder(orders)
  <2>1. O \subseteq After(upto) /\ O \subseteq OpenOrdersOf(orders, who)
    BY DEF AfterOf, After, OpenOrdersOf
  <2>2. O \subseteq DOMAIN orders
    BY <1>8, <2>1
  <2>3. IsFiniteSet(O)
    BY <1>1, <2>2, FS_Subset
  <2>4. \A n \in O : f[n] = e[n]
    BY <1>2, <1>8, <2>1 DEF LockedPerOrder
  <2> HIDE DEF f, e, O
  <2>5. SumFunctionOnSet(f, O) = SumFunctionOnSet(e, O)
    BY <2>3, <2>4, SumSame
  <2>6. OrdersLocked(marked, who) = LockedAfter(upto, who)
    BY <1>9, <2>5 DEF OrdersLocked, LockedAfter, f, e, O
  <2>7. Occupied(marked, who) => Occupied(orders, who)
    BY <1>9, <2>1 DEF Occupied, O
  <2> QED BY <2>6, <2>7
<1>11. SumFunctionOnSet(OrderFees(marked), OpenOrders(marked)) = FeesAfter(upto)
       /\ FeesAfter(upto) \in Nat
  <2> DEFINE O == After(upto)
             f == OrderFees(marked)
             e == OrderFees(orders)
  <2>1. O \in SUBSET (DOMAIN orders)
    BY <1>8
  <2>2. IsFiniteSet(O) /\ SumFunctionOnSet(OrderFees(orders), O) \in Nat
    BY <1>1, <2>1, OrderSums
  <2>3. \A n \in O : f[n] = e[n]
    BY <1>2, <1>8 DEF OrderFees
  <2> HIDE DEF f, e, O
  <2>4. SumFunctionOnSet(f, O) = SumFunctionOnSet(e, O)
    BY <2>2, <2>3, SumSame
  <2> QED BY <1>7, <2>2, <2>4 DEF FeesAfter, f, e, O
<1> QED BY <1>6, <1>10, <1>11

\* The settled orders are paid in full, the other ones stay backed, and only the relayers
\* that were late lose collateral.
LEMMA ConfirmationKeepsMarket ==
    ASSUME MarketInv, NEW upto \in (received + 1)..generated,
           NEW deliverer \in [(received + 1)..upto -> Carriers], NEW confirmer \in Carriers,
           ReceiveDeliveryProof(upto, deliverer, confirmer)
    PROVE  /\ MarketInv'
           /\ \A who \in Accounts : collateral[who] - collateral'[who] <= LockedLate(upto, who)
<1> DEFINE marked == OnMessagesDelivered((received + 1)..upto)
           ledger == CalculateRewards(marked, upto, deliverer)
           ps == Payments(ledger, confirmer)
           purse == PayRelayersRewards(ledger, ps)
<1>1. /\ received' = upto /\ orders' = marked /\ collateral' = ledger.collateral
      /\ free' = purse.free /\ fund' = purse.fund /\ unpaid' = purse.unpaid
      /\ relayers' = relayers /\ fee' = fee /\ slashProtect' = slashProtect
      /\ assignedNumber' = assignedNumber /\ block' = block
      /\ assigned' = Market(relayers', collateral', fee', orders', assignedNumber')
  BY DEF ReceiveDeliveryProof, UpdateMarket
<1>2. LedgerInv(upto, ledger)
  BY SettledFacts
<1>3. /\ WellFormed(marked) /\ \A n \in DOMAIN marked : marked[n].sent_time <= block
      /\ \A who : /\ OrdersLocked(marked, who) = LockedAfter(upto, who)
                  /\ Occupied(marked, who) => Occupied(orders, who)
      /\ SumFunctionOnSet(OrderFees(marked), OpenOrders(marked)) = FeesAfter(upto)
      /\ FeesAfter(upto) \in Nat
  BY MarkedOrders
<1> HIDE DEF marked, ledger
<1>4. ledger \in Ledger /\ confirmer \in Accounts
  BY <1>2, MarketAssumption DEF LedgerInv
<1>5. ledger.fund \in Nat /\ Owed(ledger) \in Nat /\ ledger.collateral \in [Accounts -> Nat]
      /\ ledger.free \in [Accounts -> Nat]
  BY <1>4, OwedType DEF Ledger
<1>6. ps \in Seq(Payment) /\ Total(ps) = Owed(ledger)
  BY <1>4, PaymentsFacts
<1> HIDE DEF ps
<1>7. ledger.fund - Owed(ledger) >= FeesAfter(upto)
  BY <1>2 DEF LedgerInv
<1>8. Total(ps) <= ledger.fund /\ unpaid = 0
  <2>1. Owed(ledger) <= ledger.fund
    BY <1>3, <1>5, <1>7
  <2> QED BY <1>6, <2>1 DEF MarketInv, FundSolvent
<1>9. /\ purse \in Purse /\ purse.unpaid = 0 /\ purse.fund = ledger.fund - Total(ps)
      /\ \A who \in Accounts : purse.free[who] >= ledger.free[who]
  BY <1>4, <1>6, <1>8, PaidFacts
<1> HIDE DEF purse
<1>10. /\ fund' \in Nat /\ free' \in [Accounts -> Nat] /\ unpaid' = 0
       /\ fund' >= FeesAfter(upto)
  <2>1. purse.fund \in Nat /\ purse.free \in [Accounts -> Nat]
    BY <1>9 DEF Purse
  <2> QED BY <1>1, <1>6, <1>7, <1>9, <2>1
<1>11. \A who \in Accounts : /\ LockedAfter(upto, who) <= collateral'[who]
                             /\ collateral'[who] <= free'[who]
                             /\ collateral[who] - collateral'[who] <= LockedLate(upto, who)
  <2> SUFFICES ASSUME NEW who \in Accounts
               PROVE  /\ LockedAfter(upto, who) <= collateral'[who]
                      /\ collateral'[who] <= free'[who]
                      /\ collateral[who] - collateral'[who] <= LockedLate(upto, who)
    OBVIOUS
  <2>1. /\ LockedAfter(upto, who) <= ledger.collateral[who]
        /\ ledger.collateral[who] <= ledger.free[who]
        /\ collateral[who] - ledger.collateral[who] <= LockedLate(upto, who)
    BY <1>2 DEF LedgerInv
  <2>2. free'[who] >= ledger.free[who]
    BY <1>1, <1>9
  <2>3. free'[who] \in Nat /\ ledger.free[who] \in Nat /\ ledger.collateral[who] \in Nat
    BY <1>5, <1>10
  <2>4. collateral'[who] <= free'[who]
    BY <1>1, <2>1, <2>2, <2>3
  <2> QED BY <1>1, <2>1, <2>4
<1>12. MarketTypeOK'
  <2>1. WellFormed(orders)' /\ \A n \in DOMAIN orders' : orders'[n].sent_time <= block'
    BY <1>1, <1>3 DEF WellFormed, IsOrder, OrderFee
  <2>2. /\ relayers' \in Seq(Accounts) /\ fee' \in [Accounts -> Nat]
        /\ assignedNumber' \in Nat /\ slashProtect' \in Nat \cup {NoProtect}
    BY <1>1, InvTypes
  <2>3. collateral' \in [Accounts -> Nat]
    BY <1>1, <1>5
  <2> QED BY <1>10, <2>1, <2>2, <2>3 DEF MarketTypeOK
<1>13. OrdersInv'
  BY ConfirmationKeepsOrders DEF MarketInv
<1>14. MarketIsFresh'
  BY <1>1 DEF MarketIsFresh
<1>15. CollateralCoversOrders'
  <2>1. \A who \in Accounts : Occupied(orders, who) => who \in Range(relayers)
    BY DEF MarketInv, CollateralCoversOrders
  <2>2. \A who \in Accounts : /\ Occupied(orders', who) => who \in Range(relayers')
                              /\ OrdersLocked(orders', who) <= collateral'[who]
                              /\ collateral'[who] <= free'[who]
    BY <1>1, <1>3, <1>11, <2>1
  <2> QED BY <2>2 DEF CollateralCoversOrders, Occupied, OpenOrdersOf, OpenOrders, OrdersLocked,
                      LockedPerOrder, Confirmed, OrderIds
<1>16. FundSolvent'
  <2>1. fund' >= SumFunctionOnSet(OrderFees(orders'), OpenOrders(orders')) /\ unpaid' = 0
    BY <1>1, <1>3, <1>10
  <2> QED BY <2>1 DEF FundSolvent, OrderFees, OpenOrders, OrderFee, Confirmed
<1>17. MarketInv'
  BY <1>12, <1>13, <1>14, <1>15, <1>16 DEF MarketInv
<1> QED BY <1>11, <1>17

-----------------------------------------------------------------------------
(* All steps. *)

LEMMA NextMarketInv == LocksTyped /\ MarketInv /\ [Next]_marketVars => MarketInv'
<1> SUFFICES ASSUME LocksTyped, MarketInv, [Next]_marketVars
             PROVE  MarketInv'
  OBVIOUS
<1>1. CASE RelayerCall
  BY <1>1, RelayerCallKeepsMarket
<1>2. CASE RootCall
  BY <1>2, RootCallKeepsMarket
<1>3. CASE \E overpayment \in Overpayments : SendMessage(overpayment)
  BY <1>3, SendKeepsMarket
<1>4. CASE \E upto \in (received + 1)..generated :
             \E deliverer \in [(received + 1)..upto -> Carriers], confirmer \in Carriers :
               ReceiveDeliveryProof(upto, deliverer, confirmer)
  BY <1>4, ConfirmationKeepsMarket
<1>5. CASE OnFinalize
  BY <1>5, FinalizeKeepsMarket
<1>6. CASE UNCHANGED marketVars
  <2>1. MarketIsFresh' /\ UNCHANGED <<orders, fund, block, generated, received, unpaid>>
        /\ UNCHANGED <<relayers, collateral, fee, free, assignedNumber, slashProtect>>
    BY <1>6 DEF marketVars, MarketInv, MarketIsFresh
  <2> QED BY <2>1, InvTypes, RegistryStep
<1> QED BY <1>1, <1>2, <1>3, <1>4, <1>5, <1>6 DEF Next, LaneCall

\* update_market is called wherever the choice could change, by relayers, root, messages
\* and slashes, and not where it could not (Spend, set_slash_protect, on_finalize), so the
\* relayers that the next message is given to are always the cheapest ones able to serve,
\* for any number of relayers and any fees and collaterals.
THEOREM AssignedAreAlwaysBest == Spec => []AssignedAreBest
<1>1. MarketInv => AssignedAreBest
  BY FreshIsBest DEF MarketInv
<1> QED BY <1>1, InitLocks, NextLocks, InitMarketInv, NextMarketInv, PTL DEF Spec

\* decrease_locked_collateral and cancel_enrollment release no collateral that an order
\* needs, and slash_assigned_relayer never takes more from a relayer than the orders it
\* closes had locked, nor lowers the collateral of one that did not pay: the collateral
\* covers the open orders, and the balance of the relayer covers the collateral.
THEOREM OpenOrdersAreBacked == Spec => []CollateralCoversOrders
<1>1. MarketInv => CollateralCoversOrders
  BY DEF MarketInv
<1> QED BY <1>1, InitLocks, NextLocks, InitMarketInv, NextMarketInv, PTL DEF Spec

\* Whatever the ratios, the rounding of the shares and the number of messages confirmed at
\* once, pay_relayers_rewards never owes more than the fees and the slashes of the orders
\* it settles: do_reward never fails, and the fees of the open orders stay in the fund.
THEOREM FundIsSolvent == Spec => []FundSolvent
<1>1. MarketInv => FundSolvent
  BY DEF MarketInv
<1> QED BY <1>1, InitLocks, NextLocks, InitMarketInv, NextMarketInv, PTL DEF Spec

\* calculate_rewards slashes a relayer at most by the collateral of the orders whose slot
\* it let pass, over all the orders of a confirmation.
THEOREM SlashesAreForLateness == Spec => OnlyLateRelayersSlashed
<1> DEFINE Slashed == received' # received =>
                        \A who \in Accounts :
                           collateral[who] - collateral'[who] <=
                             SumFunctionOnSet(LockedPerOrder(orders),
                                {n \in (received + 1)..received' : IsLate(orders[n], who)})
<1>1. MarketInv /\ [Next]_marketVars => [Slashed]_marketVars
  <2> SUFFICES ASSUME MarketInv, Next, received' # received PROVE Slashed
    OBVIOUS
  <2>1. ~RelayerCall /\ ~RootCall /\ ~OnFinalize
    BY DEF RelayerCall, Enroll, IncreaseLockedCollateral, DecreaseLockedCollateral,
           SetCollateral, UpdateRelayFee, CancelEnrollment, Spend, LockElsewhere, RootCall,
           SetSlashProtect, SetAssignedRelayersNumber, OnFinalize, lane
  <2>2. \A overpayment \in Overpayments : ~SendMessage(overpayment)
    BY DEF SendMessage
  <2>3. PICK upto \in (received + 1)..generated :
          \E deliverer \in [(received + 1)..upto -> Carriers], confirmer \in Carriers :
            ReceiveDeliveryProof(upto, deliverer, confirmer)
    BY <2>1, <2>2 DEF Next, LaneCall
  <2>4. \A who \in Accounts : collateral[who] - collateral'[who] <= LockedLate(upto, who)
    BY <2>3, ConfirmationKeepsMarket
  <2>5. received' = upto
    BY <2>3 DEF ReceiveDeliveryProof
  <2> QED BY <2>4, <2>5 DEF LockedLate, Late
<1> QED BY <1>1, InitLocks, NextLocks, InitMarketInv, NextMarketInv, PTL DEF Spec, OnlyLateRelayersSlashed

\* on_messages_accepted, on_messages_delivered and on_finalize agree with the lane:
\* calculate_rewards finds an open order for every message that is confirmed, however
\* many are confirmed at once and in whichever block, and no order outlives the block
\* of its confirmation, so none is paid or slashed twice.
THEOREM PendingMessagesHaveOrders == Spec => []EveryPendingMessageHasOrder
<1>1. OrdersInv => EveryPendingMessageHasOrder
  BY DEF OrdersInv
<1> QED BY <1>1, InitOrdersInv, NextOrdersInv, PTL DEF Spec
=============================================================================
