-------------------------- MODULE LightClientProofs --------------------------
(***************************************************************************)
(* Proofs about the GRANDPA light client and the parachains pallet on top  *)
(* of it.  The light client: what it stores, which authority set it        *)
(* follows, and that it only goes forward, for every chain, every size of  *)
(* the ring buffer and every limit.  The parachains pallet: what it stores *)
(* of every parachain, for every number of parachains, every size of the   *)
(* two ring buffers and every order in which relayers prove heads at       *)
(* stored relay headers.                                                   *)
(***************************************************************************)
EXTENDS ParachainHeads, SumProofs, SequenceTheorems, FiniteSetTheorems, TLAPS

-----------------------------------------------------------------------------
(* Ring buffers.  The pallets keep the hashes of what they imported in a      *)
(* function ring on 0..(size - 1), with the position next that is written     *)
(* next, and 0 where nothing was written yet.  Both the light client          *)
(* (ImportedHashes) and the parachains pallet (ImportedParaHashes) replace    *)
(* the oldest entry by a newer one.                                           *)

RingPositions(size) == 0..(size - 1)

\* How many entries were written after the one at position i.
Age(size, next, i) == IF i < next THEN next - 1 - i ELSE next + size - 1 - i

\* Older entries are smaller, or were never written.
Descending(ring, size, next) ==
    \A i, j \in RingPositions(size) :
        Age(size, next, i) < Age(size, next, j) => ring[j] < ring[i] \/ ring[j] = 0

\* What the ring holds.
Entries(ring, size) == {ring[i] : i \in RingPositions(size)} \ {0}

\* insert_header and update_parachain_head: write one entry, move the pointer.
Write(ring, next, n) == [ring EXCEPT ![next] = n]
After(size, next) == (next + 1) % size

AllBelow(ring, size, n) == \A i \in RingPositions(size) : ring[i] < n

\* The position after the pointer, without the remainder.
LEMMA PointerAfterWrite ==
    ASSUME NEW size \in Nat \ {0}, NEW next \in RingPositions(size)
    PROVE  /\ (next + 1) % size \in RingPositions(size)
           /\ next + 1 < size => (next + 1) % size = next + 1
           /\ next + 1 = size => (next + 1) % size = 0
BY DEF RingPositions

\* The entry of a given age is found by counting back from the pointer.
LEMMA PositionOfAge ==
    ASSUME NEW size \in Nat \ {0}, NEW next \in RingPositions(size),
           NEW k \in RingPositions(size)
    PROVE  LET i == (next + size - 1 - k) % size
           IN  i \in RingPositions(size) /\ Age(size, next, i) = k
<1> DEFINE i == (next + size - 1 - k) % size
<1>1. CASE k < next
  <2>1. next - 1 - k \in Nat /\ next - 1 - k < size
    BY <1>1 DEF RingPositions
  <2>2. i = next - 1 - k
    BY <2>1 DEF RingPositions
  <2> QED BY <1>1, <2>2 DEF RingPositions, Age
<1>2. CASE ~(k < next)
  <2>1. i = next + size - 1 - k
    BY <1>2 DEF RingPositions
  <2> QED BY <1>2, <2>1 DEF RingPositions, Age
<1> QED BY <1>1, <1>2

\* The age of every entry once the position next is written.
LEMMA AgesAfterWrite ==
    ASSUME NEW size \in Nat \ {0}, NEW next \in RingPositions(size),
           NEW i \in RingPositions(size)
    PROVE  LET new == (next + 1) % size
           IN  /\ Age(size, next, i) \in RingPositions(size)
               /\ i = next => Age(size, new, i) = 0 /\ Age(size, next, i) = size - 1
               /\ i # next => /\ Age(size, new, i) = Age(size, next, i) + 1
                              /\ Age(size, next, i) < size - 1
<1> DEFINE new == (next + 1) % size
<1>1. Age(size, next, i) \in RingPositions(size)
  BY DEF RingPositions, Age
<1>2. /\ i = next => Age(size, next, i) = size - 1
      /\ i # next => Age(size, next, i) < size - 1
  BY DEF RingPositions, Age
<1>3. CASE next + 1 < size
  <2>1. new = next + 1
    BY <1>3, PointerAfterWrite
  <2> HIDE DEF new
  <2> QED BY <1>1, <1>2, <1>3, <2>1 DEF RingPositions, Age
<1>4. CASE next + 1 = size
  <2>1. new = 0
    BY <1>4, PointerAfterWrite
  <2> HIDE DEF new
  <2> QED BY <1>1, <1>2, <1>4, <2>1 DEF RingPositions, Age
<1> QED BY <1>3, <1>4 DEF RingPositions

\* After a write, the position before the pointer is the one that was written.
LEMMA NewestPosition ==
    ASSUME NEW size \in Nat \ {0}, NEW next \in RingPositions(size)
    PROVE  (((next + 1) % size) + size - 1 - 0) % size = next
<1> DEFINE new == (next + 1) % size
<1>1. CASE next + 1 < size
  <2>1. new = next + 1
    BY <1>1, PointerAfterWrite
  <2> HIDE DEF new
  <2>2. (new + size - 1 - 0) % size = next
    BY <2>1 DEF RingPositions
  <2> QED BY <2>2 DEF new
<1>2. CASE next + 1 = size
  <2>1. new = 0
    BY <1>2, PointerAfterWrite
  <2> HIDE DEF new
  <2>2. (new + size - 1 - 0) % size = next
    BY <2>1, <1>2 DEF RingPositions
  <2> QED BY <2>2 DEF new
<1> QED BY <1>1, <1>2 DEF RingPositions

\* An entry that is newer than all others goes to the oldest position: the order is
\* kept, no entry is above the new one, and the set of entries loses exactly the one
\* that was overwritten.
LEMMA WriteNewest ==
    ASSUME NEW size \in Nat \ {0}, NEW next \in RingPositions(size),
           NEW ring \in [RingPositions(size) -> Nat],
           NEW n \in Nat \ {0},
           AllBelow(ring, size, n),
           Descending(ring, size, next)
    PROVE  /\ Write(ring, next, n) \in [RingPositions(size) -> Nat]
           /\ After(size, next) \in RingPositions(size)
           /\ Descending(Write(ring, next, n), size, After(size, next))
           /\ Entries(Write(ring, next, n), size) = (Entries(ring, size) \cup {n}) \ {ring[next]}
           /\ n \in Entries(Write(ring, next, n), size)
           /\ \A i \in RingPositions(size) : Write(ring, next, n)[i] <= n
<1> DEFINE P == RingPositions(size)
           written == [ring EXCEPT ![next] = n]
           new == (next + 1) % size
<1>1. written \in [P -> Nat] /\ new \in P
  BY PointerAfterWrite
<1>2. Descending(written, size, new)
  <2> SUFFICES ASSUME NEW i \in P, NEW j \in P, Age(size, new, i) < Age(size, new, j)
               PROVE  written[j] < written[i] \/ written[j] = 0
    BY DEF Descending
  <2>1. j # next
    <3> SUFFICES ASSUME j = next PROVE FALSE
      OBVIOUS
    <3>1. Age(size, new, j) = 0
      BY AgesAfterWrite
    <3>2. Age(size, new, i) \in Nat
      BY AgesAfterWrite, <1>1 DEF RingPositions
    <3> QED BY <3>1, <3>2
  <2>2. CASE i = next
    BY <2>1, <2>2 DEF AllBelow
  <2>3. CASE i # next
    <3>1. /\ Age(size, new, i) = Age(size, next, i) + 1
          /\ Age(size, new, j) = Age(size, next, j) + 1
          /\ Age(size, next, i) \in Nat /\ Age(size, next, j) \in Nat
      BY <2>1, <2>3, AgesAfterWrite DEF RingPositions
    <3>2. Age(size, next, i) < Age(size, next, j)
      BY <3>1
    <3> QED BY <3>2, <2>1, <2>3 DEF Descending
  <2> QED BY <2>2, <2>3
<1>3. ASSUME NEW i \in P, i # next
      PROVE  ring[i] # ring[next] \/ ring[next] = 0
  <2>1. Age(size, next, i) < Age(size, next, next)
    BY <1>3, AgesAfterWrite DEF RingPositions
  <2>2. ring[next] < ring[i] \/ ring[next] = 0
    BY <2>1, <1>3 DEF Descending
  <2> QED BY <2>2, <1>3
<1>4. n # ring[next]
  BY DEF AllBelow
<1>5. Entries(written, size) = (Entries(ring, size) \cup {n}) \ {ring[next]}
  <2>1. ASSUME NEW h \in Entries(written, size)
        PROVE  h \in (Entries(ring, size) \cup {n}) \ {ring[next]}
    <3>1. PICK i \in P : h = written[i] /\ h # 0
      BY DEF Entries
    <3>2. CASE i = next
      BY <3>1, <3>2, <1>4
    <3>3. CASE i # next
      <4>1. h = ring[i]
        BY <3>1, <3>3
      <4>2. h # ring[next]
        BY <4>1, <3>1, <1>3, <3>3
      <4> QED BY <4>1, <4>2, <3>1 DEF Entries
    <3> QED BY <3>2, <3>3
  <2>2. ASSUME NEW h \in (Entries(ring, size) \cup {n}) \ {ring[next]}
        PROVE  h \in Entries(written, size)
    <3>1. CASE h = n
      <4>1. h = written[next] /\ h # 0
        BY <3>1
      <4> QED BY <4>1 DEF Entries
    <3>2. CASE h # n
      <4>1. PICK i \in P : h = ring[i] /\ h # 0
        BY <3>2, <2>2 DEF Entries
      <4>2. i # next
        BY <4>1, <2>2
      <4>3. h = written[i]
        BY <4>1, <4>2
      <4> QED BY <4>1, <4>3 DEF Entries
    <3> QED BY <3>1, <3>2
  <2> QED BY <2>1, <2>2
<1>6. \A i \in P : written[i] <= n
  BY DEF AllBelow
<1>7. n \in Entries(written, size)
  BY <1>4, <1>5
<1> QED BY <1>1, <1>2, <1>5, <1>6, <1>7 DEF Write, After

\* A ring to which nothing was written.
LEMMA EmptyRing ==
    ASSUME NEW size \in Nat \ {0}
    PROVE  LET ring == [i \in RingPositions(size) |-> 0]
           IN  /\ ring \in [RingPositions(size) -> Nat]
               /\ 0 \in RingPositions(size)
               /\ Descending(ring, size, 0)
               /\ Entries(ring, size) = {}
BY DEF RingPositions, Descending, Entries

-----------------------------------------------------------------------------
(* The inductive invariant of the light client. *)

GrandpaTypeOK ==
    /\ chain \in Seq(Kinds)
    /\ best \in 0..Len(chain)
    /\ hashes \in [Positions -> Nat]
    /\ pointer \in Positions
    /\ setId \in Nat
    /\ requests \in Nat
    /\ mode \in BasicOperatingModes

\* RingExact alone is not inductive: that the overwritten hash is nowhere else in the
\* ring takes the order of all entries, that a new header is newer than all of them
\* takes the bound by the best one, and before initialize the pointer must be at the
\* position that initialize writes.
RingInv ==
    /\ Descending(hashes, HeadersToKeep, pointer)
    /\ headers = Entries(hashes, HeadersToKeep)
    /\ \A i \in Positions : hashes[i] <= best
    /\ best # None => hashes[(pointer + HeadersToKeep - 1 - 0) % HeadersToKeep] = best
    /\ best = None => pointer = 0

GrandpaInv == GrandpaTypeOK /\ RingInv /\ AuthoritySetFollowsChain

-----------------------------------------------------------------------------
(* The ring buffer. *)

LEMMA RingInvImpliesRingExact ==
    ASSUME GrandpaTypeOK, RingInv
    PROVE  RingExact
<1> USE GrandpaAssumption
<1> DEFINE Back(k) == hashes[(pointer + HeadersToKeep - 1 - k) % HeadersToKeep]
<1>1. headers = {hashes[i] : i \in Positions} \ {None}
  BY DEF RingInv, Entries, RingPositions, Positions, None
<1>2. best # None => Back(0) = best
  BY DEF RingInv
<1>3. ASSUME NEW k \in 1..(HeadersToKeep - 1)
      PROVE  Back(k) < Back(k - 1) \/ Back(k) = None
  <2> DEFINE i == (pointer + HeadersToKeep - 1 - (k - 1)) % HeadersToKeep
             j == (pointer + HeadersToKeep - 1 - k) % HeadersToKeep
  <2>1. pointer \in RingPositions(HeadersToKeep)
    BY DEF GrandpaTypeOK, Positions, RingPositions
  <2>2. k \in RingPositions(HeadersToKeep) /\ k - 1 \in RingPositions(HeadersToKeep)
    BY <1>3 DEF RingPositions
  <2>3. i \in RingPositions(HeadersToKeep) /\ Age(HeadersToKeep, pointer, i) = k - 1
    BY <2>1, <2>2, PositionOfAge
  <2>4. j \in RingPositions(HeadersToKeep) /\ Age(HeadersToKeep, pointer, j) = k
    BY <2>1, <2>2, PositionOfAge
  <2>5. Age(HeadersToKeep, pointer, i) < Age(HeadersToKeep, pointer, j)
    BY <2>3, <2>4, <1>3
  <2> HIDE DEF i, j
  <2>6. hashes[j] < hashes[i] \/ hashes[j] = 0
    BY <2>3, <2>4, <2>5 DEF RingInv, Descending
  <2> QED BY <2>6 DEF i, j, None
<1> QED BY <1>1, <1>2, <1>3 DEF RingExact

LEMMA InsertHeaderKeepsRing ==
    ASSUME GrandpaTypeOK, RingInv,
           NEW n \in 1..Len(chain), best < n,
           InsertHeader(n, pointer)
    PROVE  /\ RingInv'
           /\ hashes' \in [Positions -> Nat]
           /\ pointer' \in Positions
<1> USE GrandpaAssumption
<1> DEFINE H == HeadersToKeep
<1>1. /\ pointer \in RingPositions(H)
      /\ hashes \in [RingPositions(H) -> Nat]
      /\ H \in Nat \ {0}
      /\ n \in Nat \ {0}
  BY DEF GrandpaTypeOK, Positions, RingPositions
<1>2. AllBelow(hashes, H, n)
  BY <1>1 DEF GrandpaTypeOK, RingInv, AllBelow, RingPositions, Positions
<1>3. Descending(hashes, H, pointer)
  BY DEF RingInv
<1>4. /\ hashes' = [hashes EXCEPT ![pointer] = n]
      /\ pointer' = (pointer + 1) % H
      /\ best' = n
      /\ headers' = (headers \cup {n}) \ {hashes[pointer]}
  BY DEF InsertHeader, NextPointer
<1>5. /\ hashes' \in [RingPositions(H) -> Nat]
      /\ pointer' \in RingPositions(H)
      /\ Descending(hashes', H, pointer')
      /\ Entries(hashes', H) = (Entries(hashes, H) \cup {n}) \ {hashes[pointer]}
      /\ \A i \in RingPositions(H) : hashes'[i] <= n
  <2>1. hashes' = Write(hashes, pointer, n) /\ pointer' = After(H, pointer)
    BY <1>4 DEF Write, After
  <2> HIDE DEF H
  <2>2. /\ Write(hashes, pointer, n) \in [RingPositions(H) -> Nat]
        /\ After(H, pointer) \in RingPositions(H)
        /\ Descending(Write(hashes, pointer, n), H, After(H, pointer))
        /\ Entries(Write(hashes, pointer, n), H) = (Entries(hashes, H) \cup {n}) \ {hashes[pointer]}
        /\ \A i \in RingPositions(H) : Write(hashes, pointer, n)[i] <= n
    BY <1>1, <1>2, <1>3, WriteNewest
  <2> QED BY <2>1, <2>2
<1>6. hashes'[(pointer' + H - 1 - 0) % H] = n
  <2>1. (pointer' + H - 1 - 0) % H = pointer
    <3> HIDE DEF H
    <3> QED BY <1>1, <1>4, NewestPosition
  <2> QED BY <1>1, <1>4, <2>1
<1>7. best' # None
  BY <1>1, <1>4 DEF None
<1>8. headers' = Entries(hashes', H)
  BY <1>4, <1>5 DEF RingInv
<1>9. \A i \in Positions : hashes'[i] <= best'
  BY <1>4, <1>5 DEF RingPositions, Positions
<1> QED BY <1>4, <1>5, <1>6, <1>7, <1>8, <1>9 DEF RingInv, RingPositions, Positions

-----------------------------------------------------------------------------
(* The authority sets of the bridged chain. *)

\* Every log that a header may carry has a delay.
LEMMA ChangeType ==
    ASSUME NEW m \in 1..Len(chain), chain \in Seq(Kinds)
    PROVE  ChangeAt(m) # <<>> => ChangeAt(m)[1].delay \in Nat
<1> USE GrandpaAssumption
<1>1. chain[m] \in DOMAIN HeaderKinds
  <2>1. chain[m] \in Kinds
    BY ElementOfSeq
  <2> QED BY <2>1
<1>2. ASSUME NEW kind \in DOMAIN HeaderKinds, NEW log,
             ConvertFirst(HeaderKinds[kind].digest, log) # <<>>
      PROVE  ConvertFirst(HeaderKinds[kind].digest, log)[1].delay \in Nat
  <2>1. kind \in {"plain", "scheduled", "delayed", "crowded", "forced", "oversized"}
    BY <1>2 DEF HeaderKinds
  <2>2. CASE kind \in {"plain", "oversized"}
    BY <2>2, <1>2 DEF HeaderKinds, ConvertFirst
  <2>3. CASE kind \in {"scheduled", "delayed", "crowded"}
    BY <2>3, <1>2, SMTT(40) DEF HeaderKinds, ConvertFirst, Scheduled
  <2>4. CASE kind = "forced"
    BY <2>4, <1>2 DEF HeaderKinds, ConvertFirst, Scheduled, Forced
  <2> QED BY <2>1, <2>2, <2>3, <2>4
<1> QED BY <1>1, <1>2 DEF ChangeAt, FindForcedChange, FindScheduledChange, Digest

LEMMA EffectiveChangesFinite ==
    ASSUME NEW n \in Nat
    PROVE  IsFiniteSet(EffectiveChanges(n)) /\ SigningSet(n + 1) \in Nat
<1>1. IsFiniteSet(1..n)
  BY FS_Interval
<1>2. EffectiveChanges(n) \subseteq 1..n
  BY DEF EffectiveChanges
<1>3. IsFiniteSet(EffectiveChanges(n))
  BY <1>1, <1>2, FS_Subset
<1>4. (n + 1) - 1 = n
  OBVIOUS
<1> QED BY <1>3, <1>4, FS_CardinalityType DEF SigningSet

LEMMA EffectiveChangesGrow ==
    ASSUME chain \in Seq(Kinds), NEW k \in Nat, NEW n \in Nat, k <= n
    PROVE  /\ EffectiveChanges(k) \subseteq EffectiveChanges(n)
           /\ SigningSet(k + 1) <= SigningSet(n + 1)
<1>1. ASSUME NEW m \in EffectiveChanges(k)
      PROVE  m \in EffectiveChanges(n)
  <2>1. /\ m \in 1..k /\ m <= Len(chain)
        /\ ChangeAt(m) # <<>> /\ m + ChangeAt(m)[1].delay <= k
    BY <1>1 DEF EffectiveChanges
  <2>2. m \in 1..Len(chain) /\ m \in 1..n
    BY <2>1, LenProperties
  <2>3. ChangeAt(m)[1].delay \in Nat
    BY <2>1, <2>2, ChangeType
  <2>4. m + ChangeAt(m)[1].delay <= n
    BY <2>1, <2>2, <2>3
  <2> QED BY <2>1, <2>2, <2>4 DEF EffectiveChanges
<1>2. (k + 1) - 1 = k /\ (n + 1) - 1 = n
  OBVIOUS
<1> QED BY <1>1, <1>2, EffectiveChangesFinite, FS_Subset DEF SigningSet

\* The change of a header that the pallet accepts takes effect at once.
LEMMA SupportedChange ==
    ASSUME NEW n \in 1..Len(chain), SupportsChange(n)
    PROVE  /\ ChangeAt(n) = FindScheduledChange(n)
           /\ ChangeAt(n) # <<>> => ChangeAt(n)[1].delay = 0
BY DEF SupportsChange, ChangeAt

\* The header that is imported may be the one after which a delayed change takes
\* effect; if it is not, the set that it enacts is the one that follows it.
LEMMA SubmitFollowsChain ==
    ASSUME GrandpaTypeOK, AuthoritySetFollowsChain, best # None,
           NEW n \in 1..Len(chain), best < n,
           VerifyJustification(n), SupportsChange(n)
    PROVE  \/ EnactChange(n) = SigningSet(n + 1)
           \/ /\ \E m \in 1..n : ChangeAt(m) # <<>> /\ ChangeAt(m)[1].delay > 0
              /\ EnactChange(n) < SigningSet(n + 1)
<1> DEFINE before == EffectiveChanges(n - 1)
           after == EffectiveChanges(n)
           own == {m \in {n} : ChangeAt(n) # <<>>}
<1>1. /\ chain \in Seq(Kinds) /\ best \in Nat /\ setId \in Nat
      /\ n \in Nat /\ n - 1 \in Nat /\ best <= n - 1
      /\ n <= Len(chain) /\ Len(chain) \in Nat
      /\ (n - 1) + 1 = n /\ (n + 1) - 1 = n
  BY LenProperties DEF GrandpaTypeOK, None
<1>2. Cardinality(before) = setId
  BY DEF VerifyJustification, SigningSet
<1>3. IsFiniteSet(before) /\ IsFiniteSet(after)
  BY <1>1, EffectiveChangesFinite
<1>4. before \subseteq after
  BY <1>1, EffectiveChangesGrow
<1>5. own \subseteq after
  BY <1>1, SupportedChange DEF EffectiveChanges
<1>6. n \notin before
  BY <1>1 DEF EffectiveChanges
<1>7. IsFiniteSet(before \cup own) /\ Cardinality(before \cup own) = EnactChange(n)
  <2>1. ChangeAt(n) = FindScheduledChange(n)
    BY SupportedChange
  <2>2. CASE ChangeAt(n) # <<>>
    <3>1. before \cup own = before \cup {n}
      BY <2>2
    <3>2. IsFiniteSet(before \cup {n}) /\ Cardinality(before \cup {n}) = Cardinality(before) + 1
      BY <1>3, <1>6, FS_AddElement
    <3> QED BY <2>1, <2>2, <3>1, <3>2, <1>2 DEF EnactChange
  <2>3. CASE ChangeAt(n) = <<>>
    <3>1. before \cup own = before
      BY <2>3
    <3> QED BY <2>1, <2>3, <3>1, <1>2, <1>3 DEF EnactChange
  <2> QED BY <2>2, <2>3
<1>8. Cardinality(after) = SigningSet(n + 1)
  BY <1>1 DEF SigningSet
<1> HIDE DEF before, after, own
<1>9. CASE after = before \cup own
  BY <1>7, <1>8, <1>9
<1>10. CASE after # before \cup own
  <2>1. PICK m \in after : m \notin before \cup own
    BY <1>4, <1>5, <1>10
  <2>2. /\ m \in 1..n /\ m <= Len(chain)
        /\ ChangeAt(m) # <<>> /\ m + ChangeAt(m)[1].delay <= n
    BY <2>1 DEF after, EffectiveChanges
  <2>3. m # n
    BY <2>1, <2>2 DEF own
  <2>4. m \in 1..(n - 1) /\ m \in 1..Len(chain)
    BY <2>2, <2>3, <1>1
  <2>5. ~(m + ChangeAt(m)[1].delay <= n - 1)
    BY <2>1, <2>2, <2>4 DEF before, EffectiveChanges
  <2>6. ChangeAt(m)[1].delay \in Nat
    BY <1>1, <2>2, <2>4, ChangeType
  <2>7. ChangeAt(m)[1].delay > 0
    BY <2>4, <2>5, <2>6, <1>1
  <2>8. Cardinality(before \cup own) < Cardinality(after)
    <3>1. before \cup own \subseteq after /\ before \cup own # after
      BY <1>4, <1>5, <1>10
    <3>2. /\ Cardinality(before \cup own) <= Cardinality(after)
          /\ Cardinality(before \cup own) # Cardinality(after)
      BY <3>1, <1>3, FS_Subset
    <3>3. Cardinality(before \cup own) \in Nat /\ Cardinality(after) \in Nat
      BY <1>3, <1>7, FS_CardinalityType
    <3> QED BY <3>2, <3>3
  <2> QED BY <1>7, <1>8, <2>2, <2>7, <2>8
<1> QED BY <1>9, <1>10

\* What the bridged chain finalizes later changes nothing about the headers up to n.
LEMMA FinalizeKeepsChanges ==
    ASSUME chain \in Seq(Kinds), NEW kind \in Kinds, FinalizeHeader(kind),
           NEW n \in 0..Len(chain)
    PROVE  /\ \A m \in 1..n : ChangeAt(m)' = ChangeAt(m)
           /\ SigningSet(n + 1)' = SigningSet(n + 1)
<1>1. /\ chain' \in Seq(Kinds) /\ Len(chain') = Len(chain) + 1
      /\ \A i \in 1..Len(chain) : chain'[i] = chain[i]
  BY AppendProperties DEF FinalizeHeader
<1>2. Len(chain) \in Nat
  BY LenProperties
<1>3. ASSUME NEW m \in 1..n
      PROVE  ChangeAt(m)' = ChangeAt(m)
  <2>1. chain'[m] = chain[m]
    BY <1>1, <1>2
  <2> QED BY <2>1 DEF ChangeAt, FindForcedChange, FindScheduledChange, Digest
<1>4. EffectiveChanges(n)' = EffectiveChanges(n)
  <2>1. \A m \in 1..n : (m <= Len(chain')) /\ (m <= Len(chain))
    BY <1>1, <1>2
  <2> QED BY <1>3, <2>1 DEF EffectiveChanges
<1>5. (n + 1) - 1 = n
  BY <1>2
<1> QED BY <1>3, <1>4, <1>5 DEF SigningSet

-----------------------------------------------------------------------------
(* Invariance. *)

LEMMA InitGrandpaInv == GrandpaInit => GrandpaInv
<1> USE GrandpaAssumption
<1> SUFFICES ASSUME GrandpaInit
             PROVE  GrandpaInv
  OBVIOUS
<1> USE DEF GrandpaInit, EmptyStorage, None
<1>1. Len(chain) = 0 /\ chain \in Seq(Kinds)
  BY EmptySeq
<1>2. GrandpaTypeOK
  BY <1>1 DEF GrandpaTypeOK, Positions, BasicOperatingModes
<1>3. RingInv
  <2>1. hashes = [i \in RingPositions(HeadersToKeep) |-> 0]
    BY DEF Positions, RingPositions
  <2>2. /\ Descending(hashes, HeadersToKeep, 0)
        /\ Entries(hashes, HeadersToKeep) = {}
    BY <2>1, EmptyRing
  <2> QED BY <2>2 DEF RingInv
<1>4. AuthoritySetFollowsChain
  BY DEF AuthoritySetFollowsChain
<1> QED BY <1>2, <1>3, <1>4 DEF GrandpaInv

LEMMA InitializeKeepsInv ==
    ASSUME GrandpaInv, NEW origin, NEW data \in ValidInitializationData,
           Initialize(origin, data)
    PROVE  GrandpaInv'
<1> USE GrandpaAssumption
<1>1. PICK n \in 1..Len(chain), operating_mode \in Modes :
        data = InitializationData(n, operating_mode)
  BY DEF ValidInitializationData
<1>2. GrandpaTypeOK /\ RingInv /\ best = None /\ pointer = 0
  BY DEF GrandpaInv, Initialize, RingInv
<1>3. /\ InsertHeader(n, pointer) /\ best' = n
      /\ setId' = SigningSet(n + 1) /\ mode' = operating_mode
      /\ chain' = chain /\ requests' = requests
  BY <1>1, <1>2 DEF Initialize, InitializeBridge, InitializationData, InsertHeader
<1>4. Len(chain) \in Nat /\ n \in Nat
  BY <1>2, LenProperties DEF GrandpaTypeOK
<1>5. RingInv' /\ hashes' \in [Positions -> Nat] /\ pointer' \in Positions
  <2>1. best < n
    BY <1>2, <1>4 DEF None
  <2> QED BY <1>2, <1>3, <2>1, InsertHeaderKeepsRing
<1>6. SigningSet(n + 1) \in Nat
  BY <1>4, EffectiveChangesFinite
<1>7. GrandpaTypeOK'
  BY <1>2, <1>3, <1>4, <1>5, <1>6 DEF GrandpaTypeOK, Positions
<1>8. SigningSet(best + 1)' = SigningSet(n + 1)
  BY <1>3 DEF SigningSet, EffectiveChanges, ChangeAt, FindForcedChange, FindScheduledChange, Digest
<1>9. AuthoritySetFollowsChain'
  BY <1>3, <1>8 DEF AuthoritySetFollowsChain
<1> QED BY <1>5, <1>7, <1>9 DEF GrandpaInv

LEMMA SubmitKeepsInv ==
    ASSUME GrandpaInv, NEW n \in 1..Len(chain),
           FilterAccepts(n), SubmitFinalityProof(n)
    PROVE  GrandpaInv'
<1> USE GrandpaAssumption
<1>1. GrandpaTypeOK /\ RingInv /\ AuthoritySetFollowsChain /\ best # None /\ best < n
  BY DEF GrandpaInv, FilterAccepts
<1>2. /\ InsertHeader(n, pointer) /\ best' = n
      /\ setId' = EnactChange(n) /\ requests' = requests + 1
      /\ mode' = mode /\ chain' = chain
      /\ VerifyJustification(n) /\ SupportsChange(n)
  BY DEF SubmitFinalityProof, InsertHeader
<1>3. RingInv' /\ hashes' \in [Positions -> Nat] /\ pointer' \in Positions
  BY <1>1, <1>2, InsertHeaderKeepsRing
<1>4. Len(chain) \in Nat
  BY <1>1, LenProperties DEF GrandpaTypeOK
<1>5. EnactChange(n) \in Nat
  BY <1>1 DEF EnactChange, GrandpaTypeOK
<1>6. GrandpaTypeOK'
  BY <1>1, <1>2, <1>3, <1>4, <1>5, SMTT(40) DEF GrandpaTypeOK, Positions
<1>7. \A m : ChangeAt(m)' = ChangeAt(m)
  BY <1>2 DEF ChangeAt, FindForcedChange, FindScheduledChange, Digest
<1>8. SigningSet(best + 1)' = SigningSet(n + 1)
  BY <1>2, <1>7 DEF SigningSet, EffectiveChanges
<1>9. AuthoritySetFollowsChain'
  BY <1>1, <1>2, <1>7, <1>8, SubmitFollowsChain DEF AuthoritySetFollowsChain
<1> QED BY <1>3, <1>6, <1>9 DEF GrandpaInv

LEMMA FinalizeKeepsInv ==
    ASSUME GrandpaInv, NEW kind \in Kinds, FinalizeHeader(kind)
    PROVE  GrandpaInv'
<1>1. chain \in Seq(Kinds) /\ best \in 0..Len(chain) /\ Len(chain) \in Nat
  BY LenProperties DEF GrandpaInv, GrandpaTypeOK
<1>2. chain' \in Seq(Kinds) /\ Len(chain') = Len(chain) + 1
  BY <1>1, AppendProperties DEF FinalizeHeader
<1>3. UNCHANGED <<best, headers, hashes, pointer, setId, requests, mode>>
  BY DEF FinalizeHeader, palletVars, headerVars
<1>4. GrandpaTypeOK'
  <2>1. best' \in 0..Len(chain')
    BY <1>1, <1>2, <1>3
  <2> QED BY <1>2, <1>3, <2>1 DEF GrandpaInv, GrandpaTypeOK, Positions
<1>5. RingInv'
  BY <1>3 DEF GrandpaInv, RingInv, Positions
<1>6. /\ \A m \in 1..best : ChangeAt(m)' = ChangeAt(m)
      /\ SigningSet(best + 1)' = SigningSet(best + 1)
  <2> DEFINE b == best
  <2>1. b \in 0..Len(chain) /\ best' = b
    BY <1>1, <1>3
  <2>2. /\ \A m \in 1..b : ChangeAt(m)' = ChangeAt(m)
        /\ Cardinality(EffectiveChanges((b + 1) - 1)')
             = Cardinality(EffectiveChanges((b + 1) - 1))
    BY <1>1, <2>1, FinalizeKeepsChanges DEF SigningSet
  <2> QED BY <2>1, <2>2 DEF SigningSet
<1>7. AuthoritySetFollowsChain'
  BY <1>3, <1>6 DEF GrandpaInv, AuthoritySetFollowsChain
<1> QED BY <1>4, <1>5, <1>7 DEF GrandpaInv

\* The steps that touch neither the headers nor the bridged chain.
LEMMA OtherStepsKeepInv ==
    ASSUME GrandpaInv, UNCHANGED <<chain, headerVars>>,
           requests' \in Nat, mode' \in BasicOperatingModes
    PROVE  GrandpaInv'
<1>1. UNCHANGED <<chain, best, headers, hashes, pointer, setId>>
  BY DEF headerVars
<1>2. GrandpaTypeOK'
  BY <1>1 DEF GrandpaInv, GrandpaTypeOK, Positions
<1>3. RingInv'
  BY <1>1 DEF GrandpaInv, RingInv, Positions
<1>4. SigningSet(best + 1)' = SigningSet(best + 1) /\ \A m : ChangeAt(m)' = ChangeAt(m)
  BY <1>1 DEF SigningSet, EffectiveChanges, ChangeAt, FindForcedChange, FindScheduledChange, Digest
<1>5. AuthoritySetFollowsChain'
  BY <1>1, <1>4 DEF GrandpaInv, AuthoritySetFollowsChain
<1> QED BY <1>2, <1>3, <1>5 DEF GrandpaInv

LEMMA NextGrandpaInv == GrandpaInv /\ [GrandpaNext]_grandpaVars => GrandpaInv'
<1> USE GrandpaAssumption
<1> SUFFICES ASSUME GrandpaInv, [GrandpaNext]_grandpaVars
             PROVE  GrandpaInv'
  OBVIOUS
<1>0. requests \in Nat /\ mode \in BasicOperatingModes
  BY DEF GrandpaInv, GrandpaTypeOK
<1>1. CASE \E origin \in Origins, data \in ValidInitializationData : Initialize(origin, data)
  BY <1>1, InitializeKeepsInv
<1>2. CASE OnInitialize
  BY <1>0, <1>2, OtherStepsKeepInv DEF OnInitialize
<1>3. CASE \E origin \in Origins, operating_mode \in Modes : SetOperatingMode(origin, operating_mode)
  BY <1>0, <1>3, OtherStepsKeepInv DEF SetOperatingMode
<1>4. CASE SubmitSomeProof
  BY <1>4, SubmitKeepsInv DEF SubmitSomeProof
<1>5. CASE \E origin \in Origins, maybe_owner \in Owners : SetOwner(origin, maybe_owner)
  BY <1>0, <1>5, OtherStepsKeepInv DEF SetOwner
<1>6. CASE \E kind \in Kinds : FinalizeHeader(kind)
  BY <1>6, FinalizeKeepsInv
<1>7. CASE UNCHANGED grandpaVars
  BY <1>0, <1>7, OtherStepsKeepInv DEF grandpaVars, palletVars
<1> QED BY <1>1, <1>2, <1>3, <1>4, <1>5, <1>6, <1>7 DEF GrandpaNext, PalletNext

LEMMA GrandpaInvariant == GrandpaSpec => []GrandpaInv
BY InitGrandpaInv, NextGrandpaInv, PTL DEF GrandpaSpec

\* A step of an initialized light client goes forward or leaves the headers alone.
LEMMA StepOnlyAdvances ==
    ASSUME GrandpaInv, [GrandpaNext]_grandpaVars, best # None
    PROVE  /\ best' >= best /\ setId' >= setId
           /\ best' # best => mode = "Normal" /\ mode' = mode
           /\ best' = best => headers' = headers
<1> USE GrandpaAssumption
<1>0. best \in Nat /\ setId \in Nat /\ mode \in BasicOperatingModes
  BY LenProperties DEF GrandpaInv, GrandpaTypeOK
<1>1. CASE \E origin \in Origins, data \in ValidInitializationData : Initialize(origin, data)
  BY <1>1 DEF Initialize
<1>2. CASE OnInitialize
  BY <1>0, <1>2 DEF OnInitialize, headerVars
<1>3. CASE \E origin \in Origins, operating_mode \in Modes : SetOperatingMode(origin, operating_mode)
  BY <1>0, <1>3 DEF SetOperatingMode, headerVars
<1>4. CASE SubmitSomeProof
  <2>1. PICK n \in 1..Len(chain) : FilterAccepts(n) /\ SubmitFinalityProof(n)
    BY <1>4 DEF SubmitSomeProof
  <2>2. n \in Nat
    BY <2>1, LenProperties DEF GrandpaInv, GrandpaTypeOK
  <2>3. best' = n /\ best < n
    BY <2>1 DEF SubmitFinalityProof, InsertHeader, FilterAccepts
  <2>4. setId' >= setId
    BY <1>0, <2>1 DEF SubmitFinalityProof, EnactChange
  <2>5. mode = "Normal" /\ mode' = mode
    BY <1>0, <2>1 DEF SubmitFinalityProof, EnsureNotHalted, IsHalted, BasicOperatingModes
  <2> QED BY <1>0, <2>2, <2>3, <2>4, <2>5
<1>5. CASE \E origin \in Origins, maybe_owner \in Owners : SetOwner(origin, maybe_owner)
  BY <1>0, <1>5 DEF SetOwner, headerVars
<1>6. CASE \E kind \in Kinds : FinalizeHeader(kind)
  BY <1>0, <1>6 DEF FinalizeHeader, palletVars, headerVars
<1>7. CASE UNCHANGED grandpaVars
  BY <1>0, <1>7 DEF grandpaVars, palletVars, headerVars
<1> QED BY <1>1, <1>2, <1>3, <1>4, <1>5, <1>6, <1>7 DEF GrandpaNext, PalletNext

-----------------------------------------------------------------------------
\* insert_header prunes exactly: whatever the size of the ring buffer, and however the
\* finalized headers are skipped, the storage holds the latest imported headers in
\* their order, and the best one is always among them.
THEOREM RingIsExact == GrandpaSpec => []RingExact
<1>1. GrandpaInv => RingExact
  BY RingInvImpliesRingExact DEF GrandpaInv
<1> QED BY <1>1, GrandpaInvariant, PTL

\* try_enact_authority_change keeps up with the chain: the set that the pallet verifies
\* justifications with is the one that finalizes the next header, unless it passed the
\* header of a delayed change, and then it lags behind and accepts nothing.
THEOREM FollowsAuthorities == GrandpaSpec => []AuthoritySetFollowsChain
<1>1. GrandpaInv => AuthoritySetFollowsChain
  BY DEF GrandpaInv
<1> QED BY <1>1, GrandpaInvariant, PTL

\* initialize happens once, and submit_finality_proof only moves forward and only while
\* the pallet is not halted, whatever owner and root do in between.
THEOREM LightClientAdvances == GrandpaSpec => OnlyAdvances
<1>1. GrandpaInv /\ [GrandpaNext]_grandpaVars =>
        [best # None => /\ best' >= best /\ setId' >= setId
                        /\ best' # best => mode = "Normal" /\ mode' = mode
                        /\ best' = best => headers' = headers]_grandpaVars
  BY StepOnlyAdvances
<1> QED BY <1>1, GrandpaInvariant, PTL DEF GrandpaSpec, OnlyAdvances

-----------------------------------------------------------------------------
(* The parachains pallet on top of the light client of the relay chain. *)

ParaInfoType ==
    [at_relay_block_number : Nat, head_hash : Nat, next_imported_hash_position : ParaPositions]

ParaTypeOK ==
    /\ relayHeads \in Seq([Paras -> Nat])
    /\ Len(relayHeads) = Len(chain)
    /\ info \in [Paras -> ParaInfoType]
    /\ paraHashes \in [Paras -> [ParaPositions -> Nat]]
    /\ DOMAIN paraHeads = Paras

\* The relay chain: the head of a parachain never goes back.
RelayHeadsGrow ==
    \A i, j \in 1..Len(chain) : i <= j =>
        \A p \in Paras : relayHeads[i][p] <= relayHeads[j][p]

\* What is stored of parachain p.  The order of the ring makes the overwritten head
\* unique in it; that every new head is above all stored ones takes the bound by the
\* best head, and that the best head was the one of the relay chain at its block.
ParaRing(p) ==
    /\ Descending(paraHashes[p], HeadsToKeep, info[p].next_imported_hash_position)
    /\ paraHeads[p] = Entries(paraHashes[p], HeadsToKeep)
    /\ \A i \in ParaPositions : paraHashes[p][i] <= info[p].head_hash

ParaBest(p) ==
    info[p] # NoInfo =>
        /\ info[p].head_hash # None
        /\ info[p].head_hash \in paraHeads[p]
        /\ info[p].at_relay_block_number \in 1..best
        /\ relayHeads[info[p].at_relay_block_number][p] = info[p].head_hash

ParaInv ==
    /\ GrandpaInv
    /\ ParaTypeOK
    /\ RelayHeadsGrow
    /\ \A p \in Paras : ParaRing(p) /\ ParaBest(p)

-----------------------------------------------------------------------------
\* The relay headers that the light client stores are finalized ones, up to the best.
LEMMA StoredHeaders ==
    ASSUME GrandpaInv, NEW n \in headers
    PROVE  n \in 1..best /\ n \in 1..Len(chain)
<1>1. PICK i \in RingPositions(HeadersToKeep) : n = hashes[i] /\ n # 0
  BY DEF GrandpaInv, RingInv, Entries
<1>2. i \in Positions
  BY <1>1 DEF RingPositions, Positions
<1>3. n \in Nat /\ n <= best
  BY <1>1, <1>2 DEF GrandpaInv, GrandpaTypeOK, RingInv
<1>4. best \in Nat /\ Len(chain) \in Nat /\ best <= Len(chain)
  BY LenProperties DEF GrandpaInv, GrandpaTypeOK
<1> QED BY <1>1, <1>3, <1>4

\* A head is imported only if it is the proved one of a tracked parachain, and passes
\* validate_updated_parachain_head.
LEMMA UpdatedHead ==
    ASSUME NEW p, NEW n, NEW claimed, NEW readable,
           HeadEvent(p, n, claimed, readable) = "UpdatedParachainHead"
    PROVE  /\ relayHeads[n][p] # None
           /\ ValidateUpdatedHead(info[p], n, relayHeads[n][p])
<1> DEFINE head == relayHeads[n][p]
<1>1. p \in Tracked
  BY DEF HeadEvent
<1>2. ReadParachainHead(p, n, readable) # {}
  BY <1>1 DEF HeadEvent
<1>3. claimed = head
  BY <1>1, <1>2 DEF HeadEvent
<1>4. ValidateUpdatedHead(info[p], n, head)
  BY <1>1, <1>2, <1>3 DEF HeadEvent
<1> QED BY <1>2, <1>4 DEF ReadParachainHead

\* The head of a valid update is above everything that is stored of the parachain.
LEMMA UpdateIsNewer ==
    ASSUME ParaInv, NEW p \in Paras, NEW n \in headers,
           relayHeads[n][p] # None,
           ValidateUpdatedHead(info[p], n, relayHeads[n][p])
    PROVE  /\ relayHeads[n][p] \in Nat \ {0}
           /\ AllBelow(paraHashes[p], HeadsToKeep, relayHeads[n][p])
<1> DEFINE head == relayHeads[n][p]
           at == info[p].at_relay_block_number
<1>1. /\ n \in 1..best /\ n \in 1..Len(chain)
      /\ best \in Nat /\ Len(chain) \in Nat /\ best <= Len(chain)
  BY StoredHeaders, LenProperties DEF ParaInv, GrandpaInv, GrandpaTypeOK
<1>2. head \in Nat /\ head # 0
  <2>1. relayHeads[n] \in [Paras -> Nat]
    BY <1>1, ElementOfSeq DEF ParaInv, ParaTypeOK
  <2> QED BY <2>1 DEF None
<1>3. info[p].head_hash \in Nat /\ at \in Nat
  BY DEF ParaInv, ParaTypeOK, ParaInfoType
<1>4. info[p].head_hash < head
  <2>1. CASE info[p] = NoInfo
    BY <2>1, <1>2 DEF NoInfo, ParaInfo, None
  <2>2. CASE info[p] # NoInfo
    <3>1. at < n /\ info[p].head_hash # head
      BY <2>2 DEF ValidateUpdatedHead
    <3>2. at \in 1..best /\ relayHeads[at][p] = info[p].head_hash
      BY <2>2 DEF ParaInv, ParaBest
    <3>3. at \in 1..Len(chain) /\ at <= n
      BY <3>1, <3>2, <1>1, <1>3
    <3>4. relayHeads[at][p] <= relayHeads[n][p]
      BY <3>3, <1>1 DEF ParaInv, RelayHeadsGrow
    <3> QED BY <3>1, <3>2, <3>4, <1>2, <1>3
  <2> QED BY <2>1, <2>2
<1>5. ASSUME NEW i \in ParaPositions
      PROVE  paraHashes[p][i] < head
  <2>1. paraHashes[p][i] \in Nat /\ paraHashes[p][i] <= info[p].head_hash
    BY <1>5 DEF ParaInv, ParaTypeOK, ParaRing
  <2> HIDE DEF head
  <2> QED BY <2>1, <1>2, <1>3, <1>4
<1> QED BY <1>2, <1>5 DEF AllBelow, RingPositions, ParaPositions

\* What submit_parachain_heads does for one parachain: nothing, or a valid update.
LEMMA SubmitForParachain ==
    ASSUME NEW n, NEW claims, NEW readable, SubmitParachainHeads(n, claims, readable), NEW p \in Paras
    PROVE  \/ /\ info'[p] = info[p]
              /\ paraHashes'[p] = paraHashes[p]
              /\ paraHeads'[p] = paraHeads[p]
           \/ /\ relayHeads[n][p] # None
              /\ ValidateUpdatedHead(info[p], n, relayHeads[n][p])
              /\ info'[p] = UpdatedInfo(p, n)
              /\ paraHashes'[p] = [paraHashes[p] EXCEPT
                                     ![info[p].next_imported_hash_position] = relayHeads[n][p]]
              /\ paraHeads'[p] = (paraHeads[p] \cup {relayHeads[n][p]}) \ {PrunedHead(p)}
<1> DEFINE updated == {q \in DOMAIN claims :
                         HeadEvent(q, n, claims[q], readable) = "UpdatedParachainHead"}
<1>1. /\ info' = [q \in Paras |-> IF q \in updated THEN UpdatedInfo(q, n) ELSE info[q]]
      /\ paraHashes' = [q \in Paras |->
           IF q \in updated
           THEN [paraHashes[q] EXCEPT ![info[q].next_imported_hash_position] = relayHeads[n][q]]
           ELSE paraHashes[q]]
      /\ paraHeads' = [q \in Paras |->
           IF q \in updated THEN (paraHeads[q] \cup {relayHeads[n][q]}) \ {PrunedHead(q)}
                            ELSE paraHeads[q]]
  BY DEF SubmitParachainHeads
<1>2. p \in updated => /\ relayHeads[n][p] # None
                       /\ ValidateUpdatedHead(info[p], n, relayHeads[n][p])
  BY UpdatedHead
<1> HIDE DEF updated
<1>3. CASE p \in updated
  BY <1>1, <1>2, <1>3
<1>4. CASE p \notin updated
  BY <1>1, <1>4
<1> QED BY <1>3, <1>4

\* The position that the parachains pallet writes next is one of the ring.
LEMMA UpdateKeepsParachain ==
    ASSUME ParaInv, NEW p \in Paras, NEW n \in headers,
           relayHeads' = relayHeads, best' = best,
           relayHeads[n][p] # None,
           ValidateUpdatedHead(info[p], n, relayHeads[n][p]),
           info'[p] = UpdatedInfo(p, n),
           paraHashes'[p] = [paraHashes[p] EXCEPT
                               ![info[p].next_imported_hash_position] = relayHeads[n][p]],
           paraHeads'[p] = (paraHeads[p] \cup {relayHeads[n][p]}) \ {PrunedHead(p)}
    PROVE  /\ ParaRing(p)' /\ ParaBest(p)'
           /\ info'[p] \in ParaInfoType
           /\ paraHashes'[p] \in [ParaPositions -> Nat]
<1> DEFINE head == relayHeads[n][p]
           ring == paraHashes[p]
           next == info[p].next_imported_hash_position
           written == Write(ring, next, head)
           new == After(HeadsToKeep, next)
           P == RingPositions(HeadsToKeep)
<1>1. head \in Nat \ {0} /\ AllBelow(ring, HeadsToKeep, head)
  BY UpdateIsNewer
<1>2. ring \in [P -> Nat] /\ next \in P /\ HeadsToKeep \in Nat \ {0}
  BY ParachainsAssumption DEF ParaInv, ParaTypeOK, ParaInfoType, ParaPositions, RingPositions
<1>3. Descending(ring, HeadsToKeep, next) /\ paraHeads[p] = Entries(ring, HeadsToKeep)
  BY DEF ParaInv, ParaRing
<1>4. n \in 1..best /\ n \in Nat
  BY StoredHeaders DEF ParaInv
<1>5. /\ paraHashes'[p] = written
      /\ info'[p] = [at_relay_block_number |-> n, head_hash |-> head,
                     next_imported_hash_position |-> new]
      /\ paraHeads'[p] = (paraHeads[p] \cup {head}) \ {ring[next]}
  BY DEF UpdatedInfo, ParaInfo, NextPosition, PrunedHead, Write, After
<1>6. /\ written \in [P -> Nat] /\ new \in P
      /\ Descending(written, HeadsToKeep, new)
      /\ Entries(written, HeadsToKeep) = (Entries(ring, HeadsToKeep) \cup {head}) \ {ring[next]}
      /\ head \in Entries(written, HeadsToKeep)
      /\ \A i \in P : written[i] <= head
  <2> HIDE DEF head, ring, next
  <2> QED BY <1>1, <1>2, <1>3, WriteNewest
<1>7. P = ParaPositions
  BY DEF RingPositions, ParaPositions
<1> HIDE DEF written, new, ring, next, P, head
<1>8. paraHeads'[p] = Entries(written, HeadsToKeep)
  BY <1>3, <1>5, <1>6
<1>9. /\ info'[p].at_relay_block_number = n
      /\ info'[p].head_hash = head
      /\ info'[p].next_imported_hash_position = new
  BY <1>5
<1>10. info'[p] \in ParaInfoType
  BY <1>1, <1>4, <1>5, <1>6, <1>7 DEF ParaInfoType
<1>11. paraHashes'[p] \in [ParaPositions -> Nat]
  BY <1>5, <1>6, <1>7
<1>12. ParaRing(p)'
  BY <1>5, <1>6, <1>7, <1>8, <1>9 DEF ParaRing, ParaPositions
<1>13. ParaBest(p)'
  <2>1. n \in 1..best' /\ relayHeads'[n][p] = head
    BY <1>4 DEF head
  <2> QED BY <1>1, <1>6, <1>8, <1>9, <2>1 DEF ParaBest, None
<1> QED BY <1>10, <1>11, <1>12, <1>13

LEMMA SubmitHeadsKeepsInv ==
    ASSUME ParaInv, NEW n, NEW claims, NEW readable, SubmitParachainHeads(n, claims, readable)
    PROVE  ParaInv'
<1>1. n \in headers /\ UNCHANGED <<grandpaVars, relayHeads>>
  BY DEF SubmitParachainHeads
<1>2. UNCHANGED <<chain, best>>
  BY <1>1 DEF grandpaVars, palletVars, headerVars
<1>3. GrandpaInv'
  BY <1>1, NextGrandpaInv DEF ParaInv
<1>4. RelayHeadsGrow'
  BY <1>1, <1>2 DEF ParaInv, RelayHeadsGrow
<1>5. ASSUME NEW p \in Paras
      PROVE  /\ ParaRing(p)' /\ ParaBest(p)'
             /\ info'[p] \in ParaInfoType
             /\ paraHashes'[p] \in [ParaPositions -> Nat]
  <2>1. CASE /\ info'[p] = info[p] /\ paraHashes'[p] = paraHashes[p]
             /\ paraHeads'[p] = paraHeads[p]
    <3>1. ParaRing(p) /\ ParaBest(p)
      BY <1>5 DEF ParaInv
    <3>2. ParaRing(p)'
      BY <2>1, <3>1 DEF ParaRing, ParaPositions
    <3>3. ParaBest(p)'
      BY <1>1, <1>2, <2>1, <3>1 DEF ParaBest
    <3> QED BY <2>1, <3>2, <3>3, <1>5 DEF ParaInv, ParaTypeOK
  <2>2. CASE ~(/\ info'[p] = info[p] /\ paraHashes'[p] = paraHashes[p]
               /\ paraHeads'[p] = paraHeads[p])
    <3>1. /\ relayHeads[n][p] # None
          /\ ValidateUpdatedHead(info[p], n, relayHeads[n][p])
          /\ info'[p] = UpdatedInfo(p, n)
          /\ paraHashes'[p] = [paraHashes[p] EXCEPT
                                 ![info[p].next_imported_hash_position] = relayHeads[n][p]]
          /\ paraHeads'[p] = (paraHeads[p] \cup {relayHeads[n][p]}) \ {PrunedHead(p)}
      BY <1>5, <2>2, SubmitForParachain
    <3> QED BY <1>1, <1>2, <1>5, <3>1, UpdateKeepsParachain
  <2> QED BY <2>1, <2>2
<1>6. ParaTypeOK'
  <2>1. DOMAIN info' = Paras /\ DOMAIN paraHashes' = Paras /\ DOMAIN paraHeads' = Paras
        /\ info' = [p \in Paras |-> info'[p]] /\ paraHashes' = [p \in Paras |-> paraHashes'[p]]
    BY DEF SubmitParachainHeads
  <2> QED BY <1>1, <1>2, <1>5, <2>1 DEF ParaInv, ParaTypeOK, ParaPositions, ParaInfoType
<1> QED BY <1>3, <1>4, <1>5, <1>6 DEF ParaInv

\* The relay chain finalizes a header; nothing that was recorded before changes.
LEMMA FinalizeRelayKeepsInv ==
    ASSUME ParaInv, NEW kind \in Kinds, NEW advanced \in SUBSET Paras,
           FinalizeRelayHeader(kind, advanced)
    PROVE  ParaInv'
<1> DEFINE last == IF Len(chain) = 0 THEN [p \in Paras |-> None] ELSE relayHeads[Len(chain)]
           shown == [p \in Paras |-> IF p \in advanced THEN last[p] + 1 ELSE last[p]]
<1>1. /\ chain \in Seq(Kinds) /\ Len(chain) \in Nat
      /\ relayHeads \in Seq([Paras -> Nat]) /\ Len(relayHeads) = Len(chain)
  BY LenProperties DEF ParaInv, GrandpaInv, GrandpaTypeOK, ParaTypeOK
<1>2. /\ FinalizeHeader(kind)
      /\ relayHeads' = Append(relayHeads, shown)
      /\ UNCHANGED <<info, paraHeads, paraHashes, best>>
  BY DEF FinalizeRelayHeader, FinalizeHeader, paraVars, paraHeadVars, palletVars, headerVars
<1>3. GrandpaInv'
  BY <1>2, FinalizeKeepsInv DEF ParaInv
<1>4. last \in [Paras -> Nat]
  <2>1. CASE Len(chain) = 0
    BY <2>1 DEF None
  <2>2. CASE Len(chain) # 0
    <3>1. Len(chain) \in 1..Len(relayHeads)
      BY <1>1, <2>2
    <3> QED BY <1>1, <2>2, <3>1, ElementOfSeq
  <2> QED BY <2>1, <2>2
<1>5. shown \in [Paras -> Nat] /\ \A p \in Paras : last[p] <= shown[p]
  <2> HIDE DEF last
  <2> QED BY <1>4
<1>6. Len(chain') = Len(chain) + 1
  BY <1>1, <1>2, AppendProperties DEF FinalizeHeader
<1> HIDE DEF shown
<1>7. /\ relayHeads' \in Seq([Paras -> Nat])
      /\ Len(relayHeads') = Len(relayHeads) + 1
      /\ \A i \in 1..Len(relayHeads) : relayHeads'[i] = relayHeads[i]
      /\ relayHeads'[Len(relayHeads) + 1] = shown
  BY <1>1, <1>2, <1>5, AppendProperties
<1>8. ParaTypeOK'
  BY <1>1, <1>2, <1>6, <1>7 DEF ParaInv, ParaTypeOK, ParaPositions, ParaInfoType
<1>9. RelayHeadsGrow'
  <2> SUFFICES ASSUME NEW i \in 1..(Len(chain) + 1), NEW j \in 1..(Len(chain) + 1), i <= j,
                      NEW p \in Paras
               PROVE  relayHeads'[i][p] <= relayHeads'[j][p]
    BY <1>6 DEF RelayHeadsGrow
  <2>1. CASE j <= Len(chain)
    <3>1. i \in 1..Len(chain) /\ j \in 1..Len(chain)
      BY <1>1, <2>1
    <3>2. relayHeads'[i] = relayHeads[i] /\ relayHeads'[j] = relayHeads[j]
      BY <1>1, <1>7, <3>1
    <3> QED BY <3>1, <3>2 DEF ParaInv, RelayHeadsGrow
  <2>2. CASE j = Len(chain) + 1 /\ i = Len(chain) + 1
    <3>1. relayHeads'[i][p] = shown[p] /\ relayHeads'[j][p] = shown[p] /\ shown[p] \in Nat
      BY <1>1, <1>5, <1>7, <2>2
    <3> QED BY <3>1
  <2>3. CASE j = Len(chain) + 1 /\ i # Len(chain) + 1
    <3>1. /\ i \in 1..Len(chain) /\ Len(chain) \in 1..Len(chain) /\ i <= Len(chain)
          /\ Len(chain) # 0
      BY <1>1, <2>3
    <3>2. relayHeads[i][p] <= relayHeads[Len(chain)][p]
      BY <3>1 DEF ParaInv, RelayHeadsGrow
    <3>3. relayHeads[Len(chain)] = last
      BY <3>1
    <3>4. relayHeads'[i] = relayHeads[i] /\ relayHeads'[j] = shown
      BY <1>1, <1>7, <2>3, <3>1
    <3>5. relayHeads[i] \in [Paras -> Nat]
      BY <1>1, <3>1, ElementOfSeq
    <3> HIDE DEF last
    <3>6. relayHeads[i][p] \in Nat /\ last[p] \in Nat /\ shown[p] \in Nat /\ last[p] <= shown[p]
      BY <1>4, <1>5, <3>5
    <3>7. relayHeads[i][p] <= last[p]
      BY <3>2, <3>3
    <3>8. relayHeads[i][p] <= shown[p]
      BY <3>6, <3>7
    <3> QED BY <3>4, <3>8
  <2> QED BY <1>1, <2>1, <2>2, <2>3
<1>10. ASSUME NEW p \in Paras
       PROVE  ParaRing(p)' /\ ParaBest(p)'
  <2>1. ParaRing(p) /\ ParaBest(p)
    BY DEF ParaInv
  <2>2. ParaRing(p)'
    BY <1>2, <2>1 DEF ParaRing, ParaPositions
  <2>3. ParaBest(p)'
    <3> SUFFICES ASSUME info[p] # NoInfo
                 PROVE  /\ info[p].head_hash # None
                        /\ info[p].head_hash \in paraHeads[p]
                        /\ info[p].at_relay_block_number \in 1..best
                        /\ relayHeads'[info[p].at_relay_block_number][p] = info[p].head_hash
      BY <1>2 DEF ParaBest, None
    <3>1. /\ info[p].head_hash # None
          /\ info[p].head_hash \in paraHeads[p]
          /\ info[p].at_relay_block_number \in 1..best
          /\ relayHeads[info[p].at_relay_block_number][p] = info[p].head_hash
      BY <2>1 DEF ParaBest
    <3>2. best \in 0..Len(chain)
      BY DEF ParaInv, GrandpaInv, GrandpaTypeOK
    <3>3. info[p].at_relay_block_number \in 1..Len(relayHeads)
      BY <1>1, <3>1, <3>2
    <3> QED BY <1>7, <3>1, <3>3
  <2> QED BY <2>2, <2>3
<1> QED BY <1>3, <1>8, <1>9, <1>10 DEF ParaInv

\* The light client takes a step of its own: its best header does not go back.
LEMMA LightClientKeepsInv ==
    ASSUME ParaInv, [GrandpaNext]_grandpaVars, chain' = chain,
           UNCHANGED <<relayHeads, info, paraHeads, paraHashes>>
    PROVE  ParaInv'
<1>1. GrandpaInv'
  BY NextGrandpaInv DEF ParaInv
<1>2. ParaTypeOK'
  BY DEF ParaInv, ParaTypeOK, ParaPositions, ParaInfoType
<1>3. RelayHeadsGrow'
  BY DEF ParaInv, RelayHeadsGrow
<1>4. ASSUME NEW p \in Paras
      PROVE  ParaRing(p)' /\ ParaBest(p)'
  <2>1. ParaRing(p) /\ ParaBest(p)
    BY DEF ParaInv
  <2>2. ParaRing(p)'
    BY <2>1 DEF ParaRing, ParaPositions
  <2>3. best \in Nat /\ best' \in Nat
    BY <1>1, LenProperties DEF ParaInv, GrandpaInv, GrandpaTypeOK
  <2>4. ASSUME info[p] # NoInfo
        PROVE  info[p].at_relay_block_number \in 1..best'
    <3>1. info[p].at_relay_block_number \in 1..best
      BY <2>1, <2>4 DEF ParaBest
    <3>2. best # None
      BY <2>3, <3>1 DEF None
    <3>3. best' >= best
      BY <3>2, StepOnlyAdvances DEF ParaInv
    <3> QED BY <2>3, <3>1, <3>3
  <2>5. ParaBest(p)'
    BY <2>1, <2>4 DEF ParaBest
  <2> QED BY <2>2, <2>5
<1> QED BY <1>1, <1>2, <1>3, <1>4 DEF ParaInv

LEMMA InitParaInv == Init => ParaInv
<1> USE ParachainsAssumption
<1> SUFFICES ASSUME Init
             PROVE  ParaInv
  OBVIOUS
<1>1. GrandpaInv
  BY InitGrandpaInv DEF Init
<1>2. chain = <<>> /\ Len(chain) = 0
  BY DEF Init, GrandpaInit
<1>3. ParaTypeOK
  BY <1>2, EmptySeq DEF Init, ParaTypeOK, ParaInfoType, NoInfo, ParaInfo, ParaPositions, None
<1>4. RelayHeadsGrow
  BY <1>2 DEF RelayHeadsGrow
<1>5. ASSUME NEW p \in Paras
      PROVE  ParaRing(p) /\ ParaBest(p)
  <2>1. /\ paraHashes[p] = [i \in RingPositions(HeadsToKeep) |-> 0]
        /\ paraHeads[p] = {} /\ info[p] = NoInfo
    BY DEF Init, ParaPositions, RingPositions, None
  <2>2. info[p].next_imported_hash_position = 0 /\ info[p].head_hash = 0
    BY <2>1 DEF NoInfo, ParaInfo, None
  <2>3. /\ Descending(paraHashes[p], HeadsToKeep, 0)
        /\ Entries(paraHashes[p], HeadsToKeep) = {}
    BY <2>1, EmptyRing
  <2>4. \A i \in ParaPositions : paraHashes[p][i] <= 0
    BY <2>1 DEF ParaPositions, RingPositions
  <2> QED BY <2>1, <2>2, <2>3, <2>4 DEF ParaRing, ParaBest
<1> QED BY <1>1, <1>3, <1>4, <1>5 DEF ParaInv

LEMMA NextParaInv == ParaInv /\ [Next]_vars => ParaInv'
<1> SUFFICES ASSUME ParaInv, [Next]_vars
             PROVE  ParaInv'
  OBVIOUS
<1> USE DEF paraVars, paraHeadVars
<1>1. CASE PalletNext /\ UNCHANGED <<relayHeads, paraVars>>
  <2>1. chain' = chain
    BY <1>1 DEF PalletNext, Initialize, OnInitialize, SetOperatingMode
  <2> QED BY <1>1, <2>1, LightClientKeepsInv DEF GrandpaNext
<1>2. CASE \E kind \in Kinds, advanced \in SUBSET Paras : FinalizeRelayHeader(kind, advanced)
  BY <1>2, FinalizeRelayKeepsInv
<1>3. CASE SubmitValidProof
  <2>1. PICK n \in 1..Len(chain) : Validate(FinalityCall(n)) /\ SubmitFinalityProof(n)
    BY <1>3 DEF SubmitValidProof
  <2>2. FilterAccepts(n)
    BY <2>1 DEF Validate, GrandpaFilter, FinalityCall
  <2>3. GrandpaNext /\ chain' = chain
    BY <2>1, <2>2 DEF GrandpaNext, SubmitSomeProof, SubmitFinalityProof
  <2> QED BY <1>3, <2>3, LightClientKeepsInv DEF SubmitValidProof
<1>4. CASE \E n \in 1..Len(chain), claims \in Claims : \E readable \in SUBSET DOMAIN claims :
              SubmitValidHeads(n, claims, readable)
  BY <1>4, SubmitHeadsKeepsInv DEF SubmitValidHeads
<1>5. CASE \E origin \in Origins, maybe_owner \in Owners : SetParaOwner(origin, maybe_owner)
  BY <1>5, LightClientKeepsInv DEF SetParaOwner, grandpaVars
<1>6. CASE \E origin \in Origins, operating_mode \in Modes : SetParaMode(origin, operating_mode)
  BY <1>6, LightClientKeepsInv DEF SetParaMode, grandpaVars
<1>7. CASE UNCHANGED vars
  BY <1>7, LightClientKeepsInv DEF vars, grandpaVars
<1> QED BY <1>1, <1>2, <1>3, <1>4, <1>5, <1>6, <1>7 DEF Next

LEMMA ParaInvariant == Spec => []ParaInv
BY InitParaInv, NextParaInv, PTL DEF Spec

-----------------------------------------------------------------------------
\* update_parachain_head prunes exactly: the storage of every parachain holds the heads
\* of its ring and no other, and its best head is never pruned.
THEOREM ParaRingIsExact == Spec => []ParaRingExact
<1>1. ParaInv => ParaRingExact
  BY DEF ParaInv, ParaRing, ParaBest, ParaRingExact, Entries, RingPositions, ParaPositions, None
<1> QED BY <1>1, ParaInvariant, PTL

\* validate_updated_parachain_head makes the order of submissions irrelevant: however
\* relayers mix proofs at older and newer relay headers, the best head is the one that
\* the relay chain had at the recorded block, and nothing newer is stored.
THEOREM BestHeadIsNewest == Spec => []BestParaHeadIsNewest
<1>1. ParaInv => BestParaHeadIsNewest
  <2> SUFFICES ASSUME ParaInv, NEW p \in Paras, info[p] # NoInfo
               PROVE  /\ info[p].at_relay_block_number \in 1..best
                      /\ relayHeads[info[p].at_relay_block_number][p] = info[p].head_hash
                      /\ \A h \in paraHeads[p] : h <= info[p].head_hash
    BY DEF BestParaHeadIsNewest
  <2>1. ASSUME NEW h \in paraHeads[p]
        PROVE  h <= info[p].head_hash
    BY <2>1 DEF ParaInv, ParaRing, Entries, RingPositions, ParaPositions
  <2> QED BY <2>1 DEF ParaInv, ParaBest
<1> QED BY <1>1, ParaInvariant, PTL

-----------------------------------------------------------------------------
(* The weight of submit_parachain_heads. *)

\* The proofs of the benchmarks of 1 KB and 16 KB differ by 15 KB.
LEMMA HeadExtraNodes ==
    ASSUME NEW B \in Nat, B <= 1024
    PROVE  /\ GrowTrie(B, HasExtraNodes(16 * 1024)) \in Int
           /\ GrowTrie(B, HasExtraNodes(1024)) \in Int
           /\ GrowTrie(B, HasExtraNodes(16 * 1024)) - GrowTrie(B, HasExtraNodes(1024)) = 15 * 1024
<1> DEFINE s == GrowStep
           d == 1024 - B
           q == (15 * 1024) \div s
           e == d \div s
           r == d % s
<1>1. s \in Nat \ {0} /\ d \in Nat /\ 15360 % s = 0
  BY ProofSizesAssumption
<1> HIDE DEF s, d
<1>2. q \in Int /\ 15360 = s * q
  BY <1>1
<1>3. e \in Int /\ r \in Int /\ d = s * e + r /\ 0 <= r /\ r < s
  BY <1>1
<1> HIDE DEF e, r, q
<1>4. 15360 + d = s * (q + e) + r
  <2>1. s * (q + e) = s * q + s * e
    BY <1>1, <1>2, <1>3
  <2>2. s * e \in Int /\ s * q \in Int
    BY <1>1, <1>2, <1>3
  <2> QED BY <1>1, <1>2, <1>3, <2>1, <2>2
<1>5. (15360 + d) \div s = q + e
  <2> DEFINE k == q + e
  <2>1. k \in Int
    BY <1>2, <1>3
  <2> HIDE DEF k
  <2>2. 15360 + d = s * k + r
    BY <1>4 DEF k
  <2>3. (s * k + r) \div s = k
    BY <1>1, <1>3, <2>1
  <2>4. (15360 + d) \div s = k
    BY <2>2, <2>3
  <2> QED BY <2>4 DEF k
<1>6. 16384 - B = 15360 + d /\ 1024 - B = d /\ ~(B > 1024) /\ ~(B > 16384)
  BY <1>1 DEF d
<1>7. /\ GrowTrie(B, HasExtraNodes(16384)) = B + s * (q + e + 1)
      /\ GrowTrie(B, HasExtraNodes(1024)) = B + s * (e + 1)
  BY <1>5, <1>6 DEF GrowTrie, HasExtraNodes, e, s
<1>8. s * (q + e + 1) = s * q + s * e + s /\ s * (e + 1) = s * e + s /\ s * e \in Int /\ s * q \in Int
  BY <1>1, <1>2, <1>3
<1> QED BY <1>1, <1>2, <1>7, <1>8

\* A byte of a proof weighs what it takes.
LEMMA HeadByteWeight ==
    ASSUME NEW bytes \in Int
    PROVE  StorageProofSizeOverhead(bytes) = bytes * ProofByteTime
<1> DEFINE B == 1 * (DEFAULT_PARACHAIN_HEAD_SIZE + HeadProofOverhead)
           large == GrowTrie(B, HasExtraNodes(16 * 1024))
           small == GrowTrie(B, HasExtraNodes(1024))
           k == ProofByteTime
           base == SubmitTime + HeadTime + 2 * WriteTime
<1>1. /\ SubmitTime \in Nat /\ HeadTime \in Nat /\ WriteTime \in Nat /\ k \in Nat
      /\ B \in Nat /\ B <= 1024
  BY ParachainWeightsAssumption DEF DEFAULT_PARACHAIN_HEAD_SIZE
<1> HIDE DEF B
<1>2. large \in Int /\ small \in Int /\ large - small = 15360
  BY <1>1, HeadExtraNodes
<1> HIDE DEF large, small
<1>3. \A n \in Int : SubmitCost(1, 1, 0, n) = base + n * k
  BY <1>1 DEF SubmitCost
<1>4. /\ submit_parachain_heads_with_16kb_proof = base + large * k
      /\ submit_parachain_heads_with_1kb_proof = base + small * k
  <2>1. /\ submit_parachain_heads_with_16kb_proof = SubmitCost(1, 1, 0, large)
        /\ submit_parachain_heads_with_1kb_proof = SubmitCost(1, 1, 0, small)
    BY DEF submit_parachain_heads_with_16kb_proof, submit_parachain_heads_with_1kb_proof,
           PrepareParachainHeadsProof, large, small, B
  <2> QED BY <1>2, <1>3, <2>1
<1>5. large * k - small * k = 15360 * k /\ large * k \in Int /\ small * k \in Int /\ base \in Int
  <2>1. large * k - small * k = (large - small) * k
    BY <1>1, <1>2
  <2> QED BY <1>1, <1>2, <2>1
<1> HIDE DEF base, k
<1>6. submit_parachain_heads_with_16kb_proof - submit_parachain_heads_with_1kb_proof = 15360 * k
  BY <1>4, <1>5
<1>7. (15360 * k) \div 15360 = k
  BY <1>1
<1> QED BY <1>6, <1>7 DEF StorageProofSizeOverhead, k

\* What a call is charged before the refunds covers three writes for every head and
\* its proof, but for the reserved bytes.
LEMMA DeclaredCovers ==
    ASSUME NEW c \in Nat, NEW size \in Nat
    PROVE  /\ DeclaredWeight(c, size) \in Int
           /\ SubmitTime + c * HeadTime + c * (3 * WriteTime) + size * ProofByteTime
                <= DeclaredWeight(c, size) + EXTRA_STORAGE_PROOF_SIZE * ProofByteTime
<1> DEFINE k == ProofByteTime
           H == HeadTime
           W == WriteTime
           O == HeadProofOverhead
           expected == c * 384 + 1024
           extra == IF size > expected THEN size - expected ELSE 0
           proof == c * (384 + O)
           p1 == c * H
           p2 == c * W
           p3 == extra * k
           p4 == proof * k
           p5 == size * k
<1>1. SubmitTime \in Nat /\ H \in Nat /\ W \in Nat /\ k \in Nat /\ O \in Nat
  BY ParachainWeightsAssumption
<1>2. expected \in Nat /\ extra \in Nat /\ proof \in Nat
  BY <1>1
<1>3. p1 \in Nat /\ p2 \in Nat /\ p3 \in Nat /\ p4 \in Nat /\ p5 \in Nat
  BY <1>1, <1>2
<1>4. size <= extra + proof + 1024
  <2>1. proof = c * 384 + c * O /\ c * O \in Nat
    BY <1>1
  <2> QED BY <1>2, <2>1
<1>5. p5 <= p3 + p4 + 1024 * k
  <2>1. ASSUME NEW x \in Nat, NEW y \in Nat, x <= y PROVE x * k <= y * k
    BY <1>1, <2>1
  <2> DEFINE sum == extra + proof + 1024
  <2>2. sum \in Nat /\ size <= sum
    BY <1>2, <1>4
  <2>3. sum * k = p3 + p4 + 1024 * k
    BY <1>1, <1>2
  <2> HIDE DEF sum
  <2>4. size * k <= sum * k
    BY <2>1, <2>2
  <2> QED BY <2>3, <2>4
<1>6. GrowTrie(c * (384 + O), Minimal(0)) = proof
  BY DEF GrowTrie, Minimal
<1>7. submit_parachain_heads_with_n_parachains(c) = SubmitTime + c * H + (2 * c + 0) * W + proof * k
  BY <1>6 DEF submit_parachain_heads_with_n_parachains, PrepareParachainHeadsProof, SubmitCost,
              DEFAULT_PARACHAIN_HEAD_SIZE
<1>8. StorageProofSizeOverhead(extra) = extra * k
  BY <1>2, HeadByteWeight
<1>9. DeclaredWeight(c, size)
        = submit_parachain_heads_with_n_parachains(c) + StorageProofSizeOverhead(extra) + c * W
  BY DEF DeclaredWeight, DEFAULT_PARACHAIN_HEAD_SIZE, EXTRA_STORAGE_PROOF_SIZE, HeadPruningWeight
<1>10. DeclaredWeight(c, size) = SubmitTime + p1 + 2 * p2 + p4 + p3 + p2
  <2>1. (2 * c + 0) * W = 2 * p2
    BY <1>1
  <2> QED BY <1>7, <1>8, <1>9, <2>1
<1>11. c * (3 * W) = 3 * p2
  BY <1>1
<1>12. 1024 * k \in Nat
  BY <1>1
<1> HIDE DEF p1, p2, p3, p4, p5
<1>13. SubmitTime + p1 + 3 * p2 + p5 <= DeclaredWeight(c, size) + 1024 * k
  BY <1>1, <1>3, <1>5, <1>10, <1>12
<1>14. DeclaredWeight(c, size) \in Int
  BY <1>1, <1>3, <1>10
<1> QED BY <1>11, <1>13, <1>14 DEF p1, p5, EXTRA_STORAGE_PROOF_SIZE

\* The refunds of a call: at most three writes for every head, and nothing for what was
\* written (two writes for each head of U) and pruned (one for each head of P).
LEMMA RefundsBounded ==
    ASSUME NEW S, IsFiniteSet(S), NEW T \in SUBSET S, NEW U \in SUBSET S, NEW P \in SUBSET S,
           NEW f, NEW w \in Nat,
           \A x \in T : f[x] = (IF x \in U THEN 0 ELSE 2 * w) + (IF x \in P THEN 0 ELSE w)
    PROVE  /\ SumFunctionOnSet(f, T) \in Nat
           /\ SumFunctionOnSet(f, T) + (2 * w) * Cardinality(U) + w * Cardinality(P)
                <= (3 * w) * Cardinality(S)
<1> DEFINE e == [x \in S |-> (IF x \in U THEN 0 ELSE 2 * w) + (IF x \in P THEN 0 ELSE w)]
           g == [x \in S |-> e[x] + (IF x \in U THEN 2 * w ELSE 0)]
           h == [x \in S |-> 3 * w]
           z == [x \in S |-> 0]
<1>1. 2 * w \in Nat /\ 3 * w \in Nat /\ \A x \in S : x \in S
  OBVIOUS
<1>2. \A x \in S : e[x] \in Nat
  OBVIOUS
<1>3. \A x \in T : f[x] \in Nat /\ f[x] = e[x]
  BY <1>2
<1>4. \A x \in S : e[x] \in Int /\ g[x] = e[x] + (IF x \in U THEN 2 * w ELSE 0)
  BY <1>2
<1>5. \A x \in S : g[x] \in Int /\ h[x] = g[x] + (IF x \in P THEN w ELSE 0)
  BY <1>2
<1>6. \A x \in S : z[x] \in Int /\ h[x] = z[x] + (IF x \in S THEN 3 * w ELSE 0)
  OBVIOUS
<1>7. \A x \in S : z[x] = 0
  OBVIOUS
<1> HIDE DEF e, g, h, z
<1>8. IsFiniteSet(T) /\ IsFiniteSet(U) /\ IsFiniteSet(P)
  BY FS_Subset
<1>9. SumFunctionOnSet(f, T) \in Nat
  <2>1. \A x \in T : f[x] \in Nat
    BY <1>3
  <2> QED BY <1>8, <2>1, SumNat
<1>10. SumFunctionOnSet(f, T) <= SumFunctionOnSet(e, S)
  <2>1. \A x \in T : f[x] \in Int /\ f[x] <= e[x]
    BY <1>3
  <2> QED BY <1>2, <2>1, SumMonotone
<1>11. SumFunctionOnSet(e, S) \in Int
  BY <1>4, SumInt
<1>12. SumFunctionOnSet(g, S) = SumFunctionOnSet(e, S) + (2 * w) * Cardinality(U)
  BY <1>1, <1>4, SumShares
<1>13. SumFunctionOnSet(h, S) = SumFunctionOnSet(g, S) + w * Cardinality(P)
  BY <1>5, SumShares
<1>14. SumFunctionOnSet(h, S) = SumFunctionOnSet(z, S) + (3 * w) * Cardinality(S)
  <2>1. S \in SUBSET S
    OBVIOUS
  <2> QED BY <1>1, <1>6, <2>1, SumShares
<1>15. SumFunctionOnSet(z, S) = 0
  BY <1>7, SumZero
<1> DEFINE a == (2 * w) * Cardinality(U)
           b == w * Cardinality(P)
           d == (3 * w) * Cardinality(S)
<1>16. a \in Nat /\ b \in Nat /\ d \in Nat
  <2>1. Cardinality(U) \in Nat /\ Cardinality(P) \in Nat /\ Cardinality(S) \in Nat
    BY <1>8, FS_CardinalityType
  <2> QED BY <1>1, <2>1
<1> HIDE DEF a, b, d
<1>17. SumFunctionOnSet(g, S) = SumFunctionOnSet(e, S) + a
  BY <1>12 DEF a
<1>18. SumFunctionOnSet(h, S) = SumFunctionOnSet(g, S) + b
  BY <1>13 DEF b
<1>19. SumFunctionOnSet(h, S) = 0 + d
  BY <1>14, <1>15 DEF d
<1>20. SumFunctionOnSet(f, T) + a + b <= d
  BY <1>9, <1>10, <1>11, <1>16, <1>17, <1>18, <1>19
<1> QED BY <1>9, <1>20 DEF a, b, d

\* The size of a proof is a number.
LEMMA ProofSizeType ==
    ASSUME NEW n, NEW parachains \in SUBSET Paras, NEW extra \in Nat
    PROVE  ProofSize(n, parachains, extra) \in Nat
<1> DEFINE f == [p \in parachains |-> HeadSize(relayHeads[n][p]) + HeadProofOverhead]
<1>1. IsFiniteSet(parachains)
  BY ParachainsAssumption, FS_Subset
<1>2. \A p \in parachains : f[p] \in Nat
  BY ParachainsAssumption, ParachainWeightsAssumption DEF HeadSize
<1>3. DOMAIN f = parachains
  OBVIOUS
<1>4. ProofSize(n, parachains, extra) = SumFunctionOnSet(f, parachains) + extra
  BY <1>3 DEF ProofSize, SumFunction
<1> HIDE DEF f
<1>5. SumFunctionOnSet(f, parachains) \in Nat
  BY <1>1, <1>2, SumNat
<1> QED BY <1>4, <1>5

\* What the closure has left, for any events: at most the declared weight, which the
\* call returns, and at least what the call takes, but for the reserved bytes.
LEMMA ClosureWeightCovers ==
    ASSUME NEW S \in SUBSET Paras, NEW events, DOMAIN events = S, NEW size \in Nat,
           NEW updated, updated = {p \in S : events[p] = "UpdatedParachainHead"},
           NEW pruned, pruned = {p \in updated : PrunedHead(p) # None}
    PROVE  /\ SubmitCost(Cardinality(S), Cardinality(updated), Cardinality(pruned), size)
                <= ClosureWeight(events, size) + StorageProofSizeOverhead(EXTRA_STORAGE_PROOF_SIZE)
           /\ ClosureWeight(events, size) <= ActualWeight(events, size)
<1> DEFINE T == {p \in S : events[p] \in {"UpdatedParachainHead", "RejectedObsoleteParachainHead",
                                          "RejectedLargeParachainHead"}}
           f == [p \in T |-> Refund(p, events[p])]
           c == Cardinality(S)
           u == Cardinality(updated)
           pr == Cardinality(pruned)
           W == WriteTime
           refund == SumFunctionOnSet(f, T)
           declared == DeclaredWeight(c, size)
           reserve == EXTRA_STORAGE_PROOF_SIZE * ProofByteTime
<1>1. IsFiniteSet(S) /\ IsFiniteSet(updated) /\ IsFiniteSet(pruned)
  BY ParachainsAssumption, FS_Subset
<1>2. c \in Nat /\ u \in Nat /\ pr \in Nat
  BY <1>1, FS_CardinalityType
<1>3. SubmitTime \in Nat /\ HeadTime \in Nat /\ W \in Nat /\ ProofByteTime \in Nat
  BY ParachainWeightsAssumption
<1>4. ClosureWeight(events, size) = declared - refund /\ ActualWeight(events, size) = declared
  <2>1. DOMAIN f = T
    OBVIOUS
  <2> QED BY <2>1 DEF ClosureWeight, ActualWeight, SumFunction
<1>5. \A p \in T : f[p] = (IF p \in updated THEN 0 ELSE 2 * W) + (IF p \in pruned THEN 0 ELSE W)
  BY DEF Refund, HeadStorageWriteWeight, HeadPruningWeight
<1>6. T \in SUBSET S /\ updated \in SUBSET S /\ pruned \in SUBSET S
  OBVIOUS
<1> HIDE DEF T, f
<1>7. refund \in Nat /\ refund + (2 * W) * u + W * pr <= (3 * W) * c
  <2> HIDE DEF W
  <2>1. /\ SumFunctionOnSet(f, T) \in Nat
        /\ SumFunctionOnSet(f, T) + (2 * W) * Cardinality(updated) + W * Cardinality(pruned)
             <= (3 * W) * Cardinality(S)
    BY ONLY <1>1, <1>3, <1>5, <1>6, RefundsBounded
  <2> QED BY <2>1
<1>8. /\ declared \in Int
      /\ SubmitTime + c * HeadTime + c * (3 * W) + size * ProofByteTime <= declared + reserve
  BY <1>2, DeclaredCovers
<1>9. StorageProofSizeOverhead(EXTRA_STORAGE_PROOF_SIZE) = reserve /\ reserve \in Nat
  BY <1>3, HeadByteWeight DEF EXTRA_STORAGE_PROOF_SIZE
<1> DEFINE p1 == c * HeadTime
           p2 == size * ProofByteTime
           a == (2 * W) * u
           b == W * pr
           d == (3 * W) * c
<1>10. p1 \in Nat /\ p2 \in Nat /\ a \in Nat /\ b \in Nat /\ d \in Nat
  BY <1>2, <1>3
<1>11. (2 * u + pr) * W = a + b /\ c * (3 * W) = d
  BY <1>2, <1>3
<1>12. SubmitCost(c, u, pr, size) = SubmitTime + p1 + (a + b) + p2
  BY <1>11 DEF SubmitCost
<1>13. SubmitTime + p1 + d + p2 <= declared + reserve
  BY <1>8, <1>11
<1>14. refund + a + b <= d
  BY <1>7
<1> HIDE DEF c, u, pr, refund, declared, reserve, p1, p2, a, b, d
<1>15. SubmitTime + p1 + (a + b) + p2 <= (declared - refund) + reserve /\ declared - refund <= declared
  BY <1>3, <1>7, <1>8, <1>9, <1>10, <1>13, <1>14
<1> QED BY <1>4, <1>9, <1>12, <1>15 DEF c, u, pr, declared

\* Whatever heads a call of submit_parachain_heads names, however many of them cannot
\* be read, and however large its proof is, the weight that it returns covers the time
\* that it takes, and so would the weight after the refunds of its closure.
THEOREM HeadsWeightSuffices == Spec => []ChargedForWork
<1>1. ChargedForWork
  <2> SUFFICES ASSUME NEW n \in headers, NEW claims \in Claims, NEW extra \in ExtraProofSizes,
                      NEW readable \in SUBSET DOMAIN claims,
                      NEW events, events = [p \in DOMAIN claims |-> HeadEvent(p, n, claims[p], readable)],
                      NEW size, size = ProofSize(n, DOMAIN claims, extra)
               PROVE  /\ SubmitCost(Cardinality(DOMAIN events), Cardinality(Updates(events)),
                                    Cardinality(Prunes(events)), size)
                           <= ClosureWeight(events, size)
                                + StorageProofSizeOverhead(EXTRA_STORAGE_PROOF_SIZE)
                      /\ ClosureWeight(events, size) <= ActualWeight(events, size)
    BY DEF ChargedForWork, SubmitCalls
  <2> DEFINE S == DOMAIN claims
  <2>1. S \in SUBSET Paras /\ DOMAIN events = S
    BY DEF Claims
  <2>2. extra \in Nat
    BY ParachainsAssumption
  <2>3. size \in Nat
    BY <2>1, <2>2, ProofSizeType
  <2>4. /\ Updates(events) = {p \in S : events[p] = "UpdatedParachainHead"}
        /\ Prunes(events) = {p \in Updates(events) : PrunedHead(p) # None}
    BY <2>1 DEF Updates, Prunes, PrunedHead
  <2> HIDE DEF S
  <2> QED BY <2>1, <2>3, <2>4, ClosureWeightCovers
<1> QED BY <1>1, PTL
=============================================================================
