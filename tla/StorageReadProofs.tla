-------------------------- MODULE StorageReadProofs --------------------------
(***************************************************************************)
(* Proofs about StorageProofs: reading from the nodes of a relayer returns *)
(* what the bridged chain has stored, or nothing.                          *)
(***************************************************************************)
EXTENDS StorageProofs, SequenceTheorems, TLAPS

-----------------------------------------------------------------------------
(* The trie. *)

\* The children of the nodes on the way to a key are those of the storage, and an
\* item below the node of a map is a key of the storage.
LEMMA TrieChildren ==
    ASSUME NEW storage, IsStorage(storage), NEW a, NEW m, NEW i
    PROVE  /\ i \in ItemsOf(storage, a, m) <=> <<a, m, i>> \in DOMAIN storage
           /\ <<a, m, i>> \in DOMAIN storage => m \in MapsOf(storage, a) /\ a \in PalletsOf(storage)
<1> DEFINE key == <<a, m, i>>
<1>1. key[1] = a /\ key[2] = m /\ key[3] = i
  OBVIOUS
<1>2. ASSUME i \in ItemsOf(storage, a, m) PROVE key \in DOMAIN storage
  <2>1. PICK k \in DOMAIN storage : k[1] = a /\ k[2] = m /\ i = k[3]
    BY <1>2 DEF ItemsOf
  <2>2. k = <<k[1], k[2], k[3]>>
    BY DEF IsStorage, IsKey
  <2> QED BY <2>1, <2>2
<1>3. ASSUME key \in DOMAIN storage
      PROVE  i \in ItemsOf(storage, a, m) /\ m \in MapsOf(storage, a) /\ a \in PalletsOf(storage)
  <2> QED BY <1>1, <1>3 DEF ItemsOf, MapsOf, PalletsOf
<1> QED BY <1>2, <1>3

\* Whatever the nodes of the proof: a value that is read below the root of a
\* storage is the one that the storage has under that key.
LEMMA ReadIsSound ==
    ASSUME NEW storage, IsStorage(storage), NEW proof, NEW a, NEW m, NEW i
    PROVE  /\ Found(proof, StateRoot(storage), <<a, m, i>>) \subseteq {storage[<<a, m, i>>]}
           /\ <<a, m, i>> \notin DOMAIN storage =>
                Found(proof, StateRoot(storage), <<a, m, i>>) = {}
<1> DEFINE key == <<a, m, i>>
           Sound(read) == /\ read.value \subseteq {storage[key]}
                          /\ key \notin DOMAIN storage => read.value = {}
<1>1. key[1] = a /\ key[2] = m /\ key[3] = i
  OBVIOUS
<1>2. Sound(ReadError) /\ Sound(ReadOk({}))
  BY DEF ReadError, ReadOk
<1>3. ASSUME key \in DOMAIN storage PROVE Sound(ReadItem(proof, ValueNode(storage, key)))
  BY <1>2, <1>3 DEF ReadItem, ValueNode, ReadOk
<1>4. i \in ItemsOf(storage, a, m) => key \in DOMAIN storage
  BY TrieChildren
<1> HIDE DEF key, Sound
<1>5. Sound(ReadMap(proof, MapNode(storage, a, m), key))
  <2> DEFINE node == MapNode(storage, a, m)
  <2>1. /\ DOMAIN node[2] = ItemsOf(storage, a, m)
        /\ i \in ItemsOf(storage, a, m) => node[2][i] = ValueNode(storage, key)
    BY DEF MapNode, key
  <2> HIDE DEF node
  <2> QED BY <2>1, <1>1, <1>2, <1>3, <1>4 DEF ReadMap, node
<1>6. Sound(ReadPallet(proof, PalletNode(storage, a), key))
  <2> DEFINE node == PalletNode(storage, a)
  <2>1. /\ DOMAIN node[2] = MapsOf(storage, a)
        /\ m \in MapsOf(storage, a) => node[2][m] = MapNode(storage, a, m)
    BY DEF PalletNode
  <2> HIDE DEF node
  <2> QED BY <2>1, <1>1, <1>2, <1>5 DEF ReadPallet, node
<1>7. Sound(ReadTrieValue(proof, StateRoot(storage), key))
  <2> DEFINE node == StateRoot(storage)
  <2>1. /\ DOMAIN node[2] = PalletsOf(storage)
        /\ a \in PalletsOf(storage) => node[2][a] = PalletNode(storage, a)
    BY DEF StateRoot
  <2> HIDE DEF node
  <2> QED BY <2>1, <1>1, <1>2, <1>6 DEF ReadTrieValue, node
<1> QED BY <1>7 DEF Found, ReadValue, Sound, key

\* With the nodes that reading the key visits, the value is found.
LEMMA ReadIsComplete ==
    ASSUME NEW storage, IsStorage(storage), NEW keys, NEW proof,
           RecordedNodes(storage, keys) \subseteq proof,
           NEW a, NEW m, NEW i, <<a, m, i>> \in keys, <<a, m, i>> \in DOMAIN storage
    PROVE  Found(proof, StateRoot(storage), <<a, m, i>>) = {storage[<<a, m, i>>]}
<1> DEFINE key == <<a, m, i>>
<1>1. key[1] = a /\ key[2] = m /\ key[3] = i
  OBVIOUS
<1>2. i \in ItemsOf(storage, a, m) /\ m \in MapsOf(storage, a) /\ a \in PalletsOf(storage)
  BY TrieChildren
<1>3. key \in keys /\ key \in DOMAIN storage
  OBVIOUS
<1> HIDE DEF key
<1>4. /\ StateRoot(storage) \in proof /\ PalletNode(storage, a) \in proof
      /\ MapNode(storage, a, m) \in proof /\ ValueNode(storage, key) \in proof
  BY <1>1, <1>2, <1>3 DEF RecordedNodes
<1>5. ReadItem(proof, ValueNode(storage, key)) = ReadOk({storage[key]})
  BY <1>4 DEF ReadItem, ValueNode
<1>6. ReadMap(proof, MapNode(storage, a, m), key) = ReadOk({storage[key]})
  <2> DEFINE node == MapNode(storage, a, m)
  <2>1. DOMAIN node[2] = ItemsOf(storage, a, m) /\ node[2][i] = ValueNode(storage, key)
    BY <1>2 DEF MapNode, key
  <2> HIDE DEF node
  <2> QED BY <2>1, <1>1, <1>2, <1>4, <1>5 DEF ReadMap, node
<1>7. ReadPallet(proof, PalletNode(storage, a), key) = ReadOk({storage[key]})
  <2> DEFINE node == PalletNode(storage, a)
  <2>1. DOMAIN node[2] = MapsOf(storage, a) /\ node[2][m] = MapNode(storage, a, m)
    BY <1>2 DEF PalletNode
  <2> HIDE DEF node
  <2> QED BY <2>1, <1>1, <1>2, <1>4, <1>6 DEF ReadPallet, node
<1>8. ReadTrieValue(proof, StateRoot(storage), key) = ReadOk({storage[key]})
  <2> DEFINE node == StateRoot(storage)
  <2>1. DOMAIN node[2] = PalletsOf(storage) /\ node[2][a] = PalletNode(storage, a)
    BY <1>2 DEF StateRoot
  <2> HIDE DEF node
  <2> QED BY <2>1, <1>1, <1>2, <1>4, <1>7 DEF ReadTrieValue, node
<1> QED BY <1>8 DEF Found, ReadValue, ReadOk, key
-----------------------------------------------------------------------------
(* The storages of the bridged chains. *)

\* What a block may write: values of the types that the maps have.
LEMMA WrittenIsStorage ==
    ASSUME NEW storage, IsStorage(storage), NEW a, NEW m, NEW i, NEW value,
           m = "OutboundLanes" => Decodes(value, "OutboundLaneData"),
           m = "InboundLanes" => Decodes(value, "InboundLaneData")
    PROVE  IsStorage(Written(storage, <<a, m, i>>, value))
<1> DEFINE key == <<a, m, i>>
           new == Written(storage, key, value)
<1>1. key[1] = a /\ key[2] = m /\ IsKey(key)
  BY DEF IsKey
<1> HIDE DEF key
<1>2. /\ new = [k \in DOMAIN new |-> new[k]]
      /\ DOMAIN new = DOMAIN storage \cup {key}
      /\ \A k \in DOMAIN new : new[k] = IF k = key THEN value ELSE storage[k]
  BY DEF Written
<1> HIDE DEF new
<1>3. ASSUME NEW k \in DOMAIN new
      PROVE  /\ IsKey(k)
             /\ k[2] = "OutboundLanes" => Decodes(new[k], "OutboundLaneData")
             /\ k[2] = "InboundLanes" => Decodes(new[k], "InboundLaneData")
  <2>1. CASE k = key
    BY <2>1, <1>1, <1>2
  <2>2. CASE k # key
    BY <2>2, <1>2 DEF IsStorage
  <2> QED BY <2>1, <2>2
<1>4. IsStorage(new)
  BY <1>2, <1>3 DEF IsStorage
<1> QED BY <1>4 DEF new, key

\* Nor does it touch the heads of the parachains.
KeepsHeads(new, storage) ==
    \A p \in Paras : ParachainHeadKey(p) \in DOMAIN new =>
        /\ ParachainHeadKey(p) \in DOMAIN storage
        /\ new[ParachainHeadKey(p)] = storage[ParachainHeadKey(p)]

LEMMA WrittenKeepsHeads ==
    ASSUME NEW storage, NEW a, NEW m, NEW i, NEW value, m # "Heads"
    PROVE  KeepsHeads(Written(storage, <<a, m, i>>, value), storage)
<1> DEFINE key == <<a, m, i>>
<1>1. \A p \in Paras : ParachainHeadKey(p) # key
  BY DEF ParachainHeadKey, MapFinalKey
<1> HIDE DEF key
<1>2. KeepsHeads(Written(storage, key, value), storage)
  BY <1>1 DEF Written, KeepsHeads
<1> QED BY <1>2 DEF key

\* A storage whose heads are heads of their parachains.
HoldsHeads(storage) ==
    \A p \in Paras : ParachainHeadKey(p) \in DOMAIN storage =>
                       storage[ParachainHeadKey(p)] \in HeadsOf(p)

LEMMA SentIsStorage ==
    ASSUME NEW storage, IsStorage(storage), NEW pallet, NEW lane, NEW format
    PROVE  /\ IsStorage(Sent(storage, pallet, lane, format))
           /\ HoldsHeads(storage) => HoldsHeads(Sent(storage, pallet, lane, format))
<1> DEFINE laneKey == <<pallet, "OutboundLanes", <<lane>>>>
           nonce == Lookup(storage, laneKey)[2] + 1
           item == <<lane, nonce>>
           message == <<format, nonce, pallet, lane>>
           one == Written(storage, <<pallet, "OutboundMessages", item>>, message)
           two == Written(one, laneKey, <<"OutboundLaneData", nonce>>)
<1>1. Sent(storage, pallet, lane, format) = two
  BY DEF Sent
<1> HIDE DEF nonce, item, message
<1>2. IsStorage(one)
  BY WrittenIsStorage
<1>3. KeepsHeads(one, storage)
  <2>1. "OutboundMessages" # "Heads"
    OBVIOUS
  <2> QED BY <2>1, WrittenKeepsHeads
<1> HIDE DEF one
<1>4. IsStorage(two)
  BY <1>2, WrittenIsStorage DEF Decodes
<1>5. KeepsHeads(two, one)
  BY WrittenKeepsHeads
<1> HIDE DEF two
<1> QED BY <1>1, <1>3, <1>4, <1>5 DEF HoldsHeads, KeepsHeads

LEMMA DeliveredIsStorage ==
    ASSUME NEW storage, IsStorage(storage), NEW pallet, NEW lane
    PROVE  /\ IsStorage(Delivered(storage, pallet, lane))
           /\ HoldsHeads(storage) => HoldsHeads(Delivered(storage, pallet, lane))
<1> DEFINE laneKey == <<pallet, "InboundLanes", <<lane>>>>
           number == Lookup(storage, laneKey)[2] + 1
           new == Written(storage, laneKey, <<"InboundLaneData", number>>)
<1>1. Delivered(storage, pallet, lane) = new
  BY DEF Delivered
<1> HIDE DEF number
<1>2. IsStorage(new)
  BY WrittenIsStorage DEF Decodes
<1>3. KeepsHeads(new, storage)
  BY WrittenKeepsHeads
<1> HIDE DEF new
<1> QED BY <1>1, <1>2, <1>3 DEF HoldsHeads, KeepsHeads

\* The current heads that a relay block stores.
LEMMA WithHeadsIsStorage ==
    ASSUME NEW storage, IsStorage(storage), HoldsHeads(storage), StoragesOK
    PROVE  IsStorage(WithHeads(storage)) /\ HoldsHeads(WithHeads(storage))
<1> DEFINE live == {p \in Paras : storages[p] # <<>>}
           keys == {<<"Paras", "Heads", <<p>>>> : p \in live}
           new == WithHeads(storage)
<1>1. /\ new = [k \in DOMAIN new |-> new[k]]
      /\ DOMAIN new = DOMAIN storage \cup keys
      /\ \A k \in DOMAIN new : new[k] = IF k \in keys THEN HeadOf(k[3][1], Len(storages[k[3][1]]))
                                        ELSE storage[k]
  BY DEF WithHeads
<1>2. \A k \in keys : IsKey(k) /\ k[2] = "Heads"
  BY DEF IsKey
<1>3. \A p \in Paras : /\ ParachainHeadKey(p)[3][1] = p
                       /\ ParachainHeadKey(p) \in keys => p \in live
  BY DEF ParachainHeadKey, MapFinalKey
<1>4. ASSUME NEW p \in live PROVE Len(storages[p]) \in 1..Len(storages[p])
  <2> DEFINE S == {storages[p][i] : i \in DOMAIN storages[p]}
  <2>1. storages[p] \in Seq(S) /\ storages[p] # <<>>
    BY <1>4 DEF StoragesOK, Chains, IsSequence
  <2> HIDE DEF S
  <2> QED BY <2>1, EmptySeq, LenProperties
<1> HIDE DEF new, keys, live
<1>5. IsStorage(new)
  BY <1>1, <1>2 DEF IsStorage
<1>6. ASSUME NEW p \in Paras, ParachainHeadKey(p) \in DOMAIN new
      PROVE  new[ParachainHeadKey(p)] \in HeadsOf(p)
  <2>1. CASE ParachainHeadKey(p) \in keys
    <3>1. new[ParachainHeadKey(p)] = HeadOf(p, Len(storages[p]))
      BY <1>1, <1>3, <1>6, <2>1
    <3> QED BY <3>1, <1>3, <1>4, <2>1 DEF HeadsOf
  <2>2. CASE ParachainHeadKey(p) \notin keys
    BY <2>2, <1>1, <1>6 DEF HoldsHeads
  <2> QED BY <2>1, <2>2
<1> QED BY <1>5, <1>6 DEF HoldsHeads, new

\* The storage that the next block of a chain starts from.
LEMMA LastIsStorage ==
    ASSUME StoragesOK, NEW c \in Chains
    PROVE  IsStorage(LastStorage(c)) /\ (c = Relay /\ RelayHeadsOK => HoldsHeads(LastStorage(c)))
<1>1. CASE storages[c] = <<>>
  <2>1. LastStorage(c) = <<>> /\ DOMAIN <<>> = {}
    BY <1>1 DEF LastStorage
  <2>2. <<>> = [k \in DOMAIN <<>> |-> <<>>[k]]
    OBVIOUS
  <2> QED BY <2>1, <2>2 DEF IsStorage, HoldsHeads
<1>2. CASE storages[c] # <<>>
  <2> DEFINE S == {storages[c][i] : i \in DOMAIN storages[c]}
             n == Len(storages[c])
  <2>1. storages[c] \in Seq(S)
    BY DEF StoragesOK, IsSequence
  <2> HIDE DEF S
  <2>2. n \in 1..n
    BY <1>2, <2>1, EmptySeq, LenProperties
  <2>3. LastStorage(c) = storages[c][n]
    BY <1>2 DEF LastStorage
  <2>4. IsStorage(storages[c][n])
    BY <2>2 DEF StoragesOK
  <2>5. c = Relay /\ RelayHeadsOK => HoldsHeads(storages[c][n])
    BY <2>2 DEF RelayHeadsOK, HoldsHeads
  <2> QED BY <2>3, <2>4, <2>5
<1> QED BY <1>1, <1>2

-----------------------------------------------------------------------------
(* The invariant.  The storages of a chain only grow, so a head stays the head *)
(* of its block.                                                               *)

LEMMA SeqOfOwnElements ==
    ASSUME NEW S, NEW s \in Seq(S)
    PROVE  IsSequence(s)
<1> DEFINE T == {s[i] : i \in DOMAIN s}
           n == Len(s)
<1>1. n \in Nat /\ s = [b \in 1..n |-> s[b]] /\ \A b \in 1..n : s[b] \in T
  BY LenProperties
<1> HIDE DEF T, n
<1>2. [b \in 1..n |-> s[b]] \in Seq(T)
  BY <1>1, IsASeq
<1> QED BY <1>1, <1>2 DEF T, IsSequence

\* A block is appended to one of the chains, and the others stay.
Grown(d) ==
    /\ Len(storages[d]) \in Nat /\ Len(storages'[d]) \in Nat
    /\ Len(storages[d]) <= Len(storages'[d])
    /\ \A b \in 1..Len(storages[d]) : storages'[d][b] = storages[d][b]

LEMMA BlockAppended ==
    ASSUME StoragesOK, NEW c \in Chains, NEW new, IsStorage(new),
           storages' = [storages EXCEPT ![c] = Append(@, new)]
    PROVE  /\ StoragesOK'
           /\ \A d \in Chains : Grown(d)
           /\ Len(storages'[c]) = Len(storages[c]) + 1 /\ storages'[c][Len(storages[c]) + 1] = new
           /\ \A d \in Chains \ {c} : storages'[d] = storages[d]
<1>1. /\ storages' = [d \in Chains |-> storages'[d]]
      /\ storages'[c] = Append(storages[c], new)
      /\ \A d \in Chains \ {c} : storages'[d] = storages[d]
  <2>1. storages = [d \in Chains |-> storages[d]]
    BY DEF StoragesOK
  <2> QED BY <2>1
<1> DEFINE T == {storages[c][i] : i \in DOMAIN storages[c]} \cup {new}
           n == Len(storages[c])
<1>2. storages[c] \in Seq(T)
  <2> DEFINE S == {storages[c][i] : i \in DOMAIN storages[c]}
  <2>1. storages[c] \in Seq(S) /\ S \subseteq T
    BY DEF StoragesOK, IsSequence
  <2> HIDE DEF S, T
  <2> QED BY <2>1, SeqMonotonic
<1>3. new \in T
  OBVIOUS
<1> HIDE DEF T
<1>4. /\ n \in Nat /\ Append(storages[c], new) \in Seq(T)
      /\ Len(Append(storages[c], new)) = n + 1
      /\ \A b \in 1..n : Append(storages[c], new)[b] = storages[c][b]
      /\ Append(storages[c], new)[n + 1] = new
  BY <1>2, <1>3, AppendProperties, LenProperties
<1>5. IsSequence(storages'[c])
  BY <1>1, <1>4, SeqOfOwnElements
<1>6. \A b \in 1..Len(storages'[c]) : IsStorage(storages'[c][b])
  <2> SUFFICES ASSUME NEW b \in 1..(n + 1) PROVE IsStorage(storages'[c][b])
    BY <1>1, <1>4
  <2>1. CASE b = n + 1
    BY <2>1, <1>1, <1>4
  <2>2. CASE b # n + 1
    <3>1. b \in 1..n
      BY <2>2, <1>4
    <3> QED BY <3>1, <1>1, <1>4 DEF StoragesOK
  <2> QED BY <2>1, <2>2
<1>7. StoragesOK'
  <2>1. ASSUME NEW d \in Chains
        PROVE  /\ IsSequence(storages'[d])
               /\ \A b \in 1..Len(storages'[d]) : IsStorage(storages'[d][b])
    <3>1. CASE d = c
      BY <3>1, <1>5, <1>6
    <3>2. CASE d # c
      BY <3>2, <1>1 DEF StoragesOK
    <3> QED BY <3>1, <3>2
  <2> QED BY <2>1, <1>1 DEF StoragesOK
<1>8. ASSUME NEW d \in Chains PROVE Grown(d)
  <2>1. CASE d = c
    BY <2>1, <1>1, <1>4 DEF Grown
  <2>2. CASE d # c
    <3> DEFINE S == {storages[d][i] : i \in DOMAIN storages[d]}
    <3>1. storages[d] \in Seq(S)
      BY DEF StoragesOK, IsSequence
    <3> HIDE DEF S
    <3>2. Len(storages[d]) \in Nat
      BY <3>1, LenProperties
    <3> QED BY <2>2, <3>2, <1>1 DEF Grown
  <2> QED BY <2>1, <2>2
<1> QED BY <1>1, <1>4, <1>7, <1>8

\* The heads of a chain that grows stay its heads.
LEMMA HeadsStay ==
    ASSUME NEW p, Grown(p)
    PROVE  HeadsOf(p) \subseteq HeadsOf(p)'
<1> SUFFICES ASSUME NEW n \in 1..Len(storages[p]) PROVE HeadOf(p, n) \in HeadsOf(p)'
  BY DEF HeadsOf
<1>1. n \in 1..Len(storages'[p]) /\ storages'[p][n] = storages[p][n]
  BY DEF Grown
<1>2. HeadOf(p, n)' = HeadOf(p, n)
  BY <1>1 DEF HeadOf
<1> QED BY <1>1, <1>2 DEF HeadsOf

\* A head that the pallet may hold: what ImportedHeadsAreReal says of it.
IsReal(p, head) ==
    /\ head \in HeadsOf(p)
    /\ \E n \in Finalized : head = Lookup(storages[Relay][n], <<"Paras", "Heads", <<p>>>>)

LEMMA RealHeads == ImportedHeadsAreReal <=> \A p \in Paras : \A head \in paraHeads[p] : IsReal(p, head)
BY DEF ImportedHeadsAreReal, IsReal

LEMMA FinalizedBlocks ==
    ASSUME headers \in Seq(1..Len(storages[Relay])), NEW n \in Finalized
    PROVE  n \in 1..Len(storages[Relay])
<1> DEFINE N == 1..Len(storages[Relay])
<1>1. headers \in Seq(N) /\ headers # <<>> /\ n \in 1..headers[1]
  BY DEF Finalized
<1> HIDE DEF N
<1>2. Len(headers) \in Nat /\ Len(headers) # 0
  BY <1>1, EmptySeq, LenProperties
<1>3. headers[1] \in N
  BY <1>1, <1>2, ElementOfSeq
<1> QED BY <1>1, <1>3 DEF N

\* While chains and finality grow, a head stays real.
LEMMA RealStays ==
    ASSUME headers \in Seq(1..Len(storages[Relay])), Grown(Relay), NEW p, Grown(p),
           Finalized \subseteq Finalized', NEW head, IsReal(p, head)
    PROVE  IsReal(p, head)'
<1> DEFINE key == <<"Paras", "Heads", <<p>>>>
<1>1. PICK n \in Finalized : head = Lookup(storages[Relay][n], key)
  BY DEF IsReal
<1>2. storages'[Relay][n] = storages[Relay][n]
  BY <1>1, FinalizedBlocks DEF Grown
<1>3. head \in HeadsOf(p)'
  BY HeadsStay DEF IsReal
<1> HIDE DEF key
<1>4. \E m \in Finalized' : head = Lookup(storages'[Relay][m], key)
  BY <1>1, <1>2
<1> QED BY <1>3, <1>4 DEF IsReal, key, Lookup

LEMMA BlockKeepsInv ==
    ASSUME StorageInv, NEW c \in Chains, NEW storage, IsStorage(storage),
           c = Relay => HoldsHeads(storage), ExecuteBlock(c, storage)
    PROVE  StorageInv'
<1> DEFINE new == IF c = Relay THEN WithHeads(storage) ELSE storage
<1>1. IsStorage(new) /\ (c = Relay => HoldsHeads(new))
  BY WithHeadsIsStorage DEF StorageInv
<1>2. storages' = [storages EXCEPT ![c] = Append(@, new)]
  BY DEF ExecuteBlock
<1> HIDE DEF new
<1>3. /\ StoragesOK'
      /\ \A d \in Chains : Grown(d)
      /\ Len(storages'[c]) = Len(storages[c]) + 1 /\ storages'[c][Len(storages[c]) + 1] = new
      /\ \A d \in Chains \ {c} : storages'[d] = storages[d]
  BY <1>1, <1>2, BlockAppended DEF StorageInv
<1>4. /\ bridged' = bridged /\ headers' = headers /\ paraHeads' = paraHeads
      /\ Relay \in Chains /\ Paras \subseteq Chains
  BY DEF ExecuteBlock, Chains
<1>5. \A p \in Paras : HeadsOf(p) \subseteq HeadsOf(p)'
  BY <1>3, <1>4, HeadsStay
<1>6. headers' \in Seq(1..Len(storages'[Relay]))
  <2>1. 1..Len(storages[Relay]) \subseteq 1..Len(storages'[Relay])
    BY <1>3, <1>4 DEF Grown
  <2>2. headers \in Seq(1..Len(storages[Relay]))
    BY DEF StorageInv
  <2> QED BY <2>1, <2>2, <1>4, SeqMonotonic
<1>7. RelayHeadsOK'
  <2> SUFFICES ASSUME NEW b \in 1..Len(storages'[Relay]), NEW p \in Paras,
                      ParachainHeadKey(p) \in DOMAIN storages'[Relay][b]
               PROVE  storages'[Relay][b][ParachainHeadKey(p)] \in HeadsOf(p)'
    BY DEF RelayHeadsOK, ParachainHeadKey
  <2>1. \/ b \in 1..Len(storages[Relay]) /\ storages'[Relay][b] = storages[Relay][b]
        \/ c = Relay /\ storages'[Relay][b] = new
    <3>1. CASE b \in 1..Len(storages[Relay])
      BY <3>1, <1>3, <1>4 DEF Grown
    <3>2. CASE b \notin 1..Len(storages[Relay])
      <4>1. c = Relay
        BY <3>2, <1>3, <1>4
      <4>2. Len(storages[Relay]) \in Nat
        BY <1>3, <1>4 DEF Grown
      <4>3. b = Len(storages[Relay]) + 1
        BY <3>2, <4>1, <4>2, <1>3
      <4> QED BY <4>1, <4>3, <1>3
    <3> QED BY <3>1, <3>2
  <2>2. storages'[Relay][b][ParachainHeadKey(p)] \in HeadsOf(p)
    BY <2>1, <1>1 DEF StorageInv, RelayHeadsOK, HoldsHeads
  <2> QED BY <2>2, <1>5
<1>8. ImportedHeadsAreReal'
  <2>1. Finalized' = Finalized
    BY <1>4 DEF Finalized
  <2>2. ASSUME NEW p \in Paras, NEW head \in paraHeads'[p] PROVE IsReal(p, head)'
    <3>1. IsReal(p, head)
      BY <1>4, RealHeads DEF StorageInv
    <3> QED BY <2>1, <3>1, <1>3, <1>4, RealStays DEF StorageInv
  <2> QED BY <2>2 DEF ImportedHeadsAreReal, IsReal
<1> QED BY <1>3, <1>4, <1>6, <1>7, <1>8 DEF StorageInv

\* While the storages stay, so do the parts of the invariant about them.
LEMMA StoragesStay ==
    ASSUME StorageInv, UNCHANGED <<bridged, storages>>
    PROVE  /\ bridged' \in {Relay, BridgedPara} /\ StoragesOK' /\ RelayHeadsOK'
           /\ \A p \in Paras : HeadsOf(p)' = HeadsOf(p)
<1>1. bridged' = bridged /\ storages' = storages
  OBVIOUS
<1>2. StoragesOK'
  BY <1>1 DEF StorageInv, StoragesOK
<1>3. \A p \in Paras : HeadsOf(p)' = HeadsOf(p)
  BY <1>1 DEF HeadsOf, HeadOf
<1>4. RelayHeadsOK'
  BY <1>1, <1>3 DEF StorageInv, RelayHeadsOK, ParachainHeadKey
<1> QED BY <1>1, <1>2, <1>3, <1>4 DEF StorageInv

\* And if no finalized block is forgotten, the heads stay real.
LEMMA RealStaysHere ==
    ASSUME StorageInv, UNCHANGED storages, Finalized \subseteq Finalized',
           NEW p \in Paras, NEW head, IsReal(p, head)
    PROVE  IsReal(p, head)'
<1>1. HeadsOf(p)' = HeadsOf(p)
  BY DEF HeadsOf, HeadOf
<1> QED BY <1>1 DEF IsReal, Lookup

LEMMA UnchangedInv ==
    ASSUME StorageInv, UNCHANGED <<bridged, storages, headers, paraHeads>>
    PROVE  StorageInv'
<1>1. Finalized' = Finalized
  BY DEF Finalized
<1>2. ImportedHeadsAreReal'
  BY <1>1, RealHeads, RealStaysHere DEF StorageInv, ImportedHeadsAreReal, IsReal
<1> QED BY <1>2, StoragesStay DEF StorageInv

LEMMA ImportKeepsInv ==
    ASSUME StorageInv, NEW number \in 1..Len(storages[Relay]), ImportHeader(number)
    PROVE  StorageInv'
<1> DEFINE N == 1..Len(storages[Relay])
           all == <<number>> \o headers
           kept == IF Len(headers) < HeadersToKeep THEN Len(headers) + 1 ELSE HeadersToKeep
<1>1. headers \in Seq(N) /\ number \in N
  BY DEF StorageInv
<1>2. headers' = SubSeq(all, 1, kept) /\ UNCHANGED <<bridged, storages, paraHeads>>
  BY DEF ImportHeader
<1> HIDE DEF N
<1>3. <<number>> \in Seq(N) /\ Len(<<number>>) = 1
  BY <1>1
<1>4. Len(headers) \in Nat /\ all \in Seq(N) /\ Len(all) = Len(headers) + 1
  BY <1>1, <1>3, ConcatProperties, LenProperties
<1>5. kept \in Nat /\ kept <= Len(all)
  BY <1>4, StorageProofsAssumption
<1> HIDE DEF all, kept
<1>6. \A i \in 1..kept : all[i] \in N
  <2>1. \A i \in 1..kept : i \in 1..Len(all)
    BY <1>4, <1>5
  <2> QED BY <2>1, <1>4, ElementOfSeq
<1>7. SubSeq(all, 1, kept) \in Seq(N)
  BY <1>5, <1>6, SubSeqProperties
<1>8. headers' \in Seq(1..Len(storages'[Relay]))
  BY <1>2, <1>7 DEF N
<1>9. /\ 1 <= kept /\ Len(headers') = kept
      /\ headers'[1] = number /\ \A i \in 2..kept : headers'[i] = headers[i - 1]
  <2>1. 1 <= kept
    BY <1>4, StorageProofsAssumption DEF kept
  <2>2. Len(headers') = kept /\ \A i \in 1..kept : headers'[i] = all[i]
    BY <1>2, <1>5, <1>6, SubSeqProperties
  <2>3. all[1] = number /\ \A i \in 2..Len(all) : all[i] = headers[i - 1]
    BY <1>1, <1>3, <1>4, ConcatProperties DEF all
  <2>4. \A i \in 2..kept : i \in 1..kept /\ i \in 2..Len(all)
    BY <1>4, <1>5
  <2> QED BY <2>1, <2>2, <2>3, <2>4, <1>5
<1>10. \A i \in 1..Len(headers) : headers[i] < number
  <2> SUFFICES ASSUME NEW i \in 1..Len(headers) PROVE headers[i] < number
    OBVIOUS
  <2>1. headers # <<>> /\ 1 \in 1..Len(headers)
    BY <1>4
  <2>2. headers[i] \in Nat /\ headers[1] \in Nat /\ number \in Nat
    BY <1>1, <2>1, ElementOfSeq DEF N
  <2>3. headers[i] <= headers[1] /\ headers[1] < number
    BY <2>1 DEF StorageInv, ImportHeader
  <2> QED BY <2>2, <2>3
<1>11. \A i \in 1..Len(headers') : headers'[i] <= headers'[1]
  <2> SUFFICES ASSUME NEW i \in 1..kept PROVE headers'[i] <= number
    BY <1>9
  <2>0. number \in Nat
    BY <1>1 DEF N
  <2>1. CASE i = 1
    BY <2>0, <2>1, <1>9
  <2>2. CASE i # 1
    <3>1. i \in 2..kept /\ i - 1 \in 1..Len(headers)
      BY <2>2, <1>4, <1>5
    <3>2. headers'[i] = headers[i - 1] /\ headers[i - 1] < number
      BY <3>1, <1>9, <1>10
    <3>3. headers[i - 1] \in Nat
      BY <1>1, <3>1, ElementOfSeq DEF N
    <3> QED BY <2>0, <3>2, <3>3
  <2> QED BY <2>1, <2>2
<1>12. Finalized \subseteq Finalized'
  <2> SUFFICES ASSUME NEW n \in Finalized PROVE n \in Finalized'
    OBVIOUS
  <2>1. headers # <<>> /\ n \in 1..headers[1] /\ number \in Nat
    BY <1>1 DEF Finalized, N
  <2>2. 1 \in 1..Len(headers)
    BY <1>1, <2>1, <1>4, EmptySeq
  <2>3. headers[1] < number /\ headers[1] \in Nat
    BY <1>1, <1>10, <2>2, ElementOfSeq DEF N
  <2>4. headers' # <<>> /\ headers'[1] = number
    BY <1>8, <1>9, <1>5
  <2> QED BY <2>1, <2>3, <2>4 DEF Finalized
<1>13. ImportedHeadsAreReal'
  BY <1>2, <1>12, RealHeads, RealStaysHere DEF StorageInv, ImportedHeadsAreReal, IsReal
<1> QED BY <1>2, <1>8, <1>11, <1>13, StoragesStay DEF StorageInv

\* A head that is read from a proof was stored by the finalized relay block.
LEMMA SubmitKeepsInv ==
    ASSUME StorageInv, NEW p \in Paras, NEW number \in 1..Len(storages[Relay]), NEW proof,
           SubmitParachainHead(p, number, proof)
    PROVE  StorageInv'
<1> DEFINE storage == storages[Relay][number]
<1>0. PICK root \in GrandpaStateRoot(number) :
         \E head \in ReadParachainHead(proof, root, p) :
           /\ paraHeads' = [paraHeads EXCEPT ![p] = @ \cup {head}]
           /\ UNCHANGED <<bridged, storages, headers, answer>>
  BY DEF SubmitParachainHead
<1>1. PICK head \in ReadParachainHead(proof, root, p) :
         /\ paraHeads' = [paraHeads EXCEPT ![p] = @ \cup {head}]
         /\ UNCHANGED <<bridged, storages, headers, answer>>
  BY <1>0
<1>2. root = StateRoot(storage)
  BY <1>1 DEF GrandpaStateRoot
<1>3. IsStorage(storage)
  BY DEF StorageInv, StoragesOK, Chains
<1>4. head = storage[ParachainHeadKey(p)] /\ ParachainHeadKey(p) \in DOMAIN storage
  <2> HIDE DEF storage
  <2>1. head \in Found(proof, StateRoot(storage), <<"Paras", "Heads", <<p>>>>)
    BY <1>1, <1>2 DEF ReadParachainHead, ParachainHeadKey, MapFinalKey
  <2>2. head = storage[<<"Paras", "Heads", <<p>>>>] /\ <<"Paras", "Heads", <<p>>>> \in DOMAIN storage
    BY <2>1, <1>3, ReadIsSound
  <2> QED BY <2>2 DEF ParachainHeadKey, MapFinalKey
<1>5. head \in HeadsOf(p)
  BY <1>4 DEF StorageInv, RelayHeadsOK
<1>6. number \in Finalized
  <2>1. PICK i \in 1..Len(headers) : headers[i] = number
    BY <1>1 DEF GrandpaStateRoot
  <2> DEFINE N == 1..Len(storages[Relay])
  <2>2. headers \in Seq(N) /\ number \in N
    BY DEF StorageInv
  <2> HIDE DEF N
  <2>3. headers # <<>> /\ 1 \in 1..Len(headers)
    BY <2>1, <2>2, LenProperties, EmptySeq
  <2>4. headers[1] \in Nat /\ number \in Nat /\ 1 <= number
    BY <2>2, <2>3, ElementOfSeq DEF N
  <2>5. number <= headers[1]
    BY <2>1 DEF StorageInv
  <2> QED BY <2>3, <2>4, <2>5 DEF Finalized
<1>7. IsReal(p, head)
  <2>1. head = Lookup(storage, <<"Paras", "Heads", <<p>>>>)
    BY <1>4 DEF Lookup, ParachainHeadKey, MapFinalKey
  <2> QED BY <2>1, <1>5, <1>6 DEF IsReal
<1>8. Finalized' = Finalized /\ headers' = headers /\ storages' = storages
  BY <1>1 DEF Finalized
<1>9. ImportedHeadsAreReal'
  <2> SUFFICES ASSUME NEW q \in Paras, NEW h \in paraHeads'[q] PROVE IsReal(q, h)'
    BY DEF ImportedHeadsAreReal, IsReal
  <2>1. h \in paraHeads[q] \/ (q = p /\ h = head)
    BY <1>1 DEF StorageInv
  <2>2. IsReal(q, h)
    BY <2>1, <1>7, RealHeads DEF StorageInv
  <2> QED BY <2>2, <1>8, RealStaysHere
<1>10. paraHeads' = [q \in Paras |-> paraHeads'[q]]
  BY <1>1 DEF StorageInv
<1> QED BY <1>1, <1>8, <1>9, <1>10, StoragesStay DEF StorageInv

LEMMA ChainNextInv == ASSUME StorageInv, ChainNext PROVE StorageInv'
<1>1. bridged \in Chains
  BY StorageProofsAssumption DEF StorageInv, Chains
<1>2. \A c \in Chains : IsStorage(LastStorage(c)) /\ (c = Relay => HoldsHeads(LastStorage(c)))
  BY LastIsStorage DEF StorageInv
<1>3. ASSUME NEW pallet, NEW lane, NEW format, SendAtBridged(pallet, lane, format) PROVE StorageInv'
  <2> DEFINE new == Sent(LastStorage(bridged), pallet, lane, format)
  <2>1. IsStorage(new) /\ (bridged = Relay => HoldsHeads(new))
    BY <1>1, <1>2, SentIsStorage
  <2>2. ExecuteBlock(bridged, new)
    BY <1>3 DEF SendAtBridged
  <2> HIDE DEF new
  <2> QED BY <1>1, <2>1, <2>2, BlockKeepsInv
<1>4. ASSUME NEW pallet, NEW lane, DeliverAtBridged(pallet, lane) PROVE StorageInv'
  <2> DEFINE new == Delivered(LastStorage(bridged), pallet, lane)
  <2>1. IsStorage(new) /\ (bridged = Relay => HoldsHeads(new))
    BY <1>1, <1>2, DeliveredIsStorage
  <2>2. ExecuteBlock(bridged, new)
    BY <1>4 DEF DeliverAtBridged
  <2> HIDE DEF new
  <2> QED BY <1>1, <2>1, <2>2, BlockKeepsInv
<1>5. ASSUME NEW c \in Chains, PlainBlock(c) PROVE StorageInv'
  BY <1>2, <1>5, BlockKeepsInv DEF PlainBlock
<1>6. ASSUME NEW number \in 1..Len(storages[Relay]), ImportHeader(number) PROVE StorageInv'
  BY <1>6, ImportKeepsInv
<1> QED BY <1>3, <1>4, <1>5, <1>6 DEF ChainNext

LEMMA NextStorageInv == StorageInv /\ [Next]_vars => StorageInv'
<1> SUFFICES ASSUME StorageInv, [Next]_vars PROVE StorageInv'
  OBVIOUS
<1>1. CASE ChainNext
  BY <1>1, ChainNextInv
<1>2. CASE SubmitSomeHead
  <2>1. PICK number \in 1..Len(storages[Relay]), p \in Paras :
          \E nodes : SubmitParachainHead(p, number, nodes)
    BY <1>2 DEF SubmitSomeHead
  <2> QED BY <2>1, SubmitKeepsInv
<1>3. CASE ReceiveSomeMessages
  <2>1. PICK hash, lane, start, end, messages_count, nodes :
          ReceiveMessagesProof(hash, lane, start, end, messages_count, nodes)
    BY <1>3 DEF ReceiveSomeMessages
  <2>2. UNCHANGED <<bridged, storages, headers, paraHeads>>
    BY <2>1 DEF ReceiveMessagesProof
  <2> QED BY <2>2, UnchangedInv
<1>4. CASE ReceiveSomeDelivery
  BY <1>4, UnchangedInv DEF ReceiveSomeDelivery, ReceiveDeliveryProof
<1>5. CASE Return
  BY <1>5, UnchangedInv DEF Return
<1>6. CASE UNCHANGED vars
  BY <1>6, UnchangedInv DEF vars
<1> QED BY <1>1, <1>2, <1>3, <1>4, <1>5, <1>6 DEF Next

LEMMA InitStorageInv == Init => StorageInv
<1> SUFFICES ASSUME Init PROVE StorageInv
  OBVIOUS
<1>1. Relay \in Chains /\ Len(<<>>) = 0
  BY DEF Chains
<1>2. /\ bridged \in {Relay, BridgedPara} /\ storages = [c \in Chains |-> <<>>]
      /\ headers = <<>> /\ paraHeads = [p \in Paras |-> {}]
  BY DEF Init
<1>3. IsSequence(<<>>)
  BY DEF IsSequence
<1>4. StoragesOK
  BY <1>1, <1>2, <1>3 DEF StoragesOK
<1>5. RelayHeadsOK
  BY <1>1, <1>2 DEF RelayHeadsOK
<1>6. ImportedHeadsAreReal
  BY <1>2 DEF ImportedHeadsAreReal
<1> QED BY <1>1, <1>2, <1>4, <1>5, <1>6 DEF StorageInv

LEMMA StorageInvariant == Spec => []StorageInv
BY InitStorageInv, NextStorageInv, PTL DEF Spec

\* Every head that the parachains pallet holds is a head of that parachain which a
\* finalized relay block has stored under it, whatever nodes of whatever blocks of
\* whatever chains relayers put into their proofs, however many are missing, and
\* however far the chains have grown since.
THEOREM OnlyRealHeads == Spec => []ImportedHeadsAreReal
<1>1. StorageInv => ImportedHeadsAreReal
  BY DEF StorageInv
<1> QED BY <1>1, StorageInvariant, PTL

-----------------------------------------------------------------------------
(* Verification. *)

\* The state root that a proof is checked with is that of the block of the named
\* header or head, and there is one exactly if the pallets have imported it.
LEMMA KnownRoot ==
    ASSUME StorageInv, NEW hash
    PROVE  /\ KnownStateRoot(hash) =
                IF IsImported(hash) THEN {StateRoot(storages[bridged][BlockOf(hash)])} ELSE {}
           /\ IsImported(hash) => /\ BlockOf(hash) \in 1..Len(storages[bridged])
                                  /\ IsStorage(storages[bridged][BlockOf(hash)])
<1>1. CASE bridged = Relay
  <2>1. BlockOf(hash) = hash /\ KnownStateRoot(hash) = GrandpaStateRoot(hash)
    BY <1>1 DEF BlockOf, KnownStateRoot
  <2>2. IsImported(hash) => hash \in 1..Len(storages[Relay])
    <3>1. headers \in Seq(1..Len(storages[Relay]))
      BY DEF StorageInv
    <3> QED BY <1>1, <3>1, ElementOfSeq DEF IsImported
  <2>3. IsImported(hash) => IsStorage(storages[Relay][hash])
    BY <2>2 DEF StorageInv, StoragesOK, Chains
  <2> QED BY <1>1, <2>1, <2>2, <2>3 DEF GrandpaStateRoot, IsImported
<1>2. CASE bridged # Relay
  <2>1. bridged = BridgedPara /\ BridgedPara \in Paras
    BY <1>2, StorageProofsAssumption DEF StorageInv
  <2>2. /\ IsImported(hash) <=> hash \in paraHeads[bridged]
        /\ BlockOf(hash) = hash[2]
        /\ KnownStateRoot(hash) = ParachainStateRoot(bridged, hash)
    BY <1>2 DEF IsImported, BlockOf, KnownStateRoot
  <2>3. ASSUME hash \in paraHeads[bridged]
        PROVE  /\ hash[1] = "Header" /\ hash[2] \in 1..Len(storages[bridged])
               /\ hash[3] = StateRoot(storages[bridged][hash[2]])
    <3>1. PICK n \in 1..Len(storages[bridged]) : hash = HeadOf(bridged, n)
      BY <2>1, <2>3, RealHeads DEF StorageInv, IsReal, HeadsOf
    <3>2. hash = <<"Header", n, StateRoot(storages[bridged][n])>>
      BY <3>1, <2>1 DEF HeadOf
    <3> QED BY <3>2
  <2>4. CASE hash \in paraHeads[bridged]
    <3>1. ParachainStateRoot(bridged, hash) = {hash[3]}
      BY <2>3, <2>4 DEF ParachainStateRoot, Decodes
    <3>2. IsStorage(storages[bridged][hash[2]])
      BY <2>1, <2>3, <2>4 DEF StorageInv, StoragesOK, Chains
    <3> QED BY <2>2, <2>3, <2>4, <3>1, <3>2
  <2>5. CASE hash \notin paraHeads[bridged]
    <3>1. ParachainStateRoot(bridged, hash) = {}
      BY <2>5 DEF ParachainStateRoot
    <3> QED BY <2>2, <2>5, <3>1
  <2> QED BY <2>4, <2>5
<1> QED BY <1>1, <1>2

\* What AcceptedProofsAreTrue says of a result.
IsTrue(result) ==
    LET At(key) == Lookup(storages[bridged][BlockOf(result.hash)], key)
    IN  /\ result.verdict # "rejected" => IsImported(result.hash)
        /\ result.verdict = "messages" =>
             /\ \A i \in 1..Len(result.messages) :
                  result.messages[i] =
                    At(<<BridgedPallet, "OutboundMessages", <<result.lane, result.start + i - 1>>>>)
             /\ result.lane_state \subseteq {At(<<BridgedPallet, "OutboundLanes", <<result.lane>>>>)}
        /\ result.verdict = "lane" =>
             result.lane_data = {At(<<BridgedPallet, "InboundLanes", <<result.lane>>>>)}

\* A value that is found is what a lookup in the storage returns.
LEMMA FoundIsLookup ==
    ASSUME NEW storage, IsStorage(storage), NEW proof, NEW a, NEW m, NEW i,
           NEW v \in Found(proof, StateRoot(storage), <<a, m, i>>)
    PROVE  /\ v = Lookup(storage, <<a, m, i>>)
           /\ Found(proof, StateRoot(storage), <<a, m, i>>) = {Lookup(storage, <<a, m, i>>)}
<1> DEFINE key == <<a, m, i>>
           found == Found(proof, StateRoot(storage), key)
<1>1. found \subseteq {storage[key]} /\ (key \notin DOMAIN storage => found = {})
  BY ReadIsSound
<1>2. v \in found
  OBVIOUS
<1> HIDE DEF key, found
<1>3. v = Lookup(storage, key) /\ found = {Lookup(storage, key)}
  BY <1>1, <1>2 DEF Lookup
<1> QED BY <1>3 DEF key, found

LEMMA DeliveryResultTrue ==
    ASSUME StorageInv, NEW hash, NEW proof, NEW lane
    PROVE  IsTrue(VerifyDeliveryProof(hash, proof, lane))
<1> DEFINE result == VerifyDeliveryProof(hash, proof, lane)
           storage == storages[bridged][BlockOf(hash)]
           root == StateRoot(storage)
           read == ReadRawInboundLane(proof, root, lane)
<1>1. CASE result = Rejected
  <2>1. result.verdict = "rejected"
    BY <1>1 DEF Rejected
  <2> QED BY <2>1 DEF IsTrue
<1>2. CASE result # Rejected
  <2>1. /\ \E r \in KnownStateRoot(hash) : ReadRawInboundLane(proof, r, lane) # {}
        /\ result = [verdict |-> "lane", hash |-> hash, lane |-> lane,
                     lane_data |-> UNION {ReadRawInboundLane(proof, r, lane) : r \in KnownStateRoot(hash)}]
    BY <1>2 DEF VerifyDeliveryProof
  <2>2. IsImported(hash) /\ IsStorage(storage) /\ KnownStateRoot(hash) = {root}
    BY <2>1, KnownRoot
  <2> HIDE DEF root
  <2>3. read # {} /\ result = [verdict |-> "lane", hash |-> hash, lane |-> lane, lane_data |-> read]
    BY <2>1, <2>2
  <2>4. read = Found(proof, root, <<BridgedPallet, "InboundLanes", <<lane>>>>)
    BY DEF ReadRawInboundLane, InboundLaneDataKey, MapFinalKey
  <2> HIDE DEF read, result, storage
  <2>5. read = {Lookup(storage, <<BridgedPallet, "InboundLanes", <<lane>>>>)}
    BY <2>2, <2>3, <2>4, FoundIsLookup DEF root
  <2>6. /\ result.verdict = "lane" /\ result.hash = hash /\ result.lane = lane
        /\ result.lane_data = read
    BY <2>3
  <2>7. IsTrue(result)
    BY <2>2, <2>5, <2>6 DEF IsTrue, storage
  <2> QED BY <2>7 DEF result
<1> QED BY <1>1, <1>2

LEMMA MessagesResultTrue ==
    ASSUME StorageInv, NEW hash, NEW proof, NEW lane, NEW start \in Nat, NEW end \in Nat,
           NEW messages_count
    PROVE  IsTrue(VerifyMessagesProof(MessagesProof(hash, proof, lane, start, end), messages_count))
<1> DEFINE p == MessagesProof(hash, proof, lane, start, end)
           result == VerifyMessagesProof(p, messages_count)
           storage == storages[bridged][BlockOf(hash)]
           root == StateRoot(storage)
           KeyOf(nonce) == <<BridgedPallet, "OutboundMessages", <<lane, nonce>>>>
           n == end - start + 1
<1>0. /\ p.hash = hash /\ p.storage_proof = proof /\ p.lane = lane
      /\ p.nonces_start = start /\ p.nonces_end = end
  BY DEF MessagesProof
<1>1. CASE result = Rejected
  <2>1. result.verdict = "rejected"
    BY <1>1 DEF Rejected
  <2> QED BY <2>1 DEF IsTrue
<1>2. CASE result # Rejected
  <2> HIDE DEF p
  <2>1. PICK r \in KnownStateRoot(hash) : VerifiesMessages(p, r)
    BY <1>0, <1>2 DEF VerifyMessagesProof
  <2>2. IsImported(hash) /\ IsStorage(storage) /\ KnownStateRoot(hash) = {root}
    BY <2>1, KnownRoot
  <2> HIDE DEF root
  <2>3. r = root /\ VerifiesMessages(p, root)
    BY <2>1, <2>2
  <2>4. result = Proved(p, root)
    BY <1>0, <1>2, <2>2 DEF VerifyMessagesProof
  <2> HIDE DEF result, storage
  <2> DEFINE messages == [i \in 1..n |-> CHOOSE value \in ReadRawMessage(p, root, start + i - 1) : TRUE]
  <2>5. /\ result.verdict = "messages" /\ result.hash = hash /\ result.lane = lane
        /\ result.start = start /\ result.messages = messages
        /\ result.lane_state = ReadRawLaneData(p, root)
    BY <1>0, <2>4 DEF Proved
  <2>6. ASSUME NEW i \in 1..n PROVE messages[i] = Lookup(storage, KeyOf(start + i - 1))
    <3> DEFINE nonce == start + i - 1
               read == ReadRawMessage(p, root, nonce)
    <3>1. nonce \in start..end
      OBVIOUS
    <3>2. messages[i] = CHOOSE value \in read : TRUE
      OBVIOUS
    <3> HIDE DEF nonce, messages
    <3>3. read # {}
      BY <1>0, <2>3, <3>1 DEF VerifiesMessages
    <3>4. messages[i] \in read
      BY <3>2, <3>3
    <3>5. read = Found(proof, root, KeyOf(nonce))
      BY <1>0 DEF ReadRawMessage, MessageKey, MapFinalKey
    <3> HIDE DEF read
    <3>6. messages[i] = Lookup(storage, KeyOf(nonce))
      BY <2>2, <3>4, <3>5, FoundIsLookup DEF root
    <3> QED BY <3>6 DEF nonce
  <2>7. 1..Len(messages) = 1..n
    <3> DEFINE k == IF n >= 0 THEN n ELSE 0
               T == {messages[i] : i \in 1..n}
    <3>1. k \in Nat /\ 1..n = 1..k
      OBVIOUS
    <3>0. messages = [i \in 1..n |-> messages[i]] /\ \A i \in 1..n : messages[i] \in T
      OBVIOUS
    <3> HIDE DEF k, messages, T, n
    <3>2. messages = [i \in 1..k |-> messages[i]] /\ \A i \in 1..k : messages[i] \in T
      BY <3>0, <3>1
    <3>3. messages \in Seq(T) /\ DOMAIN messages = 1..k
      BY <3>1, <3>2, IsASeq
    <3>4. 1..Len(messages) = 1..k
      BY <3>3, LenProperties
    <3> QED BY <3>1, <3>4
  <2>8. ReadRawLaneData(p, root) \subseteq {Lookup(storage, <<BridgedPallet, "OutboundLanes", <<lane>>>>)}
    <3> DEFINE read == ReadRawLaneData(p, root)
    <3>1. read = Found(proof, root, <<BridgedPallet, "OutboundLanes", <<lane>>>>)
      BY <1>0 DEF ReadRawLaneData, OutboundLaneDataKey, MapFinalKey
    <3> HIDE DEF read
    <3>2. \A v \in read : v = Lookup(storage, <<BridgedPallet, "OutboundLanes", <<lane>>>>)
      BY <2>2, <3>1, FoundIsLookup DEF root
    <3> QED BY <3>2 DEF read
  <2> HIDE DEF messages, n
  <2>9. IsTrue(result)
    BY <2>2, <2>5, <2>6, <2>7, <2>8 DEF IsTrue, storage
  <2> QED BY <2>9 DEF result, p
<1> QED BY <1>1, <1>2

\* What the calls that read proofs do.
LEMMA ReceiveResults ==
    ASSUME StorageInv, ReceiveSomeMessages \/ ReceiveSomeDelivery
    PROVE  IsTrue(answer'.result)
<1>1. ASSUME ReceiveSomeMessages PROVE IsTrue(answer'.result)
  <2>1. PICK hash \in Hashes, lane \in Lanes, start \in 1..MaxNonce, end \in 1..MaxNonce :
          \E messages_count, nodes :
            ReceiveMessagesProof(hash, lane, start, end, messages_count, nodes)
    BY <1>1 DEF ReceiveSomeMessages
  <2>2. start \in Nat /\ end \in Nat
    BY StorageProofsAssumption
  <2>3. PICK messages_count, nodes : ReceiveMessagesProof(hash, lane, start, end, messages_count, nodes)
    BY <2>1
  <2>4. answer'.result = VerifyMessagesProof(MessagesProof(hash, nodes, lane, start, end), messages_count)
    BY <2>3 DEF ReceiveMessagesProof
  <2> QED BY <2>2, <2>4, MessagesResultTrue
<1>2. ASSUME ReceiveSomeDelivery PROVE IsTrue(answer'.result)
  <2>1. PICK hash, lane, nodes : ReceiveDeliveryProof(hash, lane, nodes)
    BY <1>2 DEF ReceiveSomeDelivery
  <2>2. answer'.result = VerifyDeliveryProof(hash, nodes, lane)
    BY <2>1 DEF ReceiveDeliveryProof
  <2> QED BY <2>2, DeliveryResultTrue
<1> QED BY <1>1, <1>2

LEMMA NextAcceptedTrue ==
    StorageInv /\ AcceptedProofsAreTrue /\ [Next]_vars => AcceptedProofsAreTrue'
<1> SUFFICES ASSUME StorageInv, AcceptedProofsAreTrue, [Next]_vars PROVE AcceptedProofsAreTrue'
  OBVIOUS
<1>1. ASSUME answer' = NoAnswer PROVE AcceptedProofsAreTrue'
  <2>1. answer'.result.verdict = "rejected"
    BY <1>1 DEF NoAnswer, Rejected
  <2> QED BY <2>1 DEF AcceptedProofsAreTrue
<1>2. ASSUME answer = NoAnswer, ChainNext \/ SubmitSomeHead PROVE AcceptedProofsAreTrue'
  <2>1. answer' = answer
    <3>1. CASE ChainNext
      BY <3>1 DEF ChainNext, SendAtBridged, DeliverAtBridged, PlainBlock, ExecuteBlock, ImportHeader
    <3>2. CASE SubmitSomeHead
      <4>1. PICK p, number, nodes : SubmitParachainHead(p, number, nodes)
        BY <3>2 DEF SubmitSomeHead
      <4> QED BY <4>1 DEF SubmitParachainHead
    <3> QED BY <1>2, <3>1, <3>2
  <2> QED BY <1>1, <1>2, <2>1
<1>3. ASSUME UNCHANGED <<bridged, storages, headers, paraHeads>>, IsTrue(answer'.result)
      PROVE  AcceptedProofsAreTrue'
  BY <1>3 DEF AcceptedProofsAreTrue, IsTrue, BlockOf, IsImported, Lookup
<1>4. CASE ReceiveSomeMessages \/ ReceiveSomeDelivery
  <2>1. UNCHANGED <<bridged, storages, headers, paraHeads>>
    <3>1. CASE ReceiveSomeMessages
      <4>1. PICK hash, lane, start, end, messages_count, nodes :
              ReceiveMessagesProof(hash, lane, start, end, messages_count, nodes)
        BY <3>1 DEF ReceiveSomeMessages
      <4> QED BY <4>1 DEF ReceiveMessagesProof
    <3>2. CASE ReceiveSomeDelivery
      BY <3>2 DEF ReceiveSomeDelivery, ReceiveDeliveryProof
    <3> QED BY <1>4, <3>1, <3>2
  <2> QED BY <1>3, <1>4, <2>1, ReceiveResults
<1>5. CASE Return
  BY <1>1, <1>5 DEF Return
<1>6. CASE UNCHANGED vars
  <2>1. UNCHANGED <<bridged, storages, headers, paraHeads>> /\ answer' = answer
    BY <1>6 DEF vars
  <2>2. IsTrue(answer.result)
    BY DEF AcceptedProofsAreTrue, IsTrue
  <2> QED BY <1>3, <2>1, <2>2
<1> QED BY <1>2, <1>4, <1>5, <1>6 DEF Next

\* Whatever nodes a relayer puts together, of whatever blocks of whatever chains, with
\* any number of them missing: what the pallets read from a proof that they accept was in the storage of the bridged chain, under the keys of this lane and
\* of the bridged pallet, at the block of an imported header or head.
THEOREM AcceptedProofsTrue == Spec => []AcceptedProofsAreTrue
<1>1. Init => AcceptedProofsAreTrue
  <2> SUFFICES ASSUME Init PROVE AcceptedProofsAreTrue
    OBVIOUS
  <2>1. answer.result.verdict = "rejected"
    BY DEF Init, NoAnswer, Rejected
  <2> QED BY <2>1 DEF AcceptedProofsAreTrue
<1> QED BY <1>1, NextAcceptedTrue, StorageInvariant, PTL DEF Spec

-----------------------------------------------------------------------------
(* Faithful relayers. *)

\* The relayer that has read the messages, or the lane state, at the block of an
\* imported header is not refused.
LEMMA FaithfulMessages ==
    ASSUME StorageInv, NEW hash, IsImported(hash), NEW lane, NEW start \in Nat, NEW end \in Nat,
           NEW storage, storage = storages[bridged][BlockOf(hash)], NEW nodes, NEW messages_count,
           Readable(storage, lane, start, end),
           RecordedNodes(storage, MessageKeys(lane, start, end)) \subseteq nodes,
           start <= end => messages_count = end - start + 1,
           NEW laneKey, laneKey = <<BridgedPallet, "OutboundLanes", <<lane>>>>,
           start > end => /\ laneKey \in DOMAIN storage
                          /\ RecordedNodes(storage, {laneKey}) \subseteq nodes
    PROVE  VerifyMessagesProof(MessagesProof(hash, nodes, lane, start, end),
                               messages_count).verdict # "rejected"
<1> DEFINE keys == MessageKeys(lane, start, end)
           p == MessagesProof(hash, nodes, lane, start, end)
           root == StateRoot(storage)
           KeyOf(nonce) == <<BridgedPallet, "OutboundMessages", <<lane, nonce>>>>
<1>1. /\ p.hash = hash /\ p.storage_proof = nodes /\ p.lane = lane
      /\ p.nonces_start = start /\ p.nonces_end = end
  BY DEF MessagesProof
<1>2. KnownStateRoot(hash) = {root} /\ IsStorage(storage)
  BY KnownRoot
<1>3. root \in nodes
  BY DEF RecordedNodes
<1> HIDE DEF p, root
<1>4. ASSUME NEW nonce \in start..end
      PROVE  \E value \in ReadRawMessage(p, root, nonce) : Decodes(value, "MessageData")
  <2>1. Lookup(storage, KeyOf(nonce))[1] = "MessageData"
    BY DEF Readable
  <2> DEFINE item == <<lane, nonce>>
             key == <<BridgedPallet, "OutboundMessages", item>>
  <2>2. key \in keys /\ key = KeyOf(nonce)
    BY DEF MessageKeys
  <2>3. key \in DOMAIN storage /\ storage[key][1] = "MessageData"
    <3> HIDE DEF key
    <3> QED BY <2>1, <2>2 DEF Lookup, None
  <2>4. ReadRawMessage(p, root, nonce) = Found(nodes, root, key)
    BY <1>1 DEF ReadRawMessage, MessageKey, MapFinalKey
  <2> HIDE DEF item, keys
  <2>5. RecordedNodes(storage, keys) \subseteq nodes
    BY DEF keys
  <2>6. Found(nodes, root, key) = {storage[key]}
    BY <1>2, <2>2, <2>3, <2>5, ReadIsComplete DEF root
  <2> QED BY <2>3, <2>4, <2>6 DEF Decodes
<1> DEFINE read == ReadRawLaneData(p, root)
           laneItem == <<lane>>
<1>5. read = Found(nodes, root, <<BridgedPallet, "OutboundLanes", laneItem>>)
  BY <1>1 DEF ReadRawLaneData, OutboundLaneDataKey, MapFinalKey
<1>6. laneKey = <<BridgedPallet, "OutboundLanes", laneItem>> /\ laneKey[2] = "OutboundLanes"
  OBVIOUS
<1> HIDE DEF read, laneItem
<1>7. \A value \in read : Decodes(value, "OutboundLaneData")
  <2>1. read \subseteq {storage[laneKey]} /\ (laneKey \notin DOMAIN storage => read = {})
    BY <1>2, <1>5, <1>6, ReadIsSound DEF root
  <2> QED BY <2>1, <1>2, <1>6 DEF IsStorage
<1>8. start <= end \/ read # {}
  <2> SUFFICES ASSUME start > end PROVE read # {}
    OBVIOUS
  <2>1. laneKey \in DOMAIN storage /\ RecordedNodes(storage, {laneKey}) \subseteq nodes
    OBVIOUS
  <2>2. read = {storage[laneKey]}
    BY <1>2, <1>5, <1>6, <2>1, ReadIsComplete DEF root
  <2> QED BY <2>2
<1>9. VerifiesMessages(p, root)
  BY <1>1, <1>4, <1>7, <1>8 DEF VerifiesMessages, read
<1>10. CountMatches(p, messages_count)
  BY <1>1 DEF CountMatches
<1>11. ProvesRoot(p.storage_proof, root)
  BY <1>1, <1>3 DEF ProvesRoot
<1>12. VerifyMessagesProof(p, messages_count) = Proved(p, root)
  BY <1>1, <1>2, <1>9, <1>10, <1>11 DEF VerifyMessagesProof
<1>13. Proved(p, root).verdict = "messages"
  BY DEF Proved
<1> QED BY <1>12, <1>13 DEF p

LEMMA FaithfulDelivery ==
    ASSUME StorageInv, NEW hash, IsImported(hash), NEW lane,
           NEW storage, storage = storages[bridged][BlockOf(hash)], NEW key,
           key = <<BridgedPallet, "InboundLanes", <<lane>>>>, key \in DOMAIN storage,
           NEW nodes, RecordedNodes(storage, {key}) \subseteq nodes
    PROVE  VerifyDeliveryProof(hash, nodes, lane).verdict # "rejected"
<1> DEFINE root == StateRoot(storage)
           item == <<lane>>
<1>1. KnownStateRoot(hash) = {root} /\ IsStorage(storage)
  BY KnownRoot
<1>2. root \in nodes
  BY DEF RecordedNodes
<1>3. /\ ReadRawInboundLane(nodes, root, lane) = Found(nodes, root, key)
      /\ key = <<BridgedPallet, "InboundLanes", item>> /\ key[2] = "InboundLanes"
  BY DEF ReadRawInboundLane, InboundLaneDataKey, MapFinalKey
<1> HIDE DEF root, item
<1>4. Found(nodes, root, key) = {storage[key]}
  BY <1>1, <1>3, ReadIsComplete DEF root
<1>5. Decodes(storage[key], "InboundLaneData")
  BY <1>1, <1>3 DEF IsStorage
<1>6. \E r \in KnownStateRoot(hash) :
        /\ ProvesRoot(nodes, r)
        /\ \E value \in ReadRawInboundLane(nodes, r, lane) : Decodes(value, "InboundLaneData")
  BY <1>1, <1>2, <1>3, <1>4, <1>5 DEF ProvesRoot
<1>7. VerifyDeliveryProof(hash, nodes, lane).verdict = "lane"
  BY <1>6 DEF VerifyDeliveryProof
<1> QED BY <1>7

LEMMA ReceiveFaithful ==
    ASSUME StorageInv, NEW hash, NEW lane, NEW start \in Nat, NEW end \in Nat, NEW messages_count,
           NEW nodes, ReceiveMessagesProof(hash, lane, start, end, messages_count, nodes)
    PROVE  answer'.faithful => answer'.result.verdict # "rejected"
<1> DEFINE storage == storages[bridged][BlockOf(hash)]
           laneKey == <<BridgedPallet, "OutboundLanes", <<lane>>>>
           keys == MessageKeys(lane, start, end)
           faithful == /\ IsImported(hash)
                       /\ Readable(storage, lane, start, end)
                       /\ RecordedAt(hash, keys) \subseteq nodes
                       /\ IF start <= end
                          THEN messages_count = end - start + 1
                          ELSE laneKey \in DOMAIN storage /\ RecordedAt(hash, {laneKey}) \subseteq nodes
<1>1. answer' = [faithful |-> faithful,
                 result |-> VerifyMessagesProof(
                              MessagesProof(hash, nodes, lane, start, end), messages_count)]
  BY DEF ReceiveMessagesProof
<1> HIDE DEF faithful
<1> SUFFICES ASSUME answer'.faithful PROVE answer'.result.verdict # "rejected"
  OBVIOUS
<1>2. faithful
  BY <1>1
<1>3. IsImported(hash)
  BY <1>2 DEF faithful
<1>4. /\ RecordedAt(hash, keys) = RecordedNodes(storage, keys)
      /\ RecordedAt(hash, {laneKey}) = RecordedNodes(storage, {laneKey})
  BY <1>3, KnownRoot DEF RecordedAt
<1> HIDE DEF storage, keys, laneKey
<1>5. /\ Readable(storage, lane, start, end)
      /\ RecordedNodes(storage, keys) \subseteq nodes
      /\ start <= end => messages_count = end - start + 1
      /\ start > end => laneKey \in DOMAIN storage /\ RecordedNodes(storage, {laneKey}) \subseteq nodes
  BY <1>2, <1>4 DEF faithful
<1> QED BY <1>1, <1>3, <1>5, FaithfulMessages DEF storage, keys, laneKey

\* A relayer that has read the messages, with the lane state or without, only the
\* lane state, or the inbound lane, where the pallets will look for it, is never
\* refused: the keys that they compute are those of the bridged chain.
THEOREM FaithfulAccepted == Spec => []FaithfulProofsAccepted
<1>1. Init => FaithfulProofsAccepted
  BY DEF Init, FaithfulProofsAccepted, NoAnswer
<1>2. StorageInv /\ FaithfulProofsAccepted /\ [Next]_vars => FaithfulProofsAccepted'
  <2> SUFFICES ASSUME StorageInv, FaithfulProofsAccepted, [Next]_vars
               PROVE  answer'.faithful => answer'.result.verdict # "rejected"
    BY DEF FaithfulProofsAccepted
  <2>1. CASE answer' = answer
    BY <2>1 DEF FaithfulProofsAccepted
  <2>2. CASE ChainNext
    BY <2>1, <2>2 DEF ChainNext, SendAtBridged, DeliverAtBridged, PlainBlock, ExecuteBlock, ImportHeader
  <2>3. CASE SubmitSomeHead
    <3>1. PICK p, number, nodes : SubmitParachainHead(p, number, nodes)
      BY <2>3 DEF SubmitSomeHead
    <3> QED BY <2>1, <3>1 DEF SubmitParachainHead
  <2>4. CASE ReceiveSomeMessages
    <3>1. PICK hash \in Hashes, lane \in Lanes, start \in 1..MaxNonce, end \in 1..MaxNonce :
            \E messages_count, nodes :
              ReceiveMessagesProof(hash, lane, start, end, messages_count, nodes)
      BY <2>4 DEF ReceiveSomeMessages
    <3>2. start \in Nat /\ end \in Nat
      BY StorageProofsAssumption
    <3> QED BY <3>1, <3>2, ReceiveFaithful
  <2>5. CASE ReceiveSomeDelivery
    <3>1. PICK hash, lane, nodes : ReceiveDeliveryProof(hash, lane, nodes)
      BY <2>5 DEF ReceiveSomeDelivery
    <3> DEFINE storage == storages[bridged][BlockOf(hash)]
               key == <<BridgedPallet, "InboundLanes", <<lane>>>>
               faithful == /\ IsImported(hash) /\ key \in DOMAIN storage
                           /\ RecordedAt(hash, {key}) \subseteq nodes
    <3>2. answer' = [faithful |-> faithful, result |-> VerifyDeliveryProof(hash, nodes, lane)]
      BY <3>1 DEF ReceiveDeliveryProof
    <3> HIDE DEF faithful
    <3> SUFFICES ASSUME answer'.faithful PROVE answer'.result.verdict # "rejected"
      OBVIOUS
    <3>3. IsImported(hash) /\ key \in DOMAIN storage /\ RecordedAt(hash, {key}) \subseteq nodes
      BY <3>2 DEF faithful
    <3>4. RecordedAt(hash, {key}) = RecordedNodes(storage, {key})
      BY <3>3, KnownRoot DEF RecordedAt
    <3> HIDE DEF storage, key
    <3>5. VerifyDeliveryProof(hash, nodes, lane).verdict # "rejected"
      BY <3>3, <3>4, FaithfulDelivery DEF storage, key
    <3> QED BY <3>2, <3>5
  <2>6. CASE Return
    BY <2>6 DEF Return, NoAnswer
  <2>7. CASE UNCHANGED vars
    BY <2>1, <2>7 DEF vars
  <2> QED BY <2>2, <2>3, <2>4, <2>5, <2>6, <2>7 DEF Next
<1> QED BY <1>1, <1>2, StorageInvariant, PTL DEF Spec
=============================================================================
