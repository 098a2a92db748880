---------------------------- MODULE StorageProofs ----------------------------
(***************************************************************************)
(* How one chain reads the storage of another.  The bridged chain is the   *)
(* relay chain, whose headers the GRANDPA pallet imports, or one of its    *)
(* parachains, whose heads the parachains pallet reads from the storage of *)
(* the relay chain.  A relayer submits trie nodes with the hash of an      *)
(* imported header, and the pallets read messages, lane states and heads   *)
(* from whatever nodes they are given.                                     *)
(*                                                                         *)
(* The relayer chooses the nodes: those that it has recorded for the call, *)
(* and those of any other blocks of any of the chains, with all lanes,     *)
(* pallet instances and parachains, less nodes that are lost.  With both   *)
(* bounds large enough that is every set of nodes.  Hashes do not collide: *)
(* the hash of a trie node or of a head is the node or the head itself.    *)
(***************************************************************************)
EXTENDS Integers, Sequences, FiniteSets

CONSTANTS
    Lanes,           \* lanes of every messages pallet
    Pallets,         \* instances of the messages pallet at the bridged chain
    BridgedPallet,   \* BRIDGED_MESSAGES_PALLET_NAME
    Paras,           \* parachains of the relay chain
    BridgedPara,     \* the one that may be the bridged chain
    MaxNonce,        \* bound: messages sent over a lane
    MaxBlocks,       \* bound: blocks of all chains together
    MaxMixed,        \* bound: other blocks whose nodes are put into one proof
    MaxLost,         \* bound: nodes missing from a proof
    HeadersToKeep

ASSUME StorageProofsAssumption ==
    /\ BridgedPallet \in Pallets
    /\ Paras \subseteq Nat \ {0} /\ BridgedPara \in Paras
    /\ MaxNonce \in Nat /\ MaxBlocks \in Nat /\ HeadersToKeep \in Nat \ {0}
    /\ MaxMixed \in Nat /\ MaxLost \in Nat

Relay == 0
Chains == {Relay} \cup Paras

VARIABLES
    bridged,     \* the chain at the other end of the bridge (it never changes)
    storages,    \* the storage of every chain after each of its blocks
    headers,     \* ImportedHeaders: the kept relay blocks, newest first
    paraHeads,   \* ImportedParaHeads of every parachain
    answer       \* what the last call that read messages or lanes returned

vars == <<bridged, storages, headers, paraHeads, answer>>

-----------------------------------------------------------------------------
(* Storage keys: the pallet, the map and the key in the map are hashed one by *)
(* one, so a final key is a path of three parts.                              *)

\* storage_map_final_key
MapFinalKey(pallet, map, item) == <<pallet, map, item>>

\* message_key: its item is the encoded MessageKey.
MessageKey(pallet, lane, nonce) == MapFinalKey(pallet, "OutboundMessages", <<lane, nonce>>)

\* outbound_lane_data_key, inbound_lane_data_key
OutboundLaneDataKey(pallet, lane) == MapFinalKey(pallet, "OutboundLanes", <<lane>>)
InboundLaneDataKey(pallet, lane) == MapFinalKey(pallet, "InboundLanes", <<lane>>)

\* parachain_head_storage_key_at_source
ParachainHeadKey(p) == MapFinalKey("Paras", "Heads", <<p>>)

-----------------------------------------------------------------------------
(* The state trie.  The root maps pallets to the hashes of their nodes, the    *)
(* node of a pallet its maps, and the node of a map its items; the node of an  *)
(* item holds the value.  A node begins with its level.                        *)

PalletsOf(storage) == {key[1] : key \in DOMAIN storage}
MapsOf(storage, pallet) == {key[2] : key \in {k \in DOMAIN storage : k[1] = pallet}}
ItemsOf(storage, pallet, map) ==
    {key[3] : key \in {k \in DOMAIN storage : k[1] = pallet /\ k[2] = map}}

ValueNode(storage, key) == <<3, storage[key]>>
MapNode(storage, pallet, map) ==
    <<2, [item \in ItemsOf(storage, pallet, map) |-> ValueNode(storage, <<pallet, map, item>>)]>>
PalletNode(storage, pallet) ==
    <<1, [map \in MapsOf(storage, pallet) |-> MapNode(storage, pallet, map)]>>

StateRoot(storage) == <<0, [pallet \in PalletsOf(storage) |-> PalletNode(storage, pallet)]>>

\* The nodes that reading the keys visits: what a relayer puts into its proof.
RecordedNodes(storage, keys) ==
    {StateRoot(storage)}
      \cup {PalletNode(storage, key[1]) : key \in {k \in keys : k[1] \in PalletsOf(storage)}}
      \cup {MapNode(storage, key[1], key[2]) : key \in {k \in keys : k[2] \in MapsOf(storage, k[1])}}
      \cup {ValueNode(storage, key) : key \in keys \cap DOMAIN storage}

\* The result of reading a key: an error, or the value if the key has one.
ReadError == [ok |-> FALSE, value |-> {}]
ReadOk(value) == [ok |-> TRUE, value |-> value]

\* read_trie_value: follow the key down from the root, one level at a time.
ReadItem(proof, node) == IF node \notin proof THEN ReadError ELSE ReadOk({node[2]})

ReadMap(proof, node, key) ==
    IF node \notin proof THEN ReadError
    ELSE IF key[3] \notin DOMAIN node[2] THEN ReadOk({})
    ELSE ReadItem(proof, node[2][key[3]])

ReadPallet(proof, node, key) ==
    IF node \notin proof THEN ReadError
    ELSE IF key[2] \notin DOMAIN node[2] THEN ReadOk({})
    ELSE ReadMap(proof, node[2][key[2]], key)

ReadTrieValue(proof, node, key) ==
    IF node \notin proof THEN ReadError
    ELSE IF key[1] \notin DOMAIN node[2] THEN ReadOk({})
    ELSE ReadPallet(proof, node[2][key[1]], key)

\* Mutant: reading starts at some root that is in the proof.
ReadValueAtAnyRoot(proof, root, key) ==
    ReadTrieValue(proof, CHOOSE node \in proof : node[1] = 0, key)

\* StorageProofChecker::read_value: reading starts at the known root.
ReadValue(proof, root, key) == ReadTrieValue(proof, root, key)

\* StorageProofChecker::new: the root has to be in the proof.
ProvesRoot(proof, root) == root \in proof

\* read_and_decode_value, and the decode calls of the parsers: the first part of
\* a value is the type it decodes as.
Decodes(value, type) == value[1] = type

\* The value that was read, if the read succeeded and there is one.
Found(proof, root, key) == ReadValue(proof, root, key).value

-----------------------------------------------------------------------------
(* The bridged chains.  Message n of a lane is the encoded MessageData, or     *)
(* bytes of an older format that does not decode any more.                     *)

None == "none"
Lookup(storage, key) == IF key \in DOMAIN storage THEN storage[key] ELSE <<None, 0>>
Written(storage, key, value) ==
    [k \in DOMAIN storage \cup {key} |-> IF k = key THEN value ELSE storage[k]]

\* send_message of one pallet instance.
Sent(storage, pallet, lane, format) ==
    LET laneKey == <<pallet, "OutboundLanes", <<lane>>>>
        nonce == Lookup(storage, laneKey)[2] + 1
    IN  Written(Written(storage, <<pallet, "OutboundMessages", <<lane, nonce>>>>,
                        <<format, nonce, pallet, lane>>),
                laneKey, <<"OutboundLaneData", nonce>>)

\* receive_messages_proof of one pallet instance: one more message delivered.
Delivered(storage, pallet, lane) ==
    LET laneKey == <<pallet, "InboundLanes", <<lane>>>>
    IN  Written(storage, laneKey, <<"InboundLaneData", Lookup(storage, laneKey)[2] + 1>>)

LastStorage(c) == IF storages[c] = <<>> THEN <<>> ELSE storages[c][Len(storages[c])]

\* The head of a parachain's block: its header, or bytes of another meaning.
HeadOf(p, number) ==
    IF p = BridgedPara THEN <<"Header", number, StateRoot(storages[p][number])>>
                       ELSE <<"Opaque", number>>

\* A relay block stores the current head of every parachain that has one.
WithHeads(storage) ==
    LET live == {p \in Paras : storages[p] # <<>>}
        keys == {<<"Paras", "Heads", <<p>>>> : p \in live}
    IN  [k \in DOMAIN storage \cup keys |->
            IF k \in keys THEN HeadOf(k[3][1], Len(storages[k[3][1]])) ELSE storage[k]]

TotalBlocks == Len(storages[Relay]) + Cardinality(UNION {{p} \X (1..Len(storages[p])) : p \in Paras})

\* A chain executes a block.
ExecuteBlock(c, storage) ==
    /\ TotalBlocks < MaxBlocks
    /\ storages' = [storages EXCEPT ![c] =
                      Append(@, IF c = Relay THEN WithHeads(storage) ELSE storage)]
    /\ UNCHANGED <<bridged, headers, paraHeads, answer>>

SendAtBridged(pallet, lane, format) ==
    /\ Lookup(LastStorage(bridged), <<pallet, "OutboundLanes", <<lane>>>>)[2] < MaxNonce
    /\ ExecuteBlock(bridged, Sent(LastStorage(bridged), pallet, lane, format))

DeliverAtBridged(pallet, lane) ==
    /\ Lookup(LastStorage(bridged), <<pallet, "InboundLanes", <<lane>>>>)[2] < MaxNonce
    /\ ExecuteBlock(bridged, Delivered(LastStorage(bridged), pallet, lane))

\* A block without messages.
PlainBlock(c) == ExecuteBlock(c, LastStorage(c))

-----------------------------------------------------------------------------
(* Finality: the imported headers and heads. *)

\* The GRANDPA pallet imports a header and forgets the oldest one.
ImportHeader(number) ==
    /\ headers # <<>> => headers[1] < number
    /\ headers' = SubSeq(<<number>> \o headers, 1,
                         IF Len(headers) < HeadersToKeep THEN Len(headers) + 1 ELSE HeadersToKeep)
    /\ UNCHANGED <<bridged, storages, paraHeads, answer>>

\* GRANDPA's parse_finalized_storage_proof: the state root of a known header.
GrandpaStateRoot(number) ==
    IF \E i \in 1..Len(headers) : headers[i] = number
    THEN {StateRoot(storages[Relay][number])} ELSE {}

\* The parachains pallet's: the state root of a known head that decodes.
ParachainStateRoot(p, head) ==
    {h[3] : h \in {h \in paraHeads[p] : h = head /\ Decodes(h, "Header")}}

\* read_parachain_head
ReadParachainHead(proof, root, p) == Found(proof, root, ParachainHeadKey(p))

\* Mutant: the relay header need not be imported.
SubmitAtAnyHeader(p, number, proof) ==
    /\ ProvesRoot(proof, StateRoot(storages[Relay][number]))
    /\ \E head \in ReadParachainHead(proof, StateRoot(storages[Relay][number]), p) :
         /\ paraHeads' = [paraHeads EXCEPT ![p] = @ \cup {head}]
         /\ UNCHANGED <<bridged, storages, headers, answer>>

\* submit_parachain_heads: the head of p that the proof shows at a relay block.
\* (Which of the heads it keeps is the subject of ParachainHeads.)
SubmitParachainHead(p, number, proof) ==
    \E root \in GrandpaStateRoot(number) :
        /\ ProvesRoot(proof, root)
        /\ \E head \in ReadParachainHead(proof, root, p) :
             /\ paraHeads' = [paraHeads EXCEPT ![p] = @ \cup {head}]
             /\ UNCHANGED <<bridged, storages, headers, answer>>

-----------------------------------------------------------------------------
(* Verification of messages and delivery proofs (runtime-common).              *)

\* The state root a proof for the bridged chain is checked with: hash is the
\* number of a relay header, or a parachain head.
KnownStateRoot(hash) ==
    IF bridged = Relay THEN GrandpaStateRoot(hash) ELSE ParachainStateRoot(bridged, hash)

\* FromBridgedChainMessagesProof
MessagesProof(hash, proof, lane, start, end) ==
    [hash |-> hash, storage_proof |-> proof, lane |-> lane, nonces_start |-> start, nonces_end |-> end]

\* The declared number of messages; ranges that end before they begin are not
\* compared.
CountMatches(p, messages_count) ==
    p.nonces_end >= p.nonces_start => p.nonces_end - p.nonces_start + 1 = messages_count

\* StorageProofCheckerAdapter::read_raw_message: errors and missing values alike.
ReadRawMessage(p, root, nonce) ==
    Found(p.storage_proof, root, MessageKey(BridgedPallet, p.lane, nonce))

\* read_raw_outbound_lane_data
ReadRawLaneData(p, root) ==
    Found(p.storage_proof, root, OutboundLaneDataKey(BridgedPallet, p.lane))

\* Mutant: the lane state has to be in the proof.
VerifiesWithLaneState(p, root) ==
    /\ \A nonce \in p.nonces_start..p.nonces_end :
         \E value \in ReadRawMessage(p, root, nonce) : Decodes(value, "MessageData")
    /\ ReadRawLaneData(p, root) # {}

\* verify_messages_proof_with_parser, after the count: every message is there and
\* decodes; the lane state is optional but has to decode; the proof is not empty.
VerifiesMessages(p, root) ==
    /\ \A nonce \in p.nonces_start..p.nonces_end :
         \E value \in ReadRawMessage(p, root, nonce) : Decodes(value, "MessageData")
    /\ \A value \in ReadRawLaneData(p, root) : Decodes(value, "OutboundLaneData")
    /\ p.nonces_start <= p.nonces_end \/ ReadRawLaneData(p, root) # {}

Rejected == [verdict |-> "rejected"]

\* ProvedMessages: the messages in the order of their nonces, and the lane state.
Proved(p, root) ==
    [verdict |-> "messages", hash |-> p.hash, lane |-> p.lane, start |-> p.nonces_start,
     messages |-> [i \in 1..(p.nonces_end - p.nonces_start + 1) |->
                      CHOOSE value \in ReadRawMessage(p, root, p.nonces_start + i - 1) : TRUE],
     lane_state |-> ReadRawLaneData(p, root)]

\* verify_messages_proof and verify_messages_proof_from_parachain
VerifyMessagesProof(p, messages_count) ==
    LET roots == KnownStateRoot(p.hash)
    IN  IF /\ CountMatches(p, messages_count)
           /\ \E root \in roots : ProvesRoot(p.storage_proof, root) /\ VerifiesMessages(p, root)
        THEN Proved(p, CHOOSE root \in roots : TRUE)
        ELSE Rejected

\* do_verify_messages_delivery_proof
ReadRawInboundLane(proof, root, lane) ==
    Found(proof, root, InboundLaneDataKey(BridgedPallet, lane))

\* verify_messages_delivery_proof and verify_messages_delivery_proof_from_parachain
VerifyDeliveryProof(hash, proof, lane) ==
    LET roots == KnownStateRoot(hash)
    IN  IF \E root \in roots :
             /\ ProvesRoot(proof, root)
             /\ \E value \in ReadRawInboundLane(proof, root, lane) : Decodes(value, "InboundLaneData")
        THEN [verdict |-> "lane", hash |-> hash, lane |-> lane,
              lane_data |-> UNION {ReadRawInboundLane(proof, root, lane) : root \in roots}]
        ELSE Rejected

-----------------------------------------------------------------------------
(* Calls. *)

\* The nodes of a proof: those that the relayer has recorded, with all nodes of
\* some other blocks of whatever chain, and then some may be lost.
Blocks == UNION {{c} \X (1..Len(storages[c])) : c \in Chains}
OtherBlocks == {{}} \cup {{pick[i] : i \in 1..MaxMixed} : pick \in [1..MaxMixed -> Blocks]}

BlockNodes(block) ==
    LET storage == storages[block[1]][block[2]] IN RecordedNodes(storage, DOMAIN storage)
Mixed(recorded, others) == recorded \cup UNION {BlockNodes(block) : block \in others}

Losing(nodes) ==
    {nodes} \cup {nodes \ {lost[i] : i \in 1..MaxLost} : lost \in [1..MaxLost -> nodes]}

\* The hashes a relayer may name, imported or not, and the block of the bridged
\* chain that a hash belongs to.
Hashes == IF bridged = Relay THEN 1..Len(storages[Relay])
          ELSE UNION {{HeadOf(p, n) : n \in 1..Len(storages[p])} : p \in Paras}
BlockOf(hash) == IF bridged = Relay THEN hash ELSE hash[2]
IsImported(hash) == IF bridged = Relay THEN \E i \in 1..Len(headers) : headers[i] = hash
                    ELSE hash \in paraHeads[bridged]

\* The nodes that a relayer records at the block of a hash.
RecordedAt(hash, keys) ==
    IF BlockOf(hash) \in 1..Len(storages[bridged])
    THEN RecordedNodes(storages[bridged][BlockOf(hash)], keys) ELSE {}

\* The keys under which the bridged chain stores the messages start..end of a lane.
MessageKeys(lane, start, end) ==
    {<<BridgedPallet, "OutboundMessages", <<lane, nonce>>>> : nonce \in start..end}

\* Can the messages start..end of a lane be read at a block?
Readable(storage, lane, start, end) ==
    \A nonce \in start..end :
        Lookup(storage, <<BridgedPallet, "OutboundMessages", <<lane, nonce>>>>)[1] = "MessageData"

\* receive_messages_proof, up to the verified messages.  The relayer is faithful if
\* the nodes of all messages are there, or those of the lane state where there are
\* no messages, whatever other nodes it adds.
ReceiveMessagesProof(hash, lane, start, end, messages_count, nodes) ==
    LET storage == storages[bridged][BlockOf(hash)]
        laneKey == <<BridgedPallet, "OutboundLanes", <<lane>>>>
        faithful == /\ IsImported(hash)
                    /\ Readable(storage, lane, start, end)
                    /\ RecordedAt(hash, MessageKeys(lane, start, end)) \subseteq nodes
                    /\ IF start <= end
                       THEN messages_count = end - start + 1
                       ELSE laneKey \in DOMAIN storage /\ RecordedAt(hash, {laneKey}) \subseteq nodes
    IN  /\ answer' = [faithful |-> faithful,
                      result |-> VerifyMessagesProof(
                                   MessagesProof(hash, nodes, lane, start, end), messages_count)]
        /\ UNCHANGED <<bridged, storages, headers, paraHeads>>

\* receive_messages_delivery_proof, up to the verified lane data.
ReceiveDeliveryProof(hash, lane, nodes) ==
    LET key == <<BridgedPallet, "InboundLanes", <<lane>>>>
        faithful == /\ IsImported(hash)
                    /\ key \in DOMAIN storages[bridged][BlockOf(hash)]
                    /\ RecordedAt(hash, {key}) \subseteq nodes
    IN  /\ answer' = [faithful |-> faithful, result |-> VerifyDeliveryProof(hash, nodes, lane)]
        /\ UNCHANGED <<bridged, storages, headers, paraHeads>>

NoAnswer == [faithful |-> FALSE, result |-> Rejected]

\* The pallet goes on with the answer.
Return ==
    /\ answer # NoAnswer
    /\ answer' = NoAnswer
    /\ UNCHANGED <<bridged, storages, headers, paraHeads>>

Init ==
    /\ bridged \in {Relay, BridgedPara}
    /\ storages = [c \in Chains |-> <<>>]
    /\ headers = <<>>
    /\ paraHeads = [p \in Paras |-> {}]
    /\ answer = NoAnswer

ChainNext ==
    \/ \E pallet \in Pallets, lane \in Lanes : SendAtBridged(pallet, lane, "MessageData")
    \/ \E lane \in Lanes : SendAtBridged(BridgedPallet, lane, "Legacy")
    \/ \E pallet \in Pallets, lane \in Lanes : DeliverAtBridged(pallet, lane)
    \/ \E c \in Chains \ {bridged} : PlainBlock(c)
    \/ \E number \in 1..Len(storages[Relay]) : ImportHeader(number)

\* submit_parachain_heads: the nodes need not be those of the parachain or of the
\* relay block that the call names, and the block need not be an imported one.
SubmitSomeHead ==
    \E number \in 1..Len(storages[Relay]), p \in Paras, others \in OtherBlocks :
        LET recorded == RecordedNodes(storages[Relay][number], {<<"Paras", "Heads", <<p>>>>})
        IN  \E nodes \in Losing(Mixed(recorded, others)) : SubmitParachainHead(p, number, nodes)

\* The relayer declares the number of messages rightly, or one more.
ReceiveSomeMessages ==
    \E hash \in Hashes, lane \in Lanes, start \in 1..MaxNonce, end \in 1..MaxNonce,
       others \in OtherBlocks :
        LET keys == MessageKeys(lane, start, end) \cup {<<BridgedPallet, "OutboundLanes", <<lane>>>>}
            count == end - start + 1
        IN  \E nodes \in Losing(Mixed(RecordedAt(hash, keys), others)),
               messages_count \in {count, count + 1} :
              ReceiveMessagesProof(hash, lane, start, end, messages_count, nodes)

ReceiveSomeDelivery ==
    \E hash \in Hashes, lane \in Lanes, others \in OtherBlocks :
        LET keys == {<<BridgedPallet, "InboundLanes", <<lane>>>>}
        IN  \E nodes \in Losing(Mixed(RecordedAt(hash, keys), others)) :
              ReceiveDeliveryProof(hash, lane, nodes)

Next ==
    \/ answer = NoAnswer /\ (ChainNext \/ SubmitSomeHead \/ ReceiveSomeMessages \/ ReceiveSomeDelivery)
    \/ Return

Spec == Init /\ [][Next]_vars

-----------------------------------------------------------------------------
(* The inductive invariant of the proofs.                                      *)

IsKey(key) == key = <<key[1], key[2], key[3]>>

\* The storage of a chain holds values of the types that its maps have.
IsStorage(storage) ==
    /\ storage = [key \in DOMAIN storage |-> storage[key]]
    /\ \A key \in DOMAIN storage :
         /\ IsKey(key)
         /\ key[2] = "OutboundLanes" => Decodes(storage[key], "OutboundLaneData")
         /\ key[2] = "InboundLanes" => Decodes(storage[key], "InboundLaneData")

HeadsOf(p) == {HeadOf(p, n) : n \in 1..Len(storages[p])}

\* Every chain has a sequence of storages.
IsSequence(s) == s \in Seq({s[i] : i \in DOMAIN s})
StoragesOK ==
    /\ storages = [c \in Chains |-> storages[c]]
    /\ \A c \in Chains : /\ IsSequence(storages[c])
                         /\ \A b \in 1..Len(storages[c]) : IsStorage(storages[c][b])

\* The heads that a relay block stores are heads of their parachains.
RelayHeadsOK ==
    \A b \in 1..Len(storages[Relay]), p \in Paras :
        ParachainHeadKey(p) \in DOMAIN storages[Relay][b] =>
            storages[Relay][b][ParachainHeadKey(p)] \in HeadsOf(p)

\* The relay blocks that are finalized as far as the GRANDPA pallet has been told.
Finalized == IF headers = <<>> THEN {} ELSE 1..headers[1]

\* Every head that the parachains pallet holds is a head of that parachain, which a
\* finalized relay block has stored under it, although proofs mix the nodes of
\* blocks and parachains, name blocks that are not imported and lose nodes.
ImportedHeadsAreReal ==
    \A p \in Paras : \A head \in paraHeads[p] :
        /\ head \in HeadsOf(p)
        /\ \E n \in Finalized : head = Lookup(storages[Relay][n], <<"Paras", "Heads", <<p>>>>)

StorageInv ==
    /\ bridged \in {Relay, BridgedPara}
    /\ StoragesOK
    /\ RelayHeadsOK
    /\ headers \in Seq(1..Len(storages[Relay]))
    /\ \A i \in 1..Len(headers) : headers[i] <= headers[1]
    /\ paraHeads = [p \in Paras |-> paraHeads[p]]
    /\ ImportedHeadsAreReal

-----------------------------------------------------------------------------
(* Properties. *)

\* Whatever nodes a relayer puts together, what the pallets read from an accepted
\* proof was in the storage of the bridged chain at the block of the imported
\* header: the messages of this lane and of the bridged pallet instance, with
\* their nonces, the outbound lane state if any, the inbound lane state.
AcceptedProofsAreTrue ==
    LET result == answer.result
        At(key) == Lookup(storages[bridged][BlockOf(result.hash)], key)
    IN  /\ result.verdict # "rejected" => IsImported(result.hash)
        /\ result.verdict = "messages" =>
             /\ \A i \in 1..Len(result.messages) :
                  result.messages[i] =
                    At(<<BridgedPallet, "OutboundMessages", <<result.lane, result.start + i - 1>>>>)
             /\ result.lane_state \subseteq {At(<<BridgedPallet, "OutboundLanes", <<result.lane>>>>)}
        /\ result.verdict = "lane" =>
             result.lane_data = {At(<<BridgedPallet, "InboundLanes", <<result.lane>>>>)}

\* A relayer that proves the messages, with or without the lane state, only the
\* lane state, or the inbound lane is never refused: the keys that the pallets
\* compute are the ones under which the bridged chain stores its data.
FaithfulProofsAccepted == answer.faithful => answer.result.verdict # "rejected"
=============================================================================
